------------------------------ MODULE Receipts ------------------------------
(***************************************************************************)
(* What a voter is told, and what is so. The browser pages (frontend/src/   *)
(* pages VoterLogin, VotingPage, VoteConfirmation, PublicWatchdog over      *)
(* utils/api.ts) and the phone (mobile-app/App.tsx over core-api and        *)
(* secureSessionStore) against the service as AnchorLog promises it. Every  *)
(* call may be refused, never arrive, or arrive and lose its answer. The    *)
(* browser then answers itself with mock data; the phone shows an error.    *)
(***************************************************************************)
EXTENDS AnchorLog, FiniteSets

CONSTANTS
    Web, App,       \* the voters using a browser, and those using a phone
    MaxBatches      \* dense batches in a behaviour

ASSUME ReceiptAssumption ==
    /\ Web \cap App = {} /\ IsFiniteSet(Web \cup App)
    /\ MaxVotes = Cardinality(Web \cup App) /\ MaxBatches \in Nat

ASSUME NoneAssumption == None \notin Nat /\ None \notin {"queued", "success", "included", "pending"}

VARIABLES
    ballot,     \* per voter, the number of the ballot stored for it, 0 if none
    sealed,     \* per ballot, what it was encrypted with and whether an audit opened it
    page,       \* per browser: where it is, what it loaded, its localStorage, its receipt
    phone       \* per phone: its screen, its stored session, its receipt, what it was told

clientVars == <<ballot, sealed, page, phone>>

Unseen == [dense |-> None, smt |-> None]

FreshPage(mocked) ==
    [at |-> "login", key |-> None, candidates |-> None, audited |-> FALSE, mocked |-> mocked,
     receipt |-> None, status |-> None, verdict |-> None]

ReceiptsInit ==
    /\ Init
    /\ ballot = [v \in Web \cup App |-> 0]
    /\ sealed = [n \in Votes |-> None]
    /\ page = [w \in Web |-> FreshPage(FALSE)]
    /\ phone = [a \in App |-> [screen |-> "auth", held |-> FALSE, live |-> FALSE,
                               voteId |-> None, verdict |-> Unseen]]

(***************************************************************************)
(* POST /vote. The proof of ballot validity is checked against the server's *)
(* own key and candidates: made with any other, it fails (400). A second    *)
(* ballot of one voter is refused (409), a deleted one included.            *)
(***************************************************************************)
Honest(seal) == seal.key = "real" /\ seal.candidates = "real"

Sealed(key, candidates, opened) == [key |-> key, candidates |-> candidates, opened |-> opened]

\* A server that takes the proof as it comes.
AcceptsAnyProof(v, seal) == ballot[v] = 0

Accepts(v, seal) == ballot[v] = 0 /\ Honest(seal)

Store(v, seal) ==
    /\ Accepts(v, seal)
    /\ Cast
    /\ ballot' = [ballot EXCEPT ![v] = cast + 1]
    /\ sealed' = [sealed EXCEPT ![cast + 1] = seal]

\* A look-up among the stored ballots instead of the batches.
VerifyStored(id) == IF id \in Stored THEN "included" ELSE "pending"

\* A look-up that misses a batch whose root was edited.
VerifyUnedited(id) ==
    LET found == { i \in rows \ edited : id \in log[i] }
    IN  IF found = {} THEN "pending" ELSE "included"

(***************************************************************************)
(* GET /anchor/verify: 404 in no batch, 500 in several or beside a deleted   *)
(* ballot, 409 for an edited root, and 200 with a proof that checks.        *)
(***************************************************************************)
Verify(id) ==
    LET found == { i \in rows : id \in log[i] }
    IN  CASE found = {} -> "pending"
          [] Cardinality(found) > 1 -> "error"
          [] \E i \in found : log[i] \cap gone # {} -> "error"
          [] found \cap edited # {} -> "tampered"
          [] OTHER -> "included"

\* GET /anchor/verify-smt: from the node's tree, which need not be the anchored one.
VerifySmt(id) == IF id \in gone THEN None ELSE IF id \in covered THEN "member" ELSE "absent"

(***************************************************************************)
(* The browser. A failed call is answered from the mock data of api.ts.     *)
(***************************************************************************)
OnPage(w, changed) ==
    /\ page' = [page EXCEPT ![w] = changed]
    /\ UNCHANGED phone

Quiet == UNCHANGED <<vars, ballot, sealed>>

\* registerVoter: by the server, or offline by the list of numbers that voted offline. Then
\* the voting page loads the key and the candidates, each from the server or made up.
Login(w) ==
    /\ page[w].at = "login"
    /\ ballot[w] = 0 \/ ~page[w].mocked
    /\ \E key, candidates \in {"real", "mock"} :
          OnPage(w, [page[w] EXCEPT !.at = "vote", !.key = key, !.candidates = candidates])
    /\ Quiet

\* handleAuditBallot: encrypts, opens and checks the ballot the voter would cast.
Audit(w) ==
    /\ page[w].at = "vote"
    /\ OnPage(w, [page[w] EXCEPT !.audited = TRUE])
    /\ Quiet

\* A confirmation that keeps the ballot it audited.
CheckAudited(w) ==
    /\ page[w].at = "vote"
    /\ ballot[w] = 0 \/ ~page[w].mocked
    /\ OnPage(w, [page[w] EXCEPT !.at = "checked"])
    /\ Quiet

\* handleConfirm discards the audited ballot; checkNullifier is its first await.
Check(w) ==
    /\ page[w].at = "vote"
    /\ ballot[w] = 0 \/ ~page[w].mocked
    /\ OnPage(w, [page[w] EXCEPT !.at = "checked", !.audited = FALSE])
    /\ Quiet

\* A made-up vote id: no ballot has it.
MockId == 0

Receipt(w, id, status) ==
    [FreshPage(page[w].mocked \/ id = MockId) EXCEPT !.at = "done", !.receipt = id,
                                                      !.status = status]

Seal(w) == Sealed(page[w].key, page[w].candidates, page[w].audited)

\* A refused ballot, or a stored one whose transaction answered the server with an error
\* (500), leaves the voter on the page.
Submit(w) ==
    /\ page[w].at = "checked"
    /\ \/ Store(w, Seal(w)) /\ OnPage(w, Receipt(w, cast + 1, "queued"))
       \/ OnPage(w, [page[w] EXCEPT !.at = "vote"]) /\ (Store(w, Seal(w)) \/ Quiet)

\* An offline answer that looks like the server's.
MockQueued(w) ==
    /\ page[w].at = "checked"
    /\ OnPage(w, Receipt(w, MockId, "queued"))
    /\ Store(w, Seal(w)) \/ Quiet

\* The offline answer: the request or its answer was lost.
SubmitOffline(w) ==
    /\ page[w].at = "checked"
    /\ OnPage(w, Receipt(w, MockId, "success"))
    /\ Store(w, Seal(w)) \/ Quiet

\* The voter reloads or starts again: only localStorage stays.
Leave(w) ==
    /\ page[w].at # "login"
    /\ OnPage(w, FreshPage(page[w].mocked))
    /\ Quiet

\* The watchdog page, given the receipt's id; offline everything is included.
Watch(w) ==
    /\ page[w].at = "done"
    /\ \E verdict \in {"mock", IF page[w].receipt = MockId THEN "pending" ELSE Verify(page[w].receipt)} :
          OnPage(w, [page[w] EXCEPT !.verdict = verdict])
    /\ Quiet

WebNext(w) ==
    \/ Login(w) \/ Audit(w) \/ Check(w) \/ Submit(w)
    \/ SubmitOffline(w) \/ Leave(w) \/ Watch(w)

(***************************************************************************)
(* The phone. Its session is held on the device and live at the server.     *)
(***************************************************************************)
OnPhone(a, changed) ==
    /\ phone' = [phone EXCEPT ![a] = changed]
    /\ UNCHANGED page

Works(a) == phone[a].held /\ phone[a].live

\* The new token replaces the stored one; an answer that is lost changes nothing here.
Authenticate(a) ==
    /\ phone[a].screen = "auth"
    /\ OnPhone(a, [phone[a] EXCEPT !.held = TRUE, !.live = TRUE, !.screen = "status"])
    /\ Quiet

\* The server no longer takes the token: it was left idle, or the voter signed out elsewhere.
SessionEnds(a) ==
    /\ phone[a].live
    /\ OnPhone(a, [phone[a] EXCEPT !.live = FALSE])
    /\ Quiet

OpenBallot(a) ==
    /\ phone[a].screen = "status" /\ Works(a)
    /\ OnPhone(a, [phone[a] EXCEPT !.screen = "ballot"])
    /\ Quiet

\* beginAudit: the phone offers no way past the audit; its ballot stays on the screen.
BeginAudit(a) ==
    /\ phone[a].screen = "ballot"
    /\ OnPhone(a, [phone[a] EXCEPT !.screen = "audit"])
    /\ Quiet

CastFresh(a) ==
    /\ phone[a].screen = "audit"
    /\ OnPhone(a, [phone[a] EXCEPT !.screen = "confirm"])
    /\ Quiet

Back(a) ==
    /\ phone[a].screen \in {"audit", "confirm"}
    /\ OnPhone(a, [phone[a] EXCEPT !.screen = "ballot"])
    /\ Quiet

\* cast() encrypts once more, with the real key and candidates: the phone has no others.
CastVote(a) ==
    /\ phone[a].screen = "confirm" /\ Works(a)
    /\ Store(a, Sealed("real", "real", FALSE))
    /\ \/ OnPhone(a, [phone[a] EXCEPT !.voteId = cast + 1, !.screen = "receipt"])
       \/ UNCHANGED <<page, phone>>         \* the answer is lost

Home(a) ==
    /\ phone[a].screen \in {"status", "ballot", "receipt"}
    /\ OnPhone(a, [phone[a] EXCEPT !.screen = "auth"])
    /\ Quiet

\* The store is cleared only after an answer that the session is revoked.
SignOut(a) ==
    /\ phone[a].screen # "checking" /\ Works(a)
    /\ \/ OnPhone(a, [phone[a] EXCEPT !.held = FALSE, !.live = FALSE, !.screen = "auth"])
       \/ OnPhone(a, [phone[a] EXCEPT !.live = FALSE])
    /\ Quiet

\* verify(): the dense answer, then the sparse one, then both are shown.
VerifyDense(a) ==
    /\ phone[a].screen = "receipt"
    /\ LET answer == Verify(phone[a].voteId)
       IN  OnPhone(a, IF answer = "included"
                      THEN [phone[a] EXCEPT !.screen = "checking", !.verdict = Unseen]
                      ELSE [phone[a] EXCEPT !.verdict =
                              [dense |-> IF answer = "pending" THEN answer ELSE None, smt |-> None]])
    /\ Quiet

VerifySparse(a) ==
    /\ phone[a].screen = "checking"
    /\ OnPhone(a, [phone[a] EXCEPT !.screen = "receipt",
                     !.verdict = [dense |-> "included", smt |-> VerifySmt(phone[a].voteId)]])
    /\ Quiet

VerifyFails(a) ==
    /\ phone[a].screen \in {"receipt", "checking"}
    /\ OnPhone(a, [phone[a] EXCEPT !.screen = "receipt", !.verdict = Unseen])
    /\ Quiet

AppNext(a) ==
    \/ Authenticate(a) \/ SessionEnds(a) \/ OpenBallot(a) \/ BeginAudit(a) \/ CastFresh(a)
    \/ Back(a) \/ CastVote(a) \/ Home(a) \/ SignOut(a) \/ VerifyDense(a) \/ VerifySparse(a) \/ VerifyFails(a)

ServiceNext ==
    /\ (Len(log) < MaxBatches /\ Anchor) \/ Record \/ Stamp \/ Delete \/ Edit \/ Cover
    /\ UNCHANGED clientVars

ReceiptsNext ==
    \/ ServiceNext
    \/ \E w \in Web : WebNext(w)
    \/ \E a \in App : AppNext(a)

ReceiptsSpec == ReceiptsInit /\ [][ReceiptsNext]_<<vars, clientVars>>
(***************************************************************************)
(* Properties                                                              *)
(***************************************************************************)

\* What a page or a phone calls queued for anchoring, or holds the number of, is a ballot
\* the server stored for that voter; what it made up offline never says so.
ReceiptsAreBacked ==
    /\ \A w \in Web : page[w].status = "queued" => page[w].receipt = ballot[w]
    /\ \A a \in App : phone[a].voteId # None => phone[a].voteId = ballot[a]

\* Every stored ballot was sealed with the election's key for its candidates, whatever
\* mixture of real and mock data the page that sent it had loaded, and is not one whose
\* content its voter's audit had opened (VotingPage.tsx handleConfirm, App.tsx cast).
StoredBallotsAreCountable ==
    \A n \in 1..cast : Honest(sealed[n]) /\ ~sealed[n].opened

\* A voter whom the service told that the ballot is included has it in a batch on the chain.
IncludedIsOnChain ==
    /\ \A w \in Web : page[w].verdict = "included" => page[w].receipt \in Logged
    /\ \A a \in App : phone[a].verdict.dense = "included" => phone[a].voteId \in Logged

\* A ballot once found in its batch is never again reported as pending: later faults show
\* as errors, and the report of a lost batch cannot be mistaken for an early one.
IncludedNeverPending ==
    [][\A a \in App :
        phone[a].verdict.dense = "included" /\ phone'[a].voteId = phone[a].voteId
            => phone'[a].verdict.dense # "pending"]_<<vars, clientVars>>
=============================================================================
