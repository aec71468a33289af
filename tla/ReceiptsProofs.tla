---------------------------- MODULE ReceiptsProofs ----------------------------
(***************************************************************************)
(* Proofs about Receipts for any number of browsers, phones and batches.    *)
(***************************************************************************)
EXTENDS Receipts, TLAPS, FiniteSetTheorems

receiptsVars == <<vars, clientVars>>

-----------------------------------------------------------------------------
\* The types, and what the service's tables are over.
Seals == [key : {"real", "mock"}, candidates : {"real", "mock"}, opened : BOOLEAN]

Pages == [at : {"login", "vote", "checked", "done"},
          key : {"real", "mock", None}, candidates : {"real", "mock", None},
          audited : BOOLEAN, mocked : BOOLEAN,
          receipt : Nat \cup {None}, status : {"queued", "success", None},
          verdict : {"mock", "pending", "error", "tampered", "included", None}]

Phones == [screen : {"auth", "status", "ballot", "audit", "confirm", "receipt", "checking"},
           held : BOOLEAN, live : BOOLEAN, voteId : Nat \cup {None},
           verdict : [dense : {"pending", "included", None}, smt : {"member", "absent", None}]]

ReceiptsTypeOK ==
    /\ cast \in 0..MaxVotes /\ log \in Seq(SUBSET Votes) /\ rows \subseteq DOMAIN log
    /\ ballot \in [Web \cup App -> Nat]
    /\ sealed \in [Votes -> Seals \cup {None}]
    /\ page \in [Web -> Pages]
    /\ phone \in [App -> Phones]

LEMMA MaxVotesIsNat == MaxVotes \in Nat
BY ReceiptAssumption, FS_CardinalityType

\* A page past its loading holds a key and candidates; one about to send has discarded
\* the ballot its audit opened.
PagesAreOrdered ==
    \A w \in Web :
        /\ page[w].at \in {"vote", "checked"} =>
               page[w].key \in {"real", "mock"} /\ page[w].candidates \in {"real", "mock"}
        /\ page[w].at = "checked" => ~page[w].audited

\* A number the server gave out is that of the one ballot the voter can have.
ReceiptsAreOwn ==
    /\ \A w \in Web : page[w].status = "queued" => page[w].receipt = ballot[w] /\ ballot[w] # 0
    /\ \A a \in App : phone[a].voteId # None => phone[a].voteId = ballot[a] /\ ballot[a] # 0

InRows(id) == \E i \in rows : id \in log[i]

\* A batch that was found stays recorded: between the two answers of a phone, and after.
FoundStaysFound ==
    /\ \A w \in Web : page[w].verdict = "included" => InRows(page[w].receipt)
    /\ \A a \in App : (phone[a].screen = "checking" \/ phone[a].verdict.dense = "included") =>
                          InRows(phone[a].voteId)

ReceiptsInv ==
    /\ ReceiptsTypeOK /\ PagesAreOrdered /\ ReceiptsAreOwn /\ FoundStaysFound
    /\ StoredBallotsAreCountable

-----------------------------------------------------------------------------
\* The look-up tells "included" of a ballot in a recorded batch, "pending" of one in none.
LEMMA VerifyAnswers ==
    ASSUME NEW id
    PROVE  /\ Verify(id) \in {"pending", "error", "tampered", "included"}
           /\ Verify(id) = "included" => InRows(id)
           /\ Verify(id) = "pending" => ~InRows(id)
<1> DEFINE found == { i \in rows : id \in log[i] }
<1>1. found = {} <=> ~InRows(id)
  BY DEF InRows
<1>2. Verify(id) = CASE found = {} -> "pending"
                     [] Cardinality(found) > 1 -> "error"
                     [] \E i \in found : log[i] \cap gone # {} -> "error"
                     [] found \cap edited # {} -> "tampered"
                     [] OTHER -> "included"
  BY DEF Verify
<1>3. CASE found = {}
  BY <1>1, <1>2, <1>3
<1>4. CASE found # {}
  <2>1. Verify(id) \in {"error", "tampered", "included"}
    BY <1>2, <1>4
  <2> QED BY <1>1, <1>4, <2>1
<1> QED BY <1>3, <1>4

\* The service moves; what it recorded stays, and the clients stay where they are.
LEMMA ServiceStepShape ==
    ASSUME ReceiptsInv, ServiceNext
    PROVE  /\ cast' = cast /\ UNCHANGED clientVars
           /\ log' \in Seq(SUBSET Votes) /\ rows \subseteq rows' /\ rows' \subseteq DOMAIN log'
           /\ \A i \in DOMAIN log : i \in DOMAIN log' /\ log'[i] = log[i]
<1> USE MaxVotesIsNat DEF ReceiptsInv, ReceiptsTypeOK, Votes
<1>1. CASE Anchor
  BY <1>1 DEF ServiceNext, Anchor
<1>2. CASE Record \/ Stamp \/ Delete \/ Edit \/ Cover
  BY <1>2 DEF ServiceNext, Record, Stamp, Delete, Edit, Cover
<1> QED BY <1>1, <1>2 DEF ServiceNext

\* A ballot is stored for a voter who has none, and is sealed honestly.
LEMMA StoreShape ==
    ASSUME ReceiptsInv, NEW v \in Web \cup App, NEW seal \in Seals, Store(v, seal)
    PROVE  /\ ballot[v] = 0 /\ Honest(seal)
           /\ cast + 1 \in Votes /\ cast' = cast + 1
           /\ UNCHANGED <<log, rows>>
           /\ ballot' = [ballot EXCEPT ![v] = cast + 1] /\ ballot' \in [Web \cup App -> Nat]
           /\ sealed' = [sealed EXCEPT ![cast + 1] = seal] /\ sealed' \in [Votes -> Seals \cup {None}]
           /\ ~seal.opened => StoredBallotsAreCountable'
BY MaxVotesIsNat DEF ReceiptsInv, ReceiptsTypeOK, Store, Accepts, Cast, Votes,
   StoredBallotsAreCountable, Honest

LEMMA QuietShape ==
    ASSUME ReceiptsInv, Quiet
    PROVE  UNCHANGED <<cast, log, rows, ballot, sealed>> /\ StoredBallotsAreCountable'
BY DEF Quiet, vars, ReceiptsInv, StoredBallotsAreCountable, Honest

\* What every step leaves of the tables, whoever makes it.
TablesKeep ==
    /\ cast' \in 0..MaxVotes /\ log' \in Seq(SUBSET Votes) /\ rows' \subseteq DOMAIN log'
    /\ ballot' \in [Web \cup App -> Nat]
    /\ sealed' \in [Votes -> Seals \cup {None}]
    /\ \A v \in Web \cup App : ballot[v] # 0 => ballot'[v] = ballot[v]
    /\ \A id : InRows(id) => InRows(id)'
    /\ StoredBallotsAreCountable'

LEMMA ServiceKeepsTables ==
    ASSUME ReceiptsInv, ServiceNext
    PROVE  TablesKeep /\ UNCHANGED <<page, phone>>
<1>1. /\ cast' = cast /\ UNCHANGED clientVars
      /\ log' \in Seq(SUBSET Votes) /\ rows \subseteq rows' /\ rows' \subseteq DOMAIN log'
      /\ \A i \in DOMAIN log : i \in DOMAIN log' /\ log'[i] = log[i]
  BY ServiceStepShape
<1>2. \A id : InRows(id) => InRows(id)'
  BY <1>1 DEF InRows, ReceiptsInv, ReceiptsTypeOK
<1>3. StoredBallotsAreCountable'
  BY <1>1 DEF clientVars, ReceiptsInv, StoredBallotsAreCountable, Honest
<1> QED BY <1>1, <1>2, <1>3 DEF TablesKeep, clientVars, ReceiptsInv, ReceiptsTypeOK

LEMMA StoreKeepsTables ==
    ASSUME ReceiptsInv, NEW v \in Web \cup App, NEW seal \in Seals, Store(v, seal), ~seal.opened
    PROVE  TablesKeep /\ ballot'[v] = cast + 1 /\ cast + 1 \in Nat \ {0}
<1>1. /\ ballot[v] = 0 /\ cast + 1 \in Votes /\ cast' = cast + 1
      /\ UNCHANGED <<log, rows>>
      /\ ballot' = [ballot EXCEPT ![v] = cast + 1] /\ ballot' \in [Web \cup App -> Nat]
      /\ sealed' \in [Votes -> Seals \cup {None}]
      /\ StoredBallotsAreCountable'
  BY StoreShape
<1>2. \A id : InRows(id) => InRows(id)'
  BY <1>1 DEF InRows
<1> QED
  BY <1>1, <1>2, MaxVotesIsNat DEF TablesKeep, ReceiptsInv, ReceiptsTypeOK, Votes

LEMMA QuietKeepsTables ==
    ASSUME ReceiptsInv, Quiet
    PROVE  TablesKeep
<1>1. \A id : InRows(id) => InRows(id)'
  BY QuietShape DEF InRows
<1> QED BY <1>1, QuietShape DEF TablesKeep, ReceiptsInv, ReceiptsTypeOK

-----------------------------------------------------------------------------
\* The browser. What a page may become, given what the tables are after the step.
GoodPage(w, p) ==
    /\ p \in Pages
    /\ p.at \in {"vote", "checked"} => p.key \in {"real", "mock"} /\ p.candidates \in {"real", "mock"}
    /\ p.at = "checked" => ~p.audited
    /\ p.status = "queued" => p.receipt = ballot[w] /\ ballot[w] # 0
    /\ p.verdict = "included" => InRows(p.receipt)

LEMMA PageIsGood ==
    ASSUME ReceiptsInv, NEW w \in Web
    PROVE  GoodPage(w, page[w])
BY DEF ReceiptsInv, ReceiptsTypeOK, PagesAreOrdered, ReceiptsAreOwn, FoundStaysFound, GoodPage

\* A good page stays good while the tables keep what they hold.
LEMMA PageStaysGood ==
    ASSUME ReceiptsInv, TablesKeep, NEW w \in Web, NEW p, GoodPage(w, p)
    PROVE  GoodPage(w, p)'
BY DEF GoodPage, TablesKeep

\* The four ways a page goes on without a new receipt.
LEMMA QuietPages ==
    ASSUME ReceiptsInv, NEW w \in Web
    PROVE  /\ \A key, candidates \in {"real", "mock"} :
                  page[w].at = "login" =>
                      GoodPage(w, [page[w] EXCEPT !.at = "vote", !.key = key,
                                                  !.candidates = candidates])
           /\ page[w].at = "vote" =>
                  /\ GoodPage(w, [page[w] EXCEPT !.audited = TRUE])
                  /\ GoodPage(w, [page[w] EXCEPT !.at = "checked", !.audited = FALSE])
           /\ page[w].at = "checked" => GoodPage(w, [page[w] EXCEPT !.at = "vote"])
           /\ \A m \in BOOLEAN : GoodPage(w, FreshPage(m))
<1>1. GoodPage(w, page[w])
  BY PageIsGood
<1>2. ASSUME NEW key \in {"real", "mock"}, NEW candidates \in {"real", "mock"}
      PROVE  GoodPage(w, [page[w] EXCEPT !.at = "vote", !.key = key, !.candidates = candidates])
  BY <1>1 DEF GoodPage, Pages
<1>3. ASSUME page[w].at = "vote"
      PROVE  /\ GoodPage(w, [page[w] EXCEPT !.audited = TRUE])
             /\ GoodPage(w, [page[w] EXCEPT !.at = "checked", !.audited = FALSE])
  BY <1>1, <1>3 DEF GoodPage, Pages
<1>4. page[w].at = "checked" => GoodPage(w, [page[w] EXCEPT !.at = "vote"])
  BY <1>1 DEF GoodPage, Pages
<1>5. ASSUME NEW m \in BOOLEAN
      PROVE  GoodPage(w, FreshPage(m))
  BY NoneAssumption DEF GoodPage, Pages, FreshPage
<1> QED BY <1>2, <1>3, <1>4, <1>5

\* The end of a submission: a number the server gave, or one made up offline.
LEMMA ReceiptPages ==
    ASSUME ReceiptsInv, NEW w \in Web, NEW id \in Nat, NEW told \in {"queued", "success"},
           told = "queued" => id = ballot'[w] /\ id # 0
    PROVE  \E p : p = Receipt(w, id, told) /\ GoodPage(w, p)'
<1>1. PICK p : p = Receipt(w, id, told)
  OBVIOUS
<1>2. PICK m \in BOOLEAN : m = (page[w].mocked \/ id = MockId)
  BY DEF ReceiptsInv, ReceiptsTypeOK, Pages
<1>3. p = [at |-> "done", key |-> None, candidates |-> None, audited |-> FALSE, mocked |-> m,
           receipt |-> id, status |-> told, verdict |-> None]
  BY <1>1, <1>2 DEF Receipt, FreshPage
<1>4. p \in Pages
  BY <1>3 DEF Pages
<1>5. GoodPage(w, p)'
  BY <1>3, <1>4, NoneAssumption DEF GoodPage
<1> QED BY <1>1, <1>5

LEMMA WebStepKeepsInv ==
    ASSUME ReceiptsInv, NEW w \in Web, WebNext(w)
    PROVE  /\ TablesKeep /\ phone' = phone
           /\ \E p : page' = [page EXCEPT ![w] = p] /\ GoodPage(w, p)'
<1> DEFINE Good == \E p : page' = [page EXCEPT ![w] = p] /\ GoodPage(w, p)'
<1>1. page[w] \in Pages
  BY DEF ReceiptsInv, ReceiptsTypeOK
<1>2. ASSUME page[w].at = "checked"
      PROVE  Seal(w) \in Seals /\ ~Seal(w).opened
  BY <1>1, <1>2 DEF Seal, Sealed, Seals, Pages, ReceiptsInv, PagesAreOrdered
<1>3. ASSUME NEW p, Quiet, OnPage(w, p), GoodPage(w, p)
      PROVE  TablesKeep /\ phone' = phone /\ Good
  BY <1>3, QuietKeepsTables, PageStaysGood DEF OnPage
<1>4. CASE Login(w)
  <2>1. PICK key \in {"real", "mock"}, candidates \in {"real", "mock"} :
            OnPage(w, [page[w] EXCEPT !.at = "vote", !.key = key, !.candidates = candidates])
    BY <1>4 DEF Login
  <2> QED BY <1>3, <1>4, <2>1, QuietPages DEF Login
<1>5. CASE Audit(w)
  BY <1>3, <1>5, QuietPages DEF Audit
<1>6. CASE Check(w)
  BY <1>3, <1>6, QuietPages DEF Check
<1>7. CASE Submit(w)
  <2>1. CASE Store(w, Seal(w)) /\ OnPage(w, Receipt(w, cast + 1, "queued"))
    <3>1. TablesKeep /\ ballot'[w] = cast + 1 /\ cast + 1 \in Nat \ {0}
      BY <1>2, <1>7, <2>1, StoreKeepsTables DEF Submit
    <3>2. PICK p : p = Receipt(w, cast + 1, "queued") /\ GoodPage(w, p)'
      BY <3>1, ReceiptPages
    <3> QED BY <2>1, <3>1, <3>2 DEF OnPage
  <2>2. CASE OnPage(w, [page[w] EXCEPT !.at = "vote"]) /\ (Store(w, Seal(w)) \/ Quiet)
    <3>1. TablesKeep
      BY <1>2, <1>7, <2>2, StoreKeepsTables, QuietKeepsTables DEF Submit
    <3>2. PICK p : p = [page[w] EXCEPT !.at = "vote"]
      OBVIOUS
    <3>3. GoodPage(w, p)
      BY <1>7, <3>2, QuietPages DEF Submit
    <3>4. GoodPage(w, p)'
      BY <3>1, <3>3, PageStaysGood
    <3> QED BY <2>2, <3>1, <3>2, <3>4 DEF OnPage
  <2> QED BY <1>7, <2>1, <2>2 DEF Submit
<1>8. CASE SubmitOffline(w)
  <2>1. TablesKeep
    BY <1>2, <1>8, StoreKeepsTables, QuietKeepsTables DEF SubmitOffline
  <2>2. PICK p : p = Receipt(w, MockId, "success") /\ GoodPage(w, p)'
    BY ReceiptPages DEF MockId
  <2> QED BY <1>8, <2>1, <2>2 DEF SubmitOffline, OnPage
<1>9. CASE Leave(w)
  BY <1>1, <1>3, <1>9, QuietPages DEF Leave, Pages
<1>10. CASE Watch(w)
  <2>1. PICK verdict \in {"mock", IF page[w].receipt = MockId THEN "pending"
                                  ELSE Verify(page[w].receipt)} :
            OnPage(w, [page[w] EXCEPT !.verdict = verdict])
    BY <1>10 DEF Watch
  <2>2. verdict \in {"mock", "pending", "error", "tampered", "included"}
    BY <2>1, VerifyAnswers
  <2>3. verdict = "included" => InRows(page[w].receipt)
    BY <2>1, VerifyAnswers
  <2>4. GoodPage(w, [page[w] EXCEPT !.verdict = verdict])
    BY <2>2, <2>3, PageIsGood DEF GoodPage, Pages
  <2> QED BY <1>3, <1>10, <2>1, <2>4 DEF Watch
<1> QED
  BY <1>4, <1>5, <1>6, <1>7, <1>8, <1>9, <1>10 DEF WebNext

-----------------------------------------------------------------------------
\* The phone, likewise.
GoodPhone(a, p) ==
    /\ p \in Phones
    /\ p.voteId # None => p.voteId = ballot[a] /\ ballot[a] # 0
    /\ (p.screen = "checking" \/ p.verdict.dense = "included") => InRows(p.voteId)

LEMMA PhoneIsGood ==
    ASSUME ReceiptsInv, NEW a \in App
    PROVE  GoodPhone(a, phone[a])
BY DEF ReceiptsInv, ReceiptsTypeOK, ReceiptsAreOwn, FoundStaysFound, GoodPhone

LEMMA PhoneStaysGood ==
    ASSUME ReceiptsInv, TablesKeep, NEW a \in App, NEW p, GoodPhone(a, p)
    PROVE  GoodPhone(a, p)'
BY DEF GoodPhone, TablesKeep

\* No ballot of a recorded batch goes by the number of a phone that has none.
LEMMA NoneIsInNoRow == ReceiptsInv => ~InRows(None)
BY NoneAssumption DEF ReceiptsInv, ReceiptsTypeOK, InRows, Votes

\* Screens and sessions: the receipt and what was told of it stay as they are.
LEMMA PhoneScreens ==
    ASSUME ReceiptsInv, NEW a \in App, phone[a].screen # "checking",
           NEW screen \in {"auth", "status", "ballot", "audit", "confirm", "receipt"},
           NEW held \in BOOLEAN, NEW live \in BOOLEAN
    PROVE  GoodPhone(a, [phone[a] EXCEPT !.held = held, !.live = live, !.screen = screen])
BY PhoneIsGood DEF GoodPhone, Phones

\* A new receipt: the phone had none before, so it had been told of none.
LEMMA PhoneReceipt ==
    ASSUME ReceiptsInv, TablesKeep, NEW a \in App, phone[a].screen = "confirm", ballot[a] = 0,
           ballot'[a] \in Nat \ {0}
    PROVE  \E p : /\ p = [phone[a] EXCEPT !.voteId = ballot'[a], !.screen = "receipt"]
                  /\ GoodPhone(a, p)'
<1>1. PICK q : q = phone[a] /\ GoodPhone(a, q)
  BY PhoneIsGood
<1>2. PICK n \in Nat \ {0} : n = ballot'[a]
  OBVIOUS
<1>3. q.voteId = None /\ q.verdict.dense # "included"
  BY <1>1, NoneIsInNoRow DEF GoodPhone
<1>4. [q EXCEPT !.voteId = n, !.screen = "receipt"] \in Phones
  BY <1>1, <1>2 DEF GoodPhone, Phones
<1>5. GoodPhone(a, [q EXCEPT !.voteId = n, !.screen = "receipt"])'
  BY <1>1, <1>2, <1>3, <1>4 DEF GoodPhone, Phones
<1> QED BY <1>1, <1>2, <1>5

LEMMA AppStepKeepsInv ==
    ASSUME ReceiptsInv, NEW a \in App, AppNext(a)
    PROVE  /\ TablesKeep /\ page' = page
           /\ \E p : phone' = [phone EXCEPT ![a] = p] /\ GoodPhone(a, p)'
<1> DEFINE Good == \E p : phone' = [phone EXCEPT ![a] = p] /\ GoodPhone(a, p)'
<1>1. phone[a] \in Phones /\ phone = [phone EXCEPT ![a] = phone[a]]
  BY DEF ReceiptsInv, ReceiptsTypeOK
<1>2. ASSUME NEW p, Quiet, OnPhone(a, p), GoodPhone(a, p)
      PROVE  TablesKeep /\ page' = page /\ Good
  BY <1>2, QuietKeepsTables, PhoneStaysGood DEF OnPhone
<1>3. ASSUME Quiet, phone[a].screen # "checking",
             NEW screen \in {"auth", "status", "ballot", "audit", "confirm", "receipt"},
             NEW held \in BOOLEAN, NEW live \in BOOLEAN,
             OnPhone(a, [phone[a] EXCEPT !.held = held, !.live = live, !.screen = screen])
      PROVE  TablesKeep /\ page' = page /\ Good
  BY <1>2, <1>3, PhoneScreens
<1>4. CASE Authenticate(a)
  BY <1>3, <1>4 DEF Authenticate
<1>5. CASE SessionEnds(a)
  <2>1. GoodPhone(a, [phone[a] EXCEPT !.live = FALSE])
    BY PhoneIsGood DEF GoodPhone, Phones
  <2> QED BY <1>2, <1>5, <2>1 DEF SessionEnds
<1>6. CASE OpenBallot(a) \/ BeginAudit(a) \/ CastFresh(a) \/ Back(a) \/ Home(a)
  <2>1. PICK screen \in {"auth", "status", "ballot", "audit", "confirm", "receipt"} :
            OnPhone(a, [phone[a] EXCEPT !.screen = screen])
    BY <1>6 DEF OpenBallot, BeginAudit, CastFresh, Back, Home
  <2>2. phone[a].screen # "checking" /\ Quiet
    BY <1>6 DEF OpenBallot, BeginAudit, CastFresh, Back, Home
  <2>3. GoodPhone(a, [phone[a] EXCEPT !.screen = screen])
    BY <2>2, PhoneIsGood DEF GoodPhone, Phones
  <2> QED BY <1>2, <2>1, <2>2, <2>3
<1>7. CASE CastVote(a)
  <2>1. Sealed("real", "real", FALSE) \in Seals /\ ~Sealed("real", "real", FALSE).opened
    BY DEF Sealed, Seals
  <2>2. TablesKeep /\ ballot[a] = 0 /\ ballot'[a] = cast + 1 /\ cast + 1 \in Nat \ {0}
    BY <1>7, <2>1, StoreKeepsTables, StoreShape DEF CastVote
  <2>3. CASE OnPhone(a, [phone[a] EXCEPT !.voteId = cast + 1, !.screen = "receipt"])
    BY <1>7, <2>2, <2>3, PhoneReceipt DEF CastVote, OnPhone
  <2>4. CASE UNCHANGED <<page, phone>>
    BY <1>1, <2>2, <2>4, PhoneIsGood, PhoneStaysGood
  <2> QED BY <1>7, <2>3, <2>4 DEF CastVote
<1>8. CASE SignOut(a)
  <2>1. CASE OnPhone(a, [phone[a] EXCEPT !.held = FALSE, !.live = FALSE, !.screen = "auth"])
    BY <1>3, <1>8, <2>1 DEF SignOut
  <2>2. CASE OnPhone(a, [phone[a] EXCEPT !.live = FALSE])
    <3>1. GoodPhone(a, [phone[a] EXCEPT !.live = FALSE])
      BY PhoneIsGood DEF GoodPhone, Phones
    <3> QED BY <1>2, <1>8, <2>2, <3>1 DEF SignOut
  <2> QED BY <1>8, <2>1, <2>2 DEF SignOut
<1>9. CASE VerifyDense(a)
  <2>1. PICK answer : answer = Verify(phone[a].voteId)
    OBVIOUS
  <2>2. answer = "included" => InRows(phone[a].voteId)
    BY <2>1, VerifyAnswers
  <2>3. CASE answer = "included"
    <3>1. GoodPhone(a, [phone[a] EXCEPT !.screen = "checking", !.verdict = Unseen])
      BY <2>2, <2>3, PhoneIsGood, NoneAssumption DEF GoodPhone, Phones, Unseen
    <3> QED BY <1>2, <1>9, <2>1, <2>3, <3>1 DEF VerifyDense
  <2>4. CASE answer # "included"
    <3>1. PICK told \in {"pending", None} : told = IF answer = "pending" THEN answer ELSE None
      OBVIOUS
    <3>2. GoodPhone(a, [phone[a] EXCEPT !.verdict = [dense |-> told, smt |-> None]])
      BY <1>9, PhoneIsGood, NoneAssumption DEF GoodPhone, Phones, VerifyDense
    <3> QED BY <1>2, <1>9, <2>1, <2>4, <3>1, <3>2 DEF VerifyDense
  <2> QED BY <2>3, <2>4
<1>10. CASE VerifySparse(a)
  <2>1. PICK told \in {"member", "absent", None} : told = VerifySmt(phone[a].voteId)
    BY DEF VerifySmt
  <2>2. GoodPhone(a, [phone[a] EXCEPT !.screen = "receipt",
                                      !.verdict = [dense |-> "included", smt |-> told]])
    BY <1>10, PhoneIsGood DEF GoodPhone, Phones, VerifySparse
  <2> QED BY <1>2, <1>10, <2>1, <2>2 DEF VerifySparse
<1>11. CASE VerifyFails(a)
  <2>1. GoodPhone(a, [phone[a] EXCEPT !.screen = "receipt", !.verdict = Unseen])
    BY PhoneIsGood, NoneAssumption DEF GoodPhone, Phones, Unseen
  <2> QED BY <1>2, <1>11, <2>1 DEF VerifyFails
<1> QED
  BY <1>4, <1>5, <1>6, <1>7, <1>8, <1>9, <1>10, <1>11 DEF AppNext

-----------------------------------------------------------------------------
\* The invariant is that of the tables with every page and every phone good.
PagesAreGood == page \in [Web -> Pages] /\ \A w \in Web : GoodPage(w, page[w])

PhonesAreGood == phone \in [App -> Phones] /\ \A a \in App : GoodPhone(a, phone[a])

LEMMA InvFromParts ==
    ASSUME TablesKeep, PagesAreGood', PhonesAreGood'
    PROVE  ReceiptsInv'
<1>1. ReceiptsTypeOK'
  BY DEF ReceiptsTypeOK, TablesKeep, PagesAreGood, PhonesAreGood
<1>2. PagesAreOrdered'
  BY DEF PagesAreGood, GoodPage, PagesAreOrdered
<1>3. ReceiptsAreOwn'
  BY DEF PagesAreGood, GoodPage, PhonesAreGood, GoodPhone, ReceiptsAreOwn
<1>4. FoundStaysFound'
  BY DEF PagesAreGood, GoodPage, PhonesAreGood, GoodPhone, FoundStaysFound
<1> QED BY <1>1, <1>2, <1>3, <1>4 DEF ReceiptsInv, TablesKeep

LEMMA PagesMove ==
    ASSUME ReceiptsInv, TablesKeep, NEW w \in Web, NEW p,
           page' = [page EXCEPT ![w] = p], GoodPage(w, p)'
    PROVE  PagesAreGood'
<1>1. \A u \in Web : GoodPage(u, page[u])
  BY PageIsGood
<1>2. p \in Pages /\ page \in [Web -> Pages]
  BY DEF GoodPage, ReceiptsInv, ReceiptsTypeOK
<1>3. ASSUME NEW u \in Web
      PROVE  GoodPage(u, page[u])'
  <2>1. CASE u = w
    <3>1. page'[u] = p
      BY <1>2, <2>1
    <3> QED BY <2>1, <3>1 DEF GoodPage
  <2>2. CASE u # w
    <3>1. page'[u] = page[u]
      BY <1>2, <2>2
    <3> QED BY <1>1, <3>1 DEF GoodPage, TablesKeep
  <2> QED BY <2>1, <2>2
<1> QED BY <1>2, <1>3 DEF PagesAreGood

LEMMA PhonesMove ==
    ASSUME ReceiptsInv, TablesKeep, NEW a \in App, NEW p,
           phone' = [phone EXCEPT ![a] = p], GoodPhone(a, p)'
    PROVE  PhonesAreGood'
<1>1. \A u \in App : GoodPhone(u, phone[u])
  BY PhoneIsGood
<1>2. p \in Phones /\ phone \in [App -> Phones]
  BY DEF GoodPhone, ReceiptsInv, ReceiptsTypeOK
<1>3. ASSUME NEW u \in App
      PROVE  GoodPhone(u, phone[u])'
  <2>1. CASE u = a
    <3>1. phone'[u] = p
      BY <1>2, <2>1
    <3> QED BY <2>1, <3>1 DEF GoodPhone
  <2>2. CASE u # a
    <3>1. phone'[u] = phone[u]
      BY <1>2, <2>2
    <3> QED BY <1>1, <3>1 DEF GoodPhone, TablesKeep
  <2> QED BY <2>1, <2>2
<1> QED BY <1>2, <1>3 DEF PhonesAreGood

LEMMA ClientsStayGood ==
    ASSUME ReceiptsInv, TablesKeep
    PROVE  /\ page' = page => PagesAreGood'
           /\ phone' = phone => PhonesAreGood'
<1>1. \A w \in Web : GoodPage(w, page[w])
  BY PageIsGood
<1>2. \A a \in App : GoodPhone(a, phone[a])
  BY PhoneIsGood
<1>3. ASSUME page' = page
      PROVE  PagesAreGood'
  BY <1>1, <1>3 DEF PagesAreGood, TablesKeep, GoodPage, ReceiptsInv, ReceiptsTypeOK
<1>4. ASSUME phone' = phone
      PROVE  PhonesAreGood'
  BY <1>2, <1>4 DEF PhonesAreGood, TablesKeep, GoodPhone, ReceiptsInv, ReceiptsTypeOK
<1> QED BY <1>3, <1>4

LEMMA ReceiptsStepKeepsInv ==
    ASSUME ReceiptsInv, [ReceiptsNext]_receiptsVars
    PROVE  ReceiptsInv'
<1>1. CASE UNCHANGED receiptsVars
  BY <1>1 DEF receiptsVars, vars, clientVars, ReceiptsInv, ReceiptsTypeOK, PagesAreOrdered,
     ReceiptsAreOwn, FoundStaysFound, InRows, StoredBallotsAreCountable, Honest
<1>2. CASE ServiceNext
  BY <1>2, ServiceKeepsTables, ClientsStayGood, InvFromParts
<1>3. ASSUME NEW w \in Web, WebNext(w)
      PROVE  ReceiptsInv'
  <2>1. TablesKeep /\ PhonesAreGood'
    BY <1>3, WebStepKeepsInv, ClientsStayGood
  <2>2. PICK p : page' = [page EXCEPT ![w] = p] /\ GoodPage(w, p)'
    BY <1>3, WebStepKeepsInv
  <2> QED BY <2>1, <2>2, PagesMove, InvFromParts
<1>4. ASSUME NEW a \in App, AppNext(a)
      PROVE  ReceiptsInv'
  <2>1. TablesKeep /\ PagesAreGood'
    BY <1>4, AppStepKeepsInv, ClientsStayGood
  <2>2. PICK p : phone' = [phone EXCEPT ![a] = p] /\ GoodPhone(a, p)'
    BY <1>4, AppStepKeepsInv
  <2> QED BY <2>1, <2>2, PhonesMove, InvFromParts
<1> QED BY <1>1, <1>2, <1>3, <1>4 DEF ReceiptsNext

LEMMA ReceiptsInitHolds == ReceiptsInit => ReceiptsInv
<1> SUFFICES ASSUME ReceiptsInit PROVE ReceiptsInv
  OBVIOUS
<1>1. cast = 0 /\ log = <<>> /\ rows = {} /\ cast \in 0..MaxVotes
  BY MaxVotesIsNat DEF ReceiptsInit, Init
<1>2. ReceiptsTypeOK
  BY <1>1 DEF ReceiptsInit, ReceiptsTypeOK, FreshPage, Pages, Phones, Unseen
<1>3. PagesAreOrdered /\ ReceiptsAreOwn /\ FoundStaysFound
  BY NoneAssumption DEF ReceiptsInit, PagesAreOrdered, ReceiptsAreOwn, FoundStaysFound, FreshPage,
     Unseen
<1>4. StoredBallotsAreCountable
  BY <1>1 DEF StoredBallotsAreCountable
<1> QED BY <1>2, <1>3, <1>4 DEF ReceiptsInv

LEMMA ReceiptsInvHolds == ReceiptsSpec => []ReceiptsInv
BY ReceiptsInitHolds, ReceiptsStepKeepsInv, PTL DEF ReceiptsSpec, receiptsVars

\* Whatever answers are lost and whatever api.ts makes up in their place, a page or a phone
\* that shows a queued ballot shows the number of one the server stored for that voter.
THEOREM ReceiptsAreAlwaysBacked == ReceiptsSpec => []ReceiptsAreBacked
<1>1. ReceiptsInv => ReceiptsAreBacked
  BY DEF ReceiptsInv, ReceiptsAreOwn, ReceiptsAreBacked
<1> QED BY <1>1, ReceiptsInvHolds, PTL

\* No mixture of real and mock data and no order of auditing, confirming and retrying puts
\* an uncountable or an opened ballot among the stored ones (handleConfirm, App.tsx cast).
THEOREM StoredBallotsStayCountable == ReceiptsSpec => []StoredBallotsAreCountable
<1>1. ReceiptsInv => StoredBallotsAreCountable
  BY DEF ReceiptsInv
<1> QED BY <1>1, ReceiptsInvHolds, PTL

\* A voter told "included" has the ballot in a batch on the chain, at the browser from one
\* answer of GET /anchor/verify, on the phone from two between which the service moves.
THEOREM InclusionIsOnChain == ReceiptsSpec => []IncludedIsOnChain
<1>1. ReceiptsInv => IncludedIsOnChain
  BY DEF ReceiptsInv, ReceiptsTypeOK, FoundStaysFound, InRows, IncludedIsOnChain, Logged
<1> QED BY <1>1, ReceiptsInvHolds, PTL

\* Once found, a ballot is never again called pending on the phone: tampering, deletion and
\* doubled batches show as errors, and no batch leaves the table (App.tsx verify).
THEOREM InclusionIsNeverTakenBack == ReceiptsSpec => IncludedNeverPending
<1>1. ASSUME ReceiptsInv, ReceiptsInv', [ReceiptsNext]_receiptsVars
      PROVE  [\A a \in App :
                 phone[a].verdict.dense = "included" /\ phone'[a].voteId = phone[a].voteId
                     => phone'[a].verdict.dense # "pending"]_receiptsVars
  <2> SUFFICES ASSUME NEW a \in App, phone[a].verdict.dense = "included",
                      phone'[a].verdict.dense = "pending"
               PROVE  FALSE
    OBVIOUS
  <2>1. InRows(phone[a].voteId)
    BY <1>1 DEF ReceiptsInv, FoundStaysFound
  <2>2. PICK b \in App : AppNext(b)
    BY <1>1, ServiceKeepsTables, WebStepKeepsInv DEF ReceiptsNext, receiptsVars, clientVars
  <2>3. b = a
    BY <1>1, <2>2, AppStepKeepsInv DEF ReceiptsInv, ReceiptsTypeOK
  <2>4. phone[a] \in Phones /\ phone \in [App -> Phones] /\ AppNext(a)
    BY <1>1, <2>2, <2>3 DEF ReceiptsInv, ReceiptsTypeOK
  <2>5. PICK q : q = phone[a]
    OBVIOUS
  <2>6. q \in Phones /\ q.verdict.dense = "included"
    BY <2>4, <2>5
  <2>7. \A p : phone' = [phone EXCEPT ![a] = p] => p.verdict.dense = "pending"
    BY <2>4
  <2>8. CASE Authenticate(a) \/ SessionEnds(a) \/ OpenBallot(a) \/ BeginAudit(a) \/ CastFresh(a)
             \/ Back(a) \/ Home(a) \/ SignOut(a)
    <3> DEFINE Keeps == \E p : phone' = [phone EXCEPT ![a] = p] /\ p.verdict = q.verdict
    <3>1. ASSUME Authenticate(a) PROVE Keeps
      BY <2>5, <2>6, <3>1 DEF Authenticate, OnPhone, Phones
    <3>2. ASSUME SessionEnds(a) \/ SignOut(a) PROVE Keeps
      <4>1. PICK p \in {[q EXCEPT !.live = FALSE],
                        [q EXCEPT !.held = FALSE, !.live = FALSE, !.screen = "auth"]} :
                phone' = [phone EXCEPT ![a] = p]
        BY <2>5, <3>2 DEF SessionEnds, SignOut, OnPhone
      <4>2. p.verdict = q.verdict
        BY <2>6, <4>1 DEF Phones
      <4> QED BY <4>1, <4>2
    <3>3. ASSUME OpenBallot(a) \/ BeginAudit(a) \/ CastFresh(a) PROVE Keeps
      BY <2>5, <2>6, <3>3 DEF OpenBallot, BeginAudit, CastFresh, OnPhone, Phones
    <3>4. ASSUME Back(a) \/ Home(a) PROVE Keeps
      BY <2>5, <2>6, <3>4 DEF Back, Home, OnPhone, Phones
    <3>5. Keeps
      BY <2>8, <3>1, <3>2, <3>3, <3>4
    <3> QED BY <2>6, <2>7, <3>5
  <2>9. CASE CastVote(a)
    <3>1. CASE phone' = phone
      BY <3>1
    <3>2. CASE phone' = [phone EXCEPT ![a] = [q EXCEPT !.voteId = cast + 1, !.screen = "receipt"]]
      BY <2>6, <2>7, <3>2 DEF Phones
    <3> QED BY <2>5, <2>9, <3>1, <3>2 DEF CastVote, OnPhone
  <2>10. CASE VerifySparse(a) \/ VerifyFails(a)
    <3>1. CASE VerifySparse(a)
      BY <2>5, <2>6, <2>7, <3>1 DEF VerifySparse, OnPhone, Phones
    <3>2. CASE VerifyFails(a)
      BY <2>5, <2>6, <2>7, <3>2, NoneAssumption DEF VerifyFails, Unseen, OnPhone, Phones
    <3> QED BY <2>10, <3>1, <3>2
  <2>11. CASE VerifyDense(a)
    <3>1. PICK answer : answer = Verify(phone[a].voteId)
      OBVIOUS
    <3>2. answer # "pending"
      BY <2>1, <3>1, VerifyAnswers
    <3>3. CASE answer = "included"
      BY <2>5, <2>6, <2>7, <2>11, <3>1, <3>3, NoneAssumption DEF VerifyDense, Unseen, OnPhone, Phones
    <3>4. CASE answer # "included"
      BY <2>5, <2>6, <2>7, <2>11, <3>1, <3>2, <3>4, NoneAssumption DEF VerifyDense, OnPhone, Phones
    <3> QED BY <3>3, <3>4
  <2> QED BY <2>4, <2>8, <2>9, <2>10, <2>11 DEF AppNext
<1> QED BY <1>1, ReceiptsInvHolds, PTL DEF ReceiptsSpec, receiptsVars, IncludedNeverPending
=============================================================================
