------------------------------ MODULE Sessions ------------------------------
(***************************************************************************)
(* Voter sessions: backend/src/services/sessionStore.ts with the           *)
(* middleware of middleware/sessionAuth.ts and the session routes of       *)
(* routes/voter.ts.                                                        *)
(*                                                                         *)
(* Resolving a token, extending its session, revoking a row and creating   *)
(* one are separate database calls, so requests that present the same      *)
(* token interleave between them.  A token is named by the session it      *)
(* opens.  A holder is a voter on the roll of one election: the columns    *)
(* election_id, voter_nid_hash and nullifier_hash, which are written       *)
(* together and never change.                                              *)
(***************************************************************************)
EXTENDS Integers

CONSTANTS
    Holders, Devices,
    SessionIds,     \* bound: the sessions that can ever be created
    Requests,       \* bound: the HTTP requests that can ever arrive
    Never,          \* revoked_at of a live session
    None,           \* no row, no token, no request, no parent
    TTL,            \* SESSION_TTL_MS
    MaxTime,        \* bound: the last tick of the clock
    SerialClient    \* TRUE when one token is not refreshed twice at a time

ASSUME TTLAssumption == TTL \in Nat /\ MaxTime \in Nat
ASSUME NeverIsNoTime == Never \notin 0..MaxTime
ASSUME SerialClientIsBoolean == SerialClient \in BOOLEAN

VARIABLES
    clock,          \* Date.now()
    rows,           \* sessions rows; parent, the row a refresh replaced, is history
    delivered,      \* tokens that reached a client
    req,            \* what each request presented, and the time its function read
    pc,             \* the database call each request makes next
    answer          \* "ok" for 2xx, "refused" for 401, "error" for 5xx or nothing

vars == <<clock, rows, delivered, req, pc, answer>>

-----------------------------------------------------------------------------
Times == 0..MaxTime

Kinds == {"issue", "use", "refresh", "signOut", "signOutEverywhere"}

Row == [holder : Holders, device : Devices, expires : 0..(MaxTime + TTL),
        revoked : Times \cup {Never}, parent : SessionIds \cup {None}]

Request == [kind : Kinds, token : SessionIds \cup {None}, holder : Holders,
            device : Devices, at : Times]

\* None stands for what is not there.
ASSUME NoneIsNothing == None \notin SessionIds /\ None \notin Row

Exists(s) == rows[s] # None

Live(s) == Exists(s) /\ rows[s].revoked = Never

Active(r) == pc[r] \notin {"idle", "done"}

Awaits(r, call) ==
    /\ pc' = [pc EXCEPT ![r] = call]
    /\ UNCHANGED answer

Answers(r, a) ==
    /\ pc' = [pc EXCEPT ![r] = "done"]
    /\ answer' = [answer EXCEPT ![r] = a]

\* The next function of the handler takes its own Date.now().
ReadsClock(r) == req' = [req EXCEPT ![r].at = clock]

-----------------------------------------------------------------------------
\* POST /voter/session: the nid was verified and the voter is registered.
AskForSession(r, h, d) ==
    /\ pc[r] = "idle"
    /\ req' = [req EXCEPT ![r] =
                 [kind |-> "issue", token |-> None, holder |-> h, device |-> d, at |-> clock]]
    /\ Awaits(r, "create")
    /\ UNCHANGED <<clock, rows, delivered>>

\* A request with a bearer token and a device header reaches requireSession.
PresentToken(r, s, d, k) ==
    /\ pc[r] = "idle" /\ s \in delivered /\ Exists(s)
    /\ (SerialClient /\ k = "refresh") =>
           \A q \in Requests : ~(Active(q) /\ req[q].kind = "refresh" /\ req[q].token = s)
    /\ req' = [req EXCEPT ![r] = [kind |-> k, token |-> s, holder |-> rows[s].holder,
                                  device |-> d, at |-> clock]]
    /\ Awaits(r, "lookup")
    /\ UNCHANGED <<clock, rows, delivered>>

\* resolveSession, on the row as it is at this moment.
Resolves(r) ==
    LET s == rows[req[r].token]
    IN  s.revoked = Never /\ s.expires > req[r].at /\ s.device = req[r].device

Lookup(r) ==
    /\ pc[r] = "lookup"
    /\ IF Resolves(r) THEN Awaits(r, "touch") ELSE Answers(r, "refused")
    /\ UNCHANGED <<clock, rows, delivered, req>>

\* What the route does once the middleware has let the request through.
Route(r) ==
    /\ ReadsClock(r)
    /\ CASE req[r].kind = "refresh" -> Awaits(r, "recheck")
         [] req[r].kind = "signOut" -> Awaits(r, "signOut")
         [] req[r].kind = "signOutEverywhere" -> Awaits(r, "signOutEverywhere")
         [] OTHER -> Answers(r, "ok")

\* Broken: the window grows by a TTL from wherever it was.
ExtendedFurther(s, at) == [s EXCEPT !.expires = @ + TTL]

\* Broken: the row that was read is written back whole, live as it was then.
ExtendedWhole(s, at) == [s EXCEPT !.expires = at + TTL, !.revoked = Never]

\* repo.extend: the two columns of the sliding window, whatever else has changed.
Extended(s, at) == [s EXCEPT !.expires = at + TTL]

Touch(r) ==
    /\ pc[r] = "touch"
    /\ rows' = [rows EXCEPT ![req[r].token] = Extended(@, req[r].at)]
    /\ Route(r)
    /\ UNCHANGED <<clock, delivered>>

\* A failed extension is only logged: the request goes on.
TouchFails(r) ==
    /\ pc[r] = "touch"
    /\ Route(r)
    /\ UNCHANGED <<clock, rows, delivered>>

-----------------------------------------------------------------------------
\* POST /voter/session/refresh: rotateSession.

\* Broken: the middleware has resolved the token, so it is not resolved again.
RecheckSkipped(r) ==
    /\ pc[r] = "recheck"
    /\ Awaits(r, "retire")
    /\ UNCHANGED <<clock, rows, delivered, req>>

Recheck(r) ==
    /\ pc[r] = "recheck"
    /\ IF Resolves(r) THEN Awaits(r, "retire") ELSE Answers(r, "refused")
    /\ UNCHANGED <<clock, rows, delivered, req>>

Revoked(s, at) == [s EXCEPT !.revoked = at]

\* Broken: a revocation that fails is logged and the new token issued all the same.
RetireOrNot(r) ==
    /\ pc[r] = "retire"
    /\ rows' \in {rows, [rows EXCEPT ![req[r].token] = Revoked(@, req[r].at)]}
    /\ Awaits(r, "create")
    /\ UNCHANGED <<clock, delivered, req>>

\* repo.revoke: unconditional, so a time already there is written over.  When only its
\* answer is lost the old token is gone and no new one was made.
Retire(r) ==
    /\ pc[r] = "retire"
    /\ rows' = [rows EXCEPT ![req[r].token] = Revoked(@, req[r].at)]
    /\ Awaits(r, "create") \/ Answers(r, "error")
    /\ UNCHANGED <<clock, delivered, req>>

\* Broken: the new session is bound to no device.
NewRowUnbound(r) ==
    [holder |-> req[r].holder, device |-> None, expires |-> req[r].at + TTL,
     revoked |-> Never, parent |-> req[r].token]

NewRow(r) ==
    [holder |-> req[r].holder, device |-> req[r].device, expires |-> req[r].at + TTL,
     revoked |-> Never, parent |-> req[r].token]

\* A refresh that cannot create its session answers 401 invalid_token.
Failures(r) ==
    {"error"} \cup (IF pc[r] = "create" /\ req[r].kind = "refresh" THEN {"refused"} ELSE {})

\* createSession, for a new sign-in or for a refresh (ck_sessions_valid_window refuses a
\* row already expired); the token is sent with the answer, and when the answer of the
\* insert is lost nobody ever holds it.
Create(r, s) ==
    /\ pc[r] = "create" /\ ~Exists(s) /\ req[r].at + TTL > clock
    /\ rows' = [rows EXCEPT ![s] = NewRow(r)]
    /\ \/ Answers(r, "ok") /\ delivered' = delivered \cup {s}
       \/ \E a \in Failures(r) : Answers(r, a) /\ UNCHANGED delivered
    /\ UNCHANGED <<clock, req>>

-----------------------------------------------------------------------------
\* POST /voter/session/revoke
SignOut(r) ==
    /\ pc[r] = "signOut"
    /\ rows' = [rows EXCEPT ![req[r].token] = Revoked(@, req[r].at)]
    /\ \E a \in {"ok", "error"} : Answers(r, a)
    /\ UNCHANGED <<clock, delivered, req>>

\* Broken: only the rows of the device that asks are revoked.
InScopeOfDevice(r, s) ==
    Live(s) /\ rows[s].holder = req[r].holder /\ rows[s].device = req[r].device

\* repo.revokeAll: the live rows of this voter in this election.
InScope(r, s) == Live(s) /\ rows[s].holder = req[r].holder

\* POST /voter/session/revoke-all, one UPDATE statement.
SignOutEverywhere(r) ==
    /\ pc[r] = "signOutEverywhere"
    /\ rows' = [s \in SessionIds |->
                  IF InScope(r, s) THEN Revoked(rows[s], req[r].at) ELSE rows[s]]
    /\ \E a \in {"ok", "error"} : Answers(r, a)
    /\ UNCHANGED <<clock, delivered, req>>

\* Broken: a failed sign-out is logged and answered 204.
CallFailsQuietly(r) ==
    /\ Active(r)
    /\ Answers(r, IF pc[r] = "signOut" THEN "ok" ELSE "error")
    /\ UNCHANGED <<clock, rows, delivered, req>>

\* A call fails without effect, or the process dies before it.
CallFails(r) ==
    /\ Active(r)
    /\ \E a \in Failures(r) : Answers(r, a)
    /\ UNCHANGED <<clock, rows, delivered, req>>

Tick ==
    /\ clock < MaxTime
    /\ clock' = clock + 1
    /\ UNCHANGED <<rows, delivered, req, pc, answer>>

-----------------------------------------------------------------------------
Init ==
    /\ clock = 0
    /\ rows = [s \in SessionIds |-> None]
    /\ delivered = {}
    /\ req = [r \in Requests |-> None]
    /\ pc = [r \in Requests |-> "idle"]
    /\ answer = [r \in Requests |-> "none"]

Arrive(r) ==
    \/ \E h \in Holders, d \in Devices : AskForSession(r, h, d)
    \/ \E s \in SessionIds, d \in Devices, k \in Kinds \ {"issue"} : PresentToken(r, s, d, k)

Step(r) ==
    \/ Lookup(r) \/ Touch(r) \/ TouchFails(r) \/ Recheck(r) \/ Retire(r)
    \/ \E s \in SessionIds : Create(r, s)
    \/ SignOut(r) \/ SignOutEverywhere(r) \/ CallFails(r)

Next == Tick \/ \E r \in Requests : Arrive(r) \/ Step(r)

Spec == Init /\ [][Next]_vars

-----------------------------------------------------------------------------
Calls == {"lookup", "touch", "recheck", "retire", "create", "signOut", "signOutEverywhere"}

TypeOK ==
    /\ clock \in Times
    /\ rows \in [SessionIds -> Row \cup {None}]
    /\ delivered \subseteq SessionIds
    /\ req \in [Requests -> Request \cup {None}]
    /\ pc \in [Requests -> Calls \cup {"idle", "done"}]
    /\ answer \in [Requests -> {"none", "ok", "refused", "error"}]

\* No session outlives its last use by more than the TTL, however extensions of
\* overlapping requests are ordered (resolveSession, "the sliding window").
IdleSessionsExpire ==
    \A s \in SessionIds : Exists(s) => rows[s].expires <= clock + TTL

\* A refresh never leaves two live ends: by the time a successor exists, the session it
\* replaces is revoked, whatever failed in between (rotateSession).
RotationRetiresParent ==
    \A s \in SessionIds : (Exists(s) /\ rows[s].parent # None) =>
        Exists(rows[s].parent) /\ ~Live(rows[s].parent)

\* 204 for a sign-out means that the session presented is revoked, and for good.
AckedSignOutRevokes ==
    \A r \in Requests :
        (answer[r] = "ok" /\ req[r].kind \in {"signOut", "signOutEverywhere"}) =>
            ~Live(req[r].token)

\* A revoked session is never live again: no extension under way, computed while the
\* session was live, brings it back (fn_sessions_guard, repo.extend).
RevocationIsFinal ==
    [][\A s \in SessionIds : (Exists(s) /\ ~Live(s)) => (Exists(s) /\ ~Live(s))']_vars

\* A holder with no live session, and no request under way that has already earned one.
Quiet(h) ==
    /\ \A s \in SessionIds : Live(s) => rows[s].holder # h
    /\ \A r \in Requests : pc[r] \in {"retire", "create"} => req[r].holder # h

\* Signing out everywhere is final: once a holder is quiet, only a new sign-in with the
\* nid can change that, not a refresh that is waiting (D6, revokeAllSessions).
SignOutIsFinal ==
    [][\A h \in Holders : Quiet(h) =>
          Quiet(h)' \/ \E r \in Requests, d \in Devices : AskForSession(r, h, d)]_vars

\* Signing out everywhere leaves no session of that voter alive (D6).
EverywhereMeansEverywhere ==
    [][\A r \in Requests : SignOutEverywhere(r) =>
          \A s \in SessionIds : Live(s)' => rows[s].holder # req[r].holder]_vars

\* A token buys one successor ("a stolen token has a single-use window (T15)").
OneSuccessorPerToken ==
    \A s, t \in SessionIds :
        (Exists(s) /\ Exists(t) /\ rows[s].parent = rows[t].parent /\ rows[s].parent # None)
            => s = t
=============================================================================
