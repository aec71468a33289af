--------------------------- MODULE SessionsProofs ---------------------------
(***************************************************************************)
(* Proofs about Sessions for any number of voters, devices, sessions and   *)
(* overlapping requests, and any length of the sliding window.             *)
(***************************************************************************)
EXTENDS Sessions, TLAPS

\* What the position of a request in its chain of calls tells about its session.
RequestOK(r) ==
    /\ pc[r] # "idle" =>
         /\ req[r] \in Request
         /\ req[r].at <= clock
         /\ req[r].kind = "issue" => req[r].token = None
         /\ req[r].kind # "issue" =>
              /\ req[r].token \in SessionIds
              /\ Exists(req[r].token)
              /\ rows[req[r].token].holder = req[r].holder
    /\ pc[r] \in {"lookup", "touch"} => req[r].kind # "issue"
    /\ pc[r] \in {"recheck", "retire"} => req[r].kind = "refresh"
    /\ pc[r] \in {"signOut", "signOutEverywhere"} => req[r].kind = pc[r]
    /\ pc[r] = "create" => req[r].kind \in {"issue", "refresh"}
    /\ (pc[r] = "create" /\ req[r].kind = "refresh") => ~Live(req[r].token)
    /\ answer[r] = "ok" => pc[r] = "done"

SessionInv ==
    /\ TypeOK
    /\ \A r \in Requests : RequestOK(r)
    /\ IdleSessionsExpire
    /\ RotationRetiresParent
    /\ AckedSignOutRevokes

-----------------------------------------------------------------------------
LEMMA SessionInitHolds == Init => SessionInv
BY TTLAssumption DEF Init, SessionInv, TypeOK, RequestOK, IdleSessionsExpire, RotationRetiresParent,
   AckedSignOutRevokes, Exists, Live, Times

\* Every write to an existing row keeps its identity, and never revives it.
RowsPersist ==
    \A s \in SessionIds : Exists(s) =>
        /\ Exists(s)'
        /\ rows'[s].holder = rows[s].holder
        /\ rows'[s].parent = rows[s].parent
        /\ ~Live(s) => ~Live(s)'

LEMMA RevokedRow ==
    ASSUME NEW row \in Row, NEW at \in Times
    PROVE  /\ Revoked(row, at) \in Row
           /\ Revoked(row, at).holder = row.holder
           /\ Revoked(row, at).parent = row.parent
           /\ Revoked(row, at).expires = row.expires
           /\ Revoked(row, at).revoked = at
           /\ at # Never
           /\ Revoked(row, at) # None
BY NeverIsNoTime, NoneIsNothing DEF Revoked, Row, Times

LEMMA ExtendedRow ==
    ASSUME NEW row \in Row, NEW at \in Times
    PROVE  /\ Extended(row, at) \in Row
           /\ Extended(row, at).holder = row.holder
           /\ Extended(row, at).parent = row.parent
           /\ Extended(row, at).expires = at + TTL
           /\ Extended(row, at).revoked = row.revoked
           /\ Extended(row, at) # None
<1>1. at + TTL \in 0..(MaxTime + TTL)
  BY TTLAssumption DEF Times
<1>2. Extended(row, at) \in Row
  BY <1>1 DEF Extended, Row
<1> QED BY <1>2, NoneIsNothing DEF Extended, Row

\* What each action does to the table of sessions.
RowStep ==
    \/ rows' = rows
    \/ \E r \in Requests :
          /\ pc[r] = "touch"
          /\ rows' = [rows EXCEPT ![req[r].token] = Extended(@, req[r].at)]
    \/ \E r \in Requests :
          /\ pc[r] \in {"retire", "signOut"}
          /\ rows' = [rows EXCEPT ![req[r].token] = Revoked(@, req[r].at)]
    \/ \E r \in Requests :
          /\ pc[r] = "signOutEverywhere"
          /\ rows' = [s \in SessionIds |->
                        IF InScope(r, s) THEN Revoked(rows[s], req[r].at) ELSE rows[s]]
    \/ \E r \in Requests, s \in SessionIds :
          /\ pc[r] = "create" /\ ~Exists(s)
          /\ rows' = [rows EXCEPT ![s] = NewRow(r)]

LEMMA StepsOnRows ==
    ASSUME [Next]_vars
    PROVE  RowStep
<1> USE DEF RowStep
<1>1. CASE Tick \/ UNCHANGED vars
  BY <1>1 DEF Tick, vars
<1>2. ASSUME NEW r \in Requests, Arrive(r)
      PROVE  RowStep
  BY <1>2 DEF Arrive, AskForSession, PresentToken
<1>3. ASSUME NEW r \in Requests, Step(r)
      PROVE  RowStep
  <2>1. CASE Lookup(r) \/ TouchFails(r) \/ Recheck(r) \/ CallFails(r)
    BY <2>1 DEF Lookup, TouchFails, Recheck, CallFails
  <2>2. CASE Touch(r)
    BY <2>2 DEF Touch
  <2>3. CASE Retire(r) \/ SignOut(r)
    BY <2>3 DEF Retire, SignOut
  <2>4. CASE \E s \in SessionIds : Create(r, s)
    BY <2>4 DEF Create
  <2>5. CASE SignOutEverywhere(r)
    BY <2>5 DEF SignOutEverywhere
  <2> QED BY <1>3, <2>1, <2>2, <2>3, <2>4, <2>5 DEF Step
<1> QED BY <1>1, <1>2, <1>3 DEF Next

\* Facts about a request that has a token, or is about to insert a row.
LEMMA RequestFacts ==
    ASSUME SessionInv, NEW r \in Requests, pc[r] # "idle"
    PROVE  /\ req[r] \in Request /\ req[r].at \in Times /\ req[r].at <= clock
           /\ pc[r] \in {"lookup", "touch", "recheck", "retire", "signOut", "signOutEverywhere"}
                => /\ req[r].token \in SessionIds
                   /\ rows[req[r].token] \in Row
                   /\ rows[req[r].token].holder = req[r].holder
BY DEF SessionInv, TypeOK, RequestOK, Request, Exists

LEMMA NewRowOK ==
    ASSUME SessionInv, NEW r \in Requests, pc[r] = "create"
    PROVE  NewRow(r) \in Row /\ NewRow(r) # None /\ NewRow(r).expires <= clock + TTL
<1>1. req[r] \in Request /\ req[r].at \in Times /\ req[r].at <= clock /\ clock \in Times
  BY RequestFacts DEF SessionInv, TypeOK
<1>2. req[r].at + TTL \in 0..(MaxTime + TTL) /\ req[r].at + TTL <= clock + TTL
  BY <1>1, TTLAssumption DEF Times
<1>3. NewRow(r) \in Row
  BY <1>1, <1>2 DEF NewRow, Row, Request
<1> QED BY <1>2, <1>3, NoneIsNothing DEF NewRow

LEMMA RowStepKeepsRows ==
    ASSUME SessionInv, RowStep, clock' \in Times, clock' >= clock
    PROVE  /\ rows' \in [SessionIds -> Row \cup {None}]
           /\ RowsPersist
           /\ IdleSessionsExpire'
<1> DEFINE Good == /\ rows' \in [SessionIds -> Row \cup {None}]
                   /\ RowsPersist
                   /\ \A s \in SessionIds : Exists(s)' => rows'[s].expires <= clock + TTL
<1>1. /\ rows \in [SessionIds -> Row \cup {None}] /\ clock \in Times
      /\ \A s \in SessionIds : Exists(s) => rows[s].expires <= clock + TTL
  BY DEF SessionInv, TypeOK, IdleSessionsExpire
<1>2. ASSUME rows' = rows
      PROVE  Good
  BY <1>1, <1>2 DEF RowsPersist, Exists, Live
<1>3. ASSUME NEW r \in Requests, pc[r] = "touch",
             rows' = [rows EXCEPT ![req[r].token] = Extended(@, req[r].at)]
      PROVE  Good
  <2> DEFINE t == req[r].token
  <2>1. /\ t \in SessionIds /\ rows[t] \in Row /\ req[r].at \in Times
        /\ req[r].at <= clock
    BY <1>3, RequestFacts
  <2>2. /\ Extended(rows[t], req[r].at) \in Row
        /\ Extended(rows[t], req[r].at).holder = rows[t].holder
        /\ Extended(rows[t], req[r].at).parent = rows[t].parent
        /\ Extended(rows[t], req[r].at).expires = req[r].at + TTL
        /\ Extended(rows[t], req[r].at).revoked = rows[t].revoked
        /\ Extended(rows[t], req[r].at) # None
    BY <2>1, ExtendedRow
  <2>3. req[r].at + TTL <= clock + TTL
    BY <2>1, <1>1, TTLAssumption DEF Times
  <2>4. \A s \in SessionIds : rows'[s] = IF s = t THEN Extended(rows[t], req[r].at) ELSE rows[s]
    BY <1>1, <1>3
  <2>5. rows' \in [SessionIds -> Row \cup {None}]
    BY <1>1, <1>3, <2>2
  <2>6. RowsPersist
    BY <2>2, <2>4 DEF RowsPersist, Exists, Live
  <2>7. \A s \in SessionIds : Exists(s)' => rows'[s].expires <= clock + TTL
    BY <1>1, <2>2, <2>3, <2>4 DEF Exists
  <2> QED BY <2>5, <2>6, <2>7
<1>4. ASSUME NEW r \in Requests, pc[r] \in {"retire", "signOut"},
             rows' = [rows EXCEPT ![req[r].token] = Revoked(@, req[r].at)]
      PROVE  Good
  <2> DEFINE t == req[r].token
  <2>1. t \in SessionIds /\ rows[t] \in Row /\ req[r].at \in Times
    BY <1>4, RequestFacts
  <2>2. /\ Revoked(rows[t], req[r].at) \in Row
        /\ Revoked(rows[t], req[r].at).holder = rows[t].holder
        /\ Revoked(rows[t], req[r].at).parent = rows[t].parent
        /\ Revoked(rows[t], req[r].at).expires = rows[t].expires
        /\ Revoked(rows[t], req[r].at).revoked # Never
        /\ Revoked(rows[t], req[r].at) # None
    BY <2>1, RevokedRow
  <2>3. \A s \in SessionIds : rows'[s] = IF s = t THEN Revoked(rows[t], req[r].at) ELSE rows[s]
    BY <1>1, <1>4
  <2>4. rows' \in [SessionIds -> Row \cup {None}]
    BY <1>1, <1>4, <2>2
  <2>5. RowsPersist
    BY <2>2, <2>3 DEF RowsPersist, Exists, Live
  <2>6. \A s \in SessionIds : Exists(s)' => rows'[s].expires <= clock + TTL
    BY <1>1, <2>1, <2>2, <2>3, NoneIsNothing DEF Exists
  <2> QED BY <2>4, <2>5, <2>6
<1>5. ASSUME NEW r \in Requests, pc[r] = "signOutEverywhere",
             rows' = [s \in SessionIds |->
                        IF InScope(r, s) THEN Revoked(rows[s], req[r].at) ELSE rows[s]]
      PROVE  Good
  <2>1. req[r].at \in Times
    BY <1>5, RequestFacts
  <2>2. ASSUME NEW s \in SessionIds
        PROVE  /\ rows'[s] \in Row \cup {None}
               /\ Exists(s)' => Exists(s) /\ rows'[s].expires = rows[s].expires
               /\ Exists(s) => /\ Exists(s)'
                               /\ rows'[s].holder = rows[s].holder
                               /\ rows'[s].parent = rows[s].parent
                               /\ ~Live(s) => ~Live(s)'
    <3>1. CASE InScope(r, s)
      <4>1. rows[s] \in Row /\ rows[s] # None
        BY <1>1, <3>1 DEF InScope, Live, Exists
      <4>2. rows'[s] = Revoked(rows[s], req[r].at)
        BY <1>5, <3>1
      <4> QED BY <2>1, <4>1, <4>2, RevokedRow DEF Exists, Live
    <3>2. CASE ~InScope(r, s)
      <4>1. rows'[s] = rows[s]
        BY <1>5, <3>2
      <4> QED BY <1>1, <4>1 DEF Exists, Live
    <3> QED BY <3>1, <3>2
  <2>3. rows' \in [SessionIds -> Row \cup {None}]
    BY <1>5, <2>2
  <2> QED BY <1>1, <2>2, <2>3 DEF RowsPersist
<1>6. ASSUME NEW r \in Requests, NEW n \in SessionIds, pc[r] = "create", ~Exists(n),
             rows' = [rows EXCEPT ![n] = NewRow(r)]
      PROVE  Good
  <2>1. NewRow(r) \in Row /\ NewRow(r) # None /\ NewRow(r).expires <= clock + TTL
    BY <1>6, NewRowOK
  <2>2. \A s \in SessionIds : rows'[s] = IF s = n THEN NewRow(r) ELSE rows[s]
    BY <1>1, <1>6
  <2>3. rows' \in [SessionIds -> Row \cup {None}]
    BY <1>1, <1>6, <2>1
  <2> QED BY <1>1, <1>6, <2>1, <2>2, <2>3 DEF RowsPersist, Exists, Live
<1>7. Good
  BY <1>1, <1>2, <1>3, <1>4, <1>5, <1>6 DEF RowStep, RowsPersist, Exists, Live
<1>8. IdleSessionsExpire'
  <2> SUFFICES ASSUME NEW s \in SessionIds, Exists(s)'
               PROVE  rows'[s].expires <= clock' + TTL
    BY DEF IdleSessionsExpire
  <2>1. rows'[s].expires <= clock + TTL /\ rows'[s].expires \in Int
    BY <1>7, TTLAssumption DEF Row, Exists
  <2>2. clock \in Int /\ clock' \in Int /\ TTL \in Int
    BY <1>1, TTLAssumption DEF Times
  <2> QED BY <2>1, <2>2
<1> QED BY <1>7, <1>8

-----------------------------------------------------------------------------
AckedSignOut(r) ==
    (answer[r] = "ok" /\ req[r].kind \in {"signOut", "signOutEverywhere"}) => ~Live(req[r].token)

\* A step of request r leaves every request as the invariant wants it.
Handled(r) ==
    /\ req' \in [Requests -> Request \cup {None}]
    /\ pc' \in [Requests -> Calls \cup {"idle", "done"}]
    /\ answer' \in [Requests -> {"none", "ok", "refused", "error"}]
    /\ \A q \in Requests \ {r} :
          req'[q] = req[q] /\ pc'[q] = pc[q] /\ answer'[q] = answer[q]
    /\ RequestOK(r)'
    /\ AckedSignOut(r)'

LEMMA OthersUndisturbed ==
    ASSUME SessionInv, RowsPersist, clock' \in Times, clock' >= clock, NEW q \in Requests,
           req'[q] = req[q], pc'[q] = pc[q], answer'[q] = answer[q]
    PROVE  RequestOK(q)' /\ AckedSignOut(q)'
<1>1. RequestOK(q) /\ AckedSignOut(q) /\ clock \in Times
  BY DEF SessionInv, TypeOK, AckedSignOutRevokes, AckedSignOut
<1>2. pc[q] # "idle" => req[q] \in Request /\ req[q].at \in Times
  BY <1>1 DEF RequestOK, Request
<1>3. pc[q] # "idle" => req[q].at <= clock'
  BY <1>1, <1>2 DEF RequestOK, Times
<1>4. (pc[q] # "idle" /\ req[q].kind # "issue") =>
         /\ req[q].token \in SessionIds
         /\ Exists(req[q].token)'
         /\ rows'[req[q].token].holder = req[q].holder
         /\ ~Live(req[q].token) => ~Live(req[q].token)'
  BY <1>1 DEF RequestOK, RowsPersist
<1>5. RequestOK(q)'
  <2>1. (pc[q] = "create" /\ req[q].kind = "refresh") => ~Live(req[q].token)'
    BY <1>1, <1>4 DEF RequestOK
  <2> QED BY <1>1, <1>2, <1>3, <1>4, <2>1 DEF RequestOK, Exists, Live
<1>6. AckedSignOut(q)'
  <2>1. answer[q] = "ok" => pc[q] # "idle"
    BY <1>1 DEF RequestOK
  <2>2. (answer[q] = "ok" /\ req[q].kind \in {"signOut", "signOutEverywhere"}) =>
            ~Live(req[q].token)'
    BY <1>1, <1>4, <2>1 DEF AckedSignOut
  <2> QED BY <2>2 DEF AckedSignOut, Live, Exists
<1> QED BY <1>5, <1>6

LEMMA ArriveHandled ==
    ASSUME SessionInv, NEW r \in Requests, Arrive(r)
    PROVE  Handled(r)
<1>1. /\ req \in [Requests -> Request \cup {None}]
      /\ pc \in [Requests -> Calls \cup {"idle", "done"}]
      /\ answer \in [Requests -> {"none", "ok", "refused", "error"}]
      /\ rows \in [SessionIds -> Row \cup {None}] /\ clock \in Times
      /\ RequestOK(r)
  BY DEF SessionInv, TypeOK
<1>2. ASSUME NEW h \in Holders, NEW d \in Devices, AskForSession(r, h, d)
      PROVE  Handled(r)
  <2> DEFINE new == [kind |-> "issue", token |-> None, holder |-> h, device |-> d, at |-> clock]
  <2>1. new \in Request
    BY <1>1 DEF Request, Kinds
  <2>2. /\ req' = [req EXCEPT ![r] = new] /\ pc' = [pc EXCEPT ![r] = "create"]
        /\ answer' = answer /\ pc[r] = "idle" /\ clock' = clock
    BY <1>2 DEF AskForSession, Awaits
  <2>3. answer[r] # "ok"
    BY <1>1, <2>2 DEF RequestOK
  <2>4. clock <= clock
    BY <1>1 DEF Times
  <2> QED BY <1>1, <2>1, <2>2, <2>3, <2>4 DEF Handled, RequestOK, AckedSignOut, Calls
<1>3. ASSUME NEW s \in SessionIds, NEW d \in Devices, NEW k \in Kinds \ {"issue"},
             PresentToken(r, s, d, k)
      PROVE  Handled(r)
  <2> DEFINE new == [kind |-> k, token |-> s, holder |-> rows[s].holder, device |-> d,
                     at |-> clock]
  <2>1. Exists(s) /\ rows[s] \in Row
    BY <1>1, <1>3 DEF PresentToken, Exists
  <2>2. new \in Request
    BY <1>1, <2>1 DEF Request, Row
  <2>3. /\ req' = [req EXCEPT ![r] = new] /\ pc' = [pc EXCEPT ![r] = "lookup"]
        /\ answer' = answer /\ pc[r] = "idle" /\ clock' = clock /\ rows' = rows
    BY <1>3 DEF PresentToken, Awaits
  <2>4. answer[r] # "ok"
    BY <1>1, <2>3 DEF RequestOK
  <2>5. clock <= clock
    BY <1>1 DEF Times
  <2> QED BY <1>1, <2>1, <2>2, <2>3, <2>4, <2>5 DEF Handled, RequestOK, AckedSignOut, Calls, Exists
<1> QED BY <1>2, <1>3 DEF Arrive

\* A request that keeps what it presented, except for a later reading of the clock.
LEMMA SameRequest ==
    ASSUME SessionInv, RowsPersist, NEW r \in Requests, Active(r), UNCHANGED clock,
           req' = req \/ ReadsClock(r)
    PROVE  /\ req' \in [Requests -> Request \cup {None}]
           /\ \A q \in Requests \ {r} : req'[q] = req[q]
           /\ req'[r] \in Request
           /\ req'[r].at <= clock'
           /\ req'[r].kind = req[r].kind /\ req'[r].token = req[r].token
           /\ req[r].kind = "issue" => req'[r].token = None
           /\ req[r].kind # "issue" =>
                /\ req[r].token \in SessionIds
                /\ Exists(req[r].token) /\ Exists(req[r].token)'
                /\ rows'[req[r].token].holder = req'[r].holder
                /\ ~Live(req[r].token) => ~Live(req[r].token)'
<1>1. /\ req \in [Requests -> Request \cup {None}] /\ clock \in Times
      /\ pc[r] # "idle" /\ RequestOK(r)
  BY DEF SessionInv, TypeOK, Active
<1>2. req[r] \in Request /\ req[r].at <= clock
  BY <1>1 DEF RequestOK
<1>3. clock <= clock
  BY <1>1 DEF Times
<1>4. /\ req' \in [Requests -> Request \cup {None}]
      /\ \A q \in Requests \ {r} : req'[q] = req[q]
      /\ req'[r] \in Request
      /\ req'[r].at <= clock
      /\ req'[r].kind = req[r].kind /\ req'[r].token = req[r].token
      /\ req'[r].holder = req[r].holder
  <2>1. CASE req' = req
    BY <1>1, <1>2, <2>1
  <2>2. CASE ReadsClock(r)
    <3>1. [req[r] EXCEPT !.at = clock] \in Request
      BY <1>1, <1>2 DEF Request
    <3> QED BY <1>1, <1>2, <1>3, <2>2, <3>1 DEF ReadsClock, Request
  <2> QED BY <2>1, <2>2
<1> QED BY <1>1, <1>4 DEF RequestOK, RowsPersist

LEMMA StepHandled ==
    ASSUME SessionInv, RowsPersist, NEW r \in Requests, Step(r)
    PROVE  Handled(r)
<1>1. /\ pc \in [Requests -> Calls \cup {"idle", "done"}]
      /\ answer \in [Requests -> {"none", "ok", "refused", "error"}]
      /\ rows \in [SessionIds -> Row \cup {None}]
      /\ RequestOK(r)
  BY DEF SessionInv, TypeOK
<1>2. Active(r)
  BY DEF Step, Lookup, Touch, TouchFails, Recheck, Retire, Create, SignOut, SignOutEverywhere,
     CallFails, Active
<1>3. UNCHANGED clock /\ (req' = req \/ ReadsClock(r))
  BY DEF Step, Lookup, Touch, TouchFails, Recheck, Retire, Create, SignOut, SignOutEverywhere,
     CallFails, Route
<1>4. /\ req' \in [Requests -> Request \cup {None}]
      /\ \A q \in Requests \ {r} : req'[q] = req[q]
      /\ req'[r] \in Request
      /\ req'[r].at <= clock'
      /\ req'[r].kind = req[r].kind /\ req'[r].token = req[r].token
      /\ req[r].kind = "issue" => req'[r].token = None
      /\ req[r].kind # "issue" =>
           /\ req[r].token \in SessionIds
           /\ Exists(req[r].token) /\ Exists(req[r].token)'
           /\ rows'[req[r].token].holder = req'[r].holder
           /\ ~Live(req[r].token) => ~Live(req[r].token)'
  BY <1>2, <1>3, SameRequest
<1>5. answer[r] # "ok"
  BY <1>1, <1>2 DEF RequestOK, Active
<1> DEFINE Waits(next) == pc' = [pc EXCEPT ![r] = next] /\ answer' = answer
           Ends(a) == pc' = [pc EXCEPT ![r] = "done"] /\ answer' = [answer EXCEPT ![r] = a]
           Signs == req[r].kind \in {"signOut", "signOutEverywhere"}
\* The two ways a step can leave its request.
<1>6. ASSUME NEW next \in Calls, Waits(next),
             next = "touch" => req[r].kind # "issue",
             next \in {"recheck", "retire"} => req[r].kind = "refresh",
             next \in {"signOut", "signOutEverywhere"} => req[r].kind = next,
             next # "lookup",
             next = "create" => req[r].kind = "refresh" /\ ~Live(req[r].token)'
      PROVE  Handled(r)
  BY <1>1, <1>4, <1>5, <1>6 DEF Handled, RequestOK, AckedSignOut, Exists, Live
<1>7. ASSUME NEW a \in {"ok", "refused", "error"}, Ends(a),
             (a = "ok" /\ Signs) => ~Live(req[r].token)'
      PROVE  Handled(r)
  BY <1>1, <1>4, <1>7 DEF Handled, RequestOK, AckedSignOut, Exists, Live
<1>8. CASE Lookup(r)
  BY <1>1, <1>6, <1>7, <1>8 DEF Lookup, Awaits, Answers, RequestOK, Calls
<1>9. CASE Touch(r) \/ TouchFails(r)
  <2>1. Route(r) /\ req[r].kind # "issue"
    BY <1>1, <1>9 DEF Touch, TouchFails, RequestOK
  <2> QED BY <1>6, <1>7, <2>1 DEF Route, Awaits, Answers, Calls
<1>10. CASE Recheck(r)
  BY <1>1, <1>6, <1>7, <1>10 DEF Recheck, Awaits, Answers, RequestOK, Calls
<1>11. ASSUME pc[r] \in {"retire", "signOut"},
              rows' = [rows EXCEPT ![req[r].token] = Revoked(@, req[r].at)]
       PROVE  ~Live(req[r].token)'
  <2>1. req[r].token \in SessionIds /\ rows[req[r].token] \in Row /\ req[r].at \in Times
    BY <1>11, RequestFacts
  <2>2. Revoked(rows[req[r].token], req[r].at).revoked # Never
    BY <2>1, RevokedRow
  <2> QED BY <1>1, <1>4, <1>11, <2>1, <2>2 DEF Live
<1>12. CASE Retire(r)
  BY <1>1, <1>6, <1>7, <1>11, <1>12 DEF Retire, Awaits, Answers, RequestOK, Calls
<1>13. CASE \E s \in SessionIds : Create(r, s)
  BY <1>1, <1>7, <1>13 DEF Create, Failures, Answers, RequestOK
<1>14. CASE SignOut(r)
  <2>1. ~Live(req[r].token)'
    BY <1>11, <1>14 DEF SignOut
  <2> QED BY <1>7, <1>14, <2>1 DEF SignOut, Answers
<1>15. CASE SignOutEverywhere(r)
  <2>1. /\ req[r].token \in SessionIds /\ rows[req[r].token] \in Row /\ req[r].at \in Times
        /\ rows[req[r].token].holder = req[r].holder
    BY <1>15, RequestFacts DEF SignOutEverywhere
  <2>2. Revoked(rows[req[r].token], req[r].at).revoked # Never
    BY <2>1, RevokedRow
  <2>3. ~Live(req[r].token)'
    BY <1>15, <2>1, <2>2 DEF SignOutEverywhere, InScope, Live, Exists
  <2> QED BY <1>7, <1>15, <2>3 DEF SignOutEverywhere, Answers
<1>16. CASE CallFails(r)
  BY <1>7, <1>16 DEF CallFails, Failures, Answers
<1> QED BY <1>8, <1>9, <1>10, <1>12, <1>13, <1>14, <1>15, <1>16 DEF Step

-----------------------------------------------------------------------------
\* A row that was not there was inserted by a request at its last call.
LEMMA NewRowsAreCreated ==
    ASSUME SessionInv, [Next]_vars, NEW s \in SessionIds, ~Exists(s), Exists(s)'
    PROVE  \E r \in Requests : /\ Create(r, s)
                               /\ pc[r] = "create" /\ rows' = [rows EXCEPT ![s] = NewRow(r)]
<1>1. rows \in [SessionIds -> Row \cup {None}] /\ rows[s] = None /\ rows'[s] # None
  BY DEF SessionInv, TypeOK, Exists
<1>2. ASSUME NEW r \in Requests, Touch(r) \/ Retire(r) \/ SignOut(r)
      PROVE  FALSE
  <2>1. req[r].token \in SessionIds /\ rows[req[r].token] \in Row
    BY <1>2, RequestFacts DEF Touch, Retire, SignOut
  <2>2. rows'[s] = rows[s]
    BY <1>1, <1>2, <2>1, NoneIsNothing DEF Touch, Retire, SignOut
  <2> QED BY <1>1, <2>2
<1>3. ASSUME NEW r \in Requests, SignOutEverywhere(r)
      PROVE  FALSE
  BY <1>1, <1>3 DEF SignOutEverywhere, InScope, Live, Exists
<1>4. ASSUME NEW r \in Requests, NEW t \in SessionIds, Create(r, t)
      PROVE  t = s /\ pc[r] = "create" /\ rows' = [rows EXCEPT ![s] = NewRow(r)]
  BY <1>1, <1>4 DEF Create
<1>5. ASSUME NEW r \in Requests, Lookup(r) \/ TouchFails(r) \/ Recheck(r) \/ CallFails(r)
      PROVE  FALSE
  BY <1>1, <1>5 DEF Lookup, TouchFails, Recheck, CallFails
<1>6. ASSUME NEW r \in Requests, Arrive(r)
      PROVE  FALSE
  BY <1>1, <1>6 DEF Arrive, AskForSession, PresentToken
<1>7. ~Tick /\ ~UNCHANGED vars
  BY <1>1 DEF Tick, vars
<1>8. PICK r \in Requests : \E t \in SessionIds : Create(r, t)
  BY <1>2, <1>3, <1>5, <1>6, <1>7 DEF Next, Step
<1> QED BY <1>4, <1>8

LEMMA RotationKept ==
    ASSUME SessionInv, [Next]_vars, RowsPersist
    PROVE  RotationRetiresParent'
<1> SUFFICES ASSUME NEW s \in SessionIds, Exists(s)', rows'[s].parent # None
             PROVE  (Exists(rows[s].parent) /\ ~Live(rows[s].parent))'
  BY DEF RotationRetiresParent, Exists, Live
<1>0. rows \in [SessionIds -> Row \cup {None}]
  BY DEF SessionInv, TypeOK
<1>1. \E p \in SessionIds : rows'[s].parent = p /\ Exists(p) /\ ~Live(p)
  <2>1. CASE Exists(s)
    <3>1. rows'[s].parent = rows[s].parent
      BY <2>1 DEF RowsPersist
    <3>2. rows[s].parent \in SessionIds
      BY <1>0, <2>1, <3>1 DEF Exists, Row
    <3> QED BY <2>1, <3>1, <3>2 DEF SessionInv, RotationRetiresParent
  <2>2. CASE ~Exists(s)
    <3>1. PICK r \in Requests : pc[r] = "create" /\ rows' = [rows EXCEPT ![s] = NewRow(r)]
      BY <2>2, NewRowsAreCreated
    <3>2. rows'[s].parent = req[r].token
      BY <1>0, <3>1 DEF NewRow
    <3>3. RequestOK(r)
      BY DEF SessionInv
    <3> QED BY <3>1, <3>2, <3>3 DEF RequestOK
  <2> QED BY <2>1, <2>2
<1> QED BY <1>1 DEF RowsPersist, Exists, Live

LEMMA ClockAdvances ==
    ASSUME SessionInv, [Next]_vars
    PROVE  clock' \in Times /\ clock' >= clock
<1>1. clock \in Times
  BY DEF SessionInv, TypeOK
<1>2. CASE Tick
  BY <1>1, <1>2, TTLAssumption DEF Tick, Times
<1>3. CASE UNCHANGED clock
  BY <1>1, <1>3 DEF Times
<1>4. ASSUME NEW r \in Requests, Arrive(r)
      PROVE  UNCHANGED clock
  BY <1>4 DEF Arrive, AskForSession, PresentToken
<1>5. ASSUME NEW r \in Requests, Step(r)
      PROVE  UNCHANGED clock
  BY <1>5 DEF Step, Lookup, Touch, TouchFails, Recheck, Retire, Create, SignOut,
     SignOutEverywhere, CallFails
<1> QED BY <1>2, <1>3, <1>4, <1>5 DEF Next, vars

LEMMA DeliveredKept ==
    ASSUME SessionInv, [Next]_vars
    PROVE  delivered' \subseteq SessionIds
<1>1. delivered \subseteq SessionIds
  BY DEF SessionInv, TypeOK
<1>2. ASSUME NEW r \in Requests, Arrive(r)
      PROVE  delivered' = delivered
  BY <1>2 DEF Arrive, AskForSession, PresentToken
<1>3. ASSUME NEW r \in Requests, Step(r)
      PROVE  delivered' \subseteq SessionIds
  BY <1>1, <1>3 DEF Step, Lookup, Touch, TouchFails, Recheck, Retire, Create, SignOut,
     SignOutEverywhere, CallFails
<1> QED BY <1>1, <1>2, <1>3 DEF Next, Tick, vars

LEMMA SessionStepKeepsInv ==
    ASSUME SessionInv, [Next]_vars
    PROVE  SessionInv' /\ RowsPersist
<1>1. RowStep /\ clock' \in Times /\ clock' >= clock /\ delivered' \subseteq SessionIds
  BY StepsOnRows, ClockAdvances, DeliveredKept
<1>2. rows' \in [SessionIds -> Row \cup {None}] /\ RowsPersist /\ IdleSessionsExpire'
  BY <1>1, RowStepKeepsRows
<1>3. RotationRetiresParent'
  BY <1>1, <1>2, RotationKept
<1> DEFINE Typed == /\ req' \in [Requests -> Request \cup {None}]
                    /\ pc' \in [Requests -> Calls \cup {"idle", "done"}]
                    /\ answer' \in [Requests -> {"none", "ok", "refused", "error"}]
           AllWell == \A q \in Requests : RequestOK(q)' /\ AckedSignOut(q)'
<1>4. Typed /\ AllWell
  <2>1. ASSUME NEW r \in Requests, Handled(r)
        PROVE  Typed /\ AllWell
    <3>1. ASSUME NEW q \in Requests
          PROVE  RequestOK(q)' /\ AckedSignOut(q)'
      <4>1. CASE q = r
        BY <2>1, <4>1 DEF Handled
      <4>2. CASE q # r
        BY <1>1, <1>2, <2>1, <4>2, OthersUndisturbed DEF Handled
      <4> QED BY <4>1, <4>2
    <3> QED BY <2>1, <3>1 DEF Handled
  <2>2. ASSUME UNCHANGED <<req, pc, answer>>
        PROVE  Typed /\ AllWell
    BY <1>1, <1>2, <2>2, OthersUndisturbed DEF SessionInv, TypeOK
  <2> QED BY <1>2, <2>1, <2>2, ArriveHandled, StepHandled DEF Next, Tick, vars
<1>5. TypeOK'
  BY <1>1, <1>2, <1>4 DEF TypeOK
<1>6. AckedSignOutRevokes'
  BY <1>4 DEF AckedSignOutRevokes, AckedSignOut, Live, Exists
<1> QED BY <1>2, <1>3, <1>4, <1>5, <1>6 DEF SessionInv

-----------------------------------------------------------------------------
\* Wherever the awaited calls of sessionStore.ts stand, a request holds what its position needs:
\* a row of its own holder, and at its insert a token that is already revoked.
THEOREM SessionInvariant == Spec => []SessionInv
BY SessionInitHolds, SessionStepKeepsInv, PTL DEF Spec

\* Type correctness of the session store and of its requests.
THEOREM SessionTypes == Spec => []TypeOK
BY SessionInvariant, PTL DEF SessionInv

\* No extension, however late, keeps a session alive longer than a TTL after the clock.
THEOREM SessionsExpire == Spec => []IdleSessionsExpire
BY SessionInvariant, PTL DEF SessionInv

\* A successor and the session it replaces are never both live, whatever failed between.
THEOREM RotationRetires == Spec => []RotationRetiresParent
BY SessionInvariant, PTL DEF SessionInv

\* A sign-out answered 204 has revoked the session that was presented.
THEOREM SignOutIsTruthful == Spec => []AckedSignOutRevokes
BY SessionInvariant, PTL DEF SessionInv

\* No write of any request under way makes a revoked session live again.
THEOREM RevokedStaysRevoked == Spec => RevocationIsFinal
<1>1. ASSUME SessionInv, [Next]_vars
      PROVE  [\A s \in SessionIds : (Exists(s) /\ ~Live(s)) => (Exists(s) /\ ~Live(s))']_vars
  BY <1>1, SessionStepKeepsInv DEF RowsPersist
<1> QED BY <1>1, SessionInvariant, PTL DEF Spec, RevocationIsFinal

\* After a sign-out everywhere, only knowing the nid opens a session again.
THEOREM SignedOutStaysOut == Spec => SignOutIsFinal
<1>1. ASSUME SessionInv, Next, NEW h \in Holders, Quiet(h)
      PROVE  Quiet(h)' \/ \E r \in Requests, d \in Devices : AskForSession(r, h, d)
  <2>1. RowsPersist /\ RowStep /\ rows \in [SessionIds -> Row \cup {None}]
    BY <1>1, SessionStepKeepsInv, StepsOnRows DEF SessionInv, TypeOK
  <2>2. ASSUME NEW s \in SessionIds, Live(s)'
        PROVE  rows'[s].holder # h
    <3>1. CASE Exists(s)
      BY <1>1, <2>1, <2>2, <3>1 DEF RowsPersist, Quiet
    <3>2. CASE ~Exists(s)
      <4>1. PICK r \in Requests : pc[r] = "create" /\ rows' = [rows EXCEPT ![s] = NewRow(r)]
        BY <1>1, <2>2, <3>2, NewRowsAreCreated DEF Live
      <4> QED BY <1>1, <2>1, <4>1 DEF NewRow, Quiet
    <3> QED BY <3>1, <3>2
  <2>3. SUFFICES ASSUME NEW q \in Requests, pc'[q] \in {"retire", "create"}, req'[q].holder = h
                 PROVE  \E r \in Requests, d \in Devices : AskForSession(r, h, d)
    BY <2>2 DEF Quiet, Live, Exists
  <2>4. pc \in [Requests -> Calls \cup {"idle", "done"}]
    BY <1>1 DEF SessionInv, TypeOK
  <2>5. ~(pc[q] \in {"retire", "create"} /\ req[q].holder = h)
    BY <1>1 DEF Quiet
  <2>6. ~(pc'[q] = pc[q] /\ req'[q] = req[q])
    BY <2>3, <2>5
  <2>7. ASSUME NEW r \in Requests, Step(r)
        PROVE  FALSE
    <3>1. q = r
      BY <1>1, <2>1, <2>6, <2>7, StepHandled DEF Handled
    <3>2. CASE Recheck(r)
      <4>1. pc[q] = "recheck" /\ Resolves(q) /\ req' = req
        BY <2>3, <2>4, <3>1, <3>2 DEF Recheck, Answers
      <4>2. /\ req[q].token \in SessionIds /\ rows[req[q].token].holder = req[q].holder
            /\ Exists(req[q].token)
        BY <1>1, <4>1 DEF SessionInv, RequestOK
      <4> QED BY <1>1, <2>3, <4>1, <4>2 DEF Resolves, Quiet, Live
    <3>3. CASE Retire(r)
      BY <2>3, <2>5, <3>1, <3>3 DEF Retire
    <3>4. CASE ~Recheck(r) /\ ~Retire(r)
      <4>1. pc'[q] \notin {"retire", "create"}
        BY <2>4, <2>7, <3>1, <3>4 DEF Step, Lookup, Touch, TouchFails, Route, Create, SignOut,
           SignOutEverywhere, CallFails, Awaits, Answers
      <4> QED BY <2>3, <4>1
    <3> QED BY <3>2, <3>3, <3>4
  <2>8. ASSUME NEW r \in Requests, Arrive(r)
        PROVE  \E d \in Devices : AskForSession(r, h, d)
    <3>1. q = r
      BY <1>1, <2>6, <2>8, ArriveHandled DEF Handled
    <3>2. ASSUME NEW s \in SessionIds, NEW d \in Devices, NEW k \in Kinds, PresentToken(r, s, d, k)
          PROVE  FALSE
      BY <2>3, <2>4, <3>1, <3>2 DEF PresentToken, Awaits
    <3>3. ASSUME NEW g \in Holders, NEW d \in Devices, AskForSession(r, g, d)
          PROVE  g = h
      <4>1. req \in [Requests -> Request \cup {None}]
        BY <1>1 DEF SessionInv, TypeOK
      <4> QED BY <2>3, <3>1, <3>3, <4>1 DEF AskForSession
    <3> QED BY <2>8, <3>2, <3>3 DEF Arrive
  <2> QED BY <1>1, <2>6, <2>7, <2>8 DEF Next, Tick
<1>2. ASSUME SessionInv, [Next]_vars
      PROVE  [\A h \in Holders : Quiet(h) =>
                 Quiet(h)' \/ \E r \in Requests, d \in Devices : AskForSession(r, h, d)]_vars
  BY <1>1, <1>2
<1> QED BY <1>2, SessionInvariant, PTL DEF Spec, SignOutIsFinal

\* Signing out everywhere leaves no live session of that voter, on any device.
THEOREM EverywhereIsEverywhere == Spec => EverywhereMeansEverywhere
<1>1. ASSUME SessionInv, NEW r \in Requests, SignOutEverywhere(r), NEW s \in SessionIds, Live(s)'
      PROVE  rows[s].holder # req[r].holder
  <2>1. req[r].at \in Times /\ rows \in [SessionIds -> Row \cup {None}]
    BY <1>1, RequestFacts DEF SignOutEverywhere, SessionInv, TypeOK
  <2>2. ~InScope(r, s)
    BY <1>1, <2>1, RevokedRow DEF SignOutEverywhere, InScope, Live, Exists
  <2> QED BY <1>1, <2>2 DEF SignOutEverywhere, InScope, Live, Exists
<1>2. ASSUME SessionInv, [Next]_vars
      PROVE  [\A r \in Requests : SignOutEverywhere(r) =>
                 \A s \in SessionIds : Live(s)' => rows[s].holder # req[r].holder]_vars
  BY <1>1, <1>2
<1> QED BY <1>2, SessionInvariant, PTL DEF Spec, EverywhereMeansEverywhere

-----------------------------------------------------------------------------
\* The single-use window of a token (T15): true of clients that do not refresh one token
\* twice at a time.  The revocation does not ask whether the row was still live, so
\* nothing in the store decides between two refreshes.
Refreshing(r) == Active(r) /\ req[r].kind = "refresh"

NoOverlap == \A q, r \in Requests :
    (q # r /\ Refreshing(q) /\ Refreshing(r)) => req[q].token # req[r].token

RetiredIsUnused == \A r \in Requests, s \in SessionIds :
    (Refreshing(r) /\ pc[r] \in {"retire", "create"} /\ Exists(s)) => rows[s].parent # req[r].token

SerialInv == SerialClient => NoOverlap /\ RetiredIsUnused /\ OneSuccessorPerToken

\* A refresh under way was under way, unless it arrived by this step.
LEMMA RefreshingWas ==
    ASSUME SessionInv, [Next]_vars, NEW q \in Requests, Refreshing(q)'
    PROVE  \/ Refreshing(q) /\ req'[q].token = req[q].token
           \/ /\ pc'[q] = "lookup"
              /\ \E s \in SessionIds, d \in Devices : PresentToken(q, s, d, "refresh")
<1>1. /\ pc \in [Requests -> Calls \cup {"idle", "done"}]
      /\ req \in [Requests -> Request \cup {None}]
  BY DEF SessionInv, TypeOK
<1>2. CASE UNCHANGED <<req, pc>>
  BY <1>2 DEF Refreshing, Active
<1>3. ASSUME NEW r \in Requests, Step(r)
      PROVE  Refreshing(q) /\ req'[q].token = req[q].token
  <2>1. Handled(r)
    BY <1>3, SessionStepKeepsInv, StepHandled DEF Next
  <2>2. Active(r) /\ UNCHANGED clock /\ (req' = req \/ ReadsClock(r))
    BY <1>3 DEF Step, Lookup, Touch, TouchFails, Recheck, Retire, Create, SignOut,
       SignOutEverywhere, CallFails, Active, Route
  <2>3. req'[r].kind = req[r].kind /\ req'[r].token = req[r].token
    BY <2>2, SessionStepKeepsInv, SameRequest
  <2> QED BY <2>1, <2>2, <2>3 DEF Handled, Refreshing, Active
<1>4. ASSUME NEW r \in Requests, Arrive(r)
      PROVE  \/ Refreshing(q) /\ req'[q].token = req[q].token
             \/ /\ pc'[q] = "lookup"
                /\ \E s \in SessionIds, d \in Devices : PresentToken(q, s, d, "refresh")
  <2>1. CASE q # r
    BY <1>4, <2>1, ArriveHandled DEF Handled, Refreshing, Active
  <2>2. CASE q = r
    <3>1. ASSUME NEW h \in Holders, NEW d \in Devices, AskForSession(r, h, d)
          PROVE  FALSE
      BY <1>1, <2>2, <3>1 DEF AskForSession, Refreshing
    <3>2. ASSUME NEW s \in SessionIds, NEW d \in Devices, NEW k \in Kinds, PresentToken(r, s, d, k)
          PROVE  k = "refresh" /\ pc'[q] = "lookup"
      BY <1>1, <2>2, <3>2 DEF PresentToken, Awaits, Refreshing
    <3> QED BY <1>4, <2>2, <3>1, <3>2 DEF Arrive
  <2> QED BY <2>1, <2>2
<1> QED BY <1>2, <1>3, <1>4 DEF Next, Tick, vars

LEMMA SerialStep ==
    ASSUME SessionInv, SerialInv, [Next]_vars
    PROVE  SerialInv'
<1> SUFFICES ASSUME SerialClient
             PROVE  (NoOverlap /\ RetiredIsUnused /\ OneSuccessorPerToken)'
  BY SerialClientIsBoolean DEF SerialInv
<1>1. NoOverlap /\ RetiredIsUnused /\ OneSuccessorPerToken
  BY DEF SerialInv
<1>2. /\ RowStep /\ RowsPersist /\ SessionInv'
      /\ pc \in [Requests -> Calls \cup {"idle", "done"}]
      /\ req \in [Requests -> Request \cup {None}]
      /\ rows \in [SessionIds -> Row \cup {None}]
  BY StepsOnRows, SessionStepKeepsInv DEF SessionInv, TypeOK
<1>3. NoOverlap'
  <2> SUFFICES ASSUME NEW q \in Requests, NEW r \in Requests, q # r,
                      Refreshing(q)', Refreshing(r)', req'[q].token = req'[r].token
               PROVE  FALSE
    BY DEF NoOverlap
  <2>1. ASSUME NEW x \in Requests, NEW y \in Requests, x # y, Refreshing(x)', Refreshing(y)',
               req'[x].token = req'[y].token,
               NEW s \in SessionIds, NEW d \in Devices, PresentToken(x, s, d, "refresh")
        PROVE  FALSE
    <3>1. req'[x].token = s /\ req'[y] = req[y] /\ pc'[y] = pc[y]
      BY <1>2, <2>1 DEF PresentToken, Awaits
    <3> QED BY <2>1, <3>1 DEF PresentToken, Refreshing, Active
  <2> QED BY <1>1, <2>1, RefreshingWas DEF NoOverlap
\* Only the last call of a refresh gives a row a parent, and it ends the refresh.
<1>4. ASSUME NEW s \in SessionIds, Exists(s)', ~Exists(s), rows'[s].parent # None
      PROVE  \E r \in Requests : /\ Refreshing(r) /\ pc[r] = "create" /\ ~(Refreshing(r)')
                                 /\ rows'[s].parent = req[r].token
                                 /\ \A t \in SessionIds \ {s} : rows'[t] = rows[t]
  <2>1. PICK r \in Requests : /\ Create(r, s)
                              /\ pc[r] = "create" /\ rows' = [rows EXCEPT ![s] = NewRow(r)]
    BY <1>4, NewRowsAreCreated
  <2>2. rows'[s].parent = req[r].token /\ \A t \in SessionIds \ {s} : rows'[t] = rows[t]
    BY <1>2, <2>1 DEF NewRow
  <2>3. Refreshing(r)
    BY <1>4, <2>1, <2>2 DEF SessionInv, RequestOK, Refreshing, Active
  <2>4. pc'[r] = "done"
    BY <1>2, <2>1 DEF Create, Answers
  <2> QED BY <2>1, <2>2, <2>3, <2>4 DEF Refreshing, Active
<1>5. OneSuccessorPerToken'
  <2>1. ASSUME NEW s \in SessionIds, NEW t \in SessionIds, Exists(s)', ~Exists(s), Exists(t)',
               rows'[s].parent # None, rows'[s].parent = rows'[t].parent
        PROVE  s = t
    <3>1. PICK r \in Requests : /\ Refreshing(r) /\ pc[r] = "create"
                                /\ rows'[s].parent = req[r].token
                                /\ \A x \in SessionIds \ {s} : rows'[x] = rows[x]
      BY <1>4, <2>1
    <3>2. CASE s # t
      BY <1>1, <2>1, <3>1, <3>2 DEF RetiredIsUnused, Exists
    <3> QED BY <3>2
  <2>2. ASSUME NEW s \in SessionIds, NEW t \in SessionIds, Exists(s), Exists(t),
               rows'[s].parent # None, rows'[s].parent = rows'[t].parent
        PROVE  s = t
    BY <1>1, <1>2, <2>2 DEF RowsPersist, OneSuccessorPerToken
  <2> QED BY <2>1, <2>2 DEF OneSuccessorPerToken, Exists
<1>6. RetiredIsUnused'
  <2> SUFFICES ASSUME NEW r \in Requests, NEW s \in SessionIds, Refreshing(r)',
                      pc'[r] \in {"retire", "create"}, Exists(s)',
                      rows'[s].parent = req'[r].token
               PROVE  FALSE
    BY DEF RetiredIsUnused, Exists
  <2>1. Refreshing(r) /\ req'[r].token = req[r].token
    BY RefreshingWas
  <2>2. req[r].token \in SessionIds /\ req[r].token # None
    BY <2>1, NoneIsNothing DEF SessionInv, RequestOK, Refreshing, Active
  <2>3. CASE ~Exists(s)
    <3>1. PICK q \in Requests : /\ Refreshing(q) /\ ~(Refreshing(q)')
                                /\ rows'[s].parent = req[q].token
      BY <1>4, <2>1, <2>2, <2>3
    <3>2. q # r
      BY <3>1
    <3> QED BY <1>1, <2>1, <3>1, <3>2 DEF NoOverlap
  <2>4. CASE Exists(s)
    <3>1. rows[s].parent = req[r].token
      BY <1>2, <2>1, <2>4 DEF RowsPersist
    <3>2. pc[r] \notin {"retire", "create"}
      BY <1>1, <2>1, <2>4, <3>1 DEF RetiredIsUnused
    <3>3. ~Live(req[r].token)
      BY <2>2, <2>4, <3>1 DEF SessionInv, RotationRetiresParent
    <3>4. ASSUME NEW q \in Requests, Step(q)
          PROVE  FALSE
      <4>1. q = r
        BY <1>2, <3>2, <3>4, StepHandled DEF Handled
      <4>2. Recheck(r)
        BY <1>2, <3>2, <3>4, <4>1 DEF Step, Lookup, Touch, TouchFails, Route, Create, SignOut,
           SignOutEverywhere, CallFails, Retire, Awaits, Answers
      <4>3. Resolves(r)
        BY <1>2, <4>2 DEF Recheck, Answers
      <4> QED BY <2>1, <3>3, <4>3 DEF Resolves, Live, SessionInv, RequestOK, Refreshing, Active
    <3>5. ASSUME NEW q \in Requests, Arrive(q)
          PROVE  FALSE
      <4>1. q = r
        BY <3>2, <3>5, ArriveHandled DEF Handled
      <4> QED BY <2>1, <3>5, <4>1 DEF Arrive, AskForSession, PresentToken, Refreshing, Active
    <3> QED BY <3>2, <3>4, <3>5 DEF Next, Tick, vars
  <2> QED BY <2>3, <2>4
<1> QED BY <1>3, <1>5, <1>6

\* With a client that refreshes a token once at a time, a token has one successor.
THEOREM SerialTokensAreSingleUse == SerialClient => (Spec => []OneSuccessorPerToken)
<1> SUFFICES ASSUME SerialClient
             PROVE  Spec => []OneSuccessorPerToken
  OBVIOUS
<1>1. Init => SerialInv
  BY DEF Init, SerialInv, NoOverlap, RetiredIsUnused, OneSuccessorPerToken, Refreshing, Active,
     Exists
<1>2. Spec => [](SessionInv /\ SerialInv)
  BY <1>1, SessionInitHolds, SessionStepKeepsInv, SerialStep, PTL DEF Spec
<1>3. SerialInv => OneSuccessorPerToken
  BY DEF SerialInv
<1> QED BY <1>2, <1>3, PTL
=============================================================================
