---------------------------- MODULE CastVoteProofs ----------------------------
(***************************************************************************)
(* Proofs about CastVote for any elections, voters and requests, with the  *)
(* demo deletions and overlapping PATCH requests or without them.          *)
(***************************************************************************)
EXTENDS CastVote, LifecycleProofs

\* What the steps of Next do to the window: those of the casting side leave it alone.
LEMMA CastingLeavesTheWindow ==
    ASSUME CastNext \/ Environment
    PROVE  UNCHANGED lifecycleVars
BY DEF CastNext, CastStep, CastFault, Environment, ReceiveCast, ResolveIdentity, SessionRefused,
   CheckSetup, CheckNullifier, CheckBallot, RefuseBallot, CastVoteCommits, CastVoteRaises,
   RecordNullifier, CastVoteUnanswered, RecordNullifierFails, CastFails, CastDropped, InsertVote,
   CommitSetup, KeyChanges, Register, Disqualify, DeleteVote, Checks

LEMMA NextIsLifecycleStep == [Next]_vars => [LifecycleNext]_lifecycleVars
BY CastingLeavesTheWindow DEF Next, vars

\* Every theorem about the window holds of the whole system.
LEMMA SpecIsLifecycleSpec == Spec => LifecycleSpec
<1>1. Init => LifecycleInit
  BY DEF Init
<1> QED BY <1>1, NextIsLifecycleStep, PTL DEF Spec, LifecycleSpec

LEMMA SpecLifecycleInv == Spec => []LifecycleInv
<1>1. LifecycleSpec => []LifecycleInv
  BY LifecycleInitHolds, LifecycleStepKeepsInv, PTL DEF LifecycleSpec
<1> QED BY <1>1, SpecIsLifecycleSpec, PTL

-----------------------------------------------------------------------------
\* A step of the casting side is one request's handler or a change of its environment.
HandlerStep(c) ==
    \/ \E v \in Voters, e \in Elections, s \in Elections \cup {NoSession} : ReceiveCast(c, v, e, s)
    \/ CastStep(c) \/ CastFault(c)

\* A handler moves to the next call or answers; only its own row of cast, pc and answer
\* changes, and only when it receives its request does cast change.
LEMMA HandlerStepShape ==
    ASSUME CastTypeOK, NEW c \in Casts, HandlerStep(c)
    PROVE  /\ \A d \in Casts \ {c} : cast'[d] = cast[d] /\ pc'[d] = pc[d] /\ answer'[d] = answer[d]
           /\ pc[c] # "idle" => cast' = cast
           /\ pc'[c] # "idle" /\ pc[c] # "done"
           /\ pc' \in [Casts -> Calls \cup {"idle", "done"}]
           /\ answer' \in [Casts -> {"none", "accepted", "conflict", "refused", "error"}]
<1> USE DEF CastTypeOK, Calls
<1>1. ASSUME NEW v \in Voters, NEW e \in Elections, NEW s \in Elections \cup {NoSession},
             ReceiveCast(c, v, e, s)
      PROVE  /\ \A d \in Casts \ {c} :
                    cast'[d] = cast[d] /\ pc'[d] = pc[d] /\ answer'[d] = answer[d]
             /\ pc[c] = "idle" /\ pc'[c] # "idle"
             /\ pc' \in [Casts -> Calls \cup {"idle", "done"}]
             /\ answer' \in [Casts -> {"none", "accepted", "conflict", "refused", "error"}]
  BY <1>1 DEF ReceiveCast
<1>2. ASSUME NEW a \in {"none", "accepted", "conflict", "refused", "error"}, Answers(c, a)
      PROVE  /\ \A d \in Casts \ {c} : pc'[d] = pc[d] /\ answer'[d] = answer[d]
             /\ cast' = cast /\ pc'[c] # "idle"
             /\ pc' \in [Casts -> Calls \cup {"idle", "done"}]
             /\ answer' \in [Casts -> {"none", "accepted", "conflict", "refused", "error"}]
  BY <1>2 DEF Answers
<1>3. ASSUME NEW call \in Calls, Awaits(c, call)
      PROVE  /\ \A d \in Casts \ {c} : pc'[d] = pc[d] /\ answer'[d] = answer[d]
             /\ cast' = cast /\ pc'[c] # "idle"
             /\ pc' \in [Casts -> Calls \cup {"idle", "done"}]
             /\ answer' \in [Casts -> {"none", "accepted", "conflict", "refused", "error"}]
  BY <1>3 DEF Awaits
<1>4. ASSUME CastStep(c) \/ CastFault(c)
      PROVE  /\ pc[c] # "done"
             /\ \/ \E a \in {"none", "accepted", "conflict", "refused", "error"} : Answers(c, a)
                \/ \E call \in Calls : Awaits(c, call)
  <2>1. pc[c] # "done"
    BY <1>4 DEF CastStep, CastFault, ResolveIdentity, SessionRefused, CheckSetup, CheckNullifier,
       CheckBallot, RefuseBallot, CastVoteCommits, CastVoteRaises, RecordNullifier,
       CastVoteUnanswered, RecordNullifierFails, CastFails, CastDropped, Active
  <2>2. CASE CastStep(c)
    <3>1. CASE CastVoteRaises(c)
      BY <3>1, Answers(c, "conflict") \/ Answers(c, "refused") DEF CastVoteRaises
    <3>2. CASE ~CastVoteRaises(c)
      BY <2>2, <3>2 DEF CastStep, ResolveIdentity, SessionRefused, CheckSetup, CheckNullifier,
         CheckBallot, RefuseBallot, CastVoteCommits, RecordNullifier
    <3> QED BY <3>1, <3>2
  <2>3. CASE CastFault(c)
    BY <2>1, <2>3 DEF CastFault, CastVoteUnanswered, RecordNullifierFails, CastFails, CastDropped
  <2> QED BY <1>4, <2>1, <2>2, <2>3
<1>5. CASE CastStep(c) \/ CastFault(c)
  BY <1>2, <1>3, <1>4, <1>5
<1>6. CASE \E v \in Voters, e \in Elections, s \in Elections \cup {NoSession} :
               ReceiveCast(c, v, e, s)
  BY <1>1, <1>6
<1> QED BY <1>5, <1>6 DEF HandlerStep
\* The request a handler holds, once it holds one.
LEMMA HandlerRequest ==
    ASSUME TypeOK, NEW c \in Casts, HandlerStep(c)
    PROVE  /\ cast' \in [Casts -> CastRequest \cup {NoRequest}]
           /\ cast'[c] \in CastRequest
<1>1. CASE pc[c] = "idle"
  <2>1. PICK v \in Voters, e \in Elections, s \in Elections \cup {NoSession} :
            ReceiveCast(c, v, e, s)
    BY <1>1 DEF HandlerStep, CastStep, CastFault, ResolveIdentity, SessionRefused, CheckSetup,
       CheckNullifier, CheckBallot, RefuseBallot, CastVoteCommits, CastVoteRaises, RecordNullifier,
       CastVoteUnanswered, RecordNullifierFails, CastFails, CastDropped, Active
  <2>2. [voter |-> v, election |-> e, session |-> s, seen |-> status[e]] \in CastRequest
    BY DEF TypeOK, LifecycleTypeOK, CastRequest
  <2> QED BY <2>1, <2>2 DEF ReceiveCast, TypeOK, CastTypeOK
<1>2. CASE pc[c] # "idle"
  BY <1>2, HandlerStepShape DEF TypeOK, CastTypeOK
<1> QED BY <1>1, <1>2

\* What a handler writes to the database: one transaction of fn_cast_vote, or one
\* nullifier row on the way to 201, or nothing.
Inserts(c) ==
    /\ pc[c] = "cast" /\ Eligible(c) /\ ~Spent(c) /\ InsertVote(c)
    /\ \/ pc'[c] = "record" /\ answer'[c] = answer[c]
       \/ pc'[c] = "done" /\ answer'[c] = "error"

LEMMA HandlerWrites ==
    ASSUME CastTypeOK, NEW c \in Casts, HandlerStep(c)
    PROVE  /\ UNCHANGED <<roll, deleted, committed, keyReady>>
           /\ Inserts(c) \/ UNCHANGED <<votes, hasVoted>>
           /\ \/ UNCHANGED nullifiers
              \/ /\ pc[c] = "record" /\ answer'[c] = "accepted"
                 /\ nullifiers' = nullifiers \cup
                      {[election |-> cast[c].election, nullifier |-> CastNullifier(c)]}
<1>1. CASE CastVoteCommits(c) \/ CastVoteUnanswered(c)
  BY <1>1 DEF CastVoteCommits, CastVoteUnanswered, InsertVote, Inserts, Awaits, Answers, CastTypeOK
<1>2. CASE RecordNullifier(c)
  BY <1>2 DEF RecordNullifier, Answers, CastTypeOK
<1>3. CASE ~(CastVoteCommits(c) \/ CastVoteUnanswered(c) \/ RecordNullifier(c))
  BY <1>3 DEF HandlerStep, CastStep, CastFault, ReceiveCast, ResolveIdentity, SessionRefused,
     CheckSetup, CheckNullifier, CheckBallot, RefuseBallot, CastVoteRaises, RecordNullifierFails,
     CastFails, CastDropped, Checks, stored
<1> QED BY <1>1, <1>2, <1>3

LEMMA CastNullifierType ==
    ASSUME NEW c \in Casts, cast[c] \in CastRequest
    PROVE  CastNullifier(c) \in NullifierSet
BY DEF CastRequest, CastNullifier, NullifierSet

LEMMA CastTypeStep ==
    ASSUME TypeOK, LifecycleInv, [Next]_vars
    PROVE  TypeOK'
<1>1. LifecycleTypeOK'
  BY NextIsLifecycleStep, LifecycleStepKeepsInv DEF LifecycleInv
<1>2. ASSUME NEW c \in Casts, HandlerStep(c)
      PROVE  CastTypeOK'
  <2>1. /\ cast' \in [Casts -> CastRequest \cup {NoRequest}]
        /\ \A d \in Casts : pc'[d] # "idle" => cast'[d] \in CastRequest
    BY <1>2, HandlerRequest, HandlerStepShape DEF TypeOK, CastTypeOK
  <2>2. /\ pc' \in [Casts -> Calls \cup {"idle", "done"}]
        /\ answer' \in [Casts -> {"none", "accepted", "conflict", "refused", "error"}]
    BY <1>2, HandlerStepShape DEF TypeOK
  <2>3. pc[c] # "idle" => /\ cast[c] \in CastRequest
                          /\ CastNullifier(c) \in NullifierSet
    BY CastNullifierType DEF TypeOK, CastTypeOK
  <2>4. hasVoted' \subseteq Elections \X Voters /\ votes' \subseteq VoteSet
    BY <1>2, <2>3, HandlerWrites DEF TypeOK, CastTypeOK, Inserts, InsertVote, VoteRow, VoteSet,
       CastRequest
  <2>5. nullifiers' \subseteq [election : Elections, nullifier : NullifierSet]
    BY <1>2, <2>3, HandlerWrites DEF TypeOK, CastTypeOK, CastRequest
  <2>6. UNCHANGED <<roll, deleted, committed, keyReady>>
    BY <1>2, HandlerWrites DEF TypeOK
  <2>7. UNCHANGED <<VoteSet, NullifierSet, CastRequest>>
    BY DEF VoteSet, NullifierSet, CastRequest
  <2> QED BY <2>1, <2>2, <2>4, <2>5, <2>6, <2>7 DEF TypeOK, CastTypeOK
<1>3. ASSUME Environment
      PROVE  CastTypeOK'
  BY <1>3 DEF Environment, CommitSetup, KeyChanges, Register, Disqualify, DeleteVote, Registered,
     handlers, TypeOK, CastTypeOK, VoteSet, NullifierSet, CastRequest
<1>4. ASSUME UNCHANGED castVars
      PROVE  CastTypeOK'
  BY <1>4 DEF castVars, stored, handlers, TypeOK, CastTypeOK, VoteSet, NullifierSet, CastRequest
<1>5. CastTypeOK'
  BY <1>2, <1>3, <1>4 DEF Next, CastNext, HandlerStep, vars
<1> QED BY <1>1, <1>5 DEF TypeOK

LEMMA CastTypeInit == Init => TypeOK
BY DEF Init, LifecycleInit, Opening, Statuses, TypeOK, LifecycleTypeOK, CastTypeOK

\* Type correctness of the whole system: rows, requests and answers are always among
\* those the handlers of vote.ts and the tables of schema.sql allow.
THEOREM CastTypes == Spec => []TypeOK
<1>1. TypeOK /\ LifecycleInv /\ [Next]_vars => TypeOK'
  BY CastTypeStep
<1> QED BY <1>1, CastTypeInit, SpecLifecycleInv, PTL DEF Spec
-----------------------------------------------------------------------------
\* What a request that passed the early checks is known to have passed.
PastGate(c) == pc[c] \in {"setup", "nullifier", "ballot", "cast", "record"}

PastSetup(c) == pc[c] \in {"nullifier", "ballot", "cast", "record"}

AdmissionInv ==
    \A c \in Casts :
        /\ PastGate(c) => cast[c].seen = "voting" /\ cast[c].session \in {NoSession, cast[c].election}
        /\ PastSetup(c) => cast[c].election \in committed
        /\ (pc[c] # "idle" /\ cast[c].seen = "voting") =>
               status[cast[c].election] \notin {"absent", "setup"}

\* A window that has been opened is never again as it was before its opening, not even
\* when overlapping requests reopen it.
LEMMA OpenedStaysOpened ==
    ASSUME LifecycleInv, [LifecycleNext]_lifecycleVars, NEW e \in Elections,
           status[e] \notin {"absent", "setup"}
    PROVE  status'[e] \notin {"absent", "setup"}
<1>1. CASE UNCHANGED status
  BY <1>1
<1>2. CASE \E d \in Elections : CreateElection(d)
  BY <1>2 DEF CreateElection, Exists, LifecycleInv, LifecycleTypeOK
<1>3. CASE \E p \in Patches : PatchUpdate(p)
  BY <1>3, LegalStepsAreForward DEF PatchUpdate, Statuses, LifecycleInv, LifecycleTypeOK,
     RequestsAreKnown
<1> QED BY <1>1, <1>2, <1>3 DEF LifecycleNext, lifecycleVars, PatchRead, PatchStep, PatchEvent,
      PatchAudit, PatchAuditUnanswered, PatchFails

LEMMA EarlyChecks ==
    ASSUME CastTypeOK, NEW c \in Casts, HandlerStep(c)
    PROVE  /\ pc'[c] = "identity" => pc[c] = "idle"
           /\ pc'[c] = "setup" =>
                 pc[c] = "identity" /\ SessionMatches(c) /\ IsAcceptingVotes(cast[c].seen)
           /\ PastSetup(c)' =>
                 PastSetup(c) \/ (pc[c] = "setup" /\ cast[c].election \in committed)
           /\ pc[c] = "idle" => \E e \in Elections :
                 cast'[c].election = e /\ cast'[c].seen = status[e] /\ pc'[c] \in {"identity", "done"}
<1> USE DEF CastTypeOK, PastSetup
<1>1. CASE \E v \in Voters, e \in Elections, s \in Elections \cup {NoSession} :
               ReceiveCast(c, v, e, s)
  BY <1>1 DEF ReceiveCast
<1>2. CASE CastStep(c)
  BY <1>2 DEF CastStep, ResolveIdentity, SessionRefused, CheckSetup, CheckNullifier, CheckBallot,
     RefuseBallot, CastVoteCommits, CastVoteRaises, RecordNullifier, Awaits, Answers
<1>3. CASE CastFault(c)
  BY <1>3 DEF CastFault, CastVoteUnanswered, RecordNullifierFails, CastFails, CastDropped, Answers,
     Active
<1> QED BY <1>1, <1>2, <1>3 DEF HandlerStep

LEMMA AdmissionStep ==
    ASSUME LifecycleInv, TypeOK, AdmissionInv, [Next]_vars
    PROVE  AdmissionInv'
<1> USE DEF TypeOK, CastTypeOK
<1>1. ASSUME NEW c \in Casts, HandlerStep(c), NEW d \in Casts
      PROVE  /\ PastGate(d)' =>
                   cast'[d].seen = "voting" /\ cast'[d].session \in {NoSession, cast'[d].election}
             /\ PastSetup(d)' => cast'[d].election \in committed'
             /\ (pc'[d] # "idle" /\ cast'[d].seen = "voting") =>
                   status'[cast'[d].election] \notin {"absent", "setup"}
  <2>0. status' = status /\ committed' = committed
    BY <1>1, CastingLeavesTheWindow, HandlerWrites DEF CastNext, HandlerStep, lifecycleVars
  <2>1. CASE d # c
    BY <1>1, <2>0, <2>1, HandlerStepShape DEF AdmissionInv, PastGate, PastSetup
  <2>2. CASE d = c /\ pc[c] = "idle"
    BY <1>1, <2>0, <2>2, EarlyChecks DEF PastGate, PastSetup, LifecycleInv, LifecycleTypeOK,
       AdmissionInv
  <2>3. CASE d = c /\ pc[c] # "idle"
    <3>1. cast'[c] = cast[c]
      BY <1>1, <2>3, HandlerStepShape
    <3>2. pc'[c] = "setup" =>
              cast[c].seen = "voting" /\ cast[c].session \in {NoSession, cast[c].election}
      BY <1>1, EarlyChecks DEF SessionMatches, IsAcceptingVotes
    <3>3. PastSetup(c)' => PastGate(c) /\ cast[c].election \in committed
      BY <1>1, EarlyChecks DEF AdmissionInv, PastGate, PastSetup
    <3> QED BY <2>0, <2>3, <3>1, <3>2, <3>3 DEF AdmissionInv, PastGate, PastSetup
  <2> QED BY <2>1, <2>2, <2>3
<1>2. ASSUME Environment
      PROVE  UNCHANGED <<cast, pc, status>> /\ committed \subseteq committed'
  BY <1>2, CastingLeavesTheWindow DEF Environment, CommitSetup, KeyChanges, Register, Disqualify,
     DeleteVote, handlers, lifecycleVars
<1>3. ASSUME UNCHANGED castVars, [LifecycleNext]_lifecycleVars, NEW d \in Casts
      PROVE  (pc'[d] # "idle" /\ cast'[d].seen = "voting") =>
                 status'[cast'[d].election] \notin {"absent", "setup"}
  BY <1>3, OpenedStaysOpened DEF castVars, stored, handlers, AdmissionInv, CastRequest
<1>4. CASE \E c \in Casts : HandlerStep(c)
  BY <1>1, <1>4 DEF AdmissionInv
<1>5. CASE Environment
  BY <1>2, <1>5 DEF AdmissionInv, PastGate, PastSetup
<1>6. CASE UNCHANGED castVars /\ [LifecycleNext]_lifecycleVars
  BY <1>3, <1>6 DEF castVars, stored, handlers, AdmissionInv, PastGate, PastSetup
<1> QED BY <1>4, <1>5, <1>6 DEF Next, CastNext, HandlerStep, vars

LEMMA AdmissionInvHolds == Spec => []AdmissionInv
<1>1. Init => AdmissionInv
  BY DEF Init, AdmissionInv, PastGate, PastSetup
<1> QED BY <1>1, AdmissionStep, CastTypes, SpecLifecycleInv, PTL DEF Spec
-----------------------------------------------------------------------------
\* The ballots.  HasVotedIffRecorded and NoPhantomConflict are not inductive alone: a
\* row must be known to stand for the request that carried it, in its own election.

RowsAreOwn ==
    \A r \in Recorded :
        /\ pc[r.ballot] \in {"record", "done"}
        /\ cast[r.ballot].election = r.election
        /\ r.nullifier = Nullifier(cast[r.ballot].voter, r.election)

RecordingIsRecorded == \A c \in Casts : pc[c] = "record" => VoteRow(c) \in Recorded

AnswersAreFinal ==
    \A c \in Casts : answer[c] \in {"accepted", "conflict"} => pc[c] = "done"

AcceptedHasRow == \A c \in Casts : answer[c] = "accepted" => VoteRow(c) \in Recorded

RowsFollowSetup == \A r \in Recorded : r.election \in committed

RowsFollowOpening == \A r \in Recorded : status[r.election] \notin {"absent", "setup"}

BallotInv ==
    /\ RowsAreOwn /\ RecordingIsRecorded /\ AnswersAreFinal /\ AcceptedHasRow
    /\ RowsFollowSetup /\ RowsFollowOpening
    /\ HasVotedIffRecorded /\ OneBallotPerVoter /\ NullifierImpliesBallot /\ NoPhantomConflict

\* Past the gate both credentials give the pseudonym of the sender in that election.
LEMMA OwnNullifier ==
    ASSUME AdmissionInv, NEW c \in Casts, PastGate(c)
    PROVE  CastNullifier(c) = Nullifier(cast[c].voter, cast[c].election)
BY DEF AdmissionInv, CastNullifier

LEMMA NullifierIsInjective ==
    ASSUME NEW v, NEW e, NEW w, NEW d, Nullifier(v, e) = Nullifier(w, d)
    PROVE  v = w /\ e = d
BY DEF Nullifier

\* The only ways to reach the last insert and the two final answers.
LEMMA HandlerAnswers ==
    ASSUME CastTypeOK, NEW c \in Casts, HandlerStep(c)
    PROVE  /\ pc'[c] = "record" => Inserts(c)
           /\ pc[c] = "record" => pc'[c] = "done"
           /\ answer'[c] # answer[c] => pc'[c] = "done"
           /\ (answer'[c] = "accepted" /\ answer[c] # "accepted") => pc[c] = "record"
           /\ (answer'[c] = "conflict" /\ answer[c] # "conflict") =>
                 \/ /\ pc[c] = "nullifier"
                    /\ [election |-> cast[c].election, nullifier |-> CastNullifier(c)] \in nullifiers
                 \/ pc[c] = "cast" /\ Spent(c)
<1> USE DEF CastTypeOK
<1>1. CASE \E v \in Voters, e \in Elections, s \in Elections \cup {NoSession} :
               ReceiveCast(c, v, e, s)
  BY <1>1 DEF ReceiveCast
<1>2. CASE CastVoteCommits(c) \/ CastVoteUnanswered(c)
  <2>1. \/ pc'[c] = "record" /\ answer' = answer
        \/ pc'[c] = "done" /\ answer'[c] = "error"
    BY <1>2 DEF CastVoteCommits, CastVoteUnanswered, Awaits, Answers
  <2>2. pc[c] = "cast" /\ Eligible(c) /\ ~Spent(c) /\ InsertVote(c)
    BY <1>2 DEF CastVoteCommits, CastVoteUnanswered
  <2> QED BY <2>1, <2>2 DEF Inserts
<1>3. CASE CastStep(c) /\ ~CastVoteCommits(c)
  BY <1>3 DEF CastStep, ResolveIdentity, SessionRefused, CheckSetup, CheckNullifier, CheckBallot,
     RefuseBallot, CastVoteRaises, RecordNullifier, Awaits, Answers
<1>4. CASE CastFault(c) /\ ~CastVoteUnanswered(c)
  BY <1>4 DEF CastFault, RecordNullifierFails, CastFails, CastDropped, Answers
<1> QED BY <1>1, <1>2, <1>3, <1>4 DEF HandlerStep, CastStep, CastFault

\* Recorded only grows: the demo deletion keeps the row in the history.
LEMMA RecordedGrows ==
    ASSUME CastTypeOK, NEW c \in Casts, HandlerStep(c)
    PROVE  \/ ~Inserts(c) /\ Recorded' = Recorded /\ hasVoted' = hasVoted
           \/ /\ Inserts(c)
              /\ Recorded' = Recorded \cup {VoteRow(c)}
              /\ hasVoted' = hasVoted \cup {<<cast[c].election, cast[c].voter>>}
BY HandlerWrites DEF Recorded, Inserts, InsertVote

\* A request about to insert is the first: nothing is on record for its sender.
LEMMA InsertIsFirst ==
    ASSUME TypeOK, AdmissionInv, BallotInv, NEW c \in Casts, Inserts(c)
    PROVE  /\ RowsOf(cast[c].election, cast[c].voter) = {}
           /\ VoteRow(c) = [election |-> cast[c].election,
                            nullifier |-> Nullifier(cast[c].voter, cast[c].election),
                            ballot |-> c]
           /\ cast[c].election \in committed
           /\ status[cast[c].election] \notin {"absent", "setup"}
           /\ cast[c].election \in Elections /\ cast[c].voter \in Voters
<1>1. PastGate(c) /\ PastSetup(c) /\ cast[c] \in CastRequest
  BY DEF Inserts, PastGate, PastSetup, TypeOK, CastTypeOK
<1>2. <<cast[c].election, cast[c].voter>> \notin hasVoted
  BY DEF Inserts, Spent
<1>3. cast[c].election \in Elections /\ cast[c].voter \in Voters
  BY <1>1 DEF CastRequest
<1>4. RowsOf(cast[c].election, cast[c].voter) = {}
  BY <1>2, <1>3 DEF BallotInv, HasVotedIffRecorded
<1>5. cast[c].election \in committed /\ status[cast[c].election] \notin {"absent", "setup"}
  BY <1>1 DEF AdmissionInv, PastGate
<1>6. CastNullifier(c) = Nullifier(cast[c].voter, cast[c].election)
  BY <1>1, OwnNullifier
<1> QED BY <1>3, <1>4, <1>5, <1>6 DEF VoteRow
LEMMA HandlerKeepsBallotInv ==
    ASSUME LifecycleInv, TypeOK, AdmissionInv, BallotInv, NEW c \in Casts, HandlerStep(c)
    PROVE  BallotInv'
<1> USE DEF TypeOK
<1> DEFINE e == cast[c].election
           v == cast[c].voter
<1>1. status' = status /\ UNCHANGED committed
  BY CastingLeavesTheWindow, HandlerWrites DEF CastNext, HandlerStep, lifecycleVars
<1>2. /\ \A d \in Casts : pc[d] # "idle" => cast'[d] = cast[d]
      /\ \A d \in Casts \ {c} : pc'[d] = pc[d] /\ answer'[d] = answer[d]
      /\ pc'[c] # "idle" /\ pc[c] # "done"
  BY HandlerStepShape
<1>3. Recorded \subseteq VoteSet /\ \A r \in Recorded : r.ballot \in Casts
  BY DEF CastTypeOK, VoteSet, Recorded
<1>4. /\ \A r \in Recorded : r.ballot # c \/ pc[c] = "record"
      /\ \A r \in Recorded : cast'[r.ballot] = cast[r.ballot]
  BY <1>2, <1>3 DEF BallotInv, RowsAreOwn
<1>5. RowsAreOwn'
  <2> SUFFICES ASSUME NEW r \in Recorded'
               PROVE  /\ pc'[r.ballot] \in {"record", "done"}
                      /\ cast'[r.ballot].election = r.election
                      /\ r.nullifier = Nullifier(cast'[r.ballot].voter, r.election)
    BY DEF RowsAreOwn, Nullifier
  <2>1. CASE r \in Recorded
    <3>1. /\ pc[r.ballot] \in {"record", "done"} /\ cast[r.ballot].election = r.election
          /\ r.nullifier = Nullifier(cast[r.ballot].voter, r.election)
          /\ cast'[r.ballot] = cast[r.ballot] /\ r.ballot \in Casts
      BY <1>3, <1>4, <2>1 DEF BallotInv, RowsAreOwn
    <3>2. pc'[r.ballot] \in {"record", "done"}
      BY <1>2, <1>4, <2>1, <3>1, HandlerAnswers
    <3> QED BY <3>1, <3>2
  <2>2. CASE r = VoteRow(c) /\ Inserts(c)
    BY <1>2, <2>2, InsertIsFirst DEF Inserts
  <2> QED BY <2>1, <2>2, RecordedGrows
<1>6. Inserts(c) \/ UNCHANGED <<Recorded, hasVoted>>
  BY RecordedGrows
<1>7. RecordingIsRecorded' /\ AcceptedHasRow' /\ AnswersAreFinal'
  <2>1. \A d \in Casts : pc[d] # "idle" => VoteRow(d)' = VoteRow(d)
    BY <1>2 DEF VoteRow, CastNullifier
  <2>2. Recorded \subseteq Recorded' /\ (Inserts(c) => VoteRow(c) \in Recorded')
    BY RecordedGrows
  <2>3. ASSUME NEW d \in Casts
        PROVE  /\ pc'[d] = "record" => VoteRow(d)' \in Recorded'
               /\ answer'[d] = "accepted" => VoteRow(d)' \in Recorded'
               /\ answer'[d] \in {"accepted", "conflict"} => pc'[d] = "done"
    <3>1. CASE d # c
      BY <1>2, <2>1, <2>2, <3>1 DEF BallotInv, RecordingIsRecorded, AcceptedHasRow, AnswersAreFinal
    <3>2. CASE d = c
      BY <1>2, <2>1, <2>2, <3>2, HandlerAnswers DEF BallotInv, RecordingIsRecorded, AcceptedHasRow,
         AnswersAreFinal, Inserts
    <3> QED BY <3>1, <3>2
  <2> QED BY <2>3 DEF RecordingIsRecorded, AcceptedHasRow, AnswersAreFinal
<1>8. RowsFollowSetup' /\ RowsFollowOpening'
  BY <1>1, RecordedGrows, InsertIsFirst DEF BallotInv, RowsFollowSetup, RowsFollowOpening
<1>9. HasVotedIffRecorded'
  <2> SUFFICES ASSUME NEW d \in Elections, NEW w \in Voters
               PROVE  <<d, w>> \in hasVoted' <=> RowsOf(d, w)' # {}
    BY DEF HasVotedIffRecorded
  <2>1. CASE UNCHANGED <<Recorded, hasVoted>>
    BY <2>1 DEF BallotInv, HasVotedIffRecorded, RowsOf
  <2>2. CASE Inserts(c) /\ d = e /\ w = v
    <3>1. VoteRow(c) \in RowsOf(d, w)'
      BY <2>2, RecordedGrows, InsertIsFirst DEF RowsOf, InsertVote, Inserts
    <3> QED BY <2>2, <3>1 DEF Inserts, InsertVote
  <2>3. CASE Inserts(c) /\ (d # e \/ w # v)
    <3>1. RowsOf(d, w)' = RowsOf(d, w)
      BY <2>3, RecordedGrows, InsertIsFirst, NullifierIsInjective DEF RowsOf, Inserts
    <3>2. <<d, w>> \in hasVoted' <=> <<d, w>> \in hasVoted
      BY <2>3 DEF Inserts, InsertVote
    <3> QED BY <3>1, <3>2 DEF BallotInv, HasVotedIffRecorded
  <2> QED BY <1>6, <2>1, <2>2, <2>3
<1>10. OneBallotPerVoter'
  <2>1. CASE UNCHANGED <<Recorded, hasVoted>>
    BY <2>1 DEF BallotInv, OneBallotPerVoter
  <2>2. CASE Inserts(c)
    <3>1. \A r \in Recorded : ~(r.election = VoteRow(c).election /\ r.nullifier = VoteRow(c).nullifier)
      BY <2>2, InsertIsFirst DEF RowsOf
    <3>2. Recorded' \subseteq Recorded \cup {VoteRow(c)}
      BY RecordedGrows
    <3> QED BY <3>1, <3>2 DEF BallotInv, OneBallotPerVoter
  <2> QED BY <1>6, <2>1, <2>2
<1>11. NullifierImpliesBallot'
  <2>1. pc[c] = "record" => VoteRow(c) \in Recorded
    BY DEF BallotInv, RecordingIsRecorded
  <2> QED BY <2>1, HandlerWrites, RecordedGrows DEF BallotInv, NullifierImpliesBallot, VoteRow
<1>12. NoPhantomConflict'
  <2> SUFFICES ASSUME NEW d \in Casts, answer'[d] = "conflict"
               PROVE  (\E r \in RowsOf(cast[d].election, cast[d].voter) : r.ballot # d)'
    BY DEF NoPhantomConflict
  <2>1. Recorded \subseteq Recorded'
    BY RecordedGrows
  <2>2. pc[d] # "idle" => cast[d] \in CastRequest /\ cast'[d] = cast[d]
    BY <1>2 DEF CastTypeOK
  <2>3. CASE answer[d] = "conflict"
    <3>1. cast'[d] = cast[d]
      BY <2>2, <2>3 DEF BallotInv, AnswersAreFinal
    <3>2. PICK r \in RowsOf(cast[d].election, cast[d].voter) : r.ballot # d
      BY <2>3 DEF BallotInv, NoPhantomConflict
    <3> QED BY <2>1, <3>1, <3>2 DEF RowsOf, Nullifier
  <2>4. CASE answer[d] # "conflict"
    <3>1. d = c /\ pc[c] \in {"nullifier", "cast"}
      BY <1>2, <2>4, HandlerAnswers
    <3>2. e \in Elections /\ v \in Voters /\ CastNullifier(c) = Nullifier(v, e)
      BY <2>2, <3>1, OwnNullifier DEF CastRequest, PastGate
    <3>3. RowsOf(e, v) # {}
      <4>1. CASE [election |-> e, nullifier |-> CastNullifier(c)] \in nullifiers
        BY <3>2, <4>1 DEF BallotInv, NullifierImpliesBallot, RowsOf
      <4>2. CASE Spent(c)
        BY <3>2, <4>2 DEF Spent, BallotInv, HasVotedIffRecorded, RowsOf, Recorded
      <4> QED BY <2>4, <3>1, <4>1, <4>2, HandlerAnswers
    <3>4. PICK r \in RowsOf(e, v) : r.ballot # c
      BY <1>4, <3>1, <3>3 DEF RowsOf
    <3>5. cast'[d] = cast[c]
      BY <2>2, <3>1
    <3> QED BY <2>1, <3>1, <3>4, <3>5 DEF RowsOf, Nullifier
  <2> QED BY <2>3, <2>4
<1> QED BY <1>5, <1>7, <1>8, <1>9, <1>10, <1>11, <1>12 DEF BallotInv
\* Everything else leaves the requests, their answers and the history of rows alone.
LEMMA OthersKeepBallotInv ==
    ASSUME LifecycleInv, BallotInv, TypeOK, [LifecycleNext]_lifecycleVars,
           Environment \/ UNCHANGED castVars
    PROVE  BallotInv'
<1>1. /\ UNCHANGED <<handlers, hasVoted, nullifiers>>
      /\ Recorded' = Recorded /\ committed \subseteq committed'
  BY DEF Environment, CommitSetup, KeyChanges, Register, Disqualify, DeleteVote, Recorded,
     castVars, stored, handlers
<1>2. UNCHANGED <<cast, pc, answer>>
  BY <1>1 DEF handlers
<1>3. RowsAreOwn' /\ RecordingIsRecorded' /\ AnswersAreFinal' /\ AcceptedHasRow'
  BY <1>1, <1>2 DEF BallotInv, RowsAreOwn, RecordingIsRecorded, AnswersAreFinal, AcceptedHasRow,
     VoteRow, CastNullifier, Nullifier
<1>4. RowsFollowSetup'
  BY <1>1 DEF BallotInv, RowsFollowSetup
<1>5. RowsFollowOpening'
  BY <1>1, OpenedStaysOpened DEF BallotInv, RowsFollowOpening, Recorded, TypeOK, CastTypeOK, VoteSet
<1>6. HasVotedIffRecorded' /\ OneBallotPerVoter' /\ NullifierImpliesBallot' /\ NoPhantomConflict'
  BY <1>1, <1>2 DEF BallotInv, HasVotedIffRecorded, OneBallotPerVoter, NullifierImpliesBallot,
     NoPhantomConflict, RowsOf, Nullifier
<1> QED BY <1>3, <1>4, <1>5, <1>6 DEF BallotInv

LEMMA BallotStep ==
    ASSUME LifecycleInv, TypeOK, AdmissionInv, BallotInv, [Next]_vars
    PROVE  BallotInv'
<1>1. CASE \E c \in Casts : HandlerStep(c)
  BY <1>1, HandlerKeepsBallotInv
<1>2. CASE Environment \/ UNCHANGED castVars
  BY <1>2, NextIsLifecycleStep, OthersKeepBallotInv
<1> QED BY <1>1, <1>2 DEF Next, CastNext, HandlerStep, vars

LEMMA BallotInit == Init => BallotInv
BY DEF Init, LifecycleInit, BallotInv, RowsAreOwn, RecordingIsRecorded, AnswersAreFinal,
   AcceptedHasRow, RowsFollowSetup, RowsFollowOpening, HasVotedIffRecorded, OneBallotPerVoter,
   NullifierImpliesBallot, NoPhantomConflict, Recorded, RowsOf

SystemInv == LifecycleInv /\ TypeOK /\ AdmissionInv /\ BallotInv

LEMMA SystemInvHolds == Spec => []SystemInv
<1>1. LifecycleInv /\ TypeOK /\ AdmissionInv /\ BallotInv /\ [Next]_vars => BallotInv'
  BY BallotStep
<1>2. SystemInv <=> LifecycleInv /\ TypeOK /\ AdmissionInv /\ BallotInv
  BY DEF SystemInv
<1> QED BY <1>1, <1>2, BallotInit, SpecLifecycleInv, CastTypes, AdmissionInvHolds, PTL DEF Spec

\* The voters table and the votes table agree at every moment, whatever interleaving,
\* lost answer, demo deletion or credential brought the ballot in (fn_cast_vote).
THEOREM HasVotedAgreesWithBallots == Spec => []HasVotedIffRecorded
<1>1. SystemInv => HasVotedIffRecorded
  BY DEF SystemInv, BallotInv
<1> QED BY <1>1, SystemInvHolds, PTL

\* One person, one vote, over the whole history of every election.
THEOREM OnePersonOneVote == Spec => []OneBallotPerVoter
<1>1. SystemInv => OneBallotPerVoter
  BY DEF SystemInv, BallotInv
<1> QED BY <1>1, SystemInvHolds, PTL

\* The nullifiers table, written outside the transaction, never runs ahead of the votes.
THEOREM NullifiersNeverLead == Spec => []NullifierImpliesBallot
<1>1. SystemInv => NullifierImpliesBallot
  BY DEF SystemInv, BallotInv
<1> QED BY <1>1, SystemInvHolds, PTL

\* 201 is truthful: the ballot of the request it answers is on record, and the voter is
\* marked as having voted, whatever calls failed and however requests raced (vote.ts).
THEOREM AcceptedAnswersAreTruthful == Spec => []AcceptedIsRecorded
<1>1. SystemInv => AcceptedIsRecorded
  <2> SUFFICES ASSUME SystemInv, NEW c \in Casts, answer[c] = "accepted"
               PROVE  VoteRow(c) \in Recorded /\ <<cast[c].election, cast[c].voter>> \in hasVoted
    BY DEF AcceptedIsRecorded
  <2>1. VoteRow(c) \in Recorded
    BY DEF SystemInv, BallotInv, AcceptedHasRow
  <2>2. cast[c] \in CastRequest
    BY DEF SystemInv, BallotInv, AnswersAreFinal, TypeOK, CastTypeOK
  <2>3. VoteRow(c) \in RowsOf(cast[c].election, cast[c].voter)
    BY <2>1 DEF SystemInv, BallotInv, RowsAreOwn, RowsOf, VoteRow
  <2> QED BY <2>1, <2>2, <2>3 DEF SystemInv, BallotInv, HasVotedIffRecorded, CastRequest
<1> QED BY <1>1, SystemInvHolds, PTL

\* 409 is truthful: another ballot of the same voter is on record. A retry that raises in
\* fn_cast_vote never meets a ballot of its own, nor a mark that no ballot left behind.
THEOREM ConflictsAreReal == Spec => []NoPhantomConflict
<1>1. SystemInv => NoPhantomConflict
  BY DEF SystemInv, BallotInv
<1> QED BY <1>1, SystemInvHolds, PTL

\* No ballot precedes its election's commitment or opening, and races between PATCH
\* requests never take an election with ballots back to setup.
THEOREM BallotsComeAfterSetup == Spec => []BallotsFollowSetup
<1>1. SystemInv => BallotsFollowSetup
  BY DEF SystemInv, BallotInv, RowsFollowSetup, RowsFollowOpening, BallotsFollowSetup
<1> QED BY <1>1, SystemInvHolds, PTL

\* After the close only the requests admitted before it can still add a ballot: once
\* they are answered, the set of ballots is final, even if PATCH requests overlap.
THEOREM ClosedWindowDrains == Spec => DrainedWindowFreezesBallots
<1>1. ASSUME SystemInv, [Next]_vars
      PROVE  [\A e \in Elections :
                 /\ status[e] \in {"tallying", "closed"}
                 /\ \A c \in Casts : ~Admitted(c, e)
                 => {r \in votes' : r.election = e} \subseteq votes]_votes
  <2> SUFFICES ASSUME NEW e \in Elections, \A c \in Casts : ~Admitted(c, e),
                      NEW r \in votes', r.election = e, r \notin votes
               PROVE  FALSE
    OBVIOUS
  <2>1. PICK c \in Casts : HandlerStep(c)
    BY <1>1 DEF Next, CastNext, HandlerStep, Environment, CommitSetup, KeyChanges, Register,
       Disqualify, DeleteVote, vars, castVars, stored
  <2>2. Inserts(c)
    BY <1>1, <2>1, HandlerWrites DEF SystemInv, TypeOK
  <2>3. r = VoteRow(c)
    BY <2>2 DEF Inserts, InsertVote
  <2>4. cast[c].election = e /\ pc[c] = "cast"
    BY <2>2, <2>3 DEF Inserts, VoteRow
  <2>5. Admitted(c, e)
    BY <1>1, <2>4 DEF Admitted, Active, SystemInv, AdmissionInv, PastGate
  <2> QED BY <2>5
<1> QED BY <1>1, SystemInvHolds, PTL DEF Spec, DrainedWindowFreezesBallots
-----------------------------------------------------------------------------
\* Refinement: CastVote implements BallotBox under the mapping of Promise.

\* Box reads the one row of each voter, so CHOOSE never has a choice to make.
BoxIsExact ==
    \A e \in Elections, v \in Voters :
        /\ RowsOf(e, v) = {} => Box[e][v] = NoRequest
        /\ \A r \in RowsOf(e, v) : Box[e][v] = r.ballot

LEMMA BoxReadsTheRow == OneBallotPerVoter => BoxIsExact
<1> SUFFICES ASSUME OneBallotPerVoter, NEW e \in Elections, NEW v \in Voters
             PROVE  /\ RowsOf(e, v) = {} => Box[e][v] = NoRequest
                    /\ \A r \in RowsOf(e, v) : Box[e][v] = r.ballot
  BY DEF BoxIsExact
<1>1. Box[e][v] = IF RowsOf(e, v) = {} THEN NoRequest
                  ELSE (CHOOSE r \in RowsOf(e, v) : TRUE).ballot
  BY DEF Box
<1>2. ASSUME NEW r \in RowsOf(e, v)
      PROVE  (CHOOSE s \in RowsOf(e, v) : TRUE) = r
  <2>1. (CHOOSE s \in RowsOf(e, v) : TRUE) \in RowsOf(e, v)
    BY <1>2
  <2>2. \A s \in RowsOf(e, v) : s = r
    BY <1>2 DEF RowsOf, OneBallotPerVoter
  <2> QED BY <2>1, <2>2
<1> QED BY <1>1, <1>2

\* A step of a handler tells at most its own sender, and only after the request is known.
LEMMA TellsOnlyTheSender ==
    ASSUME SystemInv, NEW c \in Casts, HandlerStep(c), NEW a \in {"accepted", "conflict"}
    PROVE  Told(a)' = IF answer'[c] = a
                      THEN Told(a) \cup {<<cast[c].election, cast[c].voter, c>>} ELSE Told(a)
<1> USE DEF SystemInv
<1>1. /\ \A d \in Casts \ {c} : answer'[d] = answer[d] /\ cast'[d] = cast[d]
      /\ answer[c] \notin {"accepted", "conflict"}
  BY HandlerStepShape DEF TypeOK, BallotInv, AnswersAreFinal
<1>2. answer'[c] = a => cast'[c] = cast[c]
  BY <1>1, HandlerAnswers, HandlerStepShape DEF TypeOK
<1> QED BY <1>1, <1>2 DEF Told

LEMMA PromiseInit == Init => Promise!Init
<1> SUFFICES ASSUME Init PROVE Promise!Init
  OBVIOUS
<1>1. \A e \in Elections, v \in Voters : RowsOf(e, v) = {}
  BY DEF Init, RowsOf, Recorded
<1>2. Box = [e \in Elections |-> [v \in Voters |-> NoRequest]]
  BY <1>1 DEF Box
<1>3. Told("accepted") = {} /\ Told("conflict") = {}
  BY DEF Init, Told
<1> QED BY <1>2, <1>3 DEF Promise!Init

\* Where the history of rows does not change, neither does the box.
LEMMA BoxStays ==
    ASSUME Recorded' = Recorded
    PROVE  Box' = Box
BY DEF Box, RowsOf, Nullifier

LEMMA PromiseInsert ==
    ASSUME SystemInv, BoxIsExact, BoxIsExact', NEW c \in Casts, HandlerStep(c), Inserts(c)
    PROVE  Promise!Put(cast[c].election, cast[c].voter, c)
<1> DEFINE e == cast[c].election
           v == cast[c].voter
<1> USE DEF SystemInv
<1>1. /\ Recorded' = Recorded \cup {VoteRow(c)}
      /\ VoteRow(c).election = e /\ VoteRow(c).nullifier = Nullifier(v, e) /\ VoteRow(c).ballot = c
      /\ RowsOf(e, v) = {} /\ e \in Elections /\ v \in Voters
  BY RecordedGrows, InsertIsFirst DEF TypeOK
<1>2. Box[e][v] = NoRequest
  BY <1>1 DEF BoxIsExact
<1>3. Box' = [Box EXCEPT ![e][v] = c]
  <2>1. /\ Box = [d \in Elections |-> [w \in Voters |-> Box[d][w]]]
        /\ Box' = [d \in Elections |-> [w \in Voters |-> Box'[d][w]]]
    BY DEF Box
  <2>2. ASSUME NEW d \in Elections, NEW w \in Voters
        PROVE  Box'[d][w] = IF d = e /\ w = v THEN c ELSE Box[d][w]
    <3>1. CASE d = e /\ w = v
      <4>1. VoteRow(c) \in RowsOf(d, w)'
        BY <1>1, <3>1 DEF RowsOf, Nullifier
      <4> QED BY <1>1, <3>1, <4>1 DEF BoxIsExact
    <3>2. CASE ~(d = e /\ w = v)
      <4>1. RowsOf(d, w)' = RowsOf(d, w)
        BY <1>1, <3>2, NullifierIsInjective DEF RowsOf, Nullifier
      <4> QED BY <3>2, <4>1 DEF Box
    <3> QED BY <3>1, <3>2
  <2> QED BY <1>1, <2>1, <2>2
<1>4. answer'[c] \notin {"accepted", "conflict"}
  BY HandlerStepShape DEF Inserts, BallotInv, AnswersAreFinal, TypeOK
<1>5. Told("accepted")' = Told("accepted") /\ Told("conflict")' = Told("conflict")
  BY <1>4, TellsOnlyTheSender
<1> QED BY <1>2, <1>3, <1>5 DEF Promise!Put

LEMMA PromiseAnswer ==
    ASSUME SystemInv, BoxIsExact, NEW c \in Casts, HandlerStep(c), ~Inserts(c)
    PROVE  [Promise!Next]_(Promise!boxVars)
<1> DEFINE e == cast[c].election
           v == cast[c].voter
<1> USE DEF SystemInv
<1>1. Box' = Box
  BY RecordedGrows, BoxStays DEF TypeOK
<1>2. /\ \A d \in Casts \ {c} : answer'[d] = answer[d]
      /\ pc[c] # "done"
      /\ answer[c] \notin {"accepted", "conflict"}
  BY HandlerStepShape DEF TypeOK, BallotInv, AnswersAreFinal
<1>3. CASE answer'[c] \notin {"accepted", "conflict"}
  <2>1. Told("accepted")' = Told("accepted") /\ Told("conflict")' = Told("conflict")
    BY <1>3, TellsOnlyTheSender
  <2> QED BY <1>1, <2>1 DEF Promise!boxVars
<1>4. CASE answer'[c] = "accepted"
  <2>1. pc[c] = "record"
    BY <1>2, <1>4, HandlerAnswers DEF TypeOK
  <2>2. e \in Elections /\ v \in Voters /\ VoteRow(c) \in RowsOf(e, v)
    BY <2>1 DEF TypeOK, CastTypeOK, CastRequest, BallotInv, RecordingIsRecorded, RowsAreOwn, RowsOf,
       VoteRow
  <2>3. Box[e][v] = c
    BY <2>2 DEF BoxIsExact, VoteRow
  <2>4. Told("accepted")' = Told("accepted") \cup {<<e, v, c>>} /\ Told("conflict")' = Told("conflict")
    BY <1>4, TellsOnlyTheSender
  <2>5. Box[e][v] # NoRequest /\ Told("accepted")' = Told("accepted") \cup {<<e, v, Box[e][v]>>}
    BY <2>3, <2>4, NoRequestIsNoCast
  <2>6. PICK d \in Elections, w \in Voters : d = e /\ w = v
    BY <2>2
  <2>7. Promise!Accept(d, w)
    BY <1>1, <2>4, <2>5, <2>6 DEF Promise!Accept
  <2> QED BY <2>7 DEF Promise!Next
<1>5. CASE answer'[c] = "conflict"
  <2>1. pc[c] \in {"nullifier", "cast"} /\ cast[c] \in CastRequest
    BY <1>2, <1>5, HandlerAnswers DEF TypeOK, CastTypeOK
  <2>2. e \in Elections /\ v \in Voters /\ CastNullifier(c) = Nullifier(v, e)
    BY <2>1, OwnNullifier DEF CastRequest, PastGate
  <2>3. RowsOf(e, v) # {}
    <3>1. CASE [election |-> e, nullifier |-> CastNullifier(c)] \in nullifiers
      BY <2>2, <3>1 DEF BallotInv, NullifierImpliesBallot, RowsOf
    <3>2. CASE Spent(c)
      BY <2>2, <3>2 DEF Spent, BallotInv, HasVotedIffRecorded, RowsOf, Recorded
    <3> QED BY <1>2, <1>5, <3>1, <3>2, HandlerAnswers DEF TypeOK
  <2>4. PICK r \in RowsOf(e, v) : r.ballot \in Casts /\ r.ballot # c
    BY <2>1, <2>3 DEF RowsOf, BallotInv, RowsAreOwn, Recorded, TypeOK, CastTypeOK, VoteSet
  <2>5. Box[e][v] \notin {NoRequest, c}
    BY <2>2, <2>4, NoRequestIsNoCast DEF BoxIsExact
  <2>6. Told("conflict")' = Told("conflict") \cup {<<e, v, c>>} /\ Told("accepted")' = Told("accepted")
    BY <1>5, TellsOnlyTheSender
  <2>7. PICK d \in Elections, w \in Voters : d = e /\ w = v
    BY <2>2
  <2>8. Promise!Refuse(d, w, c)
    BY <1>1, <2>5, <2>6, <2>7 DEF Promise!Refuse
  <2> QED BY <2>8 DEF Promise!Next
<1> QED BY <1>3, <1>4, <1>5

LEMMA PromiseStep ==
    ASSUME SystemInv, BoxIsExact, BoxIsExact', [Next]_vars
    PROVE  [Promise!Next]_(Promise!boxVars)
<1>1. ASSUME NEW c \in Casts, HandlerStep(c), Inserts(c)
      PROVE  Promise!Next
  BY <1>1, PromiseInsert, InsertIsFirst DEF Promise!Next, SystemInv
<1>2. ASSUME NEW c \in Casts, HandlerStep(c), ~Inserts(c)
      PROVE  [Promise!Next]_(Promise!boxVars)
  BY <1>2, PromiseAnswer
<1>3. ASSUME Environment \/ UNCHANGED castVars
      PROVE  UNCHANGED Promise!boxVars
  <2>1. Recorded' = Recorded /\ answer' = answer /\ cast' = cast
    BY <1>3 DEF Environment, CommitSetup, KeyChanges, Register, Disqualify, DeleteVote, Recorded,
       castVars, stored, handlers
  <2>2. Box' = Box
    BY <2>1, BoxStays
  <2> QED BY <2>1, <2>2 DEF Promise!boxVars, Told
<1> QED BY <1>1, <1>2, <1>3 DEF Next, CastNext, HandlerStep, vars

\* POST /vote, in every interleaving with retries, sessions, window changes, failures and
\* the demo deletion, implements the ballot box: one ballot per voter and election, kept
\* for good, and final answers that are truthful.
THEOREM CastVoteImplementsBallotBox == Spec => CastingKeepsItsPromise
<1>1. SystemInv => BoxIsExact
  BY BoxReadsTheRow DEF SystemInv, BallotInv
<1>2. SystemInv /\ BoxIsExact /\ BoxIsExact' /\ [Next]_vars => [Promise!Next]_(Promise!boxVars)
  BY PromiseStep
<1> QED BY <1>1, <1>2, PromiseInit, SystemInvHolds, PTL
     DEF Spec, CastingKeepsItsPromise, Promise!Spec
=============================================================================
