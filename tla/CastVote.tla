------------------------------- MODULE CastVote -------------------------------
(***************************************************************************)
(* POST /vote: backend/src/routes/vote.ts with the identity resolution of  *)
(* services/castIdentity.ts, the stored procedure fn_cast_vote and the     *)
(* constraints of backend/src/schema.sql, running against the election     *)
(* window of ElectionLifecycle.                                            *)
(*                                                                         *)
(* A handler is a chain of awaits.  Every database call is one step, so    *)
(* requests of one voter, of several voters and of the administrator       *)
(* interleave between any two calls, and any call may fail, lose its       *)
(* answer, or be the last one before the process dies.  fn_cast_vote locks *)
(* the voter's row and runs in one transaction: one step.                  *)
(*                                                                         *)
(* A nullifier is a hash of (nid, election, secret) and nid_hash one of    *)
(* the nid: both are taken to be injective.  A ballot is named by the      *)
(* request that carries it.                                                *)
(***************************************************************************)
EXTENDS ElectionLifecycle

CONSTANTS
    Voters,         \* people, identified by their nid
    Casts,          \* POST /vote requests, retries included
    NoSession,      \* the credential of a request that carries the raw nid
    TamperDemo      \* ENABLE_TAMPER_DEMO: the demo route may delete a vote row

ASSUME TamperDemoIsBoolean == TamperDemo \in BOOLEAN
ASSUME NoSessionIsNoElection == NoSession \notin Elections
ASSUME NoRequestIsNoCast == NoRequest \notin Casts

VARIABLES
    roll,           \* voters rows: is the voter registered, and eligible
    hasVoted,       \* voters.has_voted
    votes,          \* votes rows
    deleted,        \* history: rows fn_admin_delete_vote removed
    nullifiers,     \* nullifiers rows
    committed,      \* elections with an election_setup_commitments row
    keyReady,       \* elections whose key ceremony is 'qualified'
    cast,           \* each request and the status its getElection returned
    pc,             \* the database call each handler makes next
    answer          \* what the client was told

stored == <<roll, hasVoted, votes, deleted, nullifiers, committed, keyReady>>
handlers == <<cast, pc, answer>>
castVars == <<stored, handlers>>
vars == <<lifecycleVars, castVars>>

-----------------------------------------------------------------------------
Nullifier(v, e) == <<v, e>>

\* Broken: the pseudonym is always taken from the session.
CastNullifierOfSession(c) == Nullifier(cast[c].voter, cast[c].session)

\* The pseudonym a request casts under: computed from the nid of the body, or
\* captured when its session was issued, for the session's own election.
CastNullifier(c) ==
    Nullifier(cast[c].voter,
              IF cast[c].session = NoSession THEN cast[c].election ELSE cast[c].session)

VoteRow(c) ==
    [election |-> cast[c].election, nullifier |-> CastNullifier(c), ballot |-> c]

Registered(e, v) == roll[e][v] # "unregistered"

Recorded == votes \cup deleted

RowsOf(e, v) ==
    {r \in Recorded : r.election = e /\ r.nullifier = Nullifier(v, e)}

Active(c) == pc[c] \notin {"idle", "done"}

Awaits(c, call) ==
    /\ pc' = [pc EXCEPT ![c] = call]
    /\ UNCHANGED <<cast, answer>>

Answers(c, a) ==
    /\ pc' = [pc EXCEPT ![c] = "done"]
    /\ answer' = [answer EXCEPT ![c] = a]
    /\ UNCHANGED cast

Checks == UNCHANGED <<lifecycleVars, stored>>

-----------------------------------------------------------------------------
\* The request arrives and getElection returns: the handler keeps this status.
ReceiveCast(c, v, e, s) ==
    /\ pc[c] = "idle"
    /\ s # NoSession => Registered(s, v)
    /\ cast' = [cast EXCEPT ![c] =
                  [voter |-> v, election |-> e, session |-> s, seen |-> status[e]]]
    /\ IF Exists(e)
       THEN pc' = [pc EXCEPT ![c] = "identity"] /\ UNCHANGED answer
       ELSE pc' = [pc EXCEPT ![c] = "done"] /\ answer' = [answer EXCEPT ![c] = "refused"]
    /\ Checks

\* Broken: a session is good for every election its voter is registered in.
SessionMatchesAnyElection(c) ==
    cast[c].session # NoSession => Registered(cast[c].election, cast[c].voter)

\* A session serves its own election, for a voter on that election's roll.
SessionMatches(c) ==
    cast[c].session # NoSession =>
        /\ cast[c].session = cast[c].election
        /\ Registered(cast[c].election, cast[c].voter)

\* resolveCastIdentity, then the window gate on the status read at arrival.
ResolveIdentity(c) ==
    /\ pc[c] = "identity"
    /\ IF SessionMatches(c) /\ IsAcceptingVotes(cast[c].seen)
       THEN Awaits(c, "setup")
       ELSE Answers(c, "refused")
    /\ Checks

\* The token is unknown, expired, revoked or bound to another device (401).
SessionRefused(c) ==
    /\ pc[c] = "identity" /\ cast[c].session # NoSession
    /\ Answers(c, "refused")
    /\ Checks

\* Broken: the commitment is looked up and its absence only logged.
CheckSetupLogged(c) ==
    /\ pc[c] = "setup"
    /\ Awaits(c, "nullifier")
    /\ Checks

CheckSetup(c) ==
    /\ pc[c] = "setup"
    /\ IF cast[c].election \in committed THEN Awaits(c, "nullifier") ELSE Answers(c, "refused")
    /\ Checks

\* Broken: the lookup is not scoped to the election.
CheckNullifierAnyElection(c) ==
    /\ pc[c] = "nullifier"
    /\ IF \E n \in nullifiers : n.nullifier[1] = cast[c].voter
       THEN Answers(c, "conflict") ELSE Awaits(c, "ballot")
    /\ Checks

CheckNullifier(c) ==
    /\ pc[c] = "nullifier"
    /\ IF [election |-> cast[c].election, nullifier |-> CastNullifier(c)] \in nullifiers
       THEN Answers(c, "conflict") ELSE Awaits(c, "ballot")
    /\ Checks

\* The candidate set and the election key are read and the proof verified.
CheckBallot(c) ==
    /\ pc[c] = "ballot" /\ cast[c].election \in keyReady
    /\ Awaits(c, "cast")
    /\ Checks

\* Broken: the handler waits for a key instead of answering 503.
RefuseBallotWithKey(c) ==
    /\ pc[c] = "ballot" /\ cast[c].election \in keyReady
    /\ Answers(c, "refused")
    /\ Checks

\* No candidates (404), no key yet (503), or a proof that does not verify (400).
RefuseBallot(c) ==
    /\ pc[c] = "ballot"
    /\ Answers(c, "refused")
    /\ Checks

-----------------------------------------------------------------------------
\* fn_cast_vote, and the handler's mapping of its errors (mapCastVoteError).

Eligible(c) == roll[cast[c].election][cast[c].voter] = "eligible"

\* Broken: only the unique index (election_id, nullifier_hash) stops a second row.
SpentIndexOnly(c) ==
    \E r \in votes : r.election = cast[c].election /\ r.nullifier = CastNullifier(c)

\* P0004: has_voted is set; 23505: the row's key is taken.
Spent(c) ==
    \/ <<cast[c].election, cast[c].voter>> \in hasVoted
    \/ \E r \in votes : r.election = cast[c].election /\ r.nullifier = CastNullifier(c)

\* Broken: has_voted is left for a later call to set.
InsertVoteOnly(c) ==
    /\ votes' = votes \cup {VoteRow(c)}
    /\ UNCHANGED <<lifecycleVars, roll, hasVoted, deleted, nullifiers, committed, keyReady>>

InsertVote(c) ==
    /\ votes' = votes \cup {VoteRow(c)}
    /\ hasVoted' = hasVoted \cup {<<cast[c].election, cast[c].voter>>}
    /\ UNCHANGED <<lifecycleVars, roll, deleted, nullifiers, committed, keyReady>>

CastVoteCommits(c) ==
    /\ pc[c] = "cast" /\ Eligible(c) /\ ~Spent(c)
    /\ InsertVote(c)
    /\ Awaits(c, "record")

\* The transaction commits but its answer is lost: the client is told 500.
CastVoteUnanswered(c) ==
    /\ pc[c] = "cast" /\ Eligible(c) /\ ~Spent(c)
    /\ InsertVote(c)
    /\ Answers(c, "error")

\* Broken: an error of the procedure falls through to the nullifier insert.
CastVoteRaisesUnnoticed(c) ==
    /\ pc[c] = "cast" /\ ~(Eligible(c) /\ ~Spent(c))
    /\ Awaits(c, "record")
    /\ Checks

\* Broken: every error of the procedure is reported as a vote already cast.
CastVoteRaisesConflict(c) ==
    /\ pc[c] = "cast" /\ ~(Eligible(c) /\ ~Spent(c))
    /\ Answers(c, "conflict")
    /\ Checks

CastVoteRaises(c) ==
    /\ pc[c] = "cast" /\ ~(Eligible(c) /\ ~Spent(c))
    /\ Answers(c, IF Eligible(c) THEN "conflict" ELSE "refused")
    /\ Checks

\* The nullifier row, then 201.
RecordNullifier(c) ==
    /\ pc[c] = "record"
    /\ nullifiers' = nullifiers \cup
         {[election |-> cast[c].election, nullifier |-> CastNullifier(c)]}
    /\ Answers(c, "accepted")
    /\ UNCHANGED <<lifecycleVars, roll, hasVoted, votes, deleted, committed, keyReady>>

\* A failed insert is only a warning in the log: 201 all the same.
RecordNullifierFails(c) ==
    /\ pc[c] = "record"
    /\ Answers(c, "accepted")
    /\ Checks

-----------------------------------------------------------------------------
\* A call before the nullifier insert fails without effect: 500, or 503 for the
\* voter record of a session.
CastFails(c) ==
    /\ Active(c) /\ pc[c] # "record"
    /\ Answers(c, "error")
    /\ Checks

\* The process dies, or the connection is lost: the client hears nothing.
CastDropped(c) ==
    /\ Active(c)
    /\ Answers(c, "none")
    /\ Checks

-----------------------------------------------------------------------------
\* The rest of the system, as POST /vote sees it.

\* POST /voter/register and /voter/session insert the row once: the unique key
\* (election_id, nid_hash) turns a concurrent second insert away.
Register(e, v) ==
    /\ Exists(e) /\ ~Registered(e, v)
    /\ roll' = [roll EXCEPT ![e][v] = "eligible"]
    /\ UNCHANGED <<lifecycleVars, hasVoted, votes, deleted, nullifiers, committed, keyReady>>
    /\ UNCHANGED handlers

\* No route writes is_eligible; an operator does, in the database.
Disqualify(e, v) ==
    /\ roll[e][v] = "eligible"
    /\ roll' = [roll EXCEPT ![e][v] = "ineligible"]
    /\ UNCHANGED <<lifecycleVars, hasVoted, votes, deleted, nullifiers, committed, keyReady>>
    /\ UNCHANGED handlers

\* deploy-election-setup.ts anchors the commitment and upserts its row.
CommitSetup(e) ==
    /\ Exists(e) /\ e \notin committed
    /\ committed' = committed \cup {e}
    /\ UNCHANGED <<lifecycleVars, roll, hasVoted, votes, deleted, nullifiers, keyReady>>
    /\ UNCHANGED handlers

\* The ceremony's status becomes 'qualified', or is written over by a late round.
KeyChanges(e) ==
    /\ Exists(e)
    /\ keyReady' \in {keyReady \cup {e}, keyReady \ {e}} \ {keyReady}
    /\ UNCHANGED <<lifecycleVars, roll, hasVoted, votes, deleted, nullifiers, committed>>
    /\ UNCHANGED handlers

\* POST /anchor/tamper/delete-vote: the row goes, has_voted and the nullifier stay.
DeleteVote(r) ==
    /\ TamperDemo
    /\ votes' = votes \ {r}
    /\ deleted' = deleted \cup {r}
    /\ UNCHANGED <<lifecycleVars, roll, hasVoted, nullifiers, committed, keyReady>>
    /\ UNCHANGED handlers

-----------------------------------------------------------------------------
Init ==
    /\ LifecycleInit
    /\ roll = [e \in Elections |-> [v \in Voters |-> "unregistered"]]
    /\ hasVoted = {} /\ votes = {} /\ deleted = {} /\ nullifiers = {}
    /\ committed = {} /\ keyReady = {}
    /\ cast = [c \in Casts |-> NoRequest]
    /\ pc = [c \in Casts |-> "idle"]
    /\ answer = [c \in Casts |-> "none"]

\* What the handler does next when the call it awaits succeeds.
CastStep(c) ==
    \/ ResolveIdentity(c) \/ SessionRefused(c) \/ CheckSetup(c) \/ CheckNullifier(c)
    \/ CheckBallot(c) \/ RefuseBallot(c) \/ CastVoteCommits(c) \/ CastVoteRaises(c)
    \/ RecordNullifier(c)

CastFault(c) ==
    \/ CastVoteUnanswered(c) \/ RecordNullifierFails(c) \/ CastFails(c) \/ CastDropped(c)

CastNext ==
    \E c \in Casts :
        \/ \E v \in Voters, e \in Elections, s \in Elections \cup {NoSession} :
               ReceiveCast(c, v, e, s)
        \/ CastStep(c)
        \/ CastFault(c)

Environment ==
    \/ \E e \in Elections : CommitSetup(e) \/ KeyChanges(e)
    \/ \E e \in Elections, v \in Voters : Register(e, v) \/ Disqualify(e, v)
    \/ \E r \in votes : DeleteVote(r)

Next ==
    \/ LifecycleNext /\ UNCHANGED castVars
    \/ CastNext
    \/ Environment

\* An awaited call ends and the handler is resumed; nothing else need happen.
CastFairness == \A c \in Casts : WF_vars(CastStep(c))

Fairness == LifecycleFairness /\ CastFairness

Spec == Init /\ [][Next]_vars

FairSpec == Spec /\ Fairness

-----------------------------------------------------------------------------
CastRequest == [voter : Voters, election : Elections,
                session : Elections \cup {NoSession}, seen : Statuses \cup {"absent"}]

NullifierSet == {Nullifier(v, e) : v \in Voters, e \in Elections}

VoteSet == [election : Elections, nullifier : NullifierSet, ballot : Casts]

Calls == {"identity", "setup", "nullifier", "ballot", "cast", "record"}

CastTypeOK ==
    /\ roll \in [Elections -> [Voters -> {"unregistered", "eligible", "ineligible"}]]
    /\ hasVoted \subseteq Elections \X Voters
    /\ votes \subseteq VoteSet
    /\ deleted \subseteq VoteSet
    /\ nullifiers \subseteq [election : Elections, nullifier : NullifierSet]
    /\ committed \subseteq Elections
    /\ keyReady \subseteq Elections
    /\ cast \in [Casts -> CastRequest \cup {NoRequest}]
    /\ pc \in [Casts -> Calls \cup {"idle", "done"}]
    /\ answer \in [Casts -> {"none", "accepted", "conflict", "refused", "error"}]
    /\ \A c \in Casts : pc[c] # "idle" => cast[c] \in CastRequest

TypeOK == LifecycleTypeOK /\ CastTypeOK

\* voters.has_voted and the vote rows never disagree, for any voter, at any moment,
\* although one is keyed by nid_hash and the other by a nullifier that reached the
\* procedure through one of two credentials (schema.sql fn_cast_vote: "no partial
\* state where a vote exists but has_voted is still false").
HasVotedIffRecorded ==
    \A e \in Elections, v \in Voters : <<e, v>> \in hasVoted <=> RowsOf(e, v) # {}

\* One person, one vote: over the whole history of an election no voter has had two
\* vote rows, not even after the demo route deleted the first and freed its key in
\* the unique index (uq_votes_election_nullifier_hash, P0004).
OneBallotPerVoter ==
    \A r, s \in Recorded : (r.election = s.election /\ r.nullifier = s.nullifier) => r = s

\* The fast "has voted" table never accuses a voter whose ballot is not recorded:
\* POST /voter/check-nullifier says yes only to people who voted (vote.ts steps 1, 3).
NullifierImpliesBallot ==
    \A n \in nullifiers :
        \E r \in Recorded : r.election = n.election /\ r.nullifier = n.nullifier

\* A 201 is only ever sent for a ballot that was recorded for the sender, in the
\* election of the request ("no device claims success without a 2xx" and the converse,
\* VERIFICATION_AND_TESTING.md A-6).
AcceptedIsRecorded ==
    \A c \in Casts : answer[c] = "accepted" =>
        /\ VoteRow(c) \in Recorded
        /\ <<cast[c].election, cast[c].voter>> \in hasVoted

\* Nobody is told "You have already voted" (vote.ts step 1, P0004, 23505) unless a
\* ballot other than the one just sent is on record for them in that election: a
\* voter whose first answer was lost can trust the 409 the retry gets.
NoPhantomConflict ==
    \A c \in Casts : answer[c] = "conflict" =>
        \E r \in RowsOf(cast[c].election, cast[c].voter) : r.ballot # c

\* No ballot exists for an election whose candidate set is not committed or that was
\* never opened (vote.ts step 0: "a commitment computed after votes exist could be
\* back-dated"); it survives any later race of PATCH requests.
BallotsFollowSetup ==
    \A r \in Recorded : r.election \in committed /\ status[r.election] \notin {"absent", "setup"}

\* A request that saw the window open and has not been answered.
Admitted(c, e) == Active(c) /\ cast[c].election = e /\ cast[c].seen = "voting"

\* Once an election has left 'voting' and the requests admitted before that are
\* answered, its ballots are frozen: only requests in flight at the close can add one.
DrainedWindowFreezesBallots ==
    [][\A e \in Elections :
          /\ status[e] \in {"tallying", "closed"}
          /\ \A c \in Casts : ~Admitted(c, e)
          => {r \in votes' : r.election = e} \subseteq votes]_votes

\* A ballot enters an election only while its status is 'voting' (T13, "voting after
\* official close / close mid-submission": MITIGATED).
BallotsOnlyWhileOpen ==
    [][\A r \in votes' \ votes : status[r.election] = "voting"]_votes

\* Every request the server took up is answered or dropped (fairness: an awaited
\* database call ends).
EveryCastEnds == \A c \in Casts : (pc[c] # "idle") ~> (pc[c] = "done")

\* Casting implements the ballot box: an entitlement is spent at most once and for
\* good, and the two final answers are truthful.
Box == [e \in Elections |-> [v \in Voters |->
    IF RowsOf(e, v) = {} THEN NoRequest ELSE (CHOOSE r \in RowsOf(e, v) : TRUE).ballot]]

Told(a) == {<<cast[c].election, cast[c].voter, c>> : c \in {d \in Casts : answer[d] = a}}

Promise == INSTANCE BallotBox WITH
    Ballots <- Casts, None <- NoRequest, box <- Box,
    accepted <- Told("accepted"), refused <- Told("conflict")

CastingKeepsItsPromise == Promise!Spec
=============================================================================
