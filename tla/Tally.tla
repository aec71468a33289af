------------------------------- MODULE Tally -------------------------------
(***************************************************************************)
(* Partial decryptions and the tally: backend/src/routes/keyshares.ts, the  *)
(* key holders' page frontend/src/pages/KeyShareSubmit.tsx, the tallying    *)
(* page, and GET /public/results of routes/public.ts; from the key the      *)
(* ceremony left behind. One batch of ballots is anchored and covered, its  *)
(* election's setup committed. A partial decryption of a ballot is the      *)
(* share it was made with: the DLEQ proof shows it is the share of the      *)
(* published commitment, and Threshold of the key's shares open the ballot  *)
(* (ThresholdCrypto, MCCeremony).                                           *)
(***************************************************************************)
EXTENDS KeyCeremony, Sequences

CONSTANTS
    Ballots,        \* ballots in the batch
    Threshold,      \* partial decryptions that open one: 3 in the code
    MaxTallies      \* tallies at work at once: a bound

ASSUME TallyAssumption ==
    /\ Ballots \in Nat \ {0}
    /\ Threshold \in 1..N

Ballot == 1..Ballots

VARIABLES
    sealed,     \* the key the batch was encrypted under, {} while voting is not over
    partial,    \* partial_decryptions, per holder and ballot: the share used, {} without a row
    posts,      \* per holder, the submit-partial handler at work: the next ballot, the share
    reading,    \* tally handlers that have read and not stamped their run: what each counts
                \* (two that count the same are one); history: another was stamped since it read
    stamped,    \* those whose run is stamped and not stored, in the order of their tallied_at
    results     \* the tally_runs row with the latest tallied_at: what it counted, {} before one

tallies == <<reading, stamped, results>>
tallyVars == <<sealed, partial, posts, tallies>>
vars == <<ceremonyVars, tallyVars>>

NoPost == [next |-> 0, share |-> {}]

TallyInit ==
    /\ CeremonyInit
    /\ sealed = {}
    /\ partial = [h \in Holder |-> [b \in Ballot |-> {}]]
    /\ posts = [h \in Holder |-> NoPost]
    /\ reading = {} /\ stamped = <<>> /\ results = {}

\* getElectionPublicKey: voters get a key from a qualified ceremony only.
PublicKey == IF status = "qualified" THEN key ELSE {}

\* The ballots are cast under it; the ceremony's requests and tabs do not outlive the vote.
Vote ==
    /\ sealed = {} /\ requests = {} /\ PublicKey # {}
    /\ sealed' = PublicKey
    /\ page' = [h \in Holder |-> [page[h] EXCEPT !.phase = <<"auth", 0>>, !.session = 0,
                                                !.round1 = NoAttempt]]
    /\ UNCHANGED <<tables, requests, history, faults, partial, posts, tallies>>

(***************************************************************************)
(* Submitting. The page needs its holder's commitment to be there, and does *)
(* not compare the share it is given with it.                               *)
(***************************************************************************)
Mistyped == { <<0, 0>> }

\* verifyDleq, for the share a partial was made with and the commitment published.
Valid(h, b) == partial[h][b] # {} /\ partial[h][b] = y[h]

SubmitPartials(h, share) ==
    /\ sealed # {} /\ posts[h] = NoPost
    /\ y[h] # {} /\ share # {}
    /\ \E b \in Ballot : partial[h][b] # share
    /\ posts' = [posts EXCEPT ![h] = [next |-> 1, share |-> share]]
    /\ UNCHANGED <<tables, requests, page, history, sealed, partial, tallies>>

SubmitShare(h) == SubmitPartials(h, page[h].share) /\ UNCHANGED faults

SubmitMistyped(h) ==
    /\ faults < MaxFaults /\ faults' = faults + 1
    /\ SubmitPartials(h, Mistyped)

Advance(h) ==
    /\ posts[h] # NoPost
    /\ posts' = [posts EXCEPT ![h] = IF posts[h].next = Ballots THEN NoPost
                                     ELSE [next |-> posts[h].next + 1, share |-> posts[h].share]]
    /\ UNCHANGED <<tables, requests, page, history, sealed, tallies>>

\* An insert that fails is noted ("storage_error") and the loop goes on.
InsertFails(h) ==
    /\ faults < MaxFaults /\ faults' = faults + 1
    /\ Advance(h) /\ UNCHANGED partial

\* One insert per ballot; a row there already is kept ("already_submitted").
InsertPartial(h) ==
    /\ Advance(h) /\ UNCHANGED faults
    /\ partial' = [partial EXCEPT ![h][posts[h].next] = IF @ = {} THEN posts[h].share ELSE @]

\* The handler dies between two inserts.
PostFails(h) ==
    /\ faults < MaxFaults /\ faults' = faults + 1
    /\ posts[h] # NoPost
    /\ posts' = [posts EXCEPT ![h] = NoPost]
    /\ UNCHANGED <<tables, requests, page, history, sealed, partial, tallies>>

(***************************************************************************)
(* POST /keyshares/tally: reads and counts, stamps its run with the time,   *)
(* stores it. /public/results shows the run stamped last.                   *)
(***************************************************************************)
Lowest(holders) ==
    { h \in holders : Cardinality({ i \in holders : i <= h }) <= Threshold }

\* A tally that trusts the rows it finds.
CountsAnyRow(b) == Cardinality({ h \in Holder : partial[h][b] # {} }) >= Threshold

\* A tally that chooses its partials before it verifies them.
CountsChosenFirst(b) ==
    LET chosen == Lowest({ h \in Holder : partial[h][b] # {} })
    IN  Cardinality(chosen) = Threshold /\ \A h \in chosen : Valid(h, b)

\* Enough partials verify, and the lowest of them combine to a candidate.
Counts(b) ==
    LET chosen == Lowest({ h \in Holder : Valid(h, b) })
    IN  Cardinality(chosen) = Threshold /\ \A h \in chosen : partial[h][b] = sealed

\* What independent-verify-tally.ts makes of the bundle: it verifies every partial, and takes
\* the lowest of those that passed.
Recounts(b) ==
    LET verified == { h \in Holder : Valid(h, b) }
    IN  /\ Cardinality(verified) >= Threshold
        /\ \A h \in Lowest(verified) : partial[h][b] = sealed

Tally ==
    /\ sealed # {}
    /\ Cardinality(reading) + Len(stamped) < MaxTallies
    /\ reading' = reading \cup {[counted |-> { b \in Ballot : Counts(b) }, overtaken |-> FALSE]}
    /\ UNCHANGED <<ceremonyVars, sealed, partial, posts, stamped, results>>

StampRun(run) ==
    /\ stamped' = Append(stamped, run)
    /\ reading' = { [other EXCEPT !.overtaken = TRUE] : other \in reading \ {run} }
    /\ UNCHANGED <<ceremonyVars, sealed, partial, posts, results>>

\* /public/results in the order the rows were stored in.
ShowLastStored(i) ==
    /\ results' = stamped[i].counted
    /\ stamped' = SubSeq(stamped, 1, i - 1) \o SubSeq(stamped, i + 1, Len(stamped))
    /\ UNCHANGED <<ceremonyVars, sealed, partial, posts, reading>>

\* Of the runs stamped before this one, stored or still to be, none is shown any more.
PublishRun(i) ==
    /\ results' = stamped[i].counted
    /\ stamped' = SubSeq(stamped, i + 1, Len(stamped))
    /\ UNCHANGED <<ceremonyVars, sealed, partial, posts, reading>>

\* The insert fails: the admin gets the counts, the public does not.
RunIsNotStored(i) ==
    /\ faults < MaxFaults /\ faults' = faults + 1
    /\ stamped' = SubSeq(stamped, 1, i - 1) \o SubSeq(stamped, i + 1, Len(stamped))
    /\ UNCHANGED <<tables, requests, page, history, sealed, partial, posts, reading, results>>

CeremonyStep(A) == sealed = {} /\ A /\ UNCHANGED tallyVars

TallyNext ==
    \/ Vote
    \/ \E h \in Holder : SubmitShare(h) \/ SubmitMistyped(h)
                       \/ InsertPartial(h) \/ InsertFails(h) \/ PostFails(h)
    \/ Tally
    \/ \E run \in reading : StampRun(run)
    \/ \E i \in DOMAIN stamped : PublishRun(i) \/ RunIsNotStored(i)

Next == CeremonyStep(CeremonyNext) \/ TallyNext

Spec == TallyInit /\ [][Next]_vars

(***************************************************************************)
(* Each holder goes on, in the ceremony and with its submission; and so     *)
(* does the election: handlers run, the vote is held, the tally is run      *)
(* again.                                                                   *)
(***************************************************************************)
HolderMoves(h) == CeremonyStep(PageStep(h)) \/ SubmitShare(h) \/ InsertPartial(h)

ElectionMoves ==
    \/ CeremonyStep(InitCeremony \/ \E r \in requests : Handle(r))
    \/ Vote
    \/ Tally
    \/ \E run \in reading : StampRun(run)
    \/ \E i \in DOMAIN stamped : PublishRun(i)

Fairness ==
    /\ \A h \in Holder : WF_vars(HolderMoves(h))
    /\ WF_vars(ElectionMoves)

FairSpec == Spec /\ Fairness

(***************************************************************************)
(* Properties.                                                              *)
(***************************************************************************)

\* A holder's final share is a share of the qualified key, or of a part of it (a page
\* resumed in round 3 sums an inbox that is not complete), unless a dealer's round 1 was
\* replaced after a page in round 3 had fetched it. RunRound3 verifies, Combine reads the
\* participants again, much later: dkg.ts combineAndQualify, KeyCeremony.tsx runRound3.
QualifiedKeyIsShared ==
    ~revoked /\ key # {} => \A h \in Holder : page[h].share \subseteq key

\* Nobody will ask for the key: every holder has confirmed, no handler of round 3 is at work,
\* and no page shows round 3 with what it takes to send it again. A page reloaded shows a
\* holder that has confirmed "qualified", whatever the ceremony's status.
Unasked ==
    /\ confirmed = Holder /\ key = {}
    /\ \A r \in requests : r.route # 3
    /\ \A h \in Holder : page[h].phase \in {<<"ready", 3>>, <<"reading", 3>>} =>
          page[h].session = 0 \/ \E i \in Inbox : ~Opens(h, i, participants)

\* What no call repairs: a holder whose session is not the attempt it published, a sub-share
\* its recipient cannot verify, a key nobody will ask for, a qualified ceremony with holders'
\* commitments missing, and one whose status a late handler has set back.
Stuck ==
    \/ \E h \in Holder \ confirmed : participants[h] # 0 /\ page[h].session # participants[h]
    \/ \E h \in Holder \ confirmed, i \in Inbox : ~Opens(h, i, participants)
    \/ Unasked
    \/ status = "qualified" /\ \E h \in Holder : y[h] = {}
    \/ key # {} /\ status # "qualified"

\* The ceremony ends qualified with every holder's commitment published, or a failure has
\* left it stuck in one of these five ways for good: nothing else keeps it from ending
\* (dkg.ts, KeyCeremony.tsx).
CeremonyCompletes ==
    <>(status = "qualified" /\ \A h \in Holder : y[h] # {}) \/ <>[](faults > 0 /\ Stuck)

\* A published run counts a ballot only if Threshold holders stored a partial made with
\* their share of the key it was encrypted under (keyshares.ts POST /tally).
CountsAreTrue ==
    \A b \in results : Cardinality({ h \in Holder : partial[h][b] = sealed }) >= Threshold

\* Holders whose rows, for every ballot, are right or still to come.
Able(h) ==
    /\ y[h] = sealed /\ page[h].share = sealed /\ posts[h].share \in {{}, sealed}
    /\ \A b \in Ballot : partial[h][b] \in {{}, sealed}

Decryptable == sealed # {} /\ Cardinality({ h \in Holder : Able(h) }) >= Threshold

\* While Threshold holders keep to their share, the rest can store what they like: in the end
\* every ballot is counted, and the independent recount agrees (keyshares.ts: invalid rows are
\* flagged and passed over).
BatchIsCounted ==
    []<>(Decryptable => results = Ballot /\ \A b \in Ballot : Recounts(b))

\* What the public is shown loses no ballot to a later run, unless that run was overtaken:
\* it read the rows before the stamp of another and has the later stamp all the same. The
\* rows are write-once (keyshares.ts submit-partial, trg_partial_decryptions_no_update), and
\* the latest tallied_at is shown, not the run stored last (public.ts).
RunsKeepBallots ==
    [][\A i \in DOMAIN stamped :
          PublishRun(i) /\ ~stamped[i].overtaken => results \subseteq results']_vars
=============================================================================
