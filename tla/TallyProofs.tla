----------------------------- MODULE TallyProofs -----------------------------
(***************************************************************************)
(* Proofs about Tally for any number of key holders, ballots, tallies and   *)
(* failures, and any threshold. A published count is true: rows of          *)
(* partial_decryptions are written once, and nothing is counted before the  *)
(* batch is sealed. And the shares the ceremony left behind are shares of   *)
(* the key the ballots were sealed with.                                    *)
(***************************************************************************)
EXTENDS Tally, KeyCeremonyProofs, FiniteSetTheorems, SequenceTheorems

\* The holders whose stored partial opens the ballot.
Openers(b) == { h \in Holder : partial[h][b] = sealed }

Opened(b) == b \in Ballot /\ Cardinality(Openers(b)) >= Threshold

Run == [counted : SUBSET Ballot, overtaken : BOOLEAN]

\* What the tallies at work have counted.
AtWork == { run.counted : run \in reading } \cup { stamped[i].counted : i \in DOMAIN stamped }

\* CountsAreTrue with what makes it inductive: a tally at work has counted opened ballots
\* only, and neither it nor a run counts anything while there is no sealed batch.
CountInv ==
    /\ partial = [h \in Holder |-> [b \in Ballot |-> partial[h][b]]]
    /\ reading \subseteq Run /\ stamped \in Seq(Run)
    /\ \A c \in AtWork : \A b \in c : Opened(b)
    /\ \A b \in results : Opened(b)
    /\ sealed = {} => results = {} /\ AtWork = {}

-----------------------------------------------------------------------------
LEMMA HoldersAreFinite ==
    /\ IsFiniteSet(Holder)
    /\ \A S \in SUBSET Holder : IsFiniteSet(S) /\ Cardinality(S) \in Nat
<1>1. IsFiniteSet(Holder)
  BY CeremonyAssumption, FS_Interval DEF Holder
<1> QED BY <1>1, FS_Subset, FS_CardinalityType

LEMMA InitCounts == TallyInit => CountInv
BY DEF TallyInit, CountInv, AtWork

LEMMA CountedAreBallots == ASSUME CountInv PROVE AtWork \subseteq SUBSET Ballot
<1>1. \A i \in DOMAIN stamped : stamped[i] \in Run
  BY DEF CountInv
<1> QED BY <1>1 DEF CountInv, AtWork, Run

\* A sequence without its first i elements, and one without its i-th.
LEMMA Rest ==
    ASSUME NEW T, NEW s \in Seq(T), NEW i \in 1..Len(s)
    PROVE  /\ SubSeq(s, i + 1, Len(s)) \in Seq(T)
           /\ DOMAIN SubSeq(s, i + 1, Len(s)) = 1..(Len(s) - i)
           /\ \A j \in 1..(Len(s) - i) : SubSeq(s, i + 1, Len(s))[j] = s[i + j]
OBVIOUS

LEMMA Without ==
    ASSUME NEW T, NEW s \in Seq(T), NEW i \in 1..Len(s)
    PROVE  LET r == SubSeq(s, 1, i - 1) \o SubSeq(s, i + 1, Len(s))
           IN  /\ r \in Seq(T) /\ DOMAIN r = 1..(Len(s) - 1)
               /\ \A j \in 1..(Len(s) - 1) : r[j] = IF j < i THEN s[j] ELSE s[j + 1]
<1> DEFINE a == SubSeq(s, 1, i - 1)
           b == SubSeq(s, i + 1, Len(s))
           r == a \o b
<1>1. a \in Seq(T) /\ Len(a) = i - 1 /\ \A j \in 1..(i - 1) : a[j] = s[j]
  OBVIOUS
<1>2. b \in Seq(T) /\ Len(b) = Len(s) - i /\ \A j \in 1..(Len(s) - i) : b[j] = s[i + j]
  BY Rest
<1> HIDE DEF a, b
<1>3. /\ r \in Seq(T) /\ Len(r) = Len(a) + Len(b)
      /\ \A j \in 1..(Len(a) + Len(b)) : r[j] = IF j <= Len(a) THEN a[j] ELSE b[j - Len(a)]
  BY <1>1, <1>2, ConcatProperties
<1> HIDE DEF r
<1>4. Len(a) + Len(b) = Len(s) - 1 /\ Len(s) \in Nat /\ DOMAIN r = 1..Len(r)
  BY <1>1, <1>2, <1>3
<1>6. \A j \in 1..(Len(s) - 1) : r[j] = IF j <= i - 1 THEN a[j] ELSE b[j - (i - 1)]
  BY <1>1, <1>3, <1>4
<1>5. ASSUME NEW j \in 1..(Len(s) - 1)
      PROVE  r[j] = IF j < i THEN s[j] ELSE s[j + 1]
  <2>1. CASE j < i
    <3>1. j \in 1..(i - 1)
      BY <1>4, <2>1
    <3> QED BY <1>1, <1>6, <2>1, <3>1
  <2>2. CASE ~(j < i)
    <3>1. r[j] = b[j - (i - 1)] /\ j - (i - 1) \in 1..(Len(s) - i)
      BY <1>4, <1>6, <2>2
    <3>2. i + (j - (i - 1)) = j + 1
      OBVIOUS
    <3> QED BY <1>2, <2>2, <3>1, <3>2
  <2> QED BY <2>1, <2>2
<1>7. r \in Seq(T) /\ DOMAIN r = 1..(Len(s) - 1)
  BY <1>3, <1>4
<1> QED BY <1>5, <1>7 DEF r, a, b

\* A step that only takes tallies out of the work.
LEMMA Withdrawn ==
    ASSUME CountInv, UNCHANGED reading, NEW i \in DOMAIN stamped,
           \/ stamped' = SubSeq(stamped, i + 1, Len(stamped))
           \/ stamped' = SubSeq(stamped, 1, i - 1) \o SubSeq(stamped, i + 1, Len(stamped))
    PROVE  /\ reading' \subseteq Run /\ stamped' \in Seq(Run)
           /\ AtWork' \subseteq AtWork
<1>1. stamped \in Seq(Run) /\ i \in 1..Len(stamped) /\ DOMAIN stamped = 1..Len(stamped)
  BY DEF CountInv
<1>2. /\ stamped' \in Seq(Run)
      /\ \A j \in DOMAIN stamped' : \E k \in DOMAIN stamped : stamped'[j] = stamped[k]
  <2>1. CASE stamped' = SubSeq(stamped, i + 1, Len(stamped))
    <3>1. /\ stamped' \in Seq(Run) /\ DOMAIN stamped' = 1..(Len(stamped) - i)
          /\ \A j \in 1..(Len(stamped) - i) : stamped'[j] = stamped[i + j]
      BY <1>1, <2>1, Rest
    <3>2. \A j \in 1..(Len(stamped) - i) : i + j \in 1..Len(stamped)
      BY <1>1
    <3> QED BY <1>1, <3>1, <3>2
  <2>2. CASE stamped' = SubSeq(stamped, 1, i - 1) \o SubSeq(stamped, i + 1, Len(stamped))
    <3>1. /\ stamped' \in Seq(Run) /\ DOMAIN stamped' = 1..(Len(stamped) - 1)
          /\ \A j \in 1..(Len(stamped) - 1) :
                 stamped'[j] = IF j < i THEN stamped[j] ELSE stamped[j + 1]
      BY <1>1, <2>2, Without
    <3>2. \A j \in 1..(Len(stamped) - 1) : j \in 1..Len(stamped) /\ j + 1 \in 1..Len(stamped)
      BY <1>1
    <3> QED BY <1>1, <3>1, <3>2
  <2> QED BY <2>1, <2>2
<1> QED BY <1>2 DEF CountInv, AtWork

LEMMA StampedStays ==
    ASSUME CountInv, NEW run \in reading, StampRun(run)
    PROVE  /\ reading' \subseteq Run /\ stamped' \in Seq(Run)
           /\ DOMAIN stamped' = 1..(Len(stamped) + 1) /\ DOMAIN stamped = 1..Len(stamped)
           /\ stamped'[Len(stamped) + 1] = run
           /\ \A i \in 1..Len(stamped) : stamped'[i] = stamped[i]
           /\ \A other \in reading' : other.overtaken
           /\ AtWork' \subseteq AtWork
<1>1. /\ stamped' = Append(stamped, run)
      /\ reading' = { [other EXCEPT !.overtaken = TRUE] : other \in reading \ {run} }
  BY DEF StampRun
<1>2. /\ stamped' \in Seq(Run) /\ run \in Run
      /\ DOMAIN stamped' = 1..(Len(stamped) + 1) /\ DOMAIN stamped = 1..Len(stamped)
      /\ stamped'[Len(stamped) + 1] = run
      /\ \A i \in 1..Len(stamped) : stamped'[i] = stamped[i]
  BY <1>1 DEF CountInv
<1>3. ASSUME NEW other \in reading'
      PROVE  /\ other \in Run /\ other.overtaken
             /\ \E old \in reading : other.counted = old.counted
  <2>1. PICK old \in reading : other = [old EXCEPT !.overtaken = TRUE]
    BY <1>1
  <2>2. old \in Run
    BY DEF CountInv
  <2> QED BY <2>1, <2>2 DEF Run
<1>4. ASSUME NEW c \in AtWork'
      PROVE  c \in AtWork
  <2>1. CASE \E other \in reading' : c = other.counted
    BY <1>3, <2>1 DEF AtWork
  <2>2. CASE \E i \in DOMAIN stamped' : c = stamped'[i].counted
    <3>1. PICK i \in DOMAIN stamped' : c = stamped'[i].counted
      BY <2>2
    <3>2. i \in 1..Len(stamped) \/ i = Len(stamped) + 1
      BY <1>2, <3>1
    <3> QED BY <1>2, <3>1, <3>2 DEF AtWork
  <2> QED BY <2>1, <2>2 DEF AtWork
<1> QED BY <1>2, <1>3, <1>4

\* A ballot the tally counts has been opened by Threshold holders.
LEMMA CountedIsOpened ==
    ASSUME NEW b \in Ballot, Counts(b)
    PROVE  Opened(b)
<1> DEFINE valid == { h \in Holder : Valid(h, b) }
           chosen == Lowest(valid)
<1>1. chosen \subseteq Openers(b)
  BY DEF Counts, Lowest, Openers
<1>2. Cardinality(chosen) = Threshold
  BY DEF Counts
<1>3. Openers(b) \subseteq Holder
  BY DEF Openers
<1>4. Cardinality(chosen) <= Cardinality(Openers(b))
  BY <1>1, <1>3, HoldersAreFinite, FS_Subset
<1>5. Cardinality(Openers(b)) \in Nat
  BY <1>3, HoldersAreFinite
<1> QED BY <1>2, <1>4, <1>5 DEF Opened

\* A step that changes no stored partial keeps opened ballots open.
LEMMA OpenedStays ==
    ASSUME NEW b \in Ballot, Opened(b), sealed' = sealed,
           \A h \in Holder : partial[h][b] = sealed => partial'[h][b] = sealed
    PROVE  Opened(b)'
<1>1. Openers(b) \subseteq Openers(b)' /\ Openers(b)' \subseteq Holder
  BY DEF Openers, Holder
<1>2. Cardinality(Openers(b)) <= Cardinality(Openers(b)')
  BY <1>1, HoldersAreFinite, FS_Subset
<1>3. Cardinality(Openers(b)) \in Nat /\ Cardinality(Openers(b)') \in Nat
  BY <1>1, HoldersAreFinite
<1>4. Cardinality(Openers(b)) >= Threshold
  BY DEF Opened
<1>5. Cardinality(Openers(b)') >= Threshold
  BY <1>2, <1>3, <1>4, TallyAssumption DEF Holder
<1> QED BY <1>5 DEF Opened, Ballot

\* partial_decryptions is write-once: whoever submits again, and whatever fails.
WriteOnce ==
    \A h \in Holder, b \in Ballot : partial[h][b] # {} => partial'[h][b] = partial[h][b]

LEMMA InsertIsWriteOnce ==
    ASSUME CountInv, NEW h \in Holder, InsertPartial(h)
    PROVE  WriteOnce /\ partial' = [i \in Holder |-> [b \in Ballot |-> partial'[i][b]]]
<1>1. partial' = [partial EXCEPT ![h][posts[h].next] = IF @ = {} THEN posts[h].share ELSE @]
  BY DEF InsertPartial
<1> DEFINE n == posts[h].next
           row == [partial[h] EXCEPT ![n] = IF partial[h][n] = {} THEN posts[h].share
                                            ELSE partial[h][n]]
<1>2. partial' = [partial EXCEPT ![h] = row]
  BY <1>1
<1>3. DOMAIN partial = Holder /\ \A i \in Holder : partial[i] = [b \in Ballot |-> partial[i][b]]
  BY DEF CountInv
<1>4. partial'[h] = row /\ \A i \in Holder \ {h} : partial'[i] = partial[i]
  BY <1>2, <1>3
<1>5. row = [b \in Ballot |-> row[b]]
  BY <1>3
<1>6. \A b \in Ballot : partial[h][b] # {} => row[b] = partial[h][b]
  BY <1>3
<1>7. WriteOnce
  BY <1>4, <1>6 DEF WriteOnce
<1>8. \A i \in Holder : partial'[i] = [b \in Ballot |-> partial'[i][b]]
  BY <1>3, <1>4, <1>5
<1>9. partial' = [i \in Holder |-> partial'[i]]
  BY <1>2, <1>3
<1> QED BY <1>7, <1>8, <1>9

\* What every step but Vote, Tally and PublishRun has in common.
LEMMA QuietCount ==
    ASSUME CountInv, sealed' = sealed, results' = results, WriteOnce,
           partial' = [h \in Holder |-> [b \in Ballot |-> partial'[h][b]]],
           reading' \subseteq Run, stamped' \in Seq(Run), AtWork' \subseteq AtWork
    PROVE  CountInv'
<1>1. CASE sealed = {}
  <2>1. results' = {} /\ AtWork' = {}
    BY <1>1 DEF CountInv
  <2> QED BY <2>1 DEF CountInv
<1>2. CASE sealed # {}
  <2>1. \A b \in Ballot : Opened(b) => Opened(b)'
    <3>1. \A h \in Holder, b \in Ballot : partial[h][b] = sealed => partial'[h][b] = sealed
      BY <1>2 DEF WriteOnce
    <3> QED BY <3>1, OpenedStays
  <2>2. \A c \in AtWork' : \A b \in c : Opened(b)'
    BY <2>1 DEF CountInv, Opened
  <2>3. \A b \in results' : Opened(b)'
    BY <2>1 DEF CountInv, Opened
  <2> QED BY <1>2, <2>2, <2>3 DEF CountInv
<1> QED BY <1>1, <1>2

LEMMA StepKeepsCounts == CountInv /\ [Next]_vars => CountInv'
<1> SUFFICES ASSUME CountInv, [Next]_vars
             PROVE  CountInv'
  OBVIOUS
<1>1. ASSUME UNCHANGED <<sealed, partial, results>>,
             reading' \subseteq Run, stamped' \in Seq(Run), AtWork' \subseteq AtWork
      PROVE  CountInv'
  <2>1. WriteOnce
    BY <1>1 DEF WriteOnce
  <2>2. partial' = [h \in Holder |-> [b \in Ballot |-> partial'[h][b]]]
    BY <1>1 DEF CountInv
  <2> QED BY <1>1, <2>1, <2>2, QuietCount
<1>2. ASSUME UNCHANGED <<sealed, partial, tallies>>
      PROVE  CountInv'
  <2>1. UNCHANGED <<reading, stamped, results>>
    BY <1>2 DEF tallies
  <2>2. AtWork' = AtWork
    BY <2>1 DEF AtWork
  <2> QED BY <1>1, <1>2, <2>1, <2>2 DEF CountInv
<1>3. CASE UNCHANGED vars
  BY <1>2, <1>3 DEF vars, tallyVars
<1>4. CASE CeremonyStep(CeremonyNext)
  BY <1>2, <1>4 DEF CeremonyStep, tallyVars
<1>5. CASE Vote
  <2>1. UNCHANGED <<partial, reading, stamped, results>> /\ results = {} /\ AtWork = {}
    BY <1>5 DEF Vote, tallies, CountInv
  <2>2. AtWork' = AtWork
    BY <2>1 DEF AtWork
  <2> QED BY <2>1, <2>2 DEF CountInv
<1>6. ASSUME NEW h \in Holder,
             SubmitShare(h) \/ SubmitMistyped(h) \/ InsertFails(h) \/ PostFails(h)
      PROVE  CountInv'
  BY <1>2, <1>6 DEF SubmitShare, SubmitMistyped, SubmitPartials, InsertFails, Advance, PostFails
<1>7. ASSUME NEW h \in Holder, InsertPartial(h)
      PROVE  CountInv'
  <2>1. UNCHANGED <<sealed, results, reading, stamped>>
    BY <1>7 DEF InsertPartial, Advance, tallies
  <2>2. AtWork' = AtWork /\ reading' \subseteq Run /\ stamped' \in Seq(Run)
    BY <2>1 DEF CountInv, AtWork
  <2> QED BY <1>7, <2>1, <2>2, InsertIsWriteOnce, QuietCount
<1>8. CASE Tally
  <2> DEFINE counted == { b \in Ballot : Counts(b) }
             new == [counted |-> counted, overtaken |-> FALSE]
  <2>1. /\ UNCHANGED <<sealed, partial, stamped, results>> /\ sealed # {}
        /\ reading' = reading \cup {new}
    BY <1>8 DEF Tally
  <2>2. new \in Run /\ new.counted = counted
    BY DEF Run
  <2>3. reading' \subseteq Run /\ stamped' \in Seq(Run)
    BY <2>1, <2>2 DEF CountInv
  <2>4. AtWork' \subseteq AtWork \cup {counted}
    BY <2>1, <2>2 DEF AtWork
  <2>5. \A b : Opened(b)' <=> Opened(b)
    BY <2>1 DEF Opened, Openers, Holder, Ballot
  <2>6. \A b \in counted : Opened(b)
    BY CountedIsOpened
  <2>7. \A c \in AtWork' : \A b \in c : Opened(b)'
    BY <2>4, <2>5, <2>6 DEF CountInv
  <2>8. \A b \in results' : Opened(b)'
    BY <2>1, <2>5 DEF CountInv
  <2>9. partial' = [h \in Holder |-> [b \in Ballot |-> partial'[h][b]]]
    BY <2>1 DEF CountInv
  <2> QED BY <2>1, <2>3, <2>7, <2>8, <2>9 DEF CountInv
<1>9. ASSUME NEW run \in reading, StampRun(run)
      PROVE  CountInv'
  BY <1>1, <1>9, StampedStays DEF StampRun
<1>10. ASSUME NEW i \in DOMAIN stamped, PublishRun(i)
       PROVE  CountInv'
  <2>1. /\ UNCHANGED <<sealed, partial, reading>> /\ results' = stamped[i].counted
        /\ stamped' = SubSeq(stamped, i + 1, Len(stamped))
    BY <1>10 DEF PublishRun
  <2>2. reading' \subseteq Run /\ stamped' \in Seq(Run) /\ AtWork' \subseteq AtWork
    BY <2>1, Withdrawn
  <2>3. results' \in AtWork
    BY <2>1 DEF AtWork
  <2>4. \A b : Opened(b)' <=> Opened(b)
    BY <2>1 DEF Opened, Openers, Holder, Ballot
  <2>5. /\ \A c \in AtWork' : \A b \in c : Opened(b)'
        /\ \A b \in results' : Opened(b)'
        /\ sealed' # {}
    BY <2>1, <2>2, <2>3, <2>4 DEF CountInv
  <2>6. partial' = [h \in Holder |-> [b \in Ballot |-> partial'[h][b]]]
    BY <2>1 DEF CountInv
  <2> QED BY <2>2, <2>5, <2>6 DEF CountInv
<1>11. ASSUME NEW i \in DOMAIN stamped, RunIsNotStored(i)
       PROVE  CountInv'
  <2>1. /\ UNCHANGED <<sealed, partial, results, reading>>
        /\ stamped' = SubSeq(stamped, 1, i - 1) \o SubSeq(stamped, i + 1, Len(stamped))
    BY <1>11 DEF RunIsNotStored
  <2> QED BY <1>1, <2>1, Withdrawn
<1> QED
  BY <1>3, <1>4, <1>5, <1>6, <1>7, <1>8, <1>9, <1>10, <1>11 DEF Next, TallyNext

\* A run counts a ballot only if Threshold holders stored a partial made with their share of
\* the key it was encrypted under, however submissions, mistyped shares, failures and the
\* tallies at work together interleave (keyshares.ts POST /tally).
THEOREM PublishedCountsAreTrue == Spec => []CountsAreTrue
<1>1. CountInv => CountsAreTrue
  BY DEF CountInv, CountsAreTrue, Opened, Openers
<1> QED BY <1>1, InitCounts, StepKeepsCounts, PTL DEF Spec

\* The steps of the tallies themselves.
TallyStep ==
    \/ Tally
    \/ \E run \in reading : StampRun(run)
    \/ \E i \in DOMAIN stamped : PublishRun(i) \/ RunIsNotStored(i)

\* A partial decryption is never replaced: submit-partial keeps the row it finds
\* ("already_submitted"), whoever submits again and whichever share was mistyped first.
THEOREM PartialsAreWriteOnce == Spec => [][WriteOnce]_vars
<1>1. CountInv /\ [Next]_vars => WriteOnce
  <2> SUFFICES ASSUME CountInv, [Next]_vars
               PROVE  WriteOnce
    OBVIOUS
  <2>1. ASSUME UNCHANGED partial
        PROVE  WriteOnce
    BY <2>1 DEF WriteOnce
  <2>2. ASSUME NEW h \in Holder, InsertPartial(h)
        PROVE  WriteOnce
    BY <2>2, InsertIsWriteOnce
  <2>3. ASSUME NEW h \in Holder,
               SubmitShare(h) \/ SubmitMistyped(h) \/ InsertFails(h) \/ PostFails(h)
        PROVE  WriteOnce
    BY <2>1, <2>3 DEF SubmitShare, SubmitMistyped, SubmitPartials, InsertFails, PostFails
  <2>4. CASE TallyStep
    BY <2>1, <2>4 DEF TallyStep, Tally, StampRun, PublishRun, RunIsNotStored
  <2>5. CASE Vote \/ CeremonyStep(CeremonyNext) \/ UNCHANGED vars
    BY <2>1, <2>5 DEF Vote, CeremonyStep, vars, tallyVars
  <2> QED BY <2>2, <2>3, <2>4, <2>5 DEF Next, TallyNext, TallyStep
<1> QED BY <1>1, InitCounts, StepKeepsCounts, PTL DEF Spec

-----------------------------------------------------------------------------
\* The steps of a submission.
Submission(h) ==
    SubmitShare(h) \/ SubmitMistyped(h) \/ InsertPartial(h) \/ InsertFails(h) \/ PostFails(h)

LEMMA StepKeepsKey == KeyInv /\ [Next]_vars => KeyInv'
<1> SUFFICES ASSUME KeyInv, [Next]_vars
             PROVE  KeyInv'
  OBVIOUS
<1>1. ASSUME UNCHANGED <<tables, requests, page, history>>
      PROVE  KeyInv'
  <2>1. UNCHANGED <<key, participants, dealt, confirmed, fetched, revoked, page, requests>>
    BY <1>1 DEF tables, history
  <2>2. status' \in Status
    BY <1>1 DEF tables, KeyInv, CeremonyTypes
  <2> QED BY <2>1, <2>2, StutterKeepsKey
<1>2. CASE CeremonyStep(CeremonyNext)
  BY <1>2, CeremonyKeepsKey DEF CeremonyStep
<1>3. CASE Vote
  <2> DEFINE closed(h) == [page[h] EXCEPT !.phase = <<"auth", 0>>, !.session = 0,
                                         !.round1 = NoAttempt]
  <2>1. \A h \in Holder : page[h] \in Page
    BY DEF KeyInv, CeremonyTypes
  <2>2. <<"auth", 0>> \in Phase /\ <<"auth", 0>> # <<"reading", 3>>
    BY Phases
  <2>3. \A h \in Holder : /\ closed(h) \in Page
                          /\ closed(h).share = page[h].share /\ closed(h).phase = <<"auth", 0>>
    BY <2>1, <2>2 DEF Page, NoAttempt
  <2>4. page' = [h \in Holder |-> closed(h)]
    BY <1>3 DEF Vote
  <2> HIDE DEF closed
  <2>5. page' \in [Holder -> Page]
    BY <2>3, <2>4
  <2>6. UNCHANGED <<status, key, participants, dealt, confirmed, fetched, revoked, requests>>
    BY <1>3 DEF Vote, tables, history
  <2>7. \A h \in Holder : PageOK(h)'
    BY <2>2, <2>3, <2>4, <2>6 DEF KeyInv, PageOK
  <2>8. CeremonyTypes' /\ \A r \in requests' : RequestOK(r)
    BY <2>5, <2>6 DEF KeyInv, CeremonyTypes
  <2> QED BY <2>6, <2>7, <2>8, QuietStep
<1>4. ASSUME NEW h \in Holder, Submission(h)
      PROVE  KeyInv'
  BY <1>1, <1>4 DEF Submission, SubmitShare, SubmitMistyped, SubmitPartials, InsertPartial,
     InsertFails, Advance, PostFails
<1>5. CASE TallyStep
  BY <1>1, <1>5 DEF TallyStep, Tally, StampRun, PublishRun, RunIsNotStored, ceremonyVars
<1>6. CASE UNCHANGED vars
  BY <1>1, <1>6 DEF vars, ceremonyVars
<1> QED BY <1>2, <1>3, <1>4, <1>5, <1>6 DEF Next, TallyNext, TallyStep, Submission

\* Unless a dealer replaced what a page in round 3 had fetched, every final share belongs to
\* the key that was published, however many requests were late, repeated or abandoned (dkg.ts
\* combineAndQualify, KeyCeremony.tsx runRound3).
THEOREM SharesFitTheKey == Spec => []QualifiedKeyIsShared
<1>1. TallyInit => KeyInv
  BY InitKey DEF TallyInit
<1>2. KeyInv => QualifiedKeyIsShared
  <2> SUFFICES ASSUME KeyInv, ~revoked, key # {}, NEW h \in Holder, NEW s \in page[h].share
               PROVE  s \in key
    BY DEF QualifiedKeyIsShared
  <2>1. s \in fetched /\ s \in Summand /\ s[2] = participants[s[1]]
    BY DEF KeyInv, CeremonyTypes, PageOK
  <2>2. s[1] \in Holder /\ s = <<s[1], participants[s[1]]>>
    BY <2>1 DEF Summand
  <2> QED BY <2>2 DEF KeyInv, KeyOf
<1> QED BY <1>1, <1>2, StepKeepsKey, PTL DEF Spec

-----------------------------------------------------------------------------
(***************************************************************************)
(* Ballots once counted stay counted: whoever submits later, his partial is *)
(* either not valid or made with the same share.                            *)
(***************************************************************************)

\* chosen = the first Threshold of the holders, when there are as many.
LEMMA LowestAreThreshold ==
    ASSUME NEW S \in SUBSET Holder, Cardinality(S) >= Threshold
    PROVE  Cardinality(Lowest(S)) = Threshold
<1> DEFINE upTo(h) == { i \in S : i <= h }
           rank == [h \in S |-> Cardinality(upTo(h))]
           low == Lowest(S)
           lowRank == [h \in low |-> Cardinality(upTo(h))]
<1>1. IsFiniteSet(S) /\ Cardinality(S) \in Nat /\ S \in SUBSET Nat /\ Threshold \in Nat \ {0}
  BY HoldersAreFinite, TallyAssumption, CeremonyAssumption DEF Holder
<1>2. ASSUME NEW h \in S
      PROVE  IsFiniteSet(upTo(h)) /\ Cardinality(upTo(h)) \in 1..Cardinality(S)
  <2>1. upTo(h) \in SUBSET S /\ upTo(h) # {}
    BY <1>1
  <2> HIDE DEF upTo
  <2>2. IsFiniteSet(upTo(h)) /\ Cardinality(upTo(h)) <= Cardinality(S)
    BY <1>1, <2>1, FS_Subset
  <2>3. Cardinality(upTo(h)) \in Nat
    BY <2>2, FS_CardinalityType
  <2>4. Cardinality(upTo(h)) # 0
    BY <2>1, <2>2, FS_EmptySet, Zenon
  <2> QED BY <1>1, <2>2, <2>3, <2>4
<1>3. ASSUME NEW h \in S, NEW i \in S, h < i
      PROVE  Cardinality(upTo(h)) < Cardinality(upTo(i))
  <2>1. upTo(h) \in SUBSET upTo(i) /\ upTo(h) # upTo(i)
    <3>1. h \in Nat /\ i \in Nat /\ \A j \in S : j \in Nat
      BY <1>1
    <3>2. i \in upTo(i) /\ i \notin upTo(h)
      BY <1>3, <3>1
    <3>3. ASSUME NEW j \in upTo(h)
          PROVE  j \in upTo(i)
      <4>1. j \in S /\ j <= h /\ j \in Nat
        BY <3>1
      <4>2. j <= i
        BY <1>3, <3>1, <4>1
      <4> QED BY <4>1, <4>2
    <3> HIDE DEF upTo
    <3> QED BY <3>2, <3>3
  <2> HIDE DEF upTo
  <2>2. /\ Cardinality(upTo(h)) <= Cardinality(upTo(i))
        /\ Cardinality(upTo(h)) # Cardinality(upTo(i))
    BY <1>2, <2>1, FS_Subset
  <2> QED BY <1>1, <1>2, <2>2
<1> HIDE DEF upTo
<1>4. rank \in Injection(S, 1..Cardinality(S))
  <2>1. rank \in [S -> 1..Cardinality(S)]
    BY <1>2
  <2>2. ASSUME NEW h \in S, NEW i \in S, rank[h] = rank[i]
        PROVE  h = i
    <3>1. rank[h] \in Nat /\ rank[i] \in Nat /\ h \in Nat /\ i \in Nat
      BY <1>1, <1>2
    <3>2. ~(h < i) /\ ~(i < h)
      BY <1>3, <2>2, <3>1
    <3> QED BY <3>1, <3>2
  <2>3. DOMAIN rank = S
    OBVIOUS
  <2> HIDE DEF rank
  <2>4. IsInjective(rank)
    BY <2>2, <2>3, Zenon DEF IsInjective
  <2> QED BY <2>1, <2>4, Zenon DEF Injection
<1>5. rank \in Surjection(S, 1..Cardinality(S))
  <2>1. /\ IsFiniteSet(1..Cardinality(S))
        /\ Cardinality(1..Cardinality(S)) = Cardinality(S)
    BY <1>1, FS_Interval
  <2> HIDE DEF rank
  <2> QED BY <1>4, <2>1, FS_Injection
<1>6. low = { h \in S : rank[h] <= Threshold }
  BY DEF Lowest, upTo
<1>7. lowRank \in Injection(low, 1..Threshold)
  <2>1. low \subseteq S /\ \A h \in low : lowRank[h] = rank[h] /\ rank[h] <= Threshold
    BY <1>6
  <2>2. \A h \in S : rank[h] \in 1..Cardinality(S)
    BY <1>2
  <2>3. \A h \in low : lowRank[h] \in 1..Threshold
    <3> HIDE DEF rank, lowRank, low
    <3> QED BY <1>1, <2>1, <2>2
  <2>4. \A h, i \in S : rank[h] = rank[i] => h = i
    BY <1>4, Zenon DEF Injection, IsInjective
  <2>5. DOMAIN lowRank = low /\ lowRank = [h \in low |-> lowRank[h]]
    OBVIOUS
  <2> HIDE DEF rank, lowRank, low
  <2>6. \A h, i \in low : lowRank[h] = lowRank[i] => h = i
    BY <2>1, <2>4
  <2>7. lowRank \in [low -> 1..Threshold]
    BY <2>3, <2>5
  <2>8. IsInjective(lowRank)
    BY <2>5, <2>6, Zenon DEF IsInjective
  <2> QED BY <2>7, <2>8, Zenon DEF Injection
<1>8. lowRank \in Surjection(low, 1..Threshold)
  <2>1. lowRank \in [low -> 1..Threshold]
    BY <1>7 DEF Injection
  <2>2. ASSUME NEW n \in 1..Threshold
        PROVE  \E h \in low : lowRank[h] = n
    <3>1. n \in 1..Cardinality(S)
      BY <1>1
    <3>2. PICK h \in S : rank[h] = n
      <4> HIDE DEF rank
      <4> QED BY <1>5, <3>1 DEF Surjection
    <3>3. h \in low
      BY <1>1, <1>6, <3>2
    <3> QED BY <3>2, <3>3
  <2> HIDE DEF lowRank
  <2> QED BY <2>1, <2>2, Zenon DEF Surjection
<1>9. IsFiniteSet(1..Threshold) /\ Cardinality(1..Threshold) = Threshold
  BY <1>1, FS_Interval
<1> HIDE DEF lowRank, low
<1>10. Cardinality(low) = Threshold
  BY <1>7, <1>8, <1>9, FS_Injection
<1> QED BY <1>10 DEF low

\* Of what was dealt, with one attempt of each dealer, only one key can be summed.
LEMMA OneKey ==
    ASSUME NEW D, \A s, t \in D : s[1] = t[1] => s = t,
           NEW k, NEW l, IsKey(k), IsKey(l),
           k = Mistyped \/ k \subseteq D, l = Mistyped \/ l \subseteq D
    PROVE  k = l
<1>1. PICK f \in [Holder -> Nat] : k = KeyOf(f)
  BY DEF IsKey
<1>2. PICK g \in [Holder -> Nat] : l = KeyOf(g)
  BY DEF IsKey
<1>3. 1 \in Holder /\ 0 \notin Holder
  BY CeremonyAssumption DEF Holder
<1>4. <<1, f[1]>> \in k /\ <<1, g[1]>> \in l
  BY <1>1, <1>2, <1>3 DEF KeyOf
<1>5. \A s \in Mistyped : s[1] = 0
  BY DEF Mistyped
<1>6. k # Mistyped /\ l # Mistyped
  BY <1>4, <1>5
<1>7. ASSUME NEW i \in Holder
      PROVE  f[i] = g[i]
  <2>1. <<i, f[i]>> \in D /\ <<i, g[i]>> \in D
    BY <1>1, <1>2, <1>6 DEF KeyOf
  <2>2. <<i, f[i]>> = <<i, g[i]>>
    BY <2>1
  <2> QED BY <2>2
<1> QED BY <1>1, <1>2, <1>7 DEF KeyOf

ShareOK(s) == s = Mistyped \/ s \subseteq DealtShare

\* The batch is sealed with a key, and what holders submit is what was dealt, or a mistake.
SealInv ==
    /\ sealed = {} \/ IsKey(sealed)
    /\ sealed = {} => \A h \in Holder : posts[h] = NoPost /\ \A b \in Ballot : partial[h][b] = {}
    /\ posts = [h \in Holder |-> [next |-> posts[h].next, share |-> posts[h].share]]
    /\ \A h \in Holder : ShareOK(posts[h].share) /\ \A b \in Ballot : ShareOK(partial[h][b])

\* A run shows what the published one and those stamped before it do.
ShowsAll(run, earlier) ==
    results \subseteq run.counted /\ \A j \in earlier : stamped[j].counted \subseteq run.counted

\* What a run or a tally at work has counted still counts, and a tally that was not overtaken
\* shows all that the runs before it do.
KeepInv ==
    /\ \A b \in results : b \in Ballot /\ Counts(b)
    /\ \A c \in AtWork : \A b \in c : Counts(b)
    /\ \A run \in reading : ~run.overtaken => ShowsAll(run, DOMAIN stamped)
    /\ \A i \in DOMAIN stamped : ~stamped[i].overtaken => ShowsAll(stamped[i], 1..(i - 1))

TallyInv == KeyInv /\ DealInv /\ CountInv /\ SealInv /\ KeepInv

LEMMA OneAttemptEach == \A s, t \in DealtShare : s[1] = t[1] => s = t
BY DEF DealtShare

\* Whatever is valid for a ballot that someone's share opens is that share.
LEMMA CountsStays ==
    ASSUME DealInv, CountInv, SealInv, SealInv', WriteOnce, UNCHANGED <<sealed, y, dealt>>,
           NEW b \in Ballot, Counts(b)
    PROVE  Counts(b)'
<1> DEFINE valid == { h \in Holder : Valid(h, b) }
           now == { h \in Holder : partial'[h][b] # {} /\ partial'[h][b] = y[h] }
<1>1. /\ Cardinality(Lowest(valid)) = Threshold
      /\ \A h \in Lowest(valid) : partial[h][b] = sealed
  BY DEF Counts
<1>2. Lowest(valid) \subseteq valid /\ valid \subseteq Holder /\ now \subseteq Holder
  BY DEF Lowest
<1>3. valid \subseteq now
  BY DEF Valid, WriteOnce
<1>4. Threshold \in Nat \ {0}
  BY TallyAssumption, CeremonyAssumption DEF Holder
<1>5. Cardinality(now) >= Threshold
  <2>1. Lowest(valid) \in SUBSET now /\ IsFiniteSet(now) /\ Cardinality(now) \in Nat
    BY <1>2, <1>3, HoldersAreFinite
  <2> HIDE DEF valid, now
  <2>2. Cardinality(Lowest(valid)) <= Cardinality(now)
    BY <2>1, FS_Subset
  <2> QED BY <1>1, <1>4, <2>1, <2>2
<1>6. Cardinality(Lowest(now)) = Threshold
  BY <1>2, <1>5, LowestAreThreshold
<1>7. PICK g \in valid : partial[g][b] = sealed
  <2>1. Lowest(valid) # {}
    <3> HIDE DEF valid
    <3> QED BY <1>1, <1>4, FS_EmptySet
  <2> QED BY <1>1, <1>2, <2>1
<1>8. g \in Holder /\ sealed # {} /\ ShareOK(sealed)
  BY <1>7 DEF Valid, SealInv
<1>9. DealtShare' = DealtShare
  BY DEF DealtShare, Inbox
<1>10. ASSUME NEW h \in now
       PROVE  partial'[h][b] = sealed
  <2>1. partial'[h][b] = y[h] /\ y[h] # {} /\ h \in Holder
    OBVIOUS
  <2>2. partial'[h][b] = Mistyped \/ partial'[h][b] \subseteq DealtShare
    BY <1>9, <2>1 DEF SealInv, ShareOK, Ballot
  <2>3. IsKey(y[h]) /\ IsKey(sealed)
    BY <1>8, <2>1 DEF DealInv, KeysAreKeys, SealInv
  <2> QED BY <1>8, <2>1, <2>2, <2>3, OneAttemptEach, OneKey DEF ShareOK
<1>11. Lowest(now) \subseteq now
  BY DEF Lowest
<1>12. Counts(b)' <=> /\ Cardinality(Lowest(now)) = Threshold
                      /\ \A h \in Lowest(now) : partial'[h][b] = sealed
  BY DEF Counts, Valid, Lowest, Holder
<1> QED BY <1>6, <1>10, <1>11, <1>12

LEMMA InitKeeps == ASSUME TallyInit PROVE TallyInv
<1>1. KeyInv /\ DealInv /\ CountInv
  BY InitKey, InitDeals, InitCounts DEF TallyInit
<1>2. SealInv
  BY DEF TallyInit, SealInv, ShareOK, NoPost
<1>3. KeepInv
  BY DEF TallyInit, KeepInv, AtWork
<1> QED BY <1>1, <1>2, <1>3 DEF TallyInv

LEMMA StepKeepsDeals == ASSUME KeyInv, DealInv, [Next]_vars PROVE DealInv'
<1>1. KeyInv'
  BY StepKeepsKey
<1>2. CASE CeremonyStep(CeremonyNext)
  BY <1>2, CeremonyDeals DEF CeremonyStep
<1>3. CASE Vote
  <2>1. /\ requests = {} /\ requests' = {} /\ UNCHANGED tables
        /\ page' = [h \in Holder |-> [page[h] EXCEPT !.phase = <<"auth", 0>>, !.session = 0,
                                                    !.round1 = NoAttempt]]
    BY <1>3 DEF Vote
  <2>2. ASSUME NEW h \in Holder
        PROVE  CalmPage(h)
    <3>1. page[h] \in Page
      BY DEF KeyInv, CeremonyTypes
    <3>2. /\ page'[h].share = page[h].share /\ page'[h].session = 0
          /\ page'[h].phase = <<"auth", 0>>
      BY <2>1, <3>1 DEF Page
    <3> QED BY <3>2 DEF CalmPage, Early
  <2>3. participants' = participants /\ dealt' = dealt /\ key' = key /\ y' = y
    BY <2>1 DEF tables
  <2>4. KeysAreKeys'
    BY <2>3 DEF DealInv, KeysAreKeys
  <2>5. CeremonyTypes'
    BY <1>1 DEF KeyInv
  <2> QED BY <2>1, <2>2, <2>3, <2>4, <2>5, NothingDealt
<1>4. ASSUME UNCHANGED <<tables, requests, page>>
      PROVE  DealInv'
  BY <1>1, <1>4, StutterDeals DEF tables
<1>5. ASSUME NEW h \in Holder, Submission(h)
      PROVE  DealInv'
  BY <1>4, <1>5 DEF Submission, SubmitShare, SubmitMistyped, SubmitPartials, InsertPartial,
     InsertFails, Advance, PostFails
<1>6. CASE TallyStep
  BY <1>4, <1>6 DEF TallyStep, Tally, StampRun, PublishRun, RunIsNotStored, ceremonyVars
<1>7. CASE UNCHANGED vars
  BY <1>4, <1>7 DEF vars, ceremonyVars
<1> QED BY <1>2, <1>3, <1>5, <1>6, <1>7 DEF Next, TallyNext, TallyStep, Submission

\* What the steps of the tally, and of the submissions, have in common.
LEMMA StaysSealed ==
    ASSUME SealInv, sealed' = sealed, sealed # {}, dealt' = dealt,
           posts' = [h \in Holder |-> [next |-> posts'[h].next, share |-> posts'[h].share]],
           \A h \in Holder : ShareOK(posts'[h].share),
           \A h \in Holder, b \in Ballot : ShareOK(partial'[h][b])
    PROVE  SealInv'
<1>1. DealtShare' = DealtShare
  BY DEF DealtShare, Inbox
<1>2. \A s : ShareOK(s) => s = Mistyped \/ s \subseteq DealtShare'
  BY <1>1 DEF ShareOK
<1>3. \A h \in Holder : ShareOK(posts[h].share)' /\ \A b \in Ballot : ShareOK(partial[h][b])'
  BY <1>2 DEF ShareOK, Ballot
<1> QED BY <1>3 DEF SealInv

LEMMA SubmissionsStaySealed ==
    ASSUME KeyInv, DealInv, CountInv, SealInv, NEW h \in Holder, Submission(h)
    PROVE  SealInv'
<1>1. sealed' = sealed /\ dealt' = dealt
  BY DEF Submission, SubmitShare, SubmitMistyped, SubmitPartials, InsertPartial, InsertFails,
     Advance, PostFails, tables
<1>2. sealed # {}
  BY DEF Submission, SubmitShare, SubmitMistyped, SubmitPartials, InsertPartial, InsertFails,
     Advance, PostFails, SealInv
<1>3. ShareOK({})
  BY DEF ShareOK
<1>4. \A i \in Holder, b \in Ballot : ShareOK(partial[i][b])
  BY DEF SealInv
<1>5. CASE SubmitShare(h) \/ SubmitMistyped(h)
  <2>1. PICK share \in {page[h].share, Mistyped} :
            posts' = [posts EXCEPT ![h] = [next |-> 1, share |-> share]] /\ partial' = partial
    BY <1>5 DEF SubmitShare, SubmitMistyped, SubmitPartials
  <2>2. ShareOK(share)
    BY DEF ShareOK, DealInv
  <2>3. /\ posts' = [i \in Holder |-> [next |-> posts'[i].next, share |-> posts'[i].share]]
        /\ \A i \in Holder : ShareOK(posts'[i].share)
    BY <2>1, <2>2 DEF SealInv
  <2> QED BY <1>1, <1>2, <1>4, <2>1, <2>3, StaysSealed
<1>6. CASE InsertPartial(h) \/ InsertFails(h)
  <2> DEFINE next == [next |-> posts[h].next + 1, share |-> posts[h].share]
  <2>1. /\ posts' = [posts EXCEPT ![h] = NoPost] \/ posts' = [posts EXCEPT ![h] = next]
        /\ \/ partial' = partial
           \/ partial' = [partial EXCEPT ![h][posts[h].next] =
                              IF @ = {} THEN posts[h].share ELSE @]
    BY <1>6 DEF InsertPartial, InsertFails, Advance
  <2>2. /\ next = [next |-> next.next, share |-> next.share] /\ next.share = posts[h].share
        /\ NoPost = [next |-> NoPost.next, share |-> NoPost.share] /\ NoPost.share = {}
    BY DEF NoPost
  <2> HIDE DEF next
  <2>3. PICK p : /\ posts' = [posts EXCEPT ![h] = p] /\ p = [next |-> p.next, share |-> p.share]
                 /\ p.share \in {{}, posts[h].share}
    BY <2>1, <2>2
  <2>4. /\ posts' = [i \in Holder |-> [next |-> posts'[i].next, share |-> posts'[i].share]]
        /\ \A i \in Holder : ShareOK(posts'[i].share)
    BY <1>3, <2>3 DEF SealInv
  <2>5. \A i \in Holder, b \in Ballot : partial'[i][b] \in {partial[i][b], posts[h].share}
    BY <2>1 DEF CountInv
  <2>6. ShareOK(posts[h].share)
    BY DEF SealInv
  <2>7. \A i \in Holder, b \in Ballot : ShareOK(partial'[i][b])
    BY <1>4, <2>5, <2>6
  <2> QED BY <1>1, <1>2, <2>4, <2>7, StaysSealed
<1>7. CASE PostFails(h)
  <2>1. posts' = [posts EXCEPT ![h] = NoPost] /\ partial' = partial
    BY <1>7 DEF PostFails
  <2>2. NoPost = [next |-> NoPost.next, share |-> NoPost.share] /\ NoPost.share = {}
    BY DEF NoPost
  <2>3. /\ posts' = [i \in Holder |-> [next |-> posts'[i].next, share |-> posts'[i].share]]
        /\ \A i \in Holder : ShareOK(posts'[i].share)
    BY <1>3, <2>1, <2>2 DEF SealInv
  <2> QED BY <1>1, <1>2, <1>4, <2>1, <2>3, StaysSealed
<1> QED BY <1>5, <1>6, <1>7 DEF Submission

LEMMA StepSeals ==
    ASSUME KeyInv, DealInv, CountInv, SealInv, [Next]_vars
    PROVE  SealInv'
<1>1. ASSUME sealed = {}, UNCHANGED <<posts, partial>>, sealed' = {} \/ IsKey(sealed')
      PROVE  SealInv'
  <2>1. \A h \in Holder : posts'[h].share = {} /\ \A b \in Ballot : partial'[h][b] = {}
    BY <1>1 DEF SealInv, NoPost
  <2>2. \A h \in Holder : ShareOK(posts[h].share)' /\ \A b \in Ballot : ShareOK(partial[h][b])'
    BY <2>1 DEF ShareOK, Ballot
  <2> QED BY <1>1, <2>2 DEF SealInv, Holder, Ballot
<1>2. ASSUME UNCHANGED <<sealed, dealt, posts, partial>>
      PROVE  SealInv'
  <2>1. DealtShare' = DealtShare
    BY <1>2 DEF DealtShare, Inbox
  <2>2. \A h \in Holder : ShareOK(posts[h].share)' /\ \A b \in Ballot : ShareOK(partial[h][b])'
    BY <1>2, <2>1 DEF ShareOK, SealInv, Ballot
  <2> QED BY <1>2, <2>2 DEF SealInv
<1>3. CASE CeremonyStep(CeremonyNext)
  BY <1>1, <1>3 DEF CeremonyStep, tallyVars
<1>4. CASE Vote
  <2>1. sealed = {} /\ sealed' # {} /\ sealed' = key /\ UNCHANGED <<posts, partial>>
    BY <1>4 DEF Vote, PublicKey
  <2> QED BY <1>1, <2>1 DEF DealInv, KeysAreKeys
<1>5. CASE TallyStep
  BY <1>2, <1>5 DEF TallyStep, Tally, StampRun, PublishRun, RunIsNotStored, ceremonyVars, tables
<1>6. CASE UNCHANGED vars
  BY <1>2, <1>6 DEF vars, ceremonyVars, tallyVars, tables
<1> QED
  BY <1>3, <1>4, <1>5, <1>6, SubmissionsStaySealed DEF Next, TallyNext, TallyStep, Submission

LEMMA StepKeepsBallots == ASSUME TallyInv, [Next]_vars PROVE KeepInv'
<1>1. SealInv' /\ CountInv'
  BY StepSeals, StepKeepsCounts DEF TallyInv
<1>2. AtWork \subseteq SUBSET Ballot
  BY CountedAreBallots DEF TallyInv
<1>3. ASSUME UNCHANGED tallies, \A b \in Ballot : Counts(b) => Counts(b)'
      PROVE  KeepInv'
  <2>1. UNCHANGED <<reading, stamped, results>>
    BY <1>3 DEF tallies
  <2>2. AtWork' = AtWork /\ \A run, e : ShowsAll(run, e)' <=> ShowsAll(run, e)
    BY <2>1 DEF AtWork, ShowsAll
  <2>3. \A b \in results' : (b \in Ballot)' /\ Counts(b)'
    BY <1>3, <2>1 DEF TallyInv, KeepInv, Ballot
  <2>4. \A c \in AtWork' : \A b \in c : Counts(b)'
    BY <1>2, <1>3, <2>2 DEF TallyInv, KeepInv
  <2>5. /\ \A run \in reading' : ~run.overtaken => ShowsAll(run, DOMAIN stamped)'
        /\ \A i \in DOMAIN stamped' : ~stamped'[i].overtaken => ShowsAll(stamped[i], 1..(i - 1))'
    BY <2>1 DEF TallyInv, KeepInv, ShowsAll
  <2> QED BY <2>3, <2>4, <2>5 DEF KeepInv
<1>4. ASSUME UNCHANGED <<partial, y, sealed>>
      PROVE  \A b \in Ballot : Counts(b)' <=> Counts(b)
  BY <1>4 DEF Counts, Valid, Lowest, Holder
<1>5. ASSUME UNCHANGED <<partial, y, sealed>>,
             \/ AtWork' \subseteq AtWork
             \/ AtWork' \subseteq AtWork \cup {{ b \in Ballot : Counts(b) }},
             results' = results \/ results' \in AtWork
      PROVE  /\ \A b \in results' : (b \in Ballot)' /\ Counts(b)'
             /\ \A c \in AtWork' : \A b \in c : Counts(b)'
  <2>1. \A c \in AtWork' : \A b \in c : b \in Ballot /\ Counts(b)
    BY <1>2, <1>5 DEF TallyInv, KeepInv
  <2>2. \A b \in results' : b \in Ballot /\ Counts(b)
    BY <1>2, <1>5 DEF TallyInv, KeepInv
  <2>3. \A b \in results' : (b \in Ballot)'
    BY <2>2 DEF Ballot
  <2> QED BY <1>4, <1>5, <2>1, <2>2, <2>3
<1>6. CASE CeremonyStep(CeremonyNext) \/ Vote
  <2>1. sealed = {} /\ UNCHANGED <<reading, stamped, results>>
    BY <1>6 DEF CeremonyStep, Vote, tallyVars, tallies
  <2>2. results' = {} /\ AtWork' = {}
    <3>1. results = {} /\ AtWork = {}
      BY <2>1 DEF TallyInv, CountInv
    <3> QED BY <2>1, <3>1 DEF AtWork
  <2>3. reading' = {} /\ DOMAIN stamped' = {}
    BY <2>2 DEF AtWork
  <2> QED BY <2>2, <2>3 DEF KeepInv
<1>7. ASSUME NEW h \in Holder, InsertPartial(h)
      PROVE  KeepInv'
  <2>1. UNCHANGED <<sealed, y, dealt, tallies>>
    BY <1>7 DEF InsertPartial, Advance, tables
  <2>2. WriteOnce
    BY <1>7, InsertIsWriteOnce DEF TallyInv
  <2>3. \A b \in Ballot : Counts(b) => Counts(b)'
    BY <1>1, <2>1, <2>2, CountsStays DEF TallyInv
  <2> QED BY <1>3, <2>1, <2>3
<1>8. ASSUME NEW h \in Holder,
             SubmitShare(h) \/ SubmitMistyped(h) \/ InsertFails(h) \/ PostFails(h)
      PROVE  KeepInv'
  BY <1>3, <1>4, <1>8 DEF SubmitShare, SubmitMistyped, SubmitPartials, InsertFails, Advance,
     PostFails, tables
<1>9. CASE UNCHANGED vars
  BY <1>3, <1>4, <1>9 DEF vars, ceremonyVars, tables, tallyVars
<1>10. CASE Tally
  <2> DEFINE counted == { b \in Ballot : Counts(b) }
             new == [counted |-> counted, overtaken |-> FALSE]
  <2>1. UNCHANGED <<partial, y, sealed, stamped, results>> /\ reading' = reading \cup {new}
    BY <1>10 DEF Tally, ceremonyVars, tables
  <2>2. AtWork' \subseteq AtWork \cup {counted}
    BY <2>1 DEF AtWork
  <2>3. results \subseteq counted /\ \A c \in AtWork : c \subseteq counted
    BY <1>2 DEF TallyInv, KeepInv
  <2>4. /\ \A b \in results' : (b \in Ballot)' /\ Counts(b)'
        /\ \A c \in AtWork' : \A b \in c : Counts(b)'
    BY <1>5, <2>1, <2>2
  <2> HIDE DEF counted
  <2>5. ASSUME NEW run, run = new
        PROVE  ShowsAll(run, DOMAIN stamped)'
    <3>1. run.counted = counted
      BY <2>5
    <3>2. \A j \in DOMAIN stamped : stamped[j].counted \in AtWork
      BY DEF AtWork
    <3> QED BY <2>1, <2>3, <3>1, <3>2 DEF ShowsAll
  <2>6. ASSUME NEW run \in reading', ~run.overtaken
        PROVE  ShowsAll(run, DOMAIN stamped)'
    <3>1. CASE run \in reading
      BY <2>1, <2>6, <3>1 DEF TallyInv, KeepInv, ShowsAll
    <3>2. CASE run = new
      BY <2>5, <3>2
    <3> QED BY <2>1, <3>1, <3>2
  <2>7. ASSUME NEW i \in DOMAIN stamped', ~stamped'[i].overtaken
        PROVE  ShowsAll(stamped[i], 1..(i - 1))'
    BY <2>1, <2>7 DEF TallyInv, KeepInv, ShowsAll
  <2> QED BY <2>4, <2>6, <2>7 DEF KeepInv
<1>11. ASSUME NEW run \in reading, StampRun(run)
       PROVE  KeepInv'
  <2>1. UNCHANGED <<partial, y, sealed, results>>
    BY <1>11 DEF StampRun, ceremonyVars, tables
  <2>2. /\ DOMAIN stamped' = 1..(Len(stamped) + 1) /\ DOMAIN stamped = 1..Len(stamped)
        /\ stamped'[Len(stamped) + 1] = run
        /\ \A i \in 1..Len(stamped) : stamped'[i] = stamped[i]
        /\ \A other \in reading' : other.overtaken
        /\ AtWork' \subseteq AtWork
    BY <1>11, StampedStays DEF TallyInv
  <2>3. /\ \A b \in results' : (b \in Ballot)' /\ Counts(b)'
        /\ \A c \in AtWork' : \A b \in c : Counts(b)'
    BY <1>5, <2>1, <2>2
  <2>4. Len(stamped) \in Nat
    BY DEF TallyInv, CountInv
  <2>5. ASSUME NEW i \in DOMAIN stamped', ~stamped'[i].overtaken
        PROVE  ShowsAll(stamped[i], 1..(i - 1))'
    <3>1. CASE i = Len(stamped) + 1
      <4>1. stamped'[i] = run /\ 1..(i - 1) = DOMAIN stamped
        BY <2>2, <2>4, <3>1
      <4>2. ShowsAll(run, DOMAIN stamped)
        BY <2>5, <4>1 DEF TallyInv, KeepInv
      <4> QED BY <2>1, <2>2, <4>1, <4>2 DEF ShowsAll
    <3>2. CASE i # Len(stamped) + 1
      <4>1. i \in DOMAIN stamped /\ \A j \in 1..(i - 1) : j \in 1..Len(stamped)
        BY <2>2, <2>4, <3>2
      <4>2. ShowsAll(stamped[i], 1..(i - 1))
        BY <2>2, <2>5, <4>1 DEF TallyInv, KeepInv
      <4> QED BY <2>1, <2>2, <4>1, <4>2 DEF ShowsAll
    <3> QED BY <3>1, <3>2
  <2> QED BY <2>2, <2>3, <2>5 DEF KeepInv
<1>12. ASSUME NEW i \in DOMAIN stamped, PublishRun(i)
       PROVE  KeepInv'
  <2>1. /\ UNCHANGED <<partial, y, sealed, reading>> /\ results' = stamped[i].counted
        /\ stamped' = SubSeq(stamped, i + 1, Len(stamped))
    BY <1>12 DEF PublishRun, ceremonyVars, tables
  <2>2. stamped \in Seq(Run) /\ i \in 1..Len(stamped) /\ DOMAIN stamped = 1..Len(stamped)
    BY DEF TallyInv, CountInv
  <2>3. /\ DOMAIN stamped' = 1..(Len(stamped) - i)
        /\ \A j \in 1..(Len(stamped) - i) : stamped'[j] = stamped[i + j]
    BY <2>1, <2>2, Rest
  <2>4. AtWork' \subseteq AtWork /\ results' \in AtWork
    BY <2>1, Withdrawn DEF TallyInv, AtWork
  <2>5. /\ \A b \in results' : (b \in Ballot)' /\ Counts(b)'
        /\ \A c \in AtWork' : \A b \in c : Counts(b)'
    BY <1>5, <2>1, <2>4
  <2>6. ASSUME NEW run \in reading', ~run.overtaken
        PROVE  ShowsAll(run, DOMAIN stamped)'
    <3>1. ShowsAll(run, DOMAIN stamped)
      BY <2>1, <2>6 DEF TallyInv, KeepInv
    <3>2. \A j \in DOMAIN stamped' : i + j \in DOMAIN stamped /\ stamped'[j] = stamped[i + j]
      BY <2>2, <2>3
    <3> QED BY <2>1, <3>1, <3>2 DEF ShowsAll
  <2>7. ASSUME NEW j \in DOMAIN stamped', ~stamped'[j].overtaken
        PROVE  ShowsAll(stamped[j], 1..(j - 1))'
    <3>1. PICK m \in DOMAIN stamped : /\ stamped'[j] = stamped[m] /\ i \in 1..(m - 1)
                                     /\ \A k \in 1..(j - 1) : i + k \in 1..(m - 1)
      <4>1. i + j \in DOMAIN stamped /\ stamped'[j] = stamped[i + j] /\ i \in 1..((i + j) - 1)
        BY <2>2, <2>3
      <4>2. \A k \in 1..(j - 1) : i + k \in 1..((i + j) - 1)
        BY <2>2, <2>3
      <4> QED BY <4>1, <4>2
    <3>2. ShowsAll(stamped[m], 1..(m - 1))
      BY <2>7, <3>1 DEF TallyInv, KeepInv
    <3>3. \A k \in 1..(j - 1) : stamped'[k] = stamped[i + k]
      BY <2>2, <2>3
    <3>4. \A k \in 1..(j - 1) : stamped'[k].counted \subseteq stamped'[j].counted
      BY <3>1, <3>2, <3>3 DEF ShowsAll
    <3>5. results' \subseteq stamped'[j].counted
      BY <2>1, <3>1, <3>2 DEF ShowsAll
    <3> QED BY <3>4, <3>5 DEF ShowsAll
  <2> QED BY <2>5, <2>6, <2>7 DEF KeepInv
<1>13. ASSUME NEW i \in DOMAIN stamped, RunIsNotStored(i)
       PROVE  KeepInv'
  <2>1. /\ UNCHANGED <<sealed, partial, y, results, reading>>
        /\ stamped' = SubSeq(stamped, 1, i - 1) \o SubSeq(stamped, i + 1, Len(stamped))
    BY <1>13 DEF RunIsNotStored, tables
  <2>2. stamped \in Seq(Run) /\ i \in 1..Len(stamped) /\ DOMAIN stamped = 1..Len(stamped)
    BY DEF TallyInv, CountInv
  <2>3. /\ DOMAIN stamped' = 1..(Len(stamped) - 1)
        /\ \A j \in 1..(Len(stamped) - 1) :
               stamped'[j] = IF j < i THEN stamped[j] ELSE stamped[j + 1]
    BY <2>1, <2>2, Without
  <2>4. AtWork' \subseteq AtWork
    BY <2>1, Withdrawn DEF TallyInv
  <2>5. /\ \A b \in results' : (b \in Ballot)' /\ Counts(b)'
        /\ \A c \in AtWork' : \A b \in c : Counts(b)'
    BY <1>5, <2>1, <2>4
  <2> DEFINE old(j) == IF j < i THEN j ELSE j + 1
  <2>6. ASSUME NEW j \in DOMAIN stamped'
        PROVE  /\ old(j) \in DOMAIN stamped /\ stamped'[j] = stamped[old(j)]
               /\ \A k \in 1..(j - 1) : /\ old(k) \in 1..(old(j) - 1)
                                        /\ stamped'[k] = stamped[old(k)]
    BY <2>2, <2>3
  <2> HIDE DEF old
  <2>7. ASSUME NEW run \in reading', ~run.overtaken
        PROVE  ShowsAll(run, DOMAIN stamped)'
    <3>1. ShowsAll(run, DOMAIN stamped)
      BY <2>1, <2>7 DEF TallyInv, KeepInv
    <3> QED BY <2>1, <2>6, <3>1 DEF ShowsAll
  <2>8. ASSUME NEW j \in DOMAIN stamped', ~stamped'[j].overtaken
        PROVE  ShowsAll(stamped[j], 1..(j - 1))'
    <3>1. ShowsAll(stamped[old(j)], 1..(old(j) - 1))
      BY <2>6, <2>8 DEF TallyInv, KeepInv
    <3> QED BY <2>1, <2>6, <3>1 DEF ShowsAll
  <2> QED BY <2>5, <2>7, <2>8 DEF KeepInv
<1> QED
  BY <1>6, <1>7, <1>8, <1>9, <1>10, <1>11, <1>12, <1>13 DEF Next, TallyNext

\* The routes of keyshares.ts over those of dkg.ts: what was sealed opens under one key, a valid
\* partial comes from a share of that key, and what a run counts the next one counts again.
THEOREM TallyInvariant == Spec => []TallyInv
<1>1. TallyInit => TallyInv
  BY InitKeeps
<1>2. TallyInv /\ [Next]_vars => TallyInv'
  BY StepKeepsKey, StepKeepsDeals, StepKeepsCounts, StepSeals, StepKeepsBallots DEF TallyInv
<1> QED BY <1>1, <1>2, PTL DEF Spec

\* Unless another tally was stamped between its reading and its stamp, a run that is shown
\* takes back no ballot the public has seen counted, however many tallies are at work, in
\* whichever order they are stored: partials arrive, are mistyped or fail as they like, but one
\* that is valid was made with the share that opens the ballot (keyshares.ts POST /tally,
\* submit-partial; public.ts).
THEOREM CountedBallotsStayCounted == Spec => RunsKeepBallots
<1>1. ASSUME TallyInv, NEW i \in DOMAIN stamped, PublishRun(i), ~stamped[i].overtaken
      PROVE  results \subseteq results'
  BY <1>1 DEF TallyInv, KeepInv, ShowsAll, PublishRun
<1>2. Spec => []TallyInv
  BY TallyInvariant
<1>3. TallyInv => [\A i \in DOMAIN stamped :
                      PublishRun(i) /\ ~stamped[i].overtaken => results \subseteq results']_vars
  BY <1>1
<1> QED BY <1>2, <1>3, PTL DEF Spec, RunsKeepBallots
=============================================================================
