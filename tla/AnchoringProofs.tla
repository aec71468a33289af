--------------------------- MODULE AnchoringProofs ---------------------------
(***************************************************************************)
(* Proofs about Anchoring for any number of ballots, of runs and of levels  *)
(* of the sparse tree, and any number of failures, restarts and requests.   *)
(***************************************************************************)
EXTENDS Verifier, TreeProofs

-----------------------------------------------------------------------------
\* Sequences whose members have no type to name: hashes are made of hashes.
IsList(s) == Len(s) \in Nat /\ s = [i \in 1..Len(s) |-> s[i]]

LEMMA AppendToList ==
    ASSUME NEW s, IsList(s), NEW e
    PROVE  /\ IsList(Append(s, e)) /\ Len(Append(s, e)) = Len(s) + 1
           /\ DOMAIN s = 1..Len(s) /\ DOMAIN Append(s, e) = 1..(Len(s) + 1)
           /\ \A i \in DOMAIN s : Append(s, e)[i] = s[i]
           /\ Append(s, e)[Len(s) + 1] = e
<1> DEFINE T == { s[i] : i \in 1..Len(s) } \cup {e}
<1>1. s \in Seq(T)
  BY DEF IsList
<1>2. e \in T
  OBVIOUS
<1> HIDE DEF T
<1>3. /\ Append(s, e) \in Seq(T) /\ Len(Append(s, e)) = Len(s) + 1
      /\ \A i \in 1..Len(s) : Append(s, e)[i] = s[i]
      /\ Append(s, e)[Len(s) + 1] = e
  BY <1>1, <1>2, AppendProperties
<1>4. s = [i \in 1..Len(s) |-> s[i]] /\ Len(s) \in Nat
  BY DEF IsList
<1>5. DOMAIN s = 1..Len(s)
  BY <1>4, Zenon
<1>6. DOMAIN Append(s, e) = 1..Len(Append(s, e))
  BY <1>3, LenProperties
<1>7. Append(s, e) = [i \in 1..Len(Append(s, e)) |-> Append(s, e)[i]]
  <2> DEFINE q == Append(s, e)
             m == Len(q)
  <2>1. q \in [1..m -> T]
    BY <1>3, LenProperties
  <2> HIDE DEF q, m
  <2>2. q = [i \in 1..m |-> q[i]]
    BY <2>1
  <2> QED BY <2>2 DEF q, m
<1>8. IsList(Append(s, e))
  BY <1>3, <1>4, <1>7 DEF IsList
<1> QED BY <1>3, <1>5, <1>6, <1>8

LEMMA IsTheAppended ==
    ASSUME NEW s, IsList(s), NEW e, NEW n \in Nat, n = Len(s), NEW t,
           t = [i \in 1..(n + 1) |-> IF i = n + 1 THEN e ELSE s[i]]
    PROVE  t = Append(s, e)
<1>1. PICK q : q = Append(s, e)
  OBVIOUS
<1>2. /\ IsList(q) /\ Len(q) = n + 1 /\ \A i \in 1..n : q[i] = s[i]
      /\ q[n + 1] = e
  BY <1>1, AppendToList
<1>3. q = [i \in 1..(n + 1) |-> q[i]]
  BY <1>2 DEF IsList
<1>4. \A i \in 1..(n + 1) : q[i] = IF i = n + 1 THEN e ELSE s[i]
  BY <1>2
<1> QED BY <1>1, <1>3, <1>4

-----------------------------------------------------------------------------
\* The sparse tree keeps every ballot at its own key, so an insertion displaces nothing.
OwnTree(t) ==
    /\ t.leaf \in [Keys -> Votes \cup {None}]
    /\ \A k \in Keys : t.leaf[k] # None => Key[t.leaf[k]] = k

LEMMA NoneIsNoVote == None \notin Votes
BY NoneAssumption, KeyAssumption DEF Votes

LEMMA EmptyTreeIsOwn == OwnTree(EmptyTree) /\ Covers(EmptyTree) = {}
BY DEF OwnTree, EmptyTree, Covers

LEMMA InsertCovers ==
    ASSUME NEW t, OwnTree(t), NEW v \in Votes
    PROVE  /\ OwnTree(insert(t, Key[v], v))
           /\ Covers(insert(t, Key[v], v)) = Covers(t) \cup {v}
<1> DEFINE u == insert(t, Key[v], v)
<1>1. Key[v] \in Keys /\ v # None
  BY KeyAssumption, NoneIsNoVote
<1>2. u.leaf = [t.leaf EXCEPT ![Key[v]] = v]
  BY DEF insert
<1>3. /\ t.leaf \in [Keys -> Votes \cup {None}]
      /\ \A k \in Keys : t.leaf[k] # None => Key[t.leaf[k]] = k
  BY DEF OwnTree
<1>4. /\ u.leaf \in [Keys -> Votes \cup {None}] /\ u.leaf[Key[v]] = v
      /\ \A k \in Keys : k # Key[v] => u.leaf[k] = t.leaf[k]
  BY <1>1, <1>2, <1>3
<1> HIDE DEF u
<1>5. OwnTree(u)
  BY <1>3, <1>4 DEF OwnTree
<1>6. t.leaf[Key[v]] \in {None, v}
  BY <1>1, <1>3, KeyAssumption
<1>7. Covers(u) = Covers(t) \cup {v}
  BY <1>1, <1>3, <1>4, <1>6 DEF Covers
<1> QED BY <1>5, <1>7 DEF u

\* The loop of insertVotes, step by step.
InsertsInOrder(after, t, ids, n) ==
    after = [i \in 0..n |-> IF i = 0 THEN t ELSE insert(after[i - 1], Key[ids[i]], ids[i])]

LEMMA InsertVotesUnfolds ==
    ASSUME NEW t, NEW ids, Len(ids) \in Nat
    PROVE  \E after : /\ InsertsInOrder(after, t, ids, Len(ids))
                      /\ insertVotes(t, ids) = after[Len(ids)]
<1> DEFINE Lengths == { n \in Nat : \E after : InsertsInOrder(after, t, ids, n) }
<1>1. 0 \in Lengths
  <2>1. InsertsInOrder([i \in 0..0 |-> t], t, ids, 0)
    BY DEF InsertsInOrder
  <2> QED BY <2>1
<1>2. ASSUME NEW n \in Nat, n \in Lengths
      PROVE  n + 1 \in Lengths
  <2>1. PICK a : InsertsInOrder(a, t, ids, n)
    BY <1>2
  <2> DEFINE b == [i \in 0..(n + 1) |->
                      IF i <= n THEN a[i] ELSE insert(a[n], Key[ids[n + 1]], ids[n + 1])]
  <2>2. ASSUME NEW i \in 0..(n + 1)
        PROVE  b[i] = IF i = 0 THEN t ELSE insert(b[i - 1], Key[ids[i]], ids[i])
    <3>1. CASE i = n + 1
      BY <3>1
    <3>2. CASE i # n + 1
      <4>1. i \in 0..n /\ b[i] = a[i] /\ (i # 0 => i - 1 \in 0..n /\ b[i - 1] = a[i - 1])
        BY <3>2
      <4>2. a[i] = IF i = 0 THEN t ELSE insert(a[i - 1], Key[ids[i]], ids[i])
        BY <2>1, <4>1 DEF InsertsInOrder
      <4> QED BY <4>1, <4>2
    <3> QED BY <3>1, <3>2
  <2>3. b = [i \in 0..(n + 1) |-> IF i = 0 THEN t ELSE insert(b[i - 1], Key[ids[i]], ids[i])]
    <3>1. b = [i \in 0..(n + 1) |-> b[i]]
      OBVIOUS
    <3> HIDE DEF b
    <3> QED BY <2>2, <3>1
  <2>4. InsertsInOrder(b, t, ids, n + 1)
    BY <2>3 DEF InsertsInOrder
  <2> QED BY <2>4
<1>3. Nat \subseteq Lengths
  <2> HIDE DEF Lengths
  <2> QED BY <1>1, <1>2, SetInduction
<1>4. \E after : InsertsInOrder(after, t, ids, Len(ids))
  BY <1>3
<1> DEFINE chosen == CHOOSE after : InsertsInOrder(after, t, ids, Len(ids))
<1>5. InsertsInOrder(chosen, t, ids, Len(ids))
  BY <1>4
<1>6. insertVotes(t, ids) = chosen[Len(ids)]
  BY DEF insertVotes, InsertsInOrder
<1> QED BY <1>5, <1>6

\* Putting a list of ballots into a tree adds those ballots to what it covers, no others.
LEMMA InsertVotesCovers ==
    ASSUME NEW t, OwnTree(t), NEW ids \in Seq(Votes)
    PROVE  /\ OwnTree(insertVotes(t, ids))
           /\ Covers(insertVotes(t, ids)) = Covers(t) \cup ElementsOf(ids)
<1>1. Len(ids) \in Nat /\ DOMAIN ids = 1..Len(ids) /\ \A i \in 1..Len(ids) : ids[i] \in Votes
  BY LenProperties, ElementOfSeq
<1>2. PICK after : InsertsInOrder(after, t, ids, Len(ids)) /\ insertVotes(t, ids) = after[Len(ids)]
  BY <1>1, InsertVotesUnfolds
<1> DEFINE Reached(n) == /\ OwnTree(after[n])
                         /\ Covers(after[n]) = Covers(t) \cup { ids[i] : i \in 1..n }
           Good == { n \in Nat : n <= Len(ids) => Reached(n) }
<1>3. 0 \in Good
  <2>1. after[0] = t
    BY <1>1, <1>2 DEF InsertsInOrder
  <2> QED BY <2>1
<1>4. ASSUME NEW n \in Nat, n \in Good
      PROVE  n + 1 \in Good
  <2> SUFFICES ASSUME n + 1 <= Len(ids) PROVE Reached(n + 1)
    OBVIOUS
  <2>1. Reached(n) /\ ids[n + 1] \in Votes
    BY <1>1, <1>4
  <2>2. after[n + 1] = insert(after[n], Key[ids[n + 1]], ids[n + 1])
    BY <1>1, <1>2 DEF InsertsInOrder
  <2>3. /\ OwnTree(after[n + 1])
        /\ Covers(after[n + 1]) = Covers(after[n]) \cup {ids[n + 1]}
    BY <2>1, <2>2, InsertCovers
  <2>4. { ids[i] : i \in 1..(n + 1) } = { ids[i] : i \in 1..n } \cup {ids[n + 1]}
    OBVIOUS
  <2> QED BY <2>1, <2>3, <2>4
<1>5. Len(ids) \in Good
  <2> HIDE DEF Good
  <2> QED BY <1>1, <1>3, <1>4, SetInduction
<1> QED BY <1>1, <1>2, <1>5 DEF ElementsOf

LEMMA FiniteVotes == ASSUME NEW S \in SUBSET Votes PROVE S \in SUBSET Nat /\ IsFiniteSet(S)
<1>1. IsFiniteSet(Votes)
  BY FS_Interval, KeyAssumption DEF Votes
<1>2. IsFiniteSet(S)
  BY <1>1, FS_Subset, Zenon
<1> QED BY <1>2 DEF Votes

\* A tree rebuilt from the rows of a query covers those rows.
LEMMA RebuiltTree ==
    ASSUME NEW snap \in SUBSET Votes
    PROVE  OwnTree(FromRows(snap)) /\ Covers(FromRows(snap)) = snap
<1>1. Ascending(snap) \in Seq(snap) /\ ElementsOf(Ascending(snap)) = snap
  BY FiniteVotes, AscendingFacts DEF ElementsOf
<1>2. Ascending(snap) \in Seq(Votes)
  BY <1>1, SeqMonotonic
<1>3. FromRows(snap) = insertVotes(EmptyTree, Ascending(snap))
  BY DEF FromRows, Extended
<1>4. /\ OwnTree(insertVotes(EmptyTree, Ascending(snap)))
      /\ Covers(insertVotes(EmptyTree, Ascending(snap)))
           = Covers(EmptyTree) \cup ElementsOf(Ascending(snap))
  BY <1>2, EmptyTreeIsOwn, InsertVotesCovers, Zenon
<1> QED BY <1>1, <1>3, <1>4, EmptyTreeIsOwn

-----------------------------------------------------------------------------
(***************************************************************************)
(* The invariant. What the chain holds is never taken back, and everything  *)
(* the database, the node's tree or a run in flight knows of a ballot that  *)
(* was anchored can be read off the chain.                                  *)
(***************************************************************************)
Logged == UNION { ElementsOf(batches[i].of) : i \in DOMAIN batches }

\* Ballots the service has reason to cover: on the chain, and stamped, or deleted since, or of
\* a batch whose stamp was lost.
Backed == Logged \cap ({ v \in Votes : txHash[v] # None } \cup gone \cup unstamped)

ChainInv ==
    /\ IsList(batches) /\ IsList(smtBatches)
    /\ \A i \in DOMAIN batches :
          /\ batches[i].of \in Seq(Votes) \ {<<>>} /\ ElementsOf(batches[i].of) \subseteq 1..cast
          /\ batches[i].root = buildMerkleTree(Leaves(batches[i].of))
    /\ \A i \in DOMAIN smtBatches : smtBatches[i].covers \subseteq Backed

IsRow(row) ==
    row = [id |-> row.id, root |-> row.root, voteIds |-> row.voteIds, flipped |-> row.flipped]

DbInv ==
    /\ cast \in 0..MaxVotes /\ gone \subseteq 1..cast
    /\ txHash = [v \in Votes |-> txHash[v]]
    /\ \A v \in Votes : txHash[v] # None =>
          /\ v \in 1..cast /\ txHash[v] \in DOMAIN batches
          /\ v \in ElementsOf(batches[txHash[v]].of)
    /\ \A row \in merkleBatches :
          /\ IsRow(row) /\ row.id \in DOMAIN batches /\ row.flipped \in BOOLEAN
          /\ row.root = batches[row.id].root /\ row.voteIds = batches[row.id].of
    /\ \A row \in smtRows : row.id \in DOMAIN smtBatches /\ row.batch = smtBatches[row.id]

GoodTree(t) == t # None => OwnTree(t) /\ Covers(t) \subseteq Backed

TreeInv == GoodTree(tree)

IsSubmission(b) ==
    b = [smtRoot |-> b.smtRoot, previous |-> b.previous, new |-> b.new, total |-> b.total,
         covers |-> b.covers]

IsRun(x) ==
    x = [pc |-> x.pc, kind |-> x.kind, ids |-> x.ids, batch |-> x.batch, snap |-> x.snap,
         smt |-> x.smt, new |-> x.new, base |-> x.base]

\* What a run has read, at the step it is at, is still true.
GoodRun(x) ==
    /\ IsRun(x)
    /\ x.ids \in Seq(Votes) /\ ElementsOf(x.ids) \subseteq 1..cast
    /\ x.pc \in {"count", "age", "read", "send", "batchrow", "voterows"} =>
          x.kind \in {"sweep", "manual"}
    /\ x.pc = "send" => x.ids # <<>>
    /\ x.pc \in {"batchrow", "voterows"} =>
          x.batch \in DOMAIN batches /\ batches[x.batch].of = x.ids
    /\ x.pc \in {"tree", "miss", "rebuild"} /\ x.kind \in {"sweep", "manual"} =>
          ElementsOf(x.ids) \subseteq Backed
    /\ (x.pc \in {"tree", "miss", "rebuild"} /\ x.kind = "delete") \/ x.pc = "delete" =>
          \E v \in Votes : x.ids = <<v>> /\ txHash[v] # None
    /\ x.pc = "rebuild" => x.snap \subseteq Backed
    /\ x.pc \in {"latest", "smtsend"} => IsSubmission(x.smt) /\ x.smt.covers \subseteq Backed
    /\ x.pc = "smtrow" => x.batch \in DOMAIN smtBatches /\ smtBatches[x.batch] = x.smt

RunsInv == run = [r \in Runs |-> run[r]] /\ \A r \in Runs : GoodRun(run[r])

AnchoringInv == ChainInv /\ DbInv /\ TreeInv /\ RunsInv

\* What no step takes back.
Grows ==
    /\ 1..cast \subseteq 1..cast'
    /\ DOMAIN batches \subseteq DOMAIN batches'
    /\ \A i \in DOMAIN batches : batches'[i] = batches[i]
    /\ DOMAIN smtBatches \subseteq DOMAIN smtBatches'
    /\ \A i \in DOMAIN smtBatches : smtBatches'[i] = smtBatches[i]
    /\ \A v \in Votes : txHash[v] # None => txHash'[v] # None
    /\ gone \subseteq gone' /\ unstamped \subseteq unstamped'

LEMMA BackedGrows == ASSUME Grows PROVE Logged \subseteq Logged' /\ Backed \subseteq Backed'
<1>1. Logged \subseteq Logged'
  BY DEF Grows, Logged
<1> QED BY <1>1 DEF Grows, Backed

LEMMA GoodRunStays ==
    ASSUME Grows, NEW CONSTANT x, GoodRun(x)
    PROVE  GoodRun(x)'
<1>1. Backed \subseteq Backed'
  BY BackedGrows
<1>2. /\ x.pc \in {"batchrow", "voterows"} =>
            x.batch \in DOMAIN batches' /\ batches'[x.batch].of = x.ids
      /\ (x.pc \in {"tree", "miss", "rebuild"} /\ x.kind = "delete") \/ x.pc = "delete" =>
            \E v \in Votes : x.ids = <<v>> /\ txHash'[v] # None
      /\ x.pc = "smtrow" => x.batch \in DOMAIN smtBatches' /\ smtBatches'[x.batch] = x.smt
      /\ ElementsOf(x.ids) \subseteq 1..cast'
  BY DEF Grows, GoodRun
<1>3. /\ IsRun(x) /\ x.ids \in Seq(Votes)
      /\ x.pc \in {"count", "age", "read", "send", "batchrow", "voterows"} =>
          x.kind \in {"sweep", "manual"}
      /\ x.pc = "send" => x.ids # <<>>
      /\ x.pc \in {"tree", "miss", "rebuild"} /\ x.kind \in {"sweep", "manual"} =>
            ElementsOf(x.ids) \subseteq Backed
      /\ x.pc = "rebuild" => x.snap \subseteq Backed
      /\ x.pc \in {"latest", "smtsend"} => IsSubmission(x.smt) /\ x.smt.covers \subseteq Backed
  BY DEF GoodRun
<1> HIDE DEF Grows
<1> QED BY <1>1, <1>2, <1>3 DEF GoodRun

LEMMA RunsStep ==
    ASSUME RunsInv, Grows, NEW r \in Runs, NEW CONSTANT y, GoodRun(y)',
           run' = [run EXCEPT ![r] = y]
    PROVE  RunsInv'
<1>1. run' = [s \in Runs |-> run'[s]] /\ run'[r] = y
      /\ \A s \in Runs : s # r => run'[s] = run[s]
  BY DEF RunsInv
<1>2. ASSUME NEW s \in Runs
      PROVE  GoodRun(run[s])'
  <2>1. PICK x : x = run[s]
    OBVIOUS
  <2>2. GoodRun(x)'
    BY <2>1, GoodRunStays DEF RunsInv
  <2>3. run'[s] \in {x, y}
    BY <1>1, <2>1
  <2>4. PICK z \in {x, y} : z = run'[s]
    BY <2>3
  <2>5. GoodRun(z)'
    BY <2>2, <2>4
  <2> QED BY <2>4, <2>5
<1> QED BY <1>1, <1>2 DEF RunsInv

LEMMA RunsStutter ==
    ASSUME RunsInv, Grows, UNCHANGED run
    PROVE  RunsInv'
<1>1. ASSUME NEW s \in Runs
      PROVE  GoodRun(run[s])'
  <2>1. PICK x : x = run[s]
    OBVIOUS
  <2>2. GoodRun(x)'
    BY <2>1, GoodRunStays DEF RunsInv
  <2> QED BY <2>1, <2>2
<1> QED BY <1>1 DEF RunsInv

-----------------------------------------------------------------------------
\* Steps that touch neither the chain nor the database: a run, the tree or both change.
LEMMA QuietGrows ==
    ASSUME UNCHANGED <<chainVars, dbVars, unstamped>>
    PROVE  Grows /\ Logged' = Logged /\ Backed' = Backed
BY DEF chainVars, dbVars, Grows, Logged, Backed

LEMMA QuietKeeps ==
    ASSUME ChainInv, DbInv, UNCHANGED <<chainVars, dbVars, unstamped>>
    PROVE  ChainInv' /\ DbInv'
<1>1. Backed' = Backed
  BY QuietGrows
<1>2. ChainInv'
  BY <1>1 DEF ChainInv, chainVars, dbVars
<1>3. DbInv'
  BY DEF DbInv, chainVars, dbVars
<1> QED BY <1>2, <1>3

LEMMA QuietStep ==
    ASSUME AnchoringInv, UNCHANGED <<chainVars, dbVars, unstamped>>, GoodTree(tree'),
           NEW r \in Runs, NEW CONSTANT y, GoodRun(y), run' = [run EXCEPT ![r] = y]
    PROVE  AnchoringInv'
<1>1. Grows /\ Backed' = Backed
  BY QuietGrows
<1>2. ChainInv' /\ DbInv'
  BY QuietKeeps DEF AnchoringInv
<1>3. TreeInv'
  BY <1>1 DEF TreeInv, GoodTree
<1>4. GoodRun(y)'
  BY <1>1, GoodRunStays
<1>5. RunsInv'
  BY <1>1, <1>4, RunsStep DEF AnchoringInv
<1> QED BY <1>2, <1>3, <1>5 DEF AnchoringInv

LEMMA IdleIsGood == GoodRun(Idle)
BY DEF GoodRun, IsRun, Idle, ElementsOf

LEMMA QuietFinish ==
    ASSUME AnchoringInv, UNCHANGED <<chainVars, dbVars, tree, unstamped>>, NEW r \in Runs, Finish(r)
    PROVE  AnchoringInv'
<1>1. PICK y : y = Idle
  OBVIOUS
<1>2. GoodRun(y) /\ run' = [run EXCEPT ![r] = y]
  BY <1>1, IdleIsGood DEF Finish
<1>3. GoodTree(tree') /\ UNCHANGED <<chainVars, dbVars, unstamped>>
  BY DEF AnchoringInv, TreeInv
<1> QED BY <1>2, <1>3, QuietStep

LEMMA LoggedWereCast ==
    ASSUME ChainInv, DbInv
    PROVE  Logged \subseteq 1..cast /\ Logged \subseteq Votes
<1>1. \A i \in DOMAIN batches : ElementsOf(batches[i].of) \subseteq 1..cast
  BY DEF ChainInv
<1>2. 1..cast \subseteq Votes
  BY KeyAssumption DEF DbInv, Votes
<1>3. Logged \subseteq 1..cast
  BY <1>1 DEF Logged
<1> QED BY <1>2, <1>3

\* The rows a query returns.
LEMMA QueriedRows ==
    ASSUME DbInv
    PROVE  /\ Unanchored \in Seq(Votes)
           /\ ElementsOf(Unanchored) = { v \in Stored : txHash[v] = None }
           /\ ElementsOf(Unanchored) \subseteq 1..cast
           /\ Confirmed \subseteq Votes /\ Confirmed \subseteq Backed /\ Stored \subseteq Votes
<1>1. Stored \subseteq Votes /\ Stored \subseteq 1..cast
  BY KeyAssumption DEF DbInv, Stored, Votes
<1> DEFINE U == { v \in Stored : txHash[v] = None }
<1>2. U \in SUBSET Nat /\ IsFiniteSet(U)
  BY <1>1, FiniteVotes
<1>3. Unanchored \in Seq(U) /\ ElementsOf(Unanchored) = U
  BY <1>2, AscendingFacts DEF ElementsOf, Unanchored
<1>4. Unanchored \in Seq(Votes)
  BY <1>1, <1>3, SeqMonotonic
<1>5. Confirmed \subseteq Backed
  BY <1>1 DEF Confirmed, DbInv, Logged, Backed
<1> QED BY <1>1, <1>3, <1>4, <1>5 DEF Confirmed

\* A run that moves to a step which asks nothing of what it has read.
LEMMA MoveIsGood ==
    ASSUME NEW x, GoodRun(x), NEW pc \in {"age", "read", "voterows"},
           x.pc \in {"count", "age", "batchrow"}, pc = "voterows" => x.pc = "batchrow"
    PROVE  GoodRun([x EXCEPT !.pc = pc])
<1> DEFINE y == [x EXCEPT !.pc = pc]
<1>1. IsRun(x)
  BY DEF GoodRun
<1>2. y = [pc |-> pc, kind |-> x.kind, ids |-> x.ids, batch |-> x.batch, snap |-> x.snap,
           smt |-> x.smt, new |-> x.new, base |-> x.base]
  BY <1>1 DEF IsRun
<1> HIDE DEF y
<1>3. GoodRun(y)
  BY <1>2 DEF GoodRun, IsRun
<1> QED BY <1>3 DEF y

LEMMA QuietMove ==
    ASSUME AnchoringInv, UNCHANGED <<chainVars, dbVars, tree, unstamped>>, NEW r \in Runs,
           NEW pc \in {"age", "read"}, run[r].pc \in {"count", "age"}, Move(r, pc)
    PROVE  AnchoringInv'
<1>1. PICK x : x = run[r]
  OBVIOUS
<1>2. PICK y : y = [x EXCEPT !.pc = pc]
  OBVIOUS
<1>3. run' = [run EXCEPT ![r] = y]
  BY <1>1, <1>2 DEF Move
<1>4. GoodRun(y)
  BY <1>1, <1>2, MoveIsGood DEF AnchoringInv, RunsInv
<1>5. GoodTree(tree') /\ UNCHANGED <<chainVars, dbVars, unstamped>>
  BY DEF AnchoringInv, TreeInv
<1> QED BY <1>3, <1>4, <1>5, QuietStep

-----------------------------------------------------------------------------
LEMMA BeginsKeep ==
    ASSUME AnchoringInv, NEW r \in Runs, Begins(r)
    PROVE  AnchoringInv'
<1>1. GoodTree(tree') /\ UNCHANGED <<chainVars, dbVars, unstamped>>
  BY DEF AnchoringInv, TreeInv, Begins, StartSweep, StartManual, StartDelete, StartProof, procVars,
         bounds, history
<1>2. ASSUME NEW kind, NEW ids \in Seq(Votes), ElementsOf(ids) \subseteq 1..cast,
             NEW pc \in {"count", "read", "tree"},
             IF pc = "tree" THEN kind \in {"proof", "delete"} ELSE kind \in {"sweep", "manual"},
             kind = "delete" => \E v \in Votes : ids = <<v>> /\ txHash[v] # None,
             Begin(r, kind, pc, ids)
      PROVE  AnchoringInv'
  <2>1. PICK y : y = [Idle EXCEPT !.pc = pc, !.kind = kind, !.ids = ids]
    OBVIOUS
  <2>2. y = [pc |-> pc, kind |-> kind, ids |-> ids, batch |-> 0, snap |-> {}, smt |-> None,
             new |-> 0, base |-> 0]
    BY <2>1 DEF Idle
  <2>3. GoodRun(y)
    BY <1>2, <2>2 DEF GoodRun, IsRun
  <2>4. run' = [run EXCEPT ![r] = y]
    BY <1>2, <2>1 DEF Begin
  <2> QED BY <1>1, <2>3, <2>4, QuietStep
<1>3. ElementsOf(<<>>) = {} /\ <<>> \in Seq(Votes)
  BY DEF ElementsOf
<1>4. CASE StartSweep(r)
  BY <1>2, <1>3, <1>4 DEF StartSweep
<1>5. CASE StartManual(r)
  BY <1>2, <1>3, <1>5 DEF StartManual
<1>6. CASE StartDelete(r)
  <2>1. PICK v \in Confirmed : Begin(r, "delete", "tree", <<v>>)
    BY <1>6 DEF StartDelete
  <2>2. v \in Votes /\ v \in 1..cast /\ txHash[v] # None
    BY <2>1, QueriedRows DEF AnchoringInv, Confirmed, Stored
  <2>3. <<v>> \in Seq(Votes) /\ ElementsOf(<<v>>) \subseteq 1..cast
    BY <2>2 DEF ElementsOf
  <2> QED BY <1>2, <2>1, <2>2, <2>3
<1>7. CASE StartProof(r)
  BY <1>2, <1>3, <1>7 DEF StartProof
<1> QED BY <1>4, <1>5, <1>6, <1>7 DEF Begins

LEMMA SweepStepKeeps ==
    ASSUME AnchoringInv, NEW r \in Runs, SweepStep(r)
    PROVE  AnchoringInv'
<1>1. UNCHANGED <<chainVars, dbVars, tree, unstamped>>
  BY DEF SweepStep, Count, OldEnough, TooYoung, bounds, history
<1>2. /\ Finish(r) \/ \E pc \in {"age", "read"} : Move(r, pc)
      /\ run[r].pc \in {"count", "age"}
  BY DEF SweepStep, Count, OldEnough, TooYoung, Mark
<1>3. CASE Finish(r)
  BY <1>1, <1>3, QuietFinish
<1>4. CASE \E pc \in {"age", "read"} : Move(r, pc)
  BY <1>1, <1>2, <1>4, QuietMove
<1> QED BY <1>2, <1>3, <1>4

LEMMA ReadKeeps ==
    ASSUME AnchoringInv, NEW r \in Runs, Read(r)
    PROVE  AnchoringInv'
<1>1. UNCHANGED <<chainVars, dbVars, tree, unstamped>>
  BY DEF Read, bounds, history
<1>2. CASE Finish(r)
  BY <1>1, <1>2, QuietFinish
<1>3. CASE Unanchored # <<>> /\ run' = [run EXCEPT ![r].pc = "send", ![r].ids = Unanchored]
  <2>1. PICK x : x = run[r]
    OBVIOUS
  <2>2. PICK y : y = [x EXCEPT !.pc = "send", !.ids = Unanchored]
    OBVIOUS
  <2>3. run' = [run EXCEPT ![r] = y]
    BY <1>3, <2>1, <2>2
  <2>4. IsRun(x) /\ x.kind \in {"sweep", "manual"}
    BY <2>1 DEF AnchoringInv, RunsInv, GoodRun, Read
  <2>5. y = [pc |-> "send", kind |-> x.kind, ids |-> Unanchored, batch |-> x.batch,
             snap |-> x.snap, smt |-> x.smt, new |-> x.new, base |-> x.base]
    BY <2>2, <2>4 DEF IsRun
  <2>6. Unanchored \in Seq(Votes) /\ ElementsOf(Unanchored) \subseteq 1..cast
    BY QueriedRows DEF AnchoringInv
  <2>7. GoodRun(y)
    BY <1>3, <2>4, <2>5, <2>6 DEF GoodRun, IsRun
  <2>8. GoodTree(tree') /\ UNCHANGED <<chainVars, dbVars, unstamped>>
    BY <1>1 DEF AnchoringInv, TreeInv
  <2> QED BY <2>3, <2>7, <2>8, QuietStep
<1> QED BY <1>2, <1>3 DEF Read

\* The run has the tree t: it covers only what is on the chain, and so does what is submitted.
LEMMA HaveTreeKeeps ==
    ASSUME AnchoringInv, NEW r \in Runs, UNCHANGED <<chainVars, dbVars, unstamped>>,
           run[r].pc \in {"tree", "rebuild"},
           NEW t, OwnTree(t), Covers(t) \subseteq Backed, HaveTree(r, t)
    PROVE  AnchoringInv'
<1>1. PICK x : x = run[r]
  OBVIOUS
<1>2. GoodRun(x) /\ IsRun(x)
  BY <1>1 DEF AnchoringInv, RunsInv, GoodRun
<1>3. ASSUME NEW u, OwnTree(u), Covers(u) \subseteq Backed, tree' = u, NEW CONSTANT y, NEW n,
             NEW ids \in Seq(Votes), ElementsOf(ids) \subseteq 1..cast, NEW base,
             y = [pc |-> "latest", kind |-> x.kind, ids |-> ids, batch |-> x.batch, snap |-> {},
                  smt |-> Submission(u, n), new |-> x.new, base |-> base],
             run' = [run EXCEPT ![r] = y]
      PROVE  AnchoringInv'
  <2>1. IsSubmission(Submission(u, n)) /\ Submission(u, n).covers \subseteq Backed
    BY <1>3 DEF IsSubmission, Submission
  <2>2. GoodRun(y)
    BY <1>3, <2>1 DEF GoodRun, IsRun
  <2>3. GoodTree(tree')
    BY <1>3 DEF GoodTree
  <2> QED BY <1>3, <2>2, <2>3, QuietStep
<1>4. CASE x.kind \in {"sweep", "manual"}
  <2>1. PICK u : u = Extended(t, x.ids)
    OBVIOUS
  <2>2. x.ids \in Seq(Votes) /\ ElementsOf(x.ids) \subseteq Backed
    BY <1>1, <1>2, <1>4 DEF GoodRun
  <2>3. u = insertVotes(t, x.ids)
    BY <2>1 DEF Extended
  <2>4. OwnTree(u) /\ Covers(u) = Covers(t) \cup ElementsOf(x.ids)
    BY <2>2, <2>3, InsertVotesCovers
  <2>5. PICK n : n = Len(x.ids)
    OBVIOUS
  <2>6. PICK b : b = Submission(u, n)
    OBVIOUS
  <2>7. PICK y : y = [x EXCEPT !.pc = "latest", !.snap = {}, !.ids = <<>>, !.smt = b,
                               !.base = Len(smtBatches)]
    OBVIOUS
  <2>8. tree' = u /\ run' = [run EXCEPT ![r].pc = "latest", ![r].snap = {}, ![r].ids = <<>>,
                               ![r].smt = b, ![r].base = Len(smtBatches)]
    BY <1>1, <1>4, <2>1, <2>5, <2>6 DEF HaveTree
  <2>9. run' = [run EXCEPT ![r] = y]
    BY <1>1, <2>7, <2>8
  <2>10. y = [pc |-> "latest", kind |-> x.kind, ids |-> <<>>, batch |-> x.batch, snap |-> {},
              smt |-> Submission(u, n), new |-> x.new, base |-> Len(smtBatches)]
    BY <1>2, <2>6, <2>7 DEF IsRun
  <2>11. <<>> \in Seq(Votes) /\ ElementsOf(<<>>) = {}
    BY DEF ElementsOf
  <2> QED BY <1>3, <2>2, <2>4, <2>8, <2>9, <2>10, <2>11
<1>5. CASE x.kind = "reanchor"
  <2>1. PICK b : b = Submission(t, 0)
    OBVIOUS
  <2>2. PICK y : y = [x EXCEPT !.pc = "latest", !.snap = {}, !.smt = b, !.base = Len(smtBatches)]
    OBVIOUS
  <2>3. tree' = t /\ run' = [run EXCEPT ![r].pc = "latest", ![r].snap = {},
                               ![r].smt = b, ![r].base = Len(smtBatches)]
    BY <1>1, <1>5, <2>1 DEF HaveTree
  <2>4. run' = [run EXCEPT ![r] = y]
    BY <1>1, <2>2, <2>3
  <2>5. y = [pc |-> "latest", kind |-> x.kind, ids |-> x.ids, batch |-> x.batch, snap |-> {},
             smt |-> Submission(t, 0), new |-> x.new, base |-> Len(smtBatches)]
    BY <1>2, <2>1, <2>2 DEF IsRun
  <2> QED BY <1>2, <1>3, <2>3, <2>4, <2>5 DEF GoodRun
<1>6. GoodTree(t)
  BY DEF GoodTree
<1>7. CASE x.kind = "delete"
  <2>1. tree' = t /\ run' = [run EXCEPT ![r].pc = "delete", ![r].snap = {}]
    BY <1>1, <1>7 DEF HaveTree
  <2>2. PICK y : y = [x EXCEPT !.pc = "delete", !.snap = {}]
    OBVIOUS
  <2>3. run' = [run EXCEPT ![r] = y]
    BY <1>1, <2>1, <2>2
  <2>4. y = [pc |-> "delete", kind |-> x.kind, ids |-> x.ids, batch |-> x.batch, snap |-> {},
             smt |-> x.smt, new |-> x.new, base |-> x.base]
    BY <1>2, <2>2 DEF IsRun
  <2>5. GoodRun(y)
    BY <1>1, <1>2, <1>7, <2>4 DEF GoodRun, IsRun
  <2> QED BY <1>6, <2>1, <2>3, <2>5, QuietStep
<1>8. CASE x.kind = "proof"
  <2>1. tree' = t /\ Finish(r)
    BY <1>1, <1>8 DEF HaveTree
  <2>2. PICK y : y = Idle
    OBVIOUS
  <2>3. GoodRun(y) /\ run' = [run EXCEPT ![r] = y]
    BY <2>1, <2>2, IdleIsGood DEF Finish
  <2> QED BY <1>6, <2>1, <2>3, QuietStep
<1> QED BY <1>1, <1>4, <1>5, <1>7, <1>8 DEF HaveTree

LEMMA UseTreeKeeps ==
    ASSUME AnchoringInv, NEW r \in Runs, UseTree(r)
    PROVE  AnchoringInv'
<1>1. OwnTree(tree) /\ Covers(tree) \subseteq Backed
  BY DEF AnchoringInv, TreeInv, GoodTree, UseTree
<1>2. /\ UNCHANGED <<chainVars, dbVars, unstamped>>
      /\ run[r].pc \in {"tree", "rebuild"} /\ HaveTree(r, tree)
  BY DEF UseTree, bounds, history
<1> QED BY <1>1, <1>2, HaveTreeKeeps

LEMMA PublishKeeps ==
    ASSUME AnchoringInv, NEW r \in Runs, Publish(r)
    PROVE  AnchoringInv'
<1>1. PICK snap : snap = run[r].snap
  OBVIOUS
<1>2. /\ UNCHANGED <<chainVars, dbVars, unstamped>>
      /\ run[r].pc = "rebuild" /\ HaveTree(r, FromRows(snap))
  BY <1>1 DEF Publish, bounds, history
<1>3. snap \subseteq Backed
  BY <1>1, <1>2 DEF AnchoringInv, RunsInv, GoodRun
<1>4. Backed \subseteq Votes
  BY LoggedWereCast DEF AnchoringInv, Backed
<1>5. OwnTree(FromRows(snap)) /\ Covers(FromRows(snap)) \subseteq Backed
  BY <1>3, <1>4, RebuiltTree
<1> QED BY <1>2, <1>5, HaveTreeKeeps

LEMMA RebuildBeginsKeep ==
    ASSUME AnchoringInv, NEW r \in Runs, MissTree(r) \/ DropTree(r)
    PROVE  AnchoringInv'
<1>1. PICK x : x = run[r]
  OBVIOUS
<1>2. GoodRun(x) /\ IsRun(x)
  BY <1>1 DEF AnchoringInv, RunsInv, GoodRun
<1>3. PICK y : y = IF x.pc = "tree" THEN [x EXCEPT !.pc = "miss"]
                   ELSE [x EXCEPT !.pc = "miss", !.kind = "reanchor"]
  OBVIOUS
<1>4. x.pc \in {"tree", "drop"} /\ run' = [run EXCEPT ![r] = y]
  BY <1>1, <1>3 DEF MissTree, Move, DropTree
<1>5. y = [pc |-> "miss", kind |-> IF x.pc = "tree" THEN x.kind ELSE "reanchor",
           ids |-> x.ids, batch |-> x.batch, snap |-> x.snap, smt |-> x.smt, new |-> x.new,
           base |-> x.base]
  BY <1>2, <1>3 DEF IsRun
<1>6. GoodRun(y)
  BY <1>2, <1>4, <1>5 DEF GoodRun, IsRun
<1>7. GoodTree(tree') /\ UNCHANGED <<chainVars, dbVars, unstamped>>
  BY DEF AnchoringInv, TreeInv, GoodTree, MissTree, DropTree, procVars, RebuildBegins
<1> QED BY <1>4, <1>6, <1>7, QuietStep

LEMMA ReadRowsKeeps ==
    ASSUME AnchoringInv, NEW r \in Runs, ReadRows(r)
    PROVE  AnchoringInv'
<1>1. PICK x : x = run[r]
  OBVIOUS
<1>2. GoodRun(x) /\ IsRun(x) /\ x.pc = "miss"
  BY <1>1 DEF AnchoringInv, RunsInv, GoodRun, ReadRows
<1>3. PICK y : y = [x EXCEPT !.pc = "rebuild", !.snap = Confirmed]
  OBVIOUS
<1>4. run' = [run EXCEPT ![r] = y]
  BY <1>1, <1>3 DEF ReadRows
<1>5. y = [pc |-> "rebuild", kind |-> x.kind, ids |-> x.ids, batch |-> x.batch,
           snap |-> Confirmed, smt |-> x.smt, new |-> x.new, base |-> x.base]
  BY <1>2, <1>3 DEF IsRun
<1>6. Confirmed \subseteq Backed
  BY QueriedRows DEF AnchoringInv
<1>7. GoodRun(y)
  BY <1>2, <1>5, <1>6 DEF GoodRun, IsRun
<1>8. GoodTree(tree') /\ UNCHANGED <<chainVars, dbVars, unstamped>>
  BY DEF AnchoringInv, TreeInv, ReadRows, procVars, bounds, history
<1> QED BY <1>4, <1>7, <1>8, QuietStep

LEMMA LatestKeeps ==
    ASSUME AnchoringInv, NEW r \in Runs, Latest(r)
    PROVE  AnchoringInv'
<1>1. UNCHANGED <<chainVars, dbVars, tree, unstamped>> /\ run[r].pc = "latest"
  BY DEF Latest, bounds, history
<1>2. CASE Finish(r)
  BY <1>1, <1>2, QuietFinish
<1>3. CASE ~Finish(r)
  <2>1. PICK previous, total :
           run' = [run EXCEPT ![r].pc = "smtsend", ![r].smt.previous = previous,
                              ![r].smt.total = total]
    BY <1>3 DEF Latest
  <2>2. PICK x : x = run[r]
    OBVIOUS
  <2>3. PICK b : b = [x.smt EXCEPT !.previous = previous, !.total = total]
    OBVIOUS
  <2>4. PICK y : y = [x EXCEPT !.pc = "smtsend", !.smt = b]
    OBVIOUS
  <2>5. GoodRun(x) /\ IsRun(x)
    BY <2>2 DEF AnchoringInv, RunsInv, GoodRun
  <2>6. run' = [run EXCEPT ![r] = y]
    BY <2>1, <2>2, <2>3, <2>4, <2>5 DEF IsRun
  <2>7. IsSubmission(x.smt) /\ x.smt.covers \subseteq Backed
    BY <1>1, <2>2, <2>5 DEF GoodRun
  <2>8. b = [smtRoot |-> x.smt.smtRoot, previous |-> previous, new |-> x.smt.new,
             total |-> total, covers |-> x.smt.covers]
    BY <2>3, <2>7 DEF IsSubmission
  <2>9. y = [pc |-> "smtsend", kind |-> x.kind, ids |-> x.ids, batch |-> x.batch,
             snap |-> x.snap, smt |-> b, new |-> x.new, base |-> x.base]
    BY <2>4, <2>5 DEF IsRun
  <2>10. IsSubmission(b) /\ b.covers = x.smt.covers
    BY <2>8 DEF IsSubmission
  <2>11. GoodRun(y)
    BY <2>5, <2>7, <2>9, <2>10 DEF GoodRun, IsRun
  <2>12. GoodTree(tree') /\ UNCHANGED <<chainVars, dbVars, unstamped>>
    BY <1>1 DEF AnchoringInv, TreeInv
  <2> QED BY <2>6, <2>11, <2>12, QuietStep
<1> QED BY <1>2, <1>3

LEMMA EndingsKeep ==
    ASSUME AnchoringInv, NEW r \in Runs, SmtRefused(r) \/ CallFails(r)
    PROVE  AnchoringInv'
<1>1. UNCHANGED <<chainVars, dbVars, tree, unstamped>> /\ Finish(r)
  BY DEF SmtRefused, CallFails, bounds, history
<1> QED BY <1>1, QuietFinish

LEMMA RestartKeeps ==
    ASSUME AnchoringInv, Restart
    PROVE  AnchoringInv'
<1>1. UNCHANGED <<chainVars, dbVars, unstamped>> /\ tree' = None /\ run' = [r \in Runs |-> Idle]
  BY DEF Restart, history
<1>2. Grows /\ ChainInv' /\ DbInv'
  BY <1>1, QuietGrows, QuietKeeps DEF AnchoringInv
<1>3. TreeInv'
  BY <1>1 DEF TreeInv, GoodTree
<1>4. PICK x : x = Idle
  OBVIOUS
<1>5. GoodRun(x)'
  BY <1>2, <1>4, IdleIsGood, GoodRunStays
<1>6. RunsInv'
  BY <1>1, <1>4, <1>5 DEF RunsInv
<1> QED BY <1>2, <1>3, <1>6 DEF AnchoringInv

-----------------------------------------------------------------------------
\* Steps that write to the chain or to the database.
LEMMA CastKeeps ==
    ASSUME AnchoringInv, Cast
    PROVE  AnchoringInv'
<1>1. /\ UNCHANGED <<batches, smtBatches, gone, txHash, merkleBatches, smtRows, tree, run>>
      /\ UNCHANGED unstamped
      /\ cast < MaxVotes /\ cast' = cast + 1
  BY DEF Cast, chainVars, procVars, bounds, history
<1>2. cast \in Nat /\ 1..cast \subseteq 1..cast' /\ cast' \in 0..MaxVotes
  BY <1>1, KeyAssumption DEF AnchoringInv, DbInv
<1>3. Grows
  BY <1>1, <1>2 DEF Grows
<1>4. Backed' = Backed
  BY <1>1 DEF Backed, Logged
<1>5. ChainInv'
  BY <1>1, <1>2, <1>4 DEF AnchoringInv, ChainInv
<1>6. DbInv'
  BY <1>1, <1>2 DEF AnchoringInv, DbInv
<1>7. TreeInv'
  BY <1>1, <1>4 DEF AnchoringInv, TreeInv, GoodTree
<1>8. RunsInv'
  BY <1>1, <1>3, RunsStutter DEF AnchoringInv
<1> QED BY <1>5, <1>6, <1>7, <1>8 DEF AnchoringInv

\* A dense batch is added: the rows and the run that sent it see it, the rest is as it was.
LEMMA SendKeeps ==
    ASSUME AnchoringInv, NEW r \in Runs, Send(r)
    PROVE  AnchoringInv' /\ Grows
<1>1. PICK x : x = run[r]
  OBVIOUS
<1>2. GoodRun(x) /\ IsRun(x) /\ x.pc = "send"
  BY <1>1 DEF AnchoringInv, RunsInv, GoodRun, Send
<1>3. /\ x.ids \in Seq(Votes) \ {<<>>} /\ ElementsOf(x.ids) \subseteq 1..cast
      /\ x.kind \in {"sweep", "manual"}
  BY <1>2 DEF GoodRun
<1>4. PICK b : b = [root |-> buildMerkleTree(Leaves(x.ids)), voteCount |-> Len(x.ids),
                    of |-> x.ids]
  OBVIOUS
<1>5. /\ batches' = Append(batches, b)
      /\ UNCHANGED <<smtBatches, cast, gone, txHash, merkleBatches, smtRows, tree, unstamped>>
  BY <1>1, <1>4 DEF Send, anchorRoot, dbVars, history
<1>6. PICK n \in Nat : n = Len(batches)
  BY DEF AnchoringInv, ChainInv, IsList
<1>7. /\ IsList(batches') /\ DOMAIN batches = 1..n /\ DOMAIN batches' = 1..(n + 1)
      /\ \A i \in 1..n : batches'[i] = batches[i]
      /\ batches'[n + 1] = b
  BY <1>5, <1>6, AppendToList DEF AnchoringInv, ChainInv
<1>8. Grows
  BY <1>5, <1>7 DEF Grows
<1>9. Backed \subseteq Backed'
  BY <1>8, BackedGrows
<1>10. ChainInv'
  <2>1. ASSUME NEW i \in 1..(n + 1)
        PROVE  /\ batches'[i].of \in Seq(Votes) \ {<<>>}
               /\ ElementsOf(batches'[i].of) \subseteq 1..cast
               /\ batches'[i].root = buildMerkleTree(Leaves(batches'[i].of))
    <3>1. CASE i = n + 1
      <4>1. b.of = x.ids /\ b.root = buildMerkleTree(Leaves(x.ids))
        BY <1>4
      <4> QED BY <1>3, <1>7, <3>1, <4>1
    <3>2. CASE i # n + 1
      <4>1. i \in 1..n
        BY <3>2
      <4> QED BY <1>7, <4>1 DEF AnchoringInv, ChainInv
    <3> QED BY <3>1, <3>2
  <2>2. IsList(smtBatches') /\ \A i \in DOMAIN smtBatches' : smtBatches'[i].covers \subseteq Backed'
    BY <1>5, <1>9 DEF AnchoringInv, ChainInv
  <2>3. cast' = cast
    BY <1>5
  <2> QED BY <1>7, <2>1, <2>2, <2>3 DEF ChainInv
<1>11. DbInv'
  <2>1. \A v \in Votes : txHash[v] # None =>
           /\ v \in 1..cast /\ txHash[v] \in DOMAIN batches'
           /\ v \in ElementsOf(batches'[txHash[v]].of)
    BY <1>7 DEF AnchoringInv, DbInv
  <2>2. \A row \in merkleBatches :
           /\ IsRow(row) /\ row.id \in DOMAIN batches' /\ row.flipped \in BOOLEAN
           /\ row.root = batches'[row.id].root /\ row.voteIds = batches'[row.id].of
    BY <1>7 DEF AnchoringInv, DbInv
  <2>3. /\ cast \in 0..MaxVotes /\ gone \subseteq 1..cast /\ txHash = [v \in Votes |-> txHash[v]]
        /\ \A row \in smtRows : row.id \in DOMAIN smtBatches /\ row.batch = smtBatches[row.id]
    BY DEF AnchoringInv, DbInv
  <2> QED BY <1>5, <2>1, <2>2, <2>3 DEF DbInv
<1>12. TreeInv'
  BY <1>5, <1>9 DEF AnchoringInv, TreeInv, GoodTree
<1>13. PICK y : y \in {Idle, [x EXCEPT !.pc = "batchrow", !.batch = n + 1]}
                 /\ run' = [run EXCEPT ![r] = y]
  BY <1>1, <1>6 DEF Send, Finish
<1>14. GoodRun(y)'
  <2>1. CASE y = Idle
    BY <1>8, <2>1, IdleIsGood, GoodRunStays
  <2>2. CASE y = [x EXCEPT !.pc = "batchrow", !.batch = n + 1]
    <3>1. y = [pc |-> "batchrow", kind |-> x.kind, ids |-> x.ids, batch |-> n + 1,
               snap |-> x.snap, smt |-> x.smt, new |-> x.new, base |-> x.base]
      BY <1>2, <2>2 DEF IsRun
    <3>2. b.of = x.ids /\ cast' = cast
      BY <1>4, <1>5
    <3> QED BY <1>3, <1>7, <3>1, <3>2 DEF GoodRun, IsRun
  <2> QED BY <1>13, <2>1, <2>2
<1>15. RunsInv'
  BY <1>8, <1>13, <1>14, RunsStep DEF AnchoringInv
<1> QED BY <1>8, <1>10, <1>11, <1>12, <1>15 DEF AnchoringInv

LEMMA SmtSendKeeps ==
    ASSUME AnchoringInv, NEW r \in Runs, SmtSend(r)
    PROVE  AnchoringInv' /\ Grows
<1>1. PICK x : x = run[r]
  OBVIOUS
<1>2. GoodRun(x) /\ IsRun(x) /\ x.pc = "smtsend"
  BY <1>1 DEF AnchoringInv, RunsInv, GoodRun, SmtSend
<1>3. x.smt.covers \subseteq Backed
  BY <1>2 DEF GoodRun
<1>4. /\ smtBatches' = Append(smtBatches, x.smt)
      /\ UNCHANGED <<batches, cast, gone, txHash, merkleBatches, smtRows, tree, unstamped>>
  BY <1>1 DEF SmtSend, anchorSmtRoot, dbVars, history
<1>5. PICK n \in Nat : n = Len(smtBatches)
  BY DEF AnchoringInv, ChainInv, IsList
<1>6. /\ IsList(smtBatches') /\ DOMAIN smtBatches = 1..n /\ DOMAIN smtBatches' = 1..(n + 1)
      /\ \A i \in 1..n : smtBatches'[i] = smtBatches[i]
      /\ smtBatches'[n + 1] = x.smt
  BY <1>4, <1>5, AppendToList DEF AnchoringInv, ChainInv
<1>7. Grows
  BY <1>4, <1>6 DEF Grows
<1>8. Backed' = Backed
  BY <1>4 DEF Backed, Logged
<1>9. ChainInv'
  <2>1. ASSUME NEW i \in 1..(n + 1)
        PROVE  smtBatches'[i].covers \subseteq Backed
    <3>1. i = n + 1 \/ i \in 1..n
      OBVIOUS
    <3> QED BY <1>3, <1>6, <3>1 DEF AnchoringInv, ChainInv
  <2> QED BY <1>4, <1>6, <1>8, <2>1 DEF AnchoringInv, ChainInv
<1>10. DbInv'
  <2>1. \A row \in smtRows : row.id \in DOMAIN smtBatches' /\ row.batch = smtBatches'[row.id]
    BY <1>6 DEF AnchoringInv, DbInv
  <2> QED BY <1>4, <2>1 DEF AnchoringInv, DbInv
<1>11. TreeInv'
  BY <1>4, <1>8 DEF AnchoringInv, TreeInv, GoodTree
<1>12. PICK y : y \in {Idle, [x EXCEPT !.pc = "smtrow", !.batch = n + 1, !.base = 0]}
                 /\ run' = [run EXCEPT ![r] = y]
  BY <1>1, <1>5 DEF SmtSend, Finish
<1>13. GoodRun(y)'
  <2>1. CASE y = Idle
    BY <1>7, <2>1, IdleIsGood, GoodRunStays
  <2>2. CASE y = [x EXCEPT !.pc = "smtrow", !.batch = n + 1, !.base = 0]
    <3>1. y = [pc |-> "smtrow", kind |-> x.kind, ids |-> x.ids, batch |-> n + 1,
               snap |-> x.snap, smt |-> x.smt, new |-> x.new, base |-> 0]
      BY <1>2, <2>2 DEF IsRun
    <3>2. x.ids \in Seq(Votes) /\ ElementsOf(x.ids) \subseteq 1..cast'
      BY <1>2, <1>4 DEF GoodRun
    <3> QED BY <1>6, <3>1, <3>2 DEF GoodRun, IsRun
  <2> QED BY <1>12, <2>1, <2>2
<1>14. RunsInv'
  BY <1>7, <1>12, <1>13, RunsStep DEF AnchoringInv
<1> QED BY <1>7, <1>9, <1>10, <1>11, <1>14 DEF AnchoringInv

\* Steps that write to the database only.
LEMMA DbStep ==
    ASSUME AnchoringInv, UNCHANGED <<chainVars, cast, tree>>, DbInv',
           \A v \in Votes : txHash[v] # None => txHash'[v] # None,
           gone \subseteq gone', unstamped \subseteq unstamped',
           \/ UNCHANGED run
           \/ \E r \in Runs : \E y : run' = [run EXCEPT ![r] = y] /\ (GoodRun(y) \/ GoodRun(y)')
    PROVE  AnchoringInv' /\ Grows
<1>1. Grows
  BY DEF Grows, chainVars
<1>2. Backed \subseteq Backed'
  BY <1>1, BackedGrows
<1>3. ChainInv'
  BY <1>2 DEF AnchoringInv, ChainInv, chainVars
<1>4. TreeInv'
  BY <1>2 DEF AnchoringInv, TreeInv, GoodTree
<1>5. RunsInv'
  <2>1. CASE UNCHANGED run
    BY <1>1, <2>1, RunsStutter DEF AnchoringInv
  <2>2. ASSUME NEW r \in Runs, NEW y, run' = [run EXCEPT ![r] = y], GoodRun(y) \/ GoodRun(y)'
        PROVE  RunsInv'
    <3>1. GoodRun(y)'
      BY <1>1, <2>2, GoodRunStays
    <3> QED BY <1>1, <2>2, <3>1, RunsStep DEF AnchoringInv
  <2> QED BY <2>1, <2>2
<1> QED BY <1>1, <1>3, <1>4, <1>5 DEF AnchoringInv

LEMMA BatchRowKeeps ==
    ASSUME AnchoringInv, NEW r \in Runs, BatchRow(r)
    PROVE  AnchoringInv'
<1>1. PICK x : x = run[r]
  OBVIOUS
<1>2. GoodRun(x) /\ x.pc = "batchrow"
  BY <1>1 DEF AnchoringInv, RunsInv, BatchRow
<1>3. PICK y : y = [x EXCEPT !.pc = "voterows"]
  OBVIOUS
<1>4. GoodRun(y) /\ run' = [run EXCEPT ![r] = y]
  BY <1>1, <1>2, <1>3, MoveIsGood DEF BatchRow, Move
<1>5. UNCHANGED <<chainVars, cast, gone, txHash, smtRows, tree, unstamped>>
  BY DEF BatchRow, procVars, history
<1>6. DbInv'
  <2>1. PICK row : row = [id |-> x.batch, root |-> buildMerkleTree(Leaves(x.ids)),
                          voteIds |-> x.ids, flipped |-> FALSE]
    OBVIOUS
  <2>2. merkleBatches' \subseteq merkleBatches \cup {row}
    BY <1>1, <2>1 DEF BatchRow
  <2>3. /\ IsRow(row) /\ row.id \in DOMAIN batches /\ row.flipped \in BOOLEAN
        /\ row.root = batches[row.id].root /\ row.voteIds = batches[row.id].of
    BY <1>2, <2>1 DEF GoodRun, IsRow, AnchoringInv, ChainInv
  <2> QED BY <1>5, <2>2, <2>3 DEF AnchoringInv, DbInv, chainVars
<1> QED BY <1>4, <1>5, <1>6, DbStep

\* The stamp names the batch the run has seen on the chain, and that holds these ballots.
LEMMA VoteRowsKeeps ==
    ASSUME AnchoringInv, NEW r \in Runs, VoteRows(r)
    PROVE  AnchoringInv'
<1>1. PICK x : x = run[r]
  OBVIOUS
<1>2. GoodRun(x) /\ IsRun(x) /\ x.pc = "voterows"
  BY <1>1 DEF AnchoringInv, RunsInv, VoteRows, GoodRun
<1>3. x.batch \in DOMAIN batches /\ batches[x.batch].of = x.ids
  BY <1>2 DEF GoodRun
<1>4. x.batch # None
  <2>1. DOMAIN batches \subseteq Nat
    BY AppendToList DEF AnchoringInv, ChainInv, IsList
  <2> QED BY <1>3, <2>1, NoneAssumption
<1>5. UNCHANGED <<chainVars, cast, gone, merkleBatches, smtRows, tree>>
  BY DEF VoteRows, procVars
<1>6. PICK y : y = [x EXCEPT !.pc = "tree", !.batch = 0]
  OBVIOUS
<1>7. run' = [run EXCEPT ![r] = y]
  BY <1>1, <1>6 DEF VoteRows
<1>8. ASSUME NEW v \in Votes
      PROVE  /\ txHash'[v] \in {txHash[v], x.batch}
             /\ txHash'[v] # txHash[v] => v \in ElementsOf(x.ids) \cap Stored
  BY <1>1 DEF VoteRows, Stamped
<1>9. txHash' = [v \in Votes |-> txHash'[v]]
  BY DEF VoteRows, Stamped, AnchoringInv, DbInv
<1>10. ASSUME NEW v \in Votes, txHash'[v] # None
       PROVE  /\ v \in 1..cast /\ txHash'[v] \in DOMAIN batches
              /\ v \in ElementsOf(batches[txHash'[v]].of)
  BY <1>3, <1>8, <1>10 DEF AnchoringInv, DbInv, Stored
<1>11. DbInv'
  BY <1>5, <1>9, <1>10 DEF AnchoringInv, DbInv, chainVars
<1>12. \A v \in Votes : txHash[v] # None => txHash'[v] # None
  BY <1>4, <1>8
<1>13. unstamped \subseteq unstamped'
  BY DEF VoteRows, bounds, history
<1>14. GoodRun(y)'
  <2>1. y = [pc |-> "tree", kind |-> x.kind, ids |-> x.ids, batch |-> 0, snap |-> x.snap,
             smt |-> x.smt, new |-> x.new, base |-> x.base]
    BY <1>2, <1>6 DEF IsRun
  <2>2. x.ids \in Seq(Votes) /\ ElementsOf(x.ids) \subseteq 1..cast
    BY <1>2 DEF GoodRun
  <2>3. ElementsOf(x.ids) \subseteq Logged'
    <3>1. \A v \in ElementsOf(x.ids) : \E i \in DOMAIN batches : v \in ElementsOf(batches[i].of)
      BY <1>3
    <3> QED BY <1>5, <3>1 DEF Logged, chainVars
  <2>4. ASSUME NEW v \in ElementsOf(x.ids)
        PROVE  v \in Votes /\ (txHash'[v] # None \/ v \in gone' \/ v \in unstamped')
    <3>1. v \in Votes /\ v \in 1..cast
      BY <2>2, KeyAssumption DEF AnchoringInv, DbInv, Votes
    <3>2. CASE txHash' = Stamped(r)
      <4>1. v \in gone \/ v \in Stored
        BY <3>1 DEF Stored
      <4> QED BY <1>1, <1>4, <1>5, <3>1, <3>2, <4>1 DEF Stamped
    <3>3. CASE unstamped' = unstamped \cup ElementsOf(x.ids)
      BY <3>1, <3>3
    <3> QED BY <1>1, <3>2, <3>3 DEF VoteRows
  <2>5. ElementsOf(x.ids) \subseteq Backed'
    BY <2>3, <2>4 DEF Backed
  <2> QED BY <1>2, <1>5, <2>1, <2>2, <2>5 DEF GoodRun, IsRun
<1> QED BY <1>5, <1>7, <1>11, <1>12, <1>13, <1>14, DbStep

LEMMA DeleteRowKeeps ==
    ASSUME AnchoringInv, NEW r \in Runs, DeleteRow(r)
    PROVE  AnchoringInv'
<1>1. PICK x : x = run[r]
  OBVIOUS
<1>2. GoodRun(x) /\ IsRun(x)
  BY <1>1 DEF AnchoringInv, RunsInv, GoodRun
<1>3. PICK y : y \in {Idle, [x EXCEPT !.pc = "drop", !.ids = <<>>]} /\ run' = [run EXCEPT ![r] = y]
  BY <1>1 DEF DeleteRow, Finish
<1>4. GoodRun(y)
  <2>1. CASE y = Idle
    BY <2>1, IdleIsGood
  <2>2. CASE y # Idle
    <3>1. y = [pc |-> "drop", kind |-> x.kind, ids |-> <<>>, batch |-> x.batch, snap |-> x.snap,
               smt |-> x.smt, new |-> x.new, base |-> x.base]
      BY <1>2, <1>3, <2>2 DEF IsRun
    <3> QED BY <3>1 DEF GoodRun, IsRun, ElementsOf
  <2> QED BY <2>1, <2>2
<1>5. UNCHANGED <<chainVars, cast, txHash, merkleBatches, smtRows, tree, unstamped>>
  BY DEF DeleteRow, history
<1>6. gone' \subseteq 1..cast /\ gone \subseteq gone'
  BY <1>1, <1>2 DEF DeleteRow, GoodRun, AnchoringInv, DbInv
<1>7. DbInv'
  BY <1>5, <1>6 DEF AnchoringInv, DbInv, chainVars
<1> QED BY <1>3, <1>4, <1>5, <1>6, <1>7, DbStep

LEMMA SmtRowKeeps ==
    ASSUME AnchoringInv, NEW r \in Runs, SmtRow(r)
    PROVE  AnchoringInv'
<1>1. PICK x : x = run[r]
  OBVIOUS
<1>2. x.batch \in DOMAIN smtBatches /\ smtBatches[x.batch] = x.smt
  BY <1>1 DEF AnchoringInv, RunsInv, GoodRun, SmtRow
<1>3. PICK y : y = Idle
  OBVIOUS
<1>4. GoodRun(y) /\ run' = [run EXCEPT ![r] = y]
  BY <1>3, IdleIsGood DEF SmtRow, Finish
<1>5. UNCHANGED <<chainVars, cast, gone, txHash, merkleBatches, tree, unstamped>>
  BY DEF SmtRow, history
<1>6. DbInv'
  <2>1. smtRows' \subseteq smtRows \cup {[id |-> x.batch, batch |-> x.smt]}
    BY <1>1 DEF SmtRow
  <2> QED BY <1>2, <1>5, <2>1 DEF AnchoringInv, DbInv, chainVars
<1> QED BY <1>4, <1>5, <1>6, DbStep

Edited(row, new) ==
    /\ merkleBatches' = (merkleBatches \ {row}) \cup {new}
    /\ \/ \E flipped \in BOOLEAN : new = [row EXCEPT !.flipped = flipped]
       \/ new = [row EXCEPT !.root = buildMerkleTree(Leaves(row.voteIds)), !.flipped = FALSE]

\* Flipping a stored root and restoring it leave the rows about the batches they were about.
LEMMA EditsKeep ==
    ASSUME AnchoringInv, TamperRoot \/ RestoreRoot
    PROVE  AnchoringInv'
<1>1. UNCHANGED <<chainVars, cast, gone, txHash, smtRows, tree, run, unstamped>>
  BY DEF TamperRoot, RestoreRoot, procVars, bounds, history
<1>0. PICK row \in merkleBatches : \E new : Edited(row, new)
  BY DEF TamperRoot, RestoreRoot, Write, Edited
<1>2. PICK new : Edited(row, new)
  BY <1>0
<1>3. /\ IsRow(row) /\ row.id \in DOMAIN batches /\ row.flipped \in BOOLEAN
      /\ row.root = batches[row.id].root /\ row.voteIds = batches[row.id].of
      /\ batches[row.id].root = buildMerkleTree(Leaves(batches[row.id].of))
  BY DEF AnchoringInv, DbInv, ChainInv
<1>4. PICK flipped \in BOOLEAN :
         new = [id |-> row.id, root |-> row.root, voteIds |-> row.voteIds, flipped |-> flipped]
  BY <1>2, <1>3 DEF IsRow, Edited
<1>5. DbInv'
  BY <1>1, <1>2, <1>3, <1>4 DEF AnchoringInv, DbInv, IsRow, chainVars, Edited
<1> QED BY <1>1, <1>5, DbStep

-----------------------------------------------------------------------------
LEMMA InitEstablishes == ASSUME Init PROVE AnchoringInv
<1>1. /\ batches = <<>> /\ smtBatches = <<>> /\ cast = 0 /\ gone = {} /\ tree = None
      /\ txHash = [v \in Votes |-> None] /\ merkleBatches = {} /\ smtRows = {}
      /\ run = [r \in Runs |-> Idle]
  BY DEF Init, InitChain
<1>2. ChainInv
  BY <1>1 DEF ChainInv, IsList
<1>3. DbInv
  BY <1>1, KeyAssumption DEF DbInv
<1>4. TreeInv
  BY <1>1 DEF TreeInv, GoodTree
<1>5. RunsInv
  BY <1>1, IdleIsGood DEF RunsInv
<1> QED BY <1>2, <1>3, <1>4, <1>5 DEF AnchoringInv

LEMMA StepKeeps ==
    ASSUME AnchoringInv, [Next]_vars
    PROVE  AnchoringInv'
<1>1. CASE Cast
  BY <1>1, CastKeeps
<1>2. ASSUME NEW r \in Runs, Begins(r) \/ CallFails(r)
      PROVE  AnchoringInv'
  BY <1>2, BeginsKeep, EndingsKeep
<1>3. ASSUME NEW r \in Runs, Step(r)
      PROVE  AnchoringInv'
  <2>1. CASE SweepStep(r) \/ Read(r) \/ Send(r) \/ BatchRow(r) \/ VoteRows(r)
    BY <2>1, SweepStepKeeps, ReadKeeps, SendKeeps, BatchRowKeeps, VoteRowsKeeps
  <2>2. CASE UseTree(r) \/ MissTree(r) \/ ReadRows(r) \/ Publish(r) \/ DeleteRow(r) \/ DropTree(r)
    BY <2>2, UseTreeKeeps, RebuildBeginsKeep, ReadRowsKeeps, PublishKeeps, DeleteRowKeeps
  <2>3. CASE Latest(r) \/ SmtSend(r) \/ SmtRefused(r) \/ SmtRow(r)
    BY <2>3, LatestKeeps, SmtSendKeeps, EndingsKeep, SmtRowKeeps
  <2> QED BY <1>3, <2>1, <2>2, <2>3 DEF Step
<1>4. CASE Restart \/ TamperRoot \/ RestoreRoot
  BY <1>4, RestartKeeps, EditsKeep
<1>5. CASE UNCHANGED vars
  <2>1. UNCHANGED <<chainVars, dbVars, unstamped>> /\ UNCHANGED run /\ UNCHANGED tree
    BY <1>5 DEF vars, procVars, bounds, history
  <2>2. Grows /\ Backed' = Backed /\ ChainInv' /\ DbInv'
    BY <2>1, QuietGrows, QuietKeeps DEF AnchoringInv
  <2>3. TreeInv'
    BY <2>1, <2>2 DEF AnchoringInv, TreeInv, GoodTree
  <2>4. RunsInv'
    BY <2>1, <2>2, RunsStutter DEF AnchoringInv
  <2> QED BY <2>2, <2>3, <2>4 DEF AnchoringInv
<1> QED BY <1>1, <1>2, <1>3, <1>4, <1>5 DEF Next, AnchoringNext

\* Whatever fails, restarts or overlaps between the awaited calls of anchorBatch.ts: a run that
\* got past its dense transaction holds a batch the contract holds, and every recorded row, and
\* every confirmed ballot, is in such a batch.
THEOREM AnchoringInvariant == Spec => []AnchoringInv
<1>1. Init => AnchoringInv
  BY InitEstablishes
<1>2. AnchoringInv /\ [Next]_vars => AnchoringInv'
  BY StepKeeps
<1> QED BY <1>1, <1>2, PTL DEF Spec

\* Anchoring: a ballot that /admin and the voter's page show as confirmed is in the dense batch
\* that votes.tx_hash names, and the chain holds that batch.
THEOREM ConfirmedBallotsAreAnchored == Spec => []ConfirmedIsAnchored
<1>1. AnchoringInv => ConfirmedIsAnchored
  BY QueriedRows DEF AnchoringInv, DbInv, ConfirmedIsAnchored
<1> QED BY <1>1, AnchoringInvariant, PTL

\* Anchoring: merkle_batches and smt_batches may miss a batch of the chain; they never hold one
\* the chain does not, nor other ballots under its number.
THEOREM TheDatabaseMirrorsTheChain == Spec => []RowsMirrorChain
<1>1. AnchoringInv => RowsMirrorChain
  BY DEF AnchoringInv, DbInv, RowsMirrorChain
<1> QED BY <1>1, AnchoringInvariant, PTL

-----------------------------------------------------------------------------
(***************************************************************************)
(* Anchoring implements AnchorLog. The names below are the values that the  *)
(* instance gives to the variables of AnchorLog.                            *)
(***************************************************************************)
LogOf == [i \in DOMAIN batches |-> ElementsOf(batches[i].of)]
SparseOf == [i \in DOMAIN smtBatches |-> smtBatches[i].covers]
RowsOf == { row.id : row \in merkleBatches }
EditedOf == { row.id : row \in { x \in merkleBatches : x.flipped } }
CoveredOf == IF tree = None THEN {} ELSE Covers(tree)

logVars == <<cast, gone, LogOf, SparseOf, RowsOf, EditedOf, txHash, CoveredOf>>

LEMMA LoggedOf == Logged = UNION { LogOf[i] : i \in DOMAIN LogOf }
BY DEF Logged, LogOf

LEMMA SameChain ==
    ASSUME UNCHANGED chainVars
    PROVE  LogOf' = LogOf /\ SparseOf' = SparseOf
BY DEF chainVars, LogOf, SparseOf

LEMMA SameRows ==
    ASSUME UNCHANGED merkleBatches
    PROVE  RowsOf' = RowsOf /\ EditedOf' = EditedOf
BY DEF RowsOf, EditedOf

LEMMA QuietIsCover ==
    ASSUME TreeInv', UNCHANGED <<chainVars, dbVars>>
    PROVE  Abstract!Cover
<1>1. /\ LogOf' = LogOf /\ SparseOf' = SparseOf /\ RowsOf' = RowsOf /\ EditedOf' = EditedOf
      /\ UNCHANGED <<cast, gone, txHash>>
  BY SameChain, SameRows DEF dbVars
<1>2. CoveredOf' \subseteq Logged'
  BY DEF TreeInv, GoodTree, CoveredOf, Backed
<1>3. Logged' = UNION { LogOf[i] : i \in DOMAIN LogOf }
  BY <1>1, LoggedOf DEF Logged, chainVars
<1> QED BY <1>1, <1>2, <1>3
        DEF Abstract!Cover, Abstract!Logged, LogOf, SparseOf, RowsOf, EditedOf, CoveredOf

LEMMA CastIsCast ==
    ASSUME Cast
    PROVE  Abstract!Cast
<1>1. /\ LogOf' = LogOf /\ SparseOf' = SparseOf /\ RowsOf' = RowsOf /\ EditedOf' = EditedOf
      /\ CoveredOf' = CoveredOf
  BY SameChain, SameRows DEF Cast, procVars, CoveredOf
<1> QED BY <1>1
        DEF Cast, Abstract!Cast, LogOf, SparseOf, RowsOf, EditedOf, CoveredOf

LEMMA SendIsAnchor ==
    ASSUME AnchoringInv, NEW r \in Runs, Send(r)
    PROVE  Abstract!Anchor
<1>1. PICK x : x = run[r]
  OBVIOUS
<1>2. x.ids \in Seq(Votes) \ {<<>>} /\ ElementsOf(x.ids) \subseteq 1..cast
  BY <1>1 DEF AnchoringInv, RunsInv, GoodRun, Send
<1>3. PICK b : b = [root |-> buildMerkleTree(Leaves(x.ids)), voteCount |-> Len(x.ids),
                    of |-> x.ids]
  OBVIOUS
<1>4. /\ batches' = Append(batches, b)
      /\ UNCHANGED <<smtBatches, cast, gone, txHash, merkleBatches, tree>>
  BY <1>1, <1>3 DEF Send, anchorRoot, dbVars
<1>5. PICK n \in Nat : n = Len(batches)
  BY DEF AnchoringInv, ChainInv, IsList
<1>6. /\ DOMAIN batches = 1..n /\ DOMAIN batches' = 1..(n + 1)
      /\ \A i \in 1..n : batches'[i] = batches[i]
      /\ batches'[n + 1] = b
  BY <1>4, <1>5, AppendToList DEF AnchoringInv, ChainInv
<1>7. PICK s : s = ElementsOf(x.ids)
  OBVIOUS
<1>8. s \in SUBSET (1..cast) /\ s # {}
  <2>1. Len(x.ids) \in Nat /\ DOMAIN x.ids = 1..Len(x.ids) /\ Len(x.ids) # 0
    BY <1>2, EmptySeq, LenProperties
  <2>2. 1 \in DOMAIN x.ids
    BY <2>1
  <2>3. x.ids[1] \in s
    BY <1>7, <2>2 DEF ElementsOf
  <2> QED BY <1>2, <1>7, <2>3
<1>9. LogOf' = Append(LogOf, s)
  <2>1. LogOf = [i \in 1..n |-> ElementsOf(batches[i].of)]
    BY <1>6 DEF LogOf
  <2> DEFINE T == { ElementsOf(batches[i].of) : i \in 1..n }
  <2>2. LogOf \in Seq(T) /\ Len(LogOf) = n
    BY <2>1
  <2>3. LogOf' = [i \in 1..(n + 1) |-> ElementsOf(batches'[i].of)]
    BY <1>6 DEF LogOf
  <2>4. ElementsOf(batches'[n + 1].of) = s
    BY <1>3, <1>6, <1>7
  <2>5. LogOf' = [i \in 1..(n + 1) |-> IF i = n + 1 THEN s ELSE LogOf[i]]
    <3>1. \A i \in 1..(n + 1) :
             ElementsOf(batches'[i].of) = IF i = n + 1 THEN s ELSE LogOf[i]
      BY <1>6, <2>1, <2>4
    <3> QED BY <2>3, <3>1
  <2>6. IsList(LogOf)
    BY <2>1, <2>2 DEF IsList
  <2> HIDE DEF T
  <2>7. PICK l : l = LogOf
    OBVIOUS
  <2>8. PICK m : m = LogOf'
    OBVIOUS
  <2>9. m = Append(l, s)
    BY <2>2, <2>5, <2>6, <2>7, <2>8, IsTheAppended
  <2> QED BY <2>7, <2>8, <2>9
<1>10. SparseOf' = SparseOf /\ RowsOf' = RowsOf /\ EditedOf' = EditedOf /\ CoveredOf' = CoveredOf
  BY <1>4, SameRows DEF SparseOf, CoveredOf
<1> QED BY <1>4, <1>8, <1>9, <1>10
        DEF Abstract!Anchor, LogOf, SparseOf, RowsOf, EditedOf, CoveredOf

LEMMA SmtSendIsPublish ==
    ASSUME AnchoringInv, NEW r \in Runs, SmtSend(r)
    PROVE  Abstract!Publish
<1>1. PICK x : x = run[r]
  OBVIOUS
<1>2. x.smt.covers \subseteq Logged
  BY <1>1 DEF AnchoringInv, RunsInv, GoodRun, SmtSend, Backed
<1>3. /\ smtBatches' = Append(smtBatches, x.smt)
      /\ UNCHANGED <<batches, cast, gone, txHash, merkleBatches, tree>>
  BY <1>1 DEF SmtSend, anchorSmtRoot, dbVars
<1>4. PICK n \in Nat : n = Len(smtBatches)
  BY DEF AnchoringInv, ChainInv, IsList
<1>5. /\ DOMAIN smtBatches = 1..n /\ DOMAIN smtBatches' = 1..(n + 1)
      /\ \A i \in 1..n : smtBatches'[i] = smtBatches[i]
      /\ smtBatches'[n + 1] = x.smt
  BY <1>3, <1>4, AppendToList DEF AnchoringInv, ChainInv
<1>6. PICK s : s = x.smt.covers
  OBVIOUS
<1>7. SparseOf' = Append(SparseOf, s)
  <2>1. SparseOf = [i \in 1..n |-> smtBatches[i].covers]
    BY <1>5 DEF SparseOf
  <2> DEFINE T == { smtBatches[i].covers : i \in 1..n }
  <2>2. SparseOf \in Seq(T) /\ Len(SparseOf) = n
    BY <2>1
  <2>3. SparseOf' = [i \in 1..(n + 1) |-> IF i = n + 1 THEN s ELSE SparseOf[i]]
    BY <1>5, <1>6, <2>1 DEF SparseOf
  <2>4. IsList(SparseOf)
    BY <2>1, <2>2 DEF IsList
  <2> HIDE DEF T
  <2>5. PICK l : l = SparseOf
    OBVIOUS
  <2>6. PICK m : m = SparseOf'
    OBVIOUS
  <2>7. m = Append(l, s)
    BY <2>2, <2>3, <2>4, <2>5, <2>6, IsTheAppended
  <2> QED BY <2>5, <2>6, <2>7
<1>8. LogOf' = LogOf /\ RowsOf' = RowsOf /\ EditedOf' = EditedOf /\ CoveredOf' = CoveredOf
  BY <1>3, SameRows DEF LogOf, CoveredOf
<1>9. s \in SUBSET UNION { LogOf[i] : i \in DOMAIN LogOf }
  BY <1>2, <1>6, LoggedOf
<1> QED BY <1>3, <1>7, <1>8, <1>9
        DEF Abstract!Publish, Abstract!Logged, LogOf, SparseOf, RowsOf, EditedOf, CoveredOf

LEMMA BatchRowIsRecord ==
    ASSUME AnchoringInv, NEW r \in Runs, BatchRow(r)
    PROVE  Abstract!Record \/ UNCHANGED logVars
<1>1. PICK x : x = run[r]
  OBVIOUS
<1>2. x.batch \in DOMAIN batches
  BY <1>1 DEF AnchoringInv, RunsInv, GoodRun, BatchRow
<1>3. UNCHANGED <<chainVars, cast, gone, txHash, tree>>
  BY DEF BatchRow, procVars
<1>4. LogOf' = LogOf /\ SparseOf' = SparseOf /\ CoveredOf' = CoveredOf
  BY <1>3, SameChain DEF CoveredOf
<1>5. CASE UNCHANGED merkleBatches
  BY <1>3, <1>4, <1>5, SameRows DEF logVars
<1>6. CASE ~UNCHANGED merkleBatches
  <2>1. PICK row : row = [id |-> x.batch, root |-> buildMerkleTree(Leaves(x.ids)),
                          voteIds |-> x.ids, flipped |-> FALSE]
    OBVIOUS
  <2>2. merkleBatches' = merkleBatches \cup {row}
    BY <1>1, <1>6, <2>1 DEF BatchRow
  <2>3. row.id = x.batch /\ ~row.flipped
    BY <2>1
  <2>4. RowsOf' = RowsOf \cup {x.batch} /\ EditedOf' = EditedOf
    BY <2>2, <2>3 DEF RowsOf, EditedOf
  <2>5. x.batch \in DOMAIN LogOf
    BY <1>2 DEF LogOf
  <2> QED BY <1>3, <1>4, <2>4, <2>5
          DEF Abstract!Record, LogOf, SparseOf, RowsOf, EditedOf, CoveredOf
<1> QED BY <1>5, <1>6

LEMMA VoteRowsIsStamp ==
    ASSUME AnchoringInv, NEW r \in Runs, VoteRows(r)
    PROVE  Abstract!Stamp \/ UNCHANGED logVars
<1>1. PICK x : x = run[r]
  OBVIOUS
<1>2. x.batch \in DOMAIN batches /\ batches[x.batch].of = x.ids
  BY <1>1 DEF AnchoringInv, RunsInv, GoodRun, VoteRows
<1>3. UNCHANGED <<chainVars, cast, gone, merkleBatches, tree>>
  BY DEF VoteRows, procVars
<1>4. /\ LogOf' = LogOf /\ SparseOf' = SparseOf /\ CoveredOf' = CoveredOf
      /\ RowsOf' = RowsOf /\ EditedOf' = EditedOf
  BY <1>3, SameChain, SameRows DEF CoveredOf
<1>5. CASE UNCHANGED txHash
  BY <1>3, <1>4, <1>5 DEF logVars
<1>6. CASE txHash' = Stamped(r)
  <2>1. x.batch \in DOMAIN LogOf /\ LogOf[x.batch] = ElementsOf(x.ids)
    BY <1>2 DEF LogOf
  <2>2. txHash' = [v \in Votes |-> IF v \in LogOf[x.batch] \cap Stored THEN x.batch ELSE txHash[v]]
    BY <1>1, <1>6, <2>1 DEF Stamped
  <2> QED BY <1>3, <1>4, <2>1, <2>2
          DEF Abstract!Stamp, Abstract!Votes, Abstract!Stored, Votes, Stored, LogOf, SparseOf,
              RowsOf, EditedOf, CoveredOf
<1> QED BY <1>5, <1>6 DEF VoteRows

LEMMA DeleteRowIsDelete ==
    ASSUME AnchoringInv, NEW r \in Runs, DeleteRow(r)
    PROVE  Abstract!Delete \/ UNCHANGED logVars
<1>1. PICK x : x = run[r]
  OBVIOUS
<1>2. PICK v \in Votes : x.ids = <<v>> /\ txHash[v] # None
  BY <1>1 DEF AnchoringInv, RunsInv, GoodRun, DeleteRow
<1>3. v \in 1..cast
  BY <1>2 DEF AnchoringInv, DbInv
<1>4. gone' = gone \cup {v}
  <2>1. ElementsOf(<<v>>) = {v}
    BY DEF ElementsOf
  <2> QED BY <1>1, <1>2, <2>1 DEF DeleteRow
<1>5. UNCHANGED <<chainVars, cast, txHash, merkleBatches, tree>>
  BY DEF DeleteRow
<1>6. /\ LogOf' = LogOf /\ SparseOf' = SparseOf /\ CoveredOf' = CoveredOf
      /\ RowsOf' = RowsOf /\ EditedOf' = EditedOf
  BY <1>5, SameChain, SameRows DEF CoveredOf
<1>7. CASE v \in gone
  BY <1>4, <1>5, <1>6, <1>7 DEF logVars
<1>8. CASE v \notin gone
  <2>1. v \in Stored
    BY <1>3, <1>8 DEF Stored
  <2> QED BY <1>2, <1>4, <1>5, <1>6, <2>1
          DEF Abstract!Delete, Abstract!Stored, Stored, LogOf, SparseOf, RowsOf, EditedOf,
              CoveredOf
<1> QED BY <1>7, <1>8

LEMMA SmtRowIsStutter ==
    ASSUME NEW r \in Runs, SmtRow(r)
    PROVE  UNCHANGED logVars
<1>1. UNCHANGED <<chainVars, cast, gone, txHash, merkleBatches, tree>>
  BY DEF SmtRow
<1> QED BY <1>1, SameChain, SameRows DEF logVars, CoveredOf

LEMMA EditsAreEdit ==
    ASSUME AnchoringInv, TamperRoot \/ RestoreRoot
    PROVE  Abstract!Edit
<1>1. UNCHANGED <<chainVars, cast, gone, txHash, tree>>
  BY DEF TamperRoot, RestoreRoot, procVars
<1>2. LogOf' = LogOf /\ SparseOf' = SparseOf /\ CoveredOf' = CoveredOf
  BY <1>1, SameChain DEF CoveredOf
<1>0. PICK row \in merkleBatches : \E new : Edited(row, new)
  BY DEF TamperRoot, RestoreRoot, Write, Edited
<1>3. PICK new : Edited(row, new)
  BY <1>0
<1>4. IsRow(row)
  BY DEF AnchoringInv, DbInv
<1>5. new.id = row.id
  BY <1>3, <1>4 DEF IsRow, Edited
<1>6. RowsOf' = RowsOf
  BY <1>3, <1>5 DEF RowsOf, Edited
<1>7. EditedOf' \subseteq RowsOf'
  BY DEF RowsOf, EditedOf
<1> QED BY <1>1, <1>2, <1>6, <1>7
        DEF Abstract!Edit, LogOf, SparseOf, RowsOf, EditedOf, CoveredOf

LEMMA StepImplements ==
    ASSUME AnchoringInv, AnchoringInv', [Next]_vars
    PROVE  Abstract!Next \/ UNCHANGED logVars
<1>1. ASSUME UNCHANGED <<chainVars, dbVars>>
      PROVE  Abstract!Next
  BY <1>1, QuietIsCover DEF AnchoringInv, Abstract!Next
<1>2. CASE Cast
  BY <1>2, CastIsCast DEF Abstract!Next
<1>3. ASSUME NEW r \in Runs, Begins(r) \/ CallFails(r)
      PROVE  UNCHANGED <<chainVars, dbVars>>
  BY <1>3 DEF Begins, StartSweep, StartManual, StartDelete, StartProof, CallFails
<1>4. ASSUME NEW r \in Runs, Step(r)
      PROVE  Abstract!Next \/ UNCHANGED logVars
  <2>1. CASE \/ SweepStep(r) \/ Read(r) \/ UseTree(r) \/ MissTree(r) \/ ReadRows(r)
             \/ Publish(r) \/ DropTree(r)
    BY <1>1, <2>1 DEF SweepStep, Count, OldEnough, TooYoung, Read, UseTree, MissTree, ReadRows,
                      Publish, DropTree
  <2>2. CASE Latest(r) \/ SmtRefused(r)
    BY <1>1, <2>2 DEF Latest, SmtRefused
  <2>3. CASE Send(r) \/ SmtSend(r)
    BY <2>3, SendIsAnchor, SmtSendIsPublish DEF Abstract!Next
  <2>4. CASE BatchRow(r) \/ VoteRows(r) \/ DeleteRow(r) \/ SmtRow(r)
    BY <2>4, BatchRowIsRecord, VoteRowsIsStamp, DeleteRowIsDelete, SmtRowIsStutter
       DEF Abstract!Next
  <2> QED BY <1>4, <2>1, <2>2, <2>3, <2>4 DEF Step
<1>5. CASE Restart
  BY <1>1, <1>5 DEF Restart
<1>6. CASE TamperRoot \/ RestoreRoot
  BY <1>6, EditsAreEdit DEF Abstract!Next
<1>7. CASE UNCHANGED vars
  BY <1>1, <1>7 DEF vars
<1> QED BY <1>1, <1>2, <1>3, <1>4, <1>5, <1>6, <1>7 DEF Next, AnchoringNext

\* Anchoring: runAnchorBatch, submitSmtBatch, the deletion and the tamper demonstration, however
\* they overlap and fail, do to the chain and to the tables what AnchorLog says and nothing else.
THEOREM AnchoringImplementsAnchorLog == Spec => ImplementsAnchorLog
<1>1. Init => Abstract!Init
  <2> SUFFICES ASSUME Init PROVE Abstract!Init
    OBVIOUS
  <2>1. /\ batches = <<>> /\ smtBatches = <<>> /\ cast = 0 /\ gone = {} /\ tree = None
        /\ txHash = [v \in Votes |-> None] /\ merkleBatches = {}
    BY DEF Init, InitChain
  <2>2. LogOf = <<>> /\ SparseOf = <<>> /\ RowsOf = {} /\ EditedOf = {} /\ CoveredOf = {}
    BY <2>1 DEF LogOf, SparseOf, RowsOf, EditedOf, CoveredOf
  <2> QED BY <2>1, <2>2
          DEF Abstract!Init, Abstract!Votes, Votes, LogOf, SparseOf, RowsOf, EditedOf, CoveredOf
<1>2. AnchoringInv /\ AnchoringInv' /\ [Next]_vars => [Abstract!Next]_(Abstract!vars)
  BY StepImplements
     DEF logVars, Abstract!vars, LogOf, SparseOf, RowsOf, EditedOf, CoveredOf
<1> QED BY <1>1, <1>2, AnchoringInvariant, PTL
        DEF Spec, ImplementsAnchorLog, Abstract!Spec

-----------------------------------------------------------------------------
(***************************************************************************)
(* What the tree covers, as long as no two rebuilds overlapped. A rebuild    *)
(* reads the rows before it publishes the tree; what is stamped in between   *)
(* is pending, and what any sparse root covers was stamped before it read.  *)
(***************************************************************************)
Lost == gone \cup unstamped

KeepsConfirmed(S) == \A v \in Confirmed : v \in S \/ Pending(v)

KeepsSubmitted(S) ==
    /\ \A i \in DOMAIN smtBatches : smtBatches[i].covers \subseteq S \cup Lost
    /\ \A r \in Runs :
          run[r].pc \in {"latest", "smtsend"} => run[r].smt.covers \subseteq S \cup Lost

OneRebuild ==
    \A r \in Runs : Rebuilding(r) => tree = None /\ \A s \in Runs : Rebuilding(s) => s = r

RebuildKeeps ==
    \A r \in Runs : run[r].pc = "rebuild" =>
        KeepsConfirmed(run[r].snap) /\ KeepsSubmitted(run[r].snap)

TreeKeeps == tree # None => KeepsConfirmed(Covers(tree)) /\ KeepsSubmitted(Covers(tree))

\* A submission covers all that the sparse batches there were when it was computed did.
Fresh(x) ==
    /\ x.base \in Nat /\ x.base <= Len(smtBatches)
    /\ \A i \in 1..x.base : smtBatches[i].covers \subseteq x.smt.covers \cup Lost

SubmissionsAreFresh ==
    \A r \in Runs : run[r].pc \in {"latest", "smtsend"} => Fresh(run[r])

CoverInv ==
    ~overlapped => OneRebuild /\ RebuildKeeps /\ TreeKeeps /\ SubmissionsAreFresh

\* A run on its way into the tree, or with a submission, that moves on.
StampedRun(x) == x.pc = "tree" /\ x.kind \in {"sweep", "manual"}
Submitting(x) == x.pc \in {"latest", "smtsend"}

LEMMA ConfirmedStayKept ==
    ASSUME RunsInv, NEW CONSTANT S, KeepsConfirmed(S),
           NEW r \in Runs, NEW CONSTANT y, run' = [run EXCEPT ![r] = y], run[r].pc # "tree",
           \A v \in Confirmed' : v \in Confirmed \/ (StampedRun(y) /\ v \in ElementsOf(y.ids))
    PROVE  KeepsConfirmed(S)'
<1>1. run'[r] = y /\ \A s \in Runs : s # r => run'[s] = run[s]
  BY DEF RunsInv
<1> SUFFICES ASSUME NEW v \in Confirmed', v \notin S
             PROVE  Pending(v)'
  BY DEF KeepsConfirmed
<1>2. CASE v \in Confirmed
  <2>1. PICK s \in Runs : run[s].pc = "tree" /\ run[s].kind \in {"sweep", "manual"}
                          /\ v \in ElementsOf(run[s].ids)
    BY <1>2 DEF KeepsConfirmed, Pending
  <2>2. run'[s] = run[s]
    BY <1>1, <2>1
  <2> QED BY <2>1, <2>2 DEF Pending
<1>3. CASE StampedRun(y) /\ v \in ElementsOf(y.ids)
  BY <1>1, <1>3 DEF Pending, StampedRun
<1> QED BY <1>2, <1>3

LEMMA SubmittedStayKept ==
    ASSUME RunsInv, NEW CONSTANT S, KeepsSubmitted(S), Lost \subseteq Lost', UNCHANGED smtBatches,
           NEW r \in Runs, NEW CONSTANT y, run' = [run EXCEPT ![r] = y],
           Submitting(y) => Submitting(run[r]) /\ y.smt.covers = run[r].smt.covers
    PROVE  KeepsSubmitted(S)'
<1>1. run'[r] = y /\ \A s \in Runs : s # r => run'[s] = run[s]
  BY DEF RunsInv
<1>2. \A i \in DOMAIN smtBatches' : smtBatches'[i].covers \subseteq S \cup Lost'
  BY DEF KeepsSubmitted
<1>3. ASSUME NEW s \in Runs, run'[s].pc \in {"latest", "smtsend"}
      PROVE  run'[s].smt.covers \subseteq S \cup Lost'
  <2>1. run[s].pc \in {"latest", "smtsend"} /\ run'[s].smt.covers = run[s].smt.covers
    BY <1>1, <1>3 DEF Submitting
  <2> QED BY <2>1 DEF KeepsSubmitted
<1> QED BY <1>2, <1>3 DEF KeepsSubmitted

LEMMA FreshStays ==
    ASSUME NEW CONSTANT x, Fresh(x), Lost \subseteq Lost', UNCHANGED smtBatches
    PROVE  Fresh(x)'
BY DEF Fresh

LEMMA StillFresh ==
    ASSUME SubmissionsAreFresh, UNCHANGED <<chainVars, dbVars, unstamped>>,
           NEW r \in Runs, NEW CONSTANT y, run'[r] = y, y.pc \in {"miss", "rebuild"},
           \A s \in Runs : s # r => run'[s] = run[s]
    PROVE  SubmissionsAreFresh'
<1> SUFFICES ASSUME NEW s \in Runs, run'[s].pc \in {"latest", "smtsend"}
             PROVE  Fresh(run[s])'
  BY DEF SubmissionsAreFresh
<1>1. PICK z : z = run[s]
  OBVIOUS
<1>2. run'[s] = z
  BY <1>1
<1>3. Fresh(z)
  BY <1>1, <1>2 DEF SubmissionsAreFresh
<1>4. Lost' = Lost /\ smtBatches' = smtBatches
  BY DEF Lost, chainVars, dbVars
<1>5. Fresh(z)'
  BY <1>3, <1>4, FreshStays
<1> QED BY <1>2, <1>5

\* Steps that leave the tree alone, begin no rebuild and submit nothing new.
LEMMA CoverStays ==
    ASSUME AnchoringInv, CoverInv, UNCHANGED <<overlapped, tree, smtBatches>>, Lost \subseteq Lost',
           NEW r \in Runs, NEW CONSTANT y, run' = [run EXCEPT ![r] = y], run[r].pc # "tree",
           y.pc \notin {"miss", "rebuild"},
           Submitting(y) => /\ Submitting(run[r]) /\ y.smt.covers = run[r].smt.covers
                            /\ y.base = run[r].base,
           \A v \in Confirmed' : v \in Confirmed \/ (StampedRun(y) /\ v \in ElementsOf(y.ids))
    PROVE  CoverInv'
<1> SUFFICES ASSUME ~overlapped
             PROVE  OneRebuild' /\ RebuildKeeps' /\ TreeKeeps' /\ SubmissionsAreFresh'
  BY DEF CoverInv
<1>1. OneRebuild /\ RebuildKeeps /\ TreeKeeps /\ SubmissionsAreFresh
  BY DEF CoverInv
<1>2. RunsInv
  BY DEF AnchoringInv
<1>3. run'[r] = y /\ \A s \in Runs : s # r => run'[s] = run[s]
  BY <1>2 DEF RunsInv
<1>4. \A s \in Runs : run'[s].pc \in {"miss", "rebuild"} => run'[s] = run[s]
  BY <1>3
<1>5. OneRebuild'
  BY <1>1, <1>4 DEF OneRebuild, Rebuilding
<1>6. ASSUME NEW CONSTANT S, KeepsConfirmed(S), KeepsSubmitted(S)
      PROVE  KeepsConfirmed(S)' /\ KeepsSubmitted(S)'
  BY <1>2, <1>6, ConfirmedStayKept, SubmittedStayKept
<1>7. RebuildKeeps'
  <2> SUFFICES ASSUME NEW s \in Runs, run'[s].pc = "rebuild"
               PROVE  KeepsConfirmed(run[s].snap)' /\ KeepsSubmitted(run[s].snap)'
    BY DEF RebuildKeeps
  <2>1. PICK S : S = run[s].snap
    OBVIOUS
  <2>2. run'[s] = run[s] /\ KeepsConfirmed(S) /\ KeepsSubmitted(S)
    BY <1>1, <1>4, <2>1 DEF RebuildKeeps
  <2>3. KeepsConfirmed(S)' /\ KeepsSubmitted(S)'
    BY <1>6, <2>2
  <2>4. S = run'[s].snap
    BY <2>1, <2>2
  <2> QED BY <2>3, <2>4
<1>8. TreeKeeps'
  <2> SUFFICES ASSUME tree # None
               PROVE  KeepsConfirmed(Covers(tree))' /\ KeepsSubmitted(Covers(tree))'
    BY DEF TreeKeeps
  <2>1. PICK S : S = Covers(tree)
    OBVIOUS
  <2>2. KeepsConfirmed(S)' /\ KeepsSubmitted(S)'
    BY <1>1, <1>6, <2>1 DEF TreeKeeps
  <2>3. S = Covers(tree')
    BY <2>1
  <2> QED BY <2>2, <2>3
<1>9. SubmissionsAreFresh'
  <2> SUFFICES ASSUME NEW s \in Runs, run'[s].pc \in {"latest", "smtsend"}
               PROVE  Fresh(run[s])'
    BY DEF SubmissionsAreFresh
  <2>1. PICK x : x = run[s]
    OBVIOUS
  <2>2. PICK z : z = run'[s]
    OBVIOUS
  <2>3. Submitting(x) /\ z.smt.covers = x.smt.covers /\ z.base = x.base
    BY <1>3, <2>1, <2>2 DEF Submitting
  <2>4. Fresh(x)
    BY <1>1, <2>1, <2>3 DEF SubmissionsAreFresh, Submitting
  <2>5. Fresh(x)'
    BY <2>4, FreshStays
  <2>6. Fresh(z)'
    BY <2>3, <2>5 DEF Fresh
  <2> QED BY <2>2, <2>6
<1> QED BY <1>5, <1>7, <1>8, <1>9

LEMMA CoverStutters ==
    ASSUME CoverInv, UNCHANGED <<overlapped, tree, smtBatches, run>>, Lost \subseteq Lost',
           Confirmed' \subseteq Confirmed
    PROVE  CoverInv'
<1> SUFFICES ASSUME ~overlapped
             PROVE  OneRebuild' /\ RebuildKeeps' /\ TreeKeeps' /\ SubmissionsAreFresh'
  BY DEF CoverInv
<1>1. OneRebuild /\ RebuildKeeps /\ TreeKeeps /\ SubmissionsAreFresh
  BY DEF CoverInv
<1>2. OneRebuild'
  BY <1>1 DEF OneRebuild, Rebuilding
<1>3. ASSUME NEW CONSTANT S, KeepsConfirmed(S), KeepsSubmitted(S)
      PROVE  KeepsConfirmed(S)' /\ KeepsSubmitted(S)'
  BY <1>3 DEF KeepsConfirmed, KeepsSubmitted, Pending
<1>4. RebuildKeeps'
  <2> SUFFICES ASSUME NEW s \in Runs, run[s].pc = "rebuild"
               PROVE  KeepsConfirmed(run[s].snap)' /\ KeepsSubmitted(run[s].snap)'
    BY DEF RebuildKeeps
  <2>1. PICK S : S = run[s].snap
    OBVIOUS
  <2>2. KeepsConfirmed(S)' /\ KeepsSubmitted(S)'
    BY <1>1, <1>3, <2>1 DEF RebuildKeeps
  <2> QED BY <2>1, <2>2
<1>5. TreeKeeps'
  <2> SUFFICES ASSUME tree # None
               PROVE  KeepsConfirmed(Covers(tree))' /\ KeepsSubmitted(Covers(tree))'
    BY DEF TreeKeeps
  <2>1. PICK S : S = Covers(tree)
    OBVIOUS
  <2>2. KeepsConfirmed(S)' /\ KeepsSubmitted(S)'
    BY <1>1, <1>3, <2>1 DEF TreeKeeps
  <2>3. S = Covers(tree')
    BY <2>1
  <2> QED BY <2>2, <2>3
<1>6. SubmissionsAreFresh'
  BY <1>1 DEF SubmissionsAreFresh, Fresh
<1> QED BY <1>2, <1>4, <1>5, <1>6

\* A submission that lands becomes the last sparse batch: every other one is stale.
LEMMA CoverSmtSend ==
    ASSUME AnchoringInv, CoverInv, NEW r \in Runs, SmtSend(r)
    PROVE  CoverInv'
<1> SUFFICES ASSUME ~overlapped
             PROVE  OneRebuild' /\ RebuildKeeps' /\ TreeKeeps' /\ SubmissionsAreFresh'
  BY DEF CoverInv, SmtSend, history
<1>1. OneRebuild /\ RebuildKeeps /\ TreeKeeps /\ SubmissionsAreFresh
  BY DEF CoverInv
<1>2. PICK x : x = run[r]
  OBVIOUS
<1>3. /\ x.pc = "smtsend" /\ smtBatches' = Append(smtBatches, x.smt)
      /\ UNCHANGED <<batches, cast, gone, txHash, merkleBatches, smtRows, tree, unstamped>>
  BY <1>2 DEF SmtSend, anchorSmtRoot, dbVars, history
<1>4. PICK n \in Nat : n = Len(smtBatches)
  BY DEF AnchoringInv, ChainInv, IsList
<1>5. /\ Len(smtBatches') = n + 1 /\ DOMAIN smtBatches = 1..n /\ DOMAIN smtBatches' = 1..(n + 1)
      /\ \A i \in 1..n : smtBatches'[i] = smtBatches[i]
      /\ smtBatches'[n + 1] = x.smt
  BY <1>3, <1>4, AppendToList DEF AnchoringInv, ChainInv
<1>6. PICK y : /\ y \in {Idle, [x EXCEPT !.pc = "smtrow", !.batch = n + 1, !.base = 0]}
               /\ run' = [run EXCEPT ![r] = y]
  BY <1>2, <1>4 DEF SmtSend, Finish
<1>7. y.pc \in {"idle", "smtrow"}
  <2>1. IsRun(x)
    BY <1>2 DEF AnchoringInv, RunsInv, GoodRun
  <2>2. CASE y = Idle
    BY <2>2 DEF Idle
  <2>3. CASE y = [x EXCEPT !.pc = "smtrow", !.batch = n + 1, !.base = 0]
    <3>1. y = [pc |-> "smtrow", kind |-> x.kind, ids |-> x.ids, batch |-> n + 1, snap |-> x.snap,
               smt |-> x.smt, new |-> x.new, base |-> 0]
      BY <2>1, <2>3 DEF IsRun
    <3> QED BY <3>1
  <2> QED BY <1>6, <2>2, <2>3
<1>8. run'[r] = y /\ \A s \in Runs : s # r => run'[s] = run[s]
  BY <1>6 DEF AnchoringInv, RunsInv
<1>9. Lost' = Lost /\ Confirmed' = Confirmed
  BY <1>3 DEF Lost, Confirmed, Stored
<1>10. ASSUME NEW CONSTANT S, KeepsConfirmed(S), KeepsSubmitted(S)
       PROVE  KeepsConfirmed(S)' /\ KeepsSubmitted(S)'
  <2>1. KeepsConfirmed(S)'
    <3>1. run[r].pc # "tree" /\ RunsInv
      BY <1>2, <1>3 DEF AnchoringInv
    <3> QED BY <1>6, <1>9, <1>10, <3>1, ConfirmedStayKept
  <2>2. x.smt.covers \subseteq S \cup Lost
    BY <1>2, <1>3, <1>10 DEF KeepsSubmitted
  <2>3. ASSUME NEW i \in 1..(n + 1)
        PROVE  smtBatches'[i].covers \subseteq S \cup Lost
    <3>1. i = n + 1 \/ i \in 1..n
      OBVIOUS
    <3> QED BY <1>5, <1>10, <2>2, <3>1 DEF KeepsSubmitted
  <2>4. ASSUME NEW s \in Runs, run'[s].pc \in {"latest", "smtsend"}
        PROVE  run'[s].smt.covers \subseteq S \cup Lost
    <3>1. run'[s] = run[s]
      BY <1>7, <1>8, <2>4
    <3> QED BY <1>10, <2>4, <3>1 DEF KeepsSubmitted
  <2>5. KeepsSubmitted(S)'
    BY <1>5, <1>9, <2>3, <2>4 DEF KeepsSubmitted
  <2> QED BY <2>1, <2>5
<1>11. OneRebuild'
  BY <1>1, <1>3, <1>7, <1>8 DEF OneRebuild, Rebuilding
<1>12. RebuildKeeps'
  <2> SUFFICES ASSUME NEW s \in Runs, run'[s].pc = "rebuild"
               PROVE  KeepsConfirmed(run[s].snap)' /\ KeepsSubmitted(run[s].snap)'
    BY DEF RebuildKeeps
  <2>1. PICK S : S = run[s].snap
    OBVIOUS
  <2>2. run'[s] = run[s]
    BY <1>7, <1>8
  <2>3. KeepsConfirmed(S) /\ KeepsSubmitted(S)
    BY <1>1, <2>1, <2>2 DEF RebuildKeeps
  <2>4. KeepsConfirmed(S)' /\ KeepsSubmitted(S)' /\ S = run'[s].snap
    BY <1>10, <2>1, <2>2, <2>3
  <2> QED BY <2>4
<1>13. TreeKeeps'
  <2> SUFFICES ASSUME tree # None
               PROVE  KeepsConfirmed(Covers(tree))' /\ KeepsSubmitted(Covers(tree))'
    BY <1>3 DEF TreeKeeps
  <2>1. PICK S : S = Covers(tree)
    OBVIOUS
  <2>2. KeepsConfirmed(S)' /\ KeepsSubmitted(S)'
    BY <1>1, <1>10, <2>1 DEF TreeKeeps
  <2>3. S = Covers(tree')
    BY <1>3, <2>1
  <2> QED BY <2>2, <2>3
<1>14. SubmissionsAreFresh'
  <2> SUFFICES ASSUME NEW s \in Runs, run'[s].pc \in {"latest", "smtsend"}
               PROVE  Fresh(run[s])'
    BY DEF SubmissionsAreFresh
  <2>1. run'[s] = run[s]
    BY <1>7, <1>8
  <2>2. /\ run[s].base \in Nat /\ run[s].base <= n
        /\ \A i \in 1..run[s].base : smtBatches[i].covers \subseteq run[s].smt.covers \cup Lost
    BY <1>1, <1>4, <2>1 DEF SubmissionsAreFresh, Fresh
  <2>3. \A i \in 1..run[s].base : i \in 1..n
    BY <2>2
  <2> QED BY <1>5, <1>9, <2>1, <2>2, <2>3 DEF Fresh
<1> QED BY <1>11, <1>12, <1>13, <1>14

\* What a run that has got the tree t leaves: a tree u that covers all of t and the run's own
\* batch, and, if the run goes on to submit, a submission of u.
LEMMA HaveTreeGives ==
    ASSUME AnchoringInv, NEW r \in Runs, run[r].pc \in {"tree", "rebuild"},
           NEW t, OwnTree(t), HaveTree(r, t)
    PROVE  \E u : /\ tree' = u /\ Covers(t) \subseteq Covers(u)
                  /\ run[r].kind \in {"sweep", "manual"} =>
                        ElementsOf(run[r].ids) \subseteq Covers(u)
                  /\ \E y : /\ run' = [run EXCEPT ![r] = y]
                            /\ y.pc \in {"latest", "delete", "idle"}
                            /\ y.pc = "latest" => /\ y.smt.covers = Covers(u)
                                                  /\ y.base = Len(smtBatches)
<1>1. PICK x : x = run[r]
  OBVIOUS
<1>2. IsRun(x) /\ x.ids \in Seq(Votes)
  BY <1>1 DEF AnchoringInv, RunsInv, GoodRun
<1>3. \A u, n : Submission(u, n).covers = Covers(u)
  BY DEF Submission
<1>4. CASE x.kind \in {"sweep", "manual"}
  <2>1. PICK u : u = Extended(t, x.ids)
    OBVIOUS
  <2>2. u = insertVotes(t, x.ids)
    BY <2>1 DEF Extended
  <2>3. Covers(u) = Covers(t) \cup ElementsOf(x.ids)
    BY <1>2, <2>2, InsertVotesCovers
  <2>4. PICK b : b = Submission(u, Len(x.ids))
    OBVIOUS
  <2>5. tree' = u /\ run' = [run EXCEPT ![r].pc = "latest", ![r].snap = {}, ![r].ids = <<>>,
                               ![r].smt = b, ![r].base = Len(smtBatches)]
    BY <1>1, <1>4, <2>1, <2>4 DEF HaveTree
  <2>6. PICK y : y = [x EXCEPT !.pc = "latest", !.snap = {}, !.ids = <<>>, !.smt = b,
                               !.base = Len(smtBatches)]
    OBVIOUS
  <2>7. run' = [run EXCEPT ![r] = y]
    BY <1>1, <2>5, <2>6
  <2>8. y = [pc |-> "latest", kind |-> x.kind, ids |-> <<>>, batch |-> x.batch, snap |-> {},
             smt |-> b, new |-> x.new, base |-> Len(smtBatches)]
    BY <1>2, <2>6 DEF IsRun
  <2>9. y.pc = "latest" /\ y.smt.covers = Covers(u) /\ y.base = Len(smtBatches)
    BY <1>3, <2>4, <2>8
  <2> QED BY <1>1, <2>3, <2>5, <2>7, <2>9
<1>5. CASE x.kind = "reanchor"
  <2>1. PICK b : b = Submission(t, 0)
    OBVIOUS
  <2>2. tree' = t /\ run' = [run EXCEPT ![r].pc = "latest", ![r].snap = {},
                               ![r].smt = b, ![r].base = Len(smtBatches)]
    BY <1>1, <1>5, <2>1 DEF HaveTree
  <2>3. PICK y : y = [x EXCEPT !.pc = "latest", !.snap = {}, !.smt = b, !.base = Len(smtBatches)]
    OBVIOUS
  <2>4. run' = [run EXCEPT ![r] = y]
    BY <1>1, <2>2, <2>3
  <2>5. y = [pc |-> "latest", kind |-> x.kind, ids |-> x.ids, batch |-> x.batch, snap |-> {},
             smt |-> b, new |-> x.new, base |-> Len(smtBatches)]
    BY <1>2, <2>3 DEF IsRun
  <2>6. y.pc = "latest" /\ y.smt.covers = Covers(t) /\ y.base = Len(smtBatches)
    BY <1>3, <2>1, <2>5
  <2>7. \E z : /\ run' = [run EXCEPT ![r] = z] /\ z.pc \in {"latest", "delete", "idle"}
               /\ z.pc = "latest" => z.smt.covers = Covers(t) /\ z.base = Len(smtBatches)
    BY <2>4, <2>6
  <2> QED BY <1>1, <1>5, <2>2, <2>7
<1>6. CASE x.kind = "delete"
  <2>1. PICK y : y = [x EXCEPT !.pc = "delete", !.snap = {}]
    OBVIOUS
  <2>2. tree' = t /\ run' = [run EXCEPT ![r] = y]
    BY <1>1, <1>6, <2>1 DEF HaveTree
  <2>3. y.pc = "delete"
    <3>1. y = [pc |-> "delete", kind |-> x.kind, ids |-> x.ids, batch |-> x.batch, snap |-> {},
               smt |-> x.smt, new |-> x.new, base |-> x.base]
      BY <1>2, <2>1 DEF IsRun
    <3> QED BY <3>1
  <2> QED BY <1>1, <1>6, <2>2, <2>3
<1>7. CASE x.kind = "proof"
  <2>1. PICK y : y = Idle
    OBVIOUS
  <2>2. tree' = t /\ run' = [run EXCEPT ![r] = y]
    BY <1>1, <1>7, <2>1 DEF HaveTree, Finish
  <2>3. y.pc = "idle"
    BY <2>1 DEF Idle
  <2> QED BY <1>1, <1>7, <2>2, <2>3
<1> QED BY <1>1, <1>4, <1>5, <1>6, <1>7 DEF HaveTree

LEMMA CoverHaveTree ==
    ASSUME AnchoringInv, CoverInv, NEW r \in Runs, run[r].pc \in {"tree", "rebuild"},
           UNCHANGED <<chainVars, dbVars, unstamped, overlapped>>,
           NEW t, OwnTree(t), HaveTree(r, t),
           ~overlapped => /\ KeepsConfirmed(Covers(t)) /\ KeepsSubmitted(Covers(t))
                          /\ \A s \in Runs : Rebuilding(s) => s = r
    PROVE  CoverInv'
<1> SUFFICES ASSUME ~overlapped
             PROVE  OneRebuild' /\ RebuildKeeps' /\ TreeKeeps' /\ SubmissionsAreFresh'
  BY DEF CoverInv
<1>1. SubmissionsAreFresh
  BY DEF CoverInv
<1>2. PICK u : /\ tree' = u /\ Covers(t) \subseteq Covers(u)
               /\ run[r].kind \in {"sweep", "manual"} => ElementsOf(run[r].ids) \subseteq Covers(u)
               /\ \E y : /\ run' = [run EXCEPT ![r] = y] /\ y.pc \in {"latest", "delete", "idle"}
                         /\ y.pc = "latest" => /\ y.smt.covers = Covers(u)
                                               /\ y.base = Len(smtBatches)
  BY HaveTreeGives
<1>3. PICK y : /\ run' = [run EXCEPT ![r] = y] /\ y.pc \in {"latest", "delete", "idle"}
               /\ y.pc = "latest" => y.smt.covers = Covers(u) /\ y.base = Len(smtBatches)
  BY <1>2
<1>4. run'[r] = y /\ \A s \in Runs : s # r => run'[s] = run[s]
  BY <1>3 DEF AnchoringInv, RunsInv
<1>5. Lost' = Lost /\ Confirmed' = Confirmed /\ smtBatches' = smtBatches
  BY DEF Lost, Confirmed, Stored, chainVars, dbVars
<1>6. \A s \in Runs : run'[s].pc \notin {"miss", "rebuild"}
  BY <1>3, <1>4 DEF Rebuilding
<1>7. OneRebuild' /\ RebuildKeeps'
  BY <1>6 DEF OneRebuild, RebuildKeeps, Rebuilding
<1>8. PICK S : S = Covers(u)
  OBVIOUS
<1>9. KeepsConfirmed(S)'
  <2> SUFFICES ASSUME NEW v \in Confirmed, v \notin S
               PROVE  Pending(v)'
    BY <1>5 DEF KeepsConfirmed
  <2>1. PICK s \in Runs : /\ run[s].pc = "tree" /\ run[s].kind \in {"sweep", "manual"}
                          /\ v \in ElementsOf(run[s].ids)
    BY <1>2, <1>8 DEF KeepsConfirmed, Pending
  <2>2. s # r
    BY <1>2, <1>8, <2>1
  <2>3. run'[s] = run[s]
    BY <1>4, <2>2
  <2> QED BY <2>1, <2>3 DEF Pending
<1>10. KeepsSubmitted(S)'
  <2>1. \A i \in DOMAIN smtBatches' : smtBatches'[i].covers \subseteq S \cup Lost'
    BY <1>2, <1>5, <1>8 DEF KeepsSubmitted
  <2>2. ASSUME NEW s \in Runs, run'[s].pc \in {"latest", "smtsend"}
        PROVE  run'[s].smt.covers \subseteq S \cup Lost'
    <3>1. CASE s = r
      BY <1>3, <1>4, <1>8, <2>2, <3>1
    <3>2. CASE s # r
      <4>1. run'[s] = run[s]
        BY <1>4, <3>2
      <4> QED BY <1>2, <1>5, <1>8, <2>2, <4>1 DEF KeepsSubmitted
    <3> QED BY <3>1, <3>2
  <2> QED BY <2>1, <2>2 DEF KeepsSubmitted
<1>11. TreeKeeps'
  BY <1>2, <1>8, <1>9, <1>10 DEF TreeKeeps
<1>12. SubmissionsAreFresh'
  <2> SUFFICES ASSUME NEW s \in Runs, run'[s].pc \in {"latest", "smtsend"}
               PROVE  Fresh(run[s])'
    BY DEF SubmissionsAreFresh
  <2>1. CASE s = r
    <3>1. y.smt.covers = Covers(u) /\ y.base = Len(smtBatches) /\ run'[s] = y
      BY <1>3, <1>4, <2>1
    <3>2. Len(smtBatches) \in Nat /\ DOMAIN smtBatches = 1..Len(smtBatches)
      BY AppendToList DEF AnchoringInv, ChainInv, IsList
    <3>3. \A i \in 1..Len(smtBatches) : smtBatches[i].covers \subseteq Covers(u) \cup Lost
      BY <1>2, <3>2 DEF KeepsSubmitted
    <3> QED BY <1>5, <3>1, <3>2, <3>3 DEF Fresh
  <2>2. CASE s # r
    <3>1. PICK x : x = run[s]
      OBVIOUS
    <3>2. run'[s] = x /\ Fresh(x)
      BY <1>1, <1>4, <2>2, <3>1 DEF SubmissionsAreFresh
    <3>3. Fresh(x)'
      BY <1>5, <3>2, FreshStays
    <3> QED BY <3>2, <3>3
  <2> QED BY <2>1, <2>2
<1> QED BY <1>7, <1>11, <1>12

LEMMA CoverUseTree ==
    ASSUME AnchoringInv, CoverInv, NEW r \in Runs, UseTree(r)
    PROVE  CoverInv'
<1>1. PICK t : t = tree
  OBVIOUS
<1>2. /\ run[r].pc = "tree" /\ t # None /\ HaveTree(r, t)
      /\ UNCHANGED <<chainVars, dbVars, unstamped, overlapped>>
  BY <1>1 DEF UseTree, bounds, history
<1>3. OwnTree(t)
  BY <1>1, <1>2 DEF AnchoringInv, TreeInv, GoodTree
<1>4. ~overlapped => /\ KeepsConfirmed(Covers(t)) /\ KeepsSubmitted(Covers(t))
                     /\ \A s \in Runs : ~Rebuilding(s)
  BY <1>1, <1>2 DEF CoverInv, TreeKeeps, OneRebuild
<1> QED BY <1>2, <1>3, <1>4, CoverHaveTree

LEMMA CoverPublish ==
    ASSUME AnchoringInv, CoverInv, NEW r \in Runs, Publish(r)
    PROVE  CoverInv'
<1>1. PICK snap : snap = run[r].snap
  OBVIOUS
<1>2. PICK t : t = FromRows(snap)
  OBVIOUS
<1>3. /\ run[r].pc = "rebuild" /\ HaveTree(r, t)
      /\ UNCHANGED <<chainVars, dbVars, unstamped, overlapped>>
  BY <1>1, <1>2 DEF Publish, bounds, history
<1>4. snap \subseteq Votes
  BY <1>1, <1>3, LoggedWereCast DEF AnchoringInv, RunsInv, GoodRun, Backed
<1>5. OwnTree(t) /\ Covers(t) = snap
  BY <1>2, <1>4, RebuiltTree
<1>6. ~overlapped => /\ KeepsConfirmed(Covers(t)) /\ KeepsSubmitted(Covers(t))
                     /\ \A s \in Runs : Rebuilding(s) => s = r
  BY <1>1, <1>3, <1>5 DEF CoverInv, RebuildKeeps, OneRebuild, Rebuilding
<1> QED BY <1>3, <1>5, <1>6, CoverHaveTree

\* A rebuild begins: there is no tree, and no other rebuild.
LEMMA CoverRebuild ==
    ASSUME AnchoringInv, CoverInv, NEW r \in Runs, MissTree(r) \/ DropTree(r)
    PROVE  CoverInv'
<1> SUFFICES ASSUME ~overlapped'
             PROVE  OneRebuild' /\ RebuildKeeps' /\ TreeKeeps' /\ SubmissionsAreFresh'
  BY DEF CoverInv
<1>1. /\ ~overlapped /\ \A s \in Runs : run[s].pc \notin {"miss", "rebuild"}
      /\ UNCHANGED <<chainVars, dbVars, unstamped>> /\ tree' = None
  BY DEF MissTree, DropTree, RebuildBegins, Rebuilding, procVars
<1>2. SubmissionsAreFresh
  BY <1>1 DEF CoverInv
<1>3. PICK x : x = run[r]
  OBVIOUS
<1>4. IsRun(x)
  BY <1>3 DEF AnchoringInv, RunsInv, GoodRun
<1>5. PICK y : y = IF x.pc = "tree" THEN [x EXCEPT !.pc = "miss"]
                   ELSE [x EXCEPT !.pc = "miss", !.kind = "reanchor"]
  OBVIOUS
<1>6. run' = [run EXCEPT ![r] = y]
  BY <1>3, <1>5 DEF MissTree, Move, DropTree
<1>7. y.pc = "miss"
  <2>1. y = [pc |-> "miss", kind |-> IF x.pc = "tree" THEN x.kind ELSE "reanchor",
             ids |-> x.ids, batch |-> x.batch, snap |-> x.snap, smt |-> x.smt, new |-> x.new,
             base |-> x.base]
    BY <1>4, <1>5 DEF IsRun
  <2> QED BY <2>1
<1>8. run'[r] = y /\ \A s \in Runs : s # r => run'[s] = run[s]
  BY <1>6 DEF AnchoringInv, RunsInv
<1>9. \A s \in Runs : run'[s].pc # "rebuild" /\ (run'[s].pc = "miss" => s = r)
  BY <1>1, <1>7, <1>8
<1>10. OneRebuild' /\ RebuildKeeps' /\ TreeKeeps'
  BY <1>1, <1>9 DEF OneRebuild, Rebuilding, RebuildKeeps, TreeKeeps
<1>11. SubmissionsAreFresh'
  BY <1>1, <1>2, <1>6, <1>7, <1>8, StillFresh
<1> QED BY <1>10, <1>11

\* The rebuild reads: all that is confirmed, and that is all that was covered.
LEMMA CoverReadRows ==
    ASSUME AnchoringInv, CoverInv, NEW r \in Runs, ReadRows(r)
    PROVE  CoverInv'
<1> SUFFICES ASSUME ~overlapped
             PROVE  OneRebuild' /\ RebuildKeeps' /\ TreeKeeps' /\ SubmissionsAreFresh'
  BY DEF CoverInv, ReadRows, bounds, history
<1>1. /\ OneRebuild /\ SubmissionsAreFresh /\ run[r].pc = "miss"
      /\ UNCHANGED <<chainVars, dbVars, unstamped, tree>>
  BY DEF CoverInv, ReadRows, procVars, bounds, history
<1>2. /\ tree' = None
      /\ \A s \in Runs : s # r => run[s].pc \notin {"miss", "rebuild"}
  BY <1>1 DEF OneRebuild, Rebuilding
<1>3. PICK x : x = run[r]
  OBVIOUS
<1>4. IsRun(x)
  BY <1>3 DEF AnchoringInv, RunsInv, GoodRun
<1>5. PICK y : y = [x EXCEPT !.pc = "rebuild", !.snap = Confirmed]
  OBVIOUS
<1>6. run' = [run EXCEPT ![r] = y]
  BY <1>3, <1>5 DEF ReadRows
<1>7. y = [pc |-> "rebuild", kind |-> x.kind, ids |-> x.ids, batch |-> x.batch,
           snap |-> Confirmed, smt |-> x.smt, new |-> x.new, base |-> x.base]
  BY <1>4, <1>5 DEF IsRun
<1>8. y.pc = "rebuild" /\ y.snap = Confirmed
  BY <1>7
<1>9. run'[r] = y /\ \A s \in Runs : s # r => run'[s] = run[s]
  BY <1>6 DEF AnchoringInv, RunsInv
<1>10. Lost' = Lost /\ Confirmed' = Confirmed /\ smtBatches' = smtBatches
  BY <1>1 DEF Lost, Confirmed, Stored, chainVars, dbVars
<1>11. OneRebuild'
  BY <1>2, <1>9 DEF OneRebuild, Rebuilding
<1>12. Backed \subseteq Confirmed \cup Lost
  BY DEF AnchoringInv, DbInv, Backed, Confirmed, Stored, Lost
<1>13. PICK S : S = Confirmed
  OBVIOUS
<1>14. KeepsConfirmed(S)'
  BY <1>10, <1>13 DEF KeepsConfirmed
<1>15. KeepsSubmitted(S)'
  <2>1. \A i \in DOMAIN smtBatches : smtBatches[i].covers \subseteq S \cup Lost
    BY <1>12, <1>13 DEF AnchoringInv, ChainInv
  <2>2. ASSUME NEW s \in Runs, run'[s].pc \in {"latest", "smtsend"}
        PROVE  run'[s].smt.covers \subseteq S \cup Lost
    <3>1. run'[s] = run[s]
      BY <1>8, <1>9, <2>2
    <3>2. run[s].smt.covers \subseteq Backed
      BY <2>2, <3>1 DEF AnchoringInv, RunsInv, GoodRun
    <3> QED BY <1>12, <1>13, <3>1, <3>2
  <2> QED BY <1>10, <2>1, <2>2 DEF KeepsSubmitted
<1>16. RebuildKeeps'
  <2> SUFFICES ASSUME NEW s \in Runs, run'[s].pc = "rebuild"
               PROVE  KeepsConfirmed(run[s].snap)' /\ KeepsSubmitted(run[s].snap)'
    BY DEF RebuildKeeps
  <2>1. s = r
    BY <1>2, <1>9
  <2>2. run'[s].snap = S
    BY <1>8, <1>9, <1>13, <2>1
  <2> QED BY <1>14, <1>15, <2>2
<1>17. TreeKeeps'
  BY <1>2 DEF TreeKeeps
<1>18. SubmissionsAreFresh'
  BY <1>1, <1>6, <1>8, <1>9, StillFresh
<1> QED BY <1>11, <1>16, <1>17, <1>18

LEMMA CoverRestart ==
    ASSUME Restart
    PROVE  CoverInv'
<1>1. tree' = None /\ run' = [r \in Runs |-> Idle]
  BY DEF Restart
<1>2. \A r \in Runs : run'[r].pc = "idle"
  BY <1>1 DEF Idle
<1> QED BY <1>1, <1>2
        DEF CoverInv, OneRebuild, Rebuilding, RebuildKeeps, TreeKeeps, SubmissionsAreFresh

LEMMA CoverFinish ==
    ASSUME AnchoringInv, CoverInv, NEW r \in Runs, run' = [run EXCEPT ![r] = Idle],
           run[r].pc # "tree",
           UNCHANGED <<overlapped, tree, smtBatches, cast, gone, txHash, unstamped>>
    PROVE  CoverInv'
<1>1. PICK y : y = Idle
  OBVIOUS
<1>2. y.pc = "idle" /\ run' = [run EXCEPT ![r] = y]
  BY <1>1 DEF Idle
<1>3. Lost' = Lost /\ Confirmed' = Confirmed
  BY DEF Lost, Confirmed, Stored
<1> QED BY <1>2, <1>3, CoverStays DEF Submitting

\* A run begins, or moves on to a step without a submission.
LEMMA CoverMove ==
    ASSUME AnchoringInv, CoverInv, NEW r \in Runs, NEW y, run' = [run EXCEPT ![r] = y],
           run[r].pc # "tree", y.pc \notin {"miss", "rebuild", "latest", "smtsend"},
           UNCHANGED <<overlapped, tree, smtBatches, cast, gone, txHash, unstamped>>
    PROVE  CoverInv'
<1>1. Lost' = Lost /\ Confirmed' = Confirmed
  BY DEF Lost, Confirmed, Stored
<1> QED BY <1>1, CoverStays DEF Submitting

LEMMA CoverBegins ==
    ASSUME AnchoringInv, CoverInv, NEW r \in Runs, Begins(r)
    PROVE  CoverInv'
<1>1. UNCHANGED <<overlapped, tree, smtBatches, cast, gone, txHash, unstamped>>
  BY DEF Begins, StartSweep, StartManual, StartDelete, StartProof, chainVars, dbVars, procVars,
         bounds, history
<1>2. PICK kind, ids, pc : pc \in {"count", "read", "tree"} /\ Begin(r, kind, pc, ids)
  BY DEF Begins, StartSweep, StartManual, StartDelete, StartProof
<1>3. PICK y : y = [Idle EXCEPT !.pc = pc, !.kind = kind, !.ids = ids]
  OBVIOUS
<1>4. run' = [run EXCEPT ![r] = y] /\ run[r].pc = "idle"
  BY <1>2, <1>3 DEF Begin
<1>5. y.pc = pc
  BY <1>3 DEF Idle
<1> QED BY <1>1, <1>2, <1>4, <1>5, CoverMove

LEMMA CoverMoveTo ==
    ASSUME AnchoringInv, CoverInv, NEW r \in Runs,
           NEW pc \in {"age", "read", "voterows"}, Move(r, pc), run[r].pc # "tree",
           UNCHANGED <<overlapped, tree, smtBatches, cast, gone, txHash, unstamped>>
    PROVE  CoverInv'
<1>1. PICK x : x = run[r]
  OBVIOUS
<1>2. PICK y : y = [x EXCEPT !.pc = pc]
  OBVIOUS
<1>3. IsRun(x)
  BY <1>1 DEF AnchoringInv, RunsInv, GoodRun
<1>4. y = [pc |-> pc, kind |-> x.kind, ids |-> x.ids, batch |-> x.batch, snap |-> x.snap,
           smt |-> x.smt, new |-> x.new, base |-> x.base]
  BY <1>2, <1>3 DEF IsRun
<1>5. y.pc = pc /\ run' = [run EXCEPT ![r] = y]
  BY <1>1, <1>2, <1>4 DEF Move
<1> QED BY <1>5, CoverMove

LEMMA CoverSweepStep ==
    ASSUME AnchoringInv, CoverInv, NEW r \in Runs, SweepStep(r)
    PROVE  CoverInv'
<1>1. UNCHANGED <<overlapped, tree, smtBatches, cast, gone, txHash, unstamped>>
  BY DEF SweepStep, Count, OldEnough, TooYoung, chainVars, dbVars, bounds, history
<1>2. run[r].pc # "tree"
  BY DEF SweepStep, Count, OldEnough, TooYoung
<1>3. Finish(r) \/ \E pc \in {"age", "read"} : Move(r, pc)
  BY DEF SweepStep, Count, OldEnough, TooYoung, Mark
<1>4. CASE Finish(r)
  BY <1>1, <1>2, <1>4, CoverFinish DEF Finish
<1>5. CASE \E pc \in {"age", "read"} : Move(r, pc)
  BY <1>1, <1>2, <1>5, CoverMoveTo
<1> QED BY <1>3, <1>4, <1>5

LEMMA CoverRead ==
    ASSUME AnchoringInv, CoverInv, NEW r \in Runs, Read(r)
    PROVE  CoverInv'
<1>1. /\ UNCHANGED <<overlapped, tree, smtBatches, cast, gone, txHash, unstamped>>
      /\ run[r].pc # "tree"
  BY DEF Read, chainVars, dbVars, bounds, history
<1>2. CASE Finish(r)
  BY <1>1, <1>2, CoverFinish DEF Finish
<1>3. CASE run' = [run EXCEPT ![r].pc = "send", ![r].ids = Unanchored]
  <2>1. PICK x : x = run[r]
    OBVIOUS
  <2>2. PICK y : y = [x EXCEPT !.pc = "send", !.ids = Unanchored]
    OBVIOUS
  <2>3. IsRun(x)
    BY <2>1 DEF AnchoringInv, RunsInv, GoodRun
  <2>4. y = [pc |-> "send", kind |-> x.kind, ids |-> Unanchored, batch |-> x.batch,
             snap |-> x.snap, smt |-> x.smt, new |-> x.new, base |-> x.base]
    BY <2>2, <2>3 DEF IsRun
  <2>5. y.pc = "send" /\ run' = [run EXCEPT ![r] = y]
    BY <1>3, <2>1, <2>2, <2>4
  <2> QED BY <1>1, <2>5, CoverMove
<1> QED BY <1>2, <1>3 DEF Read

LEMMA CoverSend ==
    ASSUME AnchoringInv, CoverInv, NEW r \in Runs, Send(r)
    PROVE  CoverInv'
<1>1. /\ UNCHANGED <<overlapped, tree, smtBatches, cast, gone, txHash, unstamped>>
      /\ run[r].pc # "tree"
  BY DEF Send, anchorRoot, dbVars, history
<1>2. CASE Finish(r)
  BY <1>1, <1>2, CoverFinish DEF Finish
<1>3. CASE run' = [run EXCEPT ![r].pc = "batchrow", ![r].batch = Len(batches) + 1]
  <2>1. PICK x : x = run[r]
    OBVIOUS
  <2>2. PICK y : y = [x EXCEPT !.pc = "batchrow", !.batch = Len(batches) + 1]
    OBVIOUS
  <2>3. IsRun(x)
    BY <2>1 DEF AnchoringInv, RunsInv, GoodRun
  <2>4. y = [pc |-> "batchrow", kind |-> x.kind, ids |-> x.ids, batch |-> Len(batches) + 1,
             snap |-> x.snap, smt |-> x.smt, new |-> x.new, base |-> x.base]
    BY <2>2, <2>3 DEF IsRun
  <2>5. y.pc = "batchrow"
    BY <2>4
  <2>6. run' = [run EXCEPT ![r] = y]
    BY <1>3, <2>1, <2>2
  <2> QED BY <1>1, <2>5, <2>6, CoverMove
<1> QED BY <1>2, <1>3 DEF Send

LEMMA CoverBatchRow ==
    ASSUME AnchoringInv, CoverInv, NEW r \in Runs, BatchRow(r)
    PROVE  CoverInv'
<1>1. /\ UNCHANGED <<overlapped, tree, smtBatches, cast, gone, txHash, unstamped>>
      /\ run[r].pc # "tree" /\ Move(r, "voterows")
  BY DEF BatchRow, chainVars, procVars, history
<1> QED BY <1>1, CoverMoveTo

\* What is stamped is pending, until the run that stamped it has the tree.
LEMMA CoverVoteRows ==
    ASSUME AnchoringInv, CoverInv, NEW r \in Runs, VoteRows(r)
    PROVE  CoverInv'
<1>1. PICK x : x = run[r]
  OBVIOUS
<1>2. IsRun(x) /\ x.pc = "voterows" /\ x.kind \in {"sweep", "manual"}
  BY <1>1 DEF AnchoringInv, RunsInv, GoodRun, VoteRows
<1>3. PICK y : y = [x EXCEPT !.pc = "tree", !.batch = 0]
  OBVIOUS
<1>4. y = [pc |-> "tree", kind |-> x.kind, ids |-> x.ids, batch |-> 0, snap |-> x.snap,
           smt |-> x.smt, new |-> x.new, base |-> x.base]
  BY <1>2, <1>3 DEF IsRun
<1>5. StampedRun(y) /\ y.ids = x.ids /\ ~Submitting(y) /\ y.pc \notin {"miss", "rebuild"}
  BY <1>2, <1>4 DEF StampedRun, Submitting
<1>6. run' = [run EXCEPT ![r] = y]
  BY <1>1, <1>3 DEF VoteRows
<1>7. UNCHANGED <<overlapped, tree, smtBatches, cast, gone>> /\ unstamped \subseteq unstamped'
  BY DEF VoteRows, chainVars, procVars, bounds, history
<1>8. ASSUME NEW v \in Confirmed'
      PROVE  v \in Confirmed \/ v \in ElementsOf(y.ids)
  <2>1. v \in Stored /\ txHash'[v] # None /\ v \in Votes
    BY <1>7, QueriedRows DEF AnchoringInv, Confirmed, Stored
  <2> QED BY <1>1, <1>5, <2>1 DEF VoteRows, Stamped, Confirmed
<1>9. Lost \subseteq Lost'
  BY <1>7 DEF Lost
<1> QED BY <1>1, <1>2, <1>5, <1>6, <1>7, <1>8, <1>9, CoverStays

LEMMA CoverDeleteRow ==
    ASSUME AnchoringInv, CoverInv, NEW r \in Runs, DeleteRow(r)
    PROVE  CoverInv'
<1>1. PICK x : x = run[r]
  OBVIOUS
<1>2. IsRun(x) /\ x.pc = "delete"
  BY <1>1 DEF AnchoringInv, RunsInv, GoodRun, DeleteRow
<1>3. PICK y : y \in {Idle, [x EXCEPT !.pc = "drop", !.ids = <<>>]} /\ run' = [run EXCEPT ![r] = y]
  BY <1>1 DEF DeleteRow, Finish
<1>4. y.pc \in {"idle", "drop"}
  <2>1. CASE y = Idle
    BY <2>1 DEF Idle
  <2>2. CASE y # Idle
    <3>1. y = [pc |-> "drop", kind |-> x.kind, ids |-> <<>>, batch |-> x.batch, snap |-> x.snap,
               smt |-> x.smt, new |-> x.new, base |-> x.base]
      BY <1>2, <1>3, <2>2 DEF IsRun
    <3> QED BY <3>1
  <2> QED BY <2>1, <2>2
<1>5. y.pc \notin {"miss", "rebuild"} /\ ~Submitting(y)
  BY <1>4 DEF Submitting
<1>6. /\ UNCHANGED <<overlapped, tree, smtBatches, cast, txHash, unstamped>>
      /\ gone \subseteq gone'
  BY DEF DeleteRow, chainVars, history
<1>7. Lost \subseteq Lost' /\ Confirmed' \subseteq Confirmed
  BY <1>6 DEF Lost, Confirmed, Stored
<1> QED BY <1>1, <1>2, <1>3, <1>5, <1>6, <1>7, CoverStays

LEMMA CoverLatest ==
    ASSUME AnchoringInv, CoverInv, NEW r \in Runs, Latest(r)
    PROVE  CoverInv'
<1>1. /\ UNCHANGED <<overlapped, tree, smtBatches, cast, gone, txHash, unstamped>>
      /\ run[r].pc = "latest"
  BY DEF Latest, chainVars, dbVars, bounds, history
<1>2. CASE Finish(r)
  BY <1>1, <1>2, CoverFinish DEF Finish
<1>3. CASE ~Finish(r)
  <2>1. PICK previous, total :
           run' = [run EXCEPT ![r].pc = "smtsend", ![r].smt.previous = previous,
                              ![r].smt.total = total]
    BY <1>3 DEF Latest
  <2>2. PICK x : x = run[r]
    OBVIOUS
  <2>3. PICK b : b = [x.smt EXCEPT !.previous = previous, !.total = total]
    OBVIOUS
  <2>4. PICK y : y = [x EXCEPT !.pc = "smtsend", !.smt = b]
    OBVIOUS
  <2>5. GoodRun(x) /\ IsRun(x)
    BY <2>2 DEF AnchoringInv, RunsInv, GoodRun
  <2>6. run' = [run EXCEPT ![r] = y]
    BY <2>1, <2>2, <2>3, <2>4, <2>5 DEF IsRun
  <2>7. IsSubmission(x.smt)
    BY <1>1, <2>2, <2>5 DEF GoodRun
  <2>8. b = [smtRoot |-> x.smt.smtRoot, previous |-> previous, new |-> x.smt.new,
             total |-> total, covers |-> x.smt.covers]
    BY <2>3, <2>7 DEF IsSubmission
  <2>9. y = [pc |-> "smtsend", kind |-> x.kind, ids |-> x.ids, batch |-> x.batch,
             snap |-> x.snap, smt |-> b, new |-> x.new, base |-> x.base]
    BY <2>4, <2>5 DEF IsRun
  <2>10. y.pc = "smtsend" /\ y.smt.covers = x.smt.covers /\ y.base = x.base
    BY <2>8, <2>9
  <2>11. Lost' = Lost /\ Confirmed' = Confirmed
    BY <1>1 DEF Lost, Confirmed, Stored
  <2> QED BY <1>1, <2>2, <2>6, <2>10, <2>11, CoverStays DEF Submitting
<1> QED BY <1>2, <1>3

LEMMA CoverEndings ==
    ASSUME AnchoringInv, CoverInv, NEW r \in Runs, SmtRefused(r) \/ SmtRow(r) \/ CallFails(r)
    PROVE  CoverInv'
<1>1. /\ UNCHANGED <<overlapped, tree, smtBatches, cast, gone, txHash, unstamped>>
      /\ run[r].pc # "tree" /\ run' = [run EXCEPT ![r] = Idle]
  BY DEF SmtRefused, SmtRow, CallFails, Finish, chainVars, dbVars, bounds, history
<1> QED BY <1>1, CoverFinish

LEMMA CoverNoRun ==
    ASSUME AnchoringInv, CoverInv, Cast \/ TamperRoot \/ RestoreRoot \/ UNCHANGED vars
    PROVE  CoverInv'
<1>1. /\ UNCHANGED <<overlapped, tree, smtBatches, run, gone, txHash, unstamped>>
      /\ cast' = cast \/ (Cast /\ cast' = cast + 1)
  BY DEF Cast, TamperRoot, RestoreRoot, vars, chainVars, dbVars, procVars, bounds, history
<1>2. Lost' = Lost
  BY <1>1 DEF Lost
<1>3. Confirmed' \subseteq Confirmed
  <2>1. CASE cast' = cast
    BY <1>1, <2>1 DEF Confirmed, Stored
  <2>2. CASE Cast /\ cast' = cast + 1
    <3>1. cast \in Nat /\ cast + 1 <= MaxVotes /\ MaxVotes \in Nat
      BY <2>2, KeyAssumption DEF AnchoringInv, DbInv, Cast
    <3>2. \A v \in 1..(cast + 1) : v \in Votes
      BY <3>1 DEF Votes
    <3> QED BY <1>1, <2>2, <3>2 DEF AnchoringInv, DbInv, Confirmed, Stored
  <2> QED BY <1>1, <2>1, <2>2
<1> QED BY <1>1, <1>2, <1>3, CoverStutters

LEMMA CoverStep ==
    ASSUME AnchoringInv, CoverInv, [Next]_vars
    PROVE  CoverInv'
<1>1. CASE Cast \/ TamperRoot \/ RestoreRoot \/ UNCHANGED vars
  BY <1>1, CoverNoRun
<1>2. CASE Restart
  BY <1>2, CoverRestart
<1>3. ASSUME NEW r \in Runs, Begins(r) \/ CallFails(r)
      PROVE  CoverInv'
  BY <1>3, CoverBegins, CoverEndings
<1>4. ASSUME NEW r \in Runs, Step(r)
      PROVE  CoverInv'
  <2>1. CASE SweepStep(r) \/ Read(r) \/ Send(r) \/ BatchRow(r) \/ VoteRows(r)
    BY <2>1, CoverSweepStep, CoverRead, CoverSend, CoverBatchRow, CoverVoteRows
  <2>2. CASE UseTree(r) \/ MissTree(r) \/ ReadRows(r) \/ Publish(r) \/ DeleteRow(r) \/ DropTree(r)
    BY <2>2, CoverUseTree, CoverRebuild, CoverReadRows, CoverPublish, CoverDeleteRow
  <2>3. CASE Latest(r) \/ SmtSend(r) \/ SmtRefused(r) \/ SmtRow(r)
    BY <2>3, CoverLatest, CoverSmtSend, CoverEndings
  <2> QED BY <1>4, <2>1, <2>2, <2>3 DEF Step
<1> QED BY <1>1, <1>2, <1>3, <1>4 DEF Next, AnchoringNext

\* The tree in memory (anchorSmtBatch.ts getCumulativeTree, extend and anchor) and the runs about
\* to use it, unless two rebuilds overlapped: nothing the contract's sparse root covers is
\* missing from the tree of the process, or from what a rebuild is about to put there.
THEOREM CoverInvariant == Spec => []CoverInv
<1>1. Init => CoverInv
  <2> SUFFICES ASSUME Init PROVE CoverInv
    OBVIOUS
  <2>1. tree = None /\ \A r \in Runs : run[r].pc = "idle"
    BY DEF Init, Idle
  <2> QED BY <2>1 DEF CoverInv, OneRebuild, Rebuilding, RebuildKeeps, TreeKeeps, SubmissionsAreFresh
<1>2. AnchoringInv /\ CoverInv /\ [Next]_vars => CoverInv'
  BY CoverStep
<1> QED BY <1>1, <1>2, AnchoringInvariant, PTL DEF Spec

\* Anchoring: unless two rebuilds overlapped, the tree that /anchor/verify-smt answers from and
\* the tally checks coverage against holds every confirmed ballot but those on their way into it.
THEOREM TheTreeCoversConfirmed == Spec => []TreeCoversConfirmed
<1>1. CoverInv => TreeCoversConfirmed
  BY DEF CoverInv, TreeKeeps, KeepsConfirmed, TreeCoversConfirmed
<1> QED BY <1>1, CoverInvariant, PTL

\* Anchoring: unless two rebuilds of the tree overlapped, a root of submitSmtBatch that the
\* contract accepts covers all that the roots it was computed after cover, but for deleted ballots
\* and lost stamps; what a root published meanwhile covers it may forget, and that stays in
\* the tree the next root is computed from.
THEOREM SparseRootsForgetNothing == Spec => SmtForgetsNothing
<1> DEFINE Forgotten(i, r) == smtBatches[i].covers \ (run[r].smt.covers \cup gone \cup unstamped)
           Kept == \A r \in Runs :
                      ~overlapped /\ run[r].pc = "smtsend" =>
                          \A i \in DOMAIN smtBatches :
                              /\ i <= run[r].base => Forgotten(i, r) = {}
                              /\ tree # None => Forgotten(i, r) \subseteq Covers(tree)
<1>1. ASSUME AnchoringInv, CoverInv
      PROVE  Kept
  <2> SUFFICES ASSUME NEW r \in Runs, ~overlapped, run[r].pc = "smtsend",
                      NEW i \in DOMAIN smtBatches
               PROVE  /\ i <= run[r].base => Forgotten(i, r) = {}
                      /\ tree # None => Forgotten(i, r) \subseteq Covers(tree)
    OBVIOUS
  <2>1. Fresh(run[r])
    BY <1>1 DEF CoverInv, SubmissionsAreFresh
  <2>2. i \in Nat /\ i >= 1
    <3>1. PICK n \in Nat : DOMAIN smtBatches = 1..n
      BY <1>1 DEF AnchoringInv, ChainInv, IsList
    <3> QED BY <3>1
  <2>3. ASSUME i <= run[r].base
        PROVE  Forgotten(i, r) = {}
    <3>1. i \in 1..run[r].base
      BY <2>1, <2>2, <2>3 DEF Fresh
    <3> QED BY <2>1, <3>1 DEF Fresh, Lost
  <2>4. ASSUME tree # None
        PROVE  Forgotten(i, r) \subseteq Covers(tree)
    BY <1>1, <2>4 DEF CoverInv, TreeKeeps, KeepsSubmitted, Lost
  <2> QED BY <2>3, <2>4
<1>2. AnchoringInv /\ CoverInv =>
        [\A r \in Runs :
            ~overlapped /\ run[r].pc = "smtsend" /\ smtBatches' = Append(smtBatches, run[r].smt) =>
                \A i \in DOMAIN smtBatches :
                    LET forgotten ==
                            smtBatches[i].covers \ (run[r].smt.covers \cup gone \cup unstamped)
                    IN  /\ i <= run[r].base => forgotten = {}
                        /\ tree # None => forgotten \subseteq Covers(tree)]_vars
  BY <1>1
<1> QED BY <1>2, AnchoringInvariant, CoverInvariant, PTL DEF SmtForgetsNothing

-----------------------------------------------------------------------------
LEMMA FinitelyManyRows == ASSUME AnchoringInv PROVE IsFiniteSet(merkleBatches)
<1>1. PICK n \in Nat : DOMAIN batches = 1..n
  BY DEF AnchoringInv, ChainInv, IsList
<1> DEFINE number == [row \in merkleBatches |-> 2 * row.id + IF row.flipped THEN 1 ELSE 0]
<1>2. \A row \in merkleBatches : row.id \in 1..n /\ row.flipped \in BOOLEAN
  BY <1>1 DEF AnchoringInv, DbInv
<1>3. number \in [merkleBatches -> 0..(2 * n + 1)]
  <2>1. ASSUME NEW row \in merkleBatches
        PROVE  2 * row.id + (IF row.flipped THEN 1 ELSE 0) \in 0..(2 * n + 1)
    <3>1. row.id \in 1..n
      BY <1>2
    <3> QED BY <3>1
  <2> QED BY <2>1
<1>4. ASSUME NEW row \in merkleBatches, NEW other \in merkleBatches, number[row] = number[other]
      PROVE  row = other
  <2>1. /\ row.id \in 1..n /\ other.id \in 1..n
        /\ row.flipped \in BOOLEAN /\ other.flipped \in BOOLEAN
    BY <1>2
  <2>2. 2 * row.id + (IF row.flipped THEN 1 ELSE 0) = 2 * other.id + IF other.flipped THEN 1 ELSE 0
    BY <1>4
  <2>3. PICK i \in Nat, j \in Nat : i = row.id /\ j = other.id
    BY <2>1
  <2>4. i = j
    BY <2>2, <2>3
  <2>5. row.flipped = other.flipped
    BY <2>1, <2>2, <2>3, <2>4
  <2>6. row.root = other.root /\ row.voteIds = other.voteIds
    <3>1. \A one \in merkleBatches :
              one.root = batches[one.id].root /\ one.voteIds = batches[one.id].of
      BY DEF AnchoringInv, DbInv
    <3> QED BY <2>3, <2>4, <3>1
  <2>7. IsRow(row) /\ IsRow(other)
    BY DEF AnchoringInv, DbInv
  <2> QED BY <2>3, <2>4, <2>5, <2>6, <2>7 DEF IsRow
<1>5. number \in Injection(merkleBatches, 0..(2 * n + 1))
  <2>1. DOMAIN number = merkleBatches
    OBVIOUS
  <2> HIDE DEF number
  <2>2. IsInjective(number)
    BY <1>4, <2>1, Zenon DEF IsInjective
  <2> QED BY <1>3, <2>2, Zenon DEF Injection
<1>6. IsFiniteSet(0..(2 * n + 1))
  BY FS_Interval
<1> QED BY <1>5, <1>6, FS_Injection

\* The leaves of a batch are a tree's leaves, and row.voteIds names each of its ballots.
LEMMA BatchLeaves ==
    ASSUME NEW ids \in Seq(Votes), ids # <<>>, NEW v \in ElementsOf(ids)
    PROVE  /\ IsLeaves(Leaves(ids)) /\ Len(Leaves(ids)) = Len(ids)
           /\ DOMAIN Leaves(ids) = 1..Len(ids)
           /\ \E i \in DOMAIN Leaves(ids) : ids[i] = v
<1>1. PICK n \in Nat : n = Len(ids) /\ DOMAIN ids = 1..n
  OBVIOUS
<1>2. n # 0
  BY <1>1, EmptySeq
<1>3. Leaves(ids) = [i \in 1..n |-> hashVoteLeaf(ids[i])]
  BY <1>1 DEF Leaves
<1>4. PICK l : l = Leaves(ids)
  OBVIOUS
<1>5. DOMAIN l = 1..n /\ Len(l) = n /\ \A i \in 1..n : l[i][1] = 0
  BY <1>3, <1>4 DEF hashVoteLeaf
<1>6. IsLeaves(l)
  BY <1>2, <1>5 DEF IsLeaves
<1>7. \E i \in 1..n : ids[i] = v
  BY <1>1 DEF ElementsOf
<1> QED BY <1>1, <1>4, <1>5, <1>6, <1>7

\* Anchoring: GET /anchor/verify never answers 409 for a batch whose row was not edited, and
\* whenever it answers 200 the proof it built holds against the row and against the contract.
THEOREM EveryBallotVerifies == Spec => []DenseProofsVerify
<1>1. ASSUME AnchoringInv, NEW row \in merkleBatches, NEW v \in ElementsOf(row.voteIds)
      PROVE  /\ Verification(v).status = 409 => row.flipped
             /\ Verification(v).status = 200 =>
                   ~row.flipped /\ Verification(v).local /\ Verification(v).onChain
  <2> DEFINE rows == { x \in merkleBatches : v \in ElementsOf(x.voteIds) }
             leaves == Leaves(row.voteIds)
             index == CHOOSE i \in DOMAIN leaves : row.voteIds[i] = v
             proof == getProof(leaves, index - 1)
  <2>1. /\ row.id \in DOMAIN batches /\ row.root = batches[row.id].root
        /\ row.voteIds = batches[row.id].of /\ row.voteIds \in Seq(Votes) /\ row.voteIds # <<>>
        /\ row.root = buildMerkleTree(leaves)
    BY <1>1 DEF AnchoringInv, ChainInv, DbInv
  <2>2. row \in rows
    OBVIOUS
  <2>3. IsFiniteSet(rows)
    BY <1>1, FinitelyManyRows, FS_Subset
  <2>4. CASE Cardinality(rows) > 1
    <3>1. Verification(v).status = 500
      BY <2>2, <2>4 DEF Verification
    <3> QED BY <3>1
  <2>5. CASE ~(Cardinality(rows) > 1)
    <3>1. rows = {row}
      <4> HIDE DEF rows
      <4>1. Cardinality(rows) \in Nat
        BY <2>3, FS_CardinalityType
      <4>2. Cardinality(rows) # 0
        BY <2>2, <2>3, FS_EmptySet
      <4>3. Cardinality(rows) = 1
        BY <2>5, <4>1, <4>2
      <4>4. \E x : rows = {x}
        BY <2>3, <4>3, FS_Singleton
      <4> QED BY <2>2, <4>4
    <3>2. (CHOOSE x \in rows : TRUE) = row
      <4> HIDE DEF rows
      <4> QED BY <3>1
    <3>3. Verification(v) =
            IF ~(ElementsOf(row.voteIds) \subseteq Stored) THEN [status |-> 500]
            ELSE IF ~RootMatches(row) THEN [status |-> 409]
            ELSE [status |-> 200, local |-> verifyProof(leaves[index], proof, row.root),
                  onChain |-> verifyOnChain(row.id, leaves[index], proof)]
      <4>1. PICK c : c = CHOOSE x \in rows : TRUE
        OBVIOUS
      <4>2. c = row
        BY <3>2, <4>1
      <4>3. Verification(v) =
              LET ls == Leaves(c.voteIds)
                  at == CHOOSE i \in DOMAIN ls : c.voteIds[i] = v
                  path == getProof(ls, at - 1)
              IN  IF ~(ElementsOf(c.voteIds) \subseteq Stored) THEN [status |-> 500]
                  ELSE IF ~RootMatches(c) THEN [status |-> 409]
                  ELSE [status |-> 200, local |-> verifyProof(ls[at], path, c.root),
                        onChain |-> verifyOnChain(c.id, ls[at], path)]
        BY <2>2, <2>5, <4>1 DEF Verification
      <4> HIDE DEF rows
      <4> QED BY <4>2, <4>3
    <3>4. RootMatches(row) <=> ~row.flipped
      BY <2>1 DEF RootMatches
    <3>5. /\ IsLeaves(leaves) /\ Len(leaves) = Len(row.voteIds)
          /\ index \in 1..Len(leaves)
      <4>1. /\ IsLeaves(leaves) /\ Len(leaves) = Len(row.voteIds)
            /\ DOMAIN leaves = 1..Len(leaves)
            /\ \E i \in DOMAIN leaves : row.voteIds[i] = v
        BY <2>1, BatchLeaves
      <4> HIDE DEF leaves
      <4> QED BY <4>1
    <3>6. verifyProof(leaves[index], proof, row.root)
      <4>1. index - 1 \in Nat /\ index - 1 < Len(leaves) /\ (index - 1) + 1 = index
        BY <3>5 DEF IsLeaves
      <4> HIDE DEF leaves, index
      <4>2. verifyProof(leaves[(index - 1) + 1], getProof(leaves, index - 1),
                        buildMerkleTree(leaves))
        BY <3>5, <4>1, DenseTreeVerifies
      <4> QED BY <2>1, <4>1, <4>2
    <3>7. verifyOnChain(row.id, leaves[index], proof)
      BY <2>1, <3>6 DEF verifyOnChain
    <3> HIDE DEF leaves, index, proof
    <3> QED BY <3>3, <3>4, <3>6, <3>7
  <2> QED BY <2>4, <2>5
<1>2. AnchoringInv => DenseProofsVerify
  BY <1>1, Zenon DEF DenseProofsVerify
<1> QED BY <1>2, AnchoringInvariant, PTL

-----------------------------------------------------------------------------
(***************************************************************************)
(* The sparse tree in memory. Its cache of hashes is that of a tree with its *)
(* leaves, but for those beside which another was put later: getNode reads   *)
(* every leaf beside the one it inserts as empty.                            *)
(***************************************************************************)
Held(t, f) ==
    /\ f = [k \in Keys |-> f[k]] /\ Canonical([leaf |-> f, node |-> t.node])
    /\ \A k \in Keys : f[k] = t.leaf[k] \/ (f[k] = None /\ t.leaf[Sibling(k)] # None)

SoundTree(t) == OwnTree(t) /\ \E f : Held(t, f)

LEMMA EmptyTreeIsSound == SoundTree(EmptyTree)
<1>1. PICK f : f = EmptyTree.leaf
  OBVIOUS
<1>2. f = [k \in Keys |-> f[k]]
  BY <1>1 DEF EmptyTree
<1>3. Canonical([leaf |-> f, node |-> EmptyTree.node])
  BY <1>1, EmptyTreeIsCanonical DEF Canonical
<1>4. Held(EmptyTree, f)
  BY <1>1, <1>2, <1>3 DEF Held
<1> QED BY <1>4, EmptyTreeIsOwn DEF SoundTree

LEMMA SiblingFacts ==
    ASSUME NEW k \in Keys
    PROVE  Sibling(k) \in Keys /\ Sibling(k) # k /\ Sibling(Sibling(k)) = k
           /\ Sibling(k) \div 2 = k \div 2
<1>1. Keys = Row(0) /\ 0 \in 0..(Depth - 1)
  BY DepthAssumption DEF Keys, Row
<1>2. /\ Sibling(k) \in Keys /\ Sibling(k) # k /\ Sibling(k) \div 2 = k \div 2
      /\ Sibling(Sibling(k)) # Sibling(k) /\ Sibling(Sibling(k)) \div 2 = Sibling(k) \div 2
      /\ Sibling(Sibling(k)) \in Keys
  BY <1>1, RowFacts
<1>3. Keys \subseteq Nat
  BY DEF Keys
<1>4. PICK a \in Nat, b \in Nat, c \in Nat : a = k /\ b = Sibling(k) /\ c = Sibling(b)
  BY <1>2, <1>3
<1>5. b \in {2 * (a \div 2), 2 * (a \div 2) + 1} /\ a \in {2 * (a \div 2), 2 * (a \div 2) + 1}
  BY <1>2, <1>4
<1>6. c \in {2 * (a \div 2), 2 * (a \div 2) + 1}
  BY <1>2, <1>4
<1>7. c = a
  BY <1>2, <1>4, <1>5, <1>6
<1> QED BY <1>2, <1>4, <1>7

LEMMA InsertIsSound ==
    ASSUME NEW t, SoundTree(t), NEW v \in Votes
    PROVE  SoundTree(insert(t, Key[v], v))
<1>1. PICK k \in Keys : k = Key[v]
  BY KeyAssumption
<1>2. v # None
  BY NoneIsNoVote
<1>3. PICK u : u = insert(t, k, v)
  OBVIOUS
<1>4. u.leaf = [t.leaf EXCEPT ![k] = v]
  BY <1>3 DEF insert
<1>5. t.leaf \in [Keys -> Votes \cup {None}]
  BY DEF SoundTree, OwnTree
<1>6. OwnTree(u)
  BY <1>1, <1>3, InsertCovers DEF SoundTree
<1>7. PICK f : Held(t, f)
  BY DEF SoundTree
<1>8. PICK s \in Keys : s = Sibling(k) /\ s # k /\ Sibling(s) = k
  BY SiblingFacts
<1>9. PICK g : g = [f EXCEPT ![s] = None, ![k] = v]
  OBVIOUS
<1>10. f = [j \in Keys |-> f[j]]
  BY <1>7 DEF Held
<1>11. /\ g = [j \in Keys |-> g[j]] /\ g[s] = None /\ g[k] = v
       /\ \A j \in Keys : j # s /\ j # k => g[j] = f[j]
  BY <1>8, <1>9, <1>10
<1>12. Canonical([leaf |-> g, node |-> u.node])
  BY <1>2, <1>3, <1>7, <1>8, <1>9, InsertForgetsTheSibling DEF Held
<1>13. u.leaf[k] = v /\ \A j \in Keys : j # k => u.leaf[j] = t.leaf[j]
  BY <1>4, <1>5
<1>14. ASSUME NEW j \in Keys
       PROVE  g[j] = u.leaf[j] \/ (g[j] = None /\ u.leaf[Sibling(j)] # None)
  <2>1. CASE j = k
    BY <1>11, <1>13, <2>1
  <2>2. CASE j = s
    BY <1>2, <1>8, <1>11, <1>13, <2>2
  <2>3. CASE j # k /\ j # s
    <3>1. g[j] = f[j] /\ u.leaf[j] = t.leaf[j]
      BY <1>11, <1>13, <2>3
    <3>2. Sibling(j) \in Keys /\ Sibling(j) # k
      BY <1>8, <2>3, SiblingFacts
    <3>3. u.leaf[Sibling(j)] = t.leaf[Sibling(j)]
      BY <1>13, <3>2
    <3> QED BY <1>7, <3>1, <3>3 DEF Held
  <2> QED BY <2>1, <2>2, <2>3
<1>15. Held(u, g)
  BY <1>11, <1>12, <1>14 DEF Held
<1> QED BY <1>1, <1>3, <1>6, <1>15 DEF SoundTree

\* Without siblings nothing is forgotten.
LEMMA SoundTreeIsCanonical ==
    ASSUME NEW t, SoundTree(t), SiblingFree(Occupied(t))
    PROVE  Canonical(t)
<1>1. PICK f : Held(t, f)
  BY DEF SoundTree
<1>2. ASSUME NEW k \in Keys
      PROVE  f[k] = t.leaf[k]
  <2>1. CASE t.leaf[k] = None
    BY <1>1, <2>1 DEF Held
  <2>2. CASE t.leaf[k] # None
    <3>1. k \in Occupied(t)
      BY <2>2 DEF Occupied
    <3>2. t.leaf[Sibling(k)] = None
      BY <3>1, SiblingIsVacant
    <3> QED BY <1>1, <3>2 DEF Held
  <2> QED BY <2>1, <2>2
<1>3. f = t.leaf
  BY <1>1, <1>2 DEF Held, SoundTree, OwnTree
<1>4. Canonical([leaf |-> t.leaf, node |-> t.node])
  BY <1>1, <1>3 DEF Held
<1> QED BY <1>4 DEF Canonical

LEMMA InsertVotesIsSound ==
    ASSUME NEW t, SoundTree(t), NEW ids \in Seq(Votes)
    PROVE  SoundTree(insertVotes(t, ids))
<1>1. Len(ids) \in Nat /\ \A i \in 1..Len(ids) : ids[i] \in Votes
  BY LenProperties, ElementOfSeq
<1>2. PICK after : InsertsInOrder(after, t, ids, Len(ids)) /\ insertVotes(t, ids) = after[Len(ids)]
  BY <1>1, InsertVotesUnfolds
<1> DEFINE Good == { n \in Nat : n <= Len(ids) => SoundTree(after[n]) }
<1>3. 0 \in Good
  <2>1. after[0] = t
    BY <1>1, <1>2 DEF InsertsInOrder
  <2> QED BY <2>1
<1>4. ASSUME NEW n \in Nat, n \in Good
      PROVE  n + 1 \in Good
  <2> SUFFICES ASSUME n + 1 <= Len(ids) PROVE SoundTree(after[n + 1])
    OBVIOUS
  <2>1. SoundTree(after[n]) /\ ids[n + 1] \in Votes
    BY <1>1, <1>4
  <2>2. after[n + 1] = insert(after[n], Key[ids[n + 1]], ids[n + 1])
    BY <1>1, <1>2 DEF InsertsInOrder
  <2> QED BY <2>1, <2>2, InsertIsSound
<1>5. Len(ids) \in Good
  <2> HIDE DEF Good
  <2> QED BY <1>1, <1>3, <1>4, SetInduction
<1> QED BY <1>1, <1>2, <1>5

LEMMA RebuiltTreeIsSound ==
    ASSUME NEW snap \in SUBSET Votes
    PROVE  SoundTree(FromRows(snap))
<1>1. Ascending(snap) \in Seq(Votes)
  BY FiniteVotes, AscendingFacts, SeqMonotonic
<1>2. FromRows(snap) = insertVotes(EmptyTree, Ascending(snap))
  BY DEF FromRows, Extended
<1> QED BY <1>1, <1>2, EmptyTreeIsSound, InsertVotesIsSound

CacheInv == tree # None => SoundTree(tree)

\* A step that neither uses the tree nor has to do with a submission.
Elsewhere(r) ==
    \/ Begins(r) \/ CallFails(r) \/ SweepStep(r) \/ Read(r) \/ Send(r) \/ BatchRow(r) \/ VoteRows(r)
    \/ MissTree(r) \/ ReadRows(r) \/ DeleteRow(r) \/ DropTree(r) \/ SmtRefused(r) \/ SmtRow(r)

LEMMA StepIs ==
    ASSUME NEW r \in Runs, Begins(r) \/ CallFails(r) \/ Step(r)
    PROVE  Elsewhere(r) \/ UseTree(r) \/ Publish(r) \/ Latest(r) \/ SmtSend(r)
BY DEF Elsewhere, Step

LEMMA ElsewhereIsElsewhere ==
    ASSUME AnchoringInv, NEW r \in Runs, Elsewhere(r)
    PROVE  /\ smtBatches' = smtBatches /\ tree' \in {tree, None}
           /\ \E y : run' = [run EXCEPT ![r] = y] /\ y.pc \notin {"latest", "smtsend"}
<1>1. PICK x : x = run[r]
  OBVIOUS
<1>2. IsRun(x)
  BY <1>1 DEF AnchoringInv, RunsInv, GoodRun
<1>3. smtBatches' = smtBatches
  BY DEF Elsewhere, Begins, StartSweep, StartManual, StartDelete, StartProof, CallFails, SweepStep,
         Count, OldEnough, TooYoung, Read, Send, anchorRoot, BatchRow, VoteRows, MissTree, ReadRows,
         DeleteRow, DropTree, SmtRefused, SmtRow, chainVars
<1>4. tree' \in {tree, None}
  BY DEF Elsewhere, Begins, StartSweep, StartManual, StartDelete, StartProof, CallFails, SweepStep,
         Count, OldEnough, TooYoung, Read, Send, BatchRow, VoteRows, MissTree, ReadRows,
         DeleteRow, DropTree, SmtRefused, SmtRow, procVars
<1> DEFINE Goes == \E y : run' = [run EXCEPT ![r] = y] /\ y.pc \notin {"latest", "smtsend"}
<1>5. ASSUME NEW y, y.pc \notin {"latest", "smtsend"}, run' = [run EXCEPT ![r] = y]
      PROVE  Goes
  BY <1>5
<1> SUFFICES Goes
  BY <1>3, <1>4
<1> HIDE DEF Goes
<1>6. CASE Finish(r)
  <2>1. Idle.pc \notin {"latest", "smtsend"}
    BY DEF Idle
  <2> QED BY <1>5, <1>6, <2>1 DEF Finish
<1>7. CASE Begins(r)
  <2>1. PICK kind, ids, pc : pc \in {"count", "read", "tree"} /\ Begin(r, kind, pc, ids)
    BY <1>7 DEF Begins, StartSweep, StartManual, StartDelete, StartProof
  <2>2. PICK y : y = [Idle EXCEPT !.pc = pc, !.kind = kind, !.ids = ids]
    OBVIOUS
  <2>3. run' = [run EXCEPT ![r] = y] /\ y.pc = pc
    BY <2>1, <2>2 DEF Begin, Idle
  <2> QED BY <1>5, <2>1, <2>3
<1>8. ASSUME NEW pc, pc \in {"age", "read", "voterows"}, Move(r, pc)
      PROVE  Goes
  <2>1. PICK y : y = [x EXCEPT !.pc = pc]
    OBVIOUS
  <2>2. run' = [run EXCEPT ![r] = y]
    BY <1>1, <1>8, <2>1 DEF Move
  <2>3. y.pc = pc
    BY <1>2, <2>1 DEF IsRun
  <2> QED BY <1>5, <1>8, <2>2, <2>3
<1>9. CASE SweepStep(r) \/ BatchRow(r) \/ CallFails(r) \/ SmtRefused(r) \/ SmtRow(r)
  <2>1. Finish(r) \/ \E pc \in {"age", "read", "voterows"} : Move(r, pc)
    BY <1>9 DEF SweepStep, Count, OldEnough, TooYoung, Mark, BatchRow, CallFails, SmtRefused, SmtRow
  <2> QED BY <1>6, <1>8, <2>1
<1>10. CASE Read(r)
  <2>1. PICK y : y = [x EXCEPT !.pc = "send", !.ids = Unanchored]
    OBVIOUS
  <2>2. Finish(r) \/ run' = [run EXCEPT ![r] = y]
    BY <1>1, <1>10, <2>1 DEF Read
  <2>3. y.pc = "send"
    BY <1>2, <2>1 DEF IsRun
  <2> QED BY <1>5, <1>6, <2>2, <2>3
<1>11. CASE Send(r)
  <2>1. PICK y : y = [x EXCEPT !.pc = "batchrow", !.batch = Len(batches) + 1]
    OBVIOUS
  <2>2. Finish(r) \/ run' = [run EXCEPT ![r] = y]
    BY <1>1, <1>11, <2>1 DEF Send
  <2>3. y.pc = "batchrow"
    BY <1>2, <2>1 DEF IsRun
  <2> QED BY <1>5, <1>6, <2>2, <2>3
<1>12. CASE VoteRows(r)
  <2>1. PICK y : y = [x EXCEPT !.pc = "tree", !.batch = 0]
    OBVIOUS
  <2>2. run' = [run EXCEPT ![r] = y] /\ y.pc = "tree"
    BY <1>1, <1>2, <1>12, <2>1 DEF VoteRows, IsRun
  <2> QED BY <1>5, <2>2
<1>13. CASE MissTree(r)
  <2>1. PICK y : y = [x EXCEPT !.pc = "miss"]
    OBVIOUS
  <2>2. run' = [run EXCEPT ![r] = y] /\ y.pc = "miss"
    BY <1>1, <1>2, <1>13, <2>1 DEF MissTree, Move, IsRun
  <2> QED BY <1>5, <2>2
<1>14. CASE ReadRows(r)
  <2>1. PICK y : y = [x EXCEPT !.pc = "rebuild", !.snap = Confirmed]
    OBVIOUS
  <2>2. run' = [run EXCEPT ![r] = y] /\ y.pc = "rebuild"
    BY <1>1, <1>2, <1>14, <2>1 DEF ReadRows, IsRun
  <2> QED BY <1>5, <2>2
<1>15. CASE DeleteRow(r)
  <2>1. PICK y : y = [x EXCEPT !.pc = "drop", !.ids = <<>>]
    OBVIOUS
  <2>2. Finish(r) \/ run' = [run EXCEPT ![r] = y]
    BY <1>1, <1>15, <2>1 DEF DeleteRow
  <2>3. y.pc = "drop"
    BY <1>2, <2>1 DEF IsRun
  <2> QED BY <1>5, <1>6, <2>2, <2>3
<1>16. CASE DropTree(r)
  <2>1. PICK y : y = [x EXCEPT !.pc = "miss", !.kind = "reanchor"]
    OBVIOUS
  <2>2. run' = [run EXCEPT ![r] = y] /\ y.pc = "miss"
    BY <1>1, <1>2, <1>16, <2>1 DEF DropTree, IsRun
  <2> QED BY <1>5, <2>2
<1> QED BY <1>7, <1>9, <1>10, <1>11, <1>12, <1>13, <1>14, <1>15, <1>16 DEF Elsewhere

\* The run has the tree t: what it leaves in memory, and what it goes on to submit.
LEMMA HaveTreeIsSound ==
    ASSUME AnchoringInv, NEW r \in Runs, NEW t, SoundTree(t), HaveTree(r, t)
    PROVE  \E u : /\ tree' = u /\ SoundTree(u)
                  /\ \E y : /\ run' = [run EXCEPT ![r] = y] /\ y.pc \in {"latest", "delete", "idle"}
                            /\ y.pc = "latest" => \E n : y.smt = Submission(u, n)
<1>1. PICK x : x = run[r]
  OBVIOUS
<1>2. IsRun(x) /\ x.ids \in Seq(Votes)
  BY <1>1 DEF AnchoringInv, RunsInv, GoodRun
<1>3. CASE x.kind \in {"sweep", "manual"}
  <2>1. PICK u : u = Extended(t, x.ids)
    OBVIOUS
  <2>2. SoundTree(u)
    BY <1>2, <2>1, InsertVotesIsSound DEF Extended
  <2>3. PICK b : b = Submission(u, Len(x.ids))
    OBVIOUS
  <2>4. tree' = u /\ run' = [run EXCEPT ![r].pc = "latest", ![r].snap = {}, ![r].ids = <<>>,
                               ![r].smt = b, ![r].base = Len(smtBatches)]
    BY <1>1, <1>3, <2>1, <2>3 DEF HaveTree
  <2>5. PICK y : y = [x EXCEPT !.pc = "latest", !.snap = {}, !.ids = <<>>, !.smt = b,
                               !.base = Len(smtBatches)]
    OBVIOUS
  <2>6. run' = [run EXCEPT ![r] = y] /\ y.pc = "latest" /\ y.smt = b
    BY <1>1, <1>2, <2>4, <2>5 DEF IsRun
  <2>7. \E z : /\ run' = [run EXCEPT ![r] = z] /\ z.pc \in {"latest", "delete", "idle"}
               /\ z.pc = "latest" => \E n : z.smt = Submission(u, n)
    BY <2>3, <2>6
  <2> QED BY <2>2, <2>4, <2>7
<1>4. CASE x.kind = "reanchor"
  <2>1. PICK b : b = Submission(t, 0)
    OBVIOUS
  <2>2. tree' = t /\ run' = [run EXCEPT ![r].pc = "latest", ![r].snap = {},
                               ![r].smt = b, ![r].base = Len(smtBatches)]
    BY <1>1, <1>4, <2>1 DEF HaveTree
  <2>3. PICK y : y = [x EXCEPT !.pc = "latest", !.snap = {}, !.smt = b, !.base = Len(smtBatches)]
    OBVIOUS
  <2>4. run' = [run EXCEPT ![r] = y] /\ y.pc = "latest" /\ y.smt = b
    BY <1>1, <1>2, <2>2, <2>3 DEF IsRun
  <2>5. \E z : /\ run' = [run EXCEPT ![r] = z] /\ z.pc \in {"latest", "delete", "idle"}
               /\ z.pc = "latest" => \E n : z.smt = Submission(t, n)
    BY <2>1, <2>4
  <2> QED BY <2>2, <2>5
<1>5. CASE x.kind = "delete"
  <2>1. PICK y : y = [x EXCEPT !.pc = "delete", !.snap = {}]
    OBVIOUS
  <2>2. tree' = t /\ run' = [run EXCEPT ![r] = y] /\ y.pc = "delete"
    BY <1>1, <1>2, <1>5, <2>1 DEF HaveTree, IsRun
  <2> QED BY <2>2
<1>6. CASE x.kind = "proof"
  <2>1. PICK y : y = Idle
    OBVIOUS
  <2>2. tree' = t /\ run' = [run EXCEPT ![r] = y] /\ y.pc = "idle"
    BY <1>1, <1>6, <2>1 DEF HaveTree, Finish, Idle
  <2> QED BY <2>2
<1> QED BY <1>1, <1>3, <1>4, <1>5, <1>6 DEF HaveTree

\* A run has a tree in two ways: it finds one, or it publishes the one it rebuilt.
LEMMA TreesAreSound ==
    ASSUME AnchoringInv, CacheInv, NEW r \in Runs, UseTree(r) \/ Publish(r)
    PROVE  \E t : SoundTree(t) /\ HaveTree(r, t)
<1>1. CASE UseTree(r)
  BY <1>1 DEF UseTree, CacheInv
<1>2. CASE Publish(r)
  <2>1. PICK snap : snap = run[r].snap
    OBVIOUS
  <2>2. run[r].pc = "rebuild" /\ HaveTree(r, FromRows(snap))
    BY <1>2, <2>1 DEF Publish
  <2>3. snap \subseteq Votes
    BY <2>1, <2>2, LoggedWereCast DEF AnchoringInv, RunsInv, GoodRun, Backed
  <2> QED BY <2>2, <2>3, RebuiltTreeIsSound
<1> QED BY <1>1, <1>2

LEMMA CacheStep ==
    ASSUME AnchoringInv, CacheInv, [Next]_vars
    PROVE  CacheInv'
<1>1. ASSUME tree' \in {tree, None}
      PROVE  CacheInv'
  BY <1>1 DEF CacheInv
<1>2. CASE Cast \/ TamperRoot \/ RestoreRoot \/ Restart \/ UNCHANGED vars
  <2>1. tree' \in {tree, None}
    BY <1>2 DEF Cast, TamperRoot, RestoreRoot, Restart, vars, procVars
  <2> QED BY <1>1, <2>1
<1>3. ASSUME NEW r \in Runs, Begins(r) \/ CallFails(r) \/ Step(r)
      PROVE  CacheInv'
  <2>1. CASE Elsewhere(r)
    BY <1>1, <2>1, ElsewhereIsElsewhere
  <2>2. CASE Latest(r) \/ SmtSend(r)
    <3>1. tree' = tree
      BY <2>2 DEF Latest, SmtSend
    <3> QED BY <1>1, <3>1
  <2>3. CASE UseTree(r) \/ Publish(r)
    <3>1. PICK t : SoundTree(t) /\ HaveTree(r, t)
      BY <2>3, TreesAreSound
    <3>2. PICK u : tree' = u /\ SoundTree(u)
      BY <3>1, HaveTreeIsSound
    <3> QED BY <3>2 DEF CacheInv
  <2> QED BY <1>3, <2>1, <2>2, <2>3, StepIs
<1> QED BY <1>2, <1>3 DEF Next, AnchoringNext

-----------------------------------------------------------------------------
\* anchorSmtBatch.ts: the cumulative tree in memory (getCumulativeTree and the insertions of
\* submitSmtBatch) keeps each ballot at its nullifier, and its cache of inner hashes is the one a
\* rebuild from its leaves would give, however insertions, restarts and rebuilds follow each other.
THEOREM CacheInvariant == Spec => []CacheInv
<1>1. Init => CacheInv
  BY DEF Init, CacheInv
<1>2. AnchoringInv /\ CacheInv /\ [Next]_vars => CacheInv'
  BY CacheStep
<1> QED BY <1>1, <1>2, AnchoringInvariant, PTL DEF Spec

\* An empty leaf's hash is no occupied leaf's.
LEMMA LeavesDiffer == \A k, v : leafHash(k, v) # DEFAULT_HASHES[0]
BY DefaultsUnfold DEF leafHash

LEMMA OccupiedProof ==
    ASSUME NEW t, SoundTree(t), SiblingFree(Occupied(t)), NEW k \in Keys, t.leaf[k] # None
    PROVE  LET proof == buildProofBits(t, k)
           IN  /\ _verifySmt(Root(t), k, t.leaf[k], proof)
               /\ ~verifySmtNonMembershipProof(Root(t), k, proof)
               /\ Root(delete(t, k)) = CanonicalRoot([t.leaf EXCEPT ![k] = None])
<1>1. Canonical(t) /\ t.leaf = [j \in Keys |-> t.leaf[j]]
  BY SoundTreeIsCanonical DEF SoundTree, OwnTree
<1>2. k \in Occupied(t)
  BY DEF Occupied
<1>3. t.leaf[Sibling(k)] = None
  BY <1>2, SiblingIsVacant
<1>4. PICK proof : proof = buildProofBits(t, k)
  OBVIOUS
<1>5. LeafNode(t.leaf, k) = leafHash(k, t.leaf[k])
  BY DEF LeafNode
<1>6. _verifySmt(Root(t), k, t.leaf[k], proof)
  BY <1>1, <1>3, <1>4, <1>5, SparseProofsAreComplete DEF _verifySmt, verifySmtMembershipProof
<1>7. ~verifySmtNonMembershipProof(Root(t), k, proof)
  <2> SUFFICES ASSUME verifyAgainstRoot(Root(t), k, DEFAULT_HASHES[0], proof) PROVE FALSE
    BY DEF verifySmtNonMembershipProof
  <2>1. Root(t) = CanonicalRoot(t.leaf)
    BY <1>1, CanonicalRoots
  <2>2. DEFAULT_HASHES[0] = LeafNode(t.leaf, k)
    BY <2>1, SparseProofsAreSound
  <2> QED BY <1>5, <2>2, LeavesDiffer
<1>8. Root(delete(t, k)) = CanonicalRoot([t.leaf EXCEPT ![k] = None])
  <2>1. PICK u : u = delete(t, k)
    OBVIOUS
  <2>2. Canonical(u)
    BY <1>1, <1>3, <2>1, DeleteIsCanonical
  <2>3. u.leaf = [t.leaf EXCEPT ![k] = None]
    BY <2>1 DEF delete
  <2> QED BY <2>1, <2>2, <2>3, CanonicalRoots
<1> QED BY <1>4, <1>6, <1>7, <1>8

LEMMA VacantProof ==
    ASSUME NEW t, SoundTree(t), SiblingFree(Occupied(t)), NEW k \in Keys, t.leaf[k] = None,
           \A j \in Keys : t.leaf[j] # None => j \div 2 # k \div 2
    PROVE  LET proof == buildProofBits(t, k)
           IN  /\ verifySmtNonMembershipProof(Root(t), k, proof)
               /\ \A v \in Votes : ~_verifySmt(Root(t), k, v, proof)
<1>1. Canonical(t)
  BY SoundTreeIsCanonical
<1>2. t.leaf[Sibling(k)] = None
  <2>1. 0 \in 0..(Depth - 1) /\ Keys = Row(0)
    BY DepthAssumption DEF Keys, Row
  <2>2. Sibling(k) \in Keys /\ Sibling(k) \div 2 = k \div 2
    BY <2>1, RowFacts
  <2> QED BY <2>2
<1>3. PICK proof : proof = buildProofBits(t, k)
  OBVIOUS
<1>4. LeafNode(t.leaf, k) = DEFAULT_HASHES[0]
  BY DEF LeafNode
<1>5. verifySmtNonMembershipProof(Root(t), k, proof)
  BY <1>1, <1>2, <1>3, <1>4, SparseProofsAreComplete DEF verifySmtNonMembershipProof
<1>6. ASSUME NEW v, _verifySmt(Root(t), k, v, proof)
      PROVE  FALSE
  <2>1. verifyAgainstRoot(Root(t), k, leafHash(k, v), proof)
    BY <1>6 DEF _verifySmt, verifySmtMembershipProof
  <2>2. Root(t) = CanonicalRoot(t.leaf)
    BY <1>1, CanonicalRoots
  <2>3. leafHash(k, v) = LeafNode(t.leaf, k)
    BY <2>1, <2>2, SparseProofsAreSound
  <2> QED BY <1>4, <2>3, LeavesDiffer
<1> QED BY <1>3, <1>5, <1>6

\* sparseMerkleTree.ts: root() and the proofs served from the incrementally updated cache are
\* those of a tree rebuilt from the same leaves, and so is the root after a delete(); a proof
\* of a ballot is never also one of its absence, nor the other way about.
THEOREM TheSparseTreeIsCanonical == Spec => []SparseTreeIsCanonical
<1>1. CacheInv => SparseTreeIsCanonical
  <2> SUFFICES ASSUME CacheInv PROVE SparseTreeIsCanonical
    OBVIOUS
  <2>1. PICK t : t = tree
    OBVIOUS
  <2> SUFFICES ASSUME t # None, SiblingFree(Occupied(t))
               PROVE  SparseTreeIsCanonical
    BY <2>1 DEF SparseTreeIsCanonical, Occupied
  <2>2. SoundTree(t)
    BY <2>1 DEF CacheInv
  <2>3. Root(t) = CanonicalRoot(t.leaf)
    BY <2>2, SoundTreeIsCanonical, CanonicalRoots
  <2>4. ASSUME NEW k \in Keys
        PROVE  LET proof == buildProofBits(t, k) value == t.leaf[k]
               IN  IF value # None
                   THEN /\ _verifySmt(Root(t), k, value, proof)
                        /\ ~verifySmtNonMembershipProof(Root(t), k, proof)
                        /\ Root(delete(t, k)) = CanonicalRoot([t.leaf EXCEPT ![k] = None])
                   ELSE (\A j \in Keys : t.leaf[j] # None => j \div 2 # k \div 2) =>
                        /\ verifySmtNonMembershipProof(Root(t), k, proof)
                        /\ \A v \in Votes : ~_verifySmt(Root(t), k, v, proof)
    <3>1. CASE t.leaf[k] # None
      BY <2>2, <3>1, OccupiedProof
    <3>2. CASE t.leaf[k] = None
      BY <2>2, <3>2, VacantProof
    <3> QED BY <3>1, <3>2
  <2> QED BY <2>1, <2>3, <2>4 DEF SparseTreeIsCanonical
<1> QED BY <1>1, CacheInvariant, PTL

-----------------------------------------------------------------------------
(***************************************************************************)
(* The sparse roots on the chain, whatever the nullifiers: each is the root  *)
(* of a tree whose leaves are ballots it is said to cover.                   *)
(***************************************************************************)
RootOf(root, ballots) ==
    \E f : root = CanonicalRoot(f) /\ \A k \in Keys : f[k] \in ballots \cup {None}

Rooted(b) == RootOf(b.smtRoot, b.covers)

RootsInv ==
    /\ \A i \in DOMAIN smtBatches : Rooted(smtBatches[i])
    /\ \A r \in Runs : run[r].pc \in {"latest", "smtsend"} => Rooted(run[r].smt)

LEMMA TreeRoots ==
    ASSUME NEW t, SoundTree(t)
    PROVE  RootOf(Root(t), Covers(t))
<1>1. PICK f : Held(t, f)
  BY DEF SoundTree
<1>2. PICK u : u = [leaf |-> f, node |-> t.node]
  OBVIOUS
<1>3. Root(u) = CanonicalRoot(f)
  BY <1>1, <1>2, CanonicalRoots DEF Held
<1>4. Root(u) = Root(t)
  BY <1>2 DEF Root
<1>5. \A k \in Keys : f[k] \in Covers(t) \cup {None}
  BY <1>1 DEF Held, Covers
<1> QED BY <1>3, <1>4, <1>5 DEF RootOf

LEMMA SubmissionIsRooted ==
    ASSUME NEW t, SoundTree(t), NEW n
    PROVE  Rooted(Submission(t, n))
<1>1. PICK b : b = Submission(t, n)
  OBVIOUS
<1>2. b.smtRoot = Root(t) /\ b.covers = Covers(t)
  BY <1>1 DEF Submission
<1>3. Rooted(b)
  BY <1>2, TreeRoots DEF Rooted
<1> QED BY <1>1, <1>3

LEMMA RootsStay ==
    ASSUME RunsInv, RootsInv, smtBatches' = smtBatches, NEW r \in Runs, NEW CONSTANT y,
           run' = [run EXCEPT ![r] = y], y.pc \in {"latest", "smtsend"} => Rooted(y.smt)
    PROVE  RootsInv'
<1>1. run'[r] = y /\ \A s \in Runs : s # r => run'[s] = run[s]
  BY DEF RunsInv
<1>2. ASSUME NEW s \in Runs, run'[s].pc \in {"latest", "smtsend"}
      PROVE  Rooted(run'[s].smt)
  BY <1>1, <1>2 DEF RootsInv
<1> QED BY <1>2 DEF RootsInv

LEMMA RootsLatest ==
    ASSUME AnchoringInv, RootsInv, NEW r \in Runs, Latest(r)
    PROVE  RootsInv'
<1>1. smtBatches' = smtBatches /\ run[r].pc = "latest" /\ RunsInv
  BY DEF Latest, chainVars, AnchoringInv
<1>2. CASE Finish(r)
  <2>1. PICK y : y = Idle
    OBVIOUS
  <2>2. run' = [run EXCEPT ![r] = y] /\ y.pc = "idle"
    BY <1>2, <2>1 DEF Finish, Idle
  <2> QED BY <1>1, <2>2, RootsStay
<1>3. CASE ~Finish(r)
  <2>1. PICK previous, total :
           run' = [run EXCEPT ![r].pc = "smtsend", ![r].smt.previous = previous,
                              ![r].smt.total = total]
    BY <1>3 DEF Latest
  <2>2. PICK x : x = run[r]
    OBVIOUS
  <2>3. PICK b : b = [x.smt EXCEPT !.previous = previous, !.total = total]
    OBVIOUS
  <2>4. PICK y : y = [x EXCEPT !.pc = "smtsend", !.smt = b]
    OBVIOUS
  <2>5. GoodRun(x) /\ IsRun(x)
    BY <2>2 DEF AnchoringInv, RunsInv, GoodRun
  <2>6. run' = [run EXCEPT ![r] = y]
    BY <2>1, <2>2, <2>3, <2>4, <2>5 DEF IsRun
  <2>7. IsSubmission(x.smt)
    BY <1>1, <2>2, <2>5 DEF GoodRun
  <2>8. b.smtRoot = x.smt.smtRoot /\ b.covers = x.smt.covers
    BY <2>3, <2>7 DEF IsSubmission
  <2>9. y.smt = b
    BY <2>4, <2>5 DEF IsRun
  <2>10. Rooted(x.smt)
    BY <1>1, <2>2 DEF RootsInv
  <2>11. Rooted(y.smt)
    BY <2>8, <2>9, <2>10 DEF Rooted
  <2> QED BY <1>1, <2>6, <2>11, RootsStay
<1> QED BY <1>2, <1>3

LEMMA RootsSmtSend ==
    ASSUME AnchoringInv, RootsInv, NEW r \in Runs, SmtSend(r)
    PROVE  RootsInv'
<1>1. PICK x : x = run[r]
  OBVIOUS
<1>2. IsRun(x) /\ x.pc = "smtsend" /\ RunsInv
  BY <1>1 DEF AnchoringInv, RunsInv, GoodRun, SmtSend
<1>3. Rooted(x.smt)
  BY <1>1, <1>2 DEF RootsInv
<1>4. smtBatches' = Append(smtBatches, x.smt)
  BY <1>1 DEF SmtSend, anchorSmtRoot
<1>5. PICK n \in Nat : n = Len(smtBatches)
  BY DEF AnchoringInv, ChainInv, IsList
<1>6. /\ DOMAIN smtBatches = 1..n /\ DOMAIN smtBatches' = 1..(n + 1)
      /\ \A i \in 1..n : smtBatches'[i] = smtBatches[i]
      /\ smtBatches'[n + 1] = x.smt
  BY <1>4, <1>5, AppendToList DEF AnchoringInv, ChainInv
<1>7. ASSUME NEW i \in 1..(n + 1)
      PROVE  Rooted(smtBatches'[i])
  <2>1. i = n + 1 \/ i \in 1..n
    OBVIOUS
  <2> QED BY <1>3, <1>6, <2>1 DEF RootsInv
<1>8. PICK y : /\ y \in {Idle, [x EXCEPT !.pc = "smtrow", !.batch = n + 1, !.base = 0]}
               /\ run' = [run EXCEPT ![r] = y]
  BY <1>1, <1>5 DEF SmtSend, Finish
<1>9. y.pc \in {"idle", "smtrow"}
  <2>1. CASE y = Idle
    BY <2>1 DEF Idle
  <2>2. CASE y # Idle
    <3>1. y = [x EXCEPT !.pc = "smtrow", !.batch = n + 1, !.base = 0]
      BY <1>8, <2>2
    <3>2. DOMAIN x = {"pc", "kind", "ids", "batch", "snap", "smt", "new", "base"}
      BY <1>2 DEF IsRun
    <3>3. y.pc = "smtrow"
      BY <3>1, <3>2
    <3> QED BY <3>3
  <2> QED BY <2>1, <2>2
<1>10. run'[r] = y /\ \A s \in Runs : s # r => run'[s] = run[s]
  BY <1>2, <1>8 DEF RunsInv
<1>11. \A s \in Runs : run'[s].pc \in {"latest", "smtsend"} => Rooted(run'[s].smt)
  BY <1>9, <1>10 DEF RootsInv
<1> QED BY <1>6, <1>7, <1>11 DEF RootsInv

LEMMA RootsStep ==
    ASSUME AnchoringInv, CacheInv, RootsInv, [Next]_vars
    PROVE  RootsInv'
<1>1. RunsInv
  BY DEF AnchoringInv
<1>2. CASE Cast \/ TamperRoot \/ RestoreRoot \/ UNCHANGED vars
  <2>1. smtBatches' = smtBatches /\ run' = run
    BY <1>2 DEF Cast, TamperRoot, RestoreRoot, vars, chainVars
  <2> QED BY <2>1 DEF RootsInv
<1>3. CASE Restart
  <2>1. smtBatches' = smtBatches /\ \A r \in Runs : run'[r].pc = "idle"
    BY <1>3 DEF Restart, chainVars, Idle
  <2> QED BY <2>1 DEF RootsInv
<1>4. ASSUME NEW r \in Runs, Begins(r) \/ CallFails(r) \/ Step(r)
      PROVE  RootsInv'
  <2>1. CASE Elsewhere(r)
    <3>1. PICK y : run' = [run EXCEPT ![r] = y] /\ y.pc \notin {"latest", "smtsend"}
      BY <2>1, ElsewhereIsElsewhere
    <3>2. smtBatches' = smtBatches
      BY <2>1, ElsewhereIsElsewhere
    <3> QED BY <1>1, <3>1, <3>2, RootsStay
  <2>2. CASE UseTree(r) \/ Publish(r)
    <3>1. PICK t : SoundTree(t) /\ HaveTree(r, t)
      BY <2>2, TreesAreSound
    <3>2. PICK u : /\ tree' = u /\ SoundTree(u)
                   /\ \E y : /\ run' = [run EXCEPT ![r] = y]
                             /\ y.pc \in {"latest", "delete", "idle"}
                             /\ y.pc = "latest" => \E n : y.smt = Submission(u, n)
      BY <3>1, HaveTreeIsSound
    <3>3. PICK y : /\ run' = [run EXCEPT ![r] = y] /\ y.pc \in {"latest", "delete", "idle"}
                   /\ y.pc = "latest" => \E n : y.smt = Submission(u, n)
      BY <3>2
    <3>4. y.pc = "latest" => Rooted(y.smt)
      BY <3>2, <3>3, SubmissionIsRooted
    <3>5. smtBatches' = smtBatches
      BY <2>2 DEF UseTree, Publish, chainVars
    <3> QED BY <1>1, <3>3, <3>4, <3>5, RootsStay
  <2>3. CASE Latest(r) \/ SmtSend(r)
    BY <2>3, RootsLatest, RootsSmtSend
  <2> QED BY <1>4, <2>1, <2>2, <2>3, StepIs
<1> QED BY <1>2, <1>3, <1>4 DEF Next, AnchoringNext

\* anchorSmtBatch.ts and MerkleRootStorage.anchorSmtRoot: every sparse root the contract accepted,
\* and every one on its way there, is the root of a tree of ballots it is said to cover, whatever
\* the tree was when it was computed: extended, rebuilt, or rebuilt twice at once.
THEOREM SparseRootsAreRooted == Spec => []RootsInv
<1>1. Init => RootsInv
  <2> SUFFICES ASSUME Init PROVE RootsInv
    OBVIOUS
  <2>1. DOMAIN smtBatches = {} /\ \A r \in Runs : run[r].pc = "idle"
    BY DEF Init, InitChain, Idle
  <2> QED BY <2>1 DEF RootsInv
<1>2. AnchoringInv /\ CacheInv /\ RootsInv /\ [Next]_vars => RootsInv'
  BY RootsStep
<1> QED BY <1>1, <1>2, AnchoringInvariant, CacheInvariant, PTL DEF Spec

-----------------------------------------------------------------------------
\* A proof accepted under the root of a tree is of a ballot the tree holds.
LEMMA ProvenBallotsAreHeld ==
    ASSUME NEW root, NEW ballots, RootOf(root, ballots), NEW v \in Votes, NEW proof,
           _verifySmt(root, Key[v], v, proof)
    PROVE  v \in ballots
<1>1. PICK f : root = CanonicalRoot(f) /\ \A k \in Keys : f[k] \in ballots \cup {None}
  BY DEF RootOf
<1>2. PICK k \in Keys : k = Key[v]
  BY KeyAssumption
<1>3. verifyAgainstRoot(CanonicalRoot(f), k, leafHash(k, v), proof)
  BY <1>1, <1>2 DEF _verifySmt, verifySmtMembershipProof
<1>4. leafHash(k, v) = LeafNode(f, k)
  BY <1>3, SparseProofsAreSound
<1>5. f[k] # None /\ leafHash(k, v) = leafHash(k, f[k])
  BY <1>4, LeavesDiffer DEF LeafNode
<1>6. f[k] = v
  BY <1>5 DEF leafHash
<1> QED BY <1>1, <1>5, <1>6

ProvesOnlyItsBallots(b) ==
    \A v \in Votes : (\E proof : _verifySmt(b.smtRoot, Key[v], v, proof)) => v \in b.covers

\* MerkleRootStorage._verifySmt: under a sparse root on the chain no proof at all, made by this
\* service or by anyone, is accepted for a ballot the root does not cover.
THEOREM SparseRootsProveOnlyTheirBallots ==
    Spec => [](\A i \in DOMAIN smtBatches : ProvesOnlyItsBallots(smtBatches[i]))
<1>1. RootsInv => \A i \in DOMAIN smtBatches : ProvesOnlyItsBallots(smtBatches[i])
  BY ProvenBallotsAreHeld DEF RootsInv, Rooted, ProvesOnlyItsBallots
<1> QED BY <1>1, SparseRootsAreRooted, PTL

-----------------------------------------------------------------------------
\* The first n numbers are in order as they are.
LEMMA AscendingOfInterval ==
    ASSUME NEW n \in Nat
    PROVE  Ascending(1..n) = [i \in 1..n |-> i]
<1>1. (1..n) \in SUBSET Nat /\ IsFiniteSet(1..n) /\ Cardinality(1..n) = n
  BY FS_Interval
<1>2. PICK s : s = Ascending(1..n)
  OBVIOUS
<1>3. s \in Seq(1..n) /\ DOMAIN s = 1..n
  BY <1>1, <1>2, AscendingFacts
<1>4. ASSUME NEW i \in 1..n
      PROVE  s[i] = i
  <2>1. PICK m \in 1..n : m = s[i]
    BY <1>3
  <2>2. Cardinality({ k \in 1..n : k <= m }) = i
    BY <1>1, <1>2, <1>3, <2>1, RankInAscending
  <2>3. { k \in 1..n : k <= m } = 1..m
    OBVIOUS
  <2>4. Cardinality(1..m) = m
    BY FS_Interval
  <2> QED BY <2>1, <2>2, <2>3, <2>4
<1>5. s = [i \in 1..n |-> s[i]]
  BY <1>3
<1> QED BY <1>2, <1>4, <1>5

\* The ballots a bundle carries.
LEMMA BundleFacts ==
    ASSUME AnchoringInv, NEW row \in merkleBatches
    PROVE  /\ Bundle(row).batch = row.id /\ Bundle(row).root = row.root
           /\ Bundle(row).flipped = row.flipped
           /\ Bundle(row).ballots \in Seq(Votes)
           /\ ElementsOf(row.voteIds) \subseteq Stored => Bundle(row).ballots = row.voteIds
           /\ Bundle(row).proofs =
                  [i \in DOMAIN Bundle(row).ballots |-> Entry(Bundle(row).ballots[i])]
           /\ Bundle(row).smt = IF smtRows = {} THEN None ELSE NewestRow
<1>1. PICK ids : ids = row.voteIds /\ ids \in Seq(Votes)
  BY DEF AnchoringInv, ChainInv, DbInv
<1>2. PICK n \in Nat : n = Len(ids) /\ DOMAIN ids = 1..n /\ \A i \in 1..n : ids[i] \in Votes
  BY <1>1, LenProperties, ElementOfSeq
<1>3. PICK S : S = { i \in DOMAIN ids : ids[i] \in Stored }
  OBVIOUS
<1>4. S \in SUBSET Nat /\ IsFiniteSet(S) /\ S \subseteq 1..n
  <2>1. S \subseteq 1..n /\ IsFiniteSet(1..n)
    BY <1>2, <1>3, FS_Interval
  <2>2. IsFiniteSet(S)
    BY <2>1, FS_Subset, Zenon
  <2> QED BY <2>1, <2>2
<1>5. PICK kept : kept = Ascending(S)
  OBVIOUS
<1>6. PICK m \in Nat : DOMAIN kept = 1..m /\ \A i \in 1..m : kept[i] \in S
  <2>1. kept \in Seq(S)
    BY <1>4, <1>5, AscendingFacts
  <2> QED BY <2>1, LenProperties, ElementOfSeq
<1>7. PICK ballots : ballots = [i \in DOMAIN kept |-> ids[kept[i]]]
  OBVIOUS
<1>8. ballots \in Seq(Votes)
  <2>1. \A i \in 1..m : ids[kept[i]] \in Votes
    BY <1>2, <1>4, <1>6
  <2>2. ballots \in [1..m -> Votes]
    BY <1>6, <1>7, <2>1
  <2> QED BY <2>2
<1>9. ASSUME ElementsOf(ids) \subseteq Stored
      PROVE  ballots = ids
  <2>1. S = 1..n
    BY <1>2, <1>3, <1>9 DEF ElementsOf
  <2>2. kept = [i \in 1..n |-> i]
    BY <1>5, <2>1, AscendingOfInterval
  <2>3. ballots = [i \in 1..n |-> ids[i]]
    BY <1>7, <2>2
  <2>4. ids = [i \in 1..n |-> ids[i]]
    BY <1>1, <1>2
  <2> QED BY <2>3, <2>4
<1>10. Bundle(row) = [batch |-> row.id, root |-> row.root, flipped |-> row.flipped,
                      ballots |-> ballots,
                      proofs |-> [i \in DOMAIN ballots |-> Entry(ballots[i])],
                      smt |-> IF smtRows = {} THEN None ELSE NewestRow,
                      observed |-> cast]
  BY <1>1, <1>3, <1>5, <1>7, Zenon DEF Bundle
<1> QED BY <1>1, <1>8, <1>9, <1>10

\* What the chain has for the batch a row records.
LEMMA RecordedBatch ==
    ASSUME AnchoringInv, NEW row \in merkleBatches
    PROVE  /\ row.id \in DOMAIN batches /\ row.voteIds = batches[row.id].of
           /\ row.root = batches[row.id].root /\ row.root = buildMerkleTree(Leaves(row.voteIds))
           /\ row.voteIds \in Seq(Votes) /\ row.voteIds # <<>>
BY DEF AnchoringInv, ChainInv, DbInv

LEMMA ListedBallots ==
    ASSUME NEW ids \in Seq(Votes), ids # <<>>
    PROVE  /\ IsLeaves(Leaves(ids))
           /\ LeafSet(Leaves(ids)) = { hashVoteLeaf(v) : v \in ElementsOf(ids) }
<1>1. PICK n \in Nat : n = Len(ids) /\ DOMAIN ids = 1..n /\ n # 0
  BY EmptySeq
<1>2. ids[1] \in ElementsOf(ids)
  BY <1>1 DEF ElementsOf
<1>3. IsLeaves(Leaves(ids))
  BY <1>2, BatchLeaves
<1>4. Leaves(ids) = [i \in 1..n |-> hashVoteLeaf(ids[i])]
  BY <1>1 DEF Leaves
<1> QED BY <1>1, <1>3, <1>4 DEF ElementsOf, LeafSet

\* Two lists of ballots with one root list the same ballots.
LEMMA OneRootOneList ==
    ASSUME NEW a \in Seq(Votes), a # <<>>, NEW b \in Seq(Votes), b # <<>>,
           buildMerkleTree(Leaves(a)) = buildMerkleTree(Leaves(b))
    PROVE  ElementsOf(a) = ElementsOf(b)
<1>1. PICK la, lb : la = Leaves(a) /\ lb = Leaves(b)
  OBVIOUS
<1>2. /\ IsLeaves(la) /\ LeafSet(la) = { hashVoteLeaf(v) : v \in ElementsOf(a) }
      /\ IsLeaves(lb) /\ LeafSet(lb) = { hashVoteLeaf(v) : v \in ElementsOf(b) }
  BY <1>1, ListedBallots
<1>3. LeafSet(la) = LeafSet(lb)
  BY <1>1, <1>2, DenseRootNamesItsLeaves
<1>4. PICK A, B : A = ElementsOf(a) /\ B = ElementsOf(b)
  OBVIOUS
<1>5. { hashVoteLeaf(v) : v \in A } = { hashVoteLeaf(v) : v \in B }
  BY <1>2, <1>3, <1>4
<1>6. ASSUME NEW v, NEW w, hashVoteLeaf(v) = hashVoteLeaf(w)
      PROVE  v = w
  <2>1. {v} = {w}
    BY <1>6 DEF hashVoteLeaf
  <2> QED BY <2>1
<1>7. \A v \in A : v \in B
  <2> SUFFICES ASSUME NEW v \in A PROVE v \in B
    OBVIOUS
  <2>1. hashVoteLeaf(v) \in { hashVoteLeaf(w) : w \in A }
    BY Zenon
  <2>2. hashVoteLeaf(v) \in { hashVoteLeaf(w) : w \in B }
    BY <1>5, <2>1, Zenon
  <2>3. PICK w \in B : hashVoteLeaf(v) = hashVoteLeaf(w)
    BY <2>2, Zenon
  <2> QED BY <1>6, <2>3
<1>8. \A v \in B : v \in A
  <2> SUFFICES ASSUME NEW v \in B PROVE v \in A
    OBVIOUS
  <2>1. hashVoteLeaf(v) \in { hashVoteLeaf(w) : w \in B }
    BY Zenon
  <2>2. hashVoteLeaf(v) \in { hashVoteLeaf(w) : w \in A }
    BY <1>5, <2>1, Zenon
  <2>3. PICK w \in A : hashVoteLeaf(v) = hashVoteLeaf(w)
    BY <2>2, Zenon
  <2> QED BY <1>6, <2>3
<1> QED BY <1>4, <1>7, <1>8

LEMMA TheDenseStepsAreSound ==
    ASSUME AnchoringInv, NEW row \in merkleBatches
    PROVE  DenseStepsAreSound(row)
<1>1. PICK b : b = Bundle(row)
  OBVIOUS
<1>2. /\ b.batch = row.id /\ b.root = row.root /\ b.flipped = row.flipped
      /\ b.ballots \in Seq(Votes)
      /\ ElementsOf(row.voteIds) \subseteq Stored => b.ballots = row.voteIds
  BY <1>1, BundleFacts
<1>3. ASSUME ElementsOf(row.voteIds) \subseteq Stored, ~row.flipped
      PROVE  BatchIsOnChain(b) /\ RootIsRebuilt(b)
  BY <1>2, <1>3, RecordedBatch DEF BatchIsOnChain, RootIsRebuilt
<1>4. ASSUME BatchIsOnChain(b), RootIsRebuilt(b)
      PROVE  ElementsOf(b.ballots) = ElementsOf(batches[row.id].of)
  <2>1. b.ballots # <<>> /\ buildMerkleTree(Leaves(b.ballots)) = row.root
    BY <1>2, <1>4 DEF RootIsRebuilt
  <2> QED BY <1>2, <2>1, RecordedBatch, OneRootOneList
<1> QED BY <1>1, <1>3, <1>4 DEF DenseStepsAreSound

LEMMA ThePassedMembersAreCovered ==
    ASSUME AnchoringInv, RootsInv, NEW row \in merkleBatches
    PROVE  MembersAreCovered(row)
<1>1. PICK b : b = Bundle(row)
  OBVIOUS
<1>2. b.ballots \in Seq(Votes) /\ b.proofs = [i \in DOMAIN b.ballots |-> Entry(b.ballots[i])]
  BY <1>1, BundleFacts
<1>3. SUFFICES ASSUME SmtBatchIsOnChain(b), AreMembers(b), NEW i \in DOMAIN b.ballots
               PROVE  b.ballots[i] \in smtBatches[b.smt.id].covers
  BY <1>1 DEF MembersAreCovered, ElementsOf
<1>4. PICK v \in Votes : v = b.ballots[i]
  BY <1>2
<1>5. PICK entry : entry = b.proofs[i]
  OBVIOUS
<1>6. i \in DOMAIN b.proofs /\ entry = Entry(v)
  BY <1>2, <1>4, <1>5
<1>7. entry.key = Key[v]
  BY <1>6 DEF Entry
<1>8. entry.value = v /\ _verifySmt(b.smt.batch.smtRoot, entry.key, entry.value, entry.proof)
  BY <1>3, <1>4, <1>5, <1>6 DEF AreMembers
<1>9. RootOf(b.smt.batch.smtRoot, smtBatches[b.smt.id].covers)
  BY <1>3 DEF SmtBatchIsOnChain, RootsInv, Rooted
<1> QED BY <1>4, <1>7, <1>8, <1>9, ProvenBallotsAreHeld

LEMMA NewestRowExists ==
    ASSUME AnchoringInv, smtRows # {}
    PROVE  NewestRow \in smtRows
<1>1. PICK n \in Nat : DOMAIN smtBatches = 1..n
  BY DEF AnchoringInv, ChainInv, IsList
<1>2. \A s \in smtRows : s.id \in 1..n
  BY <1>1 DEF AnchoringInv, DbInv
<1> DEFINE Ages == { n - s.id : s \in smtRows }
<1>3. Ages \in SUBSET Nat /\ Ages # {}
  BY <1>2
<1>4. PICK m \in Ages : \A o \in Ages : m <= o
  BY <1>3, LeastElement
<1>5. PICK s \in smtRows : m = n - s.id
  BY <1>4
<1>6. \A o \in smtRows : o.id <= s.id
  <2> SUFFICES ASSUME NEW o \in smtRows PROVE o.id <= s.id
    OBVIOUS
  <2>1. m <= n - o.id
    BY <1>4
  <2> QED BY <1>2, <1>5, <2>1
<1> QED BY <1>6 DEF NewestRow

LEMMA ServedTreeIsSound ==
    ASSUME AnchoringInv, CacheInv
    PROVE  SoundTree(ServedTree)
<1>1. Confirmed \subseteq Votes
  BY QueriedRows DEF AnchoringInv
<1> QED BY <1>1, RebuiltTreeIsSound DEF ServedTree, CacheInv

\* A ballot with none beside it is proved by the proof read from the cache.
LEMMA LoneBallotIsProved ==
    ASSUME NEW t, SoundTree(t), NEW v \in Covers(t), t.leaf[Sibling(Key[v])] = None
    PROVE  /\ v \in Votes /\ t.leaf[Key[v]] = v
           /\ _verifySmt(Root(t), Key[v], v, buildProofBits(t, Key[v]))
<1>1. PICK k \in Keys : t.leaf[k] = v /\ v # None
  BY DEF Covers
<1>2. v \in Votes /\ Key[v] = k
  BY <1>1 DEF SoundTree, OwnTree
<1>3. PICK f : Held(t, f)
  BY DEF SoundTree
<1>4. PICK u : u = [leaf |-> f, node |-> t.node]
  OBVIOUS
<1>5. Canonical(u) /\ u.leaf = f /\ u.node = t.node
  BY <1>3, <1>4 DEF Held
<1>6. Sibling(k) \in Keys /\ Sibling(Sibling(k)) = k
  BY SiblingFacts
<1>7. f[k] = v /\ f[Sibling(k)] = None
  BY <1>1, <1>2, <1>3, <1>6 DEF Held
<1>8. LeafNode(f, k) = leafHash(k, v)
  BY <1>1, <1>7 DEF LeafNode
<1>9. PICK proof : proof = buildProofBits(u, k)
  OBVIOUS
<1>10. verifyAgainstRoot(Root(u), k, leafHash(k, v), proof)
  BY <1>5, <1>7, <1>8, <1>9, SparseProofsAreComplete
<1>11. Root(u) = Root(t) /\ siblings(u, k) = siblings(t, k)
  BY <1>5 DEF Root, siblings, getNode
<1>12. proof = buildProofBits(t, k)
  BY <1>9, <1>11 DEF buildProofBits
<1> QED BY <1>1, <1>2, <1>10, <1>11, <1>12 DEF _verifySmt, verifySmtMembershipProof

LEMMA TheCoveredArePassed ==
    ASSUME AnchoringInv, CacheInv, NEW row \in merkleBatches
    PROVE  CoveredArePassed(row)
<1>1. PICK b : b = Bundle(row)
  OBVIOUS
<1>2. /\ b.ballots \in Seq(Votes) /\ b.proofs = [i \in DOMAIN b.ballots |-> Entry(b.ballots[i])]
      /\ b.smt = IF smtRows = {} THEN None ELSE NewestRow
  BY <1>1, BundleFacts
<1>3. PICK t : t = ServedTree
  OBVIOUS
<1>4. SUFFICES ASSUME b.smt # None, ElementsOf(b.ballots) # {},
                      ElementsOf(b.ballots) \subseteq Covers(t), Root(t) = b.smt.batch.smtRoot,
                      \A v \in ElementsOf(b.ballots) : t.leaf[Sibling(Key[v])] = None
               PROVE  SmtBatchIsOnChain(b) /\ AreMembers(b)
  BY <1>1, <1>3 DEF CoveredArePassed
<1>5. SmtBatchIsOnChain(b)
  <2>1. b.smt \in smtRows
    BY <1>2, <1>4, NewestRowExists
  <2> QED BY <1>4, <2>1 DEF SmtBatchIsOnChain, AnchoringInv, DbInv
<1>6. SoundTree(t)
  BY <1>3, ServedTreeIsSound
<1>7. ASSUME NEW i \in DOMAIN b.proofs
      PROVE  /\ b.proofs[i].value = b.ballots[i]
             /\ _verifySmt(b.smt.batch.smtRoot, b.proofs[i].key, b.proofs[i].value,
                           b.proofs[i].proof)
  <2>1. PICK v : v = b.ballots[i]
    OBVIOUS
  <2>2. i \in DOMAIN b.ballots /\ b.proofs[i] = Entry(v)
    BY <1>2, <2>1
  <2>3. v \in Covers(t) /\ t.leaf[Sibling(Key[v])] = None
    BY <1>4, <2>1, <2>2 DEF ElementsOf
  <2>4. PICK entry : entry = Entry(v)
    OBVIOUS
  <2>5. /\ entry.key = Key[v] /\ entry.value = t.leaf[Key[v]]
        /\ entry.proof = buildProofBits(t, Key[v])
    BY <1>3, <2>4 DEF Entry
  <2>6. t.leaf[Key[v]] = v /\ _verifySmt(Root(t), Key[v], v, buildProofBits(t, Key[v]))
    BY <1>6, <2>3, LoneBallotIsProved
  <2> QED BY <1>4, <2>1, <2>2, <2>4, <2>5, <2>6
<1>8. b.proofs # <<>>
  <2>1. DOMAIN b.ballots # {}
    BY <1>4 DEF ElementsOf
  <2>2. PICK i : i \in DOMAIN b.proofs
    BY <1>2, <2>1
  <2>3. DOMAIN <<>> = {}
    OBVIOUS
  <2> QED BY <2>2, <2>3
<1> QED BY <1>4, <1>5, <1>7, <1>8 DEF AreMembers

\* independent-verify-tally.ts, steps 1 to 3 over the bundle of
\* GET /keyshares/verification-bundle, in any state the service can be in: it accepts an
\* untouched batch, what it accepts is the chain's batch and covered by the chain's sparse root,
\* and it accepts a covered batch as long as the served tree is that root's.
THEOREM TheBundlesAreSound == Spec => []BundlesAreSound
<1>1. AnchoringInv /\ CacheInv /\ RootsInv => BundlesAreSound
  BY TheDenseStepsAreSound, ThePassedMembersAreCovered, TheCoveredArePassed DEF BundlesAreSound
<1> QED BY <1>1, AnchoringInvariant, CacheInvariant, SparseRootsAreRooted, PTL
=============================================================================
