------------------------------ MODULE Anchoring ------------------------------
(***************************************************************************)
(* Anchoring of one election's ballots: runAnchorBatch (services/           *)
(* anchorBatch.ts), the sparse tree beside it (services/anchorSmtBatch.ts), *)
(* the sweep and the routes that start them (routes/anchor.ts), against the *)
(* contract MerkleRootStorage. A run is one execution of one of them; runs  *)
(* overlap, and each database call, chain transaction or rebuild is a step. *)
(*                                                                         *)
(*   sweep    maybeAutoAnchorElection, started by a timer                   *)
(*   manual   POST /anchor/batch                                            *)
(*   delete   POST /anchor/tamper/delete-vote                               *)
(*   proof    GET /anchor/verify-smt, and the tally's coverage check        *)
(***************************************************************************)
EXTENDS MerkleRootStorage

CONSTANTS
    MaxVotes,       \* ballots that may be cast, numbered in created_at order
    Key,            \* their nullifiers, as keys of the sparse tree
    Runs,           \* slots for concurrent runs
    Kinds,          \* the kinds of run each slot is used for
    Threshold,      \* AUTO_ANCHOR_THRESHOLD
    MaxFaults,      \* failed calls, restarts and edits of a stored root in a behaviour
    MaxRequests     \* manual batches, deletions and proof requests in a behaviour

Votes == 1..MaxVotes

ASSUME KeyAssumption ==
    /\ MaxVotes \in Nat /\ Key \in [Votes -> Keys]
    /\ \A v, w \in Votes : Key[v] = Key[w] => v = w
ASSUME NoneAssumption == None \notin Nat
ASSUME KindAssumption ==
    Kinds \in [Runs -> SUBSET {"sweep", "manual", "delete", "proof"}]
ASSUME BoundAssumption == Threshold \in Nat /\ MaxFaults \in Nat /\ MaxRequests \in Nat

VARIABLES
    cast,           \* how many ballots were cast, deleted ones included
    gone,           \* ballots removed by fn_admin_delete_vote
    txHash,         \* votes.tx_hash: the dense batch, by its number, or None
    merkleBatches,  \* rows of merkle_batches: [id, root, voteIds, flipped]
    smtRows,        \* rows of smt_batches: [id, batch]
    tree,           \* this process's cumulative tree, or None
    inFlight,       \* this process's autoAnchorInFlight mark for the election
    run,            \* per run, where it is and what it has read
    unstamped,      \* history: ballots whose stamp was written and lost
    overlapped,     \* history: two rebuilds of the tree were under way at once
    faults,         \* failures so far
    requests        \* requests so far

dbVars == <<cast, gone, txHash, merkleBatches, smtRows>>
procVars == <<tree, inFlight>>
history == <<unstamped, overlapped>>
bounds == <<history, faults, requests>>
vars == <<chainVars, dbVars, procVars, run, bounds>>

ElementsOf(s) == { s[i] : i \in DOMAIN s }

Stored == (1..cast) \ gone
Unanchored == Ascending({ v \in Stored : txHash[v] = None })
Confirmed == { v \in Stored : txHash[v] # None }

Idle == [pc |-> "idle", kind |-> None, ids |-> <<>>, batch |-> 0, snap |-> {},
         smt |-> None, new |-> 0, base |-> 0]

Init ==
    /\ InitChain
    /\ cast = 0 /\ gone = {}
    /\ txHash = [v \in Votes |-> None]
    /\ merkleBatches = {} /\ smtRows = {}
    /\ tree = None /\ inFlight = FALSE
    /\ run = [r \in Runs |-> Idle]
    /\ unstamped = {} /\ overlapped = FALSE /\ faults = 0 /\ requests = 0

(***************************************************************************)
(* Ballots arrive (POST /vote; CastVote models it).                         *)
(***************************************************************************)
Cast ==
    /\ cast < MaxVotes
    /\ cast' = cast + 1
    /\ UNCHANGED <<chainVars, gone, txHash, merkleBatches, smtRows, procVars, run, bounds>>

(***************************************************************************)
(* Starting a run, and the end of one. A sweep's 'finally' clears the mark   *)
(* whoever set it; a sweep that finds the mark set returns before the try.  *)
(***************************************************************************)
Move(r, pc) == run' = [run EXCEPT ![r].pc = pc]

\* A sweep that does not clear its mark.
FinishMarked(r) ==
    /\ run' = [run EXCEPT ![r] = Idle]
    /\ UNCHANGED inFlight

Finish(r) ==
    /\ run' = [run EXCEPT ![r] = Idle]
    /\ inFlight' = (inFlight /\ run[r].kind # "sweep")

Fault == faults < MaxFaults /\ faults' = faults + 1

Request == requests < MaxRequests /\ requests' = requests + 1

Begin(r, kind, pc, ids) ==
    /\ run[r].pc = "idle" /\ kind \in Kinds[r]
    /\ run' = [run EXCEPT ![r] = [Idle EXCEPT !.pc = pc, !.kind = kind, !.ids = ids]]

\* maybeAutoAnchor picks the election because some ballot of it is unanchored.
StartSweep(r) ==
    /\ Unanchored # <<>> /\ ~inFlight
    /\ Begin(r, "sweep", "count", <<>>)
    /\ UNCHANGED <<chainVars, dbVars, procVars, bounds>>

StartManual(r) ==
    /\ Begin(r, "manual", "read", <<>>)
    /\ Request
    /\ UNCHANGED <<chainVars, dbVars, procVars, history, faults>>

\* A deletion that does not ask whether the ballot was anchored.
StartDeleteUnchecked(r) ==
    /\ \E v \in Stored : Begin(r, "delete", "tree", <<v>>)
    /\ Request
    /\ UNCHANGED <<chainVars, dbVars, procVars, history, faults>>

\* The ballot must be stored and anchored; its proof is taken before it is deleted.
StartDelete(r) ==
    /\ \E v \in Confirmed : Begin(r, "delete", "tree", <<v>>)
    /\ Request
    /\ UNCHANGED <<chainVars, dbVars, procVars, history, faults>>

\* Asking for a proof changes something only while there is no tree.
StartProof(r) ==
    /\ Stored # {} /\ tree = None
    /\ Begin(r, "proof", "tree", <<>>)
    /\ Request
    /\ UNCHANGED <<chainVars, dbVars, procVars, history, faults>>

(***************************************************************************)
(* The sweep's tests: enough unanchored ballots, or one that is old enough.  *)
(* The mark is set only once a test has passed.                             *)
(***************************************************************************)
Mark(r) == inFlight' = TRUE /\ Move(r, "read")

Count(r) ==
    /\ run[r].pc = "count"
    /\ \/ Unanchored = <<>> /\ Finish(r)
       \/ Len(Unanchored) >= Threshold /\ Mark(r)
       \/ Len(Unanchored) \in 1..(Threshold - 1) /\ Move(r, "age") /\ UNCHANGED inFlight
    /\ UNCHANGED <<chainVars, dbVars, tree, bounds>>

\* The clock is not modelled: an unanchored ballot may or may not have aged.
OldEnough(r) ==
    /\ run[r].pc = "age" /\ Unanchored # <<>>
    /\ Mark(r)
    /\ UNCHANGED <<chainVars, dbVars, tree, bounds>>

TooYoung(r) ==
    /\ run[r].pc = "age"
    /\ Finish(r)
    /\ UNCHANGED <<chainVars, dbVars, tree, bounds>>

(***************************************************************************)
(* runAnchorBatch: read, anchor, record the batch, stamp the ballots. The    *)
(* two writes that follow the transaction only log their failure.           *)
(***************************************************************************)
\* The ballots are stamped before their batch is on the chain.
ReadAndStamp(r) ==
    /\ run[r].pc = "read"
    /\ \/ Unanchored = <<>> /\ Finish(r) /\ UNCHANGED txHash
       \/ /\ Unanchored # <<>>
          /\ run' = [run EXCEPT ![r].pc = "send", ![r].ids = Unanchored]
          /\ txHash' = [v \in Votes |-> IF v \in ElementsOf(Unanchored) THEN Len(batches) + 1
                                        ELSE txHash[v]]
          /\ UNCHANGED inFlight
    /\ UNCHANGED <<chainVars, cast, gone, merkleBatches, smtRows, tree, bounds>>

Read(r) ==
    /\ run[r].pc = "read"
    /\ \/ Unanchored = <<>> /\ Finish(r)
       \/ /\ Unanchored # <<>>
          /\ run' = [run EXCEPT ![r].pc = "send", ![r].ids = Unanchored]
          /\ UNCHANGED inFlight
    /\ UNCHANGED <<chainVars, dbVars, tree, bounds>>

Leaves(ids) == [i \in DOMAIN ids |-> hashVoteLeaf(ids[i])]

Send(r) ==
    /\ run[r].pc = "send"
    /\ anchorRoot(buildMerkleTree(Leaves(run[r].ids)), run[r].ids)
    /\ \/ /\ run' = [run EXCEPT ![r].pc = "batchrow", ![r].batch = Len(batches) + 1]
          /\ UNCHANGED <<inFlight, faults>>
       \/ Fault /\ Finish(r)           \* landed, but the receipt was never seen
    /\ UNCHANGED <<dbVars, tree, history, requests>>

BatchRow(r) ==
    /\ run[r].pc = "batchrow"
    /\ Move(r, "voterows")
    /\ \/ /\ merkleBatches' = merkleBatches \cup
                {[id |-> run[r].batch, root |-> buildMerkleTree(Leaves(run[r].ids)),
                  voteIds |-> run[r].ids, flipped |-> FALSE]}
          /\ UNCHANGED faults
       \/ Fault /\ UNCHANGED merkleBatches
    /\ UNCHANGED <<chainVars, cast, gone, txHash, smtRows, procVars, history, requests>>

Stamped(r) ==
    [v \in Votes |-> IF v \in ElementsOf(run[r].ids) \cap Stored THEN run[r].batch ELSE txHash[v]]

VoteRows(r) ==
    /\ run[r].pc = "voterows"
    /\ run' = [run EXCEPT ![r].pc = "tree", ![r].batch = 0]
    /\ \/ txHash' = Stamped(r) /\ UNCHANGED bounds
       \/ Fault /\ UNCHANGED txHash /\ unstamped' = unstamped \cup ElementsOf(run[r].ids)
          /\ UNCHANGED <<overlapped, requests>>
    /\ UNCHANGED <<chainVars, cast, gone, merkleBatches, smtRows, procVars>>

(***************************************************************************)
(* getCumulativeTree: the cached tree, or a rebuild: the miss, the read of   *)
(* the rows and the publication are three steps. What follows it runs        *)
(* without another await.                                                   *)
(***************************************************************************)
\* The tree after each insertion of the loop.
insertVotes(t, ids) ==
    LET after[i \in 0..Len(ids)] ==
            IF i = 0 THEN t ELSE insert(after[i - 1], Key[ids[i]], ids[i])
    IN  after[Len(ids)]

\* An insertion that trusts the cached tree to hold the batch already.
ExtendedWhenEmpty(t, ids) == IF t = EmptyTree THEN insertVotes(t, ids) ELSE t

\* A batch put into a tree of its own.
ExtendedAfresh(t, ids) == insertVotes(EmptyTree, ids)

Extended(t, ids) == insertVotes(t, ids)

FromRows(snap) == Extended(EmptyTree, Ascending(snap))

Submission(t, new) ==
    [smtRoot |-> Root(t), previous |-> None, new |-> new, total |-> 0, covers |-> Covers(t)]

\* The run has got the tree t.
HaveTree(r, t) ==
    \/ /\ run[r].kind \in {"sweep", "manual"}
       /\ tree' = Extended(t, run[r].ids)
       /\ run' = [run EXCEPT ![r].pc = "latest", ![r].snap = {}, ![r].ids = <<>>,
                             ![r].smt = Submission(tree', Len(run[r].ids)),
                             ![r].base = Len(smtBatches)]
       /\ UNCHANGED inFlight
    \/ /\ run[r].kind = "reanchor"
       /\ tree' = t
       /\ run' = [run EXCEPT ![r].pc = "latest", ![r].snap = {},
                             ![r].smt = Submission(t, 0), ![r].base = Len(smtBatches)]
       /\ UNCHANGED inFlight
    \/ /\ run[r].kind = "delete"
       /\ tree' = t
       /\ run' = [run EXCEPT ![r].pc = "delete", ![r].snap = {}]
       /\ UNCHANGED inFlight
    \/ /\ run[r].kind = "proof"
       /\ tree' = t
       /\ Finish(r)

UseTree(r) ==
    /\ run[r].pc = "tree" /\ tree # None
    /\ HaveTree(r, tree)
    /\ UNCHANGED <<chainVars, dbVars, bounds>>

Rebuilding(r) == run[r].pc \in {"miss", "rebuild"}

RebuildBegins ==
    /\ overlapped' = (overlapped \/ \E s \in Runs : Rebuilding(s))
    /\ UNCHANGED <<unstamped, faults, requests>>

MissTree(r) ==
    /\ run[r].pc = "tree" /\ tree = None
    /\ Move(r, "miss")
    /\ RebuildBegins
    /\ UNCHANGED <<chainVars, dbVars, procVars>>

ReadRows(r) ==
    /\ run[r].pc = "miss"
    /\ run' = [run EXCEPT ![r].pc = "rebuild", ![r].snap = Confirmed]
    /\ UNCHANGED <<chainVars, dbVars, procVars, bounds>>

Publish(r) ==
    /\ run[r].pc = "rebuild"
    /\ HaveTree(r, FromRows(run[r].snap))
    /\ UNCHANGED <<chainVars, dbVars, bounds>>

(***************************************************************************)
(* The deletion: the row goes, then the cached tree, then a rebuild.        *)
(***************************************************************************)
DeleteRow(r) ==
    /\ run[r].pc = "delete"
    /\ gone' = gone \cup ElementsOf(run[r].ids)
    /\ \/ /\ run' = [run EXCEPT ![r].pc = "drop", ![r].ids = <<>>]
          /\ UNCHANGED <<inFlight, faults>>
       \/ Fault /\ Finish(r)           \* committed, but the answer was lost
    /\ UNCHANGED <<chainVars, cast, txHash, merkleBatches, smtRows, tree, history, requests>>

DropTree(r) ==
    /\ run[r].pc = "drop"
    /\ tree' = None
    /\ run' = [run EXCEPT ![r].pc = "miss", ![r].kind = "reanchor"]
    /\ RebuildBegins
    /\ UNCHANGED <<chainVars, dbVars, inFlight>>

(***************************************************************************)
(* submitSmtBatch: continue the chain of sparse roots from the newest row of *)
(* smt_batches. The contract refuses what does not continue its own last.   *)
(***************************************************************************)
NewestRow == CHOOSE s \in smtRows : \A o \in smtRows : o.id <= s.id

Latest(r) ==
    LET previous == IF smtRows = {} THEN GENESIS_ROOT ELSE NewestRow.batch.smtRoot
        total == IF smtRows = {} THEN 0 ELSE NewestRow.batch.total
    IN  /\ run[r].pc = "latest"
        /\ \/ run[r].smt.smtRoot = previous /\ Finish(r)
           \/ /\ run[r].smt.smtRoot # previous
              /\ run' = [run EXCEPT ![r].pc = "smtsend", ![r].smt.previous = previous,
                                    ![r].smt.total = total + run[r].smt.new]
              /\ UNCHANGED inFlight
        /\ UNCHANGED <<chainVars, dbVars, tree, bounds>>

SmtSend(r) ==
    /\ run[r].pc = "smtsend"
    /\ anchorSmtRoot(run[r].smt)
    /\ \/ /\ run' = [run EXCEPT ![r].pc = "smtrow", ![r].batch = Len(smtBatches) + 1, ![r].base = 0]
          /\ UNCHANGED <<inFlight, faults>>
       \/ Fault /\ Finish(r)
    /\ UNCHANGED <<dbVars, tree, history, requests>>

SmtRefused(r) ==
    /\ run[r].pc = "smtsend" /\ ~Continues(run[r].smt)
    /\ Finish(r)
    /\ UNCHANGED <<chainVars, dbVars, tree, bounds>>

SmtRow(r) ==
    /\ run[r].pc = "smtrow"
    /\ Finish(r)
    /\ \/ /\ smtRows' = smtRows \cup {[id |-> run[r].batch, batch |-> run[r].smt]}
          /\ UNCHANGED faults
       \/ Fault /\ UNCHANGED smtRows
    /\ UNCHANGED <<chainVars, cast, gone, txHash, merkleBatches, tree, history, requests>>

(***************************************************************************)
(* Failures. A read or a transaction that fails ends the run with nothing    *)
(* written; a restart ends them all and empties the process's memory.       *)
(***************************************************************************)
\* A transaction that fails unnoticed.
CallFailsUnseen(r) ==
    /\ run[r].pc = "send"
    /\ Fault
    /\ run' = [run EXCEPT ![r].pc = "batchrow", ![r].batch = Len(batches) + 1]
    /\ UNCHANGED <<chainVars, dbVars, procVars, history, requests>>

CallFails(r) ==
    /\ run[r].pc \in {"count", "age", "read", "send", "miss", "rebuild", "delete", "latest",
                   "smtsend"}
    /\ Fault
    /\ Finish(r)
    /\ UNCHANGED <<chainVars, dbVars, tree, history, requests>>

Restart ==
    /\ Fault
    /\ run' = [r \in Runs |-> Idle]
    /\ tree' = None /\ inFlight' = FALSE
    /\ UNCHANGED <<chainVars, dbVars, history, requests>>

(***************************************************************************)
(* The demonstration edits of a stored root. Flipping the last digit of a    *)
(* flipped root may or may not give the original back: that depends on the   *)
(* digit. Restoring recomputes it, unless a ballot of the batch is gone.    *)
(***************************************************************************)
Write(row, new) == merkleBatches' = (merkleBatches \ {row}) \cup {new}

TamperRoot ==
    /\ \E row \in merkleBatches, flipped \in BOOLEAN :
          /\ ~row.flipped => flipped
          /\ Write(row, [row EXCEPT !.flipped = flipped])
    /\ Fault
    /\ UNCHANGED <<chainVars, cast, gone, txHash, smtRows, procVars, run, history, requests>>

RestoreRoot ==
    /\ \E row \in merkleBatches :
          /\ ElementsOf(row.voteIds) \subseteq Stored
          /\ Write(row, [row EXCEPT !.root = buildMerkleTree(Leaves(row.voteIds)), !.flipped = FALSE])
    /\ UNCHANGED <<chainVars, cast, gone, txHash, smtRows, procVars, run, bounds>>

SweepStep(r) == Count(r) \/ OldEnough(r) \/ TooYoung(r)

Step(r) ==
    \/ SweepStep(r) \/ Read(r) \/ Send(r) \/ BatchRow(r) \/ VoteRows(r)
    \/ UseTree(r) \/ MissTree(r) \/ ReadRows(r) \/ Publish(r) \/ DeleteRow(r) \/ DropTree(r)
    \/ Latest(r) \/ SmtSend(r) \/ SmtRefused(r) \/ SmtRow(r)

Begins(r) == StartSweep(r) \/ StartManual(r) \/ StartDelete(r) \/ StartProof(r)

AnchoringNext ==
    \/ \E r \in Runs : Begins(r) \/ Step(r) \/ CallFails(r)
    \/ Restart \/ TamperRoot \/ RestoreRoot

Next == AnchoringNext \/ Cast

\* A run under way goes on, the timer starts sweeps for ever, and a ballot left alone
\* grows old: once it is, every later sweep finds it so.
Fairness ==
    \A r \in Runs :
        /\ WF_vars(Step(r))
        /\ WF_vars(StartSweep(r))
        /\ SF_vars(OldEnough(r))

Spec == Init /\ [][Next]_vars

FairSpec == Spec /\ Fairness

(***************************************************************************)
(* The abstract log this implements.                                        *)
(***************************************************************************)
Abstract == INSTANCE AnchorLog WITH
    log <- [i \in DOMAIN batches |-> ElementsOf(batches[i].of)],
    sparse <- [i \in DOMAIN smtBatches |-> smtBatches[i].covers],
    rows <- { row.id : row \in merkleBatches },
    edited <- { row.id : row \in { x \in merkleBatches : x.flipped } },
    covered <- IF tree = None THEN {} ELSE Covers(tree)

\* Whatever fails or overlaps, the chain grows by whole batches of cast ballots, and the
\* database, the node's tree and the sparse roots speak only of ballots already on it.
ImplementsAnchorLog == Abstract!Spec

(***************************************************************************)
(* Properties                                                              *)
(***************************************************************************)
\* A ballot the database calls confirmed is in the dense batch its tx_hash names, on the
\* chain, whatever failed or overlapped.
ConfirmedIsAnchored ==
    \A v \in Stored : txHash[v] # None =>
        txHash[v] \in DOMAIN batches /\ v \in ElementsOf(batches[txHash[v]].of)

\* What the two batch tables hold is what the chain holds under the same number, but for
\* roots edited by the demonstration; they may miss batches, never invent or alter them.
RowsMirrorChain ==
    /\ \A row \in merkleBatches :
          /\ row.id \in DOMAIN batches
          /\ row.root = batches[row.id].root
          /\ row.voteIds = batches[row.id].of
    /\ \A row \in smtRows : row.id \in DOMAIN smtBatches /\ row.batch = smtBatches[row.id]

\* A check that the row says something, and not what it says.
RootIsThere(row) == row.root # None

\* The root recomputed from the ballots is the one the row holds.
RootMatches(row) == ~row.flipped /\ buildMerkleTree(Leaves(row.voteIds)) = row.root

\* The answer of GET /anchor/verify for a ballot: its status, and the two checks of a 200.
Verification(v) ==
    LET rows == { row \in merkleBatches : v \in ElementsOf(row.voteIds) }
    IN  IF rows = {} THEN [status |-> 404]
        ELSE IF Cardinality(rows) > 1 THEN [status |-> 500]
        ELSE LET row == CHOOSE x \in rows : TRUE
                 leaves == Leaves(row.voteIds)
                 index == CHOOSE i \in DOMAIN leaves : row.voteIds[i] = v
                 proof == getProof(leaves, index - 1)
             IN  IF ~(ElementsOf(row.voteIds) \subseteq Stored) THEN [status |-> 500]
                 ELSE IF ~RootMatches(row) THEN [status |-> 409]
                 ELSE [status |-> 200,
                       local |-> verifyProof(leaves[index], proof, row.root),
                       onChain |-> verifyOnChain(row.id, leaves[index], proof)]

\* Every ballot of a recorded batch verifies both locally and on the chain as long as its
\* batch is intact; an edited root is reported as 409 and nothing else is.
DenseProofsVerify ==
    \A row \in merkleBatches : \A v \in ElementsOf(row.voteIds) :
        LET answer == Verification(v)
        IN  /\ answer.status = 409 => row.flipped
            /\ answer.status = 200 => ~row.flipped /\ answer.local /\ answer.onChain

\* The incrementally updated root and every proof read from the node cache agree with the
\* tree rebuilt from its leaves, deletions included, as long as no two keys are siblings.
SparseTreeIsCanonical ==
    (tree # None /\ SiblingFree({ k \in Keys : tree.leaf[k] # None })) =>
        /\ Root(tree) = CanonicalRoot(tree.leaf)
        /\ \A k \in Keys :
              LET proof == buildProofBits(tree, k) value == tree.leaf[k]
              IN  IF value # None
                  THEN /\ _verifySmt(Root(tree), k, value, proof)
                       /\ ~verifySmtNonMembershipProof(Root(tree), k, proof)
                       /\ Root(delete(tree, k)) = CanonicalRoot([tree.leaf EXCEPT ![k] = None])
                  ELSE (\A j \in Keys : tree.leaf[j] # None => j \div 2 # k \div 2) =>
                       /\ verifySmtNonMembershipProof(Root(tree), k, proof)
                       /\ \A v \in Votes : ~_verifySmt(Root(tree), k, v, proof)

\* A ballot of a batch that was stamped and is on its way into the tree.
Pending(v) ==
    \E r \in Runs : /\ run[r].pc = "tree" /\ run[r].kind \in {"sweep", "manual"}
                    /\ v \in ElementsOf(run[r].ids)

\* Unless two rebuilds overlapped, the cached tree covers every confirmed ballot but those
\* of a batch on its way into it.
TreeCoversConfirmed ==
    (~overlapped /\ tree # None) =>
        \A v \in Confirmed : v \in Covers(tree) \/ Pending(v)

\* A sparse root that the contract accepts covers all that the roots on the chain when it was
\* computed did, but for deleted ballots and ballots whose stamp was once lost. A root that
\* another run has published since it may forget, but not for good: that is still in the
\* tree, and comes back with the next root. All unless two rebuilds of the tree overlapped.
SmtForgetsNothing ==
    [][\A r \in Runs :
        ~overlapped /\ run[r].pc = "smtsend" /\ smtBatches' = Append(smtBatches, run[r].smt) =>
            \A i \in DOMAIN smtBatches :
                LET forgotten == smtBatches[i].covers \ (run[r].smt.covers \cup gone \cup unstamped)
                IN  /\ i <= run[r].base => forgotten = {}
                    /\ tree # None => forgotten \subseteq Covers(tree)]_vars

\* Every ballot cast is eventually stamped with a batch, or deleted: failures, restarts and
\* overlapping runs delay the sweep and cannot lose a ballot.
EveryBallotIsAnchored ==
    \A v \in Votes : (v <= cast) ~> (txHash[v] # None \/ v \in gone)
=============================================================================
