------------------------------- MODULE Verifier -------------------------------
(***************************************************************************)
(* The independent verifier (backend/src/scripts/independent-verify-tally.ts)*)
(* of the bundle GET /keyshares/verification-bundle serves for one dense     *)
(* batch: its steps 1 to 3, against the chain, in any state of Anchoring.   *)
(* The recount of steps 4 to 6 is Tally's.                                  *)
(***************************************************************************)
EXTENDS Anchoring

\* getSmtProof answers from the cached tree, or from one it rebuilds.
ServedTree == IF tree = None THEN FromRows(Confirmed) ELSE tree

\* A ballot's key, the value the tree has for it if any, and the siblings on its path.
Entry(v) ==
    [key |-> Key[v], value |-> ServedTree.leaf[Key[v]],
     proof |-> buildProofBits(ServedTree, Key[v])]

\* The ballots still stored, in the order the batch lists them; the newest sparse batch,
\* whichever it is; every voter who voted, deleted ballots included.
Bundle(row) ==
    LET kept == Ascending({ i \in DOMAIN row.voteIds : row.voteIds[i] \in Stored })
        ballots == [n \in DOMAIN kept |-> row.voteIds[kept[n]]]
    IN  [batch |-> row.id, root |-> row.root, flipped |-> row.flipped, ballots |-> ballots,
         proofs |-> [i \in DOMAIN ballots |-> Entry(ballots[i])],
         smt |-> IF smtRows = {} THEN None ELSE NewestRow,
         observed |-> cast]

\* Step 1.
BatchIsOnChain(b) ==
    b.batch \in DOMAIN batches /\ batches[b.batch].root = b.root /\ ~b.flipped

\* Step 1b.
SmtBatchIsOnChain(b) ==
    /\ b.smt # None /\ b.smt.id \in DOMAIN smtBatches
    /\ smtBatches[b.smt.id].smtRoot = b.smt.batch.smtRoot
    /\ smtBatches[b.smt.id].total = b.smt.batch.total

\* A step 1c that takes either type of proof.
AreProved(b) ==
    /\ b.smt # None /\ b.proofs # <<>>
    /\ \A i \in DOMAIN b.proofs :
          LET entry == b.proofs[i] root == b.smt.batch.smtRoot
          IN  IF entry.value = None
              THEN verifySmtNonMembershipProof(root, entry.key, entry.proof)
              ELSE _verifySmt(root, entry.key, entry.value, entry.proof)

\* Step 1c: a membership proof for every ballot, of the ballot's own leaf.
AreMembers(b) ==
    /\ b.smt # None /\ b.proofs # <<>>
    /\ \A i \in DOMAIN b.proofs :
          LET entry == b.proofs[i]
          IN  /\ entry.value = b.ballots[i]
              /\ _verifySmt(b.smt.batch.smtRoot, entry.key, entry.value, entry.proof)

\* Step 2.
RootIsRebuilt(b) ==
    b.ballots # <<>> /\ buildMerkleTree(Leaves(b.ballots)) = b.root /\ ~b.flipped

\* Step 3, more than 5 % apart.
MaterialGap(total, observed) ==
    IF observed = 0 THEN total > 0
    ELSE 20 * (IF total > observed THEN total - observed ELSE observed - total) > observed

\* A batch nobody touched passes steps 1 and 2, and whatever passes them holds the very
\* ballots the chain has for that batch.
DenseStepsAreSound(row) ==
    LET b == Bundle(row)
    IN  /\ ElementsOf(row.voteIds) \subseteq Stored /\ ~row.flipped
              => BatchIsOnChain(b) /\ RootIsRebuilt(b)
        /\ BatchIsOnChain(b) /\ RootIsRebuilt(b)
              => ElementsOf(b.ballots) = ElementsOf(batches[row.id].of)

\* Whatever passes steps 1b and 1c is covered by the sparse root on the chain.
MembersAreCovered(row) ==
    LET b == Bundle(row)
    IN  SmtBatchIsOnChain(b) /\ AreMembers(b)
            => ElementsOf(b.ballots) \subseteq smtBatches[b.smt.id].covers

\* A batch covered by the newest sparse root passes while the served tree is that root's (one
\* that is ahead fails step 1c although nothing is wrong) and none of its ballots has another
\* beside it in the tree (see 'getNode').
CoveredArePassed(row) ==
    LET b == Bundle(row)
        ballots == ElementsOf(b.ballots)
    IN  /\ b.smt # None /\ ballots # {} /\ ballots \subseteq Covers(ServedTree)
        /\ Root(ServedTree) = b.smt.batch.smtRoot
        /\ \A v \in ballots : ServedTree.leaf[Sibling(Key[v])] = None
        => SmtBatchIsOnChain(b) /\ AreMembers(b)

\* The verifier accepts what the chain holds and nothing else.
BundlesAreSound ==
    \A row \in merkleBatches :
        DenseStepsAreSound(row) /\ MembersAreCovered(row) /\ CoveredArePassed(row)
=============================================================================
