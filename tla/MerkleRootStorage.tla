-------------------------- MODULE MerkleRootStorage --------------------------
(***************************************************************************)
(* The contract of blockchain/contracts/MerkleRootStorage.sol for one       *)
(* election: two append-only lists, of dense roots and of sparse roots. A   *)
(* transaction is one step. Batch ids start at 1 here, at 0 in the contract.*)
(* 'of' and 'covers' record what a root commits to: the chain stores only   *)
(* the hash, which under a collision-free hash is the same thing.           *)
(***************************************************************************)
EXTENDS MerkleTree, SparseTree

VARIABLES
    batches,        \* dense batches: [root, voteCount, of]
    smtBatches      \* sparse batches: [smtRoot, previous, new, total, covers]

chainVars == <<batches, smtBatches>>

EMPTY_TREE_ROOT == GENESIS_ROOT

InitChain ==
    /\ batches = <<>>
    /\ smtBatches = <<>>

anchorRoot(root, ids) ==
    /\ Len(ids) > 0
    /\ batches' = Append(batches, [root |-> root, voteCount |-> Len(ids), of |-> ids])
    /\ UNCHANGED smtBatches

expectedPrevious ==
    IF smtBatches = <<>> THEN EMPTY_TREE_ROOT ELSE smtBatches[Len(smtBatches)].smtRoot

expectedTotal == IF smtBatches = <<>> THEN 0 ELSE smtBatches[Len(smtBatches)].total

\* The two requires of anchorSmtRoot that a submission can fail.
Continues(b) ==
    /\ b.previous = expectedPrevious
    /\ b.total = expectedTotal + b.new

anchorSmtRoot(b) ==
    /\ Continues(b)
    /\ smtBatches' = Append(smtBatches, b)
    /\ UNCHANGED batches

\* verify: the proof against the root the contract holds, not the one the caller knows.
verifyOnChain(batchId, leaf, proof) ==
    batchId \in DOMAIN batches /\ verifyProof(leaf, proof, batches[batchId].root)

\* The contract's own copy of the sparse verification; the root is the caller's.
_verifySmt(root, key, value, proof) == verifySmtMembershipProof(root, key, value, proof)
=============================================================================
