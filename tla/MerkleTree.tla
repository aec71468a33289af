----------------------------- MODULE MerkleTree -----------------------------
(***************************************************************************)
(* The dense Merkle tree of backend/src/merkle/merkleTree.ts. Keccak is     *)
(* symbolic: a hash is the pair of its height and what it was made from, so *)
(* two hashes are equal exactly when they were computed from the same       *)
(* values. Pair hashing sorts its operands, hence the set.                  *)
(***************************************************************************)
EXTENDS Naturals, Sequences

hashVoteLeaf(v) == <<0, {v}>>

hashPair(a, b) == <<a[1] + 1, {a, b}>>

\* One layer up; the unpaired node of an odd layer is paired with itself.
NextLayer(l) ==
    [i \in 1..((Len(l) + 1) \div 2) |->
        hashPair(l[2 * i - 1], l[IF 2 * i <= Len(l) THEN 2 * i ELSE 2 * i - 1])]

\* layers[k + 1] of buildMerkleTree: the leaves hashed upwards k times.
Layer(leaves, k) ==
    LET layer[i \in 0..k] == IF i = 0 THEN leaves ELSE NextLayer(layer[i - 1])
    IN  layer[k]

Height(leaves) ==
    CHOOSE k \in 0..Len(leaves) :
        /\ Len(Layer(leaves, k)) = 1
        /\ \A i \in 0..(k - 1) : Len(Layer(leaves, i)) > 1

buildMerkleTree(leaves) == Layer(leaves, Height(leaves))[1]

\* The siblings of the leaf at position index (from 0), bottom up.
getProof(leaves, index) ==
    LET idx[k \in 0..Height(leaves)] == IF k = 0 THEN index ELSE idx[k - 1] \div 2
    IN  [k \in 1..Height(leaves) |->
            LET layer == Layer(leaves, k - 1)
                i == idx[k - 1]
                pairIndex == IF i % 2 = 1 THEN i - 1 ELSE i + 1
            IN  layer[IF pairIndex < Len(layer) THEN pairIndex + 1 ELSE i + 1]]

verifyProof(leaf, proof, root) ==
    LET computed[k \in 0..Len(proof)] ==
            IF k = 0 THEN leaf ELSE hashPair(computed[k - 1], proof[k])
    IN  computed[Len(proof)] = root
=============================================================================
