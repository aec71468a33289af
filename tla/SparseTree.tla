----------------------------- MODULE SparseTree -----------------------------
(***************************************************************************)
(* The sparse Merkle tree of backend/src/merkle/sparseMerkleTree.ts, of     *)
(* Depth levels instead of 256, over symbolic hashes. A tree is the map     *)
(* 'leaf' of occupied keys and the cache 'node' of inner hashes; inserting  *)
(* recomputes one path of the cache, and that is what is modelled: root and *)
(* proofs are read from the cache, never from the leaves.                   *)
(***************************************************************************)
EXTENDS Naturals, Sequences, FiniteSets

CONSTANTS Depth, None

ASSUME DepthAssumption == Depth \in Nat \ {0}

\* The members of a finite set of numbers in ascending order.
Ascending(S) ==
    CHOOSE s \in [1..Cardinality(S) -> S] : \A i, j \in DOMAIN s : i < j => s[i] < s[j]

TwoTo[n \in 0..Depth] == IF n = 0 THEN 1 ELSE 2 * TwoTo[n - 1]

Keys == 0..(TwoTo[Depth] - 1)

smtNodeHash(l, r) == <<l[1] + 1, l, r>>

leafHash(key, value) == <<0, <<key, value>>>>

\* Hash of an empty subtree of each height.
DEFAULT_HASHES[h \in 0..Depth] ==
    IF h = 0 THEN <<0, <<>>>> ELSE smtNodeHash(DEFAULT_HASHES[h - 1], DEFAULT_HASHES[h - 1])

GENESIS_ROOT == DEFAULT_HASHES[Depth]

\* The ancestor of a key at a depth (0 is the root), as the prefix of its bits.
Prefix(key, depth) == key \div TwoTo[Depth - depth]

Sibling(prefix) == IF prefix % 2 = 0 THEN prefix + 1 ELSE prefix - 1

NodeIds == UNION { {d} \X (0..(TwoTo[d] - 1)) : d \in 0..(Depth - 1) }

EmptyTree ==
    [leaf |-> [k \in Keys |-> None],
     node |-> [n \in NodeIds |-> DEFAULT_HASHES[Depth - n[1]]]]

Root(t) == t.node[<<0, 0>>]

Covers(t) == { t.leaf[k] : k \in Keys } \ {None}

\* The leaf level is never put in the cache, so it always reads as empty.
getNode(t, depth, prefix) ==
    IF depth = Depth THEN DEFAULT_HASHES[0] ELSE t.node[<<depth, prefix>>]

\* The siblings on the path of a key, bottom up.
siblings(t, key) ==
    [l \in 0..(Depth - 1) |-> getNode(t, Depth - l, Sibling(Prefix(key, Depth - l)))]

\* The hashes from a leaf to the root: the key's bit at each level decides the side.
Climb(key, leaf, sibling) ==
    LET current[l \in 0..Depth] ==
            IF l = 0 THEN leaf
            ELSE IF Prefix(key, Depth - l + 1) % 2 = 0
                 THEN smtNodeHash(current[l - 1], sibling[l - 1])
                 ELSE smtNodeHash(sibling[l - 1], current[l - 1])
    IN  current

\* A walk that hashes siblings without regard to their side.
PathUnordered(t, key, leaf) == Climb(0, leaf, siblings(t, key))

\* The hashes on a key's path, bottom up, after its leaf became 'leaf'.
Path(t, key, leaf) == Climb(key, leaf, siblings(t, key))

recomputePathToRoot(t, key, leaf) ==
    LET hash == Path(t, key, leaf)
    IN  [n \in NodeIds |-> IF n[2] = Prefix(key, n[1]) THEN hash[Depth - n[1]] ELSE t.node[n]]

insert(t, key, value) ==
    [leaf |-> [t.leaf EXCEPT ![key] = value],
     node |-> recomputePathToRoot(t, key, leafHash(key, value))]

delete(t, key) ==
    IF t.leaf[key] = None THEN t
    ELSE [leaf |-> [t.leaf EXCEPT ![key] = None],
          node |-> recomputePathToRoot(t, key, DEFAULT_HASHES[0])]

\* A proof: the levels whose sibling is not an empty subtree, and those siblings bottom up.
buildProofBits(t, key) ==
    LET sibling == siblings(t, key)
        bitmap == { l \in 0..(Depth - 1) : sibling[l] # DEFAULT_HASHES[l] }
        levels == Ascending(bitmap)
    IN  [bitmap |-> bitmap, siblings |-> [i \in DOMAIN levels |-> sibling[levels[i]]]]

verifyAgainstRoot(root, key, leaf, proof) ==
    LET used(l) == Cardinality({ k \in proof.bitmap : k <= l })
        sibling == [l \in 0..(Depth - 1) |->
                       IF l \in proof.bitmap THEN proof.siblings[used(l)] ELSE DEFAULT_HASHES[l]]
    IN  /\ Len(proof.siblings) = Cardinality(proof.bitmap)
        /\ Climb(key, leaf, sibling)[Depth] = root

\* A key's claim under a proof: that it holds a value, or that it is empty.
verifySmtMembershipProof(root, key, value, proof) ==
    verifyAgainstRoot(root, key, leafHash(key, value), proof)

verifySmtNonMembershipProof(root, key, proof) ==
    verifyAgainstRoot(root, key, DEFAULT_HASHES[0], proof)

(***************************************************************************)
(* Reference: the nodes above a set of occupied keys, from the leaves alone. *)
(***************************************************************************)
LeafNode(leaf, k) == IF leaf[k] = None THEN DEFAULT_HASHES[0] ELSE leafHash(k, leaf[k])

CanonicalNodes(leaf) ==
    LET nodes[l \in 0..Depth] ==
            [p \in 0..(TwoTo[Depth - l] - 1) |->
                IF l = 0 THEN LeafNode(leaf, p)
                ELSE smtNodeHash(nodes[l - 1][2 * p], nodes[l - 1][2 * p + 1])]
    IN  nodes

CanonicalRoot(leaf) == CanonicalNodes(leaf)[Depth][0]

\* No two keys differ in their last bit only: see 'getNode'.
SiblingFree(keys) == \A k, j \in keys : k # j => k \div 2 # j \div 2
=============================================================================
