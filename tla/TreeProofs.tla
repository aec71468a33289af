------------------------------ MODULE TreeProofs ------------------------------
(***************************************************************************)
(* Proofs about the dense and the sparse Merkle tree, for every number of   *)
(* leaves and every depth. The recursive functions of both modules are      *)
(* unfolded by induction over sets of numbers: a set that holds 0 and, with *)
(* a number, the next one, holds them all.                                  *)
(***************************************************************************)
EXTENDS MerkleTree, SparseTree, TLAPS, FiniteSetTheorems, SequenceTheorems,
        WellFoundedInduction

-----------------------------------------------------------------------------
LEMMA LeastElement ==
    ASSUME NEW S \in SUBSET Nat, S # {}
    PROVE  \E m \in S : \A n \in S : m <= n
<1>1. IsWellFoundedOn(OpToRel(<, Nat), Nat)
  BY NatLessThanWellFounded
<1>2. PICK m \in S : \A n \in S : <<n, m>> \notin OpToRel(<, Nat)
  BY <1>1, WFMin
<1>3. \A n \in S : ~(n < m)
  BY <1>2 DEF OpToRel
<1> QED BY <1>3

LEMMA SetInduction ==
    ASSUME NEW S, 0 \in S, \A n \in Nat : n \in S => n + 1 \in S
    PROVE  Nat \subseteq S
<1> SUFFICES ASSUME Nat \ S # {} PROVE FALSE
  OBVIOUS
<1>1. PICK m \in Nat \ S : \A n \in Nat \ S : m <= n
  BY LeastElement
<1>2. m # 0 /\ m - 1 \in Nat /\ m - 1 \in S
  BY <1>1
<1> QED BY <1>1, <1>2

-----------------------------------------------------------------------------
\* The ballots in the order they arrived, the levels of a proof bottom up.
IsAscending(s, S) ==
    s \in [1..Cardinality(S) -> S] /\ \A i, j \in DOMAIN s : i < j => s[i] < s[j]

LEMMA AscendingExists ==
    ASSUME NEW S \in SUBSET Nat, IsFiniteSet(S)
    PROVE  \E s : IsAscending(s, S)
<1> DEFINE Sizes == { n \in Nat : \A T \in SUBSET Nat :
                          IsFiniteSet(T) /\ Cardinality(T) = n => \E s : IsAscending(s, T) }
<1>1. 0 \in Sizes
  <2> SUFFICES ASSUME NEW T \in SUBSET Nat, IsFiniteSet(T), Cardinality(T) = 0
               PROVE  \E s : IsAscending(s, T)
    OBVIOUS
  <2>1. IsAscending([i \in 1..0 |-> 0], T)
    BY DEF IsAscending
  <2> QED BY <2>1
<1>2. ASSUME NEW n \in Nat, n \in Sizes
      PROVE  n + 1 \in Sizes
  <2> SUFFICES ASSUME NEW T \in SUBSET Nat, IsFiniteSet(T), Cardinality(T) = n + 1
               PROVE  \E s : IsAscending(s, T)
    OBVIOUS
  <2>1. T # {}
    BY FS_EmptySet
  <2>2. PICK m \in T : \A k \in T : m <= k
    BY <2>1, LeastElement
  <2>3. IsFiniteSet(T \ {m}) /\ Cardinality(T \ {m}) = n
    <3>1. /\ IsFiniteSet(T \ {m})
          /\ Cardinality(T \ {m}) = IF m \in T THEN Cardinality(T) - 1 ELSE Cardinality(T)
      BY FS_RemoveElement, Zenon
    <3> QED BY <3>1
  <2>4. PICK s : IsAscending(s, T \ {m})
    BY <1>2, <2>3
  <2>5. /\ s \in [1..n -> T \ {m}] /\ \A i, j \in 1..n : i < j => s[i] < s[j]
        /\ \A i \in 1..n : m < s[i]
    <3>1. s \in [1..n -> T \ {m}]
      BY <2>3, <2>4, Zenon DEF IsAscending
    <3>2. DOMAIN s = 1..n
      BY <3>1
    <3>3. \A i, j \in 1..n : i < j => s[i] < s[j]
      BY <2>4, <3>2, Zenon DEF IsAscending
    <3>4. \A k \in T \ {m} : m < k
      BY <2>2
    <3> QED BY <3>1, <3>3, <3>4
  <2> DEFINE t == [i \in 1..(n + 1) |-> IF i = 1 THEN m ELSE s[i - 1]]
  <2>6. t \in [1..(n + 1) -> T]
    BY <2>5
  <2>7. ASSUME NEW i \in 1..(n + 1), NEW j \in 1..(n + 1), i < j
        PROVE  t[i] < t[j]
    BY <2>5, <2>7
  <2>8. IsAscending(t, T)
    BY <2>6, <2>7 DEF IsAscending
  <2> QED BY <2>8
<1>3. Nat \subseteq Sizes
  <2> HIDE DEF Sizes
  <2> QED BY <1>1, <1>2, SetInduction
<1>4. Cardinality(S) \in Sizes
  BY <1>3, FS_CardinalityType
<1> QED BY <1>4

\* Ascending(S) lists each member of S once.
LEMMA AscendingFacts ==
    ASSUME NEW S \in SUBSET Nat, IsFiniteSet(S)
    PROVE  /\ Ascending(S) \in Seq(S) /\ Len(Ascending(S)) = Cardinality(S)
           /\ DOMAIN Ascending(S) = 1..Cardinality(S) /\ Cardinality(S) \in Nat
           /\ { Ascending(S)[i] : i \in DOMAIN Ascending(S) } = S
           /\ \A i, j \in DOMAIN Ascending(S) : i < j => Ascending(S)[i] < Ascending(S)[j]
           /\ Ascending(S) = <<>> <=> S = {}
<1>1. IsAscending(Ascending(S), S)
  BY AscendingExists DEF IsAscending, Ascending
<1>2. PICK s : s = Ascending(S)
  OBVIOUS
<1>3. PICK n \in Nat : n = Cardinality(S)
  BY FS_CardinalityType
<1>4. s \in [1..n -> S] /\ \A i, j \in 1..n : i < j => s[i] < s[j]
  BY <1>1, <1>2, <1>3 DEF IsAscending
<1>5. IsFiniteSet(1..n) /\ Cardinality(1..n) = n
  BY FS_Interval
<1>6. s \in Injection(1..n, S)
  <2>1. ASSUME NEW i \in 1..n, NEW j \in 1..n, s[i] = s[j]
        PROVE  i = j
    <3>1. s[i] \in Nat /\ s[j] \in Nat
      BY <1>4
    <3>2. ~(i < j) /\ ~(j < i)
      BY <1>4, <2>1, <3>1
    <3> QED BY <3>2
  <2>2. s \in [1..n -> S] /\ DOMAIN s = 1..n
    BY <1>4
  <2>3. IsInjective(s)
    BY <2>1, <2>2, Zenon DEF IsInjective
  <2> QED BY <2>2, <2>3, Zenon DEF Injection
<1>7. s \in Surjection(1..n, S)
  BY <1>3, <1>5, <1>6, FS_Injection
<1>8. { s[i] : i \in 1..n } = S
  BY <1>4, <1>7 DEF Surjection
<1>9. s \in Seq(S) /\ Len(s) = n /\ DOMAIN s = 1..n
  BY <1>4
<1>10. s = <<>> <=> S = {}
  <2>1. n = 0 <=> S = {}
    <3>1. Cardinality(S) = 0 <=> S = {}
      BY FS_EmptySet, Zenon
    <3> QED BY <1>3, <3>1
  <2>2. s = <<>> <=> n = 0
    BY <1>9, EmptySeq
  <2> QED BY <2>1, <2>2
<1> QED BY <1>2, <1>3, <1>4, <1>8, <1>9, <1>10

-----------------------------------------------------------------------------
(***************************************************************************)
(* The dense tree. Its layers, the positions a proof passes and the hashes   *)
(* a verifier computes are recursive functions over 0..k.                   *)
(***************************************************************************)
LayersUpTo(f, leaves, k) ==
    f = [i \in 0..k |-> IF i = 0 THEN leaves ELSE NextLayer(f[i - 1])]

LEMMA LayersExist ==
    ASSUME NEW leaves, NEW k \in Nat
    PROVE  \E f : LayersUpTo(f, leaves, k)
<1> DEFINE Heights == { n \in Nat : \E f : LayersUpTo(f, leaves, n) }
<1>1. 0 \in Heights
  <2>1. LayersUpTo([i \in 0..0 |-> leaves], leaves, 0)
    BY DEF LayersUpTo
  <2> QED BY <2>1
<1>2. ASSUME NEW n \in Nat, n \in Heights
      PROVE  n + 1 \in Heights
  <2>1. PICK a : LayersUpTo(a, leaves, n)
    BY <1>2
  <2> DEFINE b == [i \in 0..(n + 1) |-> IF i <= n THEN a[i] ELSE NextLayer(a[n])]
  <2>2. ASSUME NEW i \in 0..(n + 1)
        PROVE  b[i] = IF i = 0 THEN leaves ELSE NextLayer(b[i - 1])
    <3>1. CASE i = n + 1
      BY <3>1
    <3>2. CASE i # n + 1
      <4>1. i \in 0..n /\ b[i] = a[i] /\ (i # 0 => i - 1 \in 0..n /\ b[i - 1] = a[i - 1])
        BY <3>2
      <4>2. a[i] = IF i = 0 THEN leaves ELSE NextLayer(a[i - 1])
        BY <2>1, <4>1 DEF LayersUpTo
      <4> QED BY <4>1, <4>2
    <3> QED BY <3>1, <3>2
  <2>3. b = [i \in 0..(n + 1) |-> IF i = 0 THEN leaves ELSE NextLayer(b[i - 1])]
    <3>1. b = [i \in 0..(n + 1) |-> b[i]]
      OBVIOUS
    <3> HIDE DEF b
    <3> QED BY <2>2, <3>1
  <2>4. LayersUpTo(b, leaves, n + 1)
    BY <2>3 DEF LayersUpTo
  <2> QED BY <2>4
<1>3. k \in Heights
  <2> HIDE DEF Heights
  <2> QED BY <1>1, <1>2, SetInduction
<1> QED BY <1>3

LEMMA LayersAgree ==
    ASSUME NEW leaves, NEW k \in Nat, NEW f, LayersUpTo(f, leaves, k),
           NEW m \in Nat, NEW g, LayersUpTo(g, leaves, m)
    PROVE  \A i \in Nat : i <= k /\ i <= m => f[i] = g[i]
<1> DEFINE Same == { i \in Nat : i <= k /\ i <= m => f[i] = g[i] }
<1>1. 0 \in Same
  BY DEF LayersUpTo
<1>2. ASSUME NEW n \in Nat, n \in Same
      PROVE  n + 1 \in Same
  <2> SUFFICES ASSUME n + 1 <= k, n + 1 <= m PROVE f[n + 1] = g[n + 1]
    OBVIOUS
  <2>1. f[n] = g[n]
    BY <1>2
  <2>2. f[n + 1] = NextLayer(f[n]) /\ g[n + 1] = NextLayer(g[n])
    BY DEF LayersUpTo
  <2> QED BY <2>1, <2>2
<1>3. Nat \subseteq Same
  <2> HIDE DEF Same
  <2> QED BY <1>1, <1>2, SetInduction
<1> QED BY <1>3

LEMMA LayerIsLast ==
    ASSUME NEW leaves, NEW k \in Nat
    PROVE  \E f : LayersUpTo(f, leaves, k) /\ Layer(leaves, k) = f[k]
<1> DEFINE chosen == CHOOSE f : LayersUpTo(f, leaves, k)
<1>1. LayersUpTo(chosen, leaves, k)
  BY LayersExist
<1>2. Layer(leaves, k) = chosen[k]
  BY DEF Layer, LayersUpTo
<1> QED BY <1>1, <1>2

\* buildMerkleTree pushes the leaves, and then the layer above the last one.
LEMMA LayerUnfolds ==
    ASSUME NEW leaves
    PROVE  /\ Layer(leaves, 0) = leaves
           /\ \A k \in Nat : Layer(leaves, k + 1) = NextLayer(Layer(leaves, k))
<1>1. Layer(leaves, 0) = leaves
  <2>1. PICK f : LayersUpTo(f, leaves, 0) /\ Layer(leaves, 0) = f[0]
    BY LayerIsLast
  <2> QED BY <2>1 DEF LayersUpTo
<1>2. ASSUME NEW k \in Nat
      PROVE  Layer(leaves, k + 1) = NextLayer(Layer(leaves, k))
  <2>1. PICK f : LayersUpTo(f, leaves, k) /\ Layer(leaves, k) = f[k]
    BY LayerIsLast
  <2>2. PICK g : LayersUpTo(g, leaves, k + 1) /\ Layer(leaves, k + 1) = g[k + 1]
    BY LayerIsLast
  <2>3. f[k] = g[k]
    BY <2>1, <2>2, LayersAgree
  <2>4. g[k + 1] = NextLayer(g[k])
    BY <2>2 DEF LayersUpTo
  <2> QED BY <2>1, <2>2, <2>3, <2>4
<1> QED BY <1>1, <1>2

\* A layer of a tree: some nodes, all at height k.
IsLayer(l, k) ==
    /\ Len(l) \in Nat \ {0} /\ DOMAIN l = 1..Len(l)
    /\ \A i \in DOMAIN l : l[i][1] = k

\* A layer has half as many nodes as the one below it, rounded up, and all of one height.
LEMMA NextLayerShape ==
    ASSUME NEW l, NEW h \in Nat, IsLayer(l, h)
    PROVE  IsLayer(NextLayer(l), h + 1) /\ Len(NextLayer(l)) = (Len(l) + 1) \div 2
<1>1. PICK n \in Nat \ {0} : n = Len(l)
  BY DEF IsLayer
<1>2. DOMAIN l = 1..n /\ \A i \in 1..n : l[i][1] = h
  BY <1>1 DEF IsLayer
<1>3. PICK m \in Nat : m = (n + 1) \div 2
  OBVIOUS
<1> DEFINE node(i) == hashPair(l[2 * i - 1], l[IF 2 * i <= n THEN 2 * i ELSE 2 * i - 1])
<1>4. NextLayer(l) = [i \in 1..m |-> node(i)]
  BY <1>1, <1>3 DEF NextLayer
<1>5. PICK up : up = NextLayer(l)
  OBVIOUS
<1>6. DOMAIN up = 1..m /\ \A i \in 1..m : up[i] = node(i)
  BY <1>4, <1>5
<1>7. Len(up) = m
  BY <1>4, <1>5, <1>6
<1>8. ASSUME NEW i \in 1..m
      PROVE  node(i)[1] = h + 1
  <2>1. 2 * i - 1 \in 1..n
    BY <1>3
  <2> QED BY <1>2, <2>1 DEF hashPair
<1>9. m \in Nat \ {0}
  BY <1>3
<1>10. IsLayer(up, h + 1)
  BY <1>6, <1>7, <1>8, <1>9 DEF IsLayer
<1> QED BY <1>1, <1>3, <1>5, <1>7, <1>10

-----------------------------------------------------------------------------
\* At least one leaf, each of height 0 (hashVoteLeaf).
IsLeaves(leaves) ==
    /\ Len(leaves) \in Nat \ {0} /\ DOMAIN leaves = 1..Len(leaves)
    /\ \A i \in DOMAIN leaves : leaves[i][1] = 0

\* Every layer of the tree has nodes, of its own height, and half as many as the one below.
LEMMA LayersShrink ==
    ASSUME NEW leaves, IsLeaves(leaves)
    PROVE  \A k \in Nat :
              /\ IsLayer(Layer(leaves, k), k)
              /\ Layer(leaves, k + 1) = NextLayer(Layer(leaves, k))
              /\ Len(Layer(leaves, k + 1)) = (Len(Layer(leaves, k)) + 1) \div 2
<1> DEFINE Good == { k \in Nat : IsLayer(Layer(leaves, k), k) }
<1>1. ASSUME NEW k \in Nat, IsLayer(Layer(leaves, k), k)
      PROVE  /\ IsLayer(Layer(leaves, k + 1), k + 1)
             /\ Len(Layer(leaves, k + 1)) = (Len(Layer(leaves, k)) + 1) \div 2
  <2>1. Layer(leaves, k + 1) = NextLayer(Layer(leaves, k))
    BY LayerUnfolds
  <2> QED BY <1>1, <2>1, NextLayerShape
<1>2. 0 \in Good
  BY LayerUnfolds DEF IsLeaves, IsLayer
<1>3. \A k \in Nat : k \in Good => k + 1 \in Good
  BY <1>1
<1>4. Nat \subseteq Good
  <2> HIDE DEF Good
  <2> QED BY <1>2, <1>3, SetInduction
<1> QED BY <1>1, <1>4, LayerUnfolds

\* buildMerkleTree's loop ends, after fewer rounds than there are leaves, at a single node.
LEMMA HeightFacts ==
    ASSUME NEW leaves, IsLeaves(leaves)
    PROVE  /\ Height(leaves) \in Nat /\ Len(Layer(leaves, Height(leaves))) = 1
           /\ \A i \in 0..(Height(leaves) - 1) : Len(Layer(leaves, i)) > 1
<1> DEFINE size(k) == Len(Layer(leaves, k))
           Sizes == { size(k) : k \in Nat }
           Tops == { k \in Nat : size(k) = 1 }
<1>1. \A k \in Nat : size(k) \in Nat \ {0} /\ size(k + 1) = (size(k) + 1) \div 2
  BY LayersShrink DEF IsLayer
<1>2. \E k \in Nat : size(k) = 1
  <2>1. Sizes \in SUBSET Nat /\ Sizes # {}
    BY <1>1
  <2>2. PICK m \in Sizes : \A n \in Sizes : m <= n
    <3> HIDE DEF Sizes
    <3> QED BY <2>1, LeastElement
  <2>3. PICK k \in Nat : m = size(k)
    BY <2>2
  <2>4. m <= size(k + 1)
    BY <2>2, <2>3
  <2>5. m \in Nat \ {0} /\ size(k + 1) = (m + 1) \div 2
    BY <1>1, <2>3
  <2> HIDE DEF size
  <2>6. m = 1
    BY <2>4, <2>5
  <2> QED BY <2>3, <2>6
<1>3. PICK top \in Tops : \A k \in Tops : top <= k
  <2>1. Tops \in SUBSET Nat /\ Tops # {}
    BY <1>2
  <2> HIDE DEF Tops
  <2> QED BY <2>1, LeastElement
<1> HIDE DEF size
<1>4. top \in Nat /\ size(top) = 1
  BY <1>3
<1>5. \A i \in 0..(top - 1) : size(i) > 1
  <2> SUFFICES ASSUME NEW i \in 0..(top - 1) PROVE size(i) > 1
    OBVIOUS
  <2>1. i \in Nat /\ ~(top <= i)
    BY <1>4
  <2>2. size(i) # 1
    BY <1>3, <2>1
  <2>3. size(i) \in Nat \ {0}
    BY <1>1, <2>1
  <2> HIDE DEF Tops
  <2> QED BY <2>2, <2>3
<1>6. top <= Len(leaves)
  <2> DEFINE Low == { i \in Nat : i <= top => size(i) + i <= Len(leaves) }
  <2>1. 0 \in Low /\ Len(leaves) \in Nat
    BY <1>1, LayerUnfolds DEF size, IsLeaves
  <2>2. ASSUME NEW i \in Nat, i \in Low
        PROVE  i + 1 \in Low
    <3> SUFFICES ASSUME i + 1 <= top PROVE size(i + 1) + (i + 1) <= Len(leaves)
      OBVIOUS
    <3>1. i \in 0..(top - 1) /\ size(i) + i <= Len(leaves)
      BY <1>4, <2>2
    <3>2. size(i) \in Nat /\ size(i) > 1 /\ size(i + 1) = (size(i) + 1) \div 2
      BY <1>1, <1>5, <3>1
    <3> QED BY <2>1, <3>1, <3>2
  <2>3. Nat \subseteq Low
    <3> HIDE DEF Low
    <3> QED BY <2>1, <2>2, SetInduction
  <2>4. size(top) + top <= Len(leaves)
    BY <1>4, <2>3
  <2> QED BY <1>4, <2>1, <2>4
<1>7. Len(leaves) \in Nat
  BY DEF IsLeaves
<1>8. \E k \in 0..Len(leaves) :
          Len(Layer(leaves, k)) = 1 /\ \A i \in 0..(k - 1) : Len(Layer(leaves, i)) > 1
  <2>1. top \in 0..Len(leaves)
    BY <1>4, <1>6, <1>7
  <2>2. Len(Layer(leaves, top)) = 1 /\ \A i \in 0..(top - 1) : Len(Layer(leaves, i)) > 1
    BY <1>4, <1>5 DEF size
  <2> HIDE DEF size
  <2> QED BY <2>1, <2>2, Zenon
<1>9. /\ Height(leaves) \in 0..Len(leaves) /\ Len(Layer(leaves, Height(leaves))) = 1
      /\ \A i \in 0..(Height(leaves) - 1) : Len(Layer(leaves, i)) > 1
  BY <1>8, Zenon DEF Height
<1> QED BY <1>7, <1>9

-----------------------------------------------------------------------------
\* A verifier of a proof walks up from the leaf. Its positions are those of getProof.
PathUpTo(f, index, k) ==
    f = [i \in 0..k |-> IF i = 0 THEN index ELSE f[i - 1] \div 2]

LEMMA PathsExist ==
    ASSUME NEW index, NEW k \in Nat
    PROVE  \E f : PathUpTo(f, index, k)
<1> DEFINE Heights == { n \in Nat : \E f : PathUpTo(f, index, n) }
<1>1. 0 \in Heights
  <2>1. PathUpTo([i \in 0..0 |-> index], index, 0)
    BY DEF PathUpTo
  <2> QED BY <2>1
<1>2. ASSUME NEW n \in Nat, n \in Heights
      PROVE  n + 1 \in Heights
  <2>1. PICK a : PathUpTo(a, index, n)
    BY <1>2
  <2> DEFINE b == [i \in 0..(n + 1) |-> IF i <= n THEN a[i] ELSE a[n] \div 2]
  <2>2. ASSUME NEW i \in 0..(n + 1)
        PROVE  b[i] = IF i = 0 THEN index ELSE b[i - 1] \div 2
    <3>1. CASE i = n + 1
      BY <3>1
    <3>2. CASE i # n + 1
      <4>1. i \in 0..n /\ b[i] = a[i] /\ (i # 0 => i - 1 \in 0..n /\ b[i - 1] = a[i - 1])
        BY <3>2
      <4>2. a[i] = IF i = 0 THEN index ELSE a[i - 1] \div 2
        BY <2>1, <4>1 DEF PathUpTo
      <4> QED BY <4>1, <4>2
    <3> QED BY <3>1, <3>2
  <2>3. b = [i \in 0..(n + 1) |-> IF i = 0 THEN index ELSE b[i - 1] \div 2]
    <3>1. b = [i \in 0..(n + 1) |-> b[i]]
      OBVIOUS
    <3> HIDE DEF b
    <3> QED BY <2>2, <3>1
  <2>4. PathUpTo(b, index, n + 1)
    BY <2>3 DEF PathUpTo
  <2> QED BY <2>4
<1>3. k \in Heights
  <2> HIDE DEF Heights
  <2> QED BY <1>1, <1>2, SetInduction
<1> QED BY <1>3

\* The hashes verifyProof computes from a leaf and the first k siblings of a proof.
HashesUpTo(f, leaf, proof, k) ==
    f = [i \in 0..k |-> IF i = 0 THEN leaf ELSE hashPair(f[i - 1], proof[i])]

LEMMA HashesExist ==
    ASSUME NEW leaf, NEW proof, NEW k \in Nat
    PROVE  \E f : HashesUpTo(f, leaf, proof, k)
<1> DEFINE Heights == { n \in Nat : \E f : HashesUpTo(f, leaf, proof, n) }
<1>1. 0 \in Heights
  <2>1. HashesUpTo([i \in 0..0 |-> leaf], leaf, proof, 0)
    BY DEF HashesUpTo
  <2> QED BY <2>1
<1>2. ASSUME NEW n \in Nat, n \in Heights
      PROVE  n + 1 \in Heights
  <2>1. PICK a : HashesUpTo(a, leaf, proof, n)
    BY <1>2
  <2> DEFINE b == [i \in 0..(n + 1) |-> IF i <= n THEN a[i] ELSE hashPair(a[n], proof[i])]
  <2>2. ASSUME NEW i \in 0..(n + 1)
        PROVE  b[i] = IF i = 0 THEN leaf ELSE hashPair(b[i - 1], proof[i])
    <3>1. CASE i = n + 1
      BY <3>1
    <3>2. CASE i # n + 1
      <4>1. i \in 0..n /\ b[i] = a[i] /\ (i # 0 => i - 1 \in 0..n /\ b[i - 1] = a[i - 1])
        BY <3>2
      <4>2. a[i] = IF i = 0 THEN leaf ELSE hashPair(a[i - 1], proof[i])
        BY <2>1, <4>1 DEF HashesUpTo
      <4> QED BY <4>1, <4>2
    <3> QED BY <3>1, <3>2
  <2>3. b = [i \in 0..(n + 1) |-> IF i = 0 THEN leaf ELSE hashPair(b[i - 1], proof[i])]
    <3>1. b = [i \in 0..(n + 1) |-> b[i]]
      OBVIOUS
    <3> HIDE DEF b
    <3> QED BY <2>2, <3>1
  <2>4. HashesUpTo(b, leaf, proof, n + 1)
    BY <2>3 DEF HashesUpTo
  <2> QED BY <2>4
<1>3. k \in Heights
  <2> HIDE DEF Heights
  <2> QED BY <1>1, <1>2, SetInduction
<1> QED BY <1>3

\* One level of a proof: the node at position i and its sibling hash to the node above them.
LevelOf(l, i) ==
    LET pairIndex == IF i % 2 = 1 THEN i - 1 ELSE i + 1
    IN  l[IF pairIndex < Len(l) THEN pairIndex + 1 ELSE i + 1]

LEMMA SiblingsHashUp ==
    ASSUME NEW l, NEW h \in Nat, IsLayer(l, h), NEW i \in Nat, i < Len(l)
    PROVE  /\ i \div 2 \in Nat /\ i \div 2 < Len(NextLayer(l))
           /\ hashPair(l[i + 1], LevelOf(l, i)) = NextLayer(l)[(i \div 2) + 1]
<1>1. PICK n \in Nat \ {0} : n = Len(l)
  BY DEF IsLayer
<1>2. DOMAIN l = 1..n /\ \A k \in 1..n : l[k][1] = h
  BY <1>1 DEF IsLayer
<1>3. PICK j \in Nat : j = i \div 2
  OBVIOUS
<1>4. Len(NextLayer(l)) = (n + 1) \div 2
  BY <1>1, NextLayerShape
<1>5. j < (n + 1) \div 2
  BY <1>1, <1>3
<1>6. NextLayer(l)[j + 1] =
        hashPair(l[2 * (j + 1) - 1],
                 l[IF 2 * (j + 1) <= n THEN 2 * (j + 1) ELSE 2 * (j + 1) - 1])
  <2>1. j + 1 \in 1..((n + 1) \div 2)
    BY <1>5
  <2> QED BY <1>1, <2>1 DEF NextLayer
<1>7. CASE i % 2 = 1
  <2>1. i = 2 * j + 1
    BY <1>3, <1>7
  <2>2. i - 1 < n /\ (i - 1) + 1 = i
    BY <1>1
  <2>3. LevelOf(l, i) = l[i]
    BY <1>1, <1>7, <2>2 DEF LevelOf
  <2>4. NextLayer(l)[j + 1] = hashPair(l[i], l[i + 1])
    <3>1. 2 * (j + 1) - 1 = i /\ 2 * (j + 1) = i + 1 /\ i + 1 <= n
      BY <1>1, <2>1
    <3> QED BY <1>6, <3>1
  <2>5. l[i][1] = l[i + 1][1]
    <3>1. i \in 1..n /\ i + 1 \in 1..n
      BY <1>1, <2>1
    <3> QED BY <1>2, <3>1
  <2>6. {l[i], l[i + 1]} = {l[i + 1], l[i]}
    OBVIOUS
  <2> QED BY <1>1, <1>3, <1>4, <1>5, <2>3, <2>4, <2>5, <2>6 DEF hashPair
<1>8. CASE i % 2 # 1
  <2>1. i = 2 * j
    BY <1>3, <1>8
  <2>2. LevelOf(l, i) = l[IF i + 1 < n THEN i + 2 ELSE i + 1]
    BY <1>1, <1>8 DEF LevelOf
  <2>3. NextLayer(l)[j + 1] = hashPair(l[i + 1], l[IF i + 1 < n THEN i + 2 ELSE i + 1])
    <3>1. 2 * (j + 1) - 1 = i + 1 /\ 2 * (j + 1) = i + 2 /\ (i + 2 <= n <=> i + 1 < n)
      BY <1>1, <2>1
    <3> QED BY <1>6, <3>1
  <2> QED BY <1>1, <1>3, <1>4, <1>5, <2>2, <2>3
<1> QED BY <1>7, <1>8

\* The proof of every leaf of a tree verifies against the root of that tree.
THEOREM DenseTreeVerifies ==
    ASSUME NEW leaves, IsLeaves(leaves), NEW index \in Nat, index < Len(leaves)
    PROVE  verifyProof(leaves[index + 1], getProof(leaves, index), buildMerkleTree(leaves))
<1> DEFINE H == Height(leaves)
           proof == getProof(leaves, index)
           idx == CHOOSE f : PathUpTo(f, index, H)
           computed == CHOOSE f : HashesUpTo(f, leaves[index + 1], proof, H)
<1>1. H \in Nat /\ Len(Layer(leaves, H)) = 1
  BY HeightFacts
<1>2. PathUpTo(idx, index, H)
  BY <1>1, PathsExist
<1>3. proof = [k \in 1..H |-> LevelOf(Layer(leaves, k - 1), idx[k - 1])]
  BY DEF getProof, LevelOf, PathUpTo
<1>4. Len(proof) = H
  <2> HIDE DEF H, proof, idx
  <2> QED BY <1>1, <1>3
<1>5. HashesUpTo(computed, leaves[index + 1], proof, H)
  BY <1>1, HashesExist
<1>6. verifyProof(leaves[index + 1], proof, buildMerkleTree(leaves))
          <=> computed[H] = Layer(leaves, H)[1]
  BY <1>4 DEF verifyProof, HashesUpTo, buildMerkleTree
<1> HIDE DEF H, proof, idx, computed
<1> DEFINE Met == { k \in Nat : k <= H =>
                       /\ idx[k] \in Nat /\ idx[k] < Len(Layer(leaves, k))
                       /\ computed[k] = Layer(leaves, k)[idx[k] + 1] }
<1>7. 0 \in Met
  <2>1. idx[0] = index
    BY <1>1, <1>2 DEF PathUpTo
  <2>2. computed[0] = leaves[index + 1]
    BY <1>1, <1>5 DEF HashesUpTo
  <2>3. Layer(leaves, 0) = leaves
    BY LayerUnfolds
  <2> QED BY <2>1, <2>2, <2>3
<1>8. ASSUME NEW k \in Nat, k \in Met
      PROVE  k + 1 \in Met
  <2> SUFFICES ASSUME k + 1 <= H
               PROVE  /\ idx[k + 1] \in Nat /\ idx[k + 1] < Len(Layer(leaves, k + 1))
                      /\ computed[k + 1] = Layer(leaves, k + 1)[idx[k + 1] + 1]
    OBVIOUS
  <2>1. PICK l : l = Layer(leaves, k)
    OBVIOUS
  <2>2. PICK i \in Nat : i = idx[k]
    BY <1>1, <1>8
  <2>3. i < Len(l) /\ computed[k] = l[i + 1]
    BY <1>1, <1>8, <2>1, <2>2
  <2>4. IsLayer(l, k) /\ Layer(leaves, k + 1) = NextLayer(l)
    BY <2>1, LayersShrink
  <2>5. /\ i \div 2 \in Nat /\ i \div 2 < Len(NextLayer(l))
        /\ hashPair(l[i + 1], LevelOf(l, i)) = NextLayer(l)[(i \div 2) + 1]
    BY <2>3, <2>4, SiblingsHashUp
  <2>6. idx[k + 1] = i \div 2
    BY <1>1, <1>2, <2>2 DEF PathUpTo
  <2>7. proof[k + 1] = LevelOf(l, i)
    BY <1>1, <1>3, <2>1, <2>2
  <2>8. computed[k + 1] = hashPair(l[i + 1], LevelOf(l, i))
    BY <1>1, <1>5, <2>3, <2>7 DEF HashesUpTo
  <2> QED BY <2>4, <2>5, <2>6, <2>8
<1>9. H \in Met
  <2> HIDE DEF Met
  <2> QED BY <1>1, <1>7, <1>8, SetInduction
<1>10. idx[H] = 0
  <2>1. \A k \in Met : k <= H => idx[k] \in Nat /\ idx[k] < Len(Layer(leaves, k))
    OBVIOUS
  <2>2. H <= H
    BY <1>1
  <2> HIDE DEF Met
  <2>3. idx[H] \in Nat /\ idx[H] < 1
    BY <1>1, <1>9, <2>1, <2>2
  <2> QED BY <2>3
<1> QED BY <1>1, <1>6, <1>9, <1>10 DEF proof

-----------------------------------------------------------------------------
\* g gives the leaves under each node of a layer, and a layer is above every leaf.
Gathers(g, layer, leaves) ==
    /\ DOMAIN g = 1..Len(layer)
    /\ UNION { g[i] : i \in 1..Len(layer) } = { leaves[i] : i \in DOMAIN leaves }

\* Equal nodes are above the same leaves.
Agree(g, l, h, m) == \A i \in 1..Len(l), j \in 1..Len(m) : l[i] = m[j] => g[i] = h[j]

\* The leaves under a layer, from those under the layer below it.
Gathered(g, n) ==
    [i \in 1..((n + 1) \div 2) |-> g[2 * i - 1] \cup g[IF 2 * i <= n THEN 2 * i ELSE 2 * i - 1]]

LEMMA GatheredGathers ==
    ASSUME NEW l, NEW h \in Nat, IsLayer(l, h), NEW leaves, NEW g, Gathers(g, l, leaves)
    PROVE  Gathers(Gathered(g, Len(l)), NextLayer(l), leaves)
<1>1. PICK n \in Nat \ {0} : n = Len(l)
  BY DEF IsLayer
<1>2. PICK m \in Nat : m = (n + 1) \div 2
  OBVIOUS
<1>3. Len(NextLayer(l)) = m
  BY <1>1, <1>2, NextLayerShape
<1> DEFINE mate(i) == IF 2 * i <= n THEN 2 * i ELSE 2 * i - 1
<1>4. PICK f : f = Gathered(g, n)
  OBVIOUS
<1>5. DOMAIN f = 1..m /\ \A i \in 1..m : f[i] = g[2 * i - 1] \cup g[mate(i)]
  BY <1>2, <1>4 DEF Gathered
<1>6. \A i \in 1..m : 2 * i - 1 \in 1..n /\ mate(i) \in 1..n
  BY <1>2
<1>7. \A j \in 1..n : \E i \in 1..m : j = 2 * i - 1 \/ j = mate(i)
  <2> SUFFICES ASSUME NEW j \in 1..n PROVE \E i \in 1..m : j = 2 * i - 1 \/ j = mate(i)
    OBVIOUS
  <2>1. PICK i \in Nat : i = (j + 1) \div 2
    OBVIOUS
  <2>2. i \in 1..m /\ (j = 2 * i - 1 \/ j = 2 * i)
    BY <1>2, <2>1
  <2> QED BY <2>2
<1>8. UNION { f[i] : i \in 1..m } = UNION { g[i] : i \in 1..n }
  <2> HIDE DEF mate
  <2>1. ASSUME NEW i \in 1..m, NEW x \in f[i]
        PROVE  \E j \in 1..n : x \in g[j]
    BY <1>5, <1>6
  <2>2. ASSUME NEW j \in 1..n, NEW x \in g[j]
        PROVE  \E i \in 1..m : x \in f[i]
    <3>1. PICK i \in 1..m : j = 2 * i - 1 \/ j = mate(i)
      BY <1>7
    <3>2. x \in g[2 * i - 1] \/ x \in g[mate(i)]
      BY <2>2, <3>1
    <3> QED BY <1>5, <3>2
  <2>3. \A x : (\E i \in 1..m : x \in f[i]) <=> \E j \in 1..n : x \in g[j]
    BY <2>1, <2>2, Zenon
  <2> QED BY <2>3, Zenon
<1>9. UNION { g[i] : i \in 1..n } = { leaves[i] : i \in DOMAIN leaves }
  BY <1>1, Zenon DEF Gathers
<1>10. Gathers(f, NextLayer(l), leaves)
  BY <1>3, <1>5, <1>8, <1>9, Zenon DEF Gathers
<1> QED BY <1>1, <1>4, <1>10

LEMMA GatheredAgree ==
    ASSUME NEW l, NEW k \in Nat, IsLayer(l, k), NEW m, IsLayer(m, k), NEW g, NEW h,
           Agree(g, l, h, m)
    PROVE  Agree(Gathered(g, Len(l)), NextLayer(l), Gathered(h, Len(m)), NextLayer(m))
<1>1. PICK a \in Nat \ {0}, b \in Nat \ {0} : a = Len(l) /\ b = Len(m)
  BY DEF IsLayer
<1>2. Len(NextLayer(l)) = (a + 1) \div 2 /\ Len(NextLayer(m)) = (b + 1) \div 2
  BY <1>1, NextLayerShape
<1> DEFINE mate(i, n) == IF 2 * i <= n THEN 2 * i ELSE 2 * i - 1
<1> SUFFICES ASSUME NEW i \in 1..((a + 1) \div 2), NEW j \in 1..((b + 1) \div 2),
                    NextLayer(l)[i] = NextLayer(m)[j]
             PROVE  Gathered(g, a)[i] = Gathered(h, b)[j]
  BY <1>1, <1>2 DEF Agree
<1>3. PICK i1 \in 1..a, i2 \in 1..a, j1 \in 1..b, j2 \in 1..b :
          i1 = 2 * i - 1 /\ i2 = mate(i, a) /\ j1 = 2 * j - 1 /\ j2 = mate(j, b)
  OBVIOUS
<1>4. NextLayer(l)[i] = hashPair(l[i1], l[i2]) /\ NextLayer(m)[j] = hashPair(m[j1], m[j2])
  BY <1>1, <1>3 DEF NextLayer
<1>5. {l[i1], l[i2]} = {m[j1], m[j2]}
  <2>1. hashPair(l[i1], l[i2]) = hashPair(m[j1], m[j2])
    BY <1>4
  <2>2. \A v, w, x, y : hashPair(v, w) = hashPair(x, y) => {v, w} = {x, y}
    BY DEF hashPair
  <2> QED BY <2>1, <2>2
<1>6. Gathered(g, a)[i] = g[i1] \cup g[i2] /\ Gathered(h, b)[j] = h[j1] \cup h[j2]
  BY <1>3 DEF Gathered
<1>7. /\ \/ l[i1] = m[j1] /\ l[i2] = m[j2]
         \/ l[i1] = m[j2] /\ l[i2] = m[j1]
  BY <1>5
<1>8. \A x \in 1..a, y \in 1..b : l[x] = m[y] => g[x] = h[y]
  BY <1>1 DEF Agree
<1> QED BY <1>6, <1>7, <1>8

LeafSet(l) == { l[i] : i \in DOMAIN l }

\* merkleTree.ts, buildMerkleTree: two lists of leaves with the same root hold the same leaves.
\* Their order may differ, and so may how often one occurs at the end: hashPair sorts its
\* operands, and an odd layer pairs its last node with itself.
THEOREM DenseRootNamesItsLeaves ==
    ASSUME NEW a, IsLeaves(a), NEW b, IsLeaves(b), buildMerkleTree(a) = buildMerkleTree(b)
    PROVE  LeafSet(a) = LeafSet(b)
<1> DEFINE Good == { k \in Nat : \E g, h :
                        /\ Gathers(g, Layer(a, k), a) /\ Gathers(h, Layer(b, k), b)
                        /\ Agree(g, Layer(a, k), h, Layer(b, k)) }
<1>1. 0 \in Good
  <2>1. PICK n \in Nat, m \in Nat : n = Len(a) /\ m = Len(b) /\ DOMAIN a = 1..n /\ DOMAIN b = 1..m
    BY DEF IsLeaves
  <2> DEFINE g == [i \in 1..n |-> {a[i]}]
             h == [i \in 1..m |-> {b[i]}]
  <2>2. Gathers(g, a, a) /\ Gathers(h, b, b) /\ Agree(g, a, h, b)
    BY <2>1 DEF Gathers, Agree
  <2>3. Layer(a, 0) = a /\ Layer(b, 0) = b
    BY LayerUnfolds
  <2> HIDE DEF g, h
  <2> QED BY <2>2, <2>3
<1>2. ASSUME NEW k \in Nat, k \in Good
      PROVE  k + 1 \in Good
  <2>1. PICK l, m : l = Layer(a, k) /\ m = Layer(b, k)
    OBVIOUS
  <2>2. PICK g, h : Gathers(g, l, a) /\ Gathers(h, m, b) /\ Agree(g, l, h, m)
    BY <1>2, <2>1
  <2>3. IsLayer(l, k) /\ IsLayer(m, k)
    BY <2>1, LayersShrink
  <2>4. Layer(a, k + 1) = NextLayer(l) /\ Layer(b, k + 1) = NextLayer(m)
    BY <2>1, LayerUnfolds
  <2>5. /\ Gathers(Gathered(g, Len(l)), NextLayer(l), a)
        /\ Gathers(Gathered(h, Len(m)), NextLayer(m), b)
    BY <2>2, <2>3, GatheredGathers
  <2>6. Agree(Gathered(g, Len(l)), NextLayer(l), Gathered(h, Len(m)), NextLayer(m))
    BY <2>2, <2>3, GatheredAgree
  <2> QED BY <2>4, <2>5, <2>6
<1>3. PICK k \in Nat, o \in Nat : k = Height(a) /\ o = Height(b)
  BY HeightFacts
<1>4. /\ Len(Layer(a, k)) = 1 /\ Len(Layer(b, o)) = 1
      /\ Layer(a, k)[1] = Layer(b, o)[1]
  BY <1>3, HeightFacts DEF buildMerkleTree
<1>5. k = o
  <2>1. IsLayer(Layer(a, k), k) /\ IsLayer(Layer(b, o), o)
    BY LayersShrink
  <2>2. Layer(a, k)[1][1] = k /\ Layer(b, o)[1][1] = o
    <3>1. 1 \in DOMAIN Layer(a, k) /\ 1 \in DOMAIN Layer(b, o)
      BY <1>4, <2>1 DEF IsLayer
    <3> QED BY <2>1, <3>1 DEF IsLayer
  <2> QED BY <1>4, <2>2
<1>6. k \in Good
  <2> HIDE DEF Good
  <2> QED BY <1>1, <1>2, SetInduction
<1>7. PICK g, h : /\ Gathers(g, Layer(a, k), a) /\ Gathers(h, Layer(b, k), b)
                  /\ Agree(g, Layer(a, k), h, Layer(b, k))
  BY <1>6
<1>8. g[1] = h[1]
  BY <1>4, <1>5, <1>7 DEF Agree
<1>9. /\ UNION { g[i] : i \in 1..1 } = { a[i] : i \in DOMAIN a }
      /\ UNION { h[i] : i \in 1..1 } = { b[i] : i \in DOMAIN b }
  BY <1>4, <1>5, <1>7 DEF Gathers
<1>10. { g[i] : i \in 1..1 } = { h[i] : i \in 1..1 }
  BY <1>8
<1> QED BY <1>9, <1>10 DEF LeafSet

-----------------------------------------------------------------------------
(***************************************************************************)
(* The sparse tree. Its recursive functions run over the heights 0..Depth.  *)
(***************************************************************************)
TwoToUpTo(f, k) == f = [n \in 0..k |-> IF n = 0 THEN 1 ELSE 2 * f[n - 1]]

LEMMA TwoToFacts ==
    /\ TwoTo[0] = 1 /\ \A n \in 0..(Depth - 1) : TwoTo[n + 1] = 2 * TwoTo[n]
    /\ \A n \in 0..Depth : TwoTo[n] \in Nat \ {0}
<1> DEFINE Heights == { n \in Nat : \E f : TwoToUpTo(f, n) }
<1>1. 0 \in Heights
  <2>1. TwoToUpTo([n \in 0..0 |-> 1], 0)
    BY DEF TwoToUpTo
  <2> QED BY <2>1
<1>2. ASSUME NEW n \in Nat, n \in Heights
      PROVE  n + 1 \in Heights
  <2>1. PICK a : TwoToUpTo(a, n)
    BY <1>2
  <2> DEFINE b == [i \in 0..(n + 1) |-> IF i <= n THEN a[i] ELSE 2 * a[n]]
  <2>2. ASSUME NEW i \in 0..(n + 1)
        PROVE  b[i] = IF i = 0 THEN 1 ELSE 2 * b[i - 1]
    <3>1. CASE i = n + 1
      BY <3>1
    <3>2. CASE i # n + 1
      <4>1. i \in 0..n /\ b[i] = a[i] /\ (i # 0 => i - 1 \in 0..n /\ b[i - 1] = a[i - 1])
        BY <3>2
      <4>2. a[i] = IF i = 0 THEN 1 ELSE 2 * a[i - 1]
        BY <2>1, <4>1 DEF TwoToUpTo
      <4> QED BY <4>1, <4>2
    <3> QED BY <3>1, <3>2
  <2>3. b = [i \in 0..(n + 1) |-> IF i = 0 THEN 1 ELSE 2 * b[i - 1]]
    <3>1. b = [i \in 0..(n + 1) |-> b[i]]
      OBVIOUS
    <3> HIDE DEF b
    <3> QED BY <2>2, <3>1
  <2>4. TwoToUpTo(b, n + 1)
    BY <2>3 DEF TwoToUpTo
  <2> QED BY <2>4
<1>3. \E f : TwoToUpTo(f, Depth)
  <2> HIDE DEF Heights
  <2>1. Depth \in Heights
    BY <1>1, <1>2, SetInduction, DepthAssumption
  <2> QED BY <2>1 DEF Heights
<1>4. TwoToUpTo(TwoTo, Depth)
  BY <1>3 DEF TwoToUpTo, TwoTo
<1>5. PICK f : f = TwoTo
  OBVIOUS
<1>6. f[0] = 1 /\ \A n \in 0..(Depth - 1) : f[n + 1] = 2 * f[n]
  BY <1>4, <1>5, DepthAssumption DEF TwoToUpTo
<1> DEFINE Good == { n \in Nat : n <= Depth => f[n] \in Nat \ {0} }
<1>7. 0 \in Good /\ \A n \in Nat : n \in Good => n + 1 \in Good
  BY <1>6, DepthAssumption
<1>8. Nat \subseteq Good
  <2> HIDE DEF Good
  <2> QED BY <1>7, SetInduction
<1>9. \A n \in 0..Depth : f[n] \in Nat \ {0}
  BY <1>8, DepthAssumption
<1> QED BY <1>5, <1>6, <1>9

DefaultsUpTo(f, k) ==
    f = [h \in 0..k |-> IF h = 0 THEN <<0, <<>>>> ELSE smtNodeHash(f[h - 1], f[h - 1])]

LEMMA DefaultsUnfold ==
    /\ DEFAULT_HASHES[0] = <<0, <<>>>>
    /\ \A h \in 0..(Depth - 1) :
          DEFAULT_HASHES[h + 1] = smtNodeHash(DEFAULT_HASHES[h], DEFAULT_HASHES[h])
<1> DEFINE Heights == { n \in Nat : \E f : DefaultsUpTo(f, n) }
<1>1. 0 \in Heights
  <2>1. DefaultsUpTo([n \in 0..0 |-> <<0, <<>>>>], 0)
    BY DEF DefaultsUpTo
  <2> QED BY <2>1
<1>2. ASSUME NEW n \in Nat, n \in Heights
      PROVE  n + 1 \in Heights
  <2>1. PICK a : DefaultsUpTo(a, n)
    BY <1>2
  <2> DEFINE b == [i \in 0..(n + 1) |-> IF i <= n THEN a[i] ELSE smtNodeHash(a[n], a[n])]
  <2>2. ASSUME NEW i \in 0..(n + 1)
        PROVE  b[i] = IF i = 0 THEN <<0, <<>>>> ELSE smtNodeHash(b[i - 1], b[i - 1])
    <3>1. CASE i = n + 1
      BY <3>1
    <3>2. CASE i # n + 1
      <4>1. i \in 0..n /\ b[i] = a[i] /\ (i # 0 => i - 1 \in 0..n /\ b[i - 1] = a[i - 1])
        BY <3>2
      <4>2. a[i] = IF i = 0 THEN <<0, <<>>>> ELSE smtNodeHash(a[i - 1], a[i - 1])
        BY <2>1, <4>1 DEF DefaultsUpTo
      <4> QED BY <4>1, <4>2
    <3> QED BY <3>1, <3>2
  <2>3. b = [i \in 0..(n + 1) |->
                IF i = 0 THEN <<0, <<>>>> ELSE smtNodeHash(b[i - 1], b[i - 1])]
    <3>1. b = [i \in 0..(n + 1) |-> b[i]]
      OBVIOUS
    <3> HIDE DEF b
    <3> QED BY <2>2, <3>1
  <2>4. DefaultsUpTo(b, n + 1)
    BY <2>3 DEF DefaultsUpTo
  <2> QED BY <2>4
<1>3. \E f : DefaultsUpTo(f, Depth)
  <2> HIDE DEF Heights
  <2>1. Depth \in Heights
    BY <1>1, <1>2, SetInduction, DepthAssumption
  <2> QED BY <2>1 DEF Heights
<1>4. DefaultsUpTo(DEFAULT_HASHES, Depth)
  BY <1>3 DEF DefaultsUpTo, DEFAULT_HASHES
<1>5. PICK f : f = DEFAULT_HASHES
  OBVIOUS
<1>6. \A h \in 0..Depth : f[h] = IF h = 0 THEN <<0, <<>>>> ELSE smtNodeHash(f[h - 1], f[h - 1])
  BY <1>4, <1>5 DEF DefaultsUpTo
<1>7. f[0] = <<0, <<>>>>
  BY <1>6, DepthAssumption
<1>8. ASSUME NEW n \in 0..(Depth - 1)
      PROVE  f[n + 1] = smtNodeHash(f[n], f[n])
  <2>1. n + 1 \in 0..Depth /\ n + 1 # 0 /\ (n + 1) - 1 = n
    BY DepthAssumption
  <2> QED BY <1>6, <2>1
<1> QED BY <1>5, <1>7, <1>8

-----------------------------------------------------------------------------
\* The position at a height of a key's ancestor, and all positions at a height.
Up(key, l) == Prefix(key, Depth - l)

Row(l) == 0..(TwoTo[Depth - l] - 1)

LEMMA RowFacts ==
    ASSUME NEW l \in 0..(Depth - 1)
    PROVE  /\ \A p \in Row(l) :
                 /\ Sibling(p) \in Row(l) /\ Sibling(p) # p
                 /\ p \div 2 \in Row(l + 1) /\ Sibling(p) \div 2 = p \div 2
                 /\ p % 2 = 0 => p = 2 * (p \div 2) /\ Sibling(p) = 2 * (p \div 2) + 1
                 /\ p % 2 # 0 => p = 2 * (p \div 2) + 1 /\ Sibling(p) = 2 * (p \div 2)
           /\ \A q \in Row(l + 1) :
                 /\ 2 * q \in Row(l) /\ 2 * q + 1 \in Row(l)
                 /\ (2 * q) \div 2 = q /\ (2 * q + 1) \div 2 = q
<1>1. PICK w \in Nat \ {0} : w = TwoTo[Depth - (l + 1)]
  BY TwoToFacts, DepthAssumption
<1>2. TwoTo[Depth - l] = 2 * w
  <2>1. Depth - (l + 1) \in 0..(Depth - 1) /\ (Depth - (l + 1)) + 1 = Depth - l
    BY DepthAssumption
  <2> QED BY <1>1, <2>1, TwoToFacts
<1>3. Row(l) = 0..(2 * w - 1) /\ Row(l + 1) = 0..(w - 1)
  BY <1>1, <1>2 DEF Row
<1>4. ASSUME NEW p \in 0..(2 * w - 1)
      PROVE  /\ Sibling(p) \in 0..(2 * w - 1) /\ Sibling(p) # p
             /\ p \div 2 \in 0..(w - 1) /\ Sibling(p) \div 2 = p \div 2
             /\ p % 2 = 0 => p = 2 * (p \div 2) /\ Sibling(p) = 2 * (p \div 2) + 1
             /\ p % 2 # 0 => p = 2 * (p \div 2) + 1 /\ Sibling(p) = 2 * (p \div 2)
  <2>1. PICK q \in Nat : q = p \div 2
    OBVIOUS
  <2>2. CASE p % 2 = 0
    BY <2>1, <2>2 DEF Sibling
  <2>3. CASE p % 2 # 0
    BY <2>1, <2>3 DEF Sibling
  <2> QED BY <2>2, <2>3
<1>5. ASSUME NEW q \in 0..(w - 1)
      PROVE  /\ 2 * q \in 0..(2 * w - 1) /\ 2 * q + 1 \in 0..(2 * w - 1)
             /\ (2 * q) \div 2 = q /\ (2 * q + 1) \div 2 = q
  OBVIOUS
<1> QED BY <1>3, <1>4, <1>5

\* A key's path goes from its own leaf to the root, halving at every level.
LEMMA UpFacts ==
    ASSUME NEW k \in Keys
    PROVE  /\ Keys = Row(0) /\ Row(Depth) = {0}
           /\ Up(k, 0) = k /\ Up(k, Depth) = 0
           /\ \A l \in 0..Depth : Up(k, l) \in Row(l)
           /\ \A l \in 0..(Depth - 1) : Up(k, l + 1) = Up(k, l) \div 2
<1>1. Keys = Row(0)
  BY DepthAssumption DEF Keys, Row
<1>2. Row(Depth) = {0}
  BY TwoToFacts, DepthAssumption DEF Row
<1>3. \A l \in 0..Depth : Up(k, l) = k \div TwoTo[l]
  BY DepthAssumption DEF Up, Prefix
<1>4. k \in Nat
  BY TwoToFacts, DepthAssumption DEF Keys
<1>5. Up(k, 0) = k
  <2>1. Up(k, 0) = k \div 1
    BY <1>3, TwoToFacts, DepthAssumption
  <2> QED BY <1>4, <2>1
<1>6. ASSUME NEW l \in 0..(Depth - 1)
      PROVE  Up(k, l + 1) = Up(k, l) \div 2
  <2>1. l + 1 \in 0..Depth /\ l \in 0..Depth
    BY DepthAssumption
  <2>2. PICK w \in Nat \ {0} : w = TwoTo[l]
    BY <2>1, TwoToFacts
  <2>3. TwoTo[l + 1] = 2 * w
    BY <2>2, TwoToFacts
  <2>4. Up(k, l) = k \div w /\ Up(k, l + 1) = k \div (2 * w)
    BY <1>3, <2>1, <2>2, <2>3
  <2>5. (k \div w) \div 2 = k \div (2 * w)
    BY <1>4
  <2> QED BY <2>4, <2>5
<1> DEFINE Good == { l \in Nat : l <= Depth => Up(k, l) \in Row(l) }
<1>7. 0 \in Good
  BY <1>1, <1>5
<1>8. ASSUME NEW l \in Nat, l \in Good
      PROVE  l + 1 \in Good
  <2> SUFFICES ASSUME l + 1 <= Depth PROVE Up(k, l + 1) \in Row(l + 1)
    OBVIOUS
  <2>1. l \in 0..(Depth - 1) /\ Up(k, l) \in Row(l)
    BY <1>8, DepthAssumption
  <2> QED BY <1>6, <2>1, RowFacts
<1>9. \A l \in 0..Depth : Up(k, l) \in Row(l)
  <2>1. Nat \subseteq Good
    <3> HIDE DEF Good
    <3> QED BY <1>7, <1>8, SetInduction
  <2> QED BY <2>1, DepthAssumption
<1>10. Up(k, Depth) = 0
  BY <1>2, <1>9, DepthAssumption
<1> QED BY <1>1, <1>2, <1>5, <1>6, <1>9, <1>10

ClimbUpTo(f, key, leaf, sibling, k) ==
    f = [l \in 0..k |->
            IF l = 0 THEN leaf
            ELSE IF Prefix(key, Depth - l + 1) % 2 = 0
                 THEN smtNodeHash(f[l - 1], sibling[l - 1])
                 ELSE smtNodeHash(sibling[l - 1], f[l - 1])]

\* recomputePathToRoot and verifyAgainstRoot hash one level after the other.
LEMMA ClimbUnfolds ==
    ASSUME NEW key, NEW leaf, NEW sibling
    PROVE  /\ Climb(key, leaf, sibling)[0] = leaf
           /\ \A l \in 0..(Depth - 1) :
                 Climb(key, leaf, sibling)[l + 1] =
                     IF Up(key, l) % 2 = 0
                     THEN smtNodeHash(Climb(key, leaf, sibling)[l], sibling[l])
                     ELSE smtNodeHash(sibling[l], Climb(key, leaf, sibling)[l])
<1> DEFINE Above(c, l) == IF Prefix(key, Depth - l + 1) % 2 = 0
                          THEN smtNodeHash(c, sibling[l - 1])
                          ELSE smtNodeHash(sibling[l - 1], c)
           Heights == { n \in Nat : \E f : ClimbUpTo(f, key, leaf, sibling, n) }
<1>1. 0 \in Heights
  <2>1. ClimbUpTo([n \in 0..0 |-> leaf], key, leaf, sibling, 0)
    BY DEF ClimbUpTo
  <2> QED BY <2>1
<1>2. ASSUME NEW n \in Nat, n \in Heights
      PROVE  n + 1 \in Heights
  <2>1. PICK a : ClimbUpTo(a, key, leaf, sibling, n)
    BY <1>2
  <2>2. a = [i \in 0..n |-> IF i = 0 THEN leaf ELSE Above(a[i - 1], i)]
    BY <2>1 DEF ClimbUpTo
  <2> DEFINE b == [i \in 0..(n + 1) |-> IF i <= n THEN a[i] ELSE Above(a[n], n + 1)]
  <2> HIDE DEF Above
  <2>3. ASSUME NEW i \in 0..(n + 1)
        PROVE  b[i] = IF i = 0 THEN leaf ELSE Above(b[i - 1], i)
    <3>1. CASE i = n + 1
      BY <3>1
    <3>2. CASE i # n + 1
      <4>1. i \in 0..n /\ b[i] = a[i] /\ (i # 0 => i - 1 \in 0..n /\ b[i - 1] = a[i - 1])
        BY <3>2
      <4>2. a[i] = IF i = 0 THEN leaf ELSE Above(a[i - 1], i)
        BY <2>2, <4>1
      <4> QED BY <4>1, <4>2
    <3> QED BY <3>1, <3>2
  <2>4. b = [i \in 0..(n + 1) |-> IF i = 0 THEN leaf ELSE Above(b[i - 1], i)]
    <3>1. b = [i \in 0..(n + 1) |-> b[i]]
      OBVIOUS
    <3> HIDE DEF b
    <3> QED BY <2>3, <3>1
  <2> HIDE DEF b
  <2>5. ClimbUpTo(b, key, leaf, sibling, n + 1)
    BY <2>4 DEF ClimbUpTo, Above
  <2> QED BY <2>5
<1>3. \E f : ClimbUpTo(f, key, leaf, sibling, Depth)
  <2> HIDE DEF Heights
  <2>1. Depth \in Heights
    BY <1>1, <1>2, SetInduction, DepthAssumption
  <2> QED BY <2>1 DEF Heights
<1> DEFINE chosen == CHOOSE f : ClimbUpTo(f, key, leaf, sibling, Depth)
<1>4. ClimbUpTo(chosen, key, leaf, sibling, Depth)
  BY <1>3
<1>5. Climb(key, leaf, sibling) = chosen
  BY DEF Climb, ClimbUpTo
<1>6. PICK f : f = chosen
  OBVIOUS
<1> HIDE DEF chosen
<1>7. /\ f[0] = leaf
      /\ \A l \in 0..(Depth - 1) : f[l + 1] = Above(f[l], l + 1)
  BY <1>4, <1>6, DepthAssumption DEF ClimbUpTo
<1>8. \A l \in 0..(Depth - 1) : Depth - (l + 1) + 1 = Depth - l /\ (l + 1) - 1 = l
  BY DepthAssumption
<1>9. ASSUME NEW l \in 0..(Depth - 1)
      PROVE  f[l + 1] = IF Up(key, l) % 2 = 0 THEN smtNodeHash(f[l], sibling[l])
                        ELSE smtNodeHash(sibling[l], f[l])
  BY <1>7, <1>8 DEF Up
<1> QED BY <1>5, <1>6, <1>7, <1>9

NodesUpTo(f, leaf, k) ==
    f = [l \in 0..k |->
            [p \in Row(l) |->
                IF l = 0 THEN LeafNode(leaf, p)
                ELSE smtNodeHash(f[l - 1][2 * p], f[l - 1][2 * p + 1])]]

LEMMA CanonicalUnfolds ==
    ASSUME NEW leaf
    PROVE  /\ \A k \in Keys : CanonicalNodes(leaf)[0][k] = LeafNode(leaf, k)
           /\ \A l \in 0..(Depth - 1) : \A q \in Row(l + 1) :
                 CanonicalNodes(leaf)[l + 1][q] =
                     smtNodeHash(CanonicalNodes(leaf)[l][2 * q], CanonicalNodes(leaf)[l][2 * q + 1])
<1> DEFINE Level(g, l) == [p \in Row(l) |-> IF l = 0 THEN LeafNode(leaf, p)
                                            ELSE smtNodeHash(g[2 * p], g[2 * p + 1])]
           Heights == { n \in Nat : \E f : NodesUpTo(f, leaf, n) }
<1>1. 0 \in Heights
  <2> DEFINE a == [n \in 0..0 |-> Level({}, 0)]
  <2>1. NodesUpTo(a, leaf, 0)
    BY DEF NodesUpTo
  <2> QED BY <2>1
<1>2. ASSUME NEW n \in Nat, n \in Heights
      PROVE  n + 1 \in Heights
  <2>1. PICK a : NodesUpTo(a, leaf, n)
    BY <1>2
  <2>2. a = [i \in 0..n |-> Level(a[i - 1], i)]
    BY <2>1 DEF NodesUpTo
  <2> DEFINE b == [i \in 0..(n + 1) |-> IF i <= n THEN a[i] ELSE Level(a[n], n + 1)]
  <2>3. ASSUME NEW g, NEW h
        PROVE  Level(g, 0) = Level(h, 0)
    OBVIOUS
  <2> HIDE DEF Level
  <2>4. ASSUME NEW i \in 0..(n + 1)
        PROVE  b[i] = Level(b[i - 1], i)
    <3>1. CASE i = n + 1
      BY <3>1
    <3>2. CASE i # n + 1 /\ i # 0
      <4>1. i \in 0..n /\ b[i] = a[i] /\ i - 1 \in 0..n /\ b[i - 1] = a[i - 1]
        BY <3>2
      <4>2. a[i] = Level(a[i - 1], i)
        BY <2>2, <4>1
      <4> QED BY <4>1, <4>2
    <3>3. CASE i = 0
      <4>1. b[0] = a[0] /\ a[0] = Level(a[0 - 1], 0)
        BY <2>2
      <4> QED BY <2>3, <3>3, <4>1
    <3> QED BY <3>1, <3>2, <3>3
  <2>5. b = [i \in 0..(n + 1) |-> Level(b[i - 1], i)]
    <3>1. b = [i \in 0..(n + 1) |-> b[i]]
      OBVIOUS
    <3> HIDE DEF b
    <3> QED BY <2>4, <3>1
  <2> HIDE DEF b
  <2>6. NodesUpTo(b, leaf, n + 1)
    BY <2>5 DEF NodesUpTo, Level
  <2> QED BY <2>6
<1>3. \E f : NodesUpTo(f, leaf, Depth)
  <2> HIDE DEF Heights
  <2>1. Depth \in Heights
    BY <1>1, <1>2, SetInduction, DepthAssumption
  <2> QED BY <2>1 DEF Heights
<1> DEFINE chosen == CHOOSE f : NodesUpTo(f, leaf, Depth)
<1>4. NodesUpTo(chosen, leaf, Depth)
  BY <1>3
<1>5. CanonicalNodes(leaf) = chosen
  BY DEF CanonicalNodes, NodesUpTo, Row
<1>6. PICK f : f = chosen
  OBVIOUS
<1> HIDE DEF chosen
<1>7. \A l \in 0..Depth : f[l] = Level(f[l - 1], l)
  BY <1>4, <1>6 DEF NodesUpTo
<1>8. ASSUME NEW k \in Keys
      PROVE  f[0][k] = LeafNode(leaf, k)
  <2>1. f[0] = Level(f[0 - 1], 0) /\ k \in Row(0)
    BY <1>7, UpFacts, DepthAssumption
  <2> QED BY <2>1
<1>9. ASSUME NEW l \in 0..(Depth - 1), NEW q \in Row(l + 1)
      PROVE  f[l + 1][q] = smtNodeHash(f[l][2 * q], f[l][2 * q + 1])
  <2>1. l + 1 \in 0..Depth /\ l + 1 # 0 /\ (l + 1) - 1 = l
    BY DepthAssumption
  <2>2. f[l + 1] = Level(f[l], l + 1)
    BY <1>7, <2>1
  <2> QED BY <2>1, <2>2
<1> QED BY <1>5, <1>6, <1>8, <1>9

-----------------------------------------------------------------------------
LEMMA ParentNode ==
    ASSUME NEW leaf, NEW l \in 0..(Depth - 1), NEW p \in Row(l)
    PROVE  CanonicalNodes(leaf)[l + 1][p \div 2] =
               IF p % 2 = 0
               THEN smtNodeHash(CanonicalNodes(leaf)[l][p], CanonicalNodes(leaf)[l][Sibling(p)])
               ELSE smtNodeHash(CanonicalNodes(leaf)[l][Sibling(p)], CanonicalNodes(leaf)[l][p])
<1>1. PICK nodes : nodes = CanonicalNodes(leaf)
  OBVIOUS
<1>2. PICK q \in Row(l + 1) : q = p \div 2
  BY RowFacts
<1>3. nodes[l + 1][q] = smtNodeHash(nodes[l][2 * q], nodes[l][2 * q + 1])
  BY <1>1, CanonicalUnfolds
<1>4. CASE p % 2 = 0
  <2>1. p = 2 * q /\ Sibling(p) = 2 * q + 1
    BY <1>2, <1>4, RowFacts
  <2> QED BY <1>1, <1>2, <1>3, <1>4, <2>1
<1>5. CASE p % 2 # 0
  <2>1. p = 2 * q + 1 /\ Sibling(p) = 2 * q
    BY <1>2, <1>5, RowFacts
  <2> QED BY <1>1, <1>2, <1>3, <1>5, <2>1
<1> QED BY <1>4, <1>5

\* Hashing a leaf with the nodes beside its path gives the nodes on its path.
LEMMA ClimbIsCanonical ==
    ASSUME NEW leaf, NEW k \in Keys, NEW sibling,
           \A l \in 0..(Depth - 1) : sibling[l] = CanonicalNodes(leaf)[l][Sibling(Up(k, l))]
    PROVE  \A l \in 0..Depth :
              Climb(k, LeafNode(leaf, k), sibling)[l] = CanonicalNodes(leaf)[l][Up(k, l)]
<1>1. PICK nodes : nodes = CanonicalNodes(leaf)
  OBVIOUS
<1>2. PICK current : current = Climb(k, LeafNode(leaf, k), sibling)
  OBVIOUS
<1> DEFINE Good == { l \in Nat : l <= Depth => current[l] = nodes[l][Up(k, l)] }
<1>3. 0 \in Good
  BY <1>1, <1>2, ClimbUnfolds, CanonicalUnfolds, UpFacts
<1>4. ASSUME NEW l \in Nat, l \in Good
      PROVE  l + 1 \in Good
  <2> SUFFICES ASSUME l + 1 <= Depth PROVE current[l + 1] = nodes[l + 1][Up(k, l + 1)]
    OBVIOUS
  <2>1. l \in 0..(Depth - 1) /\ current[l] = nodes[l][Up(k, l)]
    BY <1>4, DepthAssumption
  <2>2. PICK p \in Row(l) : p = Up(k, l)
    BY <2>1, UpFacts, DepthAssumption
  <2>3. Up(k, l + 1) = p \div 2
    BY <2>1, <2>2, UpFacts
  <2>4. sibling[l] = nodes[l][Sibling(p)]
    BY <1>1, <2>1, <2>2
  <2>5. current[l + 1] = IF p % 2 = 0 THEN smtNodeHash(current[l], sibling[l])
                         ELSE smtNodeHash(sibling[l], current[l])
    BY <1>2, <2>1, <2>2, ClimbUnfolds
  <2>6. nodes[l + 1][p \div 2] = IF p % 2 = 0 THEN smtNodeHash(nodes[l][p], nodes[l][Sibling(p)])
                                 ELSE smtNodeHash(nodes[l][Sibling(p)], nodes[l][p])
    BY <1>1, <2>1, ParentNode
  <2> QED BY <2>1, <2>2, <2>3, <2>4, <2>5, <2>6
<1>5. \A l \in 0..Depth : current[l] = nodes[l][Up(k, l)]
  <2>1. Nat \subseteq Good
    <3> HIDE DEF Good
    <3> QED BY <1>3, <1>4, SetInduction
  <2> QED BY <2>1, DepthAssumption
<1> QED BY <1>1, <1>2, <1>5

\* Whatever siblings are claimed, only the tree's own leaf climbs to the tree's root.
LEMMA ClimbDetermines ==
    ASSUME NEW leaf, NEW k \in Keys, NEW x, NEW sibling,
           Climb(k, x, sibling)[Depth] = CanonicalRoot(leaf)
    PROVE  x = LeafNode(leaf, k)
<1>1. PICK nodes : nodes = CanonicalNodes(leaf)
  OBVIOUS
<1>2. PICK current : current = Climb(k, x, sibling)
  OBVIOUS
<1> DEFINE Good == { n \in Nat : n <= Depth =>
                        current[Depth - n] = nodes[Depth - n][Up(k, Depth - n)] }
<1>3. 0 \in Good
  BY <1>1, <1>2, UpFacts, DepthAssumption DEF CanonicalRoot
<1>4. ASSUME NEW n \in Nat, n \in Good
      PROVE  n + 1 \in Good
  <2> SUFFICES ASSUME n + 1 <= Depth
               PROVE  current[Depth - (n + 1)] = nodes[Depth - (n + 1)][Up(k, Depth - (n + 1))]
    OBVIOUS
  <2>1. PICK l \in 0..(Depth - 1) : l = Depth - (n + 1) /\ l + 1 = Depth - n
    BY DepthAssumption
  <2>2. PICK p \in Row(l) : p = Up(k, l)
    BY <2>1, UpFacts, DepthAssumption
  <2>3. Up(k, l + 1) = p \div 2
    BY <2>1, <2>2, UpFacts
  <2>4. current[l + 1] = nodes[l + 1][p \div 2]
    <3>1. n <= Depth
      BY DepthAssumption
    <3>2. current[Depth - n] = nodes[Depth - n][Up(k, Depth - n)]
      BY <1>4, <3>1
    <3> QED BY <2>1, <2>3, <3>2
  <2>5. current[l + 1] = IF p % 2 = 0 THEN smtNodeHash(current[l], sibling[l])
                         ELSE smtNodeHash(sibling[l], current[l])
    BY <1>2, <2>1, <2>2, ClimbUnfolds
  <2>6. nodes[l + 1][p \div 2] = IF p % 2 = 0 THEN smtNodeHash(nodes[l][p], nodes[l][Sibling(p)])
                                 ELSE smtNodeHash(nodes[l][Sibling(p)], nodes[l][p])
    BY <1>1, <2>1, ParentNode
  <2>7. \A a, b, c, d : smtNodeHash(a, b) = smtNodeHash(c, d) => a = c /\ b = d
    BY DEF smtNodeHash
  <2>8. current[l] = nodes[l][p]
    <3>1. CASE p % 2 = 0
      <4>1. smtNodeHash(current[l], sibling[l]) = smtNodeHash(nodes[l][p], nodes[l][Sibling(p)])
        BY <2>4, <2>5, <2>6, <3>1
      <4> QED BY <2>7, <4>1
    <3>2. CASE p % 2 # 0
      <4>1. smtNodeHash(sibling[l], current[l]) = smtNodeHash(nodes[l][Sibling(p)], nodes[l][p])
        BY <2>4, <2>5, <2>6, <3>2
      <4> QED BY <2>7, <4>1
    <3> QED BY <3>1, <3>2
  <2> QED BY <2>1, <2>2, <2>8
<1>5. current[0] = nodes[0][k]
  <2>1. Depth \in Good
    <3> HIDE DEF Good
    <3> QED BY <1>3, <1>4, SetInduction, DepthAssumption
  <2>2. Depth - Depth = 0 /\ Up(k, 0) = k
    BY UpFacts, DepthAssumption
  <2> QED BY <2>1, <2>2, DepthAssumption
<1> QED BY <1>1, <1>2, <1>5, ClimbUnfolds, CanonicalUnfolds

\* A leaf's change leaves every node beside its path as it was.
LEMMA OffPath ==
    ASSUME NEW leaf, NEW other, NEW k \in Keys, \A j \in Keys : j # k => other[j] = leaf[j]
    PROVE  \A l \in 0..Depth : \A p \in Row(l) :
              p # Up(k, l) => CanonicalNodes(other)[l][p] = CanonicalNodes(leaf)[l][p]
<1>1. PICK nodes : nodes = CanonicalNodes(leaf)
  OBVIOUS
<1>2. PICK others : others = CanonicalNodes(other)
  OBVIOUS
<1> DEFINE Same(l) == \A p \in Row(l) : p # Up(k, l) => others[l][p] = nodes[l][p]
           Good == { l \in Nat : l <= Depth => Same(l) }
<1>3. 0 \in Good
  <2>1. \A j \in Keys : j # k => LeafNode(other, j) = LeafNode(leaf, j)
    BY DEF LeafNode
  <2> QED BY <1>1, <1>2, <2>1, UpFacts, CanonicalUnfolds
<1>4. ASSUME NEW l \in Nat, l \in Good
      PROVE  l + 1 \in Good
  <2> SUFFICES ASSUME l + 1 <= Depth, NEW q \in Row(l + 1), q # Up(k, l + 1)
               PROVE  others[l + 1][q] = nodes[l + 1][q]
    OBVIOUS
  <2>1. l \in 0..(Depth - 1) /\ Same(l)
    BY <1>4, DepthAssumption
  <2>2. /\ 2 * q \in Row(l) /\ 2 * q + 1 \in Row(l)
        /\ (2 * q) \div 2 = q /\ (2 * q + 1) \div 2 = q
    BY <2>1, RowFacts
  <2>3. Up(k, l + 1) = Up(k, l) \div 2
    BY <2>1, UpFacts
  <2>4. 2 * q # Up(k, l) /\ 2 * q + 1 # Up(k, l)
    BY <2>2, <2>3
  <2>5. others[l][2 * q] = nodes[l][2 * q] /\ others[l][2 * q + 1] = nodes[l][2 * q + 1]
    BY <2>1, <2>2, <2>4
  <2> QED BY <1>1, <1>2, <2>1, <2>5, CanonicalUnfolds
<1>5. \A l \in 0..Depth : Same(l)
  <2>1. Nat \subseteq Good
    <3> HIDE DEF Good
    <3> QED BY <1>3, <1>4, SetInduction
  <2> QED BY <2>1, DepthAssumption
<1> QED BY <1>1, <1>2, <1>5

-----------------------------------------------------------------------------
\* The cache holds what a rebuild from the leaves would put there.
Canonical(t) ==
    \A l \in 1..Depth : \A p \in Row(l) : t.node[<<Depth - l, p>>] = CanonicalNodes(t.leaf)[l][p]

LEMMA NodeIdFacts ==
    /\ \A l \in 1..Depth : \A p \in Row(l) : <<Depth - l, p>> \in NodeIds
    /\ \A n \in NodeIds : /\ Depth - n[1] \in 1..Depth /\ n[1] \in 0..(Depth - 1)
                          /\ n[2] \in Row(Depth - n[1]) /\ n = <<n[1], n[2]>>
<1>1. ASSUME NEW l \in 1..Depth, NEW p \in Row(l)
      PROVE  <<Depth - l, p>> \in NodeIds
  <2>1. Depth - l \in 0..(Depth - 1)
    BY DepthAssumption
  <2> QED BY <2>1 DEF NodeIds, Row
<1>2. ASSUME NEW n \in NodeIds
      PROVE  /\ Depth - n[1] \in 1..Depth /\ n[1] \in 0..(Depth - 1)
             /\ n[2] \in Row(Depth - n[1]) /\ n = <<n[1], n[2]>>
  <2>1. PICK d \in 0..(Depth - 1) : n \in {d} \X (0..(TwoTo[d] - 1))
    BY DEF NodeIds
  <2>2. n = <<n[1], n[2]>> /\ n[1] = d /\ n[2] \in 0..(TwoTo[d] - 1)
    BY <2>1
  <2>3. Depth - d \in 1..Depth /\ Depth - (Depth - d) = d
    BY DepthAssumption
  <2> QED BY <2>2, <2>3 DEF Row
<1> QED BY <1>1, <1>2

LEMMA EmptyTreeIsCanonical == Canonical(EmptyTree)
<1>1. PICK leaf : leaf = EmptyTree.leaf
  OBVIOUS
<1>2. \A k \in Keys : LeafNode(leaf, k) = DEFAULT_HASHES[0]
  BY <1>1 DEF EmptyTree, LeafNode
<1>3. PICK nodes : nodes = CanonicalNodes(leaf)
  OBVIOUS
<1> DEFINE Good == { l \in Nat : l <= Depth => \A p \in Row(l) : nodes[l][p] = DEFAULT_HASHES[l] }
<1>4. 0 \in Good
  <2>1. Keys = Row(0)
    BY DepthAssumption DEF Keys, Row
  <2> QED BY <1>2, <1>3, <2>1, CanonicalUnfolds
<1>5. ASSUME NEW l \in Nat, l \in Good
      PROVE  l + 1 \in Good
  <2> SUFFICES ASSUME l + 1 <= Depth, NEW q \in Row(l + 1)
               PROVE  nodes[l + 1][q] = DEFAULT_HASHES[l + 1]
    OBVIOUS
  <2>1. l \in 0..(Depth - 1) /\ \A p \in Row(l) : nodes[l][p] = DEFAULT_HASHES[l]
    BY <1>5, DepthAssumption
  <2>2. 2 * q \in Row(l) /\ 2 * q + 1 \in Row(l)
    BY <2>1, RowFacts
  <2> QED BY <1>3, <2>1, <2>2, CanonicalUnfolds, DefaultsUnfold
<1>6. \A l \in 0..Depth : \A p \in Row(l) : nodes[l][p] = DEFAULT_HASHES[l]
  <2>1. Nat \subseteq Good
    <3> HIDE DEF Good
    <3> QED BY <1>4, <1>5, SetInduction
  <2> QED BY <2>1, DepthAssumption
<1>7. ASSUME NEW l \in 1..Depth, NEW p \in Row(l)
      PROVE  EmptyTree.node[<<Depth - l, p>>] = nodes[l][p]
  <2>1. <<Depth - l, p>> \in NodeIds
    BY NodeIdFacts
  <2>2. EmptyTree.node[<<Depth - l, p>>] = DEFAULT_HASHES[Depth - (Depth - l)]
    BY <2>1 DEF EmptyTree
  <2>3. Depth - (Depth - l) = l /\ l \in 0..Depth
    BY DepthAssumption
  <2> QED BY <1>6, <2>2, <2>3
<1> QED BY <1>1, <1>3, <1>7 DEF Canonical

\* What getNode answers beside a key's path: the leaf level reads as empty.
LEMMA SiblingsAreCanonical ==
    ASSUME NEW t, Canonical(t), NEW k \in Keys, t.leaf[Sibling(k)] = None
    PROVE  \A l \in 0..(Depth - 1) :
              siblings(t, k)[l] = CanonicalNodes(t.leaf)[l][Sibling(Up(k, l))]
<1> SUFFICES ASSUME NEW l \in 0..(Depth - 1)
             PROVE  siblings(t, k)[l] = CanonicalNodes(t.leaf)[l][Sibling(Up(k, l))]
  OBVIOUS
<1>1. PICK p : p = Sibling(Up(k, l))
  OBVIOUS
<1>2. p \in Row(l)
  BY <1>1, UpFacts, RowFacts, DepthAssumption
<1>3. siblings(t, k)[l] = getNode(t, Depth - l, p)
  BY <1>1 DEF siblings, Up
<1>4. CASE l = 0
  <2>1. p = Sibling(k) /\ p \in Keys /\ Depth - l = Depth
    BY <1>1, <1>2, <1>4, UpFacts, DepthAssumption
  <2>2. getNode(t, Depth - l, p) = DEFAULT_HASHES[0]
    BY <2>1 DEF getNode
  <2>3. LeafNode(t.leaf, p) = DEFAULT_HASHES[0]
    BY <2>1 DEF LeafNode
  <2> QED BY <1>1, <1>3, <1>4, <2>1, <2>2, <2>3, CanonicalUnfolds
<1>5. CASE l # 0
  <2>1. l \in 1..Depth /\ Depth - l # Depth
    BY <1>5, DepthAssumption
  <2>2. getNode(t, Depth - l, p) = t.node[<<Depth - l, p>>]
    BY <2>1 DEF getNode
  <2> QED BY <1>1, <1>2, <1>3, <2>1, <2>2 DEF Canonical
<1> QED BY <1>4, <1>5

\* One path is all a changed leaf changes.
LEMMA UpdateIsCanonical ==
    ASSUME NEW t, Canonical(t), NEW k \in Keys, t.leaf[Sibling(k)] = None,
           t.leaf = [j \in Keys |-> t.leaf[j]], NEW value, NEW x,
           x = LeafNode([t.leaf EXCEPT ![k] = value], k)
    PROVE  Canonical([leaf |-> [t.leaf EXCEPT ![k] = value], node |-> recomputePathToRoot(t, k, x)])
<1>1. PICK leaf : leaf = [t.leaf EXCEPT ![k] = value]
  OBVIOUS
<1>2. \A j \in Keys : j # k => leaf[j] = t.leaf[j]
  BY <1>1
<1>3. PICK sibling : sibling = siblings(t, k)
  OBVIOUS
<1>4. \A l \in 0..(Depth - 1) : sibling[l] = CanonicalNodes(leaf)[l][Sibling(Up(k, l))]
  <2> SUFFICES ASSUME NEW l \in 0..(Depth - 1)
               PROVE  sibling[l] = CanonicalNodes(leaf)[l][Sibling(Up(k, l))]
    OBVIOUS
  <2>1. PICK p \in Row(l) : p = Up(k, l)
    BY UpFacts, DepthAssumption
  <2>2. Sibling(p) \in Row(l) /\ Sibling(p) # p
    BY RowFacts
  <2>3. CanonicalNodes(leaf)[l][Sibling(p)] = CanonicalNodes(t.leaf)[l][Sibling(p)]
    BY <1>2, <2>1, <2>2, OffPath, DepthAssumption
  <2> QED BY <1>3, <2>1, <2>3, SiblingsAreCanonical
<1>5. PICK hash : hash = Path(t, k, x)
  OBVIOUS
<1>6. \A l \in 0..Depth : hash[l] = CanonicalNodes(leaf)[l][Up(k, l)]
  BY <1>1, <1>3, <1>4, <1>5, ClimbIsCanonical DEF Path
<1>7. PICK node : node = recomputePathToRoot(t, k, x)
  OBVIOUS
<1>8. ASSUME NEW l \in 1..Depth, NEW p \in Row(l)
      PROVE  node[<<Depth - l, p>>] = CanonicalNodes(leaf)[l][p]
  <2>1. <<Depth - l, p>> \in NodeIds
    BY NodeIdFacts
  <2>2. Depth - (Depth - l) = l /\ l \in 0..Depth
    BY DepthAssumption
  <2>3. node[<<Depth - l, p>>] = IF p = Up(k, l) THEN hash[l] ELSE t.node[<<Depth - l, p>>]
    BY <1>5, <1>7, <2>1, <2>2 DEF recomputePathToRoot, Up
  <2>4. CASE p = Up(k, l)
    BY <1>6, <2>2, <2>3, <2>4
  <2>5. CASE p # Up(k, l)
    <3>1. CanonicalNodes(leaf)[l][p] = CanonicalNodes(t.leaf)[l][p]
      BY <1>2, <2>2, <2>5, OffPath
    <3> QED BY <2>3, <2>5, <3>1 DEF Canonical
  <2> QED BY <2>4, <2>5
<1> QED BY <1>1, <1>7, <1>8 DEF Canonical

-----------------------------------------------------------------------------
Occupied(t) == { k \in Keys : t.leaf[k] # None }

LEMMA SiblingIsVacant ==
    ASSUME NEW t, NEW k \in Occupied(t), SiblingFree(Occupied(t))
    PROVE  t.leaf[Sibling(k)] = None
<1>1. Keys = Row(0)
  BY DepthAssumption DEF Keys, Row
<1>2. Sibling(k) \in Keys /\ Sibling(k) # k /\ Sibling(k) \div 2 = k \div 2
  <2>1. 0 \in 0..(Depth - 1)
    BY DepthAssumption
  <2>2. k \in Row(0)
    BY <1>1 DEF Occupied
  <2>3. Sibling(k) \in Row(0) /\ Sibling(k) # k /\ Sibling(k) \div 2 = k \div 2
    BY <2>1, <2>2, RowFacts
  <2> QED BY <1>1, <2>3
<1> QED BY <1>2 DEF SiblingFree, Occupied

LEMMA InsertIsCanonical ==
    ASSUME NEW t, Canonical(t), t.leaf = [j \in Keys |-> t.leaf[j]],
           NEW k \in Keys, t.leaf[Sibling(k)] = None, NEW v, v # None
    PROVE  Canonical(insert(t, k, v))
<1>1. leafHash(k, v) = LeafNode([t.leaf EXCEPT ![k] = v], k)
  BY DEF LeafNode
<1> QED BY <1>1, UpdateIsCanonical DEF insert

\* Beside an occupied leaf, getNode reads an empty one: an insertion keeps its own leaf, and the
\* cache forgets the one beside it.
LEMMA InsertForgetsTheSibling ==
    ASSUME NEW t, NEW f, f = [j \in Keys |-> f[j]], Canonical([leaf |-> f, node |-> t.node]),
           NEW k \in Keys, NEW v, v # None
    PROVE  Canonical([leaf |-> [f EXCEPT ![Sibling(k)] = None, ![k] = v],
                      node |-> insert(t, k, v).node])
<1>1. PICK s : s = Sibling(k)
  OBVIOUS
<1>2. s \in Keys /\ s # k /\ Keys = Row(0) /\ 0 \in 0..(Depth - 1)
  BY <1>1, UpFacts, RowFacts, DepthAssumption
<1>3. PICK held : held = [f EXCEPT ![s] = None]
  OBVIOUS
<1>4. /\ held = [j \in Keys |-> held[j]] /\ held[s] = None
      /\ \A j \in Keys : j # s => held[j] = f[j]
  BY <1>2, <1>3
<1>5. PICK node : node = [n \in NodeIds |-> CanonicalNodes(held)[Depth - n[1]][n[2]]]
  OBVIOUS
<1>6. PICK u : u = [leaf |-> held, node |-> node]
  OBVIOUS
<1>7. Canonical(u)
  <2>1. ASSUME NEW l \in 1..Depth, NEW p \in Row(l)
        PROVE  node[<<Depth - l, p>>] = CanonicalNodes(held)[l][p]
    <3>1. <<Depth - l, p>> \in NodeIds /\ Depth - (Depth - l) = l
      BY NodeIdFacts, DepthAssumption
    <3> QED BY <1>5, <3>1
  <2> QED BY <1>6, <2>1 DEF Canonical
<1>8. ASSUME NEW l \in 1..Depth, NEW p \in Row(l), p # Up(k, l)
      PROVE  node[<<Depth - l, p>>] = t.node[<<Depth - l, p>>]
  <2>1. Up(s, l) = Up(k, l)
    <3>1. Up(s, 0) = s /\ Up(k, 0) = k /\ s \div 2 = k \div 2
      BY <1>1, <1>2, UpFacts, RowFacts
    <3> DEFINE Good == { m \in Nat : m + 1 <= Depth => Up(s, m + 1) = Up(k, m + 1) }
    <3>2. 0 \in Good
      BY <1>2, <3>1, UpFacts
    <3>3. ASSUME NEW m \in Nat, m \in Good PROVE m + 1 \in Good
      <4> SUFFICES ASSUME m + 2 <= Depth PROVE Up(s, m + 2) = Up(k, m + 2)
        OBVIOUS
      <4>1. Up(s, m + 1) = Up(k, m + 1) /\ m + 1 \in 0..(Depth - 1) /\ (m + 1) + 1 = m + 2
        BY <3>3, DepthAssumption
      <4> QED BY <1>2, <4>1, UpFacts
    <3>4. Nat \subseteq Good
      <4> HIDE DEF Good
      <4> QED BY <3>2, <3>3, SetInduction
    <3>5. l - 1 \in Nat /\ (l - 1) + 1 = l /\ l <= Depth
      BY DepthAssumption
    <3> QED BY <3>4, <3>5
  <2>2. l \in 0..Depth
    BY DepthAssumption
  <2>3. CanonicalNodes(held)[l][p] = CanonicalNodes(f)[l][p]
    BY <1>2, <1>4, <1>8, <2>1, <2>2, OffPath
  <2>4. node[<<Depth - l, p>>] = CanonicalNodes(held)[l][p]
    BY <1>6, <1>7 DEF Canonical
  <2>5. t.node[<<Depth - l, p>>] = CanonicalNodes(f)[l][p]
    BY DEF Canonical
  <2> QED BY <2>3, <2>4, <2>5
<1>9. siblings(u, k) = siblings(t, k)
  <2>1. ASSUME NEW l \in 0..(Depth - 1)
        PROVE  getNode(u, Depth - l, Sibling(Up(k, l))) = getNode(t, Depth - l, Sibling(Up(k, l)))
    <3>1. CASE l = 0
      BY <3>1, DepthAssumption DEF getNode
    <3>2. CASE l # 0
      <4>1. l \in 1..Depth /\ Depth - l # Depth /\ Up(k, l) \in Row(l)
        BY <3>2, UpFacts, DepthAssumption
      <4>2. Sibling(Up(k, l)) \in Row(l) /\ Sibling(Up(k, l)) # Up(k, l)
        BY <4>1, RowFacts
      <4> QED BY <1>6, <1>8, <4>1, <4>2 DEF getNode
    <3> QED BY <3>1, <3>2
  <2> QED BY <2>1 DEF siblings, Up
<1>10. PICK x : x = leafHash(k, v)
  OBVIOUS
<1>11. recomputePathToRoot(u, k, x) = recomputePathToRoot(t, k, x)
  <2>1. PICK hash : hash = Path(u, k, x)
    OBVIOUS
  <2>2. hash = Path(t, k, x)
    BY <1>9, <2>1 DEF Path
  <2>3. ASSUME NEW n \in NodeIds, n[2] # Prefix(k, n[1])
        PROVE  u.node[n] = t.node[n]
    <3>1. PICK l \in 1..Depth : l = Depth - n[1]
      BY NodeIdFacts
    <3>2. Depth - l = n[1]
      BY <3>1, NodeIdFacts, DepthAssumption
    <3>3. n[2] \in Row(l) /\ n = <<Depth - l, n[2]>> /\ n[2] # Up(k, l)
      BY <2>3, <3>1, <3>2, NodeIdFacts DEF Up
    <3> QED BY <1>6, <1>8, <3>3
  <2> QED BY <2>1, <2>2, <2>3 DEF recomputePathToRoot
<1>12. x = LeafNode([u.leaf EXCEPT ![k] = v], k)
  BY <1>4, <1>6, <1>10 DEF LeafNode
<1>13. PICK after : after = recomputePathToRoot(t, k, x)
  OBVIOUS
<1>14. Canonical([leaf |-> [held EXCEPT ![k] = v], node |-> after])
  BY <1>1, <1>4, <1>6, <1>7, <1>11, <1>12, <1>13, UpdateIsCanonical
<1>15. insert(t, k, v).node = after
  BY <1>10, <1>13 DEF insert
<1> QED BY <1>1, <1>3, <1>14, <1>15

LEMMA DeleteIsCanonical ==
    ASSUME NEW t, Canonical(t), t.leaf = [j \in Keys |-> t.leaf[j]],
           NEW k \in Keys, t.leaf[Sibling(k)] = None
    PROVE  Canonical(delete(t, k))
<1>1. DEFAULT_HASHES[0] = LeafNode([t.leaf EXCEPT ![k] = None], k)
  BY DEF LeafNode
<1>2. CASE t.leaf[k] = None
  BY <1>2 DEF delete
<1>3. CASE t.leaf[k] # None
  BY <1>1, <1>3, UpdateIsCanonical DEF delete
<1> QED BY <1>2, <1>3

LEMMA CanonicalRoots ==
    ASSUME NEW t, Canonical(t)
    PROVE  Root(t) = CanonicalRoot(t.leaf)
<1>1. Depth \in 1..Depth /\ 0 \in Row(Depth) /\ Depth - Depth = 0
  BY TwoToFacts, DepthAssumption DEF Row
<1>2. t.node[<<Depth - Depth, 0>>] = CanonicalNodes(t.leaf)[Depth][0]
  BY <1>1 DEF Canonical
<1> QED BY <1>1, <1>2 DEF Root, CanonicalRoot

-----------------------------------------------------------------------------
\* How many members of S are at most its i-th: how the verifier counts the siblings it used.
LEMMA RankInAscending ==
    ASSUME NEW S \in SUBSET Nat, IsFiniteSet(S), NEW i \in DOMAIN Ascending(S)
    PROVE  Cardinality({ k \in S : k <= Ascending(S)[i] }) = i
<1>1. PICK s : s = Ascending(S)
  OBVIOUS
<1>2. PICK n \in Nat : n = Cardinality(S)
  BY AscendingFacts
<1>3. /\ DOMAIN s = 1..n /\ { s[j] : j \in 1..n } = S
      /\ \A a, b \in 1..n : a < b => s[a] < s[b]
  BY <1>1, <1>2, AscendingFacts
<1>4. i \in 1..n /\ \A j \in 1..n : s[j] \in S /\ s[j] \in Nat
  BY <1>1, <1>3
<1> DEFINE T == { k \in S : k <= s[i] }
           f == [j \in 1..i |-> s[j]]
<1>5. \A j \in 1..n : s[j] <= s[i] <=> j <= i
  <2> SUFFICES ASSUME NEW j \in 1..n PROVE s[j] <= s[i] <=> j <= i
    OBVIOUS
  <2>1. CASE j < i
    BY <1>3, <1>4, <2>1
  <2>2. CASE j = i
    BY <1>4, <2>2
  <2>3. CASE i < j
    BY <1>3, <1>4, <2>3
  <2> QED BY <1>4, <2>1, <2>2, <2>3
<1>6. T = { s[j] : j \in 1..i }
  BY <1>3, <1>4, <1>5
<1>7. IsFiniteSet(T) /\ IsFiniteSet(1..i) /\ Cardinality(1..i) = i
  <2>1. IsFiniteSet(T)
    <3>1. T \subseteq S
      OBVIOUS
    <3> HIDE DEF T
    <3> QED BY <3>1, FS_Subset
  <2> QED BY <1>4, <2>1, FS_Interval
<1>8. f \in [1..i -> T] /\ DOMAIN f = 1..i
  BY <1>6
<1>9. f \in Injection(1..i, T)
  <2>1. ASSUME NEW a \in 1..i, NEW b \in 1..i, f[a] = f[b]
        PROVE  a = b
    <3>1. a \in 1..n /\ b \in 1..n /\ s[a] = s[b]
      BY <1>4, <2>1
    <3>2. ~(a < b) /\ ~(b < a)
      BY <1>3, <1>4, <3>1
    <3> QED BY <3>1, <3>2
  <2> HIDE DEF f
  <2>2. IsInjective(f)
    BY <1>8, <2>1, Zenon DEF IsInjective
  <2> QED BY <1>8, <2>2, Zenon DEF Injection
<1>10. f \in Surjection(1..i, T)
  <2>1. \A x \in T : \E j \in 1..i : f[j] = x
    BY <1>6
  <2> HIDE DEF f, T
  <2> QED BY <1>8, <2>1, Zenon DEF Surjection
<1>11. Cardinality(T) = Cardinality(1..i)
  <2> HIDE DEF f, T
  <2> QED BY <1>7, <1>9, <1>10, FS_Injection
<1> QED BY <1>1, <1>7, <1>11

\* The verifier reads back, level by level, the siblings that buildProofBits wrote.
LEMMA ProofIsReadBack ==
    ASSUME NEW t, NEW k, NEW leaf, NEW root
    PROVE  verifyAgainstRoot(root, k, leaf, buildProofBits(t, k))
             <=> Climb(k, leaf, siblings(t, k))[Depth] = root
<1>1. PICK sibling : sibling = siblings(t, k)
  OBVIOUS
<1>2. sibling = [l \in 0..(Depth - 1) |-> sibling[l]]
  BY <1>1 DEF siblings
<1>3. PICK bitmap : bitmap = { l \in 0..(Depth - 1) : sibling[l] # DEFAULT_HASHES[l] }
  OBVIOUS
<1>4. bitmap \in SUBSET Nat /\ IsFiniteSet(bitmap)
  <2>1. bitmap \subseteq 0..(Depth - 1) /\ IsFiniteSet(0..(Depth - 1))
    BY <1>3, FS_Interval, DepthAssumption
  <2>2. IsFiniteSet(bitmap)
    BY <2>1, FS_Subset, Zenon
  <2> QED BY <2>1, <2>2
<1>5. PICK levels : levels = Ascending(bitmap)
  OBVIOUS
<1>6. PICK n \in Nat : n = Cardinality(bitmap)
  BY <1>4, AscendingFacts
<1>7. DOMAIN levels = 1..n /\ { levels[i] : i \in 1..n } = bitmap
  BY <1>4, <1>5, <1>6, AscendingFacts
<1>8. PICK listed : listed = [i \in 1..n |-> sibling[levels[i]]]
  OBVIOUS
<1>9. buildProofBits(t, k) = [bitmap |-> bitmap, siblings |-> listed]
  BY <1>1, <1>3, <1>5, <1>7, <1>8 DEF buildProofBits
<1>10. Len(listed) = n
  BY <1>8
<1> DEFINE used(l) == Cardinality({ j \in bitmap : j <= l })
           read == [l \in 0..(Depth - 1) |->
                       IF l \in bitmap THEN listed[used(l)] ELSE DEFAULT_HASHES[l]]
<1>11. ASSUME NEW l \in bitmap
       PROVE  listed[used(l)] = sibling[l]
  <2>1. PICK i \in 1..n : levels[i] = l
    BY <1>7
  <2>2. used(l) = i
    BY <1>4, <1>5, <1>7, <2>1, RankInAscending
  <2> QED BY <1>8, <2>1, <2>2
<1>12. \A l \in 0..(Depth - 1) :
           (IF l \in bitmap THEN listed[used(l)] ELSE DEFAULT_HASHES[l]) = sibling[l]
  BY <1>3, <1>11
<1>13. read = sibling
  <2> HIDE DEF used
  <2>1. read = [l \in 0..(Depth - 1) |-> sibling[l]]
    BY <1>12
  <2> QED BY <1>2, <2>1
<1>14. verifyAgainstRoot(root, k, leaf, [bitmap |-> bitmap, siblings |-> listed])
         <=> Len(listed) = Cardinality(bitmap) /\ Climb(k, leaf, read)[Depth] = root
  BY DEF verifyAgainstRoot
<1> HIDE DEF read
<1> QED BY <1>1, <1>6, <1>9, <1>10, <1>13, <1>14

\* sparseMerkleTree.ts, getMembershipProof and getNonMembershipProof: the proof read from a
\* canonical cache, packed into a bitmap and the non-default siblings, is accepted by
\* verifyAgainstRoot for what the tree holds at that key, unless the leaf beside it is taken.
THEOREM SparseProofsAreComplete ==
    ASSUME NEW t, Canonical(t), NEW k \in Keys, t.leaf[Sibling(k)] = None
    PROVE  verifyAgainstRoot(Root(t), k, LeafNode(t.leaf, k), buildProofBits(t, k))
<1>1. PICK sibling : sibling = siblings(t, k)
  OBVIOUS
<1>2. \A l \in 0..Depth :
          Climb(k, LeafNode(t.leaf, k), sibling)[l] = CanonicalNodes(t.leaf)[l][Up(k, l)]
  BY <1>1, SiblingsAreCanonical, ClimbIsCanonical
<1>3. Climb(k, LeafNode(t.leaf, k), sibling)[Depth] = CanonicalNodes(t.leaf)[Depth][0]
  BY <1>2, UpFacts, DepthAssumption
<1>4. CanonicalNodes(t.leaf)[Depth][0] = Root(t)
  BY CanonicalRoots DEF CanonicalRoot
<1> QED BY <1>1, <1>3, <1>4, ProofIsReadBack

\* sparseMerkleTree.ts, verifyAgainstRoot, and the contract's _verifySmt: whatever the proof,
\* nothing is accepted for a key under a tree's root but what the tree holds there.
THEOREM SparseProofsAreSound ==
    ASSUME NEW leaf, NEW k \in Keys, NEW x, NEW proof,
           verifyAgainstRoot(CanonicalRoot(leaf), k, x, proof)
    PROVE  x = LeafNode(leaf, k)
<1>1. \E sibling : Climb(k, x, sibling)[Depth] = CanonicalRoot(leaf)
  BY DEF verifyAgainstRoot
<1> QED BY <1>1, ClimbDetermines
=============================================================================
