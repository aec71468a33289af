----------------------------- MODULE MCAnchoring -----------------------------
(***************************************************************************)
(* An instance of Verifier, and with it of Anchoring, for TLC. The           *)
(* assumptions check the trees and the setup commitment on small inputs.    *)
(***************************************************************************)
EXTENDS Verifier, SetupCommitment, TLC

CONSTANTS r1, r2

Key2 == <<0, 2>>
KindsBatch == (r1 :> {"sweep"}) @@ (r2 :> {"manual", "delete", "proof"})

\* Every leaf of a dense tree of one to seven leaves has a proof, and it proves no other leaf.
ASSUME \A n \in 1..7 :
          LET leaves == Leaves([i \in 1..n |-> i])
          IN  \A i, j \in 1..n :
                 verifyProof(leaves[j], getProof(leaves, i - 1), buildMerkleTree(leaves)) <=> i = j

Lists == UNION { { s \in [1..n -> 1..4] : IsInjective(s) } : n \in 1..4 }

\* A dense root stands for one set of ballots: two lists without repetition that have the same
\* root hold the same ballots (a pair may be swapped: hashPair sorts its operands).
ASSUME \A s, t \in Lists :
          buildMerkleTree(Leaves(s)) = buildMerkleTree(Leaves(t)) => ElementsOf(s) = ElementsOf(t)

Texts == {<<>>, <<1>>, <<1, 1>>}
Candidates ==
    [id : {1, 2}, name : Texts, party : Texts, symbol : {<<1>>}, constituency_code : {<<1>>, <<1, 1>>}]
Constituencies == { [code |-> code, name |-> <<1>>] : code \in {<<1>>, <<2>>, <<1, 2>>} }

\* No two records have the same bytes.
ASSUME \A c, d \in Candidates : candidateRecordBytes(c) = candidateRecordBytes(d) => c = d

Rosters == { {c, d} : c \in { x \in Candidates : x.id = 1 /\ x.party = <<>> },
                      d \in { x \in Candidates : x.party = <<1>> /\ x.name = <<1>> } }
Places == SUBSET Constituencies \ {{}}

\* A commitment stands for one roster: the auditor's recomputation succeeds with the roster
\* the script was given and with no other, and no second call changes it.
ASSUME \A r, s \in { x \in Rosters : Cardinality({ c.id : c \in x }) = Cardinality(x) }, k \in Places :
          LET contract == Deployed(<<1>>, r, k)
          IN  /\ SetupMatches(contract, <<1>>, s, k) <=> s = r
              /\ ~SetupMatches(contract, <<2>>, r, k)
              /\ \A l \in Places : SetupMatches(contract, <<1>>, r, l) <=> l = k
              /\ anchor(contract, <<2>>, buildAndComputeCommitment(<<2>>, s, k)) = contract

\* The completeness check is strict where nobody was seen to vote, and lets five per cent pass.
ASSUME /\ \A total \in 0..3 : MaterialGap(total, 0) <=> total > 0
       /\ \A total \in 0..50 : MaterialGap(total, 40) <=> total \notin 38..42
=============================================================================
