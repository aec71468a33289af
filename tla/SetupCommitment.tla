---------------------------- MODULE SetupCommitment ----------------------------
(***************************************************************************)
(* The commitment to an election's candidates and constituencies:           *)
(* backend/src/crypto/candidateCommitment.ts, the write-once contract       *)
(* ElectionSetupCommitment.sol and the script that deploys it. Text is a    *)
(* sequence of bytes, a UUID one byte long; the hash is MerkleTree's.       *)
(***************************************************************************)
EXTENDS MerkleTree, SequencesExt

\* The length goes before the bytes, so that no two lists of fields run together.
lengthPrefixed(value) == <<Len(value)>> \o value

candidateRecordBytes(c) ==
    <<1, c.id>> \o lengthPrefixed(c.name) \o lengthPrefixed(c.party)
        \o lengthPrefixed(c.symbol) \o lengthPrefixed(c.constituency_code)

constituencyRecordBytes(c) == <<2>> \o lengthPrefixed(c.code) \o lengthPrefixed(c.name)

candidateLeaf(c) == <<0, {candidateRecordBytes(c)}>>

constituencyLeaf(c) == <<0, {constituencyRecordBytes(c)}>>

\* Byte by byte; a prefix comes first.
Precedes(a, b) ==
    \E i \in 1..Len(b) :
        /\ \A j \in 1..(i - 1) : j <= Len(a) /\ a[j] = b[j]
        /\ i > Len(a) \/ a[i] < b[i]

sortCandidates(set) == SetToSortSeq(set, LAMBDA a, b : a.id < b.id)

sortConstituencies(set) == SetToSortSeq(set, LAMBDA a, b : Precedes(a.code, b.code))

\* Defined for a roster of at least one of each; ids and codes are primary keys, so a
\* roster is a set.
buildElectionSetupTrees(candidates, constituencies) ==
    LET cs == sortCandidates(candidates)
        zs == sortConstituencies(constituencies)
    IN  [candidatesRoot |-> buildMerkleTree([i \in DOMAIN cs |-> candidateLeaf(cs[i])]),
         constituenciesRoot |-> buildMerkleTree([i \in DOMAIN zs |-> constituencyLeaf(zs[i])])]

computeElectionSetupCommitment(electionId, trees) ==
    <<electionId, trees.candidatesRoot, trees.constituenciesRoot>>

buildAndComputeCommitment(electionId, candidates, constituencies) ==
    computeElectionSetupCommitment(electionId, buildElectionSetupTrees(candidates, constituencies))

(***************************************************************************)
(* The contract: [commitment, electionId], both <<>> until 'anchor', which   *)
(* reverts (and so changes nothing) whenever a commitment is there.         *)
(***************************************************************************)
Fresh == [commitment |-> <<>>, electionId |-> <<>>]

anchor(contract, electionId, commitment) ==
    IF contract.commitment # <<>> \/ commitment = <<>> \/ electionId = <<>> THEN contract
    ELSE [commitment |-> commitment, electionId |-> electionId]

\* The script reads the rows of both tables whatever their election.
Deployed(electionId, candidates, constituencies) ==
    anchor(Fresh, electionId, buildAndComputeCommitment(electionId, candidates, constituencies))

\* Step 2a of independent-verify-tally.ts: the roster of the bundle, which is the election's,
\* against the contract.
SetupMatches(contract, electionId, candidates, constituencies) ==
    /\ candidates # {} /\ constituencies # {}
    /\ contract.commitment = buildAndComputeCommitment(electionId, candidates, constituencies)
=============================================================================
