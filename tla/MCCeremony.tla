----------------------------- MODULE MCCeremony -----------------------------
(***************************************************************************)
(* Three holders, two of whom open a ballot. The assumptions compare the    *)
(* arithmetic with what KeyCeremony and Tally take it for, over all of a    *)
(* small group, p = 11 with q = 5 and g = 4, for the code's 4 holders and   *)
(* threshold 3. Others do the same for what PublicRecord reads from the rows.  *)
(***************************************************************************)
EXTENDS Tally, Sequences, SequencesExt

\* Some number that depends on the whole of a transcript.
Digest(tag, transcript) == FoldLeft(LAMBDA a, b : (3 * a + b) % 101, Len(tag), transcript)

C == INSTANCE ThresholdCrypto WITH p <- 11, g <- 4, T <- 3, Hash <- Digest

Zq == 0..4
Group == { v \in 1..10 : C!isSubgroupMember(v) }
Polynomials == [1..3 -> Zq]
Indices == 1..4

ASSUME C!findGenerator = 4 /\ Group = { C!modPow(4, x, 11) : x \in Zq }

ASSUME Cardinality(Group) = 5

ASSUME \A a \in 1..10 : (a * C!modInverse(a, 11)) % 11 = 1

\* A sub-share verifies against the commitments of its dealer's polynomial, and no other does.
ASSUME \A f \in Polynomials, i \in Indices, v \in Zq :
          C!verifyFeldmanShare(i, v, C!computeCommitments(f)) <=> v = C!computeShare(f, i)

\* The combined commitments are those of the sum of the polynomials, whose share is the sum of
\* the sub-shares: a key is the set of the polynomials summed into it.
ASSUME \A f \in Polynomials, h \in {<<1, 2, 3>>, <<4, 0, 1>>}, i \in Indices :
          LET combined == C!combineFeldmanCommitments(<<C!computeCommitments(f), C!computeCommitments(h)>>)
              share == (C!computeShare(f, i) + C!computeShare(h, i)) % 5
          IN  C!deriveShareCommitment(i, combined) = C!modPow(4, share, 11)

Quorums == { S \in SUBSET Indices : Cardinality(S) >= 3 }

\* Any three or more shares give the secret back, and fewer give nothing.
ASSUME \A secret, a, b \in Zq :
          LET split == C!splitSecretZq(secret, <<a, b>>, 4).shares
          IN  /\ \A S \in Quorums : C!reconstructSecretZq([i \in S |-> split[i]]) = secret
              /\ \A S \in (SUBSET Indices) \ Quorums :
                    C!reconstructSecretZq([i \in S |-> split[i]]) = C!Error

\* Any three or more partial decryptions open a ballot, as the key itself would.
ASSUME \A f \in Polynomials, k \in 1..4, m \in 1..10 :
          LET ballot == C!encryptCandidateId(m, k, C!modPow(4, f[1], 11))
              opened == [i \in Indices |->
                             C!computePartialDecryption(ballot.c1, C!computeShare(f, i))]
          IN  /\ C!decryptCandidateId(ballot, f[1]) = m
              /\ \A S \in Quorums :
                    C!combinePartialDecryptions([i \in S |-> opened[i]], ballot.c2) = m

\* A partial decryption made with the share verifies; with any other share it does not, unless
\* the challenge is zero.
ASSUME \A x, other, w \in Zq, k \in 1..4 :
          LET c1 == C!modPow(4, k, 11)
              y_i == C!modPow(4, x, 11)
              d == C!computePartialDecryption(c1, other)
              proof == C!proveDleq(1, c1, d, other, y_i, w)
          IN  C!verifyDleq(1, c1, d, y_i, proof)
                 <=> \/ other = x
                     \/ C!dleqChallenge(1, y_i, c1, d, proof.t1, proof.t2) = 0

\* An honest voter's proof is accepted whichever candidate it is for.
ASSUME \A x \in 1..4, k \in 1..4, true \in 1..3, w \in 1..4, e, z \in {1, 3} :
          LET candidates == <<2, 5, 8>>
              y_e == C!modPow(4, x, 11)
              ballot == C!encryptCandidateId(candidates[true], k, y_e)
              fake == [i \in 1..3 |-> [e |-> (e * i) % 5, z |-> (z + i) % 5]]
          IN  C!verifyBallotValidity(ballot, y_e, candidates,
                  C!proveBallotValidity(ballot, k, y_e, candidates, true, w, fake))

\* Two places and two parties, one of which stands in one place only.
Standing == [c1 |-> [place |-> "n", party |-> "p"], c2 |-> [place |-> "n", party |-> "q"],
             c3 |-> [place |-> "s", party |-> "p"]]

R == INSTANCE PublicRecord WITH candidates <- Standing, Threshold <- 2, None <- "none"

Opened == [place : {"n", "s"}, opens : {"c1", "c2", "c3", "x", "none"}, partials : {1, 2}]
Batches == [1..3 -> Opened]

Total(f) == R!MapThenSumSet(LAMBDA x : f[x], DOMAIN f)

\* Every ballot is counted once, at its own place, or has its one reason; the places' and the
\* parties' votes both add up to the valid ones.
ASSUME \A ballots \in Batches :
          LET record == R!tallyRecord(ballots)
          IN  /\ record.valid_votes + Cardinality(DOMAIN record.rejected_votes) = record.total_votes
              /\ Total([place \in DOMAIN record.results |-> Total(record.results[place])])
                     = record.valid_votes
              /\ Total(R!partyTotals(record)) = record.valid_votes
              /\ \A place \in DOMAIN record.results :
                    \A c \in DOMAIN record.results[place] : Standing[c].place = place
              /\ R!diffMatches(record, R!recount(ballots))

\* The script's last check compares sums: a run with other winners passes it.
ASSUME \E ballots, other \in [{1} -> Opened] :
          /\ R!diffMatches(R!tallyRecord(ballots), R!recount(other))
          /\ R!tallyRecord(ballots).results # R!recount(other).counts

\* The places' turnout adds up to the whole, which lies between the lowest and the highest;
\* of few voters, only a full poll is shown as 100.0 and only an empty one as 0.
Rolls == [1..4 -> [place : {"n", "s"}, has_voted : BOOLEAN]]

ASSUME \A voters \in Rolls :
          LET shown == R!stats(voters, 0, 0, 0)
              places == shown.constituencies
          IN  /\ Total([k \in DOMAIN places |-> places[k].registered]) = shown.national.registered
              /\ Total([k \in DOMAIN places |-> places[k].voted]) = shown.national.voted
              /\ \E k, l \in DOMAIN places : /\ places[k].turnout_pct <= shown.national.turnout_pct
                                             /\ shown.national.turnout_pct <= places[l].turnout_pct
              /\ shown.status = "active" <=> \E v \in 1..4 : voters[v].has_voted

ASSUME \A denom \in 0..40 : \A num \in 0..denom :
          /\ R!pct(num, denom) \in 0..1000
          /\ denom > 0 => /\ R!pct(num, denom) = 0 <=> num = 0
                          /\ R!pct(num, denom) = 1000 <=> num = denom
                          /\ num < denom => R!pct(num, denom) <= R!pct(num + 1, denom)

\* Of many, they are: 4999 of 5000 voters show as 100.0.
ASSUME R!pct(4999, 5000) = 1000
=============================================================================
