-------------------------- MODULE ThresholdCrypto --------------------------
(***************************************************************************)
(* The group arithmetic of a ballot and of the threshold key:               *)
(* backend/src/crypto/elgamal.ts, shamirZq.ts, dkg.ts, dleq.ts and zkp.ts,  *)
(* which the browser repeats in frontend/src/utils/elgamal.ts, dkgCrypto.ts *)
(* and keyholderCrypto.ts and the phone in core-crypto/src/elgamal.ts. A    *)
(* hex string is the number it writes, a candidate the number its UUID is   *)
(* encoded as, and random numbers are parameters.                           *)
(***************************************************************************)
EXTENDS Integers, Sequences, FiniteSets
LOCAL INSTANCE SequencesExt

CONSTANTS
    p, g,       \* a safe prime and the generator found for it
    T,          \* the threshold, 3 in the code
    Hash(_, _)  \* SHA-256 of a transcript with its tag, as a number

q == (p - 1) \div 2

Error == "error"

(***************************************************************************)
(* elgamal.ts.                                                              *)
(***************************************************************************)
modPow(base, exp, mod) ==
    LET power[e \in Nat] ==
            IF e = 0 THEN 1 % mod
            ELSE LET half == power[e \div 2]
                 IN  (half * half * (IF e % 2 = 1 THEN base ELSE 1)) % mod
    IN  power[exp]

\* Extended Euclid, with the remainders and the coefficients of a.
modInverse(a, m) ==
    LET euclid[s \in [oldR : Int, r : Int, oldS : Int, s : Int]] ==
            IF s.r = 0 THEN s.oldS % m
            ELSE LET quotient == s.oldR \div s.r
                 IN  euclid[[oldR |-> s.r, r |-> s.oldR - quotient * s.r,
                             oldS |-> s.s, s |-> s.oldS - quotient * s.s]]
    IN  euclid[[oldR |-> a, r |-> m, oldS |-> 1, s |-> 0]]

\* The square of the first candidate of order p - 1.
findGenerator ==
    LET generators == { g0 \in 2..99 : modPow(g0, 2, p) # 1 /\ modPow(g0, q, p) # 1 }
        first == CHOOSE g0 \in generators : \A other \in generators : g0 <= other
    IN  modPow(first, 2, p)

encryptCandidateId(m, k, y) == [c1 |-> modPow(g, k, p), c2 |-> (m * modPow(y, k, p)) % p]

isSubgroupMember(value) == value \in 1..(p - 1) /\ modPow(value, q, p) = 1

decryptCandidateId(ballot, x) ==
    IF ballot.c2 \notin 0..(p - 1) \/ ~isSubgroupMember(ballot.c1) THEN Error
    ELSE (ballot.c2 * modInverse(modPow(ballot.c1, x, p), p)) % p

(***************************************************************************)
(* Shamir sharing over Z_q with Feldman commitments: shamirZq.ts, and what  *)
(* dkgCrypto.ts splits into computeShare and computeCommitments.            *)
(***************************************************************************)
SumMod(terms, m) == FoldLeft(LAMBDA a, b : (a + b) % m, 0, terms)
ProductMod(terms, m) == FoldLeft(LAMBDA a, b : (a * b) % m, 1 % m, terms)

computeShare(poly, index) ==
    SumMod([l \in DOMAIN poly |-> poly[l] * modPow(index, l - 1, q)], q)

computeCommitments(poly) == [l \in DOMAIN poly |-> modPow(g, poly[l], p)]

splitSecretZq(secret, coefficients, n) ==
    LET poly == <<secret>> \o coefficients
    IN  [shares |-> [i \in 1..n |-> computeShare(poly, i)],
         commitments |-> computeCommitments(poly)]

deriveShareCommitment(index, commitments) ==
    ProductMod([l \in DOMAIN commitments |-> modPow(commitments[l], index ^ (l - 1), p)], p)

verifyFeldmanShare(index, value, commitments) ==
    modPow(g, value, p) = deriveShareCommitment(index, commitments)

\* dkg.ts: the commitments of the sum of the dealers' polynomials.
combineFeldmanCommitments(vectors) ==
    [l \in DOMAIN vectors[1] |-> ProductMod([i \in DOMAIN vectors |-> vectors[i][l]], p)]

lagrangeCoefficientAtZero(i, indices) ==
    LET others == SetToSeq(indices \ {i})
        numerator == ProductMod([n \in DOMAIN others |-> q - others[n]], q)
        denominator == ProductMod([n \in DOMAIN others |-> (i - others[n]) % q], q)
    IN  (numerator * modInverse(denominator, q)) % q

\* From the shares of a set of indices.
reconstructSecretZq(shares) ==
    LET indices == DOMAIN shares
        order == SetToSeq(indices)
    IN  IF Cardinality(indices) < T THEN Error
        ELSE SumMod([n \in DOMAIN order |->
                        shares[order[n]] * lagrangeCoefficientAtZero(order[n], indices)], q)

(***************************************************************************)
(* Partial decryptions with a Chaum-Pedersen proof: dleq.ts.                *)
(***************************************************************************)
computePartialDecryption(c1, x) == IF isSubgroupMember(c1) THEN modPow(c1, x, p) ELSE Error

dleqChallenge(ballotId, y, c1, d, t1, t2) ==
    Hash("dleq", <<ballotId, g, y, c1, d, t1, t2>>) % q

proveDleq(ballotId, c1, d, x, y, w) ==
    LET t1 == modPow(g, w, p)
        t2 == modPow(c1, w, p)
    IN  [t1 |-> t1, t2 |-> t2, z |-> (w + dleqChallenge(ballotId, y, c1, d, t1, t2) * x) % q]

verifyDleq(ballotId, c1, d, y, proof) ==
    LET e == dleqChallenge(ballotId, y, c1, d, proof.t1, proof.t2)
    IN  /\ isSubgroupMember(c1)
        /\ modPow(g, proof.z, p) = (proof.t1 * modPow(y, e, p)) % p
        /\ modPow(c1, proof.z, p) = (proof.t2 * modPow(d, e, p)) % p

\* From the partial decryptions of a set of indices.
combinePartialDecryptions(partials, c2) ==
    LET indices == DOMAIN partials
        order == SetToSeq(indices)
        s == ProductMod([n \in DOMAIN order |->
                 modPow(partials[order[n]], lagrangeCoefficientAtZero(order[n], indices), p)], p)
    IN  IF Cardinality(indices) < T THEN Error ELSE (c2 * modInverse(s, p)) % p

(***************************************************************************)
(* The proof that a ballot encrypts one of the candidates: zkp.ts. "fake"   *)
(* holds the challenges and responses drawn for the other candidates.       *)
(***************************************************************************)
Target(c2, m) == (c2 * modInverse(m, p)) % p

ballotChallenge(y, ballot, commitments) ==
    Hash("ballot", <<g, y, ballot.c1, ballot.c2>> \o FlattenSeq(commitments)) % q

\* What a branch commits to, recovered from its challenge and response.
Commitment(y, ballot, m, e, z) ==
    <<(modPow(g, z, p) * modPow(modInverse(ballot.c1, p), e, p)) % p,
      (modPow(y, z, p) * modPow(modInverse(Target(ballot.c2, m), p), e, p)) % p>>

proveBallotValidity(ballot, k, y, candidates, true, w, fake) ==
    LET commitments == [i \in DOMAIN candidates |->
            IF i = true THEN <<modPow(g, w, p), modPow(y, w, p)>>
            ELSE Commitment(y, ballot, candidates[i], fake[i].e, fake[i].z)]
        others == SumMod([i \in DOMAIN candidates |-> IF i = true THEN 0 ELSE fake[i].e], q)
        e == (ballotChallenge(y, ballot, commitments) - others) % q
    IN  [i \in DOMAIN candidates |-> IF i = true THEN [e |-> e, z |-> (w + e * k) % q] ELSE fake[i]]

verifyBallotValidity(ballot, y, candidates, proof) ==
    /\ candidates # <<>> /\ DOMAIN proof = DOMAIN candidates
    /\ SumMod([i \in DOMAIN proof |-> proof[i].e], q)
           = ballotChallenge(y, ballot, [i \in DOMAIN candidates |->
                 Commitment(y, ballot, candidates[i], proof[i].e, proof[i].z)])
=============================================================================
