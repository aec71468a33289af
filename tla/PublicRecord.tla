---------------------------- MODULE PublicRecord ----------------------------
(***************************************************************************)
(* What is made of the ballots once they are open: the reasons and sums of  *)
(* POST /keyshares/tally (keyshares.ts), the tallying page's party totals,   *)
(* the independent recount (scripts/independent-verify-tally.ts), and the   *)
(* turnout of GET /public/stats (public.ts). A ballot is the place of its   *)
(* row, the text it opens to, and the number of its partials that verify.   *)
(***************************************************************************)
EXTENDS Naturals, FiniteSetsExt, Functions

CONSTANTS
    candidates,     \* per candidate id: its place and its party
    Threshold,      \* partials that open a ballot
    None

\* The first objection to a ballot, in the order of the loop.
rejection(ballot) ==
    IF ballot.partials < Threshold THEN "insufficient_valid_shares"
    ELSE IF ballot.opens = None THEN "decryption_failed"
    ELSE IF ballot.opens \notin DOMAIN candidates THEN "candidate_not_found"
    ELSE IF ballot.place # candidates[ballot.opens].place THEN "constituency_mismatch"
    ELSE None

Counted(ballots) == { i \in DOMAIN ballots : rejection(ballots[i]) = None }

\* Per place, the candidates somebody voted for, with their votes.
results(ballots) ==
    LET At(place) == { i \in Counted(ballots) : ballots[i].place = place }
        For(place, c) == { i \in At(place) : ballots[i].opens = c }
    IN  [place \in { ballots[i].place : i \in Counted(ballots) } |->
            [c \in { ballots[i].opens : i \in At(place) } |-> Cardinality(For(place, c))]]

tallyRecord(ballots) ==
    [total_votes |-> Cardinality(DOMAIN ballots),
     valid_votes |-> Cardinality(Counted(ballots)),
     rejected_votes |-> [i \in DOMAIN ballots \ Counted(ballots) |-> rejection(ballots[i])],
     results |-> results(ballots)]

\* The page's bars: votes over all places, by party.
partyTotals(record) ==
    LET entries == UNION { { <<place, c>> : c \in DOMAIN record.results[place] } :
                             place \in DOMAIN record.results }
        Of(party) == { e \in entries : candidates[e[2]].party = party }
    IN  [party \in { candidates[e[2]].party : e \in entries } |->
            MapThenSumSet(LAMBDA e : record.results[e[1]][e[2]], Of(party))]

\* The script's recount, and what its last check compares with the published run.
recount(ballots) == [valid_votes |-> Cardinality(Counted(ballots)), counts |-> results(ballots)]

diffMatches(published, counted) == published.valid_votes = counted.valid_votes

(***************************************************************************)
(* Turnout, in tenths of a percent.                                        *)
(***************************************************************************)
pct(num, denom) == IF denom > 0 THEN (2000 * num + denom) \div (2 * denom) ELSE 0

turnout(voters) ==
    LET registered == Cardinality(DOMAIN voters)
        voted == Cardinality({ v \in DOMAIN voters : voters[v].has_voted })
    IN  [registered |-> registered, voted |-> voted, turnout_pct |-> pct(voted, registered)]

\* votes, shares and batches are read by queries of their own.
stats(voters, votes, submitted, batches) ==
    LET national == turnout(voters)
    IN  [status |-> IF national.voted > 0 THEN "active" ELSE "not_started",
         national |-> national,
         total_votes_cast |-> votes,
         constituencies |-> [place \in { voters[v].place : v \in DOMAIN voters } |->
             turnout(Restrict(voters, { v \in DOMAIN voters : voters[v].place = place }))],
         threshold_met |-> submitted >= 3,
         batches_anchored |-> batches]
=============================================================================
