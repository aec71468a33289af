------------------------------ MODULE AnchorLog ------------------------------
(***************************************************************************)
(* What anchoring promises to a voter, a page or an auditor: a log on the   *)
(* chain that only grows, and a database that says of a ballot only what    *)
(* the log already holds. Which call fails, which runs overlap and how the  *)
(* trees are built is Anchoring's business; Anchoring implements this.      *)
(***************************************************************************)
EXTENDS Naturals, Sequences

CONSTANTS MaxVotes, None

Votes == 1..MaxVotes

VARIABLES
    cast,       \* how many ballots were cast, deleted ones included
    gone,       \* deleted ballots
    log,        \* the chain: the ballots of each dense batch
    sparse,     \* the chain: the ballots each sparse root covers
    rows,       \* the batches recorded in the database, by number
    edited,     \* the recorded batches whose stored root was edited
    txHash,     \* per ballot, the batch that confirms it, or None
    covered     \* the ballots the service proves membership of

vars == <<cast, gone, log, sparse, rows, edited, txHash, covered>>

Logged == UNION { log[i] : i \in DOMAIN log }

Stored == (1..cast) \ gone

Init ==
    /\ cast = 0 /\ gone = {}
    /\ log = <<>> /\ sparse = <<>>
    /\ rows = {} /\ edited = {}
    /\ txHash = [v \in Votes |-> None]
    /\ covered = {}

Cast ==
    /\ cast < MaxVotes
    /\ cast' = cast + 1
    /\ UNCHANGED <<gone, log, sparse, rows, edited, txHash, covered>>

Anchor ==
    /\ \E s \in SUBSET (1..cast) : s # {} /\ log' = Append(log, s)
    /\ UNCHANGED <<cast, gone, sparse, rows, edited, txHash, covered>>

Record ==
    /\ \E i \in DOMAIN log : rows' = rows \cup {i}
    /\ UNCHANGED <<cast, gone, log, sparse, edited, txHash, covered>>

\* A batch confirms all of its ballots at once.
Stamp ==
    /\ \E i \in DOMAIN log :
          txHash' = [v \in Votes |-> IF v \in log[i] \cap Stored THEN i ELSE txHash[v]]
    /\ UNCHANGED <<cast, gone, log, sparse, rows, edited, covered>>

\* Only a confirmed ballot can be deleted.
Delete ==
    /\ \E v \in Stored : txHash[v] # None /\ gone' = gone \cup {v}
    /\ UNCHANGED <<cast, log, sparse, rows, edited, txHash, covered>>

Edit ==
    /\ edited' \in SUBSET rows
    /\ UNCHANGED <<cast, gone, log, sparse, rows, txHash, covered>>

Cover ==
    /\ covered' \in SUBSET Logged
    /\ UNCHANGED <<cast, gone, log, sparse, rows, edited, txHash>>

Publish ==
    /\ \E s \in SUBSET Logged : sparse' = Append(sparse, s)
    /\ UNCHANGED <<cast, gone, log, rows, edited, txHash, covered>>

Next == Cast \/ Anchor \/ Record \/ Stamp \/ Delete \/ Edit \/ Cover \/ Publish

Spec == Init /\ [][Next]_vars
=============================================================================
