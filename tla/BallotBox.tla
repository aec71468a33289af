------------------------------ MODULE BallotBox ------------------------------
(***************************************************************************)
(* What casting promises a voter, with no database and no handlers: every  *)
(* voter of an election may put one ballot in the box, a ballot stays      *)
(* counted as that voter's for ever, "accepted" is said only of a ballot   *)
(* in the box and "you have already voted" only to a voter with one there. *)
(***************************************************************************)

CONSTANTS Elections, Voters, Ballots, None

VARIABLES
    box,        \* the ballot each voter has put in the box of each election
    accepted,   \* who was told, in which election, that their ballot is recorded
    refused     \* who was told, of which ballot, that they have already voted

boxVars == <<box, accepted, refused>>

Ownership == [Elections -> [Voters -> Ballots \cup {None}]]

Init ==
    /\ box = [e \in Elections |-> [v \in Voters |-> None]]
    /\ accepted = {}
    /\ refused = {}

Put(e, v, b) ==
    /\ box[e][v] = None
    /\ box' = [box EXCEPT ![e][v] = b]
    /\ UNCHANGED <<accepted, refused>>

Accept(e, v) ==
    /\ box[e][v] # None
    /\ accepted' = accepted \cup {<<e, v, box[e][v]>>}
    /\ UNCHANGED <<box, refused>>

Refuse(e, v, b) ==
    /\ box[e][v] \notin {None, b}
    /\ refused' = refused \cup {<<e, v, b>>}
    /\ UNCHANGED <<box, accepted>>

Next ==
    \E e \in Elections, v \in Voters :
        \/ Accept(e, v)
        \/ \E b \in Ballots : Put(e, v, b) \/ Refuse(e, v, b)

Spec == Init /\ [][Next]_boxVars
=============================================================================
