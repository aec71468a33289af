------------------------------ MODULE MCCastVote ------------------------------
(* Instances of CastVote for TLC. *)
EXTENDS CastVote, TLC

\* People, requests and administrators are interchangeable.
Symmetry == Permutations(Voters) \cup Permutations(Casts) \cup Permutations(Patches)

\* Polling day: every election is set up, has its key and has just been opened.
PollingDay ==
    /\ status = [e \in Elections |-> "voting"]
    /\ events = {} /\ audit = {}
    /\ patch = [p \in Patches |-> NoRequest]
    /\ patchPc = [p \in Patches |-> "idle"]
    /\ patchAnswer = [p \in Patches |-> "none"]
    /\ roll = [e \in Elections |-> [v \in Voters |-> "unregistered"]]
    /\ hasVoted = {} /\ votes = {} /\ deleted = {} /\ nullifiers = {}
    /\ committed = Elections /\ keyReady = Elections
    /\ cast = [c \in Casts |-> NoRequest]
    /\ pc = [c \in Casts |-> "idle"]
    /\ answer = [c \in Casts |-> "none"]

\* An awaited call ends and the handler is resumed.
OpenSpec == PollingDay /\ [][Next]_vars /\ CastFairness
=============================================================================
