--------------------------- MODULE MCEventOutbox ----------------------------
(* Values of the constants of EventOutbox for TLC. *)
EXTENDS EventOutbox, TLC

WorkerSymmetry == Permutations(Workers)
DispatcherSymmetry == Permutations(Dispatchers)

CONSTANTS e1, e2

ThreeAndOne == e1 :> 3 @@ e2 :> 1
TwoEach == [e \in Events |-> 2]
OneEach == [e \in Events |-> 1]

OneKey == [e \in Events |-> "k"]
OwnKey == [e \in Events |-> e]
=============================================================================
