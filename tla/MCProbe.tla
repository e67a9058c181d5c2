-------------------------------- MODULE MCProbe --------------------------------
(* A probe slower than its answer, one that is quicker, and none. *)
EXTENDS Probe

T(idle, timeout) == [idle |-> idle, timeout |-> timeout]
MCTunings == {T(3, 2), T(2, 3), T(0, 1)}

================================================================================
