------------------------------- MODULE MCBridge -------------------------------
(***************************************************************************)
(* TLC instances of Bridge.  Two streams share an upstream connection whose *)
(* window is smaller than the two stream windows together, as in the code   *)
(* (1 MiB against 256 KiB a stream), and bodies longer than a window.       *)
(***************************************************************************)
EXTENDS Bridge

CONSTANTS s1, s2, c1, c2

TwoStreams == {s1, s2}
OneClient  == {c1}
TwoClients == {c1, c2}
Shared     == [s \in TwoStreams |-> c1]
Separate   == [s \in TwoStreams |-> IF s = s1 THEN c1 ELSE c2]
Bodies     == [s \in TwoStreams |-> IF s = s1 THEN 3 ELSE 2]
ShortSecond == [s \in TwoStreams |-> IF s = s1 THEN 3 ELSE 1]
None       == {}
=============================================================================
