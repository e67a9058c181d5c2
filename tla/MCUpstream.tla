------------------------------ MODULE MCUpstream ------------------------------
(* Small instances of UpstreamConn. *)
EXTENDS UpstreamConn

CONSTANTS r1, r2

Two      == {r1, r2}
NoBodies == [r \in Requests |-> 0]
OneUpload == [r \in Requests |-> IF r = r2 THEN 2 ELSE 0]
First    == {r1}
None     == {}
Same     == {1}
Raised   == {2}     \* In no run: with it NoIdleSlot fails (see the README).
Lowered  == {0}
ZeroUpdate  == {"zero update"}
BadTrailers == {"bad trailers"}
BothFaults  == ZeroUpdate \cup BadTrailers
=============================================================================
