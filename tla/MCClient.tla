------------------------------- MODULE MCClient -------------------------------
(* Small instances of ClientConn. *)
EXTENDS ClientConn

None     == {}
First    == {1}
Second   == {2}
\* The backend of the first stream may reset it, that of the second may vanish.
Endings12 == [s \in 1..2 |-> IF s = 1 THEN {"end", "trailers", "reset"} ELSE {"end", "Gone", "Shed"}]
=============================================================================
