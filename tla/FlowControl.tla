----------------------------- MODULE FlowControl -----------------------------
(***************************************************************************)
(* Window arithmetic of core/src/flow.rs, as operators on values.          *)
(*                                                                         *)
(* A send window (`Window`) is an integer: the octets the peer still lets  *)
(* us send.  A receive window (`RecvWindow`) is a record: the credit       *)
(* outstanding with the peer, and the octets consumed here but not yet     *)
(* announced back.  The size it replenishes up to never changes and is     *)
(* passed as `initial`.                                                    *)
(***************************************************************************)
EXTENDS Integers, FiniteSets

CONSTANT MaxWindow      (* 2^31 - 1 in the code: the largest legal window. *)

ASSUME MaxWindowAssumption == MaxWindow \in Nat \ {0}

-----------------------------------------------------------------------------
(* Both sides: a window never goes negative by being spent. *)

CanConsume(w, n) == n <= w

-----------------------------------------------------------------------------
(* Receive side *)

RecvWindow == [window : Int, unreleased : Nat]

NewRecvWindow(initial) == [window |-> initial, unreleased |-> 0]

\* DATA arrived: its octets are spent whether or not anybody wants them.
Record(r, n) == [r EXCEPT !.window = @ - n]

\* Mutants: announcing only when more than the whole window is owed, and the
\* release-build defect described at flow.rs:201-209, where the increment went
\* out while our own window was never restored; or what was announced is not
\* cleared, and announced again.
DueBeyondWindow(r, n, initial) == r.unreleased + n > initial

ReleaseUnrestored(r, n, initial) ==
    IF 2 * (r.unreleased + n) >= initial
    THEN [r EXCEPT !.unreleased = 0]
    ELSE [r EXCEPT !.unreleased = @ + n]

\* Consumed octets reach the peer once they amount to half the window.
Due(r, n, initial) == 2 * (r.unreleased + n) >= initial

\* The WINDOW_UPDATE that `release` asks its caller to send; 0 is none.
Increment(r, n, initial) == IF Due(r, n, initial) THEN r.unreleased + n ELSE 0

Release(r, n, initial) ==
    IF Due(r, n, initial)
    THEN [window |-> r.window + r.unreleased + n, unreleased |-> 0]
    ELSE [r EXCEPT !.unreleased = @ + n]

-----------------------------------------------------------------------------
(* Several streams share one connection: the octets they have together, each
   stream s having f[s]. *)

Total(f) == Cardinality(UNION {{s} \X (1..f[s]) : s \in DOMAIN f})

=============================================================================
