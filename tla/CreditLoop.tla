------------------------------ MODULE CreditLoop ------------------------------
(***************************************************************************)
(* What a flow-control window promises: one receive window of h2proxy and  *)
(* the peer that spends it.  Credit is in exactly one of five places: with *)
(* the sender, travelling as DATA, held by the proxy until somebody takes  *)
(* the octets, consumed but not yet announced, or travelling back as a     *)
(* WINDOW_UPDATE.                                                          *)
(*                                                                         *)
(* This is the abstract specification of each leg of the backpressure      *)
(* bridge; module Bridge implements it at the connection level.            *)
(***************************************************************************)
EXTENDS FlowControl

CONSTANTS
    Initial,    (* The size the window is kept at, `RecvWindow.initial`.      *)
    Granted     (* What the sender believes before the first WINDOW_UPDATE:  *)
                (* 65 535 on stream 0, `Initial` on a stream.                *)

ASSUME CreditLoopAssumption ==
    /\ Initial \in 1..MaxWindow
    /\ Granted \in 0..Initial

VARIABLES
    credit,     (* What the sender may still send.                           *)
    flight,     (* DATA octets sent and not yet decoded.                     *)
    recv,       (* The receiver's RecvWindow.                                *)
    held,       (* Octets recorded here and not released.                    *)
    update      (* WINDOW_UPDATE increments not yet seen by the sender.      *)

vars == <<credit, flight, recv, held, update>>

-----------------------------------------------------------------------------
\* RecvWindow::release of m octets on window r, and the frame it returns.
ReleaseFrom(r, m) ==
    /\ recv' = Release(r, m, Initial)
    /\ update' = update + Increment(r, m, Initial)

-----------------------------------------------------------------------------
Init ==
    /\ credit = Granted
    /\ flight = 0
    /\ recv   = NewRecvWindow(Initial)
    /\ held   = 0
    /\ update = Initial - Granted

\* The peer spends credit it has.
Send(n) ==
    /\ n \in 1..credit
    /\ credit' = credit - n
    /\ flight' = flight + n
    /\ UNCHANGED <<recv, held, update>>

\* n octets are decoded: recorded, and m of everything held is released on
\* the spot (all of them when the stream is already gone).
Arrive(n, m) ==
    /\ n \in 0..flight
    /\ m \in 0..(held + n)
    /\ flight' = flight - n
    /\ held'   = held + n - m
    /\ IF m = 0
       THEN recv' = Record(recv, n) /\ UNCHANGED update
       ELSE ReleaseFrom(Record(recv, n), m)
    /\ UNCHANGED credit

\* m octets were handed onward, so the peer may have them again.
Hand(m) ==
    /\ m \in 1..held
    /\ held' = held - m
    /\ ReleaseFrom(recv, m)
    /\ UNCHANGED <<credit, flight>>

\* Every WINDOW_UPDATE on the wire reaches the sender.
Credited ==
    /\ update > 0
    /\ credit' = credit + update
    /\ update' = 0
    /\ UNCHANGED <<flight, recv, held>>

Next ==
    \/ \E n \in 1..credit : Send(n)
    \/ \E n \in 1..flight : \E m \in 0..(held + n) : Arrive(n, m)
    \/ \E m \in 1..held : Hand(m)
    \/ Credited

Spec == Init /\ [][Next]_vars

-----------------------------------------------------------------------------
(* Properties *)

\* Every variable has its type.
TypeOK ==
    /\ credit \in Nat
    /\ flight \in Nat
    /\ recv \in RecvWindow
    /\ held \in Nat
    /\ update \in Nat

\* Credit is conserved in both halves of the loop: what the receiver believes
\* outstanding is with the sender or on a wire, and what it does not is held
\* here or waiting to be announced.
Conservation ==
    /\ credit + flight + update = recv.window
    /\ recv.window + held + recv.unreleased = Initial

\* flow.rs keeps less than half the window back, whatever the release sizes.
BelowHalf == 2 * recv.unreleased < Initial

IInv == TypeOK /\ Conservation /\ BelowHalf

\* A sender that respects its credit never meets FLOW_CONTROL_ERROR: whatever
\* is in flight can be recorded, in any grouping (RecvWindow::record).
NoOverrun == flight <= recv.window

\* Octets held plus octets in flight never exceed the window: the bound
\* flow.rs:17-24 states as arithmetic.
BoundedHolding == flight + held <= Initial

\* Batching WINDOW_UPDATEs never strands the sender: it has credit, or some
\* step is still due that leads to credit (flow.rs:191-194).
NoStrandedCredit == credit + flight + held + update > 0

=============================================================================
