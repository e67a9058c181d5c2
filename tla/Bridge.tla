-------------------------------- MODULE Bridge --------------------------------
(***************************************************************************)
(* The response direction of the backpressure bridge (ADR 0016): a backend *)
(* sends response bodies over one upstream connection, the upstream task   *)
(* forwards them to the client connection tasks, and credit goes back to   *)
(* the backend only as the octets reach each client.                       *)
(*                                                                         *)
(* Four kinds of process: the backend and the clients (external), the      *)
(* upstream connection task (upstream.rs) and one task per client          *)
(* connection (conn.rs with proxy.rs as its Service).  The requests are    *)
(* already open, have no body, and their heads have been forwarded, so     *)
(* every response ends with END_STREAM on DATA or with RST_STREAM.         *)
(*                                                                         *)
(* Every channel is FIFO and its octets are counted per stream: frame      *)
(* boundaries are chosen by the receiver of a channel, which takes any     *)
(* part of what is queued, and a terminator only after the last octet.     *)
(* WINDOW_UPDATEs on a wire are counted, and are delivered together.       *)
(* A frame from a client takes effect when the client sends it.            *)
(***************************************************************************)
EXTENDS FlowControl

CONSTANTS
    Streams,        (* Requests multiplexed on the upstream connection.      *)
    Clients,        (* Client connections.                                   *)
    Owner,          (* The client connection of each stream.                 *)
    Body,           (* Octets in the response body of each stream.           *)
    ConnWindow,     (* Tuning::conn_window, 1 MiB.                           *)
    DefaultWindow,  (* 65 535: the connection window before the bootstrap.   *)
    StreamWindow,   (* Tuning::stream_window, 256 KiB.                       *)
    ClientConn,     (* Connection credit a client grants us.                 *)
    ClientStream,   (* Stream credit a client grants us.                     *)
    SendBudget,     (* SEND_BUDGET and the peer's MAX_FRAME_SIZE.            *)
    MayReset,       (* Streams their client may reset.                       *)
    MayAbort,       (* Streams the backend may reset.                        *)
    MayHangUp       (* Clients that may disconnect.                          *)

ASSUME BridgeAssumption ==
    /\ IsFiniteSet(Streams)
    /\ Owner \in [Streams -> Clients]
    /\ Body \in [Streams -> Nat]
    /\ {ConnWindow, StreamWindow, ClientConn, ClientStream} \subseteq 1..MaxWindow
    /\ DefaultWindow \in 0..ConnWindow
    /\ SendBudget \in Nat \ {0}
    /\ MayReset \subseteq Streams /\ MayAbort \subseteq Streams
    /\ MayHangUp \subseteq Clients

VARIABLES
    \* The backend and the wire between it and us.
    bConn,      (* Connection credit the backend has.                        *)
    bStr,       (* Stream credit the backend has.                            *)
    bLeft,      (* Body octets it has not sent.                              *)
    flight,     (* DATA octets on the wire.                                  *)
    fin,        (* How the backend ended a stream: see Fin.                  *)
    wuConn,     (* Stream-0 increments on the wire to the backend.           *)
    wuStr,      (* Stream increments on the wire to the backend.             *)
    rstUp,      (* RST_STREAMs on the wire to the backend.                   *)
    \* The upstream connection task.
    uConn,      (* conn_recv_window.                                         *)
    uStr,       (* Each stream's recv_window.                                *)
    route,      (* Streams with a live stream and a Route; `forget` ends it. *)
    pend,       (* Route::pending_conn_release.                              *)
    fault,      (* A FLOW_CONTROL_ERROR was raised against the backend.      *)
    \* Channels between the tasks.
    ev,         (* ServiceEvent::Data octets not yet taken by the client task *)
    evEnd,      (* The event after the last of them: "open", "end", "reset". *)
    rel,        (* Octets of ToUpstream::Released not yet taken.             *)
    cancel,     (* Streams with a ToUpstream::Cancel behind them.            *)
    \* The client connection tasks and their Proxy service.
    alive,      (* Client connections still open.                            *)
    cLive,      (* Streams live on a client connection.                      *)
    pRoute,     (* Streams with a proxy Route.                               *)
    queue,      (* Octets in Stream::send_queue.                             *)
    qEnd,       (* Stream::send_end_stream.                                  *)
    cConn,      (* conn_send_window of each client connection.               *)
    cStr,       (* Each client stream's send_window.                         *)
    \* The clients.
    owed,       (* Octets received and not yet credited back to us.          *)
    outcome     (* What a client saw last of a stream.                       *)

backendVars == <<bConn, bStr, bLeft, fin>>
wireVars    == <<wuConn, wuStr, rstUp>>
upVars      == <<uConn, uStr, route, pend, fault>>
clientVars  == <<alive, cLive, pRoute, queue, qEnd, cConn, cStr, owed, outcome>>
vars == <<backendVars, flight, wireVars, upVars, ev, evEnd, rel, cancel, clientVars>>

\* "open": still sending.  "end" and "rst": a terminator is on the wire.
\* "done": we have read it, or the backend stopped because we reset the stream.
Fin     == {"open", "end", "rst", "done"}
Outcome == {"none", "whole", "reset"}

Lesser(a, b) == IF a < b THEN a ELSE b

TypeOK ==
    /\ bConn \in Nat /\ bStr \in [Streams -> Nat] /\ bLeft \in [Streams -> Nat]
    /\ flight \in [Streams -> Nat] /\ fin \in [Streams -> Fin]
    /\ wuConn \in Nat /\ wuStr \in [Streams -> Nat] /\ rstUp \subseteq Streams
    /\ uConn \in RecvWindow /\ uStr \in [Streams -> RecvWindow]
    /\ route \subseteq Streams /\ pend \in [Streams -> Nat] /\ fault \in BOOLEAN
    /\ ev \in [Streams -> Nat] /\ evEnd \in [Streams -> {"open", "end", "reset"}]
    /\ rel \in [Streams -> Nat] /\ cancel \subseteq Streams
    /\ alive \subseteq Clients /\ cLive \subseteq Streams /\ pRoute \subseteq Streams
    /\ queue \in [Streams -> Nat] /\ qEnd \in [Streams -> BOOLEAN]
    /\ cConn \in [Clients -> Nat] /\ cStr \in [Streams -> Nat]
    /\ owed \in [Streams -> Nat] /\ outcome \in [Streams -> Outcome]

Init ==
    /\ bConn = DefaultWindow
    /\ wuConn = ConnWindow - DefaultWindow          \* the bootstrap increment
    /\ bStr = [s \in Streams |-> StreamWindow]
    /\ bLeft = Body
    /\ flight = [s \in Streams |-> 0]
    /\ fin = [s \in Streams |-> "open"]
    /\ wuStr = [s \in Streams |-> 0]
    /\ rstUp = {}
    /\ uConn = NewRecvWindow(ConnWindow)
    /\ uStr = [s \in Streams |-> NewRecvWindow(StreamWindow)]
    /\ route = Streams
    /\ pend = [s \in Streams |-> 0]
    /\ fault = FALSE
    /\ ev = [s \in Streams |-> 0]
    /\ evEnd = [s \in Streams |-> "open"]
    /\ rel = [s \in Streams |-> 0]
    /\ cancel = {}
    /\ alive = Clients
    /\ cLive = Streams
    /\ pRoute = Streams
    /\ queue = [s \in Streams |-> 0]
    /\ qEnd = [s \in Streams |-> FALSE]
    /\ cConn = [c \in Clients |-> ClientConn]
    /\ cStr = [s \in Streams |-> ClientStream]
    /\ owed = [s \in Streams |-> 0]
    /\ outcome = [s \in Streams |-> "none"]

-----------------------------------------------------------------------------
(* The backend: it respects the credit it has been given. *)

\* A DATA frame of n octets, the last one with END_STREAM.
BackendSend(s, n, end) ==
    /\ fin[s] = "open"
    /\ n \in 0..Lesser(bLeft[s], Lesser(bConn, bStr[s]))
    /\ n > 0 \/ end
    /\ end => n = bLeft[s]
    /\ bConn'  = bConn - n
    /\ bStr'   = [bStr EXCEPT ![s] = @ - n]
    /\ bLeft'  = [bLeft EXCEPT ![s] = @ - n]
    /\ flight' = [flight EXCEPT ![s] = @ + n]
    /\ fin'    = [fin EXCEPT ![s] = IF end THEN "end" ELSE @]
    /\ UNCHANGED <<wireVars, upVars, ev, evEnd, rel, cancel, clientVars>>

BackendReset(s) ==
    /\ s \in MayAbort /\ fin[s] = "open"
    /\ fin' = [fin EXCEPT ![s] = "rst"]
    /\ UNCHANGED <<bConn, bStr, bLeft, flight, wireVars, upVars,
                   ev, evEnd, rel, cancel, clientVars>>

\* Our RST_STREAM arrives; what was sent before it is still on its way to us.
BackendSeesReset(s) ==
    /\ s \in rstUp
    /\ rstUp' = rstUp \ {s}
    /\ fin' = [fin EXCEPT ![s] = IF @ = "open" THEN "done" ELSE @]
    /\ UNCHANGED <<bConn, bStr, bLeft, flight, wuConn, wuStr, upVars,
                   ev, evEnd, rel, cancel, clientVars>>

BackendCredited ==
    /\ wuConn > 0
    /\ bConn' = bConn + wuConn
    /\ wuConn' = 0
    /\ UNCHANGED <<bStr, bLeft, fin, flight, wuStr, rstUp, upVars,
                   ev, evEnd, rel, cancel, clientVars>>

BackendStreamCredited(s) ==
    /\ wuStr[s] > 0
    /\ bStr' = [bStr EXCEPT ![s] = @ + wuStr[s]]
    /\ wuStr' = [wuStr EXCEPT ![s] = 0]
    /\ UNCHANGED <<bConn, bLeft, fin, flight, wuConn, rstUp, upVars,
                   ev, evEnd, rel, cancel, clientVars>>

-----------------------------------------------------------------------------
(* The upstream connection task. *)

\* conn_recv_window.release(n) on r, with the WINDOW_UPDATE it may call for.
ReleaseConn(r, n) ==
    /\ uConn'  = IF n = 0 THEN r ELSE Release(r, n, ConnWindow)
    /\ wuConn' = wuConn + (IF n = 0 THEN 0 ELSE Increment(r, n, ConnWindow))

\* Mutant of Forget: the route goes and its connection credit with it.
ForgetLeaks(s, r, held) ==
    /\ route' = route \ {s}
    /\ pend'  = [pend EXCEPT ![s] = 0]
    /\ uConn' = r
    /\ UNCHANGED wuConn

\* Drop a route, returning the connection credit it still holds.
Forget(s, r, held) ==
    /\ route' = route \ {s}
    /\ pend'  = [pend EXCEPT ![s] = 0]
    /\ ReleaseConn(r, held)

\* Route::pending_conn_release grows with what is forwarded.  (Mutant: it does
\* not, so the route's end returns nothing.)
HoldNothing(s, n) == UNCHANGED pend
Hold(s, n)        == pend' = [pend EXCEPT ![s] = @ + n]

\* An event for the client task; a task that has ended receives nothing.
EmitData(s, n)   == ev' = [ev EXCEPT ![s] = IF Owner[s] \in alive THEN @ + n ELSE @]
EmitEnd(s, kind) == evEnd' = [evEnd EXCEPT ![s] = IF Owner[s] \in alive THEN kind ELSE @]

\* Octets for a stream nobody wants any more: the credit goes back at once.
DropData(s, n) ==
    /\ ReleaseConn(Record(uConn, n), n)
    /\ UNCHANGED <<uStr, route, pend, fault, rstUp, ev, evEnd>>

\* Recorded at both levels and forwarded; END_STREAM ends the route, and with
\* it the accounting of every octet the client has not taken yet.
ForwardData(s, n, end) ==
    LET r == Record(uConn, n)
    IN  /\ uStr' = [uStr EXCEPT ![s] = Record(@, n)]
        /\ EmitData(s, n)
        /\ IF end
           THEN Forget(s, r, pend[s] + n) /\ EmitEnd(s, "end")
           ELSE /\ Hold(s, n)
                /\ ReleaseConn(r, 0)
                /\ UNCHANGED <<route, evEnd>>
        /\ UNCHANGED <<fault, rstUp>>

\* The backend overran the stream window: RST_STREAM, and an abort for the
\* client, whose head is already on the wire.
RejectData(s, n) ==
    /\ fault' = TRUE
    /\ rstUp' = rstUp \cup {s}
    /\ EmitEnd(s, "reset")
    /\ Forget(s, Record(uConn, n), pend[s])
    /\ UNCHANGED <<uStr, ev>>

RecvData(s, n, end) ==
    /\ n \in 0..flight[s] /\ (n > 0 \/ end)
    /\ end => fin[s] = "end" /\ n = flight[s]
    /\ flight' = [flight EXCEPT ![s] = @ - n]
    /\ fin' = [fin EXCEPT ![s] = IF end THEN "done" ELSE @]
    /\ IF ~CanConsume(uConn.window, n)
       THEN fault' = TRUE
            /\ UNCHANGED <<uConn, uStr, route, pend, wuConn, rstUp, ev, evEnd>>
       ELSE IF s \notin route THEN DropData(s, n)
       ELSE IF ~CanConsume(uStr[s].window, n) THEN RejectData(s, n)
       ELSE ForwardData(s, n, end)
    /\ UNCHANGED <<bConn, bStr, bLeft, wuStr, rel, cancel, clientVars>>

\* RST_STREAM from the backend.
RecvReset(s) ==
    /\ fin[s] = "rst" /\ flight[s] = 0
    /\ fin' = [fin EXCEPT ![s] = "done"]
    /\ IF s \in route
       THEN Forget(s, uConn, pend[s]) /\ EmitEnd(s, "reset")
       ELSE UNCHANGED <<route, pend, uConn, wuConn, evEnd>>
    /\ UNCHANGED <<bConn, bStr, bLeft, flight, wuStr, rstUp, uStr, fault,
                   ev, rel, cancel, clientVars>>

\* The stream's own recv_window.release(n).  (Mutant: the update goes to the
\* connection only.)
ReleaseStreamSilently(s, n) ==
    /\ uStr' = [uStr EXCEPT ![s] = Release(@, n, StreamWindow)]
    /\ UNCHANGED wuStr
ReleaseStream(s, n) ==
    /\ uStr' = [uStr EXCEPT ![s] = Release(@, n, StreamWindow)]
    /\ wuStr' = [wuStr EXCEPT ![s] = @ + Increment(uStr[s], n, StreamWindow)]

\* ToUpstream::Released: the client has n octets, so the backend may have them
\* again, at both levels.  For a forgotten request it is a no-op.
TakeReleased(s, n) ==
    /\ n \in 1..rel[s]
    /\ rel' = [rel EXCEPT ![s] = @ - n]
    /\ IF s \in route
       THEN /\ pend' = [pend EXCEPT ![s] = IF n > @ THEN 0 ELSE @ - n]
            /\ ReleaseStream(s, n)
            /\ ReleaseConn(uConn, n)
       ELSE UNCHANGED <<pend, uStr, wuStr, uConn, wuConn>>
    /\ UNCHANGED <<backendVars, flight, rstUp, route, fault, ev, evEnd,
                   cancel, clientVars>>

\* ToUpstream::Cancel, behind every Released of the same request.
TakeCancel(s) ==
    /\ s \in cancel /\ rel[s] = 0
    /\ cancel' = cancel \ {s}
    /\ IF s \in route
       THEN rstUp' = rstUp \cup {s} /\ Forget(s, uConn, pend[s])
       ELSE UNCHANGED <<rstUp, route, pend, uConn, wuConn>>
    /\ UNCHANGED <<backendVars, flight, wuStr, uStr, fault, ev, evEnd, rel,
                   clientVars>>

-----------------------------------------------------------------------------
(* A client connection task and its Proxy service. *)

\* ServiceEvent::Data: the octets join the send queue of a live stream, and are
\* dropped with a stream that is gone.
TakeData(s, n, end) ==
    /\ n \in 0..ev[s] /\ (n > 0 \/ end)
    /\ end => evEnd[s] = "end" /\ n = ev[s]
    /\ ev'    = [ev EXCEPT ![s] = @ - n]
    /\ evEnd' = [evEnd EXCEPT ![s] = IF end THEN "open" ELSE @]
    /\ IF s \in cLive
       THEN /\ queue' = [queue EXCEPT ![s] = @ + n]
            /\ qEnd'  = [qEnd EXCEPT ![s] = @ \/ end]
       ELSE UNCHANGED <<queue, qEnd>>
    /\ UNCHANGED <<backendVars, flight, wireVars, upVars, rel, cancel,
                   alive, cLive, pRoute, cConn, cStr, owed, outcome>>

\* A stream ends early, by either side's RST_STREAM: its queue goes and the
\* upstream is told, through the proxy route if there still is one.
Abandon(s) ==
    /\ cLive'   = cLive \ {s}
    /\ queue'   = [queue EXCEPT ![s] = 0]
    /\ qEnd'    = [qEnd EXCEPT ![s] = FALSE]
    /\ pRoute'  = pRoute \ {s}
    /\ cancel'  = IF s \in pRoute THEN cancel \cup {s} ELSE cancel
    /\ outcome' = [outcome EXCEPT ![s] = "reset"]
    /\ UNCHANGED <<alive, cConn, cStr, owed>>

\* ServiceEvent::Reset, after the octets sent before it.
TakeReset(s) ==
    /\ evEnd[s] = "reset" /\ ev[s] = 0
    /\ evEnd' = [evEnd EXCEPT ![s] = "open"]
    /\ IF s \in cLive THEN Abandon(s) ELSE UNCHANGED <<cancel, clientVars>>
    /\ UNCHANGED <<backendVars, flight, wireVars, upVars, ev, rel>>

\* RST_STREAM from the client.
ClientReset(s) ==
    /\ s \in MayReset /\ s \in cLive
    /\ Abandon(s)
    /\ UNCHANGED <<backendVars, flight, wireVars, upVars, ev, evEnd, rel>>

\* Service::released: tell the upstream, while the proxy still has a route.
\* (Mutant first: the call that ADR 0016 is about, forgotten.)
EmitReleasedNever(s, n) == UNCHANGED rel
EmitReleased(s, n) ==
    rel' = [rel EXCEPT ![s] = IF s \in pRoute THEN @ + n ELSE @]

\* How much one visit may write.
Budget(s) == Lesser(SendBudget, Lesser(cStr[s], cConn[Owner[s]]))

\* One visit of the outbound round-robin: n octets within the budget and both
\* windows.  END_STREAM closes the stream, whose Proxy route is finished before
\* `released` looks for it.
Visit(s, n, end) ==
    /\ s \in cLive
    /\ n \in 0..Lesser(queue[s], Budget(s))
    /\ n > 0 \/ (queue[s] = 0 /\ qEnd[s])
    /\ queue' = [queue EXCEPT ![s] = @ - n]
    /\ cStr'  = [cStr EXCEPT ![s] = @ - n]
    /\ cConn' = [cConn EXCEPT ![Owner[s]] = @ - n]
    /\ owed'  = [owed EXCEPT ![s] = @ + n]
    /\ IF end
       THEN /\ cLive'   = cLive \ {s}
            /\ pRoute'  = pRoute \ {s}
            /\ qEnd'    = [qEnd EXCEPT ![s] = FALSE]
            /\ outcome' = [outcome EXCEPT ![s] = "whole"]
            /\ UNCHANGED rel
       ELSE /\ EmitReleased(s, n)
            /\ UNCHANGED <<cLive, pRoute, qEnd, outcome>>
    /\ UNCHANGED <<backendVars, flight, wireVars, upVars, ev, evEnd, cancel, alive>>

\* END_STREAM goes with the last queued octets, once the responder is done.
\* (Mutant: as soon as the responder is done.)
SendDataEndsEarly(s, n) == Visit(s, n, qEnd[s])
SendData(s, n)          == Visit(s, n, qEnd[s] /\ n = queue[s])

\* The client returns credit at both levels for what it has read.
ClientCredit(s) ==
    /\ owed[s] > 0
    /\ cConn' = [cConn EXCEPT ![Owner[s]] = @ + owed[s]]
    /\ cStr'  = [cStr EXCEPT ![s] = IF s \in cLive THEN @ + owed[s] ELSE @]
    /\ owed'  = [owed EXCEPT ![s] = 0]
    /\ UNCHANGED <<backendVars, flight, wireVars, upVars, ev, evEnd, rel, cancel,
                   alive, cLive, pRoute, queue, qEnd, outcome>>

\* A client disconnects.  Its task ends, its event channel closes and its Proxy
\* is dropped: the leases go back to the pool, and nothing is said upstream.
HangUp(c) ==
    LET mine == {s \in Streams : Owner[s] = c}
        ClearNat(f) == [s \in Streams |-> IF s \in mine THEN 0 ELSE f[s]]
    IN
    /\ c \in MayHangUp \cap alive
    /\ alive'  = alive \ {c}
    /\ cLive'  = cLive \ mine
    /\ pRoute' = pRoute \ mine
    /\ queue'  = ClearNat(queue)
    /\ owed'   = ClearNat(owed)
    /\ ev'     = ClearNat(ev)
    /\ evEnd'  = [s \in Streams |-> IF s \in mine THEN "open" ELSE evEnd[s]]
    /\ qEnd'   = [s \in Streams |-> qEnd[s] /\ s \notin mine]
    /\ UNCHANGED <<backendVars, flight, wireVars, upVars, rel, cancel,
                   cConn, cStr, outcome>>

-----------------------------------------------------------------------------
Next ==
    \/ BackendCredited
    \/ \E c \in Clients : HangUp(c)
    \/ \E s \in Streams :
          \/ \E end \in BOOLEAN : \E n \in 0..bLeft[s] : BackendSend(s, n, end)
          \/ BackendReset(s) \/ BackendSeesReset(s) \/ BackendStreamCredited(s)
          \/ \E end \in BOOLEAN : \E n \in 0..flight[s] : RecvData(s, n, end)
          \/ RecvReset(s)
          \/ \E n \in 1..rel[s] : TakeReleased(s, n)
          \/ TakeCancel(s)
          \/ \E end \in BOOLEAN : \E n \in 0..ev[s] : TakeData(s, n, end)
          \/ TakeReset(s) \/ ClientReset(s)
          \/ \E n \in 0..queue[s] : SendData(s, n)
          \/ ClientCredit(s)

\* Each task handles what has arrived, the backend goes on sending and reading
\* its socket, and a connected client goes on reading.  Resets, aborts and
\* hang-ups are never forced.
Fairness ==
    /\ WF_vars(BackendCredited)
    /\ \A s \in Streams :
          /\ WF_vars(\E end \in BOOLEAN : \E n \in 0..bLeft[s] : BackendSend(s, n, end))
          /\ WF_vars(BackendSeesReset(s))
          /\ WF_vars(BackendStreamCredited(s))
          /\ WF_vars(\E end \in BOOLEAN : \E n \in 0..flight[s] : RecvData(s, n, end))
          /\ WF_vars(RecvReset(s))
          /\ WF_vars(\E n \in 1..rel[s] : TakeReleased(s, n))
          /\ WF_vars(TakeCancel(s))
          /\ WF_vars(\E end \in BOOLEAN : \E n \in 0..ev[s] : TakeData(s, n, end))
          /\ WF_vars(TakeReset(s))
          /\ WF_vars(\E n \in 0..queue[s] : SendData(s, n))
          /\ WF_vars(ClientCredit(s))

Spec     == Init /\ [][Next]_vars
FairSpec == Spec /\ Fairness

-----------------------------------------------------------------------------
(* Safety *)

\* On a live stream, stream credit is conserved across the four processes: no
\* FLOW_CONTROL_ERROR is ever raised against a backend that spends only the
\* credit we announced, across resets and cancellations (recv_data, release).
StreamCreditConserved ==
    /\ TypeOK /\ ~fault
    /\ \A s \in route :
        /\ bStr[s] + flight[s] + wuStr[s] = uStr[s].window
        /\ uStr[s].window + pend[s] + uStr[s].unreleased = StreamWindow

\* The credit a route withholds is exactly the octets that are still between
\* the upstream task and the client's socket: nothing is owed for octets that
\* are gone, and nothing still buffered has been credited.  (As long as the
\* client task knows the request; a Cancel or a hang-up ends that.)
HeldIsBuffered ==
    \A s \in route \cap pRoute : pend[s] = ev[s] + queue[s] + rel[s]

\* A client that sees END_STREAM has received everything the backend sent:
\* no octet is left on the wire, in the event channel or in the send queue.
EndMeansWhole ==
    \A s \in Streams : outcome[s] = "whole" =>
        bLeft[s] = 0 /\ flight[s] = 0 /\ ev[s] = 0 /\ queue[s] = 0

\* Connection-level credit is an instance of the abstract credit loop: every
\* step of the four processes is one of its steps.
Loop == INSTANCE CreditLoop WITH
            Initial <- ConnWindow,
            Granted <- DefaultWindow,
            credit  <- bConn,
            flight  <- Total(flight),
            recv    <- uConn,
            held    <- Total(pend),
            update  <- wuConn

ConnCreditLoop == Loop!Spec

\* What upstream.rs:34-39 states, and what does not hold when END_STREAM gives
\* credit back early (README): at most one connection window of response
\* octets is in this process, however large the response or slow the client.
OneWindowBuffered == Total(ev) + Total(queue) <= ConnWindow

-----------------------------------------------------------------------------
(* Liveness *)

\* What proxy.rs:1186-1187 states of a client that hangs up mid-stream: nothing
\* leaks.  The backend credit its responses hold comes back sooner or later.
NothingHeldForTheGone ==
    \A s \in Streams : Owner[s] \notin alive => pend[s] = 0
HangUpLeaksNothing == []<>NothingHeldForTheGone

\* Requests give back everything they held, cancelled ones included: in the end
\* nothing is held and the backend has its connection credit, up to the part
\* kept back for the next WINDOW_UPDATE.  (Until a client hangs up: see above.)
CreditWhole     == (\A s \in Streams : pend[s] = 0) /\ 2 * bConn > ConnWindow
WholeOrHungUp   == CreditWhole \/ alive # Clients
CreditComesBack == []<>WholeOrHungUp

\* Every response to a connected client ends: it arrives whole, or the client
\* or the backend gave it up; and what it held comes back.  Windows at four
\* places and two levels, and batched updates, never add up to a stall.
ResponsesEnd ==
    /\ \A s \in Streams : <>(outcome[s] # "none" \/ Owner[s] \notin alive)
    /\ CreditComesBack

=============================================================================
