-------------------------------- MODULE Upload --------------------------------
(***************************************************************************)
(* The request direction of the backpressure bridge (ADR 0016): a client   *)
(* uploads over one client connection (conn.rs, with proxy.rs as its       *)
(* Service), the upstream task (upstream.rs) forwards the octets as the    *)
(* backend's windows allow, and the client gets its credit back with       *)
(* BodyAccepted, once the octets have gone on.                             *)
(*                                                                         *)
(* The client's connection window is CreditLoop, and every action here is  *)
(* a step of it: `held` is what all streams hold together.  The requests   *)
(* are POSTs, already open at both ends.  As in Bridge, each channel is    *)
(* FIFO and counted per stream, and a terminator comes after the octets.   *)
(* What the backend has not yet credited includes what is on its way to it.*)
(***************************************************************************)
EXTENDS CreditLoop, SequencesExt

CONSTANTS
    Streams,        (* Uploads multiplexed on both connections.              *)
    Body,           (* Octets in the body of each.                           *)
    StreamInitial,  (* INITIAL_WINDOW_SIZE we announce to the client.        *)
    BackendConn,    (* Connection credit the backend grants us.              *)
    BackendSizes,   (* Values of INITIAL_WINDOW_SIZE the backend announces.  *)
    FirstSize,      (* The value in its first SETTINGS.                      *)
    MaxChanges,     (* Bound: how often it does.                             *)
    SendBudget,     (* SEND_BUDGET and the backend's MAX_FRAME_SIZE.         *)
    MayReset,       (* Streams their client may reset.                       *)
    MayAbort,       (* Streams the backend may reset.                        *)
    MayAnswer       (* Streams the backend may answer before they end.       *)

ASSUME UploadAssumption ==
    /\ IsFiniteSet(Streams) /\ Body \in [Streams -> Nat]
    /\ StreamInitial \in 1..MaxWindow /\ BackendConn \in 1..MaxWindow
    /\ BackendSizes \subseteq 0..MaxWindow /\ FirstSize \in BackendSizes
    /\ SendBudget \in Nat \ {0}
    /\ MayReset \subseteq Streams /\ MayAbort \subseteq Streams /\ MayAnswer \subseteq Streams

VARIABLES
    \* The client, and its half of the wire.
    left,       (* Octets not yet sent.                                      *)
    cCredit,    (* Stream credit the client has.                             *)
    cFlight,    (* DATA octets on the wire.                                  *)
    cEnd,       (* "open", or the terminator on the wire: "end", "rst";      *)
                (* "done" when it was read, or we reset the stream.          *)
    cUpdate,    (* Stream increments on the wire to the client.              *)
    \* The client connection task and its Proxy service.
    st,         (* StreamState: "open", "half" (remote), "local", "gone".    *)
    rw,         (* Stream::recv_window.                                      *)
    pend,       (* Stream::pending_conn_release.                             *)
    pRoute,     (* Streams with a proxy Route.                               *)
    \* Channels between the tasks.
    inbox,      (* ToUpstream::Body octets not yet taken.                    *)
    iEnd,       (* Streams with the end of the body behind them,             *)
    iCancel,    (* and with a ToUpstream::Cancel behind that.                *)
    acc,        (* ServiceEvent::BodyAccepted octets not yet taken.          *)
    ev,         (* The event behind them: "open", "answer", "reset".         *)
    \* The upstream task.
    route,      (* Streams with a live stream and a Route.                   *)
    queue, qEnd,(* Stream::send_queue, send_end_stream.                      *)
    sw, kw,     (* Send windows, of each stream and of the connection.       *)
    iw,         (* peer_settings.initial_window_size.                        *)
    \* The backend, and its half of the wire.
    bHeld,      (* Octets sent to it and not credited.                       *)
    bUpdate,    (* Stream increments on the wire from it.                    *)
    kUpdate,    (* Stream-0 increments on the wire from it.                  *)
    whole,      (* Streams whose END_STREAM it was sent.                     *)
    bEnd,       (* "open", or how it ended the stream: "answer", "reset".    *)
    sizes,      (* The size in force here, and those on the wire.            *)
    changes     (* How many it has announced.                                *)

clientVars  == <<left, cCredit, cFlight, cEnd, cUpdate>>
taskVars    == <<st, rw, pend, pRoute>>
channels    == <<inbox, iEnd, iCancel, acc, ev>>
upVars      == <<route, queue, qEnd, sw, kw, iw>>
backendVars == <<bHeld, bUpdate, kUpdate, whole, bEnd, sizes, changes>>
upload      == <<clientVars, taskVars, channels, upVars, backendVars>>
all         == <<vars, upload>>

Lesser(a, b) == IF a < b THEN a ELSE b

UInit ==
    /\ Init
    /\ left = Body /\ cCredit = [s \in Streams |-> StreamInitial]
    /\ cFlight = [s \in Streams |-> 0] /\ cEnd = [s \in Streams |-> "open"]
    /\ cUpdate = [s \in Streams |-> 0]
    /\ st = [s \in Streams |-> "open"]
    /\ rw = [s \in Streams |-> NewRecvWindow(StreamInitial)]
    /\ pend = [s \in Streams |-> 0] /\ pRoute = Streams
    /\ inbox = [s \in Streams |-> 0] /\ iEnd = {} /\ iCancel = {}
    /\ acc = [s \in Streams |-> 0] /\ ev = [s \in Streams |-> "open"]
    /\ route = Streams /\ queue = [s \in Streams |-> 0] /\ qEnd = [s \in Streams |-> FALSE]
    /\ sw = [s \in Streams |-> FirstSize] /\ kw = BackendConn /\ iw = FirstSize
    /\ bHeld = [s \in Streams |-> 0] /\ bUpdate = [s \in Streams |-> 0] /\ kUpdate = 0
    /\ whole = {} /\ bEnd = [s \in Streams |-> "open"] /\ sizes = <<FirstSize>> /\ changes = 0

-----------------------------------------------------------------------------
(* The client (external) *)

\* An octet at a time: RecvData finds the frames.
ClientSend(s) ==
    /\ cEnd[s] = "open" /\ left[s] > 0 /\ cCredit[s] > 0
    /\ Send(1)
    /\ left' = [left EXCEPT ![s] = @ - 1]
    /\ cCredit' = [cCredit EXCEPT ![s] = @ - 1]
    /\ cFlight' = [cFlight EXCEPT ![s] = @ + 1]
    /\ UNCHANGED <<cEnd, cUpdate, taskVars, channels, upVars, backendVars>>

ClientEnds(s) ==
    /\ cEnd[s] = "open" /\ left[s] = 0
    /\ cEnd' = [cEnd EXCEPT ![s] = "end"]
    /\ UNCHANGED <<vars, left, cCredit, cFlight, cUpdate, taskVars, channels, upVars, backendVars>>

ClientResets(s) ==
    /\ s \in MayReset /\ cEnd[s] = "open"
    /\ cEnd' = [cEnd EXCEPT ![s] = "rst"] /\ left' = [left EXCEPT ![s] = 0]
    /\ UNCHANGED <<vars, cCredit, cFlight, cUpdate, taskVars, channels, upVars, backendVars>>

\* WINDOW_UPDATEs on the wire are counted, and delivered together.
ClientCredited ==
    /\ update > 0 \/ \E s \in Streams : cUpdate[s] > 0
    /\ IF update > 0 THEN Credited ELSE UNCHANGED vars
    /\ cCredit' = [s \in Streams |-> cCredit[s] + cUpdate[s]]
    /\ cUpdate' = [s \in Streams |-> 0]
    /\ UNCHANGED <<left, cFlight, cEnd, taskVars, channels, upVars, backendVars>>

-----------------------------------------------------------------------------
(* The client connection task *)

\* Stream::retire, and what Proxy is told: "finish" or "cancel".
Retire(s, told) ==
    /\ st' = [st EXCEPT ![s] = "gone"]
    /\ pend' = [pend EXCEPT ![s] = 0] /\ rw' = [rw EXCEPT ![s] = NewRecvWindow(StreamInitial)]
    /\ pRoute' = pRoute \ {s}
    /\ iCancel' = IF told = "cancel" /\ s \in pRoute THEN iCancel \cup {s} ELSE iCancel

\* What a retired stream held goes back to the connection (drain_reclaimed).
Reclaim(m) == IF m > 0 THEN Hand(m) ELSE UNCHANGED vars

\* Proxy::body.  Without a route nothing else will confirm the octets.
PassOn(s, n, end) ==
    IF s \in pRoute
    THEN /\ inbox' = [inbox EXCEPT ![s] = @ + n]
         /\ iEnd' = IF end THEN iEnd \cup {s} ELSE iEnd
         /\ UNCHANGED acc
    ELSE acc' = [acc EXCEPT ![s] = @ + n] /\ UNCHANGED <<inbox, iEnd>>

\* recv_data: n octets, the last ones if `end`.  On a stream that is answered
\* already END_STREAM closes it, and nobody is left to confirm the octets.
RecvBody(s, n, end) ==
    IF end /\ st[s] = "local"
    THEN /\ Arrive(n, pend[s] + n)
         /\ Retire(s, "finish")
         /\ acc' = [acc EXCEPT ![s] = @ + n] /\ UNCHANGED <<inbox, iEnd>>
    ELSE /\ Arrive(n, 0)
         /\ rw' = [rw EXCEPT ![s] = Record(@, n)] /\ pend' = [pend EXCEPT ![s] = @ + n]
         /\ st' = IF end THEN [st EXCEPT ![s] = "half"] ELSE st
         /\ PassOn(s, n, end)
         /\ UNCHANGED <<pRoute, iCancel>>

RecvData(s, n) ==
    LET end == n = cFlight[s] /\ cEnd[s] = "end"
    IN  /\ n \in 0..cFlight[s] /\ (n = 0 => end)
        /\ CASE st[s] = "gone" ->
                    Arrive(n, n) /\ UNCHANGED <<taskVars, inbox, iEnd, iCancel, acc>>
             [] st[s] # "gone" /\ ~CanConsume(rw[s].window, n) ->
                    Arrive(n, pend[s] + n) /\ Retire(s, "cancel") /\ UNCHANGED <<inbox, iEnd, acc>>
             [] st[s] # "gone" /\ CanConsume(rw[s].window, n) ->
                    RecvBody(s, n, end)
        /\ cFlight' = [cFlight EXCEPT ![s] = @ - n]
        /\ cEnd' = IF end THEN [cEnd EXCEPT ![s] = "done"] ELSE cEnd
        /\ UNCHANGED <<left, cCredit, cUpdate, ev, upVars, backendVars>>

\* recv_rst_stream
RecvRst(s) ==
    /\ cEnd[s] = "rst" /\ cFlight[s] = 0
    /\ cEnd' = [cEnd EXCEPT ![s] = "done"]
    /\ IF st[s] = "gone" THEN UNCHANGED <<vars, taskVars, iCancel>>
       ELSE Reclaim(pend[s]) /\ Retire(s, "cancel")
    /\ UNCHANGED <<left, cCredit, cFlight, cUpdate, inbox, iEnd, acc, ev, upVars, backendVars>>

\* Mutant: only the connection's window is told.
TakeAcceptedOfConn(s, n) ==
    /\ n \in 1..acc[s]
    /\ acc' = [acc EXCEPT ![s] = @ - n]
    /\ IF st[s] = "gone" THEN UNCHANGED <<vars, pend>>
       ELSE Hand(n) /\ pend' = [pend EXCEPT ![s] = @ - Lesser(n, @)]
    /\ UNCHANGED <<left, cCredit, cFlight, cEnd, cUpdate, st, rw, pRoute, inbox, iEnd, iCancel,
                   ev, upVars, backendVars>>

\* BodyAccepted: release_recv_window, at both levels while the stream lives.
TakeAccepted(s, n) ==
    /\ n \in 1..acc[s]
    /\ acc' = [acc EXCEPT ![s] = @ - n]
    /\ IF st[s] = "gone" THEN UNCHANGED <<vars, rw, pend, cUpdate>>
       ELSE /\ Hand(n)
            /\ pend' = [pend EXCEPT ![s] = @ - Lesser(n, @)]
            /\ rw' = [rw EXCEPT ![s] = Release(@, n, StreamInitial)]
            /\ cUpdate' = [cUpdate EXCEPT ![s] = @ + Increment(rw[s], n, StreamInitial)]
    /\ UNCHANGED <<left, cCredit, cFlight, cEnd, st, pRoute, inbox, iEnd, iCancel, ev, upVars, backendVars>>

\* Head with END_STREAM, or Reset; either finds a stream, or is dropped.
TakeEvent(s) ==
    /\ acc[s] = 0 /\ ev[s] # "open"
    /\ ev' = [ev EXCEPT ![s] = "open"]
    /\ CASE st[s] = "gone" -> UNCHANGED <<vars, taskVars, iCancel>>
         [] ev[s] = "answer" /\ st[s] = "open" ->
                st' = [st EXCEPT ![s] = "local"] /\ UNCHANGED <<vars, rw, pend, pRoute, iCancel>>
         [] ev[s] = "answer" /\ st[s] = "half" -> Reclaim(pend[s]) /\ Retire(s, "finish")
         [] ev[s] = "reset" /\ st[s] # "gone"  -> Reclaim(pend[s]) /\ Retire(s, "cancel")
    /\ UNCHANGED <<left, cCredit, cFlight, cEnd, cUpdate, inbox, iEnd, acc, upVars, backendVars>>

-----------------------------------------------------------------------------
(* The upstream task *)

\* ToUpstream::Body; octets of a request that is over are thrown away.
TakeBody(s) ==
    /\ inbox[s] > 0 \/ s \in iEnd
    /\ inbox' = [inbox EXCEPT ![s] = 0]
    /\ iEnd' = iEnd \ {s}
    /\ IF s \in route
       THEN /\ queue' = [queue EXCEPT ![s] = @ + inbox[s]]
            /\ qEnd' = [qEnd EXCEPT ![s] = @ \/ s \in iEnd]
       ELSE UNCHANGED <<queue, qEnd>>
    /\ UNCHANGED <<vars, clientVars, taskVars, iCancel, acc, ev, route, sw, kw, iw, backendVars>>

\* forget, and write_rst_stream where the stream is still open.
Forget(s) ==
    /\ route' = route \ {s}
    /\ queue' = [queue EXCEPT ![s] = 0] /\ qEnd' = [qEnd EXCEPT ![s] = FALSE]
    /\ sw' = [sw EXCEPT ![s] = 0]

TakeCancel(s) ==
    /\ inbox[s] = 0 /\ s \in iCancel \ iEnd
    /\ iCancel' = iCancel \ {s}
    /\ Forget(s)
    /\ UNCHANGED <<vars, clientVars, taskVars, inbox, iEnd, acc, ev, kw, iw, backendVars>>

Budget(s) == Lesser(SendBudget, Lesser(sw[s], kw))

\* Mutant: octets that go out with END_STREAM are not acknowledged.
VisitEndsUnacknowledged(s) ==
    LET n   == IF Budget(s) < 0 THEN 0 ELSE Lesser(queue[s], Budget(s))
        end == qEnd[s] /\ n = queue[s]
    IN  /\ s \in route /\ (n > 0 \/ end)
        /\ queue' = [queue EXCEPT ![s] = @ - n]
        /\ qEnd' = [qEnd EXCEPT ![s] = @ /\ ~end]
        /\ sw' = [sw EXCEPT ![s] = @ - n] /\ kw' = kw - n
        /\ bHeld' = [bHeld EXCEPT ![s] = @ + n]
        /\ whole' = IF end THEN whole \cup {s} ELSE whole
        /\ acc' = IF end THEN acc ELSE [acc EXCEPT ![s] = @ + n]
        /\ UNCHANGED <<vars, clientVars, taskVars, inbox, iEnd, iCancel, ev, route, iw,
                       bUpdate, kUpdate, bEnd, sizes, changes>>

\* visit_ready_stream: what is sent is accepted, so the client may send more.
Visit(s) ==
    LET n   == IF Budget(s) < 0 THEN 0 ELSE Lesser(queue[s], Budget(s))
        end == qEnd[s] /\ n = queue[s]
    IN  /\ s \in route /\ (n > 0 \/ end)
        /\ queue' = [queue EXCEPT ![s] = @ - n]
        /\ qEnd' = [qEnd EXCEPT ![s] = @ /\ ~end]
        /\ sw' = [sw EXCEPT ![s] = @ - n] /\ kw' = kw - n
        /\ bHeld' = [bHeld EXCEPT ![s] = @ + n]
        /\ whole' = IF end THEN whole \cup {s} ELSE whole
        /\ acc' = [acc EXCEPT ![s] = @ + n]
        /\ UNCHANGED <<vars, clientVars, taskVars, inbox, iEnd, iCancel, ev, route, iw,
                       bUpdate, kUpdate, bEnd, sizes, changes>>

\* recv_window_update; credit for a stream that has finished is harmless.
RecvUpdate(s) ==
    /\ bUpdate[s] > 0
    /\ bUpdate' = [bUpdate EXCEPT ![s] = 0]
    /\ sw' = IF s \in route THEN [sw EXCEPT ![s] = @ + bUpdate[s]] ELSE sw
    /\ UNCHANGED <<vars, clientVars, taskVars, channels, route, queue, qEnd, kw, iw,
                   bHeld, kUpdate, whole, bEnd, sizes, changes>>

RecvConnUpdate ==
    /\ kUpdate > 0 /\ kUpdate' = 0 /\ kw' = kw + kUpdate
    /\ UNCHANGED <<vars, clientVars, taskVars, channels, route, queue, qEnd, sw, iw,
                   bHeld, bUpdate, whole, bEnd, sizes, changes>>

\* Mutant: the windows take the new value, whatever was already spent.
ApplySizeAsValue(delta) ==
    /\ sw' = [s \in Streams |-> IF s \in route THEN iw + delta ELSE sw[s]]
    /\ iw' = iw + delta

\* apply_initial_window_delta: every open stream moves, and may go below zero.
ApplySize(delta) ==
    /\ sw' = [s \in Streams |-> IF s \in route THEN sw[s] + delta ELSE sw[s]]
    /\ iw' = iw + delta

RecvSettings ==
    /\ Len(sizes) > 1
    /\ sizes' = Tail(sizes)
    /\ ApplySize(sizes[2] - sizes[1])
    /\ UNCHANGED <<vars, clientVars, taskVars, channels, route, queue, qEnd, kw,
                   bHeld, bUpdate, kUpdate, whole, bEnd, changes>>

\* recv_response with END_STREAM, or RST_STREAM: the route ends and is told.
RecvEnding(s) ==
    /\ s \in route /\ bEnd[s] # "open"
    /\ ev' = [ev EXCEPT ![s] = bEnd[s]]
    /\ Forget(s)
    /\ UNCHANGED <<vars, clientVars, taskVars, inbox, iEnd, iCancel, acc, kw, iw, backendVars>>

-----------------------------------------------------------------------------
(* The backend (external) *)

\* It credits all it has of a stream, at both levels.
BackendCredits(s) ==
    /\ bHeld[s] > 0
    /\ bHeld' = [bHeld EXCEPT ![s] = 0]
    /\ kUpdate' = kUpdate + bHeld[s]
    /\ bUpdate' = IF s \in route THEN [bUpdate EXCEPT ![s] = @ + bHeld[s]] ELSE bUpdate
    /\ UNCHANGED <<vars, clientVars, taskVars, channels, upVars, whole, bEnd, sizes, changes>>

BackendAnswers(s) ==
    /\ s \in route /\ bEnd[s] = "open" /\ (s \in whole \/ s \in MayAnswer)
    /\ bEnd' = [bEnd EXCEPT ![s] = "answer"]
    /\ UNCHANGED <<vars, clientVars, taskVars, channels, upVars,
                   bHeld, bUpdate, kUpdate, whole, sizes, changes>>

BackendResets(s) ==
    /\ s \in route \cap MayAbort /\ bEnd[s] = "open"
    /\ bEnd' = [bEnd EXCEPT ![s] = "reset"]
    /\ UNCHANGED <<vars, clientVars, taskVars, channels, upVars,
                   bHeld, bUpdate, kUpdate, whole, sizes, changes>>

BackendResizes(n) ==
    /\ n \in BackendSizes /\ n # Last(sizes) /\ changes < MaxChanges
    /\ sizes' = Append(sizes, n) /\ changes' = changes + 1
    /\ UNCHANGED <<vars, clientVars, taskVars, channels, upVars,
                   bHeld, bUpdate, kUpdate, whole, bEnd>>

-----------------------------------------------------------------------------
\* What the tasks, the wires, and a client and a backend that do their part do.
Work ==
    \/ \E s \in Streams :
        \/ ClientSend(s) \/ ClientEnds(s)
        \/ \E n \in 0..Body[s] : RecvData(s, n) \/ TakeAccepted(s, n)
        \/ RecvRst(s) \/ TakeEvent(s)
        \/ TakeBody(s) \/ TakeCancel(s) \/ Visit(s) \/ RecvUpdate(s) \/ RecvEnding(s)
        \/ BackendCredits(s)
    \/ ClientCredited \/ RecvConnUpdate \/ RecvSettings

\* Nobody has to reset, answer or resize.
Whim ==
    \/ \E s \in Streams :
        ClientResets(s) \/ BackendAnswers(s) \/ BackendResets(s)
    \/ \E n \in BackendSizes : BackendResizes(n)

UNext == Work \/ Whim

USpec == UInit /\ [][UNext]_all

\* Bodies are finite, so no handler can be kept from running by another for
\* ever: it is enough that something runs while something can.
UFairSpec == USpec /\ WF_all(Work)

-----------------------------------------------------------------------------
(* Properties *)

\* Every octet a stream holds is on its way to the backend or acknowledged
\* already, unless the stream is about to end: nothing the client has sent is
\* forgotten while it waits for the credit (service.rs:407).
HeldIsAwaited ==
    \A s \in Streams :
        st[s] # "gone" /\ ev[s] = "open" => pend[s] = inbox[s] + queue[s] + acc[s]

\* Stream credit is conserved too, and with it the connection's: what the
\* streams hold together is what the connection window waits for.
StreamCreditConserved ==
    /\ Total(pend) = held
    /\ \A s \in Streams : st[s] # "gone" =>
        /\ cCredit[s] + cFlight[s] + cUpdate[s] = rw[s].window
        /\ rw[s].window + rw[s].unreleased + pend[s] = StreamInitial

\* Whatever sizes the backend announces while DATA is on its way, a window
\* is the size in force less what the backend has not credited: it goes below
\* zero, and comes back (flow.rs:126).
SendCreditConserved ==
    /\ kw + kUpdate + Total(bHeld) = BackendConn
    /\ \A s \in route : sw[s] + bUpdate[s] + bHeld[s] = iw

\* An upload that neither end resets reaches the backend, down to its
\* END_STREAM, though every window on the way fills (upstream.rs:38).
UploadsEnd == \A s \in Streams \ (MayReset \cup MayAbort) : <>(s \in whole)

=============================================================================
