----------------------------- MODULE UpstreamConn -----------------------------
(***************************************************************************)
(* One upstream connection task (upstream.rs): the requests client         *)
(* connections send it through its inbox, the queue for requests that find *)
(* no slot, the backend's SETTINGS, RST_STREAM and GOAWAY, and the ways    *)
(* the connection can end.  Flow control is module Bridge's subject: here  *)
(* DATA always fits.                                                       *)
(*                                                                         *)
(* A request is named by its RequestId.  Stream ids are numbered 1, 2, ... *)
(* in the order they are allocated (the code's 2n - 1); `id` is 0 until    *)
(* the HEADERS is queued.  What the client connection is told is folded    *)
(* into `stage`, the last event sent for the request.                      *)
(***************************************************************************)
EXTENDS Integers, Sequences, FiniteSets, SequencesExt

CONSTANTS
    Requests,       (* RequestIds.                                           *)
    BodyOf,         (* Body messages each request is followed by.            *)
    MaxPending,     (* `max_pending`, the bound of the queue.                *)
    FirstLimit,     (* The concurrency limit in force at the start.          *)
    Limits,         (* Values of MAX_CONCURRENT_STREAMS the backend may send.*)
    MaxSettings,    (* Bound: SETTINGS frames the backend sends.             *)
    MaxGoAway,      (* Bound: GOAWAY frames the backend sends.               *)
    Faults,         (* Malformed frames the backend sends, one in all.       *)
    MayCancel,      (* Requests whose client may cancel.                     *)
    MayDie          (* Whether the connection may fail.                      *)

ASSUME UpstreamAssumption ==
    /\ IsFiniteSet(Requests)
    /\ BodyOf \in [Requests -> Nat]
    /\ MaxPending \in Nat /\ FirstLimit \in Nat /\ Limits \subseteq Nat
    /\ MaxSettings \in Nat /\ MaxGoAway \in Nat
    /\ Faults \subseteq {"zero update", "bad trailers"}
    /\ MayCancel \subseteq Requests /\ MayDie \in BOOLEAN

VARIABLES
    \* The proxies of the client connections.
    asked,      (* Body messages sent per request; -1 before the Request.    *)
    gaveUp,     (* Requests whose Cancel has been sent.                      *)
    inbox,      (* The ToUpstream channel.                                   *)
    stage,      (* The last ServiceEvent sent for each request.              *)
    \* The connection task.
    up,         (* "open", "stopping", "failed", "closed": see the end.      *)
    limit,      (* The table's max_concurrent.                               *)
    nextId,     (* next_stream_id.                                           *)
    id,         (* Stream id of each request.                                *)
    live,       (* Requests with an entry in the stream table.               *)
    routes,     (* Requests in `routes` and `requests`.                      *)
    buf,        (* Pending::body while queued, then Stream::send_queue.      *)
    pending,    (* The queue of requests waiting for a slot.                 *)
    cancelled,  (* `cancelled`.                                              *)
    draining,   (* The last_stream_id of `peer_draining`; NotDraining if none*)
    \* The wires and the backend.
    toB, fromB,
    bState,     (* How far the backend is with each request: see BackendState*)
    bGot,       (* Request body the backend has: [n, end].                   *)
    bLast,      (* The last stream id it has announced in a GOAWAY.          *)
    bSent       (* SETTINGS, GOAWAYs and malformed frames sent so far.       *)

clientVars  == <<asked, gaveUp>>
taskVars    == <<up, limit, nextId, id, live, routes, buf, pending, cancelled, draining>>
backendVars == <<bState, bGot, bLast, bSent>>
vars == <<clientVars, inbox, stage, taskVars, toB, fromB, backendVars>>

Never       == Cardinality(Requests) + 1    \* above every stream id
NotDraining == Never + 1

BackendState == {"idle", "open", "head", "data", "done", "reset", "refused"}

NoBody == [n |-> 0, end |-> FALSE]
Final  == {"ended", "reset", "refused", "gone", "shed"}
Stage  == {"none", "head", "illegal"} \cup Final

\* What one more event makes of a request.  Head comes first and once, a
\* refusal, 502 or 503 only before it, and nothing after an ending.
After(was, event) ==
    CASE was = "none" /\ event = "Head"                        -> "head"
      [] was = "none" /\ event = "HeadEnd"                     -> "ended"
      [] was = "none" /\ event \in {"reset", "refused", "gone", "shed"} -> event
      [] was = "head" /\ event = "Data"                        -> "head"
      [] was = "head" /\ event = "End"                         -> "ended"
      [] was = "head" /\ event = "reset"                       -> "reset"
      [] OTHER                                                 -> "illegal"

Emit(r, event)  == stage' = [stage EXCEPT ![r] = After(@, event)]
Tell(S, event)  == [r \in Requests |->
                       IF r \in S THEN After(stage[r], event) ELSE stage[r]]

\* A message of the inbox, or a frame.
Frame(kind, r, end) == [k |-> kind, r |-> r, end |-> end]
Data(r)             == [k |-> "DATA", r |-> r, n |-> buf[r].n, end |-> buf[r].end]
Headers(r)          == Frame("HEADERS", r, BodyOf[r] = 0)

Init ==
    /\ asked = [r \in Requests |-> -1]
    /\ gaveUp = {}
    /\ inbox = <<>>
    /\ stage = [r \in Requests |-> "none"]
    /\ up = "open"
    /\ limit = FirstLimit
    /\ nextId = 1
    /\ id = [r \in Requests |-> 0]
    /\ live = {}
    /\ routes = {}
    /\ buf = [r \in Requests |-> NoBody]
    /\ pending = <<>>
    /\ cancelled = {}
    /\ draining = NotDraining
    /\ toB = <<>>
    /\ fromB = <<>>
    /\ bState = [r \in Requests |-> "idle"]
    /\ bGot = [r \in Requests |-> NoBody]
    /\ bLast = NotDraining
    /\ bSent = [k \in {"SETTINGS", "GOAWAY", "FAULT"} |-> 0]

TypeOK ==
    /\ asked \in [Requests -> Int] /\ gaveUp \subseteq Requests
    /\ inbox \in Seq([k : {"Request", "Body", "Cancel"}, r : Requests, end : BOOLEAN])
    /\ stage \in [Requests -> Stage]
    /\ up \in {"open", "stopping", "failed", "closed"}
    /\ limit \in Nat /\ nextId \in Nat /\ id \in [Requests -> Nat]
    /\ live \subseteq Requests /\ routes \subseteq Requests
    /\ buf \in [Requests -> [n : Nat, end : BOOLEAN]]
    /\ pending \in Seq(Requests) /\ Len(pending) <= MaxPending /\ cancelled \subseteq Requests
    /\ draining \in 0..NotDraining
    /\ bState \in [Requests -> BackendState]
    /\ bGot \in [Requests -> [n : Nat, end : BOOLEAN]]
    /\ bLast \in 0..NotDraining

-----------------------------------------------------------------------------
(* The proxies: a Request, its body, at most one Cancel, on a FIFO channel. *)

SendRequest(r) ==
    /\ asked[r] = -1 /\ up # "closed"
    /\ asked' = [asked EXCEPT ![r] = 0]
    /\ inbox' = Append(inbox, Frame("Request", r, BodyOf[r] = 0))
    /\ UNCHANGED <<gaveUp, stage, taskVars, toB, fromB, backendVars>>

SendBody(r) ==
    /\ asked[r] \in 0..(BodyOf[r] - 1) /\ r \notin gaveUp /\ up # "closed"
    /\ asked' = [asked EXCEPT ![r] = @ + 1]
    /\ inbox' = Append(inbox, Frame("Body", r, asked[r] + 1 = BodyOf[r]))
    /\ UNCHANGED <<gaveUp, stage, taskVars, toB, fromB, backendVars>>

SendCancel(r) ==
    /\ r \in MayCancel /\ asked[r] >= 0 /\ r \notin gaveUp /\ up # "closed"
    /\ gaveUp' = gaveUp \cup {r}
    /\ inbox' = Append(inbox, Frame("Cancel", r, FALSE))
    /\ UNCHANGED <<asked, stage, taskVars, toB, fromB, backendVars>>

-----------------------------------------------------------------------------
(* The connection task: the stream table and the queue. *)

\* can_open_local.  (Mutant: the limit itself is taken for free.)
CanOpenOneMore(open) == Cardinality(open) <= limit
CanOpen(open) == Cardinality(open) < limit

\* drain_pending: after `frames`, open as many queued requests as there are slots
\* beside `open`, oldest first; what arrived while they waited is in `buf` still.
FillSlots(open, kept, queue, frames) ==
    LET room   == IF CanOpen(open) THEN limit - Cardinality(open) ELSE 0
        n      == IF Len(queue) < room THEN Len(queue) ELSE room
        first  == SubSeq(queue, 1, n)
    IN  /\ live'    = open \cup ToSet(first)
        /\ routes'  = kept \cup ToSet(first)
        /\ pending' = SubSeq(queue, n + 1, Len(queue))
        /\ nextId'  = nextId + n
        /\ id'      = [r \in Requests |-> IF r \in ToSet(first)
                          THEN nextId + (CHOOSE i \in 1..n : first[i] = r) - 1
                          ELSE id[r]]
        /\ toB'     = frames \o [i \in 1..n |-> Headers(first[i])]
        /\ UNCHANGED buf

\* forget: the stream and the route go, and the slot goes to whoever waits.
\* (Mutant: nobody is told that a slot is free.)
ForgetOnly(r, frames) ==
    /\ live' = live \ {r} /\ routes' = routes \ {r}
    /\ toB' = frames
    /\ UNCHANGED <<pending, nextId, id, buf>>
Forget(r, frames) == FillSlots(live \ {r}, routes \ {r}, pending, frames)

NoForget == UNCHANGED <<live, routes, pending, nextId, id, toB, buf>>

\* open_local: stream ids strictly increase.
OpenLocal(r) ==
    /\ live' = live \cup {r}
    /\ id' = [id EXCEPT ![r] = nextId] /\ nextId' = nextId + 1

\* send_request: a slot, a place in the queue, or neither.
Admit(r) ==
    IF CanOpen(live)
    THEN /\ OpenLocal(r) /\ routes' = routes \cup {r}
         /\ toB' = Append(toB, Headers(r))
         /\ UNCHANGED <<stage, pending, buf>>
    ELSE IF Len(pending) < MaxPending
    THEN /\ pending' = Append(pending, r)
         /\ UNCHANGED <<stage, live, routes, id, nextId, toB, buf>>
    ELSE Emit(r, "shed") /\ NoForget

\* The same, for the Request at the head of the inbox, which may have been leased
\* just before the backend's GOAWAY.  That it was given up before it is read, the
\* code allows for; a Cancel does not overtake its Request in this channel.
TakeRequest(r) ==
    /\ cancelled' = cancelled \ {r}
    /\ CASE r \in cancelled                                -> UNCHANGED stage /\ NoForget
         [] r \notin cancelled /\ draining # NotDraining  -> Emit(r, "refused") /\ NoForget
         [] OTHER                                          -> Admit(r)

\* ToUpstream::Body: to the stream, or to the queued request, or nowhere.
\* (Mutant: the octets of a request that still waits for a slot are dropped.)
Buffer(r, end, keepers) ==
    /\ buf' = IF r \in keepers
              THEN [buf EXCEPT ![r] = [n |-> @.n + 1, end |-> end]] ELSE buf
    /\ UNCHANGED <<stage, cancelled, live, routes, id, nextId, pending, toB>>
TakeBodyOfStream(r, end) == Buffer(r, end, live)
TakeBody(r, end)         == Buffer(r, end, live \cup ToSet(pending))

\* The queue without r, which is in it once at most.
Without(q, r) == IF Contains(q, r)
                 THEN RemoveAt(q, CHOOSE i \in 1..Len(q) : q[i] = r) ELSE q

\* ToUpstream::Cancel.
TakeCancel(r) ==
    /\ UNCHANGED stage
    /\ IF r \in routes
       THEN /\ Forget(r, IF r \in live THEN Append(toB, Frame("RST", r, FALSE)) ELSE toB)
            /\ UNCHANGED cancelled
       ELSE /\ pending' = Without(pending, r)
            /\ cancelled' = cancelled \cup {r}
            /\ UNCHANGED <<live, routes, id, nextId, toB, buf>>

\* handle_message: one message of the inbox.
TakeMessage ==
    /\ up = "open" /\ inbox # <<>>
    /\ inbox' = Tail(inbox)
    /\ LET m == Head(inbox) IN
        CASE m.k = "Request" -> TakeRequest(m.r)
          [] m.k = "Body"    -> TakeBody(m.r, m.end)
          [] m.k = "Cancel"  -> TakeCancel(m.r)
    /\ UNCHANGED <<clientVars, up, limit, draining, fromB, backendVars>>

\* pump_outbound: a request body moves to the wire.
PumpBody(r) ==
    /\ up = "open" /\ r \in live /\ (buf[r].n > 0 \/ buf[r].end)
    /\ toB' = Append(toB, Data(r))
    /\ buf' = [buf EXCEPT ![r] = NoBody]
    /\ UNCHANGED <<clientVars, inbox, stage, up, limit, nextId, id, live, routes,
                   pending, cancelled, draining, fromB, backendVars>>

-----------------------------------------------------------------------------
(* The connection task: what the backend says. *)

\* A response head, or the trailers that follow one.  On a stream reset here but
\* still routed, the fields are forwarded first and then found to be illegal.
RecvHeaders(r, end) ==
    LET event == CASE stage[r] # "none" -> "End"
                   [] stage[r] = "none" -> IF end THEN "HeadEnd" ELSE "Head"
    IN  IF r \notin routes
        THEN NoForget /\ UNCHANGED stage
        ELSE /\ stage' = [stage EXCEPT ![r] =
                   IF r \in live THEN After(@, event) ELSE After(After(@, event), "reset")]
             /\ IF end \/ r \notin live THEN Forget(r, toB) ELSE NoForget

\* Trailers that do not validate are dropped, and the stream with them.
RecvBadTrailers(r) ==
    /\ IF r \in routes \ live THEN Emit(r, "reset") ELSE UNCHANGED stage
    /\ IF r \in routes THEN Forget(r, toB) ELSE NoForget

\* (Mutant: the route outlives the response.)
RecvDataKeepsRoute(r, end) ==
    /\ IF r \in live THEN Emit(r, IF end THEN "End" ELSE "Data") ELSE UNCHANGED stage
    /\ NoForget
RecvData(r, end) ==
    /\ IF r \in live THEN Emit(r, IF end THEN "End" ELSE "Data") ELSE UNCHANGED stage
    /\ IF r \in live /\ end THEN Forget(r, toB) ELSE NoForget

\* RST_STREAM: only REFUSED_STREAM promises that nothing ran.
RecvRst(r, refused) ==
    /\ IF r \in routes
       THEN Emit(r, IF refused /\ stage[r] = "none" THEN "refused" ELSE "reset")
       ELSE UNCHANGED stage
    /\ Forget(r, toB)

\* A zero WINDOW_UPDATE resets the stream, and only the stream table hears.
RecvZeroUpdate(r) ==
    /\ live' = live \ {r}
    /\ toB'  = Append(toB, Frame("RST", r, FALSE))
    /\ UNCHANGED <<stage, routes, pending, nextId, id, buf>>

\* begin_peer_drain: everything queued and everything above `last` is refused.
\* (Mutant: a stream the backend did accept is refused with them.)
Abandon(last, above) ==
    /\ draining' = last
    /\ stage' = Tell(ToSet(pending) \cup above, "refused")
    /\ FillSlots(live \ above, routes \ above, <<>>, toB)
BeginDrainFromLast(last) == Abandon(last, {r \in routes : id[r] >= last})
BeginDrain(last)         == Abandon(last, {r \in routes : id[r] > last})

\* handle_frame: one frame from the backend.
TakeFrame ==
    /\ up = "open" /\ fromB # <<>>
    /\ fromB' = Tail(fromB)
    /\ LET f == Head(fromB) IN
        CASE f.k = "GOAWAY" ->
                BeginDrain(f.last) /\ UNCHANGED limit
          [] f.k = "SETTINGS" ->
                limit' = f.max /\ NoForget /\ UNCHANGED <<stage, draining>>
          [] OTHER ->
                /\ UNCHANGED <<limit, draining>>
                /\ CASE f.k = "HEADERS"     -> RecvHeaders(f.r, f.end)
                     [] f.k = "DATA"        -> RecvData(f.r, f.end)
                     [] f.k = "RST"         -> RecvRst(f.r, f.refused)
                     [] f.k = "BADTRAILERS" -> RecvBadTrailers(f.r)
                     [] f.k = "ZEROUPDATE"  -> RecvZeroUpdate(f.r)
    /\ UNCHANGED <<clientVars, inbox, up, cancelled, backendVars>>

-----------------------------------------------------------------------------
(* The ways the connection ends.  The inbox is open until the very end.     *)

\* peer_drain_complete: the last promised response came, or PEER_DRAIN_DEADLINE.
DrainDone ==
    /\ up = "open" /\ draining # NotDraining /\ routes = {}
    /\ up' = "stopping"
    /\ UNCHANGED <<clientVars, inbox, stage, limit, nextId, id, live, routes, buf,
                   pending, cancelled, draining, toB, fromB, backendVars>>

DrainDeadline ==
    /\ up = "open" /\ draining # NotDraining /\ routes # {}
    /\ up' = "stopping"
    /\ UNCHANGED <<clientVars, inbox, stage, limit, nextId, id, live, routes, buf,
                   pending, cancelled, draining, toB, fromB, backendVars>>

\* The socket closes or fails, a probe goes unanswered, or the protocol breaks.
ConnectionFails ==
    /\ MayDie /\ up = "open"
    /\ up' = "stopping"
    /\ UNCHANGED <<clientVars, inbox, stage, limit, nextId, id, live, routes, buf,
                   pending, cancelled, draining, toB, fromB, backendVars>>

\* fail_all_routes, after the last flush.
FailAllRoutes ==
    /\ up = "stopping"
    /\ up' = "failed"
    /\ stage' = [r \in Requests |->
            CASE r \in ToSet(pending)                      -> After(stage[r], "gone")
              [] r \in routes /\ stage[r] = "none"         -> After(stage[r], "gone")
              [] r \in routes /\ stage[r] # "none"         -> After(stage[r], "reset")
              [] OTHER                                      -> stage[r]]
    /\ routes' = {} /\ pending' = <<>>
    /\ UNCHANGED <<clientVars, inbox, limit, nextId, id, live, buf, cancelled, draining,
                   toB, fromB, backendVars>>

\* The inbox closes, and requests that were never read are answered.
\* (Mutant: the receiver is dropped with whatever it holds.)
Unread == {r \in Requests : \E i \in DOMAIN inbox : inbox[i] = Frame("Request", r, BodyOf[r] = 0)}
CloseInboxSilently ==
    /\ up = "failed" /\ up' = "closed" /\ inbox' = <<>>
    /\ UNCHANGED <<clientVars, stage, limit, nextId, id, live, routes, buf, pending,
                   cancelled, draining, toB, fromB, backendVars>>
CloseInbox ==
    /\ up = "failed" /\ up' = "closed" /\ inbox' = <<>>
    /\ stage' = Tell(Unread, "gone")
    /\ UNCHANGED <<clientVars, limit, nextId, id, live, routes, buf, pending,
                   cancelled, draining, toB, fromB, backendVars>>

-----------------------------------------------------------------------------
(* The backend: any that follows HTTP/2, and one that, by Faults,            *)
(* sends frames HTTP/2 lets an endpoint answer with a stream error.           *)

Accept(f) == bState' = [bState EXCEPT ![f.r] = "open"]
          /\ bGot' = [bGot EXCEPT ![f.r].end = f.end]
          /\ UNCHANGED fromB
Refuse(f) == bState' = [bState EXCEPT ![f.r] = "refused"]
          /\ fromB' = Append(fromB, [k |-> "RST", r |-> f.r, refused |-> TRUE])
          /\ UNCHANGED bGot

BackendTake ==
    /\ toB # <<>>
    /\ toB' = Tail(toB)
    /\ LET f == Head(toB) IN
        CASE f.k = "HEADERS" /\ id[f.r] > bLast  -> UNCHANGED <<bState, bGot, fromB>>
          [] f.k = "HEADERS" /\ id[f.r] <= bLast -> Accept(f) \/ Refuse(f)
          [] f.k = "DATA" ->
                /\ bGot' = [bGot EXCEPT ![f.r] = [n |-> @.n + f.n, end |-> f.end]]
                /\ UNCHANGED <<bState, fromB>>
          [] f.k = "RST" ->
                /\ bState' = [bState EXCEPT ![f.r] =
                                 IF @ \in {"idle", "refused"} THEN @ ELSE "reset"]
                /\ UNCHANGED <<bGot, fromB>>
    /\ UNCHANGED <<clientVars, inbox, stage, taskVars, bLast, bSent>>

\* One frame about request r, which is then `now`.
Respond(r, frame, now) ==
    /\ up = "open"
    /\ fromB' = Append(fromB, frame)
    /\ bState' = [bState EXCEPT ![r] = now]
    /\ UNCHANGED <<clientVars, inbox, stage, taskVars, toB, bGot, bLast, bSent>>

BackendHead(r) == \E end \in BOOLEAN :
    bState[r] = "open" /\ Respond(r, Frame("HEADERS", r, end), IF end THEN "done" ELSE "head")

BackendData(r) ==
    bState[r] = "head" /\ Respond(r, Frame("DATA", r, FALSE), "data")

BackendEnd(r) == \E kind \in {"DATA", "HEADERS"} :
    bState[r] \in {"head", "data"} /\ Respond(r, Frame(kind, r, TRUE), "done")

BackendReset(r) ==
    /\ bState[r] \in {"open", "head", "data"}
    /\ Respond(r, [k |-> "RST", r |-> r, refused |-> FALSE], "reset")

\* One frame of a bounded kind.
Say(kind, max, frame) ==
    /\ up = "open" /\ bSent[kind] < max
    /\ bSent' = [bSent EXCEPT ![kind] = @ + 1]
    /\ fromB' = Append(fromB, frame)
    /\ UNCHANGED <<clientVars, inbox, stage, taskVars, toB, bGot>>

\* Either a warning that names no stream, or the highest stream it took.
BackendGoAway ==
    \E last \in {Never} \cup {id[r] : r \in Requests} :
        /\ last <= bLast
        /\ \A r \in Requests : bState[r] # "idle" => id[r] <= last
        /\ Say("GOAWAY", MaxGoAway, [k |-> "GOAWAY", last |-> last])
        /\ bLast' = last
        /\ UNCHANGED bState

BackendSettings == \E max \in Limits :
    /\ Say("SETTINGS", MaxSettings, [k |-> "SETTINGS", max |-> max])
    /\ UNCHANGED <<bState, bLast>>

\* WINDOW_UPDATE with a zero increment, or a trailer section with a pseudo-header.
BackendZeroUpdate(r) ==
    /\ "zero update" \in Faults /\ bState[r] \in {"open", "head", "data"}
    /\ Say("FAULT", 1, Frame("ZEROUPDATE", r, FALSE))
    /\ UNCHANGED <<bState, bLast>>

BackendBadTrailers(r) ==
    /\ "bad trailers" \in Faults /\ bState[r] \in {"head", "data"}
    /\ Say("FAULT", 1, Frame("BADTRAILERS", r, TRUE))
    /\ bState' = [bState EXCEPT ![r] = "done"]
    /\ UNCHANGED bLast

-----------------------------------------------------------------------------

Next ==
    \/ \E r \in Requests : SendRequest(r) \/ SendBody(r) \/ SendCancel(r) \/ PumpBody(r)
    \/ TakeMessage \/ TakeFrame
    \/ DrainDone \/ DrainDeadline \/ ConnectionFails \/ FailAllRoutes \/ CloseInbox
    \/ BackendTake \/ BackendGoAway \/ BackendSettings
    \/ \E r \in Requests :
        \/ BackendHead(r) \/ BackendData(r) \/ BackendEnd(r) \/ BackendReset(r)
        \/ BackendZeroUpdate(r) \/ BackendBadTrailers(r)

Spec == Init /\ [][Next]_vars

\* The task and its timers run; the backend reads what it is sent and finishes
\* what it accepted.  Nothing obliges anyone to ask, cancel, fail or drain.
Fairness ==
    /\ WF_vars(TakeMessage) /\ WF_vars(TakeFrame)
    /\ WF_vars(DrainDone) /\ WF_vars(DrainDeadline)
    /\ WF_vars(FailAllRoutes) /\ WF_vars(CloseInbox)
    /\ WF_vars(BackendTake)
    /\ \A r \in Requests :
        WF_vars(PumpBody(r)) /\ WF_vars(BackendHead(r)) /\ WF_vars(BackendEnd(r))

FairSpec == Spec /\ Fairness

-----------------------------------------------------------------------------
(* Properties.                                                               *)

\* The events of one request form a response: one head, first; 502, 503 and
\* REFUSED_STREAM only in its place; one ending, and nothing after it.  The
\* client connection writes them to the wire as they come, whatever GOAWAY,
\* RST_STREAM, cancellation or death of the connection produced them.
EventsWellFormed == \A r \in Requests : stage[r] # "illegal"

\* REFUSED_STREAM tells the proxy that it may send the request elsewhere
\* (begin_peer_drain, send_request): the backend has not run it, nor will it,
\* although the HEADERS may be on the wire when the client is told.
RefusedNeverRan ==
    /\ TypeOK
    /\ \A r \in Requests : stage[r] = "refused" => bState[r] \in {"idle", "refused"}

\* A request body the backend sees the end of is whole, whether it arrived
\* before the request had a slot, after, or partly each (Pending::body).
BodyArrivesWhole ==
    \A r \in Requests : bGot[r].end => bGot[r].n = BodyOf[r]

\* Nobody waits for a slot while one is free (drain_pending: "a queue with
\* nothing draining it is just a slower way to hang").
NoIdleSlot == up = "open" /\ pending # <<>> => ~CanOpen(live)

\* The streams the backend counts against MAX_CONCURRENT_STREAMS, by its own
\* state and not by ours, never exceed it.
Counted == {r \in Requests :
    bState[r] \in {"open", "head", "data"} \/ (bState[r] = "done" /\ ~bGot[r].end)}
BudgetObeyed == Cardinality(Counted) <= FirstLimit

\* Every request ends, one way or another, unless its client gave it up: "a hang
\* is the one failure mode a proxy must never produce" (run, fail_all_routes).
EveryRequestEnds ==
    \A r \in Requests : asked[r] >= 0 ~> (stage[r] \in Final \/ r \in gaveUp)

=============================================================================
