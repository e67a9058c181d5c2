------------------------------ MODULE ClientConn ------------------------------
(***************************************************************************)
(* One client connection task (conn.rs): the streams a client opens, the   *)
(* events the responder sends for them, resets from both sides crossing    *)
(* on the wire, and the drain of a shutdown with its two GOAWAYs.          *)
(*                                                                         *)
(* The responder is the Proxy and an upstream connection behind it: it     *)
(* sends what UpstreamConn's EventsWellFormed allows, and may be told of   *)
(* a cancel only after it has sent more.  Requests cannot be replayed      *)
(* (Route::head is None).  Windows are module Bridge's subject, and the    *)
(* concurrency limit AdmissionSync's.                                      *)
(***************************************************************************)
EXTENDS Integers, Sequences, FiniteSets

CONSTANTS
    N,              (* Streams are 1..N: the code's id is 2s - 1.            *)
    WithBody,       (* Streams whose request has a body.                     *)
    MayReset,       (* Streams the client may reset.                         *)
    Endings,        (* How the responder may end each stream: see Ending.    *)
    MayDrain,       (* Whether a shutdown may come.                          *)
    MayBeLate,      (* Streams that may be on the wire when the grace ends.  *)
    MayBeQuiet      (* Whether a drain may find the connection quiet for     *)
                    (* longer than the grace.                                *)

Streams == 1..N
Ending  == {"end", "trailers", "reset", "Gone", "Shed"}

ASSUME ClientAssumption ==
    /\ N \in Nat
    /\ WithBody \subseteq Streams /\ MayReset \subseteq Streams
    /\ MayBeLate \subseteq Streams
    /\ Endings \in [Streams -> SUBSET Ending]
    /\ {MayDrain, MayBeQuiet} \subseteq BOOLEAN

VARIABLES
    \* The client.
    cNext,      (* The next stream it will open.                             *)
    cState,     (* Its half of each stream: see TypeOK.                      *)
    cView,      (* What it has been sent: see After.                         *)
    cGoAway,    (* It has seen a GOAWAY.                                     *)
    fromC, toC, (* The wires.                                                *)
    \* The connection task.
    conn,       (* "up"; "closed", "expired" or "failed" once it has ended.  *)
    hi,         (* StreamTable::highest_peer_id.                             *)
    st,         (* State of each stream in the table, "none" if not in it.   *)
    started,    (* Streams whose response_started is set.                    *)
    queue,      (* Stream::send_queue, send_end_stream and pending_trailers. *)
    drain,      (* "none", "grace" or "committed".                           *)
    last,       (* The committed last_stream_id.                             *)
    \* The Proxy and what is behind it.
    route,      (* Streams with a proxy Route, that is, with a lease.        *)
    resp,       (* How far the responder is: see TypeOK.                     *)
    events      (* The ServiceEvent channel.                                 *)

clientVars == <<cNext, cState, cView, cGoAway>>
tableVars  == <<hi, st, started, queue>>
drainVars  == <<drain, last>>
vars == <<clientVars, fromC, toC, conn, tableVars, drainVars, route, resp, events>>

Nothing == [data |-> FALSE, end |-> FALSE, trailers |-> FALSE]
F(kind, s, end) == [k |-> kind, s |-> s, end |-> end]
Live == {s \in Streams : st[s] # "none"}

TypeOK ==
    /\ cNext \in 1..(N + 1)
    /\ cState \in [Streams -> {"idle", "open", "sent", "reset"}]
    /\ cView \in [Streams -> {"none", "head", "end", "rst", "bad"}]
    /\ cGoAway \in BOOLEAN
    /\ conn \in {"up", "closed", "expired", "failed"}
    /\ hi \in 0..N
    /\ st \in [Streams -> {"none", "open", "half-closed local", "half-closed remote"}]
    /\ started \subseteq Live
    /\ queue \in [Streams -> [data : BOOLEAN, end : BOOLEAN, trailers : BOOLEAN]]
    /\ drain \in {"none", "grace", "committed"} /\ last \in 0..N
    /\ route \subseteq Streams
    /\ resp \in [Streams -> {"none", "asked", "head", "over"}]

Init ==
    /\ cNext = 1
    /\ cState = [s \in Streams |-> "idle"]
    /\ cView = [s \in Streams |-> "none"]
    /\ cGoAway = FALSE
    /\ fromC = <<>> /\ toC = <<>>
    /\ conn = "up" /\ hi = 0
    /\ st = [s \in Streams |-> "none"]
    /\ started = {}
    /\ queue = [s \in Streams |-> Nothing]
    /\ drain = "none" /\ last = 0
    /\ route = {}
    /\ resp = [s \in Streams |-> "none"]
    /\ events = <<>>

-----------------------------------------------------------------------------
(* A client that follows RFC 9113: no new stream once it has seen a GOAWAY. *)

ClientOpen ==
    /\ cNext \in Streams /\ ~cGoAway /\ conn = "up"
    /\ cNext' = cNext + 1
    /\ cState' = [cState EXCEPT ![cNext] = IF cNext \in WithBody THEN "open" ELSE "sent"]
    /\ fromC' = Append(fromC, F("HEADERS", cNext, cNext \notin WithBody))
    /\ UNCHANGED <<cView, cGoAway, toC, conn, tableVars, drainVars, route, resp, events>>

ClientBody(s) ==
    /\ cState[s] = "open"
    /\ cState' = [cState EXCEPT ![s] = "sent"]
    /\ fromC' = Append(fromC, F("DATA", s, TRUE))
    /\ UNCHANGED <<cNext, cView, cGoAway, toC, conn, tableVars, drainVars, route, resp, events>>

ClientReset(s) ==
    /\ s \in MayReset /\ cState[s] \in {"open", "sent"} /\ cView[s] \in {"none", "head"}
    /\ cState' = [cState EXCEPT ![s] = "reset"]
    /\ fromC' = Append(fromC, F("RST", s, FALSE))
    /\ UNCHANGED <<cNext, cView, cGoAway, toC, conn, tableVars, drainVars, route, resp, events>>

\* What a frame makes of a response: one head, data, one end, which may be a
\* second field section.
After(view, f) ==
    CASE f.k = "RST"                            -> IF view = "bad" THEN view ELSE "rst"
      [] f.k = "HEADERS" /\ view = "none"       -> IF f.end THEN "end" ELSE "head"
      [] f.k = "HEADERS" /\ view = "head"       -> IF f.end THEN "end" ELSE "bad"
      [] f.k = "DATA" /\ view = "head"          -> IF f.end THEN "end" ELSE "head"
      [] OTHER                                  -> "bad"

ClientTake ==
    /\ toC # <<>>
    /\ toC' = Tail(toC)
    /\ LET f == Head(toC) IN
        IF f.k = "GOAWAY"
        THEN cGoAway' = TRUE /\ UNCHANGED <<cState, cView>>
        ELSE /\ cView' = [cView EXCEPT ![f.s] = After(@, f)]
             /\ cState' = [cState EXCEPT ![f.s] = IF f.k = "RST" THEN "reset" ELSE @]
             /\ UNCHANGED cGoAway
    /\ UNCHANGED <<cNext, fromC, conn, tableVars, drainVars, route, resp, events>>

-----------------------------------------------------------------------------
(* The connection task: streams.  Each operator below takes every stream    *)
(* variable, the wire to the client and `conn` to their next values.        *)

\* StreamTable::lookup.  (Mutant: a stream that finished was never opened.)
LookupLive(s) == IF st[s] # "none" THEN "live" ELSE "idle"
Lookup(s)     == IF st[s] # "none" THEN "live" ELSE IF s <= hi THEN "closed" ELSE "idle"

\* Stream removal drops everything kept about it.
Retire(s) ==
    /\ st'      = [st EXCEPT ![s] = "none"]
    /\ started' = started \ {s}
    /\ queue'   = [queue EXCEPT ![s] = Nothing]

\* Proxy::cancel: the route and its lease go.
Cancel(s) == route' = route \ {s}

Ignore       == UNCHANGED <<toC, conn, tableVars>>
FailConn     == conn' = "failed" /\ toC' = Append(toC, F("GOAWAY", 0, FALSE))
                /\ UNCHANGED tableVars
WriteRst(s)  == toC' = Append(toC, F("RST", s, FALSE)) /\ Retire(s) /\ Cancel(s)
                /\ UNCHANGED <<conn, hi>>

\* What END_STREAM in our direction or in the client's leaves of a stream.
Closes(s, ours, end) ==
    end /\ st[s] = (IF ours THEN "half-closed remote" ELSE "half-closed local")
Half(ours)           == IF ours THEN "half-closed local" ELSE "half-closed remote"

\* apply_stream_event for a legal event on a live stream; q is what is queued
\* for it then.
Apply(s, ours, end, begins, q) ==
    /\ IF Closes(s, ours, end)
       THEN Retire(s)
       ELSE /\ st' = [st EXCEPT ![s] = IF end THEN Half(ours) ELSE @]
            /\ started' = IF begins THEN started \cup {s} ELSE started
            /\ queue' = [queue EXCEPT ![s] = q]
    /\ UNCHANGED <<conn, hi>>

\* Proxy::finish for a stream that closed so.  (Mutant: the service does not hear.)
FinishNever(s, ours, end) == UNCHANGED route
Finish(s, ours, end)      == IF Closes(s, ours, end) THEN Cancel(s) ELSE UNCHANGED route

\* recv_request.  (Mutant: a committed drain still admits.)
Admit(s, end) ==
    /\ hi' = s
    /\ st' = [st EXCEPT ![s] = IF end THEN "half-closed remote" ELSE "open"]
    /\ route' = route \cup {s}
    /\ resp' = [resp EXCEPT ![s] = "asked"]
    /\ UNCHANGED <<toC, conn, started, queue>>
RecvRequestAlways(s, end) == Admit(s, end)
RecvRequest(s, end) ==
    CASE Lookup(s) = "closed"                        -> FailConn /\ UNCHANGED <<route, resp>>
      [] Lookup(s) # "closed" /\ drain = "committed" -> WriteRst(s) /\ UNCHANGED resp
      [] OTHER                                       -> Admit(s, end)

RecvData(s, end) ==
    CASE Lookup(s) = "idle"   -> FailConn /\ UNCHANGED route
      [] Lookup(s) = "closed" -> WriteRst(s)
      [] Lookup(s) = "live"   -> Apply(s, FALSE, end, FALSE, queue[s]) /\ Finish(s, FALSE, end)
                                 /\ UNCHANGED toC

RecvRst(s) ==
    CASE Lookup(s) = "idle"   -> FailConn /\ UNCHANGED route
      [] Lookup(s) = "closed" -> Ignore /\ UNCHANGED route
      [] Lookup(s) = "live"   -> Retire(s) /\ Cancel(s) /\ UNCHANGED <<toC, conn, hi>>

\* handle_frame: one frame from the client.
TakeFrame ==
    /\ conn = "up" /\ fromC # <<>>
    /\ fromC' = Tail(fromC)
    /\ LET f == Head(fromC) IN
        \/ f.k = "HEADERS" /\ RecvRequest(f.s, f.end)
        \/ f.k = "DATA"    /\ RecvData(f.s, f.end) /\ UNCHANGED resp
        \/ f.k = "RST"     /\ RecvRst(f.s) /\ UNCHANGED resp
    /\ UNCHANGED <<clientVars, drainVars, events>>

-----------------------------------------------------------------------------
(* The connection task: what the responder says, after Proxy::intercept. *)

SendResponse(s, end) ==
    /\ toC' = Append(toC, F("HEADERS", s, end))
    /\ Apply(s, TRUE, end, TRUE, queue[s])

TakeHead(s, end) ==
    IF s \in Live THEN SendResponse(s, end) /\ Finish(s, TRUE, end)
                  ELSE Ignore /\ UNCHANGED route

TakeData(s, end) ==
    /\ queue' = IF s \in Live
                THEN [queue EXCEPT ![s].data = TRUE, ![s].end = @ \/ end] ELSE queue
    /\ UNCHANGED <<toC, conn, hi, st, started, route>>

\* send_trailers: behind what is queued, or at once.  They were validated when
\* they came from the backend, so that they cannot be malformed here.
SendTrailers(s) ==
    IF queue[s] = Nothing
    THEN /\ toC' = Append(toC, F("HEADERS", s, TRUE))
         /\ Apply(s, TRUE, TRUE, FALSE, Nothing) /\ Finish(s, TRUE, TRUE)
    ELSE /\ queue' = [queue EXCEPT ![s].trailers = TRUE, ![s].end = TRUE]
         /\ UNCHANGED <<toC, conn, hi, st, started, route>>

TakeTrailers(s) == IF s \in Live THEN SendTrailers(s) ELSE Ignore /\ UNCHANGED route

TakeReset(s) == IF s \in Live THEN WriteRst(s) ELSE Ignore /\ UNCHANGED route

\* Gone and Shed: an abort if the status is out, a 502 or 503 if not.  A stream
\* that is no longer there is opened to be answered (reject_stream), and the id
\* it was opened with before is too old for that.  Shed ends the lease first.
Answer(s, kind) ==
    CASE s \in started           -> WriteRst(s)
      [] s \in Live \ started    ->
            /\ SendResponse(s, TRUE)
            /\ IF kind = "Shed" THEN Cancel(s) ELSE Finish(s, TRUE, TRUE)
      [] s \notin Live           -> FailConn /\ Cancel(s)

\* handle_service_event: one event of the channel.
TakeEvent ==
    /\ conn = "up" /\ events # <<>>
    /\ events' = Tail(events)
    /\ LET e == Head(events) IN
        \/ e.k = "Head" /\ TakeHead(e.s, e.end)
        \/ e.k = "Data" /\ TakeData(e.s, e.end)
        \/ e.k = "Trailers" /\ TakeTrailers(e.s)
        \/ e.k = "reset" /\ TakeReset(e.s)
        \/ e.k \in {"Gone", "Shed"} /\ Answer(e.s, e.k)
    /\ UNCHANGED <<clientVars, fromC, drainVars, resp>>

\* visit_ready_stream: DATA with what is queued, and the trailers behind it,
\* which then carry END_STREAM.  (Mutant: send_end_stream outlives the frame
\* that carried it.)
Frames(s) ==
    LET q   == queue[s]
        end == q.end /\ ~q.trailers
    IN  (IF q.data \/ end THEN <<F("DATA", s, end)>> ELSE <<>>)
        \o (IF q.trailers THEN <<F("HEADERS", s, TRUE)>> ELSE <<>>)
Written(s, left) ==
    /\ conn = "up" /\ queue[s] # Nothing
    /\ toC' = toC \o Frames(s)
    /\ Apply(s, TRUE, queue[s].end, FALSE, left) /\ Finish(s, TRUE, queue[s].end)
    /\ UNCHANGED <<clientVars, fromC, drainVars, resp, events>>
VisitKeepsEnd(s) == Written(s, [Nothing EXCEPT !.end = queue[s].end])
Visit(s)         == Written(s, Nothing)

-----------------------------------------------------------------------------
(* The drain. *)

CommitNow ==
    /\ drain' = "committed" /\ last' = hi
    /\ conn' = IF Live = {} THEN "closed" ELSE conn

\* begin_drain: the advisory GOAWAY.  A connection that has been quiet for the
\* grace commits, and closes, in the same pass.
BeginDrain ==
    /\ MayDrain /\ conn = "up" /\ drain = "none"
    /\ \/ /\ drain' = "grace" /\ UNCHANGED <<last, conn>>
          /\ toC' = Append(toC, F("GOAWAY", 0, FALSE))
       \/ /\ MayBeQuiet /\ Live = {} /\ CommitNow
          /\ toC' = toC \o <<F("GOAWAY", 0, FALSE), F("GOAWAY", 0, FALSE)>>
    /\ UNCHANGED <<clientVars, fromC, tableVars, route, resp, events>>

\* advance_drain, the grace over: the GOAWAY that names the last stream.
\* (Mutant: closing at once, whatever is in flight.)
GraceOver ==
    /\ cGoAway \/ cNext..N \subseteq MayBeLate
    /\ \A i \in DOMAIN fromC : fromC[i].k = "HEADERS" => fromC[i].s \in MayBeLate
Committing(ended) ==
    /\ conn = "up" /\ drain = "grace" /\ GraceOver
    /\ drain' = "committed" /\ last' = hi
    /\ toC' = Append(toC, F("GOAWAY", 0, FALSE))
    /\ conn' = IF ended THEN "closed" ELSE conn
    /\ UNCHANGED <<clientVars, fromC, tableVars, route, resp, events>>
CommitAndClose == Committing(TRUE)
Commit         == Committing(Live = {})

\* advance_drain, every pass: the last stream has finished.
DrainFinished ==
    /\ conn = "up" /\ drain = "committed" /\ Live = {}
    /\ conn' = "closed"
    /\ UNCHANGED <<clientVars, fromC, toC, tableVars, drainVars, route, resp, events>>

DrainDeadline ==
    /\ conn = "up" /\ drain = "committed" /\ Live # {}
    /\ conn' = "expired"
    /\ UNCHANGED <<clientVars, fromC, toC, tableVars, drainVars, route, resp, events>>

-----------------------------------------------------------------------------
(* The responder.  Without a route it has been cancelled, and may not know. *)

Respond(s, now, es) ==
    /\ resp' = [resp EXCEPT ![s] = now]
    /\ events' = events \o es
    /\ UNCHANGED <<clientVars, fromC, toC, conn, tableVars, drainVars, route>>

RespondHead(s) ==
    /\ resp[s] = "asked"
    /\ \E end \in BOOLEAN : Respond(s, IF end THEN "over" ELSE "head", <<F("Head", s, end)>>)

\* The rest of the body, or the failure of the backend.  Gone and Shed come in
\* place of a head only.
RespondEnd(s) == \E how \in Endings[s] :
    \/ how = "end" /\ resp[s] = "head" /\ Respond(s, "over", <<F("Data", s, TRUE)>>)
    \/ how = "end" /\ resp[s] = "head"
                   /\ Respond(s, "over", <<F("Data", s, FALSE), F("Data", s, TRUE)>>)
    \/ how = "trailers" /\ resp[s] = "head"
        /\ \E body \in {<<>>, <<F("Data", s, FALSE)>>} :
                Respond(s, "over", Append(body, F("Trailers", s, TRUE)))
    \/ how = "reset" /\ resp[s] \in {"asked", "head"} /\ Respond(s, "over", <<F(how, s, TRUE)>>)
    \/ how \in {"Gone", "Shed"} /\ resp[s] = "asked" /\ Respond(s, "over", <<F(how, s, TRUE)>>)

HearsCancel(s) ==
    /\ resp[s] \in {"asked", "head"} /\ s \notin route
    /\ Respond(s, "over", <<>>)

-----------------------------------------------------------------------------

Next ==
    \/ ClientOpen \/ ClientTake
    \/ TakeFrame \/ TakeEvent
    \/ BeginDrain \/ Commit \/ DrainFinished \/ DrainDeadline
    \/ \E s \in Streams :
        \/ ClientBody(s) \/ ClientReset(s) \/ Visit(s)
        \/ RespondHead(s) \/ RespondEnd(s) \/ HearsCancel(s)

Spec == Init /\ [][Next]_vars

\* The task handles what has arrived and its timers fire, the responder ends
\* what it was asked (EveryRequestEnds of UpstreamConn), the client reads.
Fairness ==
    /\ WF_vars(TakeFrame) /\ WF_vars(TakeEvent) /\ WF_vars(ClientTake)
    /\ WF_vars(Commit) /\ WF_vars(DrainFinished) /\ WF_vars(DrainDeadline)
    /\ \A s \in Streams :
        WF_vars(Visit(s)) /\ WF_vars(RespondHead(s) \/ RespondEnd(s)) /\ WF_vars(HearsCancel(s))

FairSpec == Spec /\ Fairness

-----------------------------------------------------------------------------
(* Properties. *)

\* Nothing that happens to one stream of a conforming client takes the whole
\* connection down (handle_service_event: "always a silent drop, never an error").
ConnectionSurvives == conn # "failed"

\* Each response the client reads is one head, its data and one END_STREAM, cut
\* short by at most an RST_STREAM (visit_ready_stream on send_end_stream).
WireWellFormed == \A s \in Streams : cView[s] # "bad"

\* A lease is held exactly as long as its stream is in the table
\* (apply_stream_event: "leaked leases look exactly like a backend at its
\* concurrency limit"), but for an upload that was shed and goes on.
LeasesFollowStreams ==
    /\ TypeOK
    /\ route \subseteq Live
    /\ \A s \in Live \ route : st[s] = "half-closed local" /\ resp[s] = "over"

\* The committed GOAWAY is a promise: nothing above it is ever dispatched.
NothingAfterTheLast ==
    drain = "committed" => \A s \in Streams : resp[s] # "none" => s <= last

\* Every request the connection took is answered, unless its client reset it,
\* it came after the last stream, or the deadline of a drain expired.
Settled(s) ==
    \/ cView[s] \in {"end", "rst"} \/ cState[s] = "reset"
    \/ conn = "expired" \/ (drain = "committed" /\ s > last)
EveryRequestAnswered == \A s \in Streams : cState[s] # "idle" ~> Settled(s)
=============================================================================
