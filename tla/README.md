# A verification of h2proxy's engine in TLA+

This directory specifies the protocol engine of h2proxy (`src/core`), the HTTP/2
reverse proxy that terminates client connections and multiplexes their requests
over few, shared upstream connections. The specifications are translated from
the Rust code, checked with TLC on small instances, and partly proved with TLAPS.

Contents: [system](#the-system) · [what is hard](#what-is-hard) ·
[modules](#modules) · [runs](#runs) · [bounds](#bounds) ·
[fairness](#fairness) · [proofs](#proofs) · [findings](#findings) ·
[not modelled](#what-is-not-modelled) · [plan](#plan)

## The system

Every connection is a tokio task that owns its state; tasks meet only in
unbounded channels, a few atomics, and two mutexes (the pool and health).

```
 client ==TCP==> client task (conn.rs + Proxy of proxy.rs)
                     | ToUpstream: Request, Body, Released, Cancel      ^
                     v                                                  | ServiceEvent: Head, Data,
                 upstream task (upstream.rs)  --------------------------+ Reset, Gone, Shed, ...
                     |
                 ==TCP==> backend
```

| Component | State | Operations | Meets others through | Correct when |
|---|---|---|---|---|
| Flow control, `flow.rs` | `Window`; `RecvWindow` = initial, window, unreleased | consume, increase, apply_delta; record, release | called by both tasks | credit is conserved, a conforming peer never overruns, batching never strands it |
| Backpressure bridge, `upstream.rs` + `conn.rs` + `proxy.rs` | `pending_conn_release` per route, the send queue of each client stream | recv_data, release, forget; visit_ready_stream, released, cancel | Data / Released / Cancel | the credit withheld is exactly what is buffered, all of it returns, no response stalls |
| Upstream task, `upstream.rs` | stream table, `requests`, `routes`, `pending`, `cancelled`, `peer_draining`, probe | send_request, drain_pending, handle_frame, begin_peer_drain, fail_all_routes | inbox, events, the backend | one well-formed answer per request, the backend's limit obeyed, a refusal only of what did not run, nobody waits for ever |
| Stream table, `stream.rs` | live streams, highest ids, limit | open_peer, open_local, lookup, apply, retire | owned by each connection | RFC 9113 section 5.1 states; an ended stream is *closed*, not *idle* |
| Client task, `conn.rs` | stream table, send queues, drain, windows | handle_frame, handle_service_event, pump_outbound, advance_drain | the client, the Service trait | responses well formed, one stream's fate never takes the connection, the drain keeps its promise |
| Admission sync, `conn.rs` | advertised, enforced, outstanding SETTINGS | sync_admission, SETTINGS ACK, open_peer | an `AtomicU32` budget | a client is never refused for a limit it has not heard of; reductions arrive |
| Admission loop, `proxy.rs` | admit_total, ssthresh, last_shed | recompute_admission | atomics of stats and pool | stays in range, halves on distress, recovers |
| Proxy, `proxy.rs` | a route per request: lease, backend, attempts | dispatch, attempt, retry, intercept, cancel, finish, Drop | pool, health, both tasks | at most one retry, only when safe; every lease and gauge returned once |
| Pool, `pool.rs` | records per backend: outstanding, queued, dead, draining | checkout, open, Lease drop, idle expiry | mutex, atomics | never hands out a dead connection for long, coalesces, stays under its ceiling |
| Health, `health.rs` | failures, ejected until, backoff, trial flag | failure, success, eligible, claim_trial | mutex | ejects, tries again, fails open |
| Probe, `upstream.rs` | last_heard, outstanding PING | due, heard, next_wake | the upstream task | kills a silent connection, never a live one |
| Load balancer, `lb.rs` | a seed | pick | called by the Proxy | picks a candidate |
| Guard, `guard.rs` | token buckets, run lengths | on_reset, on_control_frame, on_data, on_continuation | called by the client task | ordinary traffic never trips it |
| Frame codec, `frame.rs`; HPACK, `hpack.rs` | decoder position; two dynamic tables | encode, decode | called by both tasks | encoder and decoder tables stay equal |
| Validation, `service.rs` | none | from_headers, validate_trailers | called by both tasks | RFC 9113 section 8 |
| Daemon, `h2proxyd` | listeners, signals, metrics | accept, drain | spawns the rest | I/O |

## What is hard

Each connection is sequential; the difficulty is between them.

* **Crossing messages.** A reset crosses DATA, a GOAWAY crosses HEADERS, a
  SETTINGS ACK crosses new streams, a Cancel crosses the events it cancels.
* **Accounting across tasks.** Response octets are recorded in one task, queued
  in another, and credited back by a third message. The record of a stream can
  be gone when the credit comes.
* **Ending.** A request can end in a response, reset, refusal, cancel, shed,
  drain, or with its connection: exactly one of them must reach the client.
* **Waiting.** Queue slots, windows at four places, and a drain each wait for
  something that must come.

`PROJECT.json` lists the hazards line by line with the properties that cover
each, or the reason why none does yet.

## Modules

Each module has one action per handler, with the calls the handler makes
inside it. `PROJECT.json` maps every definition to its source lines.

| Module | Models | Actors |
|---|---|---|
| `FlowControl` | `RecvWindow` and `Window::consume` as operators | none |
| `CreditLoop` | abstract: one window and the peer that spends it | sender, receiver |
| `CreditLoopProofs` | theorems of `CreditLoop` | |
| `Bridge` | the response direction of the bridge, both window levels on both legs | backend, upstream task, client tasks, clients |
| `BridgeProofs` | theorems of `Bridge`, and that it implements `CreditLoop` | |
| `Upload` | the request direction, and send windows under changes of INITIAL_WINDOW_SIZE | client, client task, upstream task, backend |
| `UploadProofs` | theorems of `Upload` | |
| `UpstreamConn` | one upstream task: inbox, queue, budget, GOAWAY, ends | proxies, upstream task, backend |
| `UpstreamProofs` | theorems of `UpstreamConn` | |
| `Probe` | the liveness probe on a clock | upstream task, backend, time |
| `ProbeProofs` | theorems of `Probe` | |
| `AdmissionSync` | the limit a client connection advertises and enforces | budget, client task, client |
| `AdmissionProofs` | theorems of `AdmissionSync` and `AdmissionLoop` | |
| `AdmissionLoop` | the control loop that sets the budget, over `AdmissionSync` | the loop, other connections, the pool |
| `ClientConn` | one client task: streams, events, trailers, resets, drain | client, client task, responder |
| `ClientProofs` | theorems of `ClientConn` | |
| `FrameCodec`, `Hpack`, `HpackInteger`, `Messages`, `Guard` | framing, header compression and its integers, validation and the abuse guard, as operators, each with its reference | none |
| `Wire` | the reading and writing path of a client connection, built from `FrameCodec`, `Hpack` and `Messages` | client, client task |
| `Health` | one backend's health entry, as operators | none |
| `RequestLife` | abstract: what the proxy promises of each request | client, proxy |
| `ProxyRetry` | routing, pool, health and the one retry, between connection tasks | client connections, upstream tasks, backends |
| `ProxyProofs` | theorems of `ProxyRetry` and `RequestLife`, and that the one implements the other | |
| `MC*` | values of the constants for TLC | |

**FlowControl, CreditLoop.** `Release` returns the window after
`RecvWindow::release`, `Increment` what goes into the WINDOW_UPDATE (0: none yet), and
`Total(f)` is what all streams of a connection have together.
`CreditLoop` follows a window's credit through its five places: with the sender,
in flight, held, unreleased, and travelling back.

**Bridge.** Channels count octets: a receiver takes any part of what is queued,
so every framing of a body is covered, and a terminator follows the last octet.
`pend` is `Route::pending_conn_release`, `rel` the Released messages, `queue` and
`qEnd` the stream's `send_queue` and `send_end_stream`. `INSTANCE CreditLoop WITH
held <- Total(pend), flight <- Total(flight), ...` is the refinement:
every step of the bridge is a step of the abstract loop at connection level.

**Upload.** The client's connection window *is* `CreditLoop`: the module extends it and
its handlers take its actions (`Arrive`, `Hand`), so the invariant that is proved of
them, `IInv`, is about these windows too. `pend` is `Stream::pending_conn_release`,
`acc` the BodyAccepted messages, `queue` the upstream stream's `send_queue`, `sw` and
`kw` the two send windows, `iw` the backend's INITIAL_WINDOW_SIZE. What a stream holds
when it is retired goes back to the connection with it (`Reclaim`).

**UpstreamConn.** `inbox` is the `ToUpstream` channel, `pending` the queue,
`routes` both `routes` and `requests`, `live` the stream table, and `stage`
folds the events sent for a request into the last one ("illegal" once they no
longer form a response). `up` walks through the end of `run`: a failed task
first flushes, then `FailAllRoutes`, then `CloseInbox`. The backend's own view
(`bState`, `bGot`) is what `RefusedNeverRan` and `BudgetObeyed` are stated on.

**Probe.** Time is a number. The task is prompt: the clock stands still while it has
something to do, and it serves timer, write and read in the order `tick` selects them.
`tuning` is a pair of idle time and timeout, chosen at the start. `arrivals` is a record
of when anything reached the socket, for the properties only.

**AdmissionSync, AdmissionLoop.** `budget` is the shared atomic; `awake` says that the
task has work and will pass `sync_admission` before it parks. Frame numbers (`sent`,
`applied`, `acked`) exist only for the properties: the code counts. The loop (`Sample`,
`recompute_admission`) moves `total` and `ssthresh` and stores one connection's share in
`budget`; connections that come and go, queues that shed (`shed`) and queues near their
mark (`near`) are what it sees of the rest.

**ClientConn.** `st` is the stream table, `hi` its `highest_peer_id`; a stream at
or below `hi` and not in the table is closed, above it idle (`Lookup`). The
responder is any that `UpstreamConn`'s `EventsWellFormed` allows, so that module's
invariant is this one's assumption. Trailers wait in `queue` behind the octets and carry
END_STREAM in their place. A drain sends the warning GOAWAY, waits for
the grace period, commits `highest_peer_id`, and ends with the last stream or at
the deadline.

**FrameCodec, Hpack, HpackInteger, Messages, Guard.** Each translates the code's pass over
its input and states beside it, in the words of the RFC, what the pass should decide
(`JudgedRight`, `ReadRight`, `WellFormedRequest`, `TripsRightly`, ...). They compare over
every short input. Octets are abstract: a frame is its kind, length, flags and the octets
decoding looks at; a field name is its class; a table entry has a `Cost`.

**Wire.** `px` is the proxy's connection: a record that the operators named after handlers
pass on. A client, which has an encoder of its own, sends requests and trailers in
fragments, SETTINGS, table resizes, stray frames and blocks no encoder makes. A frame
carries in `bad` whether sending it broke a rule; no code reads it, and
`FailsForCauseOnly` compares with it. `down` is what the client reads.

**RequestLife, Health, ProxyRetry.** A stream stands for a client connection with
one request, so that streams run in parallel as tasks do. `job` is an attempt between
two locks, but for `pick` (pool load, health and balancer in one step; what the run
`proxy` checks also holds when any eligible backend may be picked, whatever its load),
`claim` (the half-open trial),
`checkout` (the pool), `send` (the inbox, which may have closed meanwhile). `lease` is
`Route::lease`, and with its connection goes the route's backend; `live` is the record's
counter, which a dropped lease decrements. `mail` is the event channel, so an answer the
proxy gives itself ("local 503") comes the same way as one from upstream. `at`, `on` and
`queue` are what is left of `UpstreamConn`: where a request is, which is all the pool and
the retry can see of it. A client that gives up drops the lease at once, and its request
leaves the upstream connection only when the Cancel arrives. `tuning` is chosen at the
start and never changes, so that one run covers several configurations.
`Life == INSTANCE RequestLife` maps `told` and `tries` to themselves.

### How they fit

`UpstreamConn` and `ClientConn` are the two ends of the event channel: one
guarantees the shape of the events (`EventsWellFormed`), and that they end
(`EveryRequestEnds`), the other assumes both. `Bridge` and `Upload` span the two with flow
control, one in each direction, and leave out what the two model; `CreditLoop` is the
abstract specification of the connection windows in both. `Wire` is what comes before
`ClientConn`: it turns octets into the requests that `ClientConn` takes as given, and its
answers into octets. `Probe` decides one of the ways in which `UpstreamConn`'s connection
fails. `AdmissionLoop` composes the control loop with `AdmissionSync`, which isolates the
limit that `ClientConn` leaves out, and implements it. `ProxyRetry` is the layer between
the two connection tasks: it takes from `UpstreamConn` how an attempt can end
(`EventsWellFormed`), and gives `ClientConn` a responder. `RequestLife` is its abstract
specification.

## Runs

| Run | Instance | Shows |
|---|---|---|
| `bridge` | bodies of 3 and 1, connection window 3 (1 before the bootstrap), stream windows 2, client windows 1; s2 may be reset and aborted, the client may hang up | accounting exact, refinement of `CreditLoop`, every response ends, all credit returns |
| `upload` | bodies of 3 and 1, a connection window of 2 (1 before the bootstrap), stream and backend windows of 2, one change of INITIAL_WINDOW_SIZE; one stream may be reset by either end | four windows conserve their credit, what is held is awaited, the upload left alone arrives whole |
| `upstream` | two requests, one with two body messages, one slot, a queue of one, the limit may fall to 0, a GOAWAY, one malformed frame | a refused request never ran; an upload whose end arrives is whole |
| `upstream_live` | two requests, a cancel, a GOAWAY, a SETTINGS, failure at any point | well-formed events, the limit obeyed, no idle slot, every request ends |
| `probe` | idle 3 with timeout 2, idle 2 with timeout 3, and no probe; 12 units of time | a backend that speaks is never given up; one that has fallen silent is, in bounded time |
| `admission` | up to three connections, one of them with two streams; shares of 1 or 2, three events of the load | never refused; enforcement covers what the client may believe; the loop implements `AdmissionSync`; the limit recovers and is adopted |
| `client` | an upload that either side may reset, answered with or without trailers, and a second request that may be late for the drain and may lose its backend | the connection survives, responses well formed, leases returned, the GOAWAY's promise, every request answered |
| `wire` | two requests and their answers, tables of two entries, blocks in up to two fragments, one or two rules to break; every short frame, integer, field section and trace | tables in step, requests and answers as sent, failure for cause only; codec, validation and guard agree with the RFC |
| `proxy` | a GET and a POST, two backends, one of which may refuse connects, die, drain or err (two troubles, idle drops and refusals by either included), ejection after one failure; three configurations of pool size, queue and growth | leases follow requests, the sound backend is never ejected, a retry goes elsewhere, `RequestLife` is implemented, every request is settled |
| `bridge_hang_up`, `wire_frame_size`, `proxy_trial` | one property each | what the code's own comments say and the code does not do: see [findings](#findings) |

Every property of a passing run has a mutant in `PROJECT.json`: a version of one
definition with a plausible bug, with which TLC finds that property violated.
The mutated forms are in the modules, next to the definition they replace.

## Bounds

* **Streams and requests: two.** The protocol's races
  are of one stream with itself, or of two for one slot or one window.
* **Windows.** Small, and in the proportions of the code: stream windows smaller
  than the connection window or equal to it, together larger; bodies longer than a window;
  a default window smaller than the tuned one, so the bootstrap counts. `MaxWindow`
  (2^31 - 1) is above what is reachable: a receive window never nears it. In `upload` the
  backend's sizes are 1 and 2, so that a window that was spent falls below zero.
* **`MaxSettings`, `MaxGoAway`, one fault, `MaxChanges`, `MaxWire`** cap what an outside
  actor may do for ever. One lowered limit, one GOAWAY and one fault are enough for
  each to meet every state of two requests.
* **`MaxTrouble` two**: the first ejects a backend, the second fails the trial or the
  second attempt. `EjectAfter` is 1 instead of 5 so that both fit. `Limit` 1 against
  `Assumed` 2 lets a connection be leased beyond the backend's limit before its SETTINGS;
  a queue of none or one lets two requests queue, be shed, and find the pool at capacity.
* **`MaxConns` three, `MaxEvents` three** in `admission`: after two arrivals and a sign of
  distress the total is shared among more connections than it has streams for, and the
  floor of a share wins. `Unbounded` (u64::MAX) is 9, above every ceiling.
* **`MaxClock` 12** is four times the longest silence a probe bears; `MaxSpoken` 3.
* **`Wire`.** A block has at most five fields and comes in two fragments (`Pieces`), the
  third breaks the limit; one frame is on the way up and two down (`MaxUp`, `MaxDown`), as
  order on each way is kept; `MaxSettings` and `Resizes` 1. `Cost` gives a field one unit
  or two, `TableMax` and `MaxList` let a table evict and a list be too large.
* **Short inputs**: frames of up to 13 octets under a `MaxFrame` of 12 with every set of
  flags; integers of two-bit digits up to 31; field sections of up to three fields after
  the fixed ones; guard traces of up to five events.
* Deadlock is checked in `admission`. The other systems stop when all
  requests have ended, so their configurations say `CHECK_DEADLOCK FALSE`; that they do
  not stop early is what their liveness properties say. `Probe` and `Wire` are safety
  only and stop at their bounds.

`upstream` and `upstream_live` differ because each doubles the other: bodies and
faults in one, cancels and failures in the other. A fault and liveness are apart
for a better reason: with malformed trailers `EveryRequestEnds` is false
(see [findings](#findings)).

## Fairness

Weak fairness of a handler stands for a task that is scheduled: tokio polls
every ready task, and each loop handles what it has decoded or received before
it parks. It is assumed of

* the handlers of both tasks and of their timers (drain deadline, grace period),
* the interval timer of the admission loop (`Sample`),
* a backend that reads its socket and finishes the responses it accepted,
* a client that reads, and in `AdmissionSync` answers SETTINGS and is not silent for
  ever (`ClientPing`): `sync_admission` runs only when something wakes the task,
* in `ProxyRetry`, each step of an attempt, and that a connect ends,
* in `ClientConn`, a responder that ends what it was asked: `EveryRequestEnds`,
* in `Upload`, of all handlers together (`Work`): bodies are finite, so no handler can
  keep another from running for ever, and it is enough that something runs.

It is never assumed of the end of an ejection, a request, a reset, a cancel, a hang-up, a
GOAWAY, a failure, a change of window size, or what moves the load. The loops' `select!` is
`biased`; that a lower arm is reached in the end is an assumption here.

## Proofs

All theorems hold for every value of the constants within the assumptions below. Each
invariant that a theorem states is found in an inductive one, which TLC was asked to
confirm before it was proved. In every module the proof that the invariant is kept has one
lemma per action.

**`CreditLoopProofs`**, for every window, default window and order of steps:

* `CreditConserved` (`[]IInv`). Conservation alone is inductive together with the types,
  but does not give `NoStrandedCredit`: that needs `BelowHalf`, that `release` keeps less
  than half a window back. The proof takes one lemma per fact of `Release`
  (what it keeps, what it announces), then one step per action.
* `OverrunImpossible`, `HoldingBounded`, `NeverStranded` follow from it by arithmetic.
* The lemmas on `Total`: what all streams have together when one of them changes. `Total`
  counts a set of octets, so that they follow from the library's theorems on cardinality and
  need no induction over the streams.

**`BridgeProofs`**, for any number of streams and clients. `BInv` is the types,
`CreditLoop`'s `IInv` of the connection window, and

* `StreamBooks`: a route's credit is with the backend, in flight, travelling back, withheld
  or unreleased, and sums to the stream window; with it `~fault`, as what is in flight is
  never more than the window records;
* `HeldWhere`: while the client task knows the request, what the route withholds is in
  events, send queue and Released messages. Once it does not, only `rel <= pend` is left:
  the rest of the octets are gone, and come back with the route. Without that bound a late
  Released would take more than the route has;
* `Ends`: END_STREAM is at each stage behind the last octet of the stage before.

`StreamCreditIsConserved`, `WithheldIsBuffered` and `EndComesLast` are parts of it.
`BridgeImplementsLoop` maps each action to one of `CreditLoop` or a stutter: DATA is `Send`,
its receipt `Arrive`, and whatever gives octets back (a Released, a Cancel, a reset, the end
of a response, a hang-up) is `Hand` with the octets of that stream, or nothing.

**`UploadProofs`**, for any number of uploads. `UInv` is `CreditLoop`'s `IInv`, the types,
the streams' books (`StreamLoop`), `HeldTogether` (the sum over the streams is what the
connection window waits for), the send windows, and two parts that say how far the two
tasks may be apart: `Phases`, which states of the two views of a stream go together, and
`Backed`, that no more is acknowledged than is held.

* `UploadLoopHolds`, `UploadCreditConserved`, `SendWindowsBalance` are parts of it.
* `HeldIsOnItsWay`: `HeldIsAwaited`, where no backend answers early (`MayAnswer = {}`). With
  early answers it is false, as the findings say; `EarlyAnswersHarmNoOther` then says it of
  every stream that is not answered early.

**`ProbeProofs`**, for every tuning, schedule and length of time. `TheLiveAreSpared` is not
inductive: it needs that time does not pass over an unread socket (`HeardInTime`) nor over a
deadline (`ProbeInTime`). `TheSilentAreFound` needs besides how old the silence was when the
probe went out (`SilenceSoFar`), which is where the bound of max(idle, timeout) plus a
timeout comes from.

**`AdmissionProofs`**, for every set of limits and streams and any number of SETTINGS in flight:

* `AckIsProof` (`[]IInv`). `EnforcedCovers` is not inductive: when an ACK arrives with
  none outstanding the code adopts the advertised limit, which is safe only if the client
  has applied everything (`OutstandingExact`: the counter is the number of SETTINGS not
  known to be applied, and the ACKs on the wire are the applied ones, in order) and was
  left with the advertised one (`LastWord`).
* `LimitsCovered` is the part of it that matters for limits; `NobodyRefused` is the one that
  matters for requests: HEADERS sent under a limit the client had applied find a place. It
  needs that a stream is opened once, and only what the client has open is left once the wire
  is read (`StreamsOnce`), and that the table as it will be when each HEADERS in flight is
  read fits in the limit enforced and, if no ACK follows, in the one the client applies
  (`OpensFit`).

In the same module, for every ceiling, floor, step and number of connections of the loop:

* `LoopImplementsSync`: the detailed specification implements the abstract one. The
  initial states are the same; a sample either leaves the budget alone or moves it to
  another member of `Limits` (`ShareIsALimit`: a clamped share stays between `MIN_ADMIT`
  and the ceiling, whatever the total and the number of connections), which is
  `SetBudget`; the load's events change nothing that `AdmissionSync` sees. It needs
  `LoopTypes`, that the total stays a number and there is always a connection to share with.
* `LoopKeepsWord`, `LoopRefusesNobody`: hence `AckIsProof` and `NobodyRefused` hold under
  the loop.

**`ProxyProofs`**, for any number of requests, backends and connections. The invariant is the life of
one request, in phases (`Phase`: unasked, attempting, asked, headed, ended, turned away, closed, given
up), each of which fixes what its attempt, lease, channel and place on a connection are;
and, across requests, that a connection's queue holds exactly the requests queued there,
once (`Queues`), that its count is the number of leases on it (`Counts`), and that a backend
that is not faulty has a clean record and no connection that ended (`Sound`).

* `LeasesAreReturned` is `Counts`: each step changes the set of leases on a connection
  by one member or none, and the count by as much.
* `SoundStaysInRotation`: events that blame (`gone`, `reset`) come only of faulty backends
  (`Blames`), and a connect fails only to one.
* `RetriesLandElsewhere`: the attempt carries the backend to avoid through pick, claim,
  checkout and send; a trial taken elsewhere is no exception.
* `KeepsRequestLife`: each step of the proxy is a step of `RequestLife` for one request,
  or a stutter. That an answer is given to a request that waits, once, comes from the phases.
* `AtMostOnce` is a theorem of `RequestLife` alone, for every set of requests: what may not
  be repeated is tried once and a 502 means every permitted try was spent. Types and the
  bound are inductive together. `TriedWithinTheLaw` carries it through the refinement.

**`ClientProofs`**, for any number of streams. Nothing the runs check of `ClientConn` is
inductive: what is well formed on the wire depends on what is queued, and that on what the
event channel still holds. `CInv` therefore says of each stream where it stands in each of
the three channels (`Fine`), the places of its frames in a channel being `At(channel, s)`:

* `Told`: between responder, event channel and send queue. Of a response that has not
  started, the head comes before what follows it; of one that has, none is coming; what
  ends it is the last that is said of it; a queue that holds something belongs to a response
  that has started and not ended.
* `Sent`: between the task and the client. What is on the wire makes, with what the client
  has read, one response; a stream that is not started, or above everything read, has
  nothing there.
* `Leased`: lease and table entry go together.
* `Ascending` and `Promise`: requests wait on the wire in the order they were opened, above
  `highest_peer_id`, which the commit of a drain freezes.

`ResponsesWellFormed`, `LeasesFollow` and `DrainKeepsItsPromise` are parts of it.
`StreamsSpareTheConnection` has a second invariant on top, `SInv`: a frame that is not
HEADERS finds its stream opened, or its HEADERS ahead of it; after a commit only late
requests are on the wire; and a stream that may yet be answered by `Gone` or `Shed` is in the
table. It has a hypothesis, `Gentle`, because without it the property is false: a request
that is late for a drain and has DATA or a reset behind it, and a reset that crosses with
a backend that vanishes, do close the connection (two of the disagreements below). `Gentle`
rules out those streams and nothing else; it is not asked of the other theorems.

**`UpstreamProofs`**, for any number of requests, bodies of any length, any queue and limit,
and every order of messages, frames and ends of the connection. `UInv` says where a request
can be: it is not yet asked for or its message is in the inbox (`Fresh`), it waits in
`pending`, or it has a stream id (`Known`), and in one of these places only. With it come
`Numbers` (stream ids are those below `next_stream_id`), `Down` (on the wire to the backend,
a request's HEADERS is its first frame, and the backend has not seen it) and `Backend` (what
the backend has said fits what it made of the stream, and no GOAWAY on its way names less
than it took).

* `RefusedRunNowhere`: `RefusedNeverRan` is not inductive. Of a request refused here,
  `Refusals` says that the backend refused it, or that its HEADERS was never sent or has an
  id above the last GOAWAY: only then does the HEADERS that is still on the wire stay without
  effect. `Numbers` is what makes "above the last id" mean the same at both ends.
* `BodiesWhole`: for each request, `Whole` names the count of octets that have gone to the
  wire. `Carries(q, r, a, b)` says that along a channel `q` the count rises from `a` to `b` and
  that an end of body stands where it is complete; one such fact about the wire and one
  about the inbox, with the buffer between them, make the whole path. It takes no induction
  over sequences: the counts along the channel are a function that exists, and appending or
  taking a message extends or shifts it.
* `EventsForm`: `Flow` relates what the client was told of a request, the frames about it
  that are still on their way, and the state of the backend; and a route has a stream in the
  table (`live = routes`). A WINDOW_UPDATE of zero breaks exactly that equality (it drops the
  stream and keeps the route), so the theorem has the hypothesis `NoZeroUpdates`; malformed
  trailers are allowed.
* `SlotsServed`: `NoIdleSlot`, with `NoZeroUpdates` again, in every behaviour in which the
  limit does not rise: SETTINGS that raise it do leave slots idle (known disagreements).
* `LimitObeyed`: `BudgetObeyed`, where nothing is uploaded and no SETTINGS allows more than
  the first limit. It is not enough to bound the table: what counts is what the backend
  will have open when it has read what is on the wire, and it may stop reading anywhere.
  `Bounded` therefore speaks of every prefix of the wire: the streams open after it are
  never more than the limit. A slot is given away only after the response that frees it, or
  with the RST_STREAM ahead of the next HEADERS. With an upload the property is false: a
  response that ends first frees the slot here, and the backend counts the stream until it
  has the rest of a body that never comes (known disagreements).

Assumptions: `UpstreamAssumption`, `ClientAssumption`, `CreditLoopAssumption`, `BridgeAssumption`, `UploadAssumption`,
`ProbeAssumption`, `AdmissionAssumption`, `LoopAssumption` and `ProxyAssumption`, stated with
the constants and evaluated by TLC in the runs. They are types and finiteness, windows that
are at least 1 and at most `MaxWindow`, and timeouts that are not zero. `LoopAssumption` asks
that the ceiling be at least `MIN_TOTAL`; see the findings.

Only model-checked: liveness (`ResponsesEnd`, `UploadsEnd`, `EveryRequestEnds`,
`EveryRequestAnswered`, `EveryRequestSettled`, `Recovers`), which TLAPS does not do under
fairness; what the folds of `Hpack`, `HpackInteger`, `Messages` and `Guard` compute, which
needs induction over sequences, and with them the invariants of `Wire`.

The hypotheses of the theorems on `UpstreamConn` and of `StreamsSpareTheConnection` are not
there to ease a proof: without them TLC finds the property violated, as the known
disagreements say. Each is met by the instance whose run checks the property.

## Findings

Where the code does not do what it says; `PROJECT.json` quotes each.

1. `bridge_hang_up`: a client that disconnects mid-response leaves its upstream streams
   open and the connection credit they hold is lost to the other clients.
2. `wire_frame_size`: a response's header block goes out as one HEADERS frame, however long,
   although the client's MAX_FRAME_SIZE is known.
3. `proxy_trial`: a half-open trial whose client gives up (or that is refused, shed, or
   finds no slot) leaves `trial_in_flight` set with no request behind it; the recovered
   backend then gets no traffic until every other one is ejected as well.

Known disagreements without a run, so that runs stay few. Those with an instance named can
be reproduced by changing one constant:

* **Bridge memory.** END_STREAM returns a response's connection credit while its octets are
  still queued (`upstream.rs:1018` against `upstream.rs:36`), so the bound of one connection
  window per upstream connection does not hold for responses that have ended upstream:
  `OneWindowBuffered` of `Bridge` fails with two clients.
* **Malformed trailers**, or a WINDOW_UPDATE of zero, end a stream with no event, and the
  client waits (`upstream.rs:1361` against `upstream.rs:511`): `EveryRequestEnds` fails with
  `Faults <- BothFaults`. After a WINDOW_UPDATE of zero the route stays and the freed slot is
  given to nobody: `EventsWellFormed` and `NoIdleSlot` fail with `Faults <- ZeroUpdate`.
* **Trailers without END_STREAM.** A second field section of a backend is passed on as
  trailers whether or not it ends the stream (`upstream.rs:1364`), and DATA may follow.
* **A `Gone` or `Shed` for a stream already reset** closes the client's connection
  (`conn.rs:2066` against `conn.rs:1374`): `ConnectionSurvives` fails when a stream that may
  be reset may also end in `Gone`.
* **A raised limit** frees slots without starting the requests that wait for one
  (`upstream.rs:1163` against `upstream.rs:935`): `NoIdleSlot` fails with `Limits <- Raised`.
* **An answer before the upload is over** frees the stream's slot without RST_STREAM
  (`upstream.rs:1463`), though for the backend it is open until the request has ended, and
  going over its limit is "our bug" (`stream.rs:423`): `BudgetObeyed` fails with `BodyOf <- OneUpload` in `upstream_live`.
* **The DATA of a request refused by a draining connection** closes it (`conn.rs:1897`
  against `conn.rs:1894`): `ConnectionSurvives` fails when a stream with a body may be late.
* **An early answer.** After it, octets the client still uploads find no request upstream
  and are acknowledged by nobody (`upstream.rs:766` against `service.rs:407`): `HeldIsAwaited`
  fails with `MayAnswer = {a}`.
* **Late trailers.** Trailers that cross the end of their stream are a connection error
  (`conn.rs:1886`), although a stream that ended is *closed*, not *idle* (`stream.rs:485`):
  `FailsForCauseOnly` fails with `LateTrailers = TRUE`.
* **Oversized trailers** are answered with a 431, a second response if there was one
  (`conn.rs:1811`, `2066`): `AnswersArriveAsSent` fails with `Trailers <- LongTrailers`.
* **Two resizes between two blocks**: the encoder announces only the last, where RFC 7541
  asks for the smallest as well (`hpack.rs:560`). `TablesInStep` therefore says prefix.
* **Padding that leaves no room for the priority fields** of a HEADERS is answered with
  FRAME_SIZE_ERROR (`frame.rs:472`), where section 6.2 of RFC 9113 asks for PROTOCOL_ERROR; the
  reference of `OctetsJudged` follows the code. Either ends the connection.
* **Padding** is stripped before the windows are debited (`frame.rs:427`), though it counts
  against flow control.
* **`observe_only`** does not reach the meter of unanswered resets once the first is
  over its limit (`guard.rs:385`).
* **`content-length` given twice** counts with its first value (`service.rs`).
* **The admission clamp** panics if `ceiling * connections < MIN_TOTAL`, which a small
  `max_concurrent_streams` allows (`proxy.rs:552`). Geometric recovery happens only after
  connections have come: distress sets `ssthresh` to the total itself.
* **`intercept`** counts any reset but REFUSED_STREAM as a failure of the backend
  (`proxy.rs:1166`), which `health.rs:172` says is deliberately not done. `ProxyRetry` does
  what the code does; hence a backend that resets streams is `Faulty` there.
* **A request taken from the inbox after a graceful drain** is complete is answered `Gone`
  and so counts as a failure; hence a backend that drains is `Faulty` too.

## What is not modelled

Within the modelled components:

* `Bridge`, `Upload`: trailers, padding, a retry of a request with a body, the loss of the
  upstream connection in mid-upload. Frames are as small as the windows make them.
* `UpstreamConn`: flow control, 1xx responses, the assembly of header blocks (as in `Wire`),
  a malformed response head, id exhaustion; the probe's effect is `ConnectionFails`.
* `ClientConn`: flow control, the guard, header blocks, malformed requests (`Wire`),
  replays (a request with `Route::head`), the limit on concurrent streams.
* `Wire`: DATA, windows, resets by the client, the drain; every answer is a head that ends
  the response.
* `Guard`: where a connection calls it, but for continuations, which are in `Wire`.
* `ProxyRetry`: bodies (a request ends with its HEADERS), the teardown of a client
  connection, id exhaustion, the drain deadline, SETTINGS later than the handshake, the
  backoff's length, statistics (the `client_streams` gauge is left open by a retry that
  ends in a local answer), and that idle connections dropped from the pool stay open.

The rotation of `pump_outbound` is not modelled: any ready stream may be visited, which
covers its order and says nothing of starvation. Payload octets and Huffman coding are
covered by vectors, proptests and fuzzing. The accept loop, TLS, configuration and metrics
of the daemon are I/O, and the tooling has no protocol state.

## Plan

Done: all modules above. Left, in this order:

1. Proofs: `FailsForCauseOnly` of `Wire`, as far as it does not rest on folds;
   `BudgetObeyed` for uploads that are answered only when they are whole.
2. `Scheduler`: `pump_outbound` with its ring, and that no stream starves.
3. The upstream reading path: `read_header_block` and 1xx, as `Wire` has it for clients.
4. `RequestLife` implemented by `ClientConn` as well, and hang-ups in `ProxyRetry`.

Runs are kept few: where a new module needs one, runs that ask neighbouring questions are
merged, and the pure operators share one instance.
