------------------------------ MODULE ProxyRetry ------------------------------
(***************************************************************************)
(* Where a request goes: the Proxy of each client connection (proxy.rs)    *)
(* picks a backend by its health and load (health.rs, lb.rs), leases a     *)
(* slot from the pool (pool.rs), and tries once more when an attempt fails *)
(* before a response has begun.                                            *)
(*                                                                         *)
(* Each stream stands for a client connection with that one request, whose *)
(* HEADERS carried END_STREAM.  The tasks run in parallel, so an attempt   *)
(* takes a step per lock it takes: pick, claim, checkout, send.  The       *)
(* connection task is UpstreamConn's, reduced to where each request is:    *)
(* its inbox, its queue, the backend.  A connection's SETTINGS come with   *)
(* its handshake; bodies and windows are left out.                         *)
(***************************************************************************)
EXTENDS Integers, Sequences, FiniteSets, Functions, SequencesExt, Health

CONSTANTS
    Streams,
    Retryable,      (* Streams with an idempotent method.                    *)
    Backends,
    Faulty,         (* Backends that may be unreachable, die, drain, or err. *)
    MayCancel,      (* Streams whose client may give up.                     *)
    Tunings,        (* Configurations, one in force: max_conns_per_backend,  *)
                    (* max_pending and the growth policy.                    *)
    Assumed,        (* ASSUMED_MAX_CONCURRENT.                               *)
    Limit,          (* The MAX_CONCURRENT_STREAMS backends announce.         *)
    MaxTrouble,     (* Bound: refusals, errors, deaths, drains, idle drops.  *)
    MaxConns,       (* Bound: connections to one backend, one after the other*)
                    (* included: the largest pool and one for each trouble.  *)
    None

Conns == Backends \X (1..MaxConns)

ASSUME ProxyAssumption ==
    /\ IsFiniteSet(Streams) /\ IsFiniteSet(Backends) /\ Backends # {}
    /\ Retryable \subseteq Streams /\ MayCancel \subseteq Streams
    /\ Faulty \subseteq Backends
    /\ Tunings \subseteq [conns : Nat \ {0}, pending : Nat, growth : {"eager", "queue"}]
    /\ EjectAfter \in Nat \ {0} /\ Assumed \in Nat /\ Limit \in Nat \ {0} /\ MaxTrouble \in Nat
    /\ MaxConns \in Nat \ {0} /\ \A t \in Tunings : t.conns + MaxTrouble <= MaxConns
    /\ None \notin Backends \cup Conns

VARIABLES
    \* Per client connection.
    told,       (* How far the client has got; see RequestLife.              *)
    tries,      (* Attempts handed to a connection.                          *)
    job,        (* The attempt being made: [step, avoid, b, c].              *)
    lease,      (* Route::lease, the connection of it; None without a route. *)
    mail,       (* Its ServiceEvent channel.                                 *)
    \* Shared.
    tuning,     (* The configuration; it never changes.                      *)
    health,     (* Entry of each backend.                                    *)
    pooled,     (* Connections in a BackendPool.                             *)
    live,       (* UpstreamRecord::live.                                     *)
    retired,    (* Connections whose backend has sent GOAWAY.                *)
    \* The connection tasks and the backends.
    up,         (* "unused", "connecting", "open", "closed".                 *)
    at,         (* Where each request is: "none", "inbox", "queued", ...     *)
    on,         (* ... and on which connection.                              *)
    queue,      (* Requests waiting for a slot, per connection.              *)
    trouble     (* See MaxTrouble.                                           *)

poolVars == <<tuning, pooled, live, retired>>
taskVars == <<up, at, on, queue>>
vars == <<told, tries, job, lease, mail, health, poolVars, taskVars, trouble>>

Job  == [step  : {"none", "pick", "claim", "checkout", "send"},
         avoid : Backends \cup {None}, b : Backends \cup {None}, c : Conns \cup {None}]
Idle == [step |-> "none", avoid |-> None, b |-> None, c |-> None]

Init ==
    /\ told   = [s \in Streams |-> "idle"]
    /\ tries  = [s \in Streams |-> 0]
    /\ job    = [s \in Streams |-> Idle]
    /\ lease  = [s \in Streams |-> None]
    /\ mail   = [s \in Streams |-> <<>>]
    /\ health = [b \in Backends |-> NewEntry]
    /\ tuning \in Tunings
    /\ pooled = {} /\ retired = {}
    /\ live   = [c \in Conns |-> 0]
    /\ up     = [c \in Conns |-> "unused"]
    /\ at     = [s \in Streams |-> "none"]
    /\ on     = [s \in Streams |-> None]
    /\ queue  = [c \in Conns |-> <<>>]
    /\ trouble = 0

\* Event per stream in the domain of `said`, sent down its channel.
Post(said) == mail' = [s \in Streams |-> IF s \in DOMAIN said THEN Append(mail[s], said[s])
                                                              ELSE mail[s]]
Only(s, event) == [r \in {s} |-> event]

-----------------------------------------------------------------------------
(* An attempt: Proxy::attempt, Shared::pick, Pool::checkout.                *)

Dispatch(s) ==
    /\ told[s] = "idle"
    /\ told' = [told EXCEPT ![s] = "waiting"]
    /\ job' = [job EXCEPT ![s].step = "pick"]
    /\ UNCHANGED <<tries, lease, mail, health, poolVars, taskVars, trouble>>

Of(b)          == {c \in pooled : c[1] = b}
Outstanding(b) == SumFunctionOnSet(live, Of(b))

\* Power of two choices: of two distinct candidates the one with less load, so
\* any but one that is busier than all others.
TwoChoices(from) ==
    {b \in from : from = {b} \/ \E other \in from \ {b} : Outstanding(b) <= Outstanding(other)}

\* A retry lands elsewhere if anything else is eligible.  (Mutant: anywhere.)
ElsewhereAnywhere(from, avoid) == from
Elsewhere(from, avoid) == IF from \ {avoid} = {} THEN from ELSE from \ {avoid}

Pick(s) ==
    /\ job[s].step = "pick"
    /\ \E b \in TwoChoices(Elsewhere(Eligible(health, Backends), job[s].avoid)) :
        job' = [job EXCEPT ![s].step = "claim", ![s].b = b]
    /\ UNCHANGED <<told, tries, lease, mail, health, poolVars, taskVars, trouble>>

Claim(s) ==
    /\ job[s].step = "claim"
    /\ health' = [health EXCEPT ![job[s].b] = ClaimTrial(@)]
    /\ job' = [job EXCEPT ![s].step = "checkout"]
    /\ UNCHANGED <<told, tries, lease, mail, poolVars, taskVars, trouble>>

\* What the pool believes of a connection.
Belief(c)   == IF up[c] = "connecting" THEN Assumed ELSE Limit
Queued(c)   == Len(queue[c])
BackedUp(c) == Queued(c) >= Belief(c) /\ Queued(c) >= 1
Usable(c)   == up[c] # "closed" /\ c \notin retired

\* Names are used in order, so of two equals the pool's first is the lower.
Fuller(c, d)  == live[c] > live[d] \/ (live[c] = live[d] /\ c[2] > d[2])
Shorter(c, d) == \/ Queued(c) < Queued(d)
                 \/ Queued(c) = Queued(d) /\ live[c] < live[d]
                 \/ Queued(c) = Queued(d) /\ live[c] = live[d] /\ c[2] < d[2]

\* The fullest connection with room, else a new one, else the shortest queue;
\* `conns` are those of the backend, and the result may be nothing.
Room(conns) == {c \in conns : live[c] < Belief(c)}
Grows(conns) ==
    /\ Room(conns) = {} /\ Cardinality(conns) < tuning.conns
    /\ conns = {} \/ tuning.growth = "eager" \/ \A c \in conns : BackedUp(c)
Leased(conns) ==
    IF Room(conns) # {}
    THEN {c \in Room(conns) : \A d \in Room(conns) \ {c} : Fuller(c, d)}
    ELSE {c \in conns : /\ \A d \in conns \ {c} : Shorter(c, d)
                        /\ Queued(c) < tuning.pending}
Fresh(b) == {c \in Conns : /\ c[1] = b /\ up[c] = "unused"
                            /\ \A d \in Conns : d[1] = b /\ up[d] = "unused" => c[2] <= d[2]}

Take(s, c) ==
    /\ live' = [live EXCEPT ![c] = @ + 1]
    /\ job' = [job EXCEPT ![s].step = "send", ![s].c = c]
    /\ UNCHANGED mail

\* `dropped` are the connections found idle for too long.
Checkout(s) ==
    /\ job[s].step = "checkout"
    /\ \E dropped \in SUBSET {c \in Of(job[s].b) : live[c] = 0 /\ Usable(c)} :
        LET conns == {c \in Of(job[s].b) : Usable(c)} \ dropped
            kept  == (pooled \ Of(job[s].b)) \cup conns IN
        /\ trouble + Cardinality(dropped) <= MaxTrouble
        /\ trouble' = trouble + Cardinality(dropped)
        /\ \/ /\ Grows(conns)
              /\ \E c \in Fresh(job[s].b) :
                    /\ pooled' = kept \cup {c}
                    /\ up' = [up EXCEPT ![c] = "connecting"]
                    /\ Take(s, c)
           \/ /\ ~Grows(conns) /\ pooled' = kept /\ UNCHANGED up
              /\ \E c \in Leased(conns) : Take(s, c)
           \/ /\ ~Grows(conns) /\ Leased(conns) = {} /\ pooled' = kept
              /\ Post(Only(s, "local 503"))
              /\ job' = [job EXCEPT ![s] = Idle]
              /\ UNCHANGED <<up, live>>
    /\ UNCHANGED <<told, tries, lease, health, retired, at, on, queue, tuning>>

\* The route exists once the connection has the request.
Send(s) ==
    /\ job[s].step = "send"
    /\ job' = [job EXCEPT ![s] = Idle]
    /\ LET c == job[s].c IN
        \/ /\ up[c] # "closed"
           /\ tries' = [tries EXCEPT ![s] = @ + 1]
           /\ lease' = [lease EXCEPT ![s] = c]
           /\ at' = [at EXCEPT ![s] = "inbox"] /\ on' = [on EXCEPT ![s] = c]
           /\ UNCHANGED <<mail, health, live>>
        \/ /\ up[c] = "closed"
           /\ health' = [health EXCEPT ![job[s].b] = Failure(@)]
           /\ live' = [live EXCEPT ![c] = @ - 1]
           /\ Post(Only(s, "local 503"))
           /\ UNCHANGED <<tries, lease, at, on>>
    /\ UNCHANGED <<told, pooled, retired, up, queue, trouble, tuning>>

-----------------------------------------------------------------------------
(* The client connection's events: Proxy::intercept, then what the engine   *)
(* makes of them for a stream that is still there.                          *)

\* Dropping a route drops its lease.
DropRoute(s) == /\ lease' = [lease EXCEPT ![s] = None]
                /\ live' = [live EXCEPT ![lease[s]] = @ - 1]
KeepRoute    == UNCHANGED <<lease, live>>

\* Proxy::finish and Proxy::cancel.  (Mutant: the lease of a whole response stays.)
EndKeepsLease(s, how) == told' = [told EXCEPT ![s] = how] /\ KeepRoute
End(s, how)           == told' = [told EXCEPT ![s] = how] /\ DropRoute(s)

\* Proxy::retry.  (Mutant: whatever the method.)
RetriesAnything(s) == tries[s] < 2 /\ told[s] = "waiting"
Retries(s)         == tries[s] < 2 /\ s \in Retryable /\ told[s] = "waiting"
Retry(s) ==
    /\ DropRoute(s)
    /\ job' = [job EXCEPT ![s].step = "pick", ![s].avoid = lease[s][1]]
    /\ UNCHANGED told

\* An attempt failed: again, or that is the end.
Fails(s, how) == IF Retries(s) THEN Retry(s) ELSE End(s, how) /\ UNCHANGED job

ReportSuccess(s) == health' = [health EXCEPT ![lease[s][1]] = Success(@)]
ReportFailure(s) == health' = [health EXCEPT ![lease[s][1]] = Failure(@)]

TakeHead(s)    == told' = [told EXCEPT ![s] = "head"] /\ KeepRoute /\ ReportSuccess(s)
                  /\ UNCHANGED job
TakeAnswer(s)  == End(s, "done") /\ ReportSuccess(s) /\ UNCHANGED job
TakeEnd(s)     == End(s, "done") /\ UNCHANGED <<health, job>>
TakeGone(s)    == Fails(s, "502") /\ ReportFailure(s)

\* (Mutant: not being able to take a request is a failure.)
TakeShedAsFailure(s) == End(s, "503") /\ ReportFailure(s) /\ UNCHANGED job
TakeShed(s)    == End(s, "503") /\ UNCHANGED <<health, job>>

\* REFUSED_STREAM says nothing of the backend; any other reset is a failure.
TakeRefused(s) == Fails(s, "aborted") /\ UNCHANGED health
TakeReset(s)   == End(s, "aborted") /\ ReportFailure(s) /\ UNCHANGED job

\* Our own answer, for which there is no route.
TakeLocal(s)   == told' = [told EXCEPT ![s] = "503"] /\ KeepRoute /\ UNCHANGED <<health, job>>

TakeEvent(s) ==
    /\ mail[s] # <<>> /\ job[s] = Idle
    /\ mail' = [mail EXCEPT ![s] = Tail(@)]
    /\ LET e == Head(mail[s]) IN
        \/ told[s] = "gave up" /\ UNCHANGED <<told, job, lease, live, health>>
        \/ /\ told[s] # "gave up"
           /\ \/ e = "head"      /\ TakeHead(s)
              \/ e = "answer"    /\ TakeAnswer(s)
              \/ e = "end"       /\ TakeEnd(s)
              \/ e = "gone"      /\ TakeGone(s)
              \/ e = "shed"      /\ TakeShed(s)
              \/ e = "refused"   /\ TakeRefused(s)
              \/ e = "reset"     /\ TakeReset(s)
              \/ e = "local 503" /\ TakeLocal(s)
    /\ UNCHANGED <<tries, pooled, retired, taskVars, trouble, tuning>>

\* The client resets the stream: the Cancel message is on its way as long as
\* the connection still has the request.  A request answered by ourselves has
\* no route to cancel.
GiveUp(s) ==
    /\ s \in MayCancel /\ told[s] \in {"waiting", "head"} /\ job[s] = Idle
    /\ \/ lease[s] # None /\ End(s, "gave up")
       \/ lease[s] = None /\ told' = [told EXCEPT ![s] = "gave up"] /\ KeepRoute
    /\ UNCHANGED <<tries, job, mail, health, tuning, pooled, retired, taskVars, trouble>>

-----------------------------------------------------------------------------
(* The connection tasks and the backends behind them.                       *)

With(c, places) == {s \in Streams : on[s] = c /\ at[s] \in places}

\* The requests `gone` leave connection c, and those `waiting` take their slots.
Leave(c, gone, waiting) ==
    LET busy == Cardinality(With(c, {"running", "headed"}) \ gone)
        room == IF busy < Limit THEN Limit - busy ELSE 0
        k    == IF room < Len(waiting) THEN room ELSE Len(waiting) IN
    /\ queue' = [queue EXCEPT ![c] = SubSeq(waiting, k + 1, Len(waiting))]
    /\ at' = [s \in Streams |-> IF s \in gone THEN "none"
                                ELSE IF s \in ToSet(SubSeq(waiting, 1, k)) THEN "running" ELSE at[s]]
    /\ on' = [s \in Streams |-> IF s \in gone THEN None ELSE on[s]]

\* A request that holds a slot, or none yet, leaves the queue as it is.
Free(s) == Leave(on[s], {s}, queue[on[s]])

\* The queue without s.
Without(q, s) == IF Contains(q, s)
                 THEN RemoveAt(q, CHOOSE i \in 1..Len(q) : q[i] = s) ELSE q

Connected(c) ==
    /\ up[c] = "connecting"
    /\ up' = [up EXCEPT ![c] = "open"]
    /\ UNCHANGED <<told, tries, job, lease, mail, health, poolVars, at, on, queue, trouble>>

\* send_request.
TakeRequest(s) ==
    LET c == on[s]
        full == Cardinality(With(c, {"running", "headed"})) >= Limit IN
    /\ at[s] = "inbox" /\ up[c] = "open"
    /\ \/ /\ c \in retired
          /\ Free(s) /\ Post(Only(s, "refused"))
       \/ /\ c \notin retired /\ ~full
          /\ at' = [at EXCEPT ![s] = "running"] /\ UNCHANGED <<on, queue, mail>>
       \/ /\ c \notin retired /\ full /\ Queued(c) < tuning.pending
          /\ at' = [at EXCEPT ![s] = "queued"] /\ queue' = [queue EXCEPT ![c] = Append(@, s)]
          /\ UNCHANGED <<on, mail>>
       \/ /\ c \notin retired /\ full /\ Queued(c) >= tuning.pending
          /\ Free(s) /\ Post(Only(s, "shed"))
    /\ UNCHANGED <<told, tries, job, lease, health, poolVars, up, trouble>>

\* The Cancel reaches the request, wherever it is.
TakeCancel(s) ==
    /\ at[s] \in {"queued", "running", "headed"} /\ lease[s] = None
    /\ Leave(on[s], {s}, Without(queue[on[s]], s))
    /\ UNCHANGED <<told, tries, job, lease, mail, health, poolVars, up, trouble>>

Hears(s, event) == /\ Post(Only(s, event))
                   /\ UNCHANGED <<told, tries, job, lease, health, poolVars, up>>

BackendHead(s) ==
    /\ at[s] = "running"
    /\ at' = [at EXCEPT ![s] = "headed"]
    /\ Hears(s, "head") /\ UNCHANGED <<on, queue, trouble>>

BackendEnd(s) ==
    /\ at[s] \in {"running", "headed"}
    /\ Free(s)
    /\ Hears(s, IF at[s] = "running" THEN "answer" ELSE "end")
    /\ UNCHANGED trouble

Trouble == trouble < MaxTrouble /\ trouble' = trouble + 1

\* Any backend may be busy; only a faulty one errs.
BackendRefuses(s) ==
    /\ at[s] = "running" /\ Trouble
    /\ Free(s) /\ Hears(s, "refused")

BackendResets(s) ==
    /\ at[s] \in {"running", "headed"} /\ on[s][1] \in Faulty /\ Trouble
    /\ Free(s) /\ Hears(s, "reset")

\* begin_peer_drain: what is queued, and those above last_stream_id, are refused;
\* `above` may be any of the unanswered.
Drain(c) ==
    /\ up[c] = "open" /\ c[1] \in Faulty /\ c \notin retired /\ Trouble
    /\ retired' = retired \cup {c}
    /\ \E above \in SUBSET With(c, {"running"}) :
        LET refused == above \cup With(c, {"queued"}) IN
        Leave(c, refused, <<>>) /\ Post([s \in refused |-> "refused"])
    /\ UNCHANGED <<told, tries, job, lease, health, pooled, live, up, tuning>>

\* The end of `run`: every request the connection has is told.  (Mutant: not
\* those it has not read.)
Closing(c, heard) ==
    /\ up' = [up EXCEPT ![c] = "closed"]
    /\ queue' = [queue EXCEPT ![c] = <<>>]
    /\ at' = [s \in Streams |-> IF on[s] = c THEN "none" ELSE at[s]]
    /\ on' = [s \in Streams |-> IF on[s] = c THEN None ELSE on[s]]
    /\ Post([s \in heard |-> IF at[s] = "headed" THEN "reset" ELSE "gone"])
CloseSilently(c) == Closing(c, With(c, {"queued", "running", "headed"}))
Close(c)         == Closing(c, With(c, {"inbox", "queued", "running", "headed"}))

ConnectFails(c) ==
    /\ up[c] = "connecting" /\ c[1] \in Faulty /\ Trouble
    /\ Close(c)
    /\ UNCHANGED <<told, tries, job, lease, health, poolVars>>

\* A probe nobody answered is the one failure a connection itself reports.
ConnDies(c) ==
    /\ up[c] = "open" /\ c[1] \in Faulty /\ Trouble
    /\ Close(c)
    /\ \E probed \in BOOLEAN :
        health' = IF probed THEN [health EXCEPT ![c[1]] = Failure(@)] ELSE health
    /\ UNCHANGED <<told, tries, job, lease, poolVars>>

\* peer_drain_complete.
DrainDone(c) ==
    /\ up[c] = "open" /\ c \in retired /\ With(c, {"running", "headed"}) = {}
    /\ Close(c)
    /\ UNCHANGED <<told, tries, job, lease, health, poolVars, trouble>>

EjectionExpires(b) ==
    /\ health[b].state = "ejected"
    /\ health' = [health EXCEPT ![b] = Expire(@)]
    /\ UNCHANGED <<told, tries, job, lease, mail, poolVars, taskVars, trouble>>

-----------------------------------------------------------------------------
Attempt(s)     == Dispatch(s) \/ Pick(s) \/ Claim(s) \/ Checkout(s) \/ Send(s)
BackendActs(s) == BackendHead(s) \/ BackendEnd(s)
Task(c)        == Connected(c) \/ DrainDone(c)

Next ==
    \/ \E s \in Streams : \/ Attempt(s) \/ TakeEvent(s) \/ GiveUp(s)
                          \/ TakeRequest(s) \/ TakeCancel(s)
                          \/ BackendActs(s) \/ BackendRefuses(s) \/ BackendResets(s)
    \/ \E c \in Conns : Task(c) \/ Drain(c) \/ ConnectFails(c) \/ ConnDies(c)
    \/ \E b \in Backends : EjectionExpires(b)

\* Tasks run, a connect ends one way or the other, and a backend answers what
\* it accepted.  Nobody has to ask, and no ejection has to expire.
Fairness ==
    /\ \A s \in Streams : /\ WF_vars(Pick(s)) /\ WF_vars(Claim(s))
                          /\ WF_vars(Checkout(s)) /\ WF_vars(Send(s))
                          /\ WF_vars(TakeEvent(s)) /\ WF_vars(TakeRequest(s))
                          /\ WF_vars(TakeCancel(s)) /\ WF_vars(BackendEnd(s))
    /\ \A c \in Conns : WF_vars(Connected(c) \/ ConnectFails(c)) /\ WF_vars(DrainDone(c))

Spec == Init /\ [][Next]_vars /\ Fairness

-----------------------------------------------------------------------------
TypeOK ==
    /\ told \in [Streams -> {"idle", "waiting", "head", "done", "502", "503", "aborted", "gave up"}]
    /\ tries \in [Streams -> 0..2]
    /\ job \in [Streams -> Job]
    /\ lease \in [Streams -> Conns \cup {None}]
    /\ health \in [Backends -> Entry]
    /\ tuning \in Tunings /\ pooled \subseteq Conns /\ retired \subseteq Conns
    /\ live \in [Conns -> 0..Cardinality(Streams)]
    /\ up \in [Conns -> {"unused", "connecting", "open", "closed"}]
    /\ at \in [Streams -> {"none", "inbox", "queued", "running", "headed"}]
    /\ on \in [Streams -> Conns \cup {None}]
    /\ queue \in [Conns -> BoundedSeq(Streams, tuning.pending)]
    /\ trouble \in 0..MaxTrouble

Holders(c) == {s \in Streams : lease[s] = c \/ job[s].c = c}

(* `live` counts the requests that hold a lease, and only a request whose  *)
(* client still waits for something holds one: a leaked lease looks like a *)
(* backend at its limit (proxy.rs, Proxy::finish; pool.rs, Drop for Lease).*)
SlotsMatchStreams ==
    /\ TypeOK
    /\ \A c \in Conns :
        live[c] = Cardinality(Holders(c))
    /\ \A s \in Streams : lease[s] # None => told[s] \in {"waiting", "head"}

(* A backend that stays up and answers what it is asked is never ejected,  *)
(* whatever its neighbours do: refusals, full queues and clients that give *)
(* up are no evidence against it (proxy.rs, Proxy::intercept).             *)
SoundNeverEjected == \A b \in Backends \ Faulty : health[b].state = "healthy"

(* A retry never goes back to the backend that failed while another one is *)
(* sound, whatever has been ejected meanwhile: "a retry must land somewhere*)
(* else, or it is just the same request to the same broken backend"        *)
(* (proxy.rs, Shared::pick).                                               *)
RetryLandsElsewhere ==
    \A s \in Streams :
        /\ job[s].avoid # None /\ job[s].b # None
        /\ Backends \ (Faulty \cup {job[s].avoid}) # {}
        => job[s].b # job[s].avoid

(* The life of each request is one the proxy promises, step by step.       *)
Life == INSTANCE RequestLife
ImplementsRequestLife == Life!Spec

(* Every request that is asked is answered, refused or aborted: a hang is  *)
(* the one failure mode a proxy must never produce (upstream.rs, run).     *)
EveryRequestSettled == \A s \in Streams : told[s] = "waiting" ~> told[s] \in Life!Over

(* "so the flag always has a real request behind it" (health.rs,           *)
(* claim_trial): a trial in flight is the trial of some request.           *)
TrialHasRequest ==
    \A b \in Backends : health[b].trial =>
        \E s \in Streams : \/ job[s].step \in {"checkout", "send"} /\ job[s].b = b
                           \/ lease[s] # None /\ lease[s][1] = b
=============================================================================
