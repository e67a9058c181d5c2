--------------------------------- MODULE Probe ---------------------------------
(***************************************************************************)
(* The liveness probe of an upstream connection (core/src/upstream.rs,     *)
(* struct Probe) on a clock: a PING to a backend that has been silent, and *)
(* the end of the connection if the silence goes on.                       *)
(*                                                                         *)
(* `tick` of the code selects in a fixed order: timer, write, read.  The   *)
(* task is prompt: time does not pass while it has something to do.  The   *)
(* backend answers PINGs late, speaks by itself, or falls silent for ever. *)
(***************************************************************************)
EXTENDS Integers, Sequences

CONSTANTS
    Tunings,    (* Pairs [idle, timeout]: the silence after which a probe is *)
                (* sent, 0 for never, and how long an answer may take.       *)
    MaxClock,   (* Bound: the time the model covers.                         *)
    MaxSpoken   (* Bound: what the backend says of its own accord.           *)

ASSUME ProbeAssumption ==
    /\ Tunings \subseteq [idle : Nat, timeout : Nat \ {0}]
    /\ MaxClock \in Nat /\ MaxSpoken \in Nat

VARIABLES
    tuning,     (* The pair in force, for ever.                              *)
    now,
    alive,      (* The task runs.                                            *)
    lastHeard,  (* Probe::last_heard.                                        *)
    outstanding,(* Probe::outstanding: [nonce, sentAt, deadline] or NoProbe. *)
    nextNonce,
    out,        (* PINGs queued, not yet written.                            *)
    pings,      (* PINGs on the way or with the backend.                     *)
    socket,     (* What the backend sent and the task has not read.          *)
    silent,     (* The backend has gone for ever.                            *)
    spoken,
    arrivals    (* The times at which anything reached the socket.           *)

proxy == <<alive, lastHeard, outstanding, nextNonce, out>>
vars  == <<tuning, now, proxy, pings, socket, silent, spoken, arrivals>>

Idle    == tuning.idle
Timeout == tuning.timeout

NoProbe == [nonce |-> 0, sentAt |-> 0, deadline |-> 0]
Speech  == 0

Init ==
    /\ tuning \in Tunings
    /\ now = 0 /\ alive = TRUE /\ lastHeard = 0 /\ outstanding = NoProbe /\ nextNonce = 1
    /\ out = <<>> /\ pings = {} /\ socket = <<>> /\ silent = FALSE /\ spoken = 0
    /\ arrivals = {}

Probing == Idle # 0

\* next_wake: the timer of the task is due.
TimerDue ==
    /\ alive /\ Probing
    /\ IF outstanding = NoProbe THEN now >= lastHeard + Idle ELSE now >= outstanding.deadline

-----------------------------------------------------------------------------
(* The task *)

\* Due, with nothing outstanding: the socket has been quiet long enough.
SendProbe ==
    /\ TimerDue /\ outstanding = NoProbe
    /\ outstanding' = [nonce |-> nextNonce, sentAt |-> now, deadline |-> now + Timeout]
    /\ nextNonce' = nextNonce + 1
    /\ out' = Append(out, nextNonce)
    /\ UNCHANGED <<tuning, now, alive, lastHeard, pings, socket, silent, spoken, arrivals>>

\* Mutants: only the ACK counts as an answer; so does what was heard before.
AnsweredByAckOnly == FALSE
AnsweredLately    == lastHeard + Idle >= outstanding.sentAt

\* Due, with a probe outstanding: anything heard since it went out answers it.
Answered == lastHeard > outstanding.sentAt

DeadlinePassed ==
    /\ TimerDue /\ outstanding # NoProbe
    /\ outstanding' = NoProbe
    /\ alive' = Answered
    /\ UNCHANGED <<tuning, now, lastHeard, nextNonce, out, pings, socket, silent, spoken, arrivals>>

WriteOut ==
    /\ alive /\ ~TimerDue /\ out # <<>>
    /\ pings' = pings \cup {out[i] : i \in DOMAIN out}
    /\ out' = <<>>
    /\ UNCHANGED <<tuning, now, alive, lastHeard, outstanding, nextNonce, socket, silent, spoken, arrivals>>

\* acked: the ACK of the probe ends it; any other changes nothing.
Acked == IF \E i \in DOMAIN socket : socket[i] = outstanding.nonce THEN NoProbe ELSE outstanding

\* One read takes all there is: `heard`, then each PING ACK in turn.
Read ==
    /\ alive /\ ~TimerDue /\ out = <<>> /\ socket # <<>>
    /\ lastHeard' = now
    /\ outstanding' = Acked
    /\ socket' = <<>>
    /\ UNCHANGED <<tuning, now, alive, nextNonce, out, pings, silent, spoken, arrivals>>

Busy == TimerDue \/ (alive /\ (out # <<>> \/ socket # <<>>))

-----------------------------------------------------------------------------
(* The backend and the clock *)

Arrives(what) ==
    /\ ~silent
    /\ socket' = Append(socket, what) /\ arrivals' = arrivals \cup {now}

BackendAnswers(n) ==
    /\ n \in pings /\ Arrives(n) /\ pings' = pings \ {n}
    /\ UNCHANGED <<tuning, now, proxy, silent, spoken>>

BackendSpeaks ==
    /\ spoken < MaxSpoken /\ Arrives(Speech) /\ spoken' = spoken + 1
    /\ UNCHANGED <<tuning, now, proxy, pings, silent>>

BackendFallsSilent ==
    /\ ~silent /\ silent' = TRUE
    /\ UNCHANGED <<tuning, now, proxy, pings, socket, spoken, arrivals>>

Tick ==
    /\ alive /\ ~Busy /\ now < MaxClock
    /\ now' = now + 1
    /\ UNCHANGED <<tuning, proxy, pings, socket, silent, spoken, arrivals>>

Next ==
    \/ SendProbe \/ DeadlinePassed \/ WriteOut \/ Read
    \/ \E n \in pings : BackendAnswers(n)
    \/ BackendSpeaks \/ BackendFallsSilent \/ Tick

Spec == Init /\ [][Next]_vars

-----------------------------------------------------------------------------
(* Properties *)

\* A connection is given up only after `Timeout` in which nothing at all
\* reached it: a backend that says anything is not dead (upstream.rs:301).
NeverKillsTheLive ==
    ~alive => \A t \in arrivals : ~(now - Timeout < t /\ t < now)

\* A backend that has fallen silent is found out: nothing heard for this long
\* and the connection is over (upstream.rs:216).
Patience == (IF Idle > Timeout THEN Idle ELSE Timeout) + Timeout

SilenceIsFound ==
    alive /\ Probing => now - lastHeard <= Patience

=============================================================================
