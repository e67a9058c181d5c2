------------------------------ MODULE ProbeProofs ------------------------------
(***************************************************************************)
(* For every idle period and timeout, every schedule of the backend and    *)
(* any length of time: the probe ends no connection on which anything was  *)
(* heard while it waited, and leaves none silent for longer than it says.  *)
(***************************************************************************)
EXTENDS Probe, TLAPS

Moment == Nat
Sent   == [nonce : Nat, sentAt : Moment, deadline : Moment]

TypeOK ==
    /\ tuning \in Tunings /\ now \in Moment /\ alive \in BOOLEAN /\ lastHeard \in Moment
    /\ outstanding \in Sent /\ nextNonce \in Nat \ {0}
    /\ out \in Seq(Nat) /\ pings \subseteq Nat /\ socket \in Seq(Nat)
    /\ silent \in BOOLEAN /\ spoken \in Nat /\ arrivals \subseteq Moment

\* What has arrived has been heard, unless it arrived just now and is unread:
\* time does not pass over a full socket.
HeardInTime ==
    /\ lastHeard <= now
    /\ alive => \A t \in arrivals : t <= lastHeard \/ (t = now /\ socket # <<>>)

\* A probe is sent by a connection that probes, and the clock stops at its deadline.
ProbeInTime ==
    outstanding # NoProbe =>
        /\ Probing /\ outstanding.nonce # 0
        /\ outstanding.deadline = outstanding.sentAt + Timeout
        /\ outstanding.sentAt <= now /\ now <= outstanding.deadline

\* How old the silence can be: before a probe, and when the probe went out.
Slack == IF Idle > Timeout THEN Idle ELSE Timeout
SilenceSoFar ==
    alive /\ Probing =>
        IF outstanding = NoProbe THEN now <= lastHeard + Slack
        ELSE outstanding.sentAt <= lastHeard + Slack

\* The inductive invariant.
IInv == TypeOK /\ HeardInTime /\ ProbeInTime /\ SilenceSoFar /\ NeverKillsTheLive

LEMMA Tuned ==
    ASSUME tuning \in Tunings
    PROVE  Idle \in Nat /\ Timeout \in Nat /\ Timeout > 0
BY ProbeAssumption DEF Idle, Timeout

LEMMA InitIInv == Init => IInv
<1> SUFFICES ASSUME Init PROVE IInv
    OBVIOUS
<1> USE DEF Init
<1>1. Idle \in Nat /\ Timeout \in Nat /\ Timeout > 0
    BY Tuned
<1>2. TypeOK
    <2>1. outstanding \in Sent
        BY DEF Sent, NoProbe, Moment
    <2>2. alive \in BOOLEAN /\ silent \in BOOLEAN
        BY Zenon
    <2> QED BY <2>1, <2>2 DEF TypeOK, Moment
<1>3. HeardInTime /\ ProbeInTime /\ SilenceSoFar /\ NeverKillsTheLive
    BY <1>1 DEF HeardInTime, ProbeInTime, SilenceSoFar, Slack, NeverKillsTheLive
<1> QED BY <1>2, <1>3 DEF IInv

LEMMA SendProbeStep == IInv /\ SendProbe => IInv'
<1> SUFFICES ASSUME IInv, SendProbe PROVE IInv'
    OBVIOUS
<1> USE DEF SendProbe, IInv
<1>1. Idle \in Nat /\ Timeout \in Nat /\ Timeout > 0 /\ Idle' = Idle /\ Timeout' = Timeout
    BY Tuned DEF TypeOK, Idle, Timeout
<1>2. /\ now \in Nat /\ lastHeard \in Nat /\ nextNonce \in Nat \ {0}
      /\ alive /\ Probing /\ Probing' /\ outstanding = NoProbe
    BY <1>1 DEF TypeOK, Moment, TimerDue, Probing
<1>3. outstanding' \in Sent /\ outstanding'.nonce # 0 /\ outstanding'.sentAt = now
      /\ outstanding'.deadline = now + Timeout
    BY <1>1, <1>2 DEF Sent, Moment
<1>4. outstanding' # NoProbe
    BY <1>3 DEF NoProbe
<1>5. TypeOK'
    <2>1. out' \in Seq(Nat)
        BY <1>2 DEF TypeOK
    <2>2. nextNonce' \in Nat \ {0}
        BY <1>2
    <2> QED BY <1>3, <2>1, <2>2 DEF TypeOK
<1>6. HeardInTime'
    BY DEF HeardInTime
<1>7. ProbeInTime'
    BY <1>1, <1>2, <1>3 DEF ProbeInTime
<1>8. SilenceSoFar'
    <2>1. now <= lastHeard + Slack /\ Slack' = Slack
        BY <1>1, <1>2 DEF SilenceSoFar, Slack
    <2> QED BY <2>1, <1>3, <1>4 DEF SilenceSoFar
<1>9. NeverKillsTheLive'
    BY <1>2 DEF NeverKillsTheLive
<1> QED BY <1>5, <1>6, <1>7, <1>8, <1>9

\* The deadline: everything that arrived before it has been heard, so if nothing
\* was heard since the probe went out nothing arrived in between.
LEMMA DeadlineStep == IInv /\ DeadlinePassed => IInv'
<1> SUFFICES ASSUME IInv, DeadlinePassed PROVE IInv'
    OBVIOUS
<1> USE DEF DeadlinePassed, IInv
<1>1. Idle \in Nat /\ Timeout \in Nat /\ Timeout > 0 /\ Idle' = Idle /\ Timeout' = Timeout
    BY Tuned DEF TypeOK, Idle, Timeout
<1>2. /\ now \in Nat /\ lastHeard \in Nat /\ outstanding.sentAt \in Nat /\ outstanding.deadline \in Nat
      /\ arrivals \subseteq Nat /\ alive /\ outstanding # NoProbe
    BY DEF TypeOK, Moment, Sent, TimerDue
<1>3. now = outstanding.sentAt + Timeout
    <2>1. now >= outstanding.deadline
        BY <1>2 DEF TimerDue
    <2> QED BY <2>1, <1>1, <1>2 DEF ProbeInTime
<1>4. TypeOK'
    <2>1. outstanding' \in Sent
        BY DEF Sent, NoProbe, Moment
    <2>2. alive' \in BOOLEAN
        BY <1>2 DEF Answered
    <2> QED BY <2>1, <2>2 DEF TypeOK
<1>5. HeardInTime'
    BY <1>2 DEF HeardInTime
<1>6. ProbeInTime'
    BY DEF ProbeInTime
<1>7. SilenceSoFar'
    <2> SUFFICES ASSUME alive' PROVE now <= lastHeard + Slack
        BY <1>1 DEF SilenceSoFar, Slack
    <2>1. lastHeard > outstanding.sentAt
        BY DEF Answered
    <2> QED BY <2>1, <1>1, <1>2, <1>3 DEF Slack
<1>8. NeverKillsTheLive'
    <2> SUFFICES ASSUME ~alive', NEW t \in arrivals, now - Timeout < t, t < now PROVE FALSE
        BY <1>1 DEF NeverKillsTheLive
    <2>1. t <= lastHeard
        BY <1>2 DEF HeardInTime
    <2>2. ~Answered
        BY Zenon
    <2>3. lastHeard <= outstanding.sentAt
        BY <2>2, <1>2 DEF Answered
    <2> QED BY <2>1, <2>3, <1>1, <1>2, <1>3
<1> QED BY <1>4, <1>5, <1>6, <1>7, <1>8

LEMMA ReadStep == IInv /\ Read => IInv'
<1> SUFFICES ASSUME IInv, Read PROVE IInv'
    OBVIOUS
<1> USE DEF Read, IInv
<1>1. Idle \in Nat /\ Timeout \in Nat /\ Timeout > 0 /\ Idle' = Idle /\ Timeout' = Timeout
    BY Tuned DEF TypeOK, Idle, Timeout
<1>2. now \in Nat /\ lastHeard \in Nat /\ arrivals \subseteq Nat /\ lastHeard <= now
    BY DEF TypeOK, Moment, HeardInTime
<1>3. outstanding' = NoProbe \/ outstanding' = outstanding
    BY DEF Acked
<1>4. TypeOK'
    BY <1>3 DEF TypeOK, Sent, NoProbe, Moment
<1>5. HeardInTime'
    BY <1>2 DEF HeardInTime
<1>6. ProbeInTime'
    BY <1>1, <1>3 DEF ProbeInTime, Probing
<1>7. SilenceSoFar'
    <2>1. Slack \in Nat /\ Slack' = Slack
        BY <1>1 DEF Slack
    <2>2. outstanding' # NoProbe => outstanding'.sentAt <= now /\ outstanding'.sentAt \in Nat
        BY <1>3 DEF ProbeInTime, TypeOK, Sent, Moment
    <2> QED BY <2>1, <2>2, <1>2 DEF SilenceSoFar
<1>8. NeverKillsTheLive'
    BY DEF NeverKillsTheLive
<1> QED BY <1>4, <1>5, <1>6, <1>7, <1>8

\* Something reaches the socket, or a PING the backend: the clock stands still.
LEMMA ArrivalStep ==
    ASSUME IInv, TypeOK', UNCHANGED <<tuning, now, alive, lastHeard, outstanding>>,
           socket' # <<>> \/ socket' = socket,
           \/ arrivals' = arrivals
           \/ (arrivals' = arrivals \cup {now} /\ socket' # <<>>)
    PROVE  IInv'
<1>1. Idle' = Idle /\ Timeout' = Timeout /\ Slack' = Slack
    BY DEF Idle, Timeout, Slack
<1>2. HeardInTime'
    BY DEF IInv, HeardInTime
<1>3. ProbeInTime' /\ SilenceSoFar'
    BY <1>1 DEF IInv, ProbeInTime, SilenceSoFar, Probing
<1>4. NeverKillsTheLive'
    BY <1>1 DEF IInv, TypeOK, Moment, NeverKillsTheLive
<1> QED BY <1>2, <1>3, <1>4 DEF IInv

LEMMA TickStep == IInv /\ Tick => IInv'
<1> SUFFICES ASSUME IInv, Tick PROVE IInv'
    OBVIOUS
<1> USE DEF Tick, IInv, proxy
<1>1. Idle \in Nat /\ Timeout \in Nat /\ Timeout > 0 /\ Idle' = Idle /\ Timeout' = Timeout
    BY Tuned DEF TypeOK, Idle, Timeout
<1>2. /\ now \in Nat /\ now' = now + 1 /\ lastHeard \in Nat /\ arrivals \subseteq Nat
      /\ outstanding.sentAt \in Nat /\ outstanding.deadline \in Nat
    BY DEF TypeOK, Moment, Sent
<1>3. alive /\ ~TimerDue /\ socket = <<>>
    BY DEF Busy
<1>4. TypeOK'
    BY <1>2 DEF TypeOK, Moment
<1>5. HeardInTime'
    BY <1>2, <1>3 DEF HeardInTime
<1>6. ProbeInTime'
    <2> SUFFICES ASSUME outstanding # NoProbe PROVE now' <= outstanding.deadline
        BY <1>1, <1>2 DEF ProbeInTime, Probing
    <2>1. ~(now >= outstanding.deadline)
        BY <1>3 DEF TimerDue, ProbeInTime
    <2> QED BY <2>1, <1>2
<1>7. SilenceSoFar'
    <2> SUFFICES ASSUME Probing, outstanding = NoProbe PROVE now' <= lastHeard + Slack
        BY <1>1, <1>3 DEF SilenceSoFar, Slack, Probing
    <2>1. ~(now >= lastHeard + Idle)
        BY <1>3 DEF TimerDue
    <2> QED BY <2>1, <1>1, <1>2 DEF Slack
<1>8. NeverKillsTheLive'
    BY <1>3 DEF NeverKillsTheLive
<1> QED BY <1>4, <1>5, <1>6, <1>7, <1>8

LEMMA NextIInv == IInv /\ [Next]_vars => IInv'
<1> SUFFICES ASSUME IInv, [Next]_vars PROVE IInv'
    OBVIOUS
<1>0. TypeOK
    BY DEF IInv
<1>1. CASE SendProbe
    BY <1>1, SendProbeStep
<1>2. CASE DeadlinePassed
    BY <1>2, DeadlineStep
<1>3. CASE WriteOut
    <2>0. out \in Seq(Nat) /\ pings \subseteq Nat /\ \A i \in DOMAIN out : out[i] \in Nat
        BY <1>0 DEF TypeOK
    <2>1. pings' \subseteq Nat
        <3>1. pings' = pings \cup {out[i] : i \in DOMAIN out}
            BY <1>3 DEF WriteOut
        <3>2. {out[i] : i \in DOMAIN out} \subseteq Nat
            BY <2>0
        <3> QED BY <2>0, <3>1, <3>2
    <2>2. TypeOK'
        <3>1. out' \in Seq(Nat)
            BY <1>3 DEF WriteOut
        <3> QED BY <1>0, <1>3, <2>1, <3>1 DEF WriteOut, TypeOK
    <2> QED BY <1>3, <2>2, ArrivalStep DEF WriteOut
<1>4. CASE Read
    BY <1>4, ReadStep
<1>5. ASSUME NEW n \in pings, BackendAnswers(n) PROVE IInv'
    <2>1. socket' \in Seq(Nat) /\ socket' # <<>>
        BY <1>0, <1>5 DEF BackendAnswers, Arrives, TypeOK
    <2>2. TypeOK'
        BY <1>0, <1>5, <2>1 DEF BackendAnswers, Arrives, TypeOK, proxy
    <2> QED BY <1>5, <2>1, <2>2, ArrivalStep DEF BackendAnswers, Arrives, proxy
<1>6. CASE BackendSpeaks
    <2>1. socket' \in Seq(Nat) /\ socket' # <<>>
        BY <1>0, <1>6 DEF BackendSpeaks, Arrives, TypeOK, Speech
    <2>2. TypeOK'
        BY <1>0, <1>6, <2>1 DEF BackendSpeaks, Arrives, TypeOK, proxy
    <2> QED BY <1>6, <2>1, <2>2, ArrivalStep DEF BackendSpeaks, Arrives, proxy
<1>7. CASE BackendFallsSilent
    <2>1. TypeOK'
        BY <1>0, <1>7 DEF BackendFallsSilent, TypeOK, proxy
    <2> QED BY <1>7, <2>1, ArrivalStep DEF BackendFallsSilent, proxy
<1>8. CASE Tick
    BY <1>8, TickStep
<1>9. CASE UNCHANGED vars
    <2>1. TypeOK'
        BY <1>0, <1>9 DEF vars, proxy, TypeOK
    <2> QED BY <1>9, <2>1, ArrivalStep DEF vars, proxy
<1> QED BY <1>1, <1>2, <1>3, <1>4, <1>5, <1>6, <1>7, <1>8, <1>9 DEF Next

\* The inductive invariant: time stops for a due timer and for a socket with
\* something to read (Connection::run polls both before it parks).
THEOREM ProbeInvariant == Spec => []IInv
<1> QED BY InitIInv, NextIInv, PTL DEF Spec

\* The connection ends only after `timeout` in which nothing reached it
\* (Probe::tick on a deadline: `last_heard > sent_at` spares it).
THEOREM TheLiveAreSpared == Spec => []NeverKillsTheLive
<1>1. IInv => NeverKillsTheLive
    BY DEF IInv
<1> QED BY <1>1, ProbeInvariant, PTL

\* A connection that probes has heard something within max(idle, timeout) and a
\* timeout, or it is over (Probe::next_wake leaves no silence unwatched).
THEOREM TheSilentAreFound == Spec => []SilenceIsFound
<1>1. IInv => SilenceIsFound
    <2> SUFFICES ASSUME IInv, alive, Probing PROVE now - lastHeard <= Slack + Timeout
        BY DEF SilenceIsFound, Patience, Slack
    <2>1. Idle \in Nat /\ Timeout \in Nat /\ Slack \in Nat
        BY Tuned DEF IInv, TypeOK, Slack
    <2>2. now \in Nat /\ lastHeard \in Nat /\ outstanding.sentAt \in Nat /\ outstanding.deadline \in Nat
        BY DEF IInv, TypeOK, Sent, Moment
    <2>3. CASE outstanding = NoProbe
        <3>1. now <= lastHeard + Slack
            BY <2>3 DEF IInv, SilenceSoFar
        <3> QED BY <3>1, <2>1, <2>2
    <2>4. CASE outstanding # NoProbe
        <3>1. /\ outstanding.deadline = outstanding.sentAt + Timeout /\ now <= outstanding.deadline
              /\ outstanding.sentAt <= lastHeard + Slack
            BY <2>4 DEF IInv, ProbeInTime, SilenceSoFar
        <3> QED BY <3>1, <2>1, <2>2
    <2> QED BY <2>3, <2>4
<1> QED BY <1>1, ProbeInvariant, PTL
================================================================================
