--------------------------------- MODULE Guard ---------------------------------
(***************************************************************************)
(* The abuse guard of a client connection (core/src/guard.rs): token       *)
(* buckets for events a peer may send at some rate, the meter that records *)
(* the rate it reached, and the run of empty DATA frames.  Times, rates    *)
(* and tokens are whole numbers; `Second` is the meter's window.           *)
(***************************************************************************)
EXTENDS Integers, Sequences, FiniteSets, SequencesExt

CONSTANTS
    Limits,     (* [resetBurst, resetRate, unansweredBurst, unansweredRate,  *)
                (*  controlBurst, controlRate, maxEmpty, observeOnly]        *)
    Second

-----------------------------------------------------------------------------
(* Bucket, RateMeter, Meter *)

NewMeter(burst, rate, now) ==
    [tokens |-> burst, burst |-> burst, rate |-> rate, last |-> now,
     start |-> now, count |-> 0, peak |-> [events |-> 0, during |-> Second]]

Lesser(a, b) == IF a <= b THEN a ELSE b

\* Mutant: time that has passed since the last event taken, not since the last.
RefilledFromStart(m, now) == Lesser(m.tokens + (now - m.start) * m.rate, m.burst)

Refilled(m, now) == Lesser(m.tokens + (now - m.last) * m.rate, m.burst)

\* a/b > c/d
Faster(r, q) == r.events * q.during > q.events * r.during

\* The rate of a window that is over goes into the peak.
Metered(m, now) ==
    LET rate == [events |-> m.count, during |-> now - m.start]
    IN  IF now - m.start < Second
        THEN [m EXCEPT !.count = @ + 1]
        ELSE [m EXCEPT !.peak = IF Faster(rate, @) THEN rate ELSE @,
                       !.start = now, !.count = 1]

\* [meter, ok] after one event.
RecordEvent(m, now) ==
    LET left == Refilled(m, now)
    IN  [ok |-> left >= 1,
         meter |-> [Metered(m, now) EXCEPT !.tokens = IF left >= 1 THEN left - 1 ELSE left,
                                           !.last = now]]

\* RateMeter::peak: a window in progress counts as a whole second at least.
Peak(m, now) ==
    LET partial == [events |-> m.count,
                    during |-> IF now - m.start < Second THEN Second ELSE now - m.start]
    IN  IF Faster(partial, m.peak) THEN partial ELSE m.peak

-----------------------------------------------------------------------------
(* Guard *)

NewGuard(now) ==
    [resets     |-> NewMeter(Limits.resetBurst, Limits.resetRate, now),
     unanswered |-> NewMeter(Limits.unansweredBurst, Limits.unansweredRate, now),
     control    |-> NewMeter(Limits.controlBurst, Limits.controlRate, now),
     empty      |-> 0,
     trip       |-> "none"]

Verdict(g, signal) == IF Limits.observeOnly THEN g ELSE [g EXCEPT !.trip = signal]

OnReset(g, answered, now) ==
    LET r == RecordEvent(g.resets, now)
        u == RecordEvent(g.unanswered, now)
        h == [g EXCEPT !.resets = r.meter]
    IN  IF ~r.ok THEN Verdict(h, "resets")
        ELSE IF answered THEN h
        ELSE IF u.ok THEN [h EXCEPT !.unanswered = u.meter]
        ELSE Verdict([h EXCEPT !.unanswered = u.meter], "unanswered")

OnControl(g, now) ==
    LET c == RecordEvent(g.control, now)
        h == [g EXCEPT !.control = c.meter]
    IN  IF c.ok THEN h ELSE Verdict(h, "control")

OnData(g, length, end) ==
    IF length > 0 \/ end THEN [g EXCEPT !.empty = 0]
    ELSE LET h == [g EXCEPT !.empty = @ + 1]
         IN  IF h.empty > Limits.maxEmpty THEN Verdict(h, "empty") ELSE h

\* An event is [kind, at].
On(g, e) ==
    CASE e.kind = "answered"   -> OnReset(g, TRUE, e.at)
      [] e.kind = "unanswered" -> OnReset(g, FALSE, e.at)
      [] e.kind = "control"    -> OnControl(g, e.at)
      [] e.kind = "empty"      -> OnData(g, 0, FALSE)
      [] e.kind = "data"       -> OnData(g, 1, FALSE)

\* A connection ends with the first trip.
Watch(trace) == FoldLeft(LAMBDA g, e : IF g.trip = "none" THEN On(g, e) ELSE g, NewGuard(0), trace)

-----------------------------------------------------------------------------
(* What a limit of `burst` and `rate` promises: the reference *)

Among(trace, kinds, i, j) == Cardinality({k \in i..j : trace[k].kind \in kinds})

\* Some stretch of the trace holds more events than burst and rate allow.
Exceeds(trace, kinds, burst, rate) ==
    \E j \in DOMAIN trace : \E i \in 1..j :
        /\ trace[i].kind \in kinds /\ trace[j].kind \in kinds
        /\ Among(trace, kinds, i, j) > burst + rate * (trace[j].at - trace[i].at)

Resets == {"answered", "unanswered"}

RunsEmpty(trace) ==
    \E i, j \in DOMAIN trace :
        /\ \A k \in i..j : trace[k].kind \notin {"data"}
        /\ Among(trace, {"empty"}, i, j) > Limits.maxEmpty

\* The guard trips exactly when some limit is exceeded.
TripsRightly(trace) ==
    (Watch(trace).trip # "none") <=>
        /\ ~Limits.observeOnly
        /\ \/ Exceeds(trace, Resets, Limits.resetBurst, Limits.resetRate)
           \/ Exceeds(trace, {"unanswered"}, Limits.unansweredBurst, Limits.unansweredRate)
           \/ Exceeds(trace, {"control"}, Limits.controlBurst, Limits.controlRate)
           \/ RunsEmpty(trace)

\* The peak of a meter is a rate that some second or more of the trace reached.
Reached(trace, kinds, r) ==
    \/ r.events = 0
    \/ \E i, j \in DOMAIN trace :
        /\ i <= j /\ trace[j].at - trace[i].at <= r.during
        /\ Among(trace, kinds, i, j) >= r.events

PeakReached(trace, now) ==
    LET p == Peak(Watch(trace).resets, now)
    IN  p.during >= Second /\ Reached(trace, Resets, p)

=============================================================================
