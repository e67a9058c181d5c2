-------------------------------- MODULE Health --------------------------------
(***************************************************************************)
(* One backend's entry in the health table (health.rs), as operators.  A   *)
(* backend without an entry behaves as one with NewEntry.  The lengths of  *)
(* ejections (backoff) are left out: an ejection may expire at any time.   *)
(* `failures` stops at EjectAfter, above which nothing depends on it.      *)
(***************************************************************************)
EXTENDS Naturals

CONSTANT EjectAfter     (* Consecutive failures that eject a backend.        *)

Entry == [failures : 0..EjectAfter,
          state    : {"healthy", "ejected", "half-open"},
          trial    : BOOLEAN]

NewEntry == [failures |-> 0, state |-> "healthy", trial |-> FALSE]

\* A failed trial ejects again; otherwise only a healthy backend is ejected.
Failure(e) ==
    LET run == IF e.failures < EjectAfter THEN e.failures + 1 ELSE EjectAfter IN
    IF e.trial
    THEN [e EXCEPT !.trial = FALSE, !.state = "ejected"]
    ELSE [e EXCEPT !.failures = run,
                   !.state = IF run = EjectAfter /\ @ = "healthy" THEN "ejected" ELSE @]

Success(e) == NewEntry

Expire(e) == [e EXCEPT !.state = "half-open"]

\* Offering is not sending: the trial is claimed by ClaimTrial.
Offered(e) == e.state = "healthy" \/ (e.state = "half-open" /\ ~e.trial)

\* Health::eligible fails open.
Eligible(entry, candidates) ==
    LET offered == {b \in candidates : Offered(entry[b])} IN
    IF offered = {} THEN candidates ELSE offered

ClaimTrial(e) == IF e.state = "half-open" THEN [e EXCEPT !.trial = TRUE] ELSE e
=============================================================================
