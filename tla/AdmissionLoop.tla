---------------------------- MODULE AdmissionLoop ----------------------------
(***************************************************************************)
(* The admission control loop (Shared::recompute_admission, run every      *)
(* ADMISSION_PERIOD by the daemon) over AdmissionSync: where the budget    *)
(* that each client connection advertises comes from.  The loop steers the *)
(* total, halves it on distress, and shares it between the connections.    *)
(* One of those connections is AdmissionSync's; of the others the loop     *)
(* sees only how many there are.                                           *)
(***************************************************************************)
EXTENDS AdmissionSync

CONSTANTS
    MinAdmit, MinTotal, MinStep,    (* MIN_ADMIT, MIN_TOTAL, MIN_STEP.       *)
    Fraction,       (* The step is a Fraction-th of the total: 16.           *)
    Unbounded,      (* u64::MAX, where total and ssthresh start.             *)
    MaxConns,       (* Bound: client connections.                            *)
    MaxEvents       (* Bound: arrivals, departures, sheds, turns of `near`.  *)

\* The last conjunct is the code's own demand: u64::clamp panics unless
\* MIN_TOTAL <= ceiling_total, and the panic would end the loop's task.
ASSUME LoopAssumption ==
    /\ MinAdmit \in Nat /\ MinTotal \in Nat /\ MinStep \in Nat
    /\ Fraction \in Nat \ {0} /\ MaxConns \in Nat \ {0} /\ MaxEvents \in Nat
    /\ MinAdmit <= Ceiling /\ Limits = MinAdmit..Ceiling
    /\ Unbounded \in Nat /\ \A n \in 1..MaxConns : Ceiling * n <= Unbounded
    /\ 1 <= MinTotal /\ MinTotal <= Ceiling

VARIABLES
    total, ssthresh,    (* admit_total and ssthresh.                         *)
    conns,              (* client_conns.                                     *)
    shed,               (* shed_total has moved since last_shed.             *)
    near,               (* The pool's near_shed_limit.                       *)
    events

loopVars == <<total, ssthresh, conns, shed, near, events>>
allVars  == <<vars, loopVars>>

LoopInit ==
    /\ Init
    /\ total = Unbounded /\ ssthresh = Unbounded
    /\ conns = 1 /\ shed = FALSE /\ near = FALSE /\ events = 0

LoopTypeOK ==
    /\ total \in Nat /\ ssthresh \in Nat /\ conns \in 1..MaxConns
    /\ shed \in BOOLEAN /\ near \in BOOLEAN /\ events \in 0..MaxEvents

-----------------------------------------------------------------------------
Least(a, b)        == IF a <= b THEN a ELSE b
Most(a, b)         == IF a >= b THEN a ELSE b
Clamp(x, low, top) == Most(low, Least(x, top))

\* The total from which a sample starts, and the step it takes upwards: twice
\* the total below the last level known to be servable, a fraction above it.
\* (Mutant: the step has no floor.)
Current      == Clamp(total, MinTotal, Ceiling * conns)
StepUnfloored(t) == t \div Fraction
Step(t)      == Most(t \div Fraction, MinStep)
Half(t)      == Most(t \div 2, MinTotal)
Grown(t)     == Least(IF t < ssthresh THEN t * 2 ELSE t + Step(t), Ceiling * conns)

\* One connection's share.  (Mutant: it has no floor.)
ShareUnfloored(t) == Least(t \div conns, Ceiling)
Share(t)          == Clamp(t \div conns, MinAdmit, Ceiling)

\* recompute_admission.
Sample ==
    LET distressed == shed \/ near
        next == IF distressed THEN Half(Current) ELSE Grown(Current)
    IN  /\ total' = next
        /\ ssthresh' = IF distressed THEN next ELSE ssthresh
        /\ shed' = FALSE
        /\ budget' = Share(next)
        /\ UNCHANGED <<admission, awake, live, refused, ended, toC, fromC, clientVars, acked,
                       conns, near, events>>

\* What the loop samples: client connections come and go, an upstream queue is
\* full and sheds, one crosses the warning mark.
Happens == events < MaxEvents /\ events' = events + 1 /\ UNCHANGED <<vars, total, ssthresh>>
Arrive  == Happens /\ conns < MaxConns /\ conns' = conns + 1 /\ UNCHANGED <<shed, near>>
Depart  == Happens /\ conns > 1 /\ conns' = conns - 1 /\ UNCHANGED <<shed, near>>
Shed    == Happens /\ ~shed /\ shed' = TRUE /\ UNCHANGED <<conns, near>>
Near    == Happens /\ near' = ~near /\ UNCHANGED <<conns, shed>>

\* The connection's own steps are AdmissionSync's.
Connection ==
    /\ \/ SyncAdmission \/ TakeFrame \/ ClientSettings \/ ClientPing
       \/ \E s \in Streams : EndStream(s) \/ ClientOpen(s) \/ ClientReset(s) \/ ClientSeesEnd(s)
    /\ UNCHANGED loopVars

LoopNext == Sample \/ Arrive \/ Depart \/ Shed \/ Near \/ Connection

LoopSpec == LoopInit /\ [][LoopNext]_allVars

\* The interval timer fires for ever; the connection's task runs when it has
\* something to do, the client reads and answers, and is not silent for ever: a
\* parked task does not see the budget.
LoopFairSpec ==
    LoopSpec /\ WF_allVars(Sample) /\ WF_vars(SyncAdmission) /\ WF_vars(TakeFrame)
             /\ WF_vars(ClientSettings) /\ WF_vars(ClientPing)

-----------------------------------------------------------------------------
(* Properties. *)

\* Whatever the loop does is what AdmissionSync allows its budget to do: the
\* share stays between MIN_ADMIT and the ceiling, so the enforced limit may be
\* the table's static ceiling until the first ACK (with_admission).
ImplementsSync == Spec

\* Recovery is "a property of the load rather than of how long ago something
\* went wrong" (recompute_admission): once the load rests the total climbs back
\* to the ceiling, or falls to its floor under lasting distress, whatever the
\* churn left behind, and every client comes to work under its share.
Recovers ==
    <>[](/\ total = IF near THEN MinTotal ELSE Ceiling * conns
         /\ Settled /\ budget = Share(total))
=============================================================================
