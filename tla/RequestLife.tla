----------------------------- MODULE RequestLife ------------------------------
(***************************************************************************)
(* What the proxy promises about each request, whatever pool, health and   *)
(* connections do: it is tried at most twice, a second time only if it may *)
(* be repeated and the client has been told nothing; and it ends once, in  *)
(* a 502 only when every try it was entitled to has failed.                *)
(***************************************************************************)
EXTENDS Naturals

CONSTANTS Streams, Retryable

VARIABLES
    told,       (* How far the client has got with each request.             *)
    tries       (* How often each request was handed to a connection.        *)

vars == <<told, tries>>

Over == {"done", "502", "503", "aborted", "gave up"}

Allowed(s) == IF s \in Retryable THEN 2 ELSE 1

TypeOK ==
    /\ told \in [Streams -> {"idle", "waiting", "head"} \cup Over]
    /\ tries \in [Streams -> 0..2]

Init == told = [s \in Streams |-> "idle"] /\ tries = [s \in Streams |-> 0]

Moves(s, from, to) == told[s] \in from /\ told' = [told EXCEPT ![s] = to]

Ask(s) == Moves(s, {"idle"}, "waiting") /\ UNCHANGED tries

Try(s) ==
    /\ told[s] = "waiting" /\ tries[s] < Allowed(s)
    /\ tries' = [tries EXCEPT ![s] = @ + 1]
    /\ UNCHANGED told

\* A head, or a whole response, comes of a try.
Answer(s)  == tries[s] > 0 /\ UNCHANGED tries
              /\ (Moves(s, {"waiting"}, "head") \/ Moves(s, {"waiting", "head"}, "done"))

BadGateway(s)  == tries[s] = Allowed(s) /\ Moves(s, {"waiting"}, "502") /\ UNCHANGED tries
Unavailable(s) == Moves(s, {"waiting"}, "503") /\ UNCHANGED tries
Abort(s)       == tries[s] > 0 /\ Moves(s, {"waiting", "head"}, "aborted") /\ UNCHANGED tries
GiveUp(s)      == Moves(s, {"waiting", "head"}, "gave up") /\ UNCHANGED tries

Next == \E s \in Streams : \/ Ask(s) \/ Try(s) \/ Answer(s) \/ BadGateway(s)
                           \/ Unavailable(s) \/ Abort(s) \/ GiveUp(s)

Spec == Init /\ [][Next]_vars

-----------------------------------------------------------------------------
(* A request that must not be repeated goes to one backend at most, and the *)
(* client of one that may is not told 502 before both tries are spent       *)
(* (proxy.rs: IDEMPOTENT, MAX_ATTEMPTS).                                    *)
TriedAtMost ==
    \A s \in Streams : /\ tries[s] <= Allowed(s)
                       /\ told[s] = "502" => tries[s] = Allowed(s)
=============================================================================
