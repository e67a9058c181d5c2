---------------------------- MODULE AdmissionSync ----------------------------
(***************************************************************************)
(* Admission control on one client connection (conn.rs, ADR-0023): the     *)
(* shared budget moves at any time, the connection advertises it with      *)
(* SETTINGS_MAX_CONCURRENT_STREAMS, and may refuse a stream only under a   *)
(* limit the client has acknowledged.                                      *)
(*                                                                         *)
(* `sent`, `applied` and `acked` number the SETTINGS frames: they and the  *)
(* `n` of an ACK are for the properties, the code has only `outstanding`.  *)
(***************************************************************************)
EXTENDS Integers, Sequences, FiniteSets

CONSTANTS
    Streams,        (* Streams the client may open, each once.               *)
    Limits,         (* Values the shared budget takes.                       *)
    First,          (* The budget when the connection is accepted.           *)
    Ceiling,        (* stream_ceiling, the static limit.                     *)
    Assumed,        (* The limit the client assumes until it hears of one.   *)
    MaxWire         (* Bound: frames in flight from the client.              *)

ASSUME AdmissionAssumption ==
    /\ IsFiniteSet(Streams)
    /\ Limits \subseteq Nat /\ First \in Limits
    /\ Ceiling \in Nat /\ Assumed \in Nat
    /\ Assumed <= Ceiling /\ First <= Ceiling
    /\ MaxWire \in Nat

VARIABLES
    budget,             (* The shared AtomicU32.                             *)
    advertised,         (* advertised_streams.                               *)
    enforced,           (* enforced_streams = StreamTable::max_concurrent.   *)
    outstanding,        (* outstanding_settings.                             *)
    awake,              (* The task has handled a frame and not yet parked.  *)
    live, refused,      (* Streams in the table, streams it turned away.     *)
    ended,              (* Streams whose END_STREAM is on its way.           *)
    toC, fromC,         (* SETTINGS to the client; everything from it.       *)
    cLimit, cOpen, cUsed,   (* The client's limit and its streams.           *)
    sent, applied, acked

admission  == <<advertised, enforced, outstanding, sent>>
clientVars == <<cLimit, cOpen, cUsed, applied>>
vars == <<budget, admission, awake, live, refused, ended, toC, fromC, clientVars, acked>>

\* with_admission: the handshake SETTINGS carries `First`, and the table stays
\* at the ceiling until it is acknowledged.
Init ==
    /\ budget = First
    /\ advertised = First /\ enforced = Ceiling /\ outstanding = 1
    /\ awake = TRUE
    /\ live = {} /\ refused = {} /\ ended = {}
    /\ toC = <<First>> /\ fromC = <<>>
    /\ cLimit = Assumed /\ cOpen = {} /\ cUsed = {}
    /\ sent = 1 /\ applied = 0 /\ acked = 0

Message == [k : {"ACK"}, n : Nat] \cup [k : {"HEADERS", "RST"}, s : Streams] \cup [k : {"PING"}]

TypeOK ==
    /\ budget \in Limits
    /\ advertised \in Limits /\ enforced \in Nat /\ outstanding \in Nat
    /\ awake \in BOOLEAN
    /\ live \subseteq Streams /\ refused \subseteq Streams /\ ended \subseteq Streams
    /\ toC \in Seq(Limits) /\ fromC \in Seq(Message)
    /\ cLimit \in Nat /\ cOpen \subseteq Streams /\ cUsed \subseteq Streams
    /\ sent \in Nat /\ applied \in Nat /\ acked \in Nat

-----------------------------------------------------------------------------
(* The rest of the proxy, and the connection task. *)

\* Another connection's traffic moves the budget; nobody is woken.
SetBudget(b) ==
    /\ b # budget /\ budget' = b
    /\ UNCHANGED <<admission, awake, live, refused, ended, toC, fromC, clientVars, acked>>

\* sync_admission, once per pass of the loop.  Raising is applied at once, a
\* reduction waits for the ACK.  (Mutants: a reduction does not wait; the
\* frame is not counted as outstanding.)
Advertise(limit, more) ==
    /\ awake /\ awake' = FALSE
    /\ IF budget = advertised
       THEN UNCHANGED <<admission, toC>>
       ELSE /\ advertised' = budget
            /\ outstanding' = outstanding + more /\ sent' = sent + 1
            /\ enforced' = limit
            /\ toC' = Append(toC, budget)
    /\ UNCHANGED <<budget, live, refused, ended, fromC, clientVars, acked>>
Raised        == IF budget > enforced THEN budget ELSE enforced
SyncUncounted == Advertise(Raised, 0)
SyncAdmission == Advertise(Raised, 1)

\* The client's ACK: only with none of ours outstanding is it provably working
\* under the latest.  (Mutant: any ACK will do.)
Acknowledged(adopt) ==
    /\ outstanding' = IF outstanding > 0 THEN outstanding - 1 ELSE 0
    /\ enforced' = IF adopt THEN advertised ELSE enforced
    /\ UNCHANGED <<advertised, sent, live, refused>>
AnyAck  == Acknowledged(TRUE)
RecvAck == Acknowledged(outstanding <= 1)

\* open_peer.
OpenPeer(s, full) ==
    /\ IF full
       THEN refused' = refused \cup {s} /\ UNCHANGED live
       ELSE live' = live \cup {s} /\ UNCHANGED refused
    /\ UNCHANGED admission
RecvHeaders(s) == OpenPeer(s, Cardinality(live) >= enforced)

RecvRst(s) ==
    /\ live' = live \ {s}
    /\ UNCHANGED <<admission, refused>>

\* handle_frame: one frame from the client.
TakeFrame ==
    /\ fromC # <<>>
    /\ fromC' = Tail(fromC) /\ awake' = TRUE
    /\ LET f == Head(fromC) IN
        \/ f.k = "ACK" /\ RecvAck /\ acked' = f.n
        \/ f.k = "HEADERS" /\ RecvHeaders(f.s) /\ UNCHANGED acked
        \/ f.k = "RST" /\ RecvRst(f.s) /\ UNCHANGED acked
        \/ f.k = "PING" /\ UNCHANGED <<admission, live, refused, acked>>
    /\ UNCHANGED <<budget, ended, toC, clientVars>>

\* A stream retires when its END_STREAM or RST_STREAM is queued.
EndStream(s) ==
    /\ s \in live
    /\ live' = live \ {s} /\ ended' = ended \cup {s} /\ awake' = TRUE
    /\ UNCHANGED <<budget, admission, refused, toC, fromC, clientVars, acked>>

-----------------------------------------------------------------------------
(* A client that obeys RFC 9113, and may be slow about it. *)

ClientSettings ==
    /\ toC # <<>> /\ Len(fromC) < MaxWire
    /\ cLimit' = Head(toC) /\ toC' = Tail(toC)
    /\ applied' = applied + 1
    /\ fromC' = Append(fromC, [k |-> "ACK", n |-> applied + 1])
    /\ UNCHANGED <<budget, admission, awake, live, refused, ended, cOpen, cUsed, acked>>

ClientOpen(s) ==
    /\ s \notin cUsed /\ Cardinality(cOpen) < cLimit /\ Len(fromC) < MaxWire
    /\ cOpen' = cOpen \cup {s} /\ cUsed' = cUsed \cup {s}
    /\ fromC' = Append(fromC, [k |-> "HEADERS", s |-> s])
    /\ UNCHANGED <<budget, admission, awake, live, refused, ended, toC, cLimit,
                   applied, acked>>

ClientReset(s) ==
    /\ s \in cOpen /\ Len(fromC) < MaxWire
    /\ cOpen' = cOpen \ {s}
    /\ fromC' = Append(fromC, [k |-> "RST", s |-> s])
    /\ UNCHANGED <<budget, admission, awake, live, refused, ended, toC, cLimit,
                   cUsed, applied, acked>>

ClientSeesEnd(s) ==
    /\ s \in ended
    /\ ended' = ended \ {s} /\ cOpen' = cOpen \ {s}
    /\ UNCHANGED <<budget, admission, awake, live, refused, toC, fromC, cLimit,
                   cUsed, applied, acked>>

ClientPing ==
    /\ fromC = <<>>
    /\ fromC' = <<[k |-> "PING"]>>
    /\ UNCHANGED <<budget, admission, awake, live, refused, ended, toC, clientVars,
                   acked>>

Next ==
    \/ \E b \in Limits : SetBudget(b)
    \/ SyncAdmission \/ TakeFrame \/ ClientSettings \/ ClientPing
    \/ \E s \in Streams : EndStream(s) \/ ClientOpen(s) \/ ClientReset(s) \/ ClientSeesEnd(s)

Spec == Init /\ [][Next]_vars

-----------------------------------------------------------------------------
(* Properties. *)

IsAck(i) == i \in DOMAIN fromC /\ fromC[i].k = "ACK"

\* `outstanding` counts the SETTINGS the client has not been heard to apply, and
\* the ACKs on the wire are the answers to those it has applied, in order.
OutstandingExact ==
    /\ outstanding = sent - acked
    /\ applied = sent - Len(toC) /\ acked <= applied
    /\ \A i \in DOMAIN fromC : IsAck(i) => fromC[i].n \in (acked + 1)..applied
    /\ \A i, j \in DOMAIN fromC : IsAck(i) /\ IsAck(j) /\ i < j => fromC[i].n < fromC[j].n
    /\ \A n \in (acked + 1)..applied : \E i \in DOMAIN fromC : IsAck(i) /\ fromC[i].n = n

\* What was advertised last is what the client will be left with.
LastWord == advertised = IF toC = <<>> THEN cLimit ELSE toC[Len(toC)]

\* The limit enforced covers every limit the client may be working under: the
\* one it has applied, and each one on the wire (sync_admission: "the peer is
\* entitled to keep opening streams under the value it last confirmed").
EnforcedCovers ==
    /\ cLimit <= enforced
    /\ \A i \in DOMAIN toC : toC[i] <= enforced

\* A client that stays within the limits it has applied is never refused,
\* however its HEADERS cross our SETTINGS and our END_STREAMs (ADR-0023: a
\* refusal is "refusing it for not yet having heard the rule").
NeverRefused == refused = {}

\* The handshake of limits: why an ACK with none outstanding proves anything.
LimitsInv == TypeOK /\ OutstandingExact /\ LastWord /\ EnforcedCovers

\* Frame i on the wire opens, or resets, stream s.
Carries(k, s, i) == i \in DOMAIN fromC /\ fromC[i].k = k /\ fromC[i].s = s

\* What the table can hold once the first i frames on the wire are handled.
TableAfter(i) ==
    {s \in Streams : /\ s \in live \/ \E j \in 1..i : Carries("HEADERS", s, j)
                     /\ \A j \in 1..i : ~Carries("RST", s, j)}

\* A stream is opened once, before it is reset or ended; what the table will
\* hold, the client still counts as open.
StreamsOnce ==
    /\ live \cup ended \cup cOpen \subseteq cUsed /\ live \cap ended = {}
    /\ \A s \in Streams, i \in DOMAIN fromC :
        /\ Carries("HEADERS", s, i) =>
              /\ s \in cUsed /\ s \notin live \cup ended
              /\ \A j \in DOMAIN fromC : Carries("HEADERS", s, j) => j = i
        /\ Carries("RST", s, i) =>
              /\ s \in cUsed
              /\ \A j \in DOMAIN fromC : Carries("HEADERS", s, j) => j < i
    /\ TableAfter(Len(fromC)) \subseteq cOpen

\* Each HEADERS on the wire finds room under the limit enforced, and, unless an
\* ACK follows it, under the limit the client has applied.
OpensFit ==
    \A i \in DOMAIN fromC : fromC[i].k = "HEADERS" =>
        /\ Cardinality(TableAfter(i)) <= enforced
        /\ (\A j \in DOMAIN fromC : IsAck(j) => j < i) => Cardinality(TableAfter(i)) <= cLimit

\* The inductive invariant.
IInv == LimitsInv /\ StreamsOnce /\ OpensFit /\ NeverRefused

\* The connection and its client work under the budget.
Settled == enforced = budget /\ cLimit = budget
=============================================================================
