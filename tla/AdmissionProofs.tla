---------------------------- MODULE AdmissionProofs ----------------------------
(***************************************************************************)
(* For every number of streams, every set of limits and every history of   *)
(* the budget: the connection enforces no limit the client may not have    *)
(* heard of yet, and refuses no stream of a client that obeys the limits   *)
(* it has heard of.  First the handshake of limits, which does not depend  *)
(* on the streams; then, on it, the streams; last the control loop, which  *)
(* only ever moves the budget as AdmissionSync lets it move, so that what  *)
(* is proved of AdmissionSync holds of every connection under it.          *)
(***************************************************************************)
EXTENDS AdmissionLoop, FiniteSetTheorems, TLAPS

LEMMA InitLimits == Init => LimitsInv
<1> SUFFICES ASSUME Init PROVE LimitsInv
    OBVIOUS
<1> USE AdmissionAssumption DEF Init
<1>1. TypeOK
    BY DEF TypeOK
<1>2. OutstandingExact /\ LastWord /\ EnforcedCovers
    BY DEF OutstandingExact, LastWord, EnforcedCovers, IsAck
<1> QED BY <1>1, <1>2 DEF LimitsInv

\* An action that leaves the handshake of limits alone preserves its invariant.
handshake == <<advertised, enforced, outstanding, sent, toC, fromC, cLimit, applied, acked>>

LEMMA Untouched ==
    ASSUME LimitsInv, TypeOK', UNCHANGED handshake
    PROVE  LimitsInv'
BY DEF LimitsInv, OutstandingExact, LastWord, EnforcedCovers, IsAck, handshake

LEMMA SyncLimits == LimitsInv /\ SyncAdmission => LimitsInv'
<1> SUFFICES ASSUME LimitsInv, SyncAdmission PROVE LimitsInv'
    OBVIOUS
<1> USE DEF LimitsInv
<1>1. TypeOK'
    <2> USE DEF TypeOK, SyncAdmission, Advertise, Raised, admission, clientVars
    <2>1. budget \in Nat /\ enforced \in Nat /\ outstanding \in Nat /\ sent \in Nat
        BY AdmissionAssumption
    <2>2. enforced' \in Nat /\ outstanding' \in Nat /\ sent' \in Nat /\ advertised' \in Limits
        BY <2>1
    <2>3. toC' \in Seq(Limits)
        <3>1. toC \in Seq(Limits) /\ budget \in Limits /\ (toC' = toC \/ toC' = Append(toC, budget))
            OBVIOUS
        <3> QED BY <3>1
    <2> QED BY <2>2, <2>3
<1>2. CASE budget = advertised
    BY <1>1, <1>2, Untouched DEF SyncAdmission, Advertise, admission, clientVars, handshake
<1>3. CASE budget # advertised
    <2> USE <1>3 DEF SyncAdmission, Advertise, Raised, admission, clientVars, TypeOK
    <2>1. /\ toC \in Seq(Limits) /\ budget \in Limits /\ budget \in Nat /\ enforced \in Nat
          /\ toC' = Append(toC, budget)
        BY AdmissionAssumption
    <2>2. OutstandingExact'
        BY <2>1 DEF OutstandingExact, IsAck
    <2>3. LastWord'
        BY <2>1 DEF LastWord
    <2>4. EnforcedCovers'
        <3>1. enforced <= enforced' /\ budget <= enforced' /\ enforced' \in Nat
            BY <2>1
        <3>2. cLimit' <= enforced'
            BY <3>1, <2>1 DEF EnforcedCovers
        <3>3. ASSUME NEW i \in DOMAIN toC' PROVE toC'[i] <= enforced'
            <4>1. CASE i = Len(toC) + 1
                BY <4>1, <3>1, <2>1
            <4>2. CASE i \in DOMAIN toC
                <5>1. toC'[i] = toC[i] /\ toC[i] \in Nat /\ toC[i] <= enforced
                    <6>1. toC[i] \in Limits /\ toC'[i] = toC[i]
                        BY <4>2, <2>1
                    <6>2. toC[i] <= enforced
                        BY <4>2 DEF EnforcedCovers
                    <6> QED BY <6>1, <6>2, AdmissionAssumption
                <5> QED BY <5>1, <3>1, <2>1
            <4> QED BY <4>1, <4>2, <2>1
        <3> QED BY <3>2, <3>3 DEF EnforcedCovers
    <2> QED BY <1>1, <2>2, <2>3, <2>4
<1> QED BY <1>2, <1>3

\* What Tail does to the ACKs on the wire.
LEMMA TailAt ==
    ASSUME NEW S, NEW q \in Seq(S), q # <<>>
    PROVE  /\ Len(Tail(q)) = Len(q) - 1 /\ Tail(q) \in Seq(S)
           /\ \A i \in 1..Len(Tail(q)) : Tail(q)[i] = q[i + 1]
OBVIOUS

LEMMA AckLimits ==
    ASSUME LimitsInv, fromC # <<>>, fromC' = Tail(fromC), Head(fromC).k = "ACK", TypeOK',
           RecvAck, acked' = Head(fromC).n, UNCHANGED <<toC, clientVars>>
    PROVE  LimitsInv'
<1> USE DEF LimitsInv, RecvAck, Acknowledged, clientVars
<1>0. /\ fromC \in Seq(Message) /\ toC \in Seq(Limits)
      /\ acked \in Nat /\ applied \in Nat /\ sent \in Nat /\ outstanding \in Nat
    BY DEF TypeOK
<1>1. IsAck(1) /\ fromC[1].n = acked' /\ 1 \in DOMAIN fromC
    BY <1>0 DEF IsAck
<1>2. acked' = acked + 1
    <2>1. acked' \in (acked + 1)..applied
        BY <1>1 DEF OutstandingExact
    <2>2. PICK i \in DOMAIN fromC : IsAck(i) /\ fromC[i].n = acked + 1
        <3>1. acked + 1 \in (acked + 1)..applied
            BY <2>1, <1>0
        <3>2. \A n \in (acked + 1)..applied : \E i \in DOMAIN fromC : IsAck(i) /\ fromC[i].n = n
            BY DEF OutstandingExact
        <3> QED BY <3>1, <3>2, Zenon
    <2>3. i = 1 \/ fromC[1].n < fromC[i].n
        BY <2>2, <1>1, <1>0 DEF OutstandingExact
    <2> QED BY <2>1, <2>2, <2>3, <1>1, <1>0
<1>3. /\ Len(Tail(fromC)) = Len(fromC) - 1
      /\ \A i \in DOMAIN fromC' : i + 1 \in DOMAIN fromC /\ fromC'[i] = fromC[i + 1]
      /\ DOMAIN fromC' = 1..(Len(fromC) - 1)
    BY <1>0, TailAt
<1>4. \A i \in DOMAIN fromC' : IsAck(i)' <=> IsAck(i + 1)
    BY <1>3 DEF IsAck
<1>5. OutstandingExact'
    <2>1. /\ outstanding' = sent' - acked'
          /\ applied' = sent' - Len(toC') /\ acked' <= applied'
        BY <1>0, <1>1, <1>2 DEF OutstandingExact
    <2>2. ASSUME NEW i \in DOMAIN fromC', IsAck(i)'
          PROVE  fromC'[i].n \in (acked' + 1)..applied'
        <3>1. IsAck(i + 1) /\ 1 < i + 1 /\ i + 1 \in DOMAIN fromC
            BY <2>2, <1>3, <1>4
        <3>2. fromC[1].n < fromC[i + 1].n /\ fromC[i + 1].n \in (acked + 1)..applied
            BY <3>1, <1>1 DEF OutstandingExact
        <3> QED BY <3>2, <1>0, <1>1, <1>2, <1>3
    <2>3. ASSUME NEW i \in DOMAIN fromC', NEW j \in DOMAIN fromC', IsAck(i)', IsAck(j)', i < j
          PROVE  fromC'[i].n < fromC'[j].n
        BY <2>3, <1>3, <1>4 DEF OutstandingExact
    <2>4. ASSUME NEW n \in (acked' + 1)..applied'
          PROVE  \E i \in DOMAIN fromC' : IsAck(i)' /\ fromC'[i].n = n
        <3>1. n \in (acked + 1)..applied /\ n # acked'
            BY <1>2, <1>0
        <3>2. PICK i \in DOMAIN fromC : IsAck(i) /\ fromC[i].n = n
            BY <3>1 DEF OutstandingExact
        <3>3. i # 1 /\ i \in 1..Len(fromC)
            BY <3>1, <3>2, <1>1, <1>0
        <3>4. i - 1 \in DOMAIN fromC' /\ i = (i - 1) + 1
            BY <3>3, <1>3, <1>0
        <3> QED BY <3>2, <3>4, <1>3, <1>4
    <2> QED BY <2>1, <2>2, <2>3, <2>4 DEF OutstandingExact
<1>6. LastWord'
    BY DEF LastWord
<1>7. EnforcedCovers'
    <2>1. CASE outstanding <= 1
        <3>1. toC = <<>>
            <4>1. sent = acked' /\ acked' <= applied /\ applied = sent - Len(toC) /\ Len(toC) \in Nat
                BY <2>1, <1>0, <1>1, <1>2 DEF OutstandingExact
            <4> QED BY <4>1, <1>0
        <3>2. enforced' = advertised /\ advertised = cLimit
            BY <2>1, <3>1 DEF LastWord
        <3> QED BY <3>1, <3>2 DEF EnforcedCovers, TypeOK
    <2>2. CASE ~(outstanding <= 1)
        BY <2>2 DEF EnforcedCovers
    <2> QED BY <2>1, <2>2
<1> QED BY <1>5, <1>6, <1>7

\* A frame that is no ACK leaves the wire, or joins it.
LEMMA OtherTaken ==
    ASSUME LimitsInv, TypeOK', fromC # <<>>, fromC' = Tail(fromC), Head(fromC).k # "ACK",
           UNCHANGED <<admission, toC, cLimit, applied, acked>>
    PROVE  LimitsInv'
<1> USE DEF LimitsInv, admission
<1>0. fromC \in Seq(Message)
    BY DEF TypeOK
<1>1. /\ \A i \in DOMAIN fromC' : i + 1 \in DOMAIN fromC /\ fromC'[i] = fromC[i + 1]
      /\ \A i \in DOMAIN fromC : i = 1 \/ (i - 1 \in DOMAIN fromC' /\ i = (i - 1) + 1)
      /\ ~IsAck(1)
    BY <1>0, TailAt DEF IsAck
<1>2. \A i \in DOMAIN fromC' : IsAck(i)' <=> IsAck(i + 1)
    BY <1>1 DEF IsAck
<1>3. OutstandingExact'
    <2>1. ASSUME NEW i \in DOMAIN fromC', IsAck(i)' PROVE fromC'[i].n \in (acked' + 1)..applied'
        BY <2>1, <1>1, <1>2 DEF OutstandingExact
    <2>2. ASSUME NEW i \in DOMAIN fromC', NEW j \in DOMAIN fromC', IsAck(i)', IsAck(j)', i < j
          PROVE  fromC'[i].n < fromC'[j].n
        BY <2>2, <1>0, <1>1, <1>2 DEF OutstandingExact
    <2>3. ASSUME NEW n \in (acked' + 1)..applied'
          PROVE  \E i \in DOMAIN fromC' : IsAck(i)' /\ fromC'[i].n = n
        <3>1. PICK i \in DOMAIN fromC : IsAck(i) /\ fromC[i].n = n
            BY DEF OutstandingExact
        <3>2. i - 1 \in DOMAIN fromC' /\ i = (i - 1) + 1
            BY <3>1, <1>1
        <3> QED BY <3>1, <3>2, <1>1, <1>2
    <2> QED BY <2>1, <2>2, <2>3 DEF OutstandingExact
<1>4. LastWord' /\ EnforcedCovers'
    BY DEF LastWord, EnforcedCovers
<1> QED BY <1>3, <1>4

LEMMA OtherSent ==
    ASSUME LimitsInv, TypeOK', NEW f \in Message, fromC' = Append(fromC, f), f.k # "ACK",
           UNCHANGED <<admission, toC, cLimit, applied, acked>>
    PROVE  LimitsInv'
<1> USE DEF LimitsInv, admission
<1>0. fromC \in Seq(Message)
    BY DEF TypeOK
<1>1. /\ DOMAIN fromC \subseteq DOMAIN fromC'
      /\ \A i \in DOMAIN fromC : fromC'[i] = fromC[i]
      /\ \A i \in DOMAIN fromC' : i \in DOMAIN fromC \/ fromC'[i] = f
    BY <1>0
<1>2. \A i \in DOMAIN fromC' : IsAck(i)' => i \in DOMAIN fromC /\ IsAck(i)
    BY <1>1 DEF IsAck
<1>3. \A i \in DOMAIN fromC : IsAck(i) => IsAck(i)'
    BY <1>1 DEF IsAck
<1>4. OutstandingExact'
    BY <1>1, <1>2, <1>3 DEF OutstandingExact
<1>5. LastWord' /\ EnforcedCovers'
    BY DEF LastWord, EnforcedCovers
<1> QED BY <1>4, <1>5

LEMMA ClientSettingsLimits == LimitsInv /\ ClientSettings => LimitsInv'
<1> SUFFICES ASSUME LimitsInv, ClientSettings PROVE LimitsInv'
    OBVIOUS
<1> USE DEF LimitsInv, ClientSettings, admission
<1>0. /\ fromC \in Seq(Message) /\ toC \in Seq(Limits) /\ toC # <<>>
      /\ acked \in Nat /\ applied \in Nat /\ sent \in Nat /\ Limits \subseteq Nat
    BY AdmissionAssumption DEF TypeOK
<1> DEFINE ack == [k |-> "ACK", n |-> applied + 1]
<1>1. ack \in Message /\ ack.k = "ACK" /\ ack.n = applied + 1
    BY <1>0 DEF Message
<1>2. TypeOK'
    <2>1. fromC' \in Seq(Message)
        BY <1>0, <1>1
    <2>2. toC' \in Seq(Limits)
        BY <1>0, TailAt
    <2>3. 1 \in DOMAIN toC /\ cLimit' = toC[1]
        BY <1>0
    <2>4. cLimit' \in Nat
        <3>1. toC[1] \in Limits
            BY <1>0, <2>3
        <3> HIDE DEF ClientSettings
        <3> QED BY <3>1, <2>3, <1>0
    <2>5. applied' \in Nat
        BY <1>0
    <2> QED BY <2>1, <2>2, <2>4, <2>5 DEF TypeOK
<1>3. /\ Len(toC') = Len(toC) - 1 /\ Len(toC) \in Nat /\ Len(toC) > 0
      /\ \A i \in DOMAIN toC' : i + 1 \in DOMAIN toC /\ toC'[i] = toC[i + 1]
    BY <1>0, TailAt
<1>4. /\ \A i \in DOMAIN fromC : i \in DOMAIN fromC' /\ fromC'[i] = fromC[i] /\ i < Len(fromC) + 1
      /\ Len(fromC) + 1 \in DOMAIN fromC' /\ fromC'[Len(fromC) + 1] = ack
      /\ \A i \in DOMAIN fromC' : i \in DOMAIN fromC \/ i = Len(fromC) + 1
    BY <1>0, <1>1
<1>5. /\ \A i \in DOMAIN fromC : IsAck(i)' <=> IsAck(i)
      /\ \A i \in DOMAIN fromC' : i = Len(fromC) + 1 => IsAck(i)'
    BY <1>1, <1>4 DEF IsAck
<1>6. OutstandingExact'
    <2>1. outstanding' = sent' - acked' /\ applied' = sent' - Len(toC') /\ acked' <= applied'
        BY <1>0, <1>3 DEF OutstandingExact
    <2>2. ASSUME NEW i \in DOMAIN fromC', IsAck(i)' PROVE fromC'[i].n \in (acked' + 1)..applied'
        <3>1. CASE i \in DOMAIN fromC
            <4>1. fromC[i].n \in (acked + 1)..applied
                BY <2>2, <3>1, <1>5 DEF OutstandingExact
            <4> QED BY <4>1, <3>1, <1>0, <1>4
        <3>2. CASE i = Len(fromC) + 1
            BY <3>2, <1>0, <1>1, <1>4 DEF OutstandingExact
        <3> QED BY <3>1, <3>2, <1>4
    <2>3. ASSUME NEW i \in DOMAIN fromC', NEW j \in DOMAIN fromC', IsAck(i)', IsAck(j)', i < j
          PROVE  fromC'[i].n < fromC'[j].n
        <3>1. i \in DOMAIN fromC
            BY <2>3, <1>0, <1>4
        <3>2. fromC'[i] = fromC[i] /\ fromC[i].n \in (acked + 1)..applied
            BY <2>3, <3>1, <1>4, <1>5 DEF OutstandingExact
        <3>3. CASE j \in DOMAIN fromC
            BY <2>3, <3>1, <3>2, <3>3, <1>4, <1>5 DEF OutstandingExact
        <3>4. CASE j = Len(fromC) + 1
            BY <3>2, <3>4, <1>0, <1>1, <1>4
        <3> QED BY <3>3, <3>4, <1>4
    <2>4. ASSUME NEW n \in (acked' + 1)..applied'
          PROVE  \E i \in DOMAIN fromC' : IsAck(i)' /\ fromC'[i].n = n
        <3>1. CASE n \in (acked + 1)..applied
            <4>1. PICK i \in DOMAIN fromC : IsAck(i) /\ fromC[i].n = n
                BY <3>1 DEF OutstandingExact
            <4> QED BY <4>1, <1>4, <1>5
        <3>2. CASE n = applied + 1
            BY <3>2, <1>1, <1>4, <1>5
        <3> QED BY <3>1, <3>2, <1>0
    <2> QED BY <2>1, <2>2, <2>3, <2>4, SMTT(30) DEF OutstandingExact
<1>7. LastWord'
    <2>1. CASE toC' = <<>>
        BY <2>1, <1>0, <1>3 DEF LastWord
    <2>2. CASE toC' # <<>>
        <3>1. Len(toC') \in DOMAIN toC' /\ Len(toC') + 1 = Len(toC)
            BY <2>2, <1>0, <1>3
        <3> QED BY <2>2, <3>1, <1>0, <1>3 DEF LastWord
    <2> QED BY <2>1, <2>2
<1>8. EnforcedCovers'
    BY <1>0, <1>3, SMTT(30) DEF EnforcedCovers
<1> QED BY <1>2, <1>6, <1>7, <1>8

LEMMA TakeFrameLimits == LimitsInv /\ TakeFrame => LimitsInv'
<1> SUFFICES ASSUME LimitsInv, TakeFrame PROVE LimitsInv'
    OBVIOUS
<1> DEFINE f == Head(fromC)
<1>0. fromC \in Seq(Message) /\ fromC # <<>> /\ fromC' = Tail(fromC) /\ f \in Message
    BY DEF LimitsInv, TypeOK, TakeFrame
<1>1. CASE f.k = "ACK" /\ RecvAck /\ acked' = f.n
    <2>1. f.n \in Nat
        BY <1>0, <1>1 DEF Message
    <2>2. TypeOK'
        BY <1>0, <1>1, <2>1, AdmissionAssumption
        DEF LimitsInv, TypeOK, TakeFrame, RecvAck, Acknowledged, clientVars
    <2> QED BY <1>0, <1>1, <2>2, AckLimits DEF TakeFrame, clientVars
<1>2. CASE f.k = "HEADERS" /\ RecvHeaders(f.s) /\ UNCHANGED acked
    <2>1. f.s \in Streams
        BY <1>0, <1>2 DEF Message
    <2>2. TypeOK'
        BY <1>0, <1>2, <2>1
        DEF LimitsInv, TypeOK, TakeFrame, RecvHeaders, OpenPeer, admission, clientVars
    <2> QED BY <1>0, <1>2, <2>2, OtherTaken
            DEF TakeFrame, RecvHeaders, OpenPeer, admission, clientVars
<1>3. CASE f.k = "RST" /\ RecvRst(f.s) /\ UNCHANGED acked
    <2>1. TypeOK'
        BY <1>0, <1>3 DEF LimitsInv, TypeOK, TakeFrame, RecvRst, admission, clientVars
    <2> QED BY <1>0, <1>3, <2>1, OtherTaken DEF TakeFrame, RecvRst, admission, clientVars
<1>4. CASE f.k = "PING" /\ UNCHANGED <<admission, live, refused, acked>>
    <2>1. TypeOK'
        BY <1>0, <1>4 DEF LimitsInv, TypeOK, TakeFrame, admission, clientVars
    <2> QED BY <1>0, <1>4, <2>1, OtherTaken DEF TakeFrame, admission, clientVars
<1> QED BY <1>1, <1>2, <1>3, <1>4 DEF TakeFrame

LEMMA NextLimits == LimitsInv /\ [Next]_vars => LimitsInv'
<1> SUFFICES ASSUME LimitsInv, [Next]_vars PROVE LimitsInv'
    OBVIOUS
<1>1. CASE UNCHANGED vars
    <2>1. TypeOK'
        BY <1>1 DEF LimitsInv, TypeOK, vars, admission, clientVars
    <2> QED BY <1>1, <2>1, Untouched DEF vars, handshake, admission, clientVars
<1>2. ASSUME NEW b \in Limits, SetBudget(b) PROVE LimitsInv'
    <2>1. TypeOK'
        BY <1>2 DEF LimitsInv, TypeOK, SetBudget, admission, clientVars
    <2> QED BY <1>2, <2>1, Untouched DEF SetBudget, handshake, admission, clientVars
<1>3. CASE SyncAdmission
    BY <1>3, SyncLimits
<1>4. CASE TakeFrame
    BY <1>4, TakeFrameLimits
<1>5. CASE ClientSettings
    BY <1>5, ClientSettingsLimits
<1>6. CASE ClientPing
    <2>1. [k |-> "PING"] \in Message /\ [k |-> "PING"].k # "ACK"
        BY DEF Message
    <2>2. TypeOK' /\ fromC' = Append(fromC, [k |-> "PING"])
        BY <1>6, <2>1 DEF LimitsInv, TypeOK, ClientPing, admission, clientVars
    <2> QED BY <1>6, <2>1, <2>2, OtherSent DEF ClientPing, clientVars
<1>7. ASSUME NEW s \in Streams, EndStream(s) PROVE LimitsInv'
    <2>1. TypeOK'
        BY <1>7 DEF LimitsInv, TypeOK, EndStream, admission, clientVars
    <2> QED BY <1>7, <2>1, Untouched DEF EndStream, handshake, admission, clientVars
<1>8. ASSUME NEW s \in Streams, ClientOpen(s) PROVE LimitsInv'
    <2>1. [k |-> "HEADERS", s |-> s] \in Message /\ [k |-> "HEADERS", s |-> s].k # "ACK"
        BY DEF Message
    <2>2. TypeOK'
        BY <1>8, <2>1 DEF LimitsInv, TypeOK, ClientOpen, admission
    <2> QED BY <1>8, <2>1, <2>2, OtherSent DEF ClientOpen
<1>9. ASSUME NEW s \in Streams, ClientReset(s) PROVE LimitsInv'
    <2>1. [k |-> "RST", s |-> s] \in Message /\ [k |-> "RST", s |-> s].k # "ACK"
        BY DEF Message
    <2>2. TypeOK'
        BY <1>9, <2>1 DEF LimitsInv, TypeOK, ClientReset, admission
    <2> QED BY <1>9, <2>1, <2>2, OtherSent DEF ClientReset
<1>10. ASSUME NEW s \in Streams, ClientSeesEnd(s) PROVE LimitsInv'
    <2>1. TypeOK'
        BY <1>10 DEF LimitsInv, TypeOK, ClientSeesEnd, admission
    <2> QED BY <1>10, <2>1, Untouched DEF ClientSeesEnd, handshake, admission
<1> QED BY <1>1, <1>2, <1>3, <1>4, <1>5, <1>6, <1>7, <1>8, <1>9, <1>10 DEF Next

-----------------------------------------------------------------------------
(* The streams. *)

StreamsInv == StreamsOnce /\ OpensFit /\ NeverRefused

LEMMA FewerStreams ==
    ASSUME NEW B \in SUBSET Streams, NEW A \in SUBSET B
    PROVE  /\ Cardinality(A) \in Nat /\ Cardinality(B) \in Nat
           /\ Cardinality(A) <= Cardinality(B)
<1>1. IsFiniteSet(B) /\ IsFiniteSet(A)
    BY AdmissionAssumption, FS_Subset
<1> QED BY <1>1, FS_Subset, FS_CardinalityType

LEMMA OneMoreStream ==
    ASSUME NEW B \in SUBSET Streams, NEW s \in Streams, s \notin B
    PROVE  /\ Cardinality(B) \in Nat
           /\ Cardinality(B \cup {s}) = Cardinality(B) + 1
<1>1. IsFiniteSet(B)
    BY AdmissionAssumption, FS_Subset
<1> QED BY <1>1, FS_AddElement, FS_CardinalityType

\* What is carried is on the wire.
LEMMA CarriedOnWire == \A k, s, i : Carries(k, s, i) => i \in DOMAIN fromC
BY Zenon DEF Carries

LEMMA InitStreams == Init => StreamsInv
<1> SUFFICES ASSUME Init PROVE StreamsInv
    OBVIOUS
<1> USE DEF Init
<1>1. fromC = <<>> /\ DOMAIN fromC = {} /\ Len(fromC) = 0
    OBVIOUS
<1>2. TableAfter(Len(fromC)) = {}
    BY <1>1 DEF TableAfter
<1> QED BY <1>1, <1>2 DEF StreamsInv, StreamsOnce, OpensFit, NeverRefused

\* Only the limits have moved, and the one enforced was not lowered.
LEMMA LimitsMoved ==
    ASSUME LimitsInv, StreamsInv, TypeOK', enforced <= enforced', cLimit' = cLimit,
           UNCHANGED <<live, refused, ended, fromC, cOpen, cUsed>>
    PROVE  StreamsInv'
<1>1. /\ \A k, s, i : Carries(k, s, i)' <=> Carries(k, s, i)
      /\ \A i : TableAfter(i)' = TableAfter(i)
      /\ \A i : IsAck(i)' <=> IsAck(i)
    BY DEF Carries, TableAfter, IsAck
<1>2. StreamsOnce'
    BY <1>1 DEF StreamsInv, StreamsOnce
<1>3. OpensFit'
    <2> SUFFICES ASSUME NEW i \in DOMAIN fromC, fromC[i].k = "HEADERS"
                 PROVE  /\ Cardinality(TableAfter(i)) <= enforced'
                        /\ (\A j \in DOMAIN fromC : IsAck(j) => j < i) => Cardinality(TableAfter(i)) <= cLimit
        BY <1>1 DEF OpensFit
    <2>1. Cardinality(TableAfter(i)) \in Nat
        BY FewerStreams DEF TableAfter
    <2>2. enforced \in Nat /\ enforced' \in Nat
        BY DEF LimitsInv, TypeOK
    <2> QED BY <2>1, <2>2 DEF StreamsInv, OpensFit
<1>4. NeverRefused'
    BY DEF StreamsInv, NeverRefused
<1> QED BY <1>2, <1>3, <1>4 DEF StreamsInv

\* A frame joins the wire.
LEMMA JoinsTheWire ==
    ASSUME fromC \in Seq(Message), NEW f \in Message, fromC' = Append(fromC, f), live' = live
    PROVE  /\ Len(fromC') = Len(fromC) + 1 /\ Len(fromC) \in Nat
           /\ DOMAIN fromC = 1..Len(fromC) /\ DOMAIN fromC' = 1..(Len(fromC) + 1)
           /\ \A i \in 1..Len(fromC) : fromC'[i] = fromC[i]
           /\ fromC'[Len(fromC) + 1] = f
           /\ \A k, s, i : Carries(k, s, i)' <=>
                 Carries(k, s, i) \/ (i = Len(fromC) + 1 /\ f.k = k /\ f.s = s)
           /\ \A i \in 0..Len(fromC) : TableAfter(i)' = TableAfter(i)
<1>1. /\ Len(fromC') = Len(fromC) + 1 /\ Len(fromC) \in Nat
      /\ DOMAIN fromC = 1..Len(fromC) /\ DOMAIN fromC' = 1..(Len(fromC) + 1)
      /\ \A i \in 1..Len(fromC) : fromC'[i] = fromC[i]
      /\ fromC'[Len(fromC) + 1] = f
    OBVIOUS
<1>2. ASSUME NEW k, NEW s, NEW i
      PROVE  Carries(k, s, i)' <=> Carries(k, s, i) \/ (i = Len(fromC) + 1 /\ f.k = k /\ f.s = s)
    BY <1>1 DEF Carries
<1>3. ASSUME NEW i \in 0..Len(fromC) PROVE TableAfter(i)' = TableAfter(i)
    <2>1. \A k, s : \A j \in 1..i : Carries(k, s, j)' <=> Carries(k, s, j)
        BY <1>1, <1>2
    <2> QED BY <2>1 DEF TableAfter
<1> QED BY <1>1, <1>2, <1>3

\* A frame leaves the wire.
LEMMA LeavesTheWire ==
    ASSUME fromC \in Seq(Message), fromC # <<>>, fromC' = Tail(fromC)
    PROVE  /\ Len(fromC') = Len(fromC) - 1 /\ Len(fromC) \in Nat \ {0}
           /\ DOMAIN fromC = 1..Len(fromC) /\ DOMAIN fromC' = 1..(Len(fromC) - 1)
           /\ \A i \in 1..(Len(fromC) - 1) : fromC'[i] = fromC[i + 1]
           /\ \A k, s : \A i \in Nat \ {0} : Carries(k, s, i)' <=> Carries(k, s, i + 1)
<1>1. /\ Len(fromC') = Len(fromC) - 1 /\ Len(fromC) \in Nat \ {0}
      /\ DOMAIN fromC = 1..Len(fromC) /\ DOMAIN fromC' = 1..(Len(fromC) - 1)
      /\ \A i \in 1..(Len(fromC) - 1) : fromC'[i] = fromC[i + 1]
    BY TailAt
<1>2. ASSUME NEW k, NEW s, NEW i \in Nat \ {0}
      PROVE  Carries(k, s, i)' <=> Carries(k, s, i + 1)
    BY <1>1 DEF Carries
<1> QED BY <1>1, <1>2

\* What becomes of the table when its first frame is handled as the code does.
AfterHead == {s \in Streams : /\ s \in live \/ Carries("HEADERS", s, 1)
                              /\ ~Carries("RST", s, 1)}

LEMMA SameTableAhead ==
    ASSUME fromC \in Seq(Message), fromC # <<>>, fromC' = Tail(fromC), StreamsOnce,
           live' = AfterHead, NEW i \in 0..(Len(fromC) - 1)
    PROVE  TableAfter(i)' = TableAfter(i + 1)
<1>0. Len(fromC) \in Nat \ {0} /\ DOMAIN fromC = 1..Len(fromC)
    BY LeavesTheWire
<1>1. \A k, s : \A j \in 1..i : Carries(k, s, j)' <=> Carries(k, s, j + 1)
    BY LeavesTheWire
<1> SUFFICES ASSUME NEW s \in Streams
             PROVE  s \in TableAfter(i)' <=> s \in TableAfter(i + 1)
    BY DEF TableAfter
<1>2. s \in TableAfter(i)' <=>
        /\ s \in AfterHead \/ \E j \in 1..i : Carries("HEADERS", s, j + 1)
        /\ \A j \in 1..i : ~Carries("RST", s, j + 1)
    BY <1>1 DEF TableAfter
<1>3. s \in TableAfter(i + 1) <=>
        /\ s \in live \/ Carries("HEADERS", s, 1) \/ \E j \in 1..i : Carries("HEADERS", s, j + 1)
        /\ ~Carries("RST", s, 1)
        /\ \A j \in 1..i : ~Carries("RST", s, j + 1)
    <2>1. \A j \in 1..(i + 1) : j = 1 \/ (j - 1 \in 1..i /\ j = (j - 1) + 1)
        OBVIOUS
    <2>2. \A j \in 1..i : j + 1 \in 1..(i + 1)
        OBVIOUS
    <2>3. 1 \in 1..(i + 1)
        OBVIOUS
    <2>4. (\E j \in 1..(i + 1) : Carries("HEADERS", s, j)) <=>
            (Carries("HEADERS", s, 1) \/ \E j \in 1..i : Carries("HEADERS", s, j + 1))
        BY <2>1, <2>2, <2>3
    <2>5. (\A j \in 1..(i + 1) : ~Carries("RST", s, j)) <=>
            (~Carries("RST", s, 1) /\ \A j \in 1..i : ~Carries("RST", s, j + 1))
        BY <2>1, <2>2, <2>3
    <2> QED BY <2>4, <2>5 DEF TableAfter
<1>4. Carries("RST", s, 1) => \A j \in 1..i : ~Carries("HEADERS", s, j + 1)
    <2> SUFFICES ASSUME Carries("RST", s, 1), NEW j \in 1..i, Carries("HEADERS", s, j + 1) PROVE FALSE
        OBVIOUS
    <2>1. 1 \in DOMAIN fromC /\ j + 1 \in DOMAIN fromC
        BY DEF Carries
    <2>2. j + 1 < 1
        BY <2>1 DEF StreamsOnce
    <2> QED BY <2>2
<1> QED BY <1>2, <1>3, <1>4 DEF AfterHead

LEMMA TakenStreams ==
    ASSUME LimitsInv, StreamsInv, TypeOK', fromC # <<>>, fromC' = Tail(fromC), live' = AfterHead,
           UNCHANGED <<refused, ended, cOpen, cUsed, cLimit>>,
           \/ enforced' = enforced
           \/ (enforced' = cLimit /\ \A j \in DOMAIN fromC : IsAck(j) => j = 1)
    PROVE  StreamsInv'
<1>0. fromC \in Seq(Message) /\ StreamsOnce /\ OpensFit /\ NeverRefused
    BY DEF LimitsInv, TypeOK, StreamsInv
<1>n. PICK n \in Nat : n = Len(fromC)
    BY <1>0
<1>1. /\ Len(fromC') = n - 1 /\ n \in Nat \ {0}
      /\ DOMAIN fromC = 1..n /\ DOMAIN fromC' = 1..(n - 1)
      /\ \A i \in 1..(n - 1) : fromC'[i] = fromC[i + 1]
    BY <1>0, <1>n, LeavesTheWire
<1>2. \A k, s : \A i \in 1..(n - 1) : Carries(k, s, i)' <=> Carries(k, s, i + 1)
    BY <1>0, <1>1, LeavesTheWire
<1>3. \A i \in 0..(n - 1) : TableAfter(i)' = TableAfter(i + 1)
    BY <1>0, <1>n, SameTableAhead
<1>4. StreamsOnce'
    <2>1. live' \subseteq cUsed /\ live' \cap ended = {}
        <3>1. live \subseteq cUsed /\ live \cap ended = {}
            BY <1>0 DEF StreamsOnce
        <3>2. ASSUME NEW s \in Streams, Carries("HEADERS", s, 1) PROVE s \in cUsed /\ s \notin ended
            BY <1>0, <1>1, <3>2 DEF StreamsOnce
        <3> QED BY <3>1, <3>2 DEF AfterHead
    <2>2. ASSUME NEW s \in Streams, NEW i \in 1..(n - 1), Carries("HEADERS", s, i + 1)
          PROVE  /\ s \in cUsed /\ s \notin live' \cup ended
                 /\ \A j \in 1..(n - 1) : Carries("HEADERS", s, j + 1) => j = i
        <3>1. i + 1 \in DOMAIN fromC /\ 1 \in DOMAIN fromC /\ i + 1 # 1
            BY <1>1
        <3>2. /\ s \in cUsed /\ s \notin live \cup ended
              /\ \A j \in DOMAIN fromC : Carries("HEADERS", s, j) => j = i + 1
            BY <1>0, <2>2, <3>1 DEF StreamsOnce
        <3>3. s \notin live'
            BY <3>1, <3>2 DEF AfterHead
        <3>4. \A j \in 1..(n - 1) : j + 1 \in DOMAIN fromC
            BY <1>1
        <3>5. ASSUME NEW j \in 1..(n - 1), Carries("HEADERS", s, j + 1) PROVE j = i
            <4>1. j + 1 = i + 1
                BY <3>2, <3>4, <3>5
            <4> QED BY <4>1, <1>1
        <3> QED BY <3>2, <3>3, <3>5
    <2>3. ASSUME NEW s \in Streams, NEW i \in 1..(n - 1), Carries("RST", s, i + 1)
          PROVE  /\ s \in cUsed
                 /\ \A j \in 1..(n - 1) : Carries("HEADERS", s, j + 1) => j < i
        <3>1. i + 1 \in DOMAIN fromC
            BY <1>1
        <3>2. /\ s \in cUsed
              /\ \A j \in DOMAIN fromC : Carries("HEADERS", s, j) => j < i + 1
            BY <1>0, <2>3, <3>1 DEF StreamsOnce
        <3>3. ASSUME NEW j \in 1..(n - 1), Carries("HEADERS", s, j + 1) PROVE j < i
            <4>1. j + 1 \in DOMAIN fromC
                BY <1>1
            <4>2. j + 1 < i + 1
                BY <3>2, <3>3, <4>1
            <4> QED BY <4>2, <1>1
        <3> QED BY <3>2, <3>3
    <2>4. (TableAfter(Len(fromC)))' \subseteq cOpen
        <3>1. PICK m \in Nat : m = n - 1
            BY <1>1
        <3>2. (TableAfter(Len(fromC)))' = TableAfter(m)'
            BY <1>1, <3>1 DEF TableAfter
        <3>3. TableAfter(m)' = TableAfter(m + 1) /\ m + 1 = n
            BY <1>1, <1>3, <3>1
        <3> QED BY <3>2, <3>3, <1>0, <1>n DEF StreamsOnce
    <2>5. ended \subseteq cUsed /\ cOpen \subseteq cUsed
        BY <1>0 DEF StreamsOnce
    <2> QED BY <1>1, <1>2, <2>1, <2>2, <2>3, <2>4, <2>5 DEF StreamsOnce
<1>5. OpensFit'
    <2> SUFFICES ASSUME NEW i \in 1..(n - 1), fromC[i + 1].k = "HEADERS"
                 PROVE  /\ Cardinality(TableAfter(i + 1)) <= enforced'
                        /\ (\A j \in 1..(n - 1) : IsAck(j + 1) => j < i)
                              => Cardinality(TableAfter(i + 1)) <= cLimit
        <3>1. \A j \in 1..(n - 1) : IsAck(j)' <=> IsAck(j + 1)
            BY <1>1 DEF IsAck
        <3>2. \A i \in 1..(n - 1) : Cardinality(TableAfter(i))' = Cardinality(TableAfter(i + 1))
            BY <1>1, <1>3
        <3>3. DOMAIN fromC' = 1..(n - 1) /\ (\A i \in 1..(n - 1) : fromC'[i] = fromC[i + 1])
            BY <1>1
        <3> QED BY <3>1, <3>2, <3>3 DEF OpensFit
    <2>1. i + 1 \in DOMAIN fromC
        BY <1>1
    <2>2. /\ Cardinality(TableAfter(i + 1)) <= enforced
          /\ (\A j \in DOMAIN fromC : IsAck(j) => j < i + 1) => Cardinality(TableAfter(i + 1)) <= cLimit
        BY <1>0, <2>1 DEF OpensFit
    <2>3. ASSUME \A j \in 1..(n - 1) : IsAck(j + 1) => j < i
          PROVE  Cardinality(TableAfter(i + 1)) <= cLimit
        <3>1. ASSUME NEW j \in DOMAIN fromC, IsAck(j) PROVE j < i + 1
            <4>1. CASE j = 1
                BY <4>1, <1>1
            <4>2. CASE j # 1
                <5>1. j - 1 \in 1..(n - 1) /\ j = (j - 1) + 1
                    BY <4>2, <1>1
                <5>2. j - 1 < i
                    BY <2>3, <3>1, <5>1
                <5> QED BY <5>1, <5>2, <1>1
            <4> QED BY <4>1, <4>2
        <3> QED BY <2>2, <3>1
    <2>4. ASSUME \A j \in DOMAIN fromC : IsAck(j) => j = 1
          PROVE  Cardinality(TableAfter(i + 1)) <= cLimit
        <3>1. ASSUME NEW j \in DOMAIN fromC, IsAck(j) PROVE j < i + 1
            <4>1. j = 1
                BY <2>4, <3>1
            <4> QED BY <4>1, <1>1
        <3> QED BY <2>2, <3>1
    <2> QED BY <2>2, <2>3, <2>4
<1>6. NeverRefused'
    BY <1>0 DEF NeverRefused
<1> QED BY <1>4, <1>5, <1>6 DEF StreamsInv

LEMMA TakeFrameStreams == LimitsInv /\ StreamsInv /\ TakeFrame => StreamsInv'
<1> SUFFICES ASSUME LimitsInv, StreamsInv, TakeFrame PROVE StreamsInv'
    OBVIOUS
<1> DEFINE f == Head(fromC)
<1>0. /\ fromC \in Seq(Message) /\ fromC # <<>> /\ fromC' = Tail(fromC)
      /\ f \in Message /\ f = fromC[1] /\ 1 \in DOMAIN fromC /\ live \subseteq Streams
      /\ UNCHANGED <<ended, toC, cLimit, cOpen, cUsed, applied>>
    BY DEF LimitsInv, TypeOK, TakeFrame, clientVars
<1>1. LimitsInv' /\ TypeOK'
    BY TakeFrameLimits DEF LimitsInv
<1>2. \A k, s : Carries(k, s, 1) <=> f.k = k /\ f.s = s
    BY <1>0 DEF Carries
<1>3. StreamsOnce /\ OpensFit /\ NeverRefused /\ TypeOK
    BY DEF StreamsInv, LimitsInv
<1> HIDE DEF f
<1>4. CASE f.k = "ACK" /\ RecvAck /\ acked' = f.n
    <2>1. live' = AfterHead /\ refused' = refused
        BY <1>0, <1>2, <1>4 DEF AfterHead, RecvAck, Acknowledged
    <2>2. \/ enforced' = enforced
          \/ (enforced' = cLimit /\ \A j \in DOMAIN fromC : IsAck(j) => j = 1)
        <3>1. CASE outstanding > 1
            <4>1. enforced' = enforced
                BY <3>1, <1>4, <1>3 DEF RecvAck, Acknowledged, TypeOK
            <4> QED BY <4>1
        <3>2. CASE outstanding <= 1
            <4>1. enforced' = advertised
                BY <3>2, <1>4 DEF RecvAck, Acknowledged
            <4>2. /\ acked \in Nat /\ applied \in Nat /\ sent \in Nat /\ outstanding = sent - acked
                  /\ applied = sent - Len(toC) /\ toC \in Seq(Limits)
                BY <1>3 DEF LimitsInv, OutstandingExact, TypeOK
            <4>3. IsAck(1) /\ fromC[1].n \in (acked + 1)..applied
                BY <1>0, <1>4 DEF LimitsInv, OutstandingExact, IsAck, f
            <4>4. applied = acked + 1 /\ toC = <<>>
                BY <3>2, <4>2, <4>3
            <4>5. cLimit = advertised
                BY <4>4 DEF LimitsInv, LastWord
            <4>6. ASSUME NEW j \in DOMAIN fromC, IsAck(j) PROVE j = 1
                <5>1. fromC[j].n \in (acked + 1)..applied
                    BY <4>6 DEF LimitsInv, OutstandingExact
                <5>2. 1 < j => fromC[1].n < fromC[j].n
                    BY <1>0, <4>6, <4>3 DEF LimitsInv, OutstandingExact
                <5>3. j \in Nat \ {0}
                    BY <1>0
                <5> QED BY <5>1, <5>2, <5>3, <4>2, <4>3, <4>4
            <4> QED BY <4>1, <4>5, <4>6
        <3>3. outstanding \in Nat
            BY <1>3 DEF TypeOK
        <3> QED BY <3>1, <3>2, <3>3
    <2> QED BY <1>0, <1>1, <2>1, <2>2, TakenStreams
<1>5. CASE f.k = "HEADERS" /\ RecvHeaders(f.s) /\ UNCHANGED acked
    <2>1. f.s \in Streams
        BY <1>0, <1>5 DEF Message
    <2>2. Carries("HEADERS", f.s, 1) /\ f.s \notin live
        BY <1>0, <1>2, <1>3, <1>5, <2>1 DEF StreamsOnce
    <2>3. AfterHead = live \cup {f.s}
        BY <1>0, <1>2, <1>5, <2>1 DEF AfterHead
    <2>4. TableAfter(1) = AfterHead
        <3>1. \A j \in 1..1 : j = 1
            OBVIOUS
        <3>2. 1 \in 1..1
            OBVIOUS
        <3> QED BY <3>1, <3>2 DEF TableAfter, AfterHead
    <2>5. Cardinality(live \cup {f.s}) <= enforced
        BY <1>0, <1>3, <1>5, <2>3, <2>4 DEF OpensFit
    <2>6. ~(Cardinality(live) >= enforced)
        BY <1>0, <1>3, <2>1, <2>2, <2>5, OneMoreStream DEF TypeOK
    <2>7. live' = AfterHead /\ refused' = refused /\ enforced' = enforced
        BY <1>5, <2>3, <2>6 DEF RecvHeaders, OpenPeer, admission
    <2> QED BY <1>0, <1>1, <2>7, TakenStreams
<1>6. CASE f.k = "RST" /\ RecvRst(f.s) /\ UNCHANGED acked
    <2>1. live' = AfterHead
        BY <1>0, <1>2, <1>6 DEF AfterHead, RecvRst
    <2> QED BY <1>0, <1>1, <1>6, <2>1, TakenStreams DEF RecvRst, admission
<1>7. CASE f.k = "PING" /\ UNCHANGED <<admission, live, refused, acked>>
    <2>1. live' = AfterHead
        BY <1>0, <1>2, <1>7 DEF AfterHead
    <2> QED BY <1>0, <1>1, <1>7, <2>1, TakenStreams DEF admission
<1> QED BY <1>4, <1>5, <1>6, <1>7 DEF TakeFrame, f

LEMMA ClientSettingsStreams == LimitsInv /\ StreamsInv /\ ClientSettings => StreamsInv'
<1> SUFFICES ASSUME LimitsInv, StreamsInv, ClientSettings PROVE StreamsInv'
    OBVIOUS
<1>1. PICK ack \in Message : /\ ack.k = "ACK" /\ fromC' = Append(fromC, ack)
    BY DEF ClientSettings, LimitsInv, TypeOK, Message
<1>2. /\ UNCHANGED <<live, refused, ended, cOpen, cUsed, enforced>>
      /\ fromC \in Seq(Message)
    BY DEF ClientSettings, admission, LimitsInv, TypeOK
<1>3. PICK n \in Nat : n = Len(fromC)
    BY <1>2
<1>4. /\ DOMAIN fromC = 1..n /\ DOMAIN fromC' = 1..(n + 1) /\ Len(fromC') = n + 1
      /\ \A i \in 1..n : fromC'[i] = fromC[i]
      /\ fromC'[n + 1] = ack
      /\ \A i \in 0..n : TableAfter(i)' = TableAfter(i)
    BY <1>1, <1>2, <1>3, JoinsTheWire
<1>5. \A s, i : \A k \in {"HEADERS", "RST"} : Carries(k, s, i)' <=> Carries(k, s, i)
    BY <1>1, <1>2, <1>3, JoinsTheWire
<1>6. StreamsOnce /\ OpensFit /\ NeverRefused
    BY DEF StreamsInv
<1>7. StreamsOnce'
    <2>1. (TableAfter(Len(fromC)))' = TableAfter(Len(fromC))
        <3>1. \A j \in 1..n : j \in 1..(n + 1)
            OBVIOUS
        <3>2. ASSUME NEW s, NEW k \in {"HEADERS", "RST"}
              PROVE  (\E j \in 1..(n + 1) : Carries(k, s, j)') <=> (\E j \in 1..n : Carries(k, s, j))
            <4>1. \A j : Carries(k, s, j)' <=> Carries(k, s, j)
                BY <1>5
            <4>2. \A j : Carries(k, s, j) => j \in 1..n
                BY <1>4, CarriedOnWire
            <4> QED BY <3>1, <4>1, <4>2, Zenon
        <3> QED BY <1>2, <1>3, <1>4, <3>2 DEF TableAfter
    <2>2. TableAfter(Len(fromC)) \subseteq cOpen
        BY <1>6 DEF StreamsOnce
    <2>3. /\ live' \cup ended' \cup cOpen' \subseteq cUsed' /\ live' \cap ended' = {}
        BY <1>2, <1>6 DEF StreamsOnce
    <2>4. ASSUME NEW s \in Streams, NEW i \in DOMAIN fromC', Carries("HEADERS", s, i)'
          PROVE  /\ s \in cUsed' /\ s \notin live' \cup ended'
                 /\ \A j \in DOMAIN fromC' : Carries("HEADERS", s, j)' => j = i
        <3>1. Carries("HEADERS", s, i) /\ i \in DOMAIN fromC
            BY <2>4, <1>5 DEF Carries
        <3>2. \A j : Carries("HEADERS", s, j)' => j \in DOMAIN fromC /\ Carries("HEADERS", s, j)
            BY <1>5, CarriedOnWire, Zenon
        <3> QED BY <3>1, <3>2, <1>2, <1>6 DEF StreamsOnce
    <2>5. ASSUME NEW s \in Streams, NEW i \in DOMAIN fromC', Carries("RST", s, i)'
          PROVE  /\ s \in cUsed'
                 /\ \A j \in DOMAIN fromC' : Carries("HEADERS", s, j)' => j < i
        <3>1. Carries("RST", s, i) /\ i \in DOMAIN fromC
            BY <2>5, <1>5 DEF Carries
        <3>2. \A j : Carries("HEADERS", s, j)' => j \in DOMAIN fromC /\ Carries("HEADERS", s, j)
            BY <1>5, CarriedOnWire, Zenon
        <3> QED BY <3>1, <3>2, <1>2, <1>6 DEF StreamsOnce
    <2>6. (TableAfter(Len(fromC)))' \subseteq cOpen'
        BY <2>1, <2>2, <1>2
    <2> QED BY <2>3, <2>4, <2>5, <2>6 DEF StreamsOnce
<1>8. OpensFit'
    <2> SUFFICES ASSUME NEW i \in DOMAIN fromC', fromC'[i].k = "HEADERS"
                 PROVE  /\ Cardinality(TableAfter(i)') <= enforced'
                        /\ ~\A j \in DOMAIN fromC' : IsAck(j)' => j < i
        BY DEF OpensFit
    <2>1. i \in DOMAIN fromC /\ i \in 1..n /\ fromC[i].k = "HEADERS"
        BY <1>1, <1>3, <1>4
    <2>2. IsAck(n + 1)' /\ n + 1 \in DOMAIN fromC'
        BY <1>1, <1>4 DEF IsAck
    <2>3. Cardinality(TableAfter(i)') <= enforced'
        BY <2>1, <1>2, <1>4, <1>6 DEF OpensFit
    <2>4. ~(n + 1 < i)
        BY <2>1, <1>3
    <2> QED BY <2>2, <2>3, <2>4
<1>9. NeverRefused'
    BY <1>2, <1>6 DEF NeverRefused
<1> QED BY <1>7, <1>8, <1>9 DEF StreamsInv

\* The client opens a stream: what the table will hold then, the client counts
\* as open, and that is within the limit it has applied.
LEMMA OpenStreams ==
    ASSUME LimitsInv, StreamsInv, NEW s \in Streams, ClientOpen(s)
    PROVE  StreamsInv'
<1> DEFINE f == [k |-> "HEADERS", s |-> s]
<1>1. f \in Message /\ f.k = "HEADERS" /\ f.s = s /\ fromC' = Append(fromC, f)
    BY DEF ClientOpen, Message
<1> HIDE DEF f
<1>2. /\ UNCHANGED <<live, refused, ended, enforced, cLimit>>
      /\ cOpen' = cOpen \cup {s} /\ cUsed' = cUsed \cup {s} /\ s \notin cUsed
      /\ Cardinality(cOpen) < cLimit
      /\ fromC \in Seq(Message) /\ cOpen \subseteq Streams
      /\ cLimit \in Nat /\ enforced \in Nat /\ cLimit <= enforced
    BY DEF ClientOpen, admission, LimitsInv, TypeOK, EnforcedCovers
<1>3. PICK n \in Nat : n = Len(fromC)
    BY <1>2
<1>4. /\ DOMAIN fromC = 1..n /\ DOMAIN fromC' = 1..(n + 1) /\ Len(fromC') = n + 1
      /\ \A i \in 1..n : fromC'[i] = fromC[i]
      /\ fromC'[n + 1] = f
      /\ \A i \in 0..n : TableAfter(i)' = TableAfter(i)
    BY <1>1, <1>2, <1>3, JoinsTheWire
<1>5. \A k, t, i : Carries(k, t, i)' <=>
            Carries(k, t, i) \/ (i = n + 1 /\ k = "HEADERS" /\ t = s)
    BY <1>1, <1>2, <1>3, JoinsTheWire
<1>6. StreamsOnce /\ OpensFit /\ NeverRefused
    BY DEF StreamsInv
<1>7. /\ \A i : ~Carries("HEADERS", s, i) /\ ~Carries("RST", s, i)
      /\ s \notin live /\ s \notin ended /\ s \notin cOpen
    BY <1>2, <1>6 DEF StreamsOnce, Carries
<1>8. PICK m \in Nat : m = n + 1
    BY <1>3
<1>9. TableAfter(m)' \subseteq cOpen'
    <2> SUFFICES ASSUME NEW t \in Streams, t # s, t \in TableAfter(m)'
                 PROVE  t \in cOpen
        BY <1>2 DEF TableAfter
    <2>1. t \in live \/ \E j \in 1..m : Carries("HEADERS", t, j)
        BY <1>2, <1>5 DEF TableAfter
    <2>2. \A j \in 1..m : ~Carries("RST", t, j)
        BY <1>5 DEF TableAfter
    <2>3. t \in live \/ \E j \in 1..n : Carries("HEADERS", t, j)
        BY <2>1, <1>4, <1>8 DEF Carries
    <2>4. \A j \in 1..n : ~Carries("RST", t, j)
        BY <2>2, <1>3, <1>8
    <2>5. t \in TableAfter(Len(fromC))
        BY <2>3, <2>4, <1>3 DEF TableAfter
    <2> QED BY <2>5, <1>6 DEF StreamsOnce
<1>10. StreamsOnce'
    <2>1. live' \cup ended' \cup cOpen' \subseteq cUsed' /\ live' \cap ended' = {}
        BY <1>2, <1>6 DEF StreamsOnce
    <2>2. ASSUME NEW t \in Streams, NEW i \in DOMAIN fromC', Carries("HEADERS", t, i)'
          PROVE  /\ t \in cUsed' /\ t \notin live' \cup ended'
                 /\ \A j \in DOMAIN fromC' : Carries("HEADERS", t, j)' => j = i
        <3>1. CASE t = s
            BY <3>1, <2>2, <1>2, <1>5, <1>7
        <3>2. CASE t # s
            <4>1. Carries("HEADERS", t, i) /\ i \in DOMAIN fromC
                BY <3>2, <2>2, <1>5 DEF Carries
            <4>2. \A j : Carries("HEADERS", t, j)' => j \in DOMAIN fromC /\ Carries("HEADERS", t, j)
                BY <3>2, <1>5, CarriedOnWire, Zenon
            <4> QED BY <4>1, <4>2, <1>2, <1>6 DEF StreamsOnce
        <3> QED BY <3>1, <3>2
    <2>3. ASSUME NEW t \in Streams, NEW i \in DOMAIN fromC', Carries("RST", t, i)'
          PROVE  /\ t \in cUsed'
                 /\ \A j \in DOMAIN fromC' : Carries("HEADERS", t, j)' => j < i
        <3>1. Carries("RST", t, i) /\ i \in DOMAIN fromC /\ t # s
            BY <2>3, <1>5, <1>7 DEF Carries
        <3>2. \A j : Carries("HEADERS", t, j)' => j \in DOMAIN fromC /\ Carries("HEADERS", t, j)
            BY <3>1, <1>5, CarriedOnWire, Zenon
        <3> QED BY <3>1, <3>2, <1>2, <1>6 DEF StreamsOnce
    <2>4. (TableAfter(Len(fromC)))' \subseteq cOpen'
        BY <1>4, <1>8, <1>9 DEF TableAfter
    <2> QED BY <2>1, <2>2, <2>3, <2>4 DEF StreamsOnce
<1>11. OpensFit'
    <2> SUFFICES ASSUME NEW i \in 1..(n + 1), fromC'[i].k = "HEADERS"
                 PROVE  /\ Cardinality(TableAfter(i)') <= enforced'
                        /\ (\A j \in DOMAIN fromC' : IsAck(j)' => j < i)
                              => Cardinality(TableAfter(i)') <= cLimit'
        BY <1>4 DEF OpensFit
    <2>1. CASE i \in 1..n
        <3>1. /\ Cardinality(TableAfter(i)) <= enforced
              /\ (\A j \in DOMAIN fromC : IsAck(j) => j < i) => Cardinality(TableAfter(i)) <= cLimit
            BY <2>1, <1>4, <1>6 DEF OpensFit
        <3>2. \A j \in DOMAIN fromC : j \in DOMAIN fromC' /\ (IsAck(j) => IsAck(j)')
            BY <1>4 DEF IsAck
        <3>3. TableAfter(i)' = TableAfter(i)
            BY <2>1, <1>3, <1>4
        <3> QED BY <3>1, <3>2, <3>3, <1>2
    <2>2. CASE i = m
        <3>1. Cardinality(TableAfter(i)') <= Cardinality(cOpen') /\ Cardinality(TableAfter(i)') \in Nat
            <4>1. cOpen' \in SUBSET Streams
                BY <1>2
            <4> QED BY <4>1, <1>9, <2>2, FewerStreams
        <3>2. Cardinality(cOpen') = Cardinality(cOpen) + 1 /\ Cardinality(cOpen) \in Nat
            BY <1>2, <1>7, OneMoreStream
        <3> QED BY <3>1, <3>2, <1>2
    <2> QED BY <2>1, <2>2, <1>3, <1>8
<1>12. NeverRefused'
    BY <1>2, <1>6 DEF NeverRefused
<1> QED BY <1>10, <1>11, <1>12 DEF StreamsInv

\* The client resets a stream: its RST_STREAM comes after its HEADERS.
LEMMA ResetStreams ==
    ASSUME LimitsInv, StreamsInv, NEW s \in Streams, ClientReset(s)
    PROVE  StreamsInv'
<1> DEFINE f == [k |-> "RST", s |-> s]
<1>1. f \in Message /\ f.k = "RST" /\ f.s = s /\ fromC' = Append(fromC, f)
    BY DEF ClientReset, Message
<1> HIDE DEF f
<1>2. /\ UNCHANGED <<live, refused, ended, enforced, cLimit, cUsed>>
      /\ cOpen' = cOpen \ {s} /\ s \in cOpen
      /\ fromC \in Seq(Message)
    BY DEF ClientReset, admission, LimitsInv, TypeOK
<1>3. PICK n \in Nat : n = Len(fromC)
    BY <1>2
<1>4. /\ DOMAIN fromC = 1..n /\ DOMAIN fromC' = 1..(n + 1) /\ Len(fromC') = n + 1
      /\ \A i \in 1..n : fromC'[i] = fromC[i]
      /\ fromC'[n + 1] = f
      /\ \A i \in 0..n : TableAfter(i)' = TableAfter(i)
    BY <1>1, <1>2, <1>3, JoinsTheWire
<1>5. \A k, t, i : Carries(k, t, i)' <=>
            Carries(k, t, i) \/ (i = n + 1 /\ k = "RST" /\ t = s)
    BY <1>1, <1>2, <1>3, JoinsTheWire
<1>6. StreamsOnce /\ OpensFit /\ NeverRefused
    BY DEF StreamsInv
<1>7. \A t, j : Carries("HEADERS", t, j)' <=> j \in DOMAIN fromC /\ Carries("HEADERS", t, j)
    BY <1>5 DEF Carries
<1>8. PICK m \in Nat : m = n + 1
    BY <1>3
<1>9. TableAfter(m)' \subseteq cOpen'
    <2> SUFFICES ASSUME NEW t \in Streams, t \in TableAfter(m)'
                 PROVE  t \in cOpen'
        BY DEF TableAfter
    <2>1. t \in live \/ \E j \in 1..n : Carries("HEADERS", t, j)
        BY <1>2, <1>4, <1>7 DEF TableAfter
    <2>2. \A j \in 1..m : ~Carries("RST", t, j) /\ (j = n + 1 => t # s)
        BY <1>5 DEF TableAfter
    <2>3. t # s
        BY <2>2, <1>8
    <2>4. \A j \in 1..n : ~Carries("RST", t, j)
        BY <2>2, <1>3, <1>8
    <2>5. t \in TableAfter(Len(fromC))
        BY <2>1, <2>4, <1>3 DEF TableAfter
    <2> QED BY <2>3, <2>5, <1>2, <1>6 DEF StreamsOnce
<1>10. StreamsOnce'
    <2>1. live' \cup ended' \cup cOpen' \subseteq cUsed' /\ live' \cap ended' = {}
        BY <1>2, <1>6 DEF StreamsOnce
    <2>2. ASSUME NEW t \in Streams, NEW i \in DOMAIN fromC', Carries("HEADERS", t, i)'
          PROVE  /\ t \in cUsed' /\ t \notin live' \cup ended'
                 /\ \A j \in DOMAIN fromC' : Carries("HEADERS", t, j)' => j = i
        BY <2>2, <1>2, <1>6, <1>7 DEF StreamsOnce
    <2>3. ASSUME NEW t \in Streams, NEW i \in DOMAIN fromC', Carries("RST", t, i)'
          PROVE  /\ t \in cUsed'
                 /\ \A j \in DOMAIN fromC' : Carries("HEADERS", t, j)' => j < i
        <3>1. CASE Carries("RST", t, i)
            <4>1. i \in DOMAIN fromC
                BY <3>1 DEF Carries
            <4> QED BY <3>1, <4>1, <1>2, <1>6, <1>7 DEF StreamsOnce
        <3>2. CASE i = n + 1 /\ t = s
            <4>1. t \in cUsed'
                BY <3>2, <1>2, <1>6 DEF StreamsOnce
            <4>2. \A j \in DOMAIN fromC : j < n + 1
                BY <1>3, <1>4
            <4> QED BY <3>2, <4>1, <4>2, <1>7
        <3> QED BY <3>1, <3>2, <2>3, <1>5
    <2>4. (TableAfter(Len(fromC)))' \subseteq cOpen'
        BY <1>4, <1>8, <1>9 DEF TableAfter
    <2> QED BY <2>1, <2>2, <2>3, <2>4 DEF StreamsOnce
<1>11. OpensFit'
    <2> SUFFICES ASSUME NEW i \in 1..n, fromC[i].k = "HEADERS"
                 PROVE  /\ Cardinality(TableAfter(i)') <= enforced'
                        /\ (\A j \in DOMAIN fromC' : IsAck(j)' => j < i)
                              => Cardinality(TableAfter(i)') <= cLimit'
        <3>1. \A i \in DOMAIN fromC' : fromC'[i].k = "HEADERS" => i \in 1..n /\ fromC[i].k = "HEADERS"
            BY <1>1, <1>3, <1>4
        <3> QED BY <3>1 DEF OpensFit
    <2>1. /\ Cardinality(TableAfter(i)) <= enforced
          /\ (\A j \in DOMAIN fromC : IsAck(j) => j < i) => Cardinality(TableAfter(i)) <= cLimit
        BY <1>4, <1>6 DEF OpensFit
    <2>2. \A j \in DOMAIN fromC : j \in DOMAIN fromC' /\ (IsAck(j) => IsAck(j)')
        BY <1>4 DEF IsAck
    <2>3. TableAfter(i)' = TableAfter(i)
        BY <1>3, <1>4
    <2> QED BY <2>1, <2>2, <2>3, <1>2
<1>12. NeverRefused'
    BY <1>2, <1>6 DEF NeverRefused
<1> QED BY <1>10, <1>11, <1>12 DEF StreamsInv

LEMMA PingStreams == LimitsInv /\ StreamsInv /\ ClientPing => StreamsInv'
<1> SUFFICES ASSUME LimitsInv, StreamsInv, ClientPing PROVE StreamsInv'
    OBVIOUS
<1>1. /\ UNCHANGED <<live, refused, ended, cOpen, cUsed>>
      /\ fromC = <<>> /\ fromC' = <<[k |-> "PING"]>>
    BY DEF ClientPing, clientVars
<1>2. Len(fromC) = 0 /\ Len(fromC') = 1 /\ DOMAIN fromC' = {1} /\ fromC'[1].k = "PING"
    BY <1>1
<1>3. \A s, i : \A k \in {"HEADERS", "RST"} : ~Carries(k, s, i) /\ ~Carries(k, s, i)'
    BY <1>1, <1>2 DEF Carries
<1>4. TableAfter(Len(fromC))' = live /\ live \subseteq TableAfter(Len(fromC))
    BY <1>1, <1>3 DEF TableAfter, LimitsInv, TypeOK
<1>5. StreamsOnce'
    BY <1>1, <1>3, <1>4 DEF StreamsInv, StreamsOnce
<1>6. OpensFit'
    BY <1>2 DEF OpensFit
<1> QED BY <1>1, <1>5, <1>6 DEF StreamsInv, NeverRefused

\* A stream leaves the table, or the client hears that it has: the frames on the
\* wire stay, and the table ahead of them only shrinks.
LEMMA StreamEnds ==
    ASSUME LimitsInv, StreamsInv, live' \subseteq live,
           UNCHANGED <<refused, enforced, cLimit, fromC, cUsed>>,
           live' \cup ended' \cup cOpen' \subseteq cUsed, live' \cap ended' = {},
           ended' \subseteq live \cup ended,
           \A s \in cOpen \ cOpen' : s \in ended
    PROVE  StreamsInv'
<1>1. StreamsOnce /\ OpensFit /\ NeverRefused /\ TypeOK
    BY DEF StreamsInv, LimitsInv
<1>2. \A k, s, i : Carries(k, s, i)' <=> Carries(k, s, i)
    BY DEF Carries
<1>3. \A i : TableAfter(i)' \in SUBSET TableAfter(i)
    BY <1>2 DEF TableAfter
<1>4. \A s \in Streams, i \in DOMAIN fromC : Carries("HEADERS", s, i) => s \notin live \cup ended
    BY <1>1 DEF StreamsOnce
<1>5. (TableAfter(Len(fromC)))' \subseteq cOpen'
    <2> SUFFICES ASSUME NEW s \in Streams, s \in TableAfter(Len(fromC))' PROVE s \in cOpen'
        BY DEF TableAfter
    <2>1. s \in cOpen
        BY <1>1, <1>3 DEF StreamsOnce
    <2>2. s \in live \/ \E i \in DOMAIN fromC : Carries("HEADERS", s, i)
        BY <1>2 DEF TableAfter, Carries
    <2>3. s \notin ended
        BY <2>2, <1>1, <1>4 DEF StreamsOnce
    <2> QED BY <2>1, <2>3
<1>6. StreamsOnce'
    BY <1>1, <1>2, <1>4, <1>5 DEF StreamsOnce
<1>7. OpensFit'
    <2> SUFFICES ASSUME NEW i \in DOMAIN fromC, fromC[i].k = "HEADERS"
                 PROVE  /\ Cardinality(TableAfter(i)') <= enforced
                        /\ (\A j \in DOMAIN fromC : IsAck(j) => j < i)
                              => Cardinality(TableAfter(i)') <= cLimit
        BY DEF OpensFit, IsAck
    <2>1. /\ Cardinality(TableAfter(i)) <= enforced
          /\ (\A j \in DOMAIN fromC : IsAck(j) => j < i) => Cardinality(TableAfter(i)) <= cLimit
        BY <1>1 DEF OpensFit
    <2>2. TableAfter(i) \in SUBSET Streams /\ TableAfter(i)' \in SUBSET TableAfter(i)
        BY <1>3 DEF TableAfter
    <2>3. /\ Cardinality(TableAfter(i)') \in Nat /\ Cardinality(TableAfter(i)) \in Nat
          /\ Cardinality(TableAfter(i)') <= Cardinality(TableAfter(i))
        BY <2>2, FewerStreams
    <2>4. enforced \in Nat /\ cLimit \in Nat
        BY <1>1 DEF TypeOK
    <2> QED BY <2>1, <2>3, <2>4
<1> QED BY <1>1, <1>6, <1>7 DEF StreamsInv, NeverRefused

LEMMA NextStreams == LimitsInv /\ StreamsInv /\ [Next]_vars => StreamsInv'
<1> SUFFICES ASSUME LimitsInv, StreamsInv, [Next]_vars PROVE StreamsInv'
    OBVIOUS
<1>0. TypeOK' /\ enforced \in Nat
    BY NextLimits DEF LimitsInv, TypeOK
<1>1. CASE UNCHANGED vars
    BY <1>0, <1>1, LimitsMoved DEF vars, admission, clientVars
<1>2. ASSUME NEW b \in Limits, SetBudget(b) PROVE StreamsInv'
    BY <1>0, <1>2, LimitsMoved DEF SetBudget, admission, clientVars
<1>3. CASE SyncAdmission
    <2>1. UNCHANGED <<live, refused, ended, fromC, clientVars>>
        BY <1>3 DEF SyncAdmission, Advertise
    <2>2. budget \in Nat /\ enforced <= enforced'
        BY <1>0, <1>3, AdmissionAssumption
        DEF SyncAdmission, Advertise, Raised, admission, LimitsInv, TypeOK
    <2> QED BY <1>0, <2>1, <2>2, LimitsMoved DEF clientVars
<1>4. CASE TakeFrame
    BY <1>4, TakeFrameStreams
<1>5. CASE ClientSettings
    BY <1>5, ClientSettingsStreams
<1>6. CASE ClientPing
    BY <1>6, PingStreams
<1>7. ASSUME NEW s \in Streams, EndStream(s) PROVE StreamsInv'
    BY <1>7, StreamEnds DEF EndStream, admission, clientVars, StreamsInv, StreamsOnce
<1>8. ASSUME NEW s \in Streams, ClientOpen(s) PROVE StreamsInv'
    BY <1>8, OpenStreams
<1>9. ASSUME NEW s \in Streams, ClientReset(s) PROVE StreamsInv'
    BY <1>9, ResetStreams
<1>10. ASSUME NEW s \in Streams, ClientSeesEnd(s) PROVE StreamsInv'
    BY <1>10, StreamEnds DEF ClientSeesEnd, admission, StreamsInv, StreamsOnce
<1> QED BY <1>1, <1>2, <1>3, <1>4, <1>5, <1>6, <1>7, <1>8, <1>9, <1>10 DEF Next

-----------------------------------------------------------------------------
\* The number of outstanding SETTINGS is exact, and with none outstanding the
\* client is under the limit advertised last (handle_frame, SETTINGS ack); every
\* HEADERS on the wire has its place in the table (open_peer).
THEOREM AckIsProof == Spec => []IInv
<1>1. Init => IInv
    BY InitLimits, InitStreams DEF IInv, StreamsInv
<1>2. IInv /\ [Next]_vars => IInv'
    BY NextLimits, NextStreams DEF IInv, StreamsInv
<1> QED BY <1>1, <1>2, PTL DEF Spec

\* No limit is enforced that the client may not have heard of (sync_admission).
THEOREM LimitsCovered == Spec => []EnforcedCovers
<1>1. IInv => EnforcedCovers
    BY DEF IInv, LimitsInv
<1> QED BY <1>1, AckIsProof, PTL

\* A client that keeps to the limits it has applied is never refused a stream,
\* however its HEADERS cross the proxy's SETTINGS (open_peer, ADR-0023).
THEOREM NobodyRefused == Spec => []NeverRefused
<1>1. IInv => NeverRefused
    BY DEF IInv
<1> QED BY <1>1, AckIsProof, PTL

-----------------------------------------------------------------------------
(* The control loop. *)

\* A share is a limit a connection may be told, whatever the total.
LEMMA ShareIsALimit ==
    ASSUME NEW t \in Nat, conns \in 1..MaxConns
    PROVE  Share(t) \in Limits
<1>1. t \div conns \in Nat
    BY LoopAssumption
<1>2. MinAdmit \in Nat /\ Ceiling \in Nat /\ MinAdmit <= Ceiling /\ Limits = MinAdmit..Ceiling
    BY LoopAssumption, AdmissionAssumption
<1> DEFINE q == t \div conns
<1>3. Clamp(q, MinAdmit, Ceiling) \in MinAdmit..Ceiling
    <2> HIDE DEF q
    <2>1. q \in Nat => Clamp(q, MinAdmit, Ceiling) \in MinAdmit..Ceiling
        BY <1>2 DEF Clamp, Least, Most
    <2> QED BY <2>1, <1>1 DEF q
<1> QED BY <1>2, <1>3 DEF Share

\* What a sample computes with.
LEMMA NextTotal ==
    ASSUME LoopTypeOK
    PROVE  Current \in Nat /\ Half(Current) \in Nat /\ Grown(Current) \in Nat
<1> DEFINE top == Ceiling * conns
<1>1. top \in Nat /\ MinTotal \in Nat /\ MinStep \in Nat /\ total \in Nat /\ ssthresh \in Nat
    BY LoopAssumption, AdmissionAssumption DEF LoopTypeOK
<1> DEFINE c == Current
<1>2. c \in Nat
    BY <1>1 DEF Current, Clamp, Least, Most
<1>3. c \div Fraction \in Nat /\ c \div 2 \in Nat /\ c * 2 \in Nat
    <2> HIDE DEF c
    <2> QED BY <1>2, LoopAssumption
<1>4. Half(c) \in Nat
    BY <1>1, <1>3 DEF Half, Most
<1>5. Step(c) \in Nat
    BY <1>1, <1>3 DEF Step, Most
<1>6. Grown(c) \in Nat
    <2> HIDE DEF c, top
    <2>1. (IF c < ssthresh THEN c * 2 ELSE c + Step(c)) \in Nat
        BY <1>2, <1>3, <1>5
    <2>2. Least(IF c < ssthresh THEN c * 2 ELSE c + Step(c), top) \in Nat
        BY <2>1, <1>1 DEF Least
    <2> QED BY <2>2 DEF Grown, top
<1> QED BY <1>2, <1>4, <1>6

LEMMA LoopTypesStep == LoopTypeOK /\ [LoopNext]_allVars => LoopTypeOK'
<1> SUFFICES ASSUME LoopTypeOK, [LoopNext]_allVars PROVE LoopTypeOK'
    OBVIOUS
<1> USE LoopAssumption DEF LoopTypeOK
<1>1. CASE Sample
    BY <1>1, NextTotal DEF Sample
<1>2. CASE Arrive \/ Depart
    BY <1>2 DEF Arrive, Depart, Happens
<1>3. CASE Shed
    BY <1>3 DEF Shed, Happens
<1>4. CASE Near
    <2>1. near' \in BOOLEAN /\ UNCHANGED <<conns, shed, total, ssthresh>>
        BY <1>4, Zenon DEF Near, Happens
    <2>2. events' \in 0..MaxEvents
        BY <1>4 DEF Near, Happens
    <2> QED BY <2>1, <2>2, Zenon
<1>5. CASE Connection \/ UNCHANGED allVars
    BY <1>5 DEF Connection, allVars, loopVars
<1> QED BY <1>1, <1>2, <1>3, <1>4, <1>5 DEF LoopNext

\* The loop's variables keep their types (recompute_admission).
THEOREM LoopTypes == LoopSpec => []LoopTypeOK
<1>1. LoopInit => LoopTypeOK
    <2> SUFFICES ASSUME LoopInit PROVE LoopTypeOK
        OBVIOUS
    <2>1. total \in Nat /\ ssthresh \in Nat /\ conns \in 1..MaxConns /\ events \in 0..MaxEvents
        BY LoopAssumption DEF LoopInit
    <2>2. shed \in BOOLEAN /\ near \in BOOLEAN
        BY Zenon DEF LoopInit
    <2> QED BY <2>1, <2>2 DEF LoopTypeOK
<1> QED BY <1>1, LoopTypesStep, PTL DEF LoopSpec

LEMMA StepIsSyncs == LoopTypeOK /\ [LoopNext]_allVars => [Next]_vars
<1> SUFFICES ASSUME LoopTypeOK, [LoopNext]_allVars PROVE [Next]_vars
    OBVIOUS
<1>1. CASE Sample
    <2>1. budget' \in Limits
        BY <1>1, NextTotal, ShareIsALimit DEF Sample, LoopTypeOK
    <2>2. CASE budget' = budget
        BY <1>1, <2>2 DEF Sample, vars, admission, clientVars
    <2>3. CASE budget' # budget
        BY <1>1, <2>1, <2>3 DEF Sample, SetBudget, Next
    <2> QED BY <2>2, <2>3
<1>2. CASE Arrive \/ Depart \/ Shed \/ Near
    BY <1>2 DEF Arrive, Depart, Shed, Near, Happens
<1>3. CASE Connection
    BY <1>3 DEF Connection, Next
<1>4. CASE UNCHANGED allVars
    BY <1>4 DEF allVars
<1> QED BY <1>1, <1>2, <1>3, <1>4 DEF LoopNext

\* The control loop implements AdmissionSync: every sample is a move of the
\* budget within MIN_ADMIT and the ceiling, or no move (recompute_admission).
THEOREM LoopImplementsSync == LoopSpec => ImplementsSync
<1>1. LoopInit => Init
    BY DEF LoopInit
<1> QED BY <1>1, LoopTypes, StepIsSyncs, PTL DEF LoopSpec, Spec, ImplementsSync

\* Under the loop too, no connection enforces a limit its client may not have
\* heard of (sync_admission).
THEOREM LoopKeepsWord == LoopSpec => []IInv
<1> QED BY LoopImplementsSync, AckIsProof, PTL DEF ImplementsSync

\* Nor is one refused however the loop moves the budget (recompute_admission).
THEOREM LoopRefusesNobody == LoopSpec => []NeverRefused
<1> QED BY LoopImplementsSync, NobodyRefused, PTL DEF ImplementsSync
=============================================================================
