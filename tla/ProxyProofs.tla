------------------------------ MODULE ProxyProofs ------------------------------
(***************************************************************************)
(* For any number of client connections, backends and connections to them, *)
(* and whatever fails: the proxy keeps the promises of RequestLife, counts *)
(* its leases, blames no backend that is sound, and retries elsewhere.     *)
(*                                                                         *)
(* The invariant is the life of one request, phase by phase: which of its  *)
(* states go together while the attempt, the channel and the connection    *)
(* task take their steps in any order.                                     *)
(***************************************************************************)
EXTENDS ProxyRetry, FiniteSetTheorems, SequenceTheorems, TLAPS

\* What a connection says first of a request that fails or is answered at once,
\* what it says after the head, and what the proxy says itself.
Firsts == {"answer", "gone", "shed", "refused", "reset"}
Rests  == {"end", "reset"}
Event  == Firsts \cup Rests \cup {"head", "local 503"}

\* Nothing is on its way to or from a connection.
Quiet(s) == lease[s] = None /\ mail[s] = <<>> /\ at[s] = "none"

\* It is with a connection, and has its lease there.
Leases(s) == lease[s] \in Conns /\ tries[s] >= 1

Unasked(s)    == told[s] = "idle" /\ job[s] = Idle /\ tries[s] = 0 /\ Quiet(s)
Attempting(s) == /\ told[s] = "waiting" /\ job[s].step # "none"
                 /\ tries[s] < Life!Allowed(s) /\ Quiet(s)
Asked(s)      == /\ told[s] = "waiting" /\ job[s] = Idle /\ Leases(s) /\ mail[s] = <<>>
                 /\ at[s] \in {"inbox", "queued", "running"} /\ on[s] = lease[s]
Headed(s)     == /\ job[s] = Idle /\ Leases(s) /\ at[s] = "headed" /\ on[s] = lease[s]
                 /\ \/ told[s] = "waiting" /\ mail[s] = <<"head">>
                    \/ told[s] = "head" /\ mail[s] = <<>>
Ended(s)      == /\ job[s] = Idle /\ Leases(s) /\ at[s] = "none"
                 /\ \/ told[s] = "waiting" /\ \E e \in Firsts : mail[s] = <<e>>
                    \/ told[s] = "waiting" /\ \E e \in Rests : mail[s] = <<"head", e>>
                    \/ told[s] = "head" /\ \E e \in Rests : mail[s] = <<e>>
Turned(s)     == /\ told[s] = "waiting" /\ job[s] = Idle /\ lease[s] = None /\ at[s] = "none"
                 /\ mail[s] = <<"local 503">>
Closed(s)     == told[s] \in Life!Over \ {"gave up"} /\ job[s] = Idle /\ Quiet(s)
GivenUp(s)    == told[s] = "gave up" /\ job[s] = Idle /\ lease[s] = None

Phase(s) == \/ Unasked(s) \/ Attempting(s) \/ Asked(s) \/ Headed(s)
            \/ Ended(s) \/ Turned(s) \/ Closed(s) \/ GivenUp(s)

\* What its attempt has found out so far, and where a retry may not go.
JobKnows(s) ==
    /\ job[s].step = "none" => job[s] = Idle
    /\ job[s].step \in {"claim", "checkout", "send"} => job[s].b \in Backends
    /\ job[s].step = "send" => job[s].c \in Conns /\ job[s].c[1] = job[s].b
    /\ job[s].step # "send" => job[s].c = None
    /\ job[s].step = "pick" => job[s].b = None
LandsElsewhere(s) ==
    /\ job[s].avoid # None /\ job[s].b # None
    /\ Backends \ (Faulty \cup {job[s].avoid}) # {}
    => job[s].b # job[s].avoid

\* Bad news of a request that has a lease comes of a faulty backend.
Blames(s) == \A i \in DOMAIN mail[s] :
                lease[s] # None /\ mail[s][i] \in {"gone", "reset"} => lease[s][1] \in Faulty

\* All that concerns one request.
Knows(s) == /\ Phase(s) /\ tries[s] <= Life!Allowed(s)
            /\ JobKnows(s) /\ LandsElsewhere(s) /\ Blames(s)
            /\ at[s] # "none" => on[s] \in Conns

\* A connection's queue holds each request that is queued there once.
InOrder(c, q) ==
    \A i \in DOMAIN q : /\ at[q[i]] = "queued" /\ on[q[i]] = c
                        /\ \A j \in DOMAIN q : q[i] = q[j] => i = j
Queues == \A c \in Conns : InOrder(c, queue[c])

\* Only a faulty backend's connections end, and only it has a bad record.
Sound == /\ \A c \in Conns : up[c] = "closed" \/ c \in retired => c[1] \in Faulty
         /\ \A b \in Backends \ Faulty : health[b] = NewEntry

Counts == \A c \in Conns : live[c] = Cardinality(Holders(c))

IInv == /\ TypeOK /\ mail \in [Streams -> Seq(Event)]
        /\ Counts /\ Queues /\ Sound /\ \A s \in Streams : Knows(s)

-----------------------------------------------------------------------------
(* Queues, and what leaves them. *)

LEMMA BoundedQueue ==
    ASSUME NEW n \in Nat, NEW q
    PROVE  q \in BoundedSeq(Streams, n) <=> q \in Seq(Streams) /\ Len(q) <= n
<1>1. ASSUME q \in BoundedSeq(Streams, n) PROVE q \in Seq(Streams) /\ Len(q) <= n
    <2>1. PICK m \in 0..n : q \in [1..m -> Streams]
        BY <1>1 DEF BoundedSeq, SeqOf
    <2> QED BY <2>1
<1>2. ASSUME q \in Seq(Streams), Len(q) <= n PROVE q \in BoundedSeq(Streams, n)
    <2>1. Len(q) \in 0..n /\ q \in [1..Len(q) -> Streams]
        BY <1>2
    <2> QED BY <2>1 DEF BoundedSeq, SeqOf
<1> QED BY <1>1, <1>2

LEMMA TypedTuning ==
    ASSUME TypeOK
    PROVE  tuning.pending \in Nat /\ tuning.conns \in Nat
BY ProxyAssumption DEF TypeOK

\* What Leave does: some `k` of those waiting start, and the rest wait on.
Left(c, gone, waiting, k) ==
    /\ queue' = [queue EXCEPT ![c] = SubSeq(waiting, k + 1, Len(waiting))]
    /\ at' = [s \in Streams |-> IF s \in gone THEN "none"
                                ELSE IF s \in ToSet(SubSeq(waiting, 1, k)) THEN "running" ELSE at[s]]
    /\ on' = [s \in Streams |-> IF s \in gone THEN None ELSE on[s]]

LEMMA LeaveStarts ==
    ASSUME NEW c, NEW gone, NEW waiting \in Seq(Streams), Leave(c, gone, waiting)
    PROVE  \E k \in 0..Len(waiting) : Left(c, gone, waiting, k)
<1> DEFINE busy == Cardinality(With(c, {"running", "headed"}) \ gone)
           room == IF busy < Limit THEN Limit - busy ELSE 0
           k    == IF room < Len(waiting) THEN room ELSE Len(waiting)
<1>1. busy \in Nat
    <2>1. With(c, {"running", "headed"}) \ gone \in SUBSET Streams
        BY DEF With
    <2> QED BY <2>1, FS_Subset, FS_CardinalityType, ProxyAssumption
<1>2. Left(c, gone, waiting, k)
    BY DEF Leave, Left
<1>3. k \in 0..Len(waiting)
    <2> HIDE DEF busy
    <2> QED BY <1>1, ProxyAssumption
<1> QED BY <1>2, <1>3

\* Of distinct elements, none is both in the front and in the rest.
LEMMA SplitQueue ==
    ASSUME NEW q \in Seq(Streams), NEW k \in 0..Len(q),
           \A i, j \in DOMAIN q : q[i] = q[j] => i = j
    PROVE  LET front == SubSeq(q, 1, k)
               rest  == SubSeq(q, k + 1, Len(q))
           IN  /\ rest \in Seq(Streams) /\ Len(rest) <= Len(q)
               /\ \A i \in DOMAIN rest :
                      /\ i + k \in DOMAIN q /\ rest[i] = q[i + k]
                      /\ rest[i] \notin ToSet(front)
                      /\ \A j \in DOMAIN rest : rest[i] = rest[j] => i = j
               /\ \A s \in ToSet(front) : \E i \in DOMAIN q : q[i] = s
<1> DEFINE front == SubSeq(q, 1, k)
           rest  == SubSeq(q, k + 1, Len(q))
<1>1. /\ front \in Seq(Streams) /\ Len(front) = k
      /\ \A i \in 1..k : front[i] = q[i]
    BY SubSeqProperties
<1>2. /\ rest \in Seq(Streams) /\ Len(rest) = Len(q) - k
      /\ \A i \in 1..(Len(q) - k) : rest[i] = q[i + k]
    BY SubSeqProperties
<1>3. ASSUME NEW i \in DOMAIN rest
      PROVE  /\ i + k \in DOMAIN q /\ rest[i] = q[i + k]
             /\ rest[i] \notin ToSet(front)
             /\ \A j \in DOMAIN rest : rest[i] = rest[j] => i = j
    <2> HIDE DEF front, rest
    <2>1. i \in 1..(Len(q) - k) /\ i + k \in DOMAIN q /\ rest[i] = q[i + k]
        BY <1>2
    <2>2. rest[i] \notin ToSet(front)
        <3>1. \A j \in DOMAIN front : j \in DOMAIN q /\ front[j] = q[j] /\ j # i + k
            BY <1>1, <2>1
        <3> QED BY <3>1, <2>1 DEF ToSet
    <2>3. ASSUME NEW j \in DOMAIN rest, rest[i] = rest[j] PROVE i = j
        <3>1. j \in 1..(Len(q) - k) /\ j + k \in DOMAIN q /\ rest[j] = q[j + k]
            BY <1>2
        <3>2. i + k = j + k
            BY <3>1, <2>1, <2>3
        <3> QED BY <3>2, <3>1, <2>1
    <2> QED BY <2>1, <2>2, <2>3
<1>4. \A s \in ToSet(front) : \E i \in DOMAIN q : q[i] = s
    <2> HIDE DEF front, rest
    <2> QED BY <1>1 DEF ToSet
<1> QED BY <1>2, <1>3, <1>4

\* Taking one of distinct elements out leaves the others, each once.
LEMMA WithoutOne ==
    ASSUME NEW q \in Seq(Streams), NEW s \in Streams,
           \A i, j \in DOMAIN q : q[i] = q[j] => i = j
    PROVE  LET w == Without(q, s)
           IN  /\ w \in Seq(Streams) /\ Len(w) <= Len(q)
               /\ \A i \in DOMAIN w :
                      /\ w[i] # s /\ \E j \in DOMAIN q : w[i] = q[j]
                      /\ \A j \in DOMAIN w : w[i] = w[j] => i = j
<1>1. CASE ~Contains(q, s)
    <2>1. Without(q, s) = q
        BY <1>1 DEF Without
    <2>2. \A i \in DOMAIN q : q[i] # s
        BY <1>1 DEF Contains
    <2> QED BY <2>1, <2>2
<1>2. CASE Contains(q, s)
    <2> DEFINE k == CHOOSE i \in 1..Len(q) : q[i] = s
               front == SubSeq(q, 1, k - 1)
               back  == SubSeq(q, k + 1, Len(q))
               w     == front \o back
    <2>1. k \in 1..Len(q) /\ q[k] = s
        BY <1>2 DEF Contains
    <2>2. Without(q, s) = w
        BY <1>2 DEF Without, RemoveAt
    <2> HIDE DEF k
    <2>3. /\ front \in Seq(Streams) /\ Len(front) = k - 1
          /\ \A i \in 1..(k - 1) : front[i] = q[i]
        BY <2>1, SubSeqProperties
    <2>4. /\ back \in Seq(Streams) /\ Len(back) = Len(q) - k
          /\ \A i \in 1..(Len(q) - k) : back[i] = q[i + k]
        BY <2>1, SubSeqProperties
    <2> HIDE DEF front, back
    <2>5. /\ w \in Seq(Streams) /\ Len(w) = Len(q) - 1
          /\ \A i \in 1..(Len(q) - 1) : w[i] = IF i < k THEN q[i] ELSE q[i + 1]
        <3>1. /\ w \in Seq(Streams) /\ Len(w) = Len(front) + Len(back)
              /\ \A i \in 1..(Len(front) + Len(back)) :
                    w[i] = IF i <= Len(front) THEN front[i] ELSE back[i - Len(front)]
            BY <2>3, <2>4, ConcatProperties, ZenonT(40)
        <3> HIDE DEF w
        <3>2. Len(w) = Len(q) - 1
            BY <2>1, <2>3, <2>4, <3>1
        <3>3. ASSUME NEW i \in 1..(Len(q) - 1), i < k PROVE w[i] = q[i]
            <4>1. i \in 1..(k - 1) /\ i <= Len(front) /\ i \in 1..(Len(front) + Len(back))
                BY <2>1, <2>3, <2>4, <3>3
            <4> QED BY <2>3, <3>1, <4>1
        <3>4. ASSUME NEW i \in 1..(Len(q) - 1), i >= k PROVE w[i] = q[i + 1]
            <4>1. i - (k - 1) \in 1..(Len(q) - k) /\ (i - (k - 1)) + k = i + 1
                BY <2>1, <3>4
            <4>2. i \in 1..(Len(front) + Len(back)) /\ ~(i <= Len(front)) /\ Len(front) = k - 1
                BY <2>1, <2>3, <2>4, <3>4
            <4>3. w[i] = back[i - Len(front)]
                BY <3>1, <4>2
            <4> QED BY <2>4, <4>1, <4>2, <4>3
        <3> QED BY <2>1, <3>1, <3>2, <3>3, <3>4
    <2> HIDE DEF w
    <2>6. ASSUME NEW i \in DOMAIN w
          PROVE  /\ w[i] # s /\ \E j \in DOMAIN q : w[i] = q[j]
                 /\ \A j \in DOMAIN w : w[i] = w[j] => i = j
        <3> DEFINE At(n) == IF n < k THEN n ELSE n + 1
        <3>1. \A n \in DOMAIN w : At(n) \in DOMAIN q /\ At(n) # k /\ w[n] = q[At(n)]
            BY <2>1, <2>5
        <3>2. w[i] # s /\ \E j \in DOMAIN q : w[i] = q[j]
            BY <2>1, <3>1
        <3>3. ASSUME NEW j \in DOMAIN w, w[i] = w[j] PROVE i = j
            <4>1. At(i) = At(j)
                BY <3>1, <3>3
            <4> QED BY <4>1, <2>1, <2>5
        <3> QED BY <3>2, <3>3
    <2> QED BY <2>2, <2>5, <2>6
<1> QED BY <1>1, <1>2

LEMMA TypedQueue ==
    ASSUME TypeOK, NEW c \in Conns
    PROVE  queue[c] \in Seq(Streams) /\ Len(queue[c]) <= tuning.pending
BY TypedTuning, BoundedQueue DEF TypeOK

\* Leave keeps the queues in order, and starts only what was queued.
Places == /\ at \in [Streams -> {"none", "inbox", "queued", "running", "headed"}]
          /\ on \in [Streams -> Conns \cup {None}]
          /\ queue \in [Conns -> BoundedSeq(Streams, tuning.pending)]
          /\ Queues

LEMMA LeaveKeepsPlaces ==
    ASSUME TypeOK, Queues, UNCHANGED tuning,
           NEW c \in Conns, NEW gone \in SUBSET Streams, NEW waiting \in Seq(Streams),
           Len(waiting) <= tuning.pending, InOrder(c, waiting),
           \A i \in DOMAIN waiting : waiting[i] \notin gone,
           \A s \in gone : on[s] = c,
           Leave(c, gone, waiting)
    PROVE  /\ Places'
           /\ \A s \in gone : at'[s] = "none" /\ on'[s] = None
           /\ \A s \in Streams \ gone :
                  on'[s] = on[s] /\ (at'[s] = at[s] \/ (at[s] = "queued" /\ at'[s] = "running"))
<1>1. PICK k \in 0..Len(waiting) : Left(c, gone, waiting, k)
    BY LeaveStarts
<1> DEFINE front == SubSeq(waiting, 1, k)
           rest  == SubSeq(waiting, k + 1, Len(waiting))
<1>2. \A i, j \in DOMAIN waiting : waiting[i] = waiting[j] => i = j
    BY DEF InOrder
<1>3. /\ rest \in Seq(Streams) /\ Len(rest) <= Len(waiting)
      /\ \A i \in DOMAIN rest :
             /\ i + k \in DOMAIN waiting /\ rest[i] = waiting[i + k]
             /\ rest[i] \notin ToSet(front)
             /\ \A j \in DOMAIN rest : rest[i] = rest[j] => i = j
      /\ \A s \in ToSet(front) : \E i \in DOMAIN waiting : waiting[i] = s
    BY <1>2, SplitQueue
<1>4. /\ queue' = [queue EXCEPT ![c] = rest]
      /\ at' = [s \in Streams |-> IF s \in gone THEN "none"
                                  ELSE IF s \in ToSet(front) THEN "running" ELSE at[s]]
      /\ on' = [s \in Streams |-> IF s \in gone THEN None ELSE on[s]]
    BY <1>1 DEF Left
<1> HIDE DEF front, rest
<1>5. \A s \in ToSet(front) : at[s] = "queued" /\ on[s] = c
    BY <1>3 DEF InOrder
<1>6. queue' \in [Conns -> BoundedSeq(Streams, tuning'.pending)]
    <2>1. Len(rest) \in Nat /\ Len(waiting) \in Nat
        BY <1>3
    <2>2. rest \in BoundedSeq(Streams, tuning.pending)
        BY <2>1, <1>3, BoundedQueue, TypedTuning
    <2> QED BY <2>2, <1>4 DEF TypeOK
<1>7. at' \in [Streams -> {"none", "inbox", "queued", "running", "headed"}]
    BY <1>4 DEF TypeOK
<1>8. on' \in [Streams -> Conns \cup {None}]
    BY <1>4 DEF TypeOK
<1>9. Queues'
    <2>1. (InOrder(c, queue[c]))'
        <3>1. ASSUME NEW i \in DOMAIN rest PROVE at'[rest[i]] = "queued" /\ on'[rest[i]] = c
            <4>1. /\ rest[i] \in Streams /\ rest[i] \notin gone /\ rest[i] \notin ToSet(front)
                  /\ at[rest[i]] = "queued" /\ on[rest[i]] = c
                BY <1>3 DEF InOrder
            <4> QED BY <4>1, <1>4
        <3>2. queue'[c] = rest
            BY <1>4 DEF TypeOK
        <3> QED BY <3>1, <3>2, <1>3 DEF InOrder
    <2>2. ASSUME NEW d \in Conns, d # c PROVE (InOrder(d, queue[d]))'
        <3>1. queue'[d] = queue[d]
            BY <1>4, <2>2 DEF TypeOK
        <3>2. ASSUME NEW i \in DOMAIN queue[d]
              PROVE  at'[queue[d][i]] = "queued" /\ on'[queue[d][i]] = d
            <4>1. queue[d][i] \in Streams /\ at[queue[d][i]] = "queued" /\ on[queue[d][i]] = d
                BY TypedQueue DEF Queues, InOrder
            <4>2. queue[d][i] \notin gone /\ queue[d][i] \notin ToSet(front)
                BY <4>1, <2>2, <1>5
            <4> QED BY <4>1, <4>2, <1>4
        <3> QED BY <3>1, <3>2 DEF Queues, InOrder
    <2> QED BY <2>1, <2>2 DEF Queues
<1> QED BY <1>4, <1>5, <1>6, <1>7, <1>8, <1>9 DEF Places, TypeOK

-----------------------------------------------------------------------------
(* What the connection tasks and the backends do to a request.              *)

Stays(s)    == /\ at'[s] = at[s] /\ mail'[s] = mail[s]
               /\ at[s] # "none" => on'[s] = on[s]
Starts(s)   == /\ at[s] \in {"inbox", "queued"} /\ at'[s] \in {"queued", "running"}
               /\ on'[s] = on[s] /\ mail'[s] = mail[s]
Answers(s)  == /\ at[s] = "running" /\ at'[s] = "headed"
               /\ on'[s] = on[s] /\ mail'[s] = Append(mail[s], "head")
Leaves(s)   == /\ at[s] # "none" /\ at'[s] = "none" /\ on'[s] = None
               /\ \E e \in IF at[s] = "headed" THEN Rests ELSE Firsts :
                     /\ mail'[s] = Append(mail[s], e)
                     /\ e \in {"gone", "reset"} => on[s][1] \in Faulty
Cancelled(s) == lease[s] = None /\ at[s] # "none" /\ at'[s] = "none" /\ mail'[s] = mail[s]

Moved(s) == Stays(s) \/ Starts(s) \/ Answers(s) \/ Leaves(s) \/ Cancelled(s)

\* A request that has its lease is on that connection, if it is anywhere, and
\* what has been said of it says how far it is.
LEMMA WhereItIs ==
    ASSUME NEW s, Phase(s), at[s] # "none"
    PROVE  \/ GivenUp(s)
           \/ lease[s] \in Conns /\ on[s] = lease[s] /\ (Asked(s) \/ Headed(s))
BY DEF Phase, Unasked, Attempting, Asked, Headed, Ended, Turned, Closed, GivenUp, Quiet, Leases

LEMMA OneMore ==
    ASSUME NEW S, NEW q \in Seq(S), NEW e \in S
    PROVE  /\ Append(q, e) \in Seq(S)
           /\ \A i \in DOMAIN Append(q, e) :
                  Append(q, e)[i] = e \/ (i \in DOMAIN q /\ Append(q, e)[i] = q[i])
OBVIOUS

LEMMA HeadThen ==
    ASSUME NEW S, NEW a \in S, NEW e \in S
    PROVE  Append(<<a>>, e) = <<a, e>> /\ Append(<<>>, e) = <<e>>
<1> DEFINE p == Append(<<a>>, e)
<1>1. <<a>> \in Seq(S) /\ Len(<<a>>) = 1 /\ <<a>>[1] = a
    OBVIOUS
<1>2. p \in Seq(S) /\ Len(p) = 2 /\ p[1] = a /\ p[2] = e
    BY <1>1
<1>3. <<a, e>> \in Seq(S) /\ Len(<<a, e>>) = 2
    OBVIOUS
<1> HIDE DEF p
<1>4. p = <<a, e>>
    BY <1>2, <1>3
<1> QED BY <1>4 DEF p

LEMMA MovedKnows ==
    ASSUME NEW s, mail[s] \in Seq(Event), Knows(s), Moved(s),
           told'[s] = told[s], tries'[s] = tries[s], job'[s] = job[s], lease'[s] = lease[s]
    PROVE  mail'[s] \in Seq(Event) /\ Knows(s)'
<1> USE DEF Knows
<1>1. CASE Stays(s)
    BY <1>1 DEF Stays, Phase, Unasked, Attempting, Asked, Headed, Ended, Turned, Closed, GivenUp,
                Quiet, Leases, JobKnows, LandsElsewhere, Blames, Life!Allowed
<1>2. tries'[s] <= Life!Allowed(s)' /\ JobKnows(s)' /\ LandsElsewhere(s)'
    BY DEF JobKnows, LandsElsewhere, Life!Allowed
<1>3. CASE Starts(s)
    <2>1. Phase(s)'
        BY <1>3, WhereItIs DEF Starts, Phase, Asked, Headed, GivenUp, Leases
    <2>2. Blames(s)'
        BY <1>3 DEF Starts, Blames
    <2> QED BY <1>2, <1>3, <2>1, <2>2 DEF Starts
<1>4. CASE Answers(s)
    <2>1. Phase(s)'
        <3>1. CASE GivenUp(s)
            BY <1>4, <3>1 DEF GivenUp, Phase
        <3>2. CASE Asked(s)
            <4>1. mail'[s] = <<"head">>
                BY <1>4, <3>2 DEF Asked, Answers
            <4> QED BY <1>4, <3>2, <4>1 DEF Asked, Answers, Headed, Leases, Phase
        <3> QED BY <1>4, <3>1, <3>2, WhereItIs DEF Answers, Headed
    <2>2. mail'[s] \in Seq(Event) /\ Blames(s)'
        <3>1. "head" \in Event
            BY DEF Event
        <3> QED BY <1>4, <3>1, OneMore DEF Answers, Blames
    <2> QED BY <1>2, <1>4, <2>1, <2>2 DEF Answers
<1>5. CASE Leaves(s)
    <2>1. PICK e \in IF at[s] = "headed" THEN Rests ELSE Firsts :
                mail'[s] = Append(mail[s], e) /\ (e \in {"gone", "reset"} => on[s][1] \in Faulty)
        BY <1>5 DEF Leaves
    <2>2. Phase(s)'
        <3>1. CASE GivenUp(s)
            BY <1>5, <3>1 DEF GivenUp, Phase
        <3>2. CASE Asked(s)
            <4>1. mail'[s] = <<e>> /\ e \in Firsts
                BY <2>1, <3>2 DEF Asked
            <4>2. Ended(s)'
                BY <1>5, <3>2, <4>1 DEF Asked, Leaves, Ended, Leases
            <4> QED BY <4>2 DEF Phase
        <3>3. CASE Headed(s)
            <4>1. e \in Rests
                BY <2>1, <3>3 DEF Headed
            <4>2. (told[s] = "waiting" /\ mail'[s] = <<"head", e>>)
                  \/ (told[s] = "head" /\ mail'[s] = <<e>>)
                <5>1. Append(<<"head">>, e) = <<"head", e>> /\ Append(<<>>, e) = <<e>>
                    <6>1. "head" \in Event /\ e \in Event
                        BY <4>1 DEF Event
                    <6> QED BY <6>1, HeadThen
                <5> QED BY <2>1, <3>3, <5>1 DEF Headed
            <4>3. Ended(s)'
                BY <1>5, <3>3, <4>1, <4>2 DEF Headed, Leaves, Ended, Leases
            <4> QED BY <4>3 DEF Phase
        <3> QED BY <1>5, <3>1, <3>2, <3>3, WhereItIs DEF Leaves
    <2>3. e \in Event
        BY <2>1 DEF Event, Firsts, Rests
    <2>4. mail'[s] \in Seq(Event) /\ Blames(s)'
        <3>1. lease[s] # None => on[s] = lease[s]
            BY <1>5, WhereItIs DEF Leaves, GivenUp
        <3>2. /\ mail'[s] \in Seq(Event)
              /\ \A i \in DOMAIN mail'[s] :
                     mail'[s][i] = e \/ (i \in DOMAIN mail[s] /\ mail'[s][i] = mail[s][i])
            BY <2>1, <2>3, OneMore
        <3> QED BY <2>1, <3>1, <3>2 DEF Blames
    <2> QED BY <1>2, <1>5, <2>2, <2>3, <2>4 DEF Leaves
<1>6. CASE Cancelled(s)
    <2>1. GivenUp(s)
        BY <1>6, WhereItIs, ProxyAssumption DEF Cancelled
    <2>2. Phase(s)' /\ Blames(s)'
        BY <1>6, <2>1 DEF Cancelled, GivenUp, Phase, Blames
    <2> QED BY <1>2, <1>6, <2>2 DEF Cancelled
<1> QED BY <1>1, <1>3, <1>4, <1>5, <1>6 DEF Moved

LEMMA PostOne ==
    ASSUME NEW s \in Streams, NEW e, Post(Only(s, e))
    PROVE  mail' = [r \in Streams |-> IF r = s THEN Append(mail[r], e) ELSE mail[r]]
BY DEF Post, Only

\* A step of the tasks and backends, which leave the proxy's own state alone.
Tasks == /\ UNCHANGED <<told, tries, job, lease, live, tuning, pooled>>
         /\ Places'
         /\ mail' = [s \in Streams |-> mail'[s]]
         /\ \A s \in Streams : Moved(s)

LEMMA TasksKeep ==
    ASSUME IInv, Tasks, Sound',
           up' \in [Conns -> {"unused", "connecting", "open", "closed"}],
           retired' \subseteq Conns, health' \in [Backends -> Entry], trouble' \in 0..MaxTrouble
    PROVE  IInv'
<1>1. TypeOK'
    BY DEF IInv, Tasks, Places, TypeOK
<1>2. Counts'
    BY DEF IInv, Tasks, Counts, Holders
<1>3. ASSUME NEW s \in Streams PROVE Knows(s)' /\ mail'[s] \in Seq(Event)
    BY MovedKnows DEF IInv, Tasks
<1>4. mail' \in [Streams -> Seq(Event)]
    BY <1>3 DEF Tasks
<1> QED BY <1>1, <1>2, <1>3, <1>4 DEF IInv, Tasks, Places

\* One request leaves its connection, which is told to the proxy.
LEMMA FreeMoves ==
    ASSUME IInv, UNCHANGED tuning, NEW s \in Streams, at[s] \in {"inbox", "running", "headed"},
           NEW e \in IF at[s] = "headed" THEN Rests ELSE Firsts,
           e \in {"gone", "reset"} => on[s][1] \in Faulty,
           Free(s), Post(Only(s, e))
    PROVE  /\ Places' /\ mail' = [r \in Streams |-> mail'[r]]
           /\ \A r \in Streams : Moved(r)
<1>1. on[s] \in Conns
    BY DEF IInv, Knows
<1>2. /\ TypeOK /\ Queues
      /\ queue[on[s]] \in Seq(Streams) /\ Len(queue[on[s]]) <= tuning.pending
      /\ InOrder(on[s], queue[on[s]])
    BY <1>1, TypedQueue DEF IInv, Queues
<1>3. \A i \in DOMAIN queue[on[s]] : queue[on[s]][i] \notin {s}
    BY <1>2 DEF InOrder
<1>4. /\ Places'
      /\ \A r \in {s} : at'[r] = "none" /\ on'[r] = None
      /\ \A r \in Streams \ {s} :
             on'[r] = on[r] /\ (at'[r] = at[r] \/ (at[r] = "queued" /\ at'[r] = "running"))
    <2> DEFINE c == on[s]
               q == queue[on[s]]
               gone == {s}
    <2>1. /\ c \in Conns /\ q \in Seq(Streams) /\ Len(q) <= tuning.pending /\ InOrder(c, q)
          /\ gone \in SUBSET Streams /\ (\A i \in DOMAIN q : q[i] \notin gone)
          /\ (\A r \in gone : on[r] = c) /\ Leave(c, gone, q)
        BY <1>1, <1>2, <1>3 DEF Free
    <2> HIDE DEF c, q, gone
    <2>2. /\ Places'
          /\ \A r \in gone : at'[r] = "none" /\ on'[r] = None
          /\ \A r \in Streams \ gone :
                 on'[r] = on[r] /\ (at'[r] = at[r] \/ (at[r] = "queued" /\ at'[r] = "running"))
        BY <1>2, <2>1, LeaveKeepsPlaces
    <2> QED BY <2>2 DEF gone
<1>5. mail' = [r \in Streams |-> IF r = s THEN Append(mail[r], e) ELSE mail[r]]
    BY PostOne
<1>6. Leaves(s)
    BY <1>4, <1>5 DEF Leaves
<1>7. ASSUME NEW r \in Streams, r # s PROVE Stays(r) \/ Starts(r)
    BY <1>4, <1>5, <1>7 DEF Stays, Starts
<1> QED BY <1>4, <1>5, <1>6, <1>7 DEF Moved

LEMMA KeepsPlaces ==
    ASSUME TypeOK, Queues, UNCHANGED <<tuning, queue, on>>,
           at' \in [Streams -> {"none", "inbox", "queued", "running", "headed"}],
           \A s \in Streams : at[s] = "queued" => at'[s] = "queued"
    PROVE  Places'
<1>1. ASSUME NEW c \in Conns PROVE (InOrder(c, queue[c]))'
    <2>1. \A i \in DOMAIN queue[c] : queue[c][i] \in Streams
        BY TypedQueue
    <2> QED BY <2>1 DEF Queues, InOrder
<1> QED BY <1>1 DEF Places, Queues, TypeOK

LEMMA BackendHeadKeeps == ASSUME IInv, NEW s \in Streams, BackendHead(s) PROVE IInv'
<1> USE DEF BackendHead, Hears
<1>1. mail' = [r \in Streams |-> IF r = s THEN Append(mail[r], "head") ELSE mail[r]]
    BY PostOne
<1>2. Places'
    BY KeepsPlaces DEF IInv, TypeOK, poolVars
<1>3. ASSUME NEW r \in Streams PROVE Moved(r)
    <2>1. r # s => Stays(r)
        BY <1>1 DEF Stays, IInv, TypeOK
    <2>2. r = s => Answers(r)
        BY <1>1 DEF Answers, IInv, TypeOK
    <2> QED BY <2>1, <2>2 DEF Moved
<1>4. Tasks
    BY <1>1, <1>2, <1>3 DEF Tasks, poolVars
<1> QED BY <1>4, TasksKeep DEF IInv, TypeOK, Sound, poolVars

LEMMA BackendEndKeeps == ASSUME IInv, NEW s \in Streams, BackendEnd(s) PROVE IInv'
<1> DEFINE e == IF at[s] = "running" THEN "answer" ELSE "end"
<1>1. /\ at[s] \in {"inbox", "running", "headed"}
      /\ e \in IF at[s] = "headed" THEN Rests ELSE Firsts
      /\ ~(e \in {"gone", "reset"})
    BY DEF BackendEnd, Firsts, Rests
<1>2. Free(s) /\ Post(Only(s, e)) /\ UNCHANGED tuning
    BY DEF BackendEnd, Hears, poolVars
<1> HIDE DEF e
<1>3. /\ Places' /\ mail' = [r \in Streams |-> mail'[r]]
      /\ \A r \in Streams : Moved(r)
    BY <1>1, <1>2, FreeMoves
<1>4. Tasks
    BY <1>3 DEF Tasks, BackendEnd, Hears, poolVars
<1> QED BY <1>4, TasksKeep DEF BackendEnd, Hears, IInv, TypeOK, Sound, poolVars

LEMMA TroubleBounded == ASSUME TypeOK, Trouble PROVE trouble' \in 0..MaxTrouble
<1>1. MaxTrouble \in Nat
    BY ProxyAssumption
<1>2. trouble \in 0..MaxTrouble /\ trouble < MaxTrouble /\ trouble' = trouble + 1
    BY DEF TypeOK, Trouble
<1> QED BY <1>1, <1>2

LEMMA BackendRefusesKeeps == ASSUME IInv, NEW s \in Streams, BackendRefuses(s) PROVE IInv'
<1>1. "refused" \in (IF at[s] = "headed" THEN Rests ELSE Firsts) /\ "refused" \notin {"gone", "reset"}
    BY DEF BackendRefuses, Firsts
<1>2. /\ Places' /\ mail' = [r \in Streams |-> mail'[r]]
      /\ \A r \in Streams : Moved(r)
    BY <1>1, FreeMoves DEF BackendRefuses, Hears, poolVars
<1>3. Tasks
    BY <1>2 DEF Tasks, BackendRefuses, Hears, poolVars
<1>4. trouble' \in 0..MaxTrouble
    BY TroubleBounded DEF BackendRefuses, IInv
<1> QED BY <1>3, <1>4, TasksKeep DEF BackendRefuses, Hears, IInv, TypeOK, Sound, poolVars

LEMMA BackendResetsKeeps == ASSUME IInv, NEW s \in Streams, BackendResets(s) PROVE IInv'
<1>1. "reset" \in IF at[s] = "headed" THEN Rests ELSE Firsts
    BY DEF Firsts, Rests
<1>2. /\ Places' /\ mail' = [r \in Streams |-> mail'[r]]
      /\ \A r \in Streams : Moved(r)
    BY <1>1, FreeMoves DEF BackendResets, Hears, poolVars
<1>3. Tasks
    BY <1>2 DEF Tasks, BackendResets, Hears, poolVars
<1>4. trouble' \in 0..MaxTrouble
    BY TroubleBounded DEF BackendResets, IInv
<1> QED BY <1>3, <1>4, TasksKeep DEF BackendResets, Hears, IInv, TypeOK, Sound, poolVars

LEMMA TakeRequestKeeps == ASSUME IInv, NEW s \in Streams, TakeRequest(s) PROVE IInv'
<1> DEFINE c == on[s]
<1>1. at[s] = "inbox" /\ c \in Conns
    BY DEF TakeRequest, IInv, Knows
<1>2. UNCHANGED <<told, tries, job, lease, live, tuning, pooled, retired, health, up, trouble>>
    BY DEF TakeRequest, poolVars
<1>3. ASSUME NEW e \in {"refused", "shed"}, Free(s), Post(Only(s, e)) PROVE Tasks
    <2>1. e \in (IF at[s] = "headed" THEN Rests ELSE Firsts) /\ e \notin {"gone", "reset"}
        BY <1>1 DEF Firsts
    <2> QED BY <1>1, <1>2, <1>3, <2>1, FreeMoves DEF Tasks
<1>4. ASSUME at' = [at EXCEPT ![s] = "running"], UNCHANGED <<on, queue, mail>> PROVE Tasks
    <2>1. Places'
        BY <1>1, <1>2, <1>4, KeepsPlaces DEF IInv, TypeOK
    <2>2. \A r \in Streams : IF r = s THEN Starts(r) ELSE Stays(r)
        BY <1>1, <1>4 DEF Starts, Stays, IInv, TypeOK
    <2> QED BY <1>2, <1>4, <2>1, <2>2 DEF Tasks, Moved, IInv
<1>5. ASSUME at' = [at EXCEPT ![s] = "queued"], queue' = [queue EXCEPT ![c] = Append(@, s)],
             Queued(c) < tuning.pending, UNCHANGED <<on, mail>>
      PROVE  Tasks
    <2> DEFINE q == queue[c]
    <2>1. /\ TypeOK /\ Queues /\ q \in Seq(Streams) /\ Len(q) < tuning.pending
          /\ tuning.pending \in Nat
        BY <1>1, <1>5, TypedQueue, TypedTuning DEF IInv, Queued
    <2>2. /\ Append(q, s) \in Seq(Streams) /\ Len(Append(q, s)) <= tuning.pending
          /\ DOMAIN Append(q, s) = 1..(Len(q) + 1) /\ DOMAIN q = 1..Len(q)
          /\ Append(q, s)[Len(q) + 1] = s
          /\ \A i \in 1..Len(q) : Append(q, s)[i] = q[i]
        BY <2>1
    <2>3. queue' \in [Conns -> BoundedSeq(Streams, tuning'.pending)]
        BY <1>2, <1>5, <2>1, <2>2, BoundedQueue DEF TypeOK
    <2>4. (InOrder(c, queue[c]))'
        <3>1. queue'[c] = Append(q, s)
            BY <1>1, <1>5, <2>1 DEF TypeOK
        <3>2. \A i \in 1..Len(q) : q[i] # s /\ q[i] \in Streams /\ at[q[i]] = "queued" /\ on[q[i]] = c
            BY <1>1, <2>1 DEF Queues, InOrder
        <3>3. \A i \in 1..Len(q) : \A j \in 1..Len(q) : q[i] = q[j] => i = j
            BY <1>1, <2>1 DEF Queues, InOrder
        <3>4. \A i \in 1..(Len(q) + 1) : at'[Append(q, s)[i]] = "queued" /\ on'[Append(q, s)[i]] = c
            <4>1. on' = on /\ at'[s] = "queued" /\ on[s] = c
                BY <1>5, <2>1 DEF TypeOK
            <4>2. \A r \in Streams : at[r] = "queued" => at'[r] = "queued"
                BY <1>5, <2>1 DEF TypeOK
            <4>3. ASSUME NEW i \in 1..(Len(q) + 1), i # Len(q) + 1 PROVE i \in 1..Len(q)
                BY <4>3, <2>1
            <4> HIDE DEF c, q
            <4> QED BY <2>2, <3>2, <4>1, <4>2, <4>3
        <3>5. \A i, j \in 1..(Len(q) + 1) : Append(q, s)[i] = Append(q, s)[j] => i = j
            <4>1. ASSUME NEW i \in 1..(Len(q) + 1), NEW j \in 1..(Len(q) + 1),
                         Append(q, s)[i] = Append(q, s)[j]
                  PROVE  i = j
                <5>1. CASE i = Len(q) + 1 /\ j \in 1..Len(q)
                    BY <2>1, <2>2, <3>2, <4>1, <5>1
                <5>2. CASE j = Len(q) + 1 /\ i \in 1..Len(q)
                    BY <2>1, <2>2, <3>2, <4>1, <5>2
                <5>3. CASE i \in 1..Len(q) /\ j \in 1..Len(q)
                    BY <2>1, <2>2, <3>3, <4>1, <5>3
                <5>4. CASE i = Len(q) + 1 /\ j = Len(q) + 1
                    BY <5>4
                <5> QED BY <2>1, <5>1, <5>2, <5>3, <5>4
            <4> QED BY <4>1
        <3> QED BY <1>5, <3>1, <3>4, <3>5, <2>2 DEF InOrder
    <2>5. ASSUME NEW d \in Conns, d # c PROVE (InOrder(d, queue[d]))'
        <3>1. queue'[d] = queue[d] /\ \A i \in DOMAIN queue[d] : queue[d][i] \in Streams
            <4>1. \A i \in DOMAIN queue[d] : queue[d][i] \in Streams
                BY <2>1, TypedQueue
            <4>2. DOMAIN queue = Conns
                BY <2>1 DEF TypeOK
            <4> HIDE DEF c
            <4> QED BY <1>5, <2>5, <4>1, <4>2
        <3>2. on' = on /\ \A r \in Streams : at[r] = "queued" => at'[r] = "queued"
            BY <1>5, <2>1 DEF TypeOK
        <3> HIDE DEF c, q
        <3> QED BY <2>1, <3>1, <3>2 DEF Queues, InOrder
    <2>6. Places'
        BY <1>5, <2>1, <2>3, <2>4, <2>5 DEF Places, Queues, TypeOK
    <2>7. \A r \in Streams : IF r = s THEN Starts(r) ELSE Stays(r)
        BY <1>1, <1>5, <2>1 DEF Starts, Stays, TypeOK
    <2> QED BY <1>2, <1>5, <2>6, <2>7 DEF Tasks, Moved, IInv
<1>6. Tasks
    BY <1>3, <1>4, <1>5 DEF TakeRequest
<1> QED BY <1>2, <1>6, TasksKeep DEF IInv, TypeOK, Sound

LEMMA TakeCancelKeeps == ASSUME IInv, NEW s \in Streams, TakeCancel(s) PROVE IInv'
<1> DEFINE c == on[s]
           q == queue[c]
           w == Without(q, s)
<1>1. /\ TypeOK /\ Queues /\ c \in Conns /\ at[s] # "none" /\ lease[s] = None
      /\ Leave(c, {s}, w)
      /\ UNCHANGED <<told, tries, job, lease, mail, live, tuning, pooled>>
    BY DEF TakeCancel, IInv, Knows, poolVars
<1>2. /\ q \in Seq(Streams) /\ Len(q) <= tuning.pending /\ tuning.pending \in Nat
      /\ InOrder(c, q)
    BY <1>1, TypedQueue, TypedTuning DEF Queues
<1>3. \A i, j \in DOMAIN q : q[i] = q[j] => i = j
    BY <1>2 DEF InOrder
<1> HIDE DEF q
<1>4. /\ w \in Seq(Streams) /\ Len(w) <= Len(q)
      /\ \A i \in DOMAIN w :
             /\ w[i] # s /\ \E j \in DOMAIN q : w[i] = q[j]
             /\ \A j \in DOMAIN w : w[i] = w[j] => i = j
    BY <1>2, <1>3, WithoutOne
<1> HIDE DEF w, c
<1>5. InOrder(c, w)
    BY <1>2, <1>4 DEF InOrder
<1>6. Len(w) <= tuning.pending
    BY <1>2, <1>4
<1>7. /\ Places'
      /\ \A r \in {s} : at'[r] = "none" /\ on'[r] = None
      /\ \A r \in Streams \ {s} :
             on'[r] = on[r] /\ (at'[r] = at[r] \/ (at[r] = "queued" /\ at'[r] = "running"))
    <2> DEFINE gone == {s}
    <2>1. /\ gone \in SUBSET Streams /\ (\A i \in DOMAIN w : w[i] \notin gone)
          /\ (\A r \in gone : on[r] = c) /\ Leave(c, gone, w) /\ UNCHANGED tuning
        BY <1>1, <1>4 DEF c
    <2> HIDE DEF gone
    <2>2. /\ Places'
          /\ \A r \in gone : at'[r] = "none" /\ on'[r] = None
          /\ \A r \in Streams \ gone :
                 on'[r] = on[r] /\ (at'[r] = at[r] \/ (at[r] = "queued" /\ at'[r] = "running"))
        BY <1>1, <1>4, <1>5, <1>6, <2>1, LeaveKeepsPlaces
    <2> QED BY <2>2 DEF gone
<1>8. \A r \in Streams : IF r = s THEN Cancelled(r) ELSE Stays(r) \/ Starts(r)
    BY <1>1, <1>7 DEF Cancelled, Stays, Starts
<1>9. Tasks
    BY <1>1, <1>7, <1>8 DEF Tasks, Moved, IInv
<1> QED BY <1>9, TasksKeep DEF TakeCancel, IInv, TypeOK, Sound, poolVars

LEMMA DrainKeeps == ASSUME IInv, NEW c \in Conns, Drain(c) PROVE IInv'
<1>1. PICK above \in SUBSET With(c, {"running"}) :
         LET refused == above \cup With(c, {"queued"}) IN
         Leave(c, refused, <<>>) /\ Post([s \in refused |-> "refused"])
    BY DEF Drain
<1> DEFINE refused == above \cup With(c, {"queued"})
<1>2. /\ TypeOK /\ Queues /\ tuning.pending \in Nat
      /\ UNCHANGED <<told, tries, job, lease, live, tuning, pooled>>
    BY TypedTuning DEF Drain, IInv
<1>3. /\ refused \in SUBSET Streams
      /\ \A s \in refused : on[s] = c /\ at[s] \in {"queued", "running"}
      /\ Leave(c, refused, <<>>)
      /\ mail' = [s \in Streams |-> IF s \in refused THEN Append(mail[s], "refused") ELSE mail[s]]
    BY <1>1 DEF With, Post
<1> HIDE DEF refused
<1>4. /\ Places'
      /\ \A s \in refused : at'[s] = "none" /\ on'[s] = None
      /\ \A s \in Streams \ refused :
             on'[s] = on[s] /\ (at'[s] = at[s] \/ (at[s] = "queued" /\ at'[s] = "running"))
    <2> DEFINE w == <<>>
    <2>1. /\ w \in Seq(Streams) /\ Len(w) <= tuning.pending /\ InOrder(c, w)
          /\ \A i \in DOMAIN w : w[i] \notin refused
        BY <1>2 DEF InOrder
    <2>2. Leave(c, refused, w)
        BY <1>3
    <2> HIDE DEF w
    <2> QED BY <1>2, <1>3, <2>1, <2>2, LeaveKeepsPlaces
<1>5. \A s \in Streams : IF s \in refused THEN Leaves(s) ELSE Stays(s) \/ Starts(s)
    BY <1>3, <1>4 DEF Leaves, Stays, Starts, Firsts
<1>6. Tasks
    BY <1>2, <1>3, <1>4, <1>5 DEF Tasks, Moved
<1>7. trouble' \in 0..MaxTrouble
    BY TroubleBounded DEF Drain, IInv
<1> QED BY <1>6, <1>7, TasksKeep DEF Drain, IInv, TypeOK, Sound

LEMMA CloseMoves ==
    ASSUME IInv, NEW c \in Conns, Close(c), c[1] \in Faulty,
           UNCHANGED <<told, tries, job, lease, poolVars>>
    PROVE  Tasks /\ up' = [up EXCEPT ![c] = "closed"]
<1> DEFINE heard == With(c, {"inbox", "queued", "running", "headed"})
<1>1. /\ TypeOK /\ Queues /\ tuning.pending \in Nat
    BY TypedTuning DEF IInv
<1>2. /\ up' = [up EXCEPT ![c] = "closed"] /\ queue' = [queue EXCEPT ![c] = <<>>]
      /\ at' = [s \in Streams |-> IF on[s] = c THEN "none" ELSE at[s]]
      /\ on' = [s \in Streams |-> IF on[s] = c THEN None ELSE on[s]]
      /\ mail' = [s \in Streams |-> IF s \in heard
                                    THEN Append(mail[s], IF at[s] = "headed" THEN "reset" ELSE "gone")
                                    ELSE mail[s]]
    BY DEF Close, Closing, Post, With
<1>3. \A s \in Streams : s \in heard <=> on[s] = c /\ at[s] # "none"
    BY <1>1 DEF With, TypeOK
<1> HIDE DEF heard
<1>4. Places'
    <2>1. <<>> \in BoundedSeq(Streams, tuning.pending)
        <3>1. <<>> \in Seq(Streams) /\ Len(<<>>) <= tuning.pending
            BY <1>1
        <3> QED BY <1>1, <3>1, BoundedQueue
    <2>2. /\ at' \in [Streams -> {"none", "inbox", "queued", "running", "headed"}]
          /\ on' \in [Streams -> Conns \cup {None}]
          /\ queue' \in [Conns -> BoundedSeq(Streams, tuning'.pending)]
        BY <1>1, <1>2, <2>1 DEF TypeOK, poolVars
    <2>3. ASSUME NEW d \in Conns PROVE (InOrder(d, queue[d]))'
        <3>1. CASE d = c
            <4>1. queue'[d] = <<>>
                BY <1>1, <1>2, <3>1 DEF TypeOK
            <4> QED BY <4>1 DEF InOrder
        <3>2. CASE d # c
            <4>1. queue'[d] = queue[d]
                BY <1>1, <1>2, <3>2 DEF TypeOK
            <4>2. \A i \in DOMAIN queue[d] : queue[d][i] \in Streams /\ on[queue[d][i]] = d
                BY <1>1, TypedQueue DEF Queues, InOrder
            <4>3. \A s \in Streams : on[s] = d => at'[s] = at[s] /\ on'[s] = on[s]
                BY <1>2, <3>2
            <4> QED BY <1>1, <4>1, <4>2, <4>3 DEF Queues, InOrder
        <3> QED BY <3>1, <3>2
    <2> QED BY <2>2, <2>3 DEF Places, Queues
<1>5. ASSUME NEW s \in Streams PROVE Leaves(s) \/ Stays(s)
    <2>1. CASE s \in heard
        <3> DEFINE e == IF at[s] = "headed" THEN "reset" ELSE "gone"
        <3>1. e \in IF at[s] = "headed" THEN Rests ELSE Firsts
            BY DEF Firsts, Rests
        <3> QED BY <1>2, <1>3, <2>1, <3>1 DEF Leaves
    <2>2. CASE s \notin heard
        BY <1>1, <1>2, <1>3, <2>2 DEF Stays, TypeOK
    <2> QED BY <2>1, <2>2
<1> QED BY <1>2, <1>4, <1>5 DEF Tasks, Moved, poolVars

LEMMA ConnectFailsKeeps == ASSUME IInv, NEW c \in Conns, ConnectFails(c) PROVE IInv'
<1>1. Tasks /\ up' = [up EXCEPT ![c] = "closed"]
    BY CloseMoves DEF ConnectFails
<1>2. trouble' \in 0..MaxTrouble
    BY TroubleBounded DEF ConnectFails, IInv
<1> QED BY <1>1, <1>2, TasksKeep DEF ConnectFails, IInv, TypeOK, Sound, poolVars

LEMMA DrainDoneKeeps == ASSUME IInv, NEW c \in Conns, DrainDone(c) PROVE IInv'
<1>1. c[1] \in Faulty
    BY DEF DrainDone, IInv, Sound
<1>2. Tasks /\ up' = [up EXCEPT ![c] = "closed"]
    BY <1>1, CloseMoves DEF DrainDone
<1> QED BY <1>1, <1>2, TasksKeep DEF DrainDone, IInv, TypeOK, Sound, poolVars

\* Nothing that is recorded of a backend makes its entry another kind of thing.
LEMMA EntryTyped ==
    ASSUME NEW e \in Entry
    PROVE  /\ Failure(e) \in Entry /\ Success(e) \in Entry
           /\ Expire(e) \in Entry /\ ClaimTrial(e) \in Entry
<1>1. EjectAfter \in Nat \ {0}
    BY ProxyAssumption
<1>2. e.failures \in 0..EjectAfter
    BY DEF Entry
<1>3. Failure(e) \in Entry
    <2> DEFINE run == IF e.failures < EjectAfter THEN e.failures + 1 ELSE EjectAfter
    <2>1. run \in 0..EjectAfter
        BY <1>1, <1>2
    <2> HIDE DEF run
    <2>2. /\ [e EXCEPT !.trial = FALSE, !.state = "ejected"] \in Entry
          /\ [e EXCEPT !.failures = run,
                       !.state = IF run = EjectAfter /\ @ = "healthy" THEN "ejected" ELSE @] \in Entry
        BY <2>1 DEF Entry
    <2> QED BY <2>2 DEF Failure, run
<1>4. Success(e) \in Entry
    BY <1>1 DEF Success, NewEntry, Entry
<1>5. Expire(e) \in Entry /\ ClaimTrial(e) \in Entry
    BY DEF Expire, ClaimTrial, Entry
<1> QED BY <1>3, <1>4, <1>5

LEMMA ConnDiesKeeps == ASSUME IInv, NEW c \in Conns, ConnDies(c) PROVE IInv'
<1>1. Tasks /\ up' = [up EXCEPT ![c] = "closed"]
    BY CloseMoves DEF ConnDies
<1>2. trouble' \in 0..MaxTrouble
    BY TroubleBounded DEF ConnDies, IInv
<1>3. c[1] \in Backends
    BY DEF Conns
<1>4. health' \in [Backends -> Entry]
    <2>1. health[c[1]] \in Entry /\ health \in [Backends -> Entry]
        BY <1>3 DEF IInv, TypeOK
    <2>2. Failure(health[c[1]]) \in Entry
        BY <2>1, EntryTyped
    <2> QED BY <1>3, <2>1, <2>2 DEF ConnDies
<1>5. \A b \in Backends \ Faulty : health'[b] = health[b]
    BY <1>3 DEF ConnDies, IInv, TypeOK
<1> QED BY <1>1, <1>2, <1>4, <1>5, TasksKeep DEF ConnDies, IInv, TypeOK, Sound, poolVars

LEMMA ConnectedKeeps == ASSUME IInv, NEW c \in Conns, Connected(c) PROVE IInv'
<1>1. Places'
    BY KeepsPlaces DEF Connected, IInv, TypeOK, poolVars
<1>2. Tasks
    BY <1>1 DEF Tasks, Moved, Stays, Connected, IInv, poolVars
<1> QED BY <1>2, TasksKeep DEF Connected, IInv, TypeOK, Sound, poolVars

-----------------------------------------------------------------------------
(* What the proxy does with a request, leaving every other one as it is.    *)

Same(r) == /\ told'[r] = told[r] /\ tries'[r] = tries[r] /\ job'[r] = job[r]
           /\ lease'[r] = lease[r] /\ mail'[r] = mail[r]
           /\ at'[r] = at[r] /\ on'[r] = on[r]

LEMMA OthersKnow ==
    ASSUME IInv, NEW s \in Streams, Knows(s)', \A r \in Streams \ {s} : Same(r)
    PROVE  \A r \in Streams : Knows(r)'
<1>1. ASSUME NEW r \in Streams, r # s PROVE Knows(r)'
    <2>1. Knows(r) /\ mail[r] \in Seq(Event) /\ Moved(r)
        BY <1>1 DEF IInv, Same, Moved, Stays
    <2> QED BY <1>1, <2>1, MovedKnows DEF Same
<1> QED BY <1>1

LEMMA CountsTyped ==
    ASSUME NEW l, l = [c \in Conns |-> l[c]],
           \A c \in Conns : \E held \in SUBSET Streams : l[c] = Cardinality(held)
    PROVE  l \in [Conns -> 0..Cardinality(Streams)]
<1>1. ASSUME NEW c \in Conns PROVE l[c] \in 0..Cardinality(Streams)
    <2>1. PICK held \in SUBSET Streams : l[c] = Cardinality(held)
        OBVIOUS
    <2>2. /\ IsFiniteSet(Streams) /\ IsFiniteSet(held)
          /\ Cardinality(held) <= Cardinality(Streams)
        BY ProxyAssumption, FS_Subset
    <2>3. Cardinality(Streams) \in Nat /\ Cardinality(held) \in Nat
        BY <2>2, FS_CardinalityType
    <2> QED BY <2>1, <2>2, <2>3
<1> QED BY <1>1

LEMMA HoldersFinite ==
    ASSUME NEW c
    PROVE  IsFiniteSet(Holders(c)) /\ Cardinality(Holders(c)) \in Nat
<1>1. Holders(c) \in SUBSET Streams /\ IsFiniteSet(Streams)
    BY ProxyAssumption DEF Holders
<1> QED BY <1>1, FS_Subset, FS_CardinalityType

\* A lease is counted when it is taken, whoever has it, until it is dropped.
OthersHold(s) == \A r \in Streams \ {s} : lease'[r] = lease[r] /\ job'[r].c = job[r].c

LEMMA LeaseTaken ==
    ASSUME IInv, NEW s \in Streams, NEW c \in Conns, OthersHold(s),
           lease[s] = None, job[s].c = None, lease'[s] = None, job'[s].c = c,
           live' = [live EXCEPT ![c] = @ + 1]
    PROVE  Counts' /\ live' \in [Conns -> 0..Cardinality(Streams)]
<1>1. live \in [Conns -> 0..Cardinality(Streams)] /\ Counts
    BY DEF IInv, TypeOK
<1>2. ASSUME NEW d \in Conns PROVE live'[d] = Cardinality(Holders(d)')
    <2>0. d # None
        BY ProxyAssumption
    <2>1. CASE d = c
        <3>1. Holders(d)' = Holders(d) \cup {s} /\ s \notin Holders(d)
            BY <2>0, <2>1 DEF Holders, OthersHold
        <3>2. Cardinality(Holders(d)') = Cardinality(Holders(d)) + 1
            BY <3>1, HoldersFinite, FS_AddElement
        <3> QED BY <1>1, <2>1, <3>2 DEF Counts
    <2>2. CASE d # c
        <3>1. Holders(d)' = Holders(d)
            BY <2>0, <2>2 DEF Holders, OthersHold
        <3> QED BY <1>1, <2>2, <3>1 DEF Counts
    <2> QED BY <2>1, <2>2
<1>3. live' = [d \in Conns |-> live'[d]]
    BY <1>1
<1>4. \A d \in Conns : \E held \in SUBSET Streams : live'[d] = Cardinality(held)
    <2>1. \A d \in Conns : Holders(d)' \in SUBSET Streams
        BY DEF Holders
    <2> QED BY <1>2, <2>1, Zenon
<1>5. live' \in [Conns -> 0..Cardinality(Streams)]
    <2> DEFINE l == live'
    <2>1. l = [d \in Conns |-> l[d]] /\ \A d \in Conns : \E held \in SUBSET Streams : l[d] = Cardinality(held)
        BY <1>3, <1>4, Zenon
    <2> HIDE DEF l
    <2>2. l \in [Conns -> 0..Cardinality(Streams)]
        BY <2>1, CountsTyped, Zenon
    <2> QED BY <2>2 DEF l
<1> QED BY <1>2, <1>5 DEF Counts

LEMMA LeaseDropped ==
    ASSUME IInv, NEW s \in Streams, NEW c \in Conns, OthersHold(s),
           lease[s] \in {c, None}, job[s].c \in {c, None}, lease[s] = c \/ job[s].c = c,
           lease'[s] = None, job'[s].c = None,
           live' = [live EXCEPT ![c] = @ - 1]
    PROVE  Counts' /\ live' \in [Conns -> 0..Cardinality(Streams)]
<1>1. live \in [Conns -> 0..Cardinality(Streams)] /\ Counts
    BY DEF IInv, TypeOK
<1>2. ASSUME NEW d \in Conns PROVE live'[d] = Cardinality(Holders(d)')
    <2>0. d # None
        BY ProxyAssumption
    <2>1. CASE d = c
        <3>1. Holders(d)' = Holders(d) \ {s} /\ s \in Holders(d)
            BY <2>0, <2>1 DEF Holders, OthersHold
        <3>2. Cardinality(Holders(d)') = Cardinality(Holders(d)) - 1
            BY <3>1, HoldersFinite, FS_RemoveElement
        <3> QED BY <1>1, <2>1, <3>2 DEF Counts
    <2>2. CASE d # c
        <3>1. Holders(d)' = Holders(d)
            BY <2>0, <2>2 DEF Holders, OthersHold
        <3> QED BY <1>1, <2>2, <3>1 DEF Counts
    <2> QED BY <2>1, <2>2
<1>3. live' = [d \in Conns |-> live'[d]]
    BY <1>1
<1>4. \A d \in Conns : \E held \in SUBSET Streams : live'[d] = Cardinality(held)
    <2>1. \A d \in Conns : Holders(d)' \in SUBSET Streams
        BY DEF Holders
    <2> QED BY <1>2, <2>1, Zenon
<1>5. live' \in [Conns -> 0..Cardinality(Streams)]
    <2> DEFINE l == live'
    <2>1. l = [d \in Conns |-> l[d]] /\ \A d \in Conns : \E held \in SUBSET Streams : l[d] = Cardinality(held)
        BY <1>3, <1>4, Zenon
    <2> HIDE DEF l
    <2>2. l \in [Conns -> 0..Cardinality(Streams)]
        BY <2>1, CountsTyped, Zenon
    <2> QED BY <2>2 DEF l
<1> QED BY <1>2, <1>5 DEF Counts

LEMMA LeaseKept ==
    ASSUME IInv, NEW s \in Streams, OthersHold(s), UNCHANGED live,
           \A d \in Conns : lease'[s] = d \/ job'[s].c = d <=> lease[s] = d \/ job[s].c = d
    PROVE  Counts' /\ live' \in [Conns -> 0..Cardinality(Streams)]
<1>1. ASSUME NEW d \in Conns PROVE Holders(d)' = Holders(d)
    BY DEF Holders, OthersHold
<1> QED BY <1>1 DEF IInv, TypeOK, Counts

LEMMA WhileAttempting ==
    ASSUME NEW s, Knows(s), job[s].step # "none"
    PROVE  /\ told[s] = "waiting" /\ tries[s] < Life!Allowed(s)
           /\ lease[s] = None /\ mail[s] = <<>> /\ at[s] = "none"
<1>1. job[s] # Idle
    BY DEF Idle
<1>2. Attempting(s)
    BY <1>1 DEF Knows, Phase, Unasked, Asked, Headed, Ended, Turned, Closed, GivenUp
<1> QED BY <1>2 DEF Attempting, Quiet

LEMMA QueuesStay == ASSUME IInv, UNCHANGED taskVars PROVE Queues'
BY DEF IInv, Queues, InOrder, taskVars

\* An attempt goes to its next step.
LEMMA NextStep ==
    ASSUME job \in [Streams -> Job], NEW s \in Streams,
           NEW step \in {"pick", "claim", "checkout", "send"},
           job' = [job EXCEPT ![s].step = step]
    PROVE  /\ job' \in [Streams -> Job] /\ job'[s].step = step /\ job'[s].b = job[s].b
           /\ job'[s].avoid = job[s].avoid /\ job'[s].c = job[s].c
           /\ \A r \in Streams \ {s} : job'[r] = job[r]
<1>1. job[s] \in Job
    OBVIOUS
<1>2. job'[s] = [job[s] EXCEPT !.step = step]
    OBVIOUS
<1>3. /\ job'[s] \in Job /\ job'[s].step = step /\ job'[s].b = job[s].b
      /\ job'[s].avoid = job[s].avoid /\ job'[s].c = job[s].c
    BY <1>1, <1>2 DEF Job
<1> QED BY <1>3

LEMMA DispatchKeeps == ASSUME IInv, NEW s \in Streams, Dispatch(s) PROVE IInv'
<1> USE DEF Dispatch, poolVars
<1>1. TypeOK /\ Knows(s) /\ mail \in [Streams -> Seq(Event)]
    BY DEF IInv
<1>2. Unasked(s)
    BY <1>1 DEF Knows, Phase, Unasked, Attempting, Asked, Headed, Ended, Turned, Closed, GivenUp, Life!Over
<1>3. TypeOK'
    <2>1. job' \in [Streams -> Job]
        BY <1>1, NextStep DEF TypeOK
    <2> QED BY <1>1, <2>1 DEF TypeOK, taskVars
<1>4. told'[s] = "waiting" /\ job'[s] = [Idle EXCEPT !.step = "pick"]
    BY <1>1, <1>2 DEF TypeOK, Unasked
<1>5. Attempting(s)'
    BY <1>2, <1>4 DEF Unasked, Attempting, Quiet, Idle, Life!Allowed, taskVars
<1>6. Knows(s)'
    BY <1>1, <1>2, <1>4, <1>5
       DEF Knows, Phase, Unasked, Quiet, Idle, JobKnows, LandsElsewhere, Blames, Life!Allowed, taskVars
<1>7. \A r \in Streams \ {s} : Same(r)
    BY <1>1 DEF Same, TypeOK, taskVars
<1>8. Counts'
    <2>1. OthersHold(s) /\ lease'[s] = lease[s] /\ job[s].c = None /\ job'[s].c = None
        BY <1>2, <1>4, <1>7 DEF OthersHold, Same, Unasked, Idle
    <2> QED BY <2>1, LeaseKept
<1> QED BY <1>1, <1>3, <1>6, <1>7, <1>8, OthersKnow, QueuesStay DEF IInv, Sound, taskVars

\* Of sound backends there is one to be tried that is not the one to avoid.
LEMMA PicksElsewhere ==
    ASSUME IInv, NEW avoid, NEW b \in TwoChoices(Elsewhere(Eligible(health, Backends), avoid))
    PROVE  b \in Backends /\ (Backends \ (Faulty \cup {avoid}) # {} => b # avoid)
<1> DEFINE from == Eligible(health, Backends)
<1>1. from \subseteq Backends /\ b \in Elsewhere(from, avoid)
    BY DEF Eligible, Elsewhere, TwoChoices
<1>2. ASSUME NEW d \in Backends, d \notin Faulty, d # avoid PROVE d \in from \ {avoid}
    <2>1. Offered(health[d])
        BY <1>2 DEF IInv, Sound, NewEntry, Offered
    <2> QED BY <1>2, <2>1 DEF Eligible
<1> HIDE DEF from
<1> QED BY <1>1, <1>2 DEF Elsewhere

LEMMA PickKeeps == ASSUME IInv, NEW s \in Streams, Pick(s) PROVE IInv'
<1> USE DEF Pick, poolVars
<1>1. TypeOK /\ Knows(s) /\ mail \in [Streams -> Seq(Event)]
    BY DEF IInv
<1>2. /\ told[s] = "waiting" /\ tries[s] < Life!Allowed(s)
      /\ lease[s] = None /\ mail[s] = <<>> /\ at[s] = "none"
    BY <1>1, WhileAttempting
<1>3. PICK b \in TwoChoices(Elsewhere(Eligible(health, Backends), job[s].avoid)) :
        job' = [job EXCEPT ![s].step = "claim", ![s].b = b]
    OBVIOUS
<1>4. b \in Backends /\ (Backends \ (Faulty \cup {job[s].avoid}) # {} => b # job[s].avoid)
    BY PicksElsewhere
<1>5. job'[s] = [job[s] EXCEPT !.step = "claim", !.b = b]
      /\ \A r \in Streams \ {s} : job'[r] = job[r]
    BY <1>1, <1>3 DEF TypeOK
<1>5a. /\ job' \in [Streams -> Job] /\ job'[s].step = "claim" /\ job'[s].b = b
       /\ job'[s].avoid = job[s].avoid /\ job'[s].c = job[s].c
    <2>1. job[s] \in Job /\ job \in [Streams -> Job]
        BY <1>1 DEF TypeOK
    <2>2. /\ [job[s] EXCEPT !.step = "claim", !.b = b] \in Job
          /\ job'[s].step = "claim" /\ job'[s].b = b
          /\ job'[s].avoid = job[s].avoid /\ job'[s].c = job[s].c
        BY <1>4, <1>5, <2>1 DEF Job
    <2> QED BY <1>3, <1>5, <2>1, <2>2
<1>6. TypeOK'
    BY <1>1, <1>5a DEF TypeOK, taskVars
<1>7. Knows(s)'
    <2>1. Attempting(s)'
        BY <1>2, <1>5a DEF Attempting, Quiet, Life!Allowed, taskVars
    <2> QED BY <1>1, <1>2, <1>4, <1>5a, <2>1
            DEF Knows, Phase, JobKnows, LandsElsewhere, Blames, Life!Allowed, taskVars
<1>8. \A r \in Streams \ {s} : Same(r)
    BY <1>5 DEF Same, taskVars
<1>9. Counts'
    BY <1>5a, <1>8, LeaseKept DEF OthersHold, Same
<1> QED BY <1>1, <1>6, <1>7, <1>8, <1>9, OthersKnow, QueuesStay DEF IInv, Sound, taskVars

LEMMA ClaimKeeps == ASSUME IInv, NEW s \in Streams, Claim(s) PROVE IInv'
<1> USE DEF Claim, poolVars
<1>1. TypeOK /\ Knows(s) /\ mail \in [Streams -> Seq(Event)]
    BY DEF IInv
<1>2. /\ told[s] = "waiting" /\ tries[s] < Life!Allowed(s)
      /\ lease[s] = None /\ mail[s] = <<>> /\ at[s] = "none"
    BY <1>1, WhileAttempting
<1>3. /\ job' \in [Streams -> Job] /\ job'[s].step = "checkout" /\ job'[s].b = job[s].b
      /\ job'[s].avoid = job[s].avoid /\ job'[s].c = job[s].c
      /\ \A r \in Streams \ {s} : job'[r] = job[r]
    BY <1>1, NextStep DEF TypeOK
<1>4. job[s].b \in Backends
    BY <1>1 DEF Knows, JobKnows
<1>5. health' \in [Backends -> Entry]
    <2>1. health[job[s].b] \in Entry /\ health \in [Backends -> Entry]
        BY <1>1, <1>4 DEF TypeOK
    <2>2. ClaimTrial(health[job[s].b]) \in Entry
        BY <2>1, EntryTyped
    <2> QED BY <2>1, <2>2
<1>6. Sound'
    <2>1. ClaimTrial(NewEntry) = NewEntry
        BY DEF ClaimTrial, NewEntry
    <2>2. ASSUME NEW b \in Backends \ Faulty PROVE health'[b] = NewEntry
        BY <1>1, <2>1 DEF IInv, Sound, TypeOK
    <2> QED BY <2>2 DEF IInv, Sound, taskVars
<1>7. TypeOK'
    BY <1>1, <1>3, <1>5 DEF TypeOK, taskVars
<1>8. Knows(s)'
    <2>1. Attempting(s)'
        BY <1>2, <1>3 DEF Attempting, Quiet, Life!Allowed, taskVars
    <2> QED BY <1>1, <1>2, <1>3, <2>1
            DEF Knows, Phase, JobKnows, LandsElsewhere, Blames, Life!Allowed, taskVars
<1>9. \A r \in Streams \ {s} : Same(r)
    BY <1>3 DEF Same, taskVars
<1>10. Counts'
    BY <1>3, <1>9, LeaseKept DEF OthersHold, Same
<1> QED BY <1>1, <1>6, <1>7, <1>8, <1>9, <1>10, OthersKnow, QueuesStay DEF IInv

LEMMA ConnsFinite == IsFiniteSet(Conns)
<1>1. IsFiniteSet(Backends) /\ IsFiniteSet(1..MaxConns)
    BY ProxyAssumption, FS_Interval
<1> QED BY <1>1, FS_Product DEF Conns

LEMMA TakesLease ==
    ASSUME IInv, NEW s \in Streams, NEW c \in Conns, c[1] = job[s].b, job[s].step = "checkout",
           Take(s, c)
    PROVE  /\ job' \in [Streams -> Job] /\ mail' = mail
           /\ job'[s].step = "send" /\ job'[s].c = c /\ job'[s].b = job[s].b
           /\ job'[s].avoid = job[s].avoid
           /\ \A r \in Streams \ {s} : job'[r] = job[r]
           /\ live' = [live EXCEPT ![c] = @ + 1]
<1>1. job \in [Streams -> Job] /\ job[s] \in Job
    BY DEF IInv, TypeOK
<1>2. job'[s] = [job[s] EXCEPT !.step = "send", !.c = c]
    BY <1>1 DEF Take
<1>3. /\ job'[s] \in Job /\ job'[s].step = "send" /\ job'[s].b = job[s].b
      /\ job'[s].avoid = job[s].avoid /\ job'[s].c = c
    BY <1>1, <1>2 DEF Job
<1> QED BY <1>1, <1>3 DEF Take

LEMMA CheckoutKeeps == ASSUME IInv, NEW s \in Streams, Checkout(s) PROVE IInv'
<1>1. TypeOK /\ Knows(s) /\ mail \in [Streams -> Seq(Event)]
    BY DEF IInv
<1>2. /\ told[s] = "waiting" /\ tries[s] < Life!Allowed(s)
      /\ lease[s] = None /\ mail[s] = <<>> /\ at[s] = "none"
      /\ job[s].b \in Backends /\ job[s].c = None /\ job[s].step = "checkout"
    BY <1>1, WhileAttempting DEF Checkout, Knows, JobKnows
<1>3. /\ UNCHANGED <<told, tries, lease, health, retired, at, on, queue, tuning>>
      /\ \A r \in Streams \ {s} : told'[r] = told[r] /\ tries'[r] = tries[r] /\ lease'[r] = lease[r]
                                  /\ at'[r] = at[r] /\ on'[r] = on[r]
    BY DEF Checkout
<1>4. PICK dropped \in SUBSET {c \in Of(job[s].b) : live[c] = 0 /\ Usable(c)} :
        LET conns == {c \in Of(job[s].b) : Usable(c)} \ dropped
            kept  == (pooled \ Of(job[s].b)) \cup conns IN
        /\ trouble + Cardinality(dropped) <= MaxTrouble
        /\ trouble' = trouble + Cardinality(dropped)
        /\ \/ /\ Grows(conns)
              /\ \E c \in Fresh(job[s].b) :
                    /\ pooled' = kept \cup {c}
                    /\ up' = [up EXCEPT ![c] = "connecting"]
                    /\ Take(s, c)
           \/ /\ ~Grows(conns) /\ pooled' = kept /\ UNCHANGED up
              /\ \E c \in Leased(conns) : Take(s, c)
           \/ /\ ~Grows(conns) /\ Leased(conns) = {} /\ pooled' = kept
              /\ Post(Only(s, "local 503"))
              /\ job' = [job EXCEPT ![s] = Idle]
              /\ UNCHANGED <<up, live>>
    BY DEF Checkout
<1> DEFINE conns == {c \in Of(job[s].b) : Usable(c)} \ dropped
           kept  == (pooled \ Of(job[s].b)) \cup conns
<1>5. trouble' \in 0..MaxTrouble
    <2>1. dropped \in SUBSET Conns
        BY <1>1 DEF Of, TypeOK
    <2>2. Cardinality(dropped) \in Nat
        BY <2>1, ConnsFinite, FS_Subset, FS_CardinalityType
    <2>3. MaxTrouble \in Nat /\ trouble \in 0..MaxTrouble
        BY <1>1, ProxyAssumption DEF TypeOK
    <2>4. /\ trouble + Cardinality(dropped) <= MaxTrouble
          /\ trouble' = trouble + Cardinality(dropped)
        BY <1>4
    <2> HIDE DEF conns, kept
    <2> QED BY <2>2, <2>3, <2>4
<1>6. kept \in SUBSET Conns /\ \A c \in conns : c \in Conns /\ c[1] = job[s].b
    BY <1>1 DEF Of, TypeOK
<1>7. ASSUME NEW c \in Conns, c[1] = job[s].b, Take(s, c), pooled' \in SUBSET Conns,
             up' \in [Conns -> {"unused", "connecting", "open", "closed"}],
             \A d \in Conns : up'[d] = "closed" => up[d] = "closed"
      PROVE  IInv'
    <2>1. /\ job' \in [Streams -> Job] /\ mail' = mail
          /\ job'[s].step = "send" /\ job'[s].c = c /\ job'[s].b = job[s].b
          /\ job'[s].avoid = job[s].avoid
          /\ \A r \in Streams \ {s} : job'[r] = job[r]
          /\ live' = [live EXCEPT ![c] = @ + 1]
        BY <1>2, <1>7, TakesLease
    <2>2. \A r \in Streams \ {s} : Same(r)
        BY <1>3, <2>1 DEF Same
    <2>3. Counts' /\ live' \in [Conns -> 0..Cardinality(Streams)]
        BY <1>2, <1>3, <2>1, LeaseTaken DEF OthersHold
    <2>4. Attempting(s)'
        BY <1>2, <1>3, <2>1 DEF Attempting, Quiet, Life!Allowed
    <2>5. Knows(s)'
        BY <1>1, <1>2, <1>3, <1>7, <2>1, <2>4
           DEF Knows, Phase, JobKnows, LandsElsewhere, Blames, Life!Allowed
    <2>6. TypeOK'
        BY <1>1, <1>3, <1>5, <1>7, <2>1, <2>3 DEF TypeOK
    <2>7. Queues' /\ Sound'
        BY <1>3, <1>7 DEF IInv, Queues, InOrder, Sound
    <2> QED BY <1>1, <2>1, <2>2, <2>3, <2>5, <2>6, <2>7, OthersKnow DEF IInv
<1>8. ASSUME Post(Only(s, "local 503")), job' = [job EXCEPT ![s] = Idle], pooled' \in SUBSET Conns,
             UNCHANGED <<up, live>>
      PROVE  IInv'
    <2>1. mail' = [r \in Streams |-> IF r = s THEN Append(mail[r], "local 503") ELSE mail[r]]
        BY <1>8, PostOne
    <2>2. Append(<<>>, "local 503") = <<"local 503">> /\ <<"local 503">> \in Seq(Event)
        BY HeadThen DEF Event
    <2>3. /\ mail'[s] = <<"local 503">> /\ mail' \in [Streams -> Seq(Event)]
          /\ \A r \in Streams \ {s} : mail'[r] = mail[r]
        BY <1>1, <1>2, <2>1, <2>2
    <2>4. job' \in [Streams -> Job] /\ job'[s] = Idle /\ \A r \in Streams \ {s} : job'[r] = job[r]
        BY <1>1, <1>8 DEF TypeOK, Idle, Job
    <2>5. \A r \in Streams \ {s} : Same(r)
        BY <1>3, <2>3, <2>4 DEF Same
    <2>6. Turned(s)'
        BY <1>2, <1>3, <2>3, <2>4 DEF Turned
    <2>7. Knows(s)'
        <3>1. JobKnows(s)' /\ LandsElsewhere(s)'
            BY <2>4, ProxyAssumption DEF JobKnows, LandsElsewhere, Idle
        <3>2. Blames(s)' /\ Phase(s)'
            <4>1. Blames(s)'
                BY <1>2, <1>3, <2>6 DEF Blames, Turned
            <4> QED BY <2>6, <4>1 DEF Phase
        <3> QED BY <1>1, <1>2, <1>3, <3>1, <3>2 DEF Knows, Life!Allowed
    <2>8. Counts'
        <3>1. job'[s].c = None /\ lease'[s] = lease[s]
            BY <1>3, <2>4 DEF Idle
        <3>2. OthersHold(s)
            BY <2>5, Zenon DEF OthersHold, Same
        <3>3. \A d \in Conns : lease'[s] = d \/ job'[s].c = d <=> lease[s] = d \/ job[s].c = d
            BY <1>2, <3>1, Zenon
        <3> QED BY <1>8, <3>2, <3>3, LeaseKept, Zenon
    <2>9. TypeOK'
        BY <1>1, <1>3, <1>5, <1>8, <2>4 DEF TypeOK
    <2>10. Queues' /\ Sound'
        BY <1>3, <1>8, ZenonT(40) DEF IInv, Queues, InOrder, Sound
    <2> QED BY <2>3, <2>5, <2>7, <2>8, <2>9, <2>10, OthersKnow DEF IInv
<1> HIDE DEF conns, kept
<1>9. CASE \E c \in Fresh(job[s].b) : /\ pooled' = kept \cup {c} /\ Take(s, c)
                                      /\ up' = [up EXCEPT ![c] = "connecting"]
    <2>1. PICK c \in Fresh(job[s].b) : /\ pooled' = kept \cup {c} /\ Take(s, c)
                                       /\ up' = [up EXCEPT ![c] = "connecting"]
        BY <1>9
    <2>2. c \in Conns /\ c[1] = job[s].b
        BY DEF Fresh
    <2> QED BY <1>1, <1>6, <1>7, <2>1, <2>2 DEF TypeOK
<1>10. CASE pooled' = kept /\ UNCHANGED up /\ \E c \in Leased(conns) : Take(s, c)
    <2>1. PICK c \in Leased(conns) : Take(s, c)
        BY <1>10
    <2>2. c \in conns
        BY DEF Leased, Room
    <2> QED BY <1>1, <1>6, <1>7, <1>10, <2>1, <2>2 DEF TypeOK
<1> QED BY <1>4, <1>6, <1>8, <1>9, <1>10 DEF conns, kept

\* Recording what a backend did.
LEMMA FailureRecorded ==
    ASSUME IInv, NEW b \in Faulty, health' = [health EXCEPT ![b] = Failure(@)]
    PROVE  /\ health' \in [Backends -> Entry]
           /\ \A d \in Backends \ Faulty : health'[d] = NewEntry
<1>1. b \in Backends /\ health \in [Backends -> Entry] /\ health[b] \in Entry
    BY ProxyAssumption DEF IInv, TypeOK
<1>2. Failure(health[b]) \in Entry
    BY <1>1, EntryTyped
<1> QED BY <1>1, <1>2 DEF IInv, Sound

LEMMA SuccessRecorded ==
    ASSUME IInv, NEW b \in Backends, health' = [health EXCEPT ![b] = Success(@)]
    PROVE  /\ health' \in [Backends -> Entry]
           /\ \A d \in Backends \ Faulty : health'[d] = NewEntry
<1>1. health \in [Backends -> Entry] /\ health[b] \in Entry
    BY DEF IInv, TypeOK
<1>2. Success(health[b]) \in Entry /\ Success(health[b]) = NewEntry
    BY <1>1, EntryTyped DEF Success
<1> QED BY <1>1, <1>2 DEF IInv, Sound

LEMMA SendKeeps == ASSUME IInv, NEW s \in Streams, Send(s) PROVE IInv'
<1> DEFINE c == job[s].c
<1>1. TypeOK /\ Knows(s) /\ mail \in [Streams -> Seq(Event)]
    BY DEF IInv
<1>2. /\ told[s] = "waiting" /\ tries[s] < Life!Allowed(s)
      /\ lease[s] = None /\ mail[s] = <<>> /\ at[s] = "none"
      /\ job[s].b \in Backends /\ c \in Conns /\ c[1] = job[s].b
    BY <1>1, WhileAttempting DEF Send, Knows, JobKnows
<1>3. /\ job' \in [Streams -> Job] /\ job'[s] = Idle
      /\ \A r \in Streams \ {s} : job'[r] = job[r]
    BY <1>1 DEF Send, TypeOK, Idle, Job
<1>4. job'[s].c = None /\ JobKnows(s)' /\ LandsElsewhere(s)'
    BY <1>3, ProxyAssumption DEF JobKnows, LandsElsewhere, Idle
<1>5. UNCHANGED <<told, pooled, retired, up, queue, trouble, tuning>>
    BY DEF Send
<1> HIDE DEF c
<1>6. CASE /\ tries' = [tries EXCEPT ![s] = @ + 1] /\ lease' = [lease EXCEPT ![s] = c]
           /\ at' = [at EXCEPT ![s] = "inbox"] /\ on' = [on EXCEPT ![s] = c]
           /\ UNCHANGED <<mail, health, live>>
    <2>1. /\ lease'[s] = c /\ at'[s] = "inbox" /\ on'[s] = c /\ tries'[s] = tries[s] + 1
          /\ tries[s] \in Nat /\ tries \in [Streams -> 0..2]
        <3>1. /\ tries \in [Streams -> 0..2] /\ DOMAIN lease = Streams
              /\ DOMAIN at = Streams /\ DOMAIN on = Streams
            BY <1>1 DEF TypeOK
        <3>2. tries[s] \in Nat
            BY <3>1
        <3> QED BY <1>6, <3>1, <3>2
    <2>2. \A r \in Streams \ {s} : Same(r)
        BY <1>1, <1>3, <1>5, <1>6 DEF Same, TypeOK
    <2>3. tries'[s] <= Life!Allowed(s)' /\ tries'[s] >= 1 /\ Life!Allowed(s) \in 1..2
        BY <1>2, <2>1 DEF Life!Allowed
    <2>4. Asked(s)'
        BY <1>2, <1>3, <1>5, <1>6, <2>1, <2>3 DEF Asked, Leases
    <2>5. Blames(s)'
        BY <1>2, <1>6 DEF Blames
    <2>6. Knows(s)'
        BY <1>2, <1>4, <2>1, <2>3, <2>4, <2>5 DEF Knows, Phase
    <2>7. Counts'
        <3>1. OthersHold(s)
            BY <2>2, Zenon DEF OthersHold, Same
        <3>2. \A d \in Conns : lease'[s] = d \/ job'[s].c = d <=> lease[s] = d \/ job[s].c = d
            BY <1>2, <1>4, <1>6, <2>1 DEF c
        <3> QED BY <1>6, <3>1, <3>2, LeaseKept, Zenon
    <2>8. TypeOK'
        <3>1. tries' \in [Streams -> 0..2]
            <4>1. tries[s] + 1 \in 0..2
                BY <2>1, <2>3
            <4> QED BY <1>6, <2>1, <4>1
        <3> QED BY <1>1, <1>2, <1>3, <1>5, <1>6, <3>1 DEF TypeOK
    <2>9. Queues'
        <3>1. ASSUME NEW d \in Conns PROVE (InOrder(d, queue[d]))'
            <4>1. \A i \in DOMAIN queue[d] : queue[d][i] \in Streams
                BY <1>1, TypedQueue
            <4>2. \A r \in Streams : at[r] = "queued" => at'[r] = at[r] /\ on'[r] = on[r]
                BY <1>1, <1>2, <1>6 DEF TypeOK
            <4> QED BY <1>5, <4>1, <4>2 DEF IInv, Queues, InOrder
        <3> QED BY <3>1 DEF Queues
    <2> QED BY <1>1, <1>5, <1>6, <2>2, <2>6, <2>7, <2>8, <2>9, OthersKnow DEF IInv, Sound
<1>7. CASE /\ up[c] = "closed"
           /\ health' = [health EXCEPT ![job[s].b] = Failure(@)]
           /\ live' = [live EXCEPT ![c] = @ - 1]
           /\ Post(Only(s, "local 503"))
           /\ UNCHANGED <<tries, lease, at, on>>
    <2>1. mail' = [r \in Streams |-> IF r = s THEN Append(mail[r], "local 503") ELSE mail[r]]
        BY <1>7, PostOne
    <2>2. Append(<<>>, "local 503") = <<"local 503">> /\ <<"local 503">> \in Seq(Event)
        BY HeadThen DEF Event
    <2>3. /\ mail'[s] = <<"local 503">> /\ mail' \in [Streams -> Seq(Event)]
          /\ \A r \in Streams \ {s} : mail'[r] = mail[r]
        BY <1>1, <1>2, <2>1, <2>2
    <2>4. /\ health' \in [Backends -> Entry]
          /\ \A d \in Backends \ Faulty : health'[d] = NewEntry
        <3>1. job[s].b \in Faulty
            BY <1>2, <1>7 DEF IInv, Sound
        <3> QED BY <1>7, <3>1, FailureRecorded
    <2>5. \A r \in Streams \ {s} : Same(r)
        BY <1>3, <1>5, <1>7, <2>3 DEF Same
    <2>6. Turned(s)'
        BY <1>2, <1>3, <1>5, <1>7, <2>3 DEF Turned
    <2>7. Knows(s)'
        <3>1. Blames(s)' /\ Phase(s)'
            BY <1>2, <1>7, <2>6 DEF Blames, Phase
        <3> QED BY <1>1, <1>2, <1>4, <1>7, <3>1 DEF Knows, Life!Allowed
    <2>8. Counts' /\ live' \in [Conns -> 0..Cardinality(Streams)]
        <3>1. OthersHold(s)
            BY <2>5, Zenon DEF OthersHold, Same
        <3>2. /\ c \in Conns /\ lease[s] = None /\ job[s].c = c
              /\ lease'[s] = None /\ job'[s].c = None
              /\ live' = [live EXCEPT ![c] = @ - 1]
            BY <1>2, <1>4, <1>7 DEF c
        <3> HIDE DEF c
        <3> QED BY <3>1, <3>2, LeaseDropped, Zenon
    <2>9. TypeOK'
        BY <1>1, <1>3, <1>5, <1>7, <2>4, <2>8 DEF TypeOK
    <2>10. Queues' /\ Sound'
        BY <1>5, <1>7, <2>4, ZenonT(40) DEF IInv, Queues, InOrder, Sound
    <2> QED BY <2>3, <2>5, <2>7, <2>8, <2>9, <2>10, OthersKnow DEF IInv
<1> QED BY <1>6, <1>7 DEF Send, c

LEMMA HeadIsFirst ==
    ASSUME NEW S, NEW q \in Seq(S), q # <<>>
    PROVE  1 \in DOMAIN q /\ q[1] = Head(q)
OBVIOUS

LEMMA HeadAndTail ==
    ASSUME NEW S, NEW x \in S, NEW y \in S
    PROVE  /\ Head(<<x>>) = x /\ Tail(<<x>>) = <<>>
           /\ Head(<<x, y>>) = x /\ Tail(<<x, y>>) = <<y>>
<1> DEFINE p == <<x>>
           q == <<x, y>>
<1>1. /\ p \in Seq(S) /\ Len(p) = 1 /\ p[1] = x
      /\ q \in Seq(S) /\ Len(q) = 2 /\ q[1] = x /\ q[2] = y
    <2>1. p \in Seq(S) /\ Len(p) = 1 /\ p[1] = x
        OBVIOUS
    <2>2. q \in Seq(S) /\ Len(q) = 2
        OBVIOUS
    <2>3. q[1] = x /\ q[2] = y
        OBVIOUS
    <2> QED BY <2>1, <2>2, <2>3
<1>2. <<y>> \in Seq(S) /\ Len(<<y>>) = 1 /\ <<y>>[1] = y /\ <<>> \in Seq(S)
    OBVIOUS
<1> HIDE DEF p, q
<1>3. Head(p) = x /\ Head(q) = x
    BY <1>1
<1>4. Tail(p) \in Seq(S) /\ Len(Tail(p)) = 0
    <2>1. p # <<>>
        BY <1>1, SMTT(30)
    <2>2. Tail(p) \in Seq(S) /\ Len(Tail(p)) = Len(p) - 1
        BY <1>1, <2>1, HeadTailProperties, Zenon
    <2> QED BY <1>1, <2>2
<1>5. Tail(q) \in Seq(S) /\ Len(Tail(q)) = 1 /\ Tail(q)[1] = y
    <2>1. q # <<>>
        BY <1>1
    <2>2. /\ Tail(q) \in Seq(S) /\ Len(Tail(q)) = Len(q) - 1
          /\ \A i \in 1..Len(Tail(q)) : Tail(q)[i] = q[i + 1]
        BY <1>1, <2>1, HeadTailProperties, Zenon
    <2> QED BY <1>1, <2>2
<1>6. Tail(p) = <<>>
    BY <1>4, EmptySeq
<1>7. Tail(q) = <<y>>
    <2> DEFINE t == Tail(q)
               u == <<y>>
    <2>1. t \in Seq(S) /\ u \in Seq(S) /\ Len(t) = 1 /\ Len(u) = 1 /\ t[1] = u[1]
        BY <1>2, <1>5
    <2> HIDE DEF t, u
    <2>2. \A i \in 1..Len(t) : t[i] = u[i]
        BY <2>1
    <2>3. t = u
        BY <2>1, <2>2, SeqEqual
    <2> QED BY <2>3 DEF t, u
<1> QED BY <1>3, <1>6, <1>7 DEF p, q

\* What an event can be, by how far the client has got.
LEMMA Heard ==
    ASSUME NEW s \in Streams, Knows(s), mail[s] \in Seq(Event), mail[s] # <<>>, job[s] = Idle,
           told[s] # "gave up",
           NEW e, e = Head(mail[s])
    PROVE  \/ e = "local 503" /\ Turned(s) /\ Tail(mail[s]) = <<>>
           \/ /\ lease[s] \in Conns /\ tries[s] >= 1 /\ e # "local 503"
              /\ e \in {"gone", "reset"} => lease[s][1] \in Faulty
              /\ \/ /\ e = "head" /\ told[s] = "waiting"
                    /\ \/ Headed(s) /\ Tail(mail[s]) = <<>>
                       \/ Ended(s) /\ \E x \in Rests : Tail(mail[s]) = <<x>>
                 \/ /\ e \in Firsts /\ told[s] = "waiting" /\ at[s] = "none"
                    /\ Tail(mail[s]) = <<>>
                 \/ /\ e \in Rests /\ told[s] = "head" /\ at[s] = "none"
                    /\ Tail(mail[s]) = <<>>
<1>1. Turned(s) \/ Headed(s) \/ Ended(s)
    <2>1. Idle.step = "none"
        BY DEF Idle
    <2> QED BY <2>1 DEF Knows, Phase, Unasked, Attempting, Asked, Closed, GivenUp, Quiet
<1>2. e \in {"gone", "reset"} /\ lease[s] \in Conns => lease[s][1] \in Faulty
    <2>2. 1 \in DOMAIN mail[s] /\ mail[s][1] = e
        BY HeadIsFirst
    <2> QED BY <2>2, ProxyAssumption DEF Knows, Blames
<1>3. \A x \in Event : Head(<<x>>) = x /\ Tail(<<x>>) = <<>>
    BY HeadAndTail
<1>4. \A x, y \in Event : Head(<<x, y>>) = x /\ Tail(<<x, y>>) = <<y>>
    BY HeadAndTail
<1>5. CASE Turned(s)
    BY <1>3, <1>5 DEF Turned, Event
<1>6. CASE Headed(s)
    BY <1>2, <1>3, <1>6 DEF Headed, Leases, Event
<1>7. CASE Ended(s)
    <2>1. lease[s] \in Conns /\ tries[s] >= 1 /\ at[s] = "none"
        BY <1>7 DEF Ended, Leases
    <2>2. CASE told[s] = "waiting" /\ \E x \in Firsts : mail[s] = <<x>>
        BY <1>2, <1>3, <2>1, <2>2 DEF Firsts, Event
    <2>3. CASE told[s] = "waiting" /\ \E x \in Rests : mail[s] = <<"head", x>>
        <3>1. PICK x \in Rests : mail[s] = <<"head", x>>
            BY <2>3
        <3>2. e = "head" /\ Tail(mail[s]) = <<x>>
            BY <1>4, <3>1 DEF Rests, Event
        <3> QED BY <1>7, <2>1, <2>3, <3>2
    <2>4. CASE told[s] = "head" /\ \E x \in Rests : mail[s] = <<x>>
        BY <1>2, <1>3, <2>1, <2>4 DEF Rests, Event
    <2> QED BY <1>7, <2>2, <2>3, <2>4 DEF Ended
<1> QED BY <1>1, <1>5, <1>6, <1>7

\* A step of the client connection: it minds one request, and may record what
\* its backend did.
Told == {"idle", "waiting", "head", "done", "502", "503", "aborted", "gave up"}
Minds(s) == /\ UNCHANGED <<tries, pooled, retired, taskVars, trouble, tuning>>
            /\ told' \in [Streams -> Told] /\ job' \in [Streams -> Job]
            /\ lease' \in [Streams -> Conns \cup {None}]
            /\ mail' \in [Streams -> Seq(Event)]
            /\ \A r \in Streams \ {s} : /\ told'[r] = told[r] /\ job'[r] = job[r]
                                        /\ lease'[r] = lease[r] /\ mail'[r] = mail[r]
Records  == /\ health' \in [Backends -> Entry]
            /\ \A b \in Backends \ Faulty : health'[b] = NewEntry

LEMMA MindsKeeps ==
    ASSUME IInv, NEW s \in Streams, Minds(s), Records, Knows(s)',
           Counts', live' \in [Conns -> 0..Cardinality(Streams)]
    PROVE  IInv'
<1>1. \A r \in Streams \ {s} : Same(r)
    BY DEF Minds, Same, taskVars
<1>2. \A r \in Streams : Knows(r)'
    BY <1>1, OthersKnow
<1>3. TypeOK'
    BY DEF IInv, TypeOK, Minds, Records, Told, taskVars
<1>4. Queues' /\ Sound'
    BY QueuesStay DEF IInv, Sound, Minds, Records, taskVars
<1> QED BY <1>2, <1>3, <1>4 DEF IInv, Minds

LEMMA IdleJob == Idle.step = "none" /\ Idle.avoid = None /\ Idle.b = None /\ Idle.c = None
BY DEF Idle

\* A route dropped for good, in one way or another.
LEMMA EndsKeeps ==
    ASSUME IInv, NEW s \in Streams, Minds(s), Records, NEW how \in {"done", "502", "503", "aborted", "gave up"},
           job[s] = Idle, lease[s] \in Conns, job'[s] = Idle,
           told' = [told EXCEPT ![s] = how], DropRoute(s),
           how # "gave up" => at[s] = "none" /\ mail'[s] = <<>>
    PROVE  IInv'
<1>1. told'[s] = how /\ lease'[s] = None
    BY DEF DropRoute, IInv, TypeOK
<1>2. at'[s] = at[s] /\ on'[s] = on[s] /\ tries'[s] = tries[s]
    BY DEF Minds, taskVars
<1>3. Phase(s)'
    BY <1>1, <1>2 DEF Phase, Closed, GivenUp, Quiet, Life!Over
<1>4. JobKnows(s)' /\ LandsElsewhere(s)' /\ Blames(s)'
    <2>1. JobKnows(s)' /\ LandsElsewhere(s)'
        BY IdleJob, ProxyAssumption DEF JobKnows, LandsElsewhere
    <2>2. Blames(s)'
        BY <1>1 DEF Blames
    <2> QED BY <2>1, <2>2
<1>5. Knows(s)'
    BY <1>2, <1>3, <1>4 DEF IInv, Knows, Life!Allowed
<1>6. Counts' /\ live' \in [Conns -> 0..Cardinality(Streams)]
    <2>1. job[s].c = None /\ job'[s].c = None
        BY IdleJob
    <2>2. OthersHold(s)
        BY DEF Minds, OthersHold
    <2>3. live' = [live EXCEPT ![lease[s]] = @ - 1]
        BY DEF DropRoute
    <2> QED BY <1>1, <2>1, <2>2, <2>3, LeaseDropped
<1> QED BY <1>5, <1>6, MindsKeeps

\* Another attempt, away from the backend of this one.
LEMMA RetryKeeps ==
    ASSUME IInv, NEW s \in Streams, Minds(s), Records, Retries(s), Retry(s),
           job[s] = Idle, lease[s] \in Conns, at[s] = "none", mail'[s] = <<>>
    PROVE  IInv'
<1>1. told'[s] = "waiting" /\ lease'[s] = None /\ tries[s] < Life!Allowed(s)
    BY DEF Retries, Retry, DropRoute, IInv, TypeOK, Life!Allowed
<1>2. at'[s] = at[s] /\ on'[s] = on[s] /\ tries'[s] = tries[s]
    BY DEF Minds, taskVars
<1>3. job'[s].step = "pick" /\ job'[s].b = None /\ job'[s].c = None
    <2>1. job'[s] = [job[s] EXCEPT !.step = "pick", !.avoid = lease[s][1]]
        BY DEF Retry, IInv, TypeOK
    <2> QED BY <2>1 DEF Idle
<1>4. Attempting(s)'
    BY <1>1, <1>2, <1>3 DEF Attempting, Quiet, Life!Allowed
<1>5. Knows(s)'
    BY <1>1, <1>2, <1>3, <1>4
       DEF IInv, Knows, Phase, JobKnows, LandsElsewhere, Blames, Life!Allowed
<1>6. Counts' /\ live' \in [Conns -> 0..Cardinality(Streams)]
    <2>1. /\ job[s].c = None /\ OthersHold(s) /\ live' = [live EXCEPT ![lease[s]] = @ - 1]
        BY DEF Idle, Minds, OthersHold, Retry, DropRoute
    <2> QED BY <1>1, <1>3, <2>1, LeaseDropped
<1> QED BY <1>5, <1>6, MindsKeeps

\* A route that stays.
LEMMA StaysKeeps ==
    ASSUME IInv, NEW s \in Streams, Minds(s), Records, KeepRoute,
           job[s] = Idle, job'[s] = Idle, Phase(s)', Blames(s)'
    PROVE  IInv'
<1>1. at'[s] = at[s] /\ on'[s] = on[s] /\ tries'[s] = tries[s]
    BY DEF Minds, taskVars
<1>2. JobKnows(s)' /\ LandsElsewhere(s)'
    BY ProxyAssumption DEF JobKnows, LandsElsewhere, Idle
<1>3. Knows(s)'
    BY <1>1, <1>2 DEF IInv, Knows, Life!Allowed
<1>4. Counts' /\ live' \in [Conns -> 0..Cardinality(Streams)]
    <2>1. OthersHold(s)
        BY DEF Minds, OthersHold
    <2>2. lease'[s] = lease[s] /\ job'[s].c = job[s].c /\ UNCHANGED live
        BY DEF KeepRoute
    <2>3. \A d \in Conns : lease'[s] = d \/ job'[s].c = d <=> lease[s] = d \/ job[s].c = d
        BY <2>2, Zenon
    <2> QED BY <2>1, <2>2, <2>3, LeaseKept, Zenon
<1> QED BY <1>3, <1>4, MindsKeeps

LEMMA TakeEventKeeps == ASSUME IInv, NEW s \in Streams, TakeEvent(s) PROVE IInv'
<1> DEFINE e == Head(mail[s])
<1>1. /\ TypeOK /\ Knows(s) /\ mail \in [Streams -> Seq(Event)] /\ mail[s] # <<>> /\ job[s] = Idle
      /\ mail' = [mail EXCEPT ![s] = Tail(@)]
      /\ UNCHANGED <<tries, pooled, retired, taskVars, trouble, tuning>>
    BY DEF TakeEvent, IInv
<1>2. /\ mail' \in [Streams -> Seq(Event)] /\ mail'[s] = Tail(mail[s])
      /\ \A r \in Streams \ {s} : mail'[r] = mail[r]
    BY <1>1
<1>3. \A i \in DOMAIN mail'[s] : i + 1 \in DOMAIN mail[s] /\ mail'[s][i] = mail[s][i + 1]
    <2>1. mail[s] \in Seq(Event) /\ mail[s] # <<>>
        BY <1>1
    <2>2. /\ Tail(mail[s]) \in Seq(Event) /\ Len(Tail(mail[s])) = Len(mail[s]) - 1
          /\ \A i \in 1..Len(Tail(mail[s])) : Tail(mail[s])[i] = mail[s][i + 1]
        BY <2>1, HeadTailProperties
    <2>3. \A q \in Seq(Event) : DOMAIN q = 1..Len(q) /\ Len(q) \in Nat
        OBVIOUS
    <2> QED BY <1>2, <2>1, <2>2, <2>3
<1>4. ASSUME NEW how \in Told, told' = [told EXCEPT ![s] = how], UNCHANGED job,
             lease' \in [Streams -> Conns \cup {None}],
             \A r \in Streams \ {s} : lease'[r] = lease[r]
      PROVE  Minds(s)
    BY <1>1, <1>2, <1>4 DEF Minds, TypeOK, Told
<1>5. lease[s] \in Conns /\ DropRoute(s) =>
        /\ lease' \in [Streams -> Conns \cup {None}]
        /\ \A r \in Streams \ {s} : lease'[r] = lease[r]
    BY <1>1 DEF DropRoute, TypeOK
<1>6. UNCHANGED health => Records
    BY <1>1 DEF Records, IInv, TypeOK, Sound
<1>7. /\ lease[s] \in Conns /\ ReportSuccess(s) => Records
      /\ lease[s] \in Conns /\ lease[s][1] \in Faulty /\ ReportFailure(s) => Records
    <2>1. lease[s] \in Conns => lease[s][1] \in Backends
        BY DEF Conns
    <2> QED BY <2>1, SuccessRecorded, FailureRecorded DEF ReportSuccess, ReportFailure, Records
<1>8. CASE told[s] = "gave up" /\ UNCHANGED <<told, job, lease, live, health>>
    <2>1. Minds(s)
        BY <1>1, <1>2, <1>8 DEF Minds, TypeOK, Told
    <2>2. GivenUp(s)
        BY <1>1, <1>8 DEF Knows, Phase, Unasked, Attempting, Asked, Headed, Ended, Turned, Closed,
                          GivenUp, Life!Over
    <2>3. Phase(s)' /\ Blames(s)'
        BY <1>8, <2>2 DEF GivenUp, Phase, Blames
    <2> QED BY <1>1, <1>6, <1>8, <2>1, <2>3, StaysKeeps DEF KeepRoute
<1>9. CASE told[s] # "gave up"
    <2>1. \/ e = "local 503" /\ Turned(s) /\ Tail(mail[s]) = <<>>
          \/ /\ lease[s] \in Conns /\ tries[s] >= 1 /\ e # "local 503"
             /\ e \in {"gone", "reset"} => lease[s][1] \in Faulty
             /\ \/ /\ e = "head" /\ told[s] = "waiting"
                   /\ \/ Headed(s) /\ Tail(mail[s]) = <<>>
                      \/ Ended(s) /\ \E x \in Rests : Tail(mail[s]) = <<x>>
                \/ /\ e \in Firsts /\ told[s] = "waiting" /\ at[s] = "none"
                   /\ Tail(mail[s]) = <<>>
                \/ /\ e \in Rests /\ told[s] = "head" /\ at[s] = "none"
                   /\ Tail(mail[s]) = <<>>
        BY <1>1, <1>9, Heard
    <2>2. ASSUME e # "head", e # "local 503"
          PROVE  /\ lease[s] \in Conns /\ at[s] = "none" /\ mail'[s] = <<>>
                 /\ e \in {"gone", "reset"} => lease[s][1] \in Faulty
        BY <1>2, <2>1, <2>2 DEF Firsts, Rests
    <2>3. ASSUME NEW how \in {"done", "502", "503", "aborted"}, End(s, how), UNCHANGED job, Records,
                 e # "head", e # "local 503"
          PROVE  IInv'
        <3>1. Minds(s)
            BY <1>4, <1>5, <2>2, <2>3 DEF End, Told
        <3> QED BY <1>1, <2>2, <2>3, <3>1, EndsKeeps DEF End
    <2>4. ASSUME Retries(s), Retry(s), Records, e # "head", e # "local 503" PROVE IInv'
        <3>1. /\ job' \in [Streams -> Job] /\ \A r \in Streams \ {s} : job'[r] = job[r]
            <4>1. lease[s][1] \in Backends /\ job \in [Streams -> Job] /\ job[s] \in Job
                BY <1>1, <2>2, <2>4 DEF Conns, TypeOK
            <4>2. [job[s] EXCEPT !.step = "pick", !.avoid = lease[s][1]] \in Job
                BY <4>1 DEF Job
            <4> QED BY <2>4, <4>1, <4>2 DEF Retry
        <3>2. /\ lease' \in [Streams -> Conns \cup {None}]
              /\ \A r \in Streams \ {s} : lease'[r] = lease[r]
            BY <1>5, <2>2, <2>4 DEF Retry
        <3>3. Minds(s)
            BY <1>1, <1>2, <2>4, <3>1, <3>2 DEF Minds, Retry, TypeOK, Told
        <3> QED BY <1>1, <2>2, <2>4, <3>3, RetryKeeps
    <2>5. CASE e = "head" /\ TakeHead(s)
        <3>1. lease[s] \in Conns /\ told'[s] = "head"
            BY <1>1, <2>1, <2>5 DEF TakeHead, TypeOK, Firsts, Rests
        <3>2. Minds(s) /\ Records /\ KeepRoute
            BY <1>1, <1>4, <1>7, <2>5, <3>1 DEF TakeHead, KeepRoute, TypeOK, Told
        <3>3. UNCHANGED <<at, on, tries, lease, job>>
            BY <1>1, <2>5 DEF TakeHead, KeepRoute, taskVars
        <3>4. Phase(s)'
            <4>1. CASE Headed(s) /\ Tail(mail[s]) = <<>>
                BY <1>2, <3>1, <3>3, <4>1 DEF Headed, Leases, Phase
            <4>2. CASE Ended(s) /\ \E x \in Rests : Tail(mail[s]) = <<x>>
                BY <1>2, <3>1, <3>3, <4>2 DEF Ended, Leases, Phase
            <4> QED BY <2>1, <2>5, <4>1, <4>2 DEF Firsts, Rests
        <3>5. Blames(s)'
            BY <1>1, <1>3, <3>3 DEF Knows, Blames
        <3> QED BY <1>1, <3>2, <3>3, <3>4, <3>5, StaysKeeps
    <2>6. CASE e = "local 503" /\ TakeLocal(s)
        <3>1. Turned(s) /\ Tail(mail[s]) = <<>> /\ told'[s] = "503"
            BY <1>1, <2>1, <2>6 DEF TakeLocal, TypeOK
        <3>2. Minds(s) /\ Records /\ KeepRoute
            BY <1>1, <1>4, <1>6, <2>6 DEF TakeLocal, KeepRoute, TypeOK, Told
        <3>3. UNCHANGED <<at, on, tries, lease, job>>
            BY <1>1, <2>6 DEF TakeLocal, KeepRoute, taskVars
        <3>4. Phase(s)' /\ Blames(s)'
            BY <1>2, <3>1, <3>3 DEF Turned, Closed, Quiet, Phase, Blames, Life!Over
        <3> QED BY <1>1, <3>2, <3>3, <3>4, StaysKeeps
    <2>7. CASE e = "answer" /\ TakeAnswer(s)
        BY <1>7, <2>2, <2>3, <2>7 DEF TakeAnswer
    <2>8. CASE e = "end" /\ TakeEnd(s)
        BY <1>6, <2>3, <2>8 DEF TakeEnd
    <2>9. CASE e = "gone" /\ TakeGone(s)
        BY <1>7, <2>2, <2>3, <2>4, <2>9 DEF TakeGone, Fails
    <2>10. CASE e = "shed" /\ TakeShed(s)
        BY <1>6, <2>3, <2>10 DEF TakeShed
    <2>11. CASE e = "refused" /\ TakeRefused(s)
        BY <1>6, <2>3, <2>4, <2>11 DEF TakeRefused, Fails
    <2>12. CASE e = "reset" /\ TakeReset(s)
        BY <1>7, <2>2, <2>3, <2>12 DEF TakeReset
    <2> QED BY <1>9, <2>5, <2>6, <2>7, <2>8, <2>9, <2>10, <2>11, <2>12 DEF TakeEvent
<1> QED BY <1>8, <1>9 DEF TakeEvent

LEMMA GiveUpKeeps == ASSUME IInv, NEW s \in Streams, GiveUp(s) PROVE IInv'
<1>1. /\ TypeOK /\ Knows(s) /\ mail \in [Streams -> Seq(Event)] /\ job[s] = Idle
      /\ UNCHANGED <<tries, job, mail, health, tuning, pooled, retired, taskVars, trouble>>
      /\ told' = [told EXCEPT ![s] = "gave up"]
    BY DEF GiveUp, End, IInv
<1>2. Records
    BY <1>1 DEF Records, IInv, TypeOK, Sound
<1>3. CASE lease[s] # None /\ DropRoute(s)
    <2>1. lease[s] \in Conns
        BY <1>1, <1>3 DEF TypeOK
    <2>2. Minds(s)
        BY <1>1, <1>3 DEF Minds, DropRoute, TypeOK, Told
    <2> QED BY <1>1, <1>2, <1>3, <2>1, <2>2, EndsKeeps
<1>4. CASE lease[s] = None /\ KeepRoute
    <2>1. Minds(s)
        BY <1>1, <1>4 DEF Minds, KeepRoute, TypeOK, Told
    <2>2. Phase(s)' /\ Blames(s)'
        BY <1>1, <1>4 DEF TypeOK, KeepRoute, GivenUp, Phase, Blames
    <2> QED BY <1>1, <1>2, <1>4, <2>1, <2>2, StaysKeeps
<1> QED BY <1>1, <1>3, <1>4 DEF GiveUp, End

LEMMA EjectionExpiresKeeps == ASSUME IInv, NEW b \in Backends, EjectionExpires(b) PROVE IInv'
<1> USE DEF EjectionExpires, poolVars, taskVars
<1>1. health \in [Backends -> Entry] /\ health[b] \in Entry /\ health[b].state = "ejected"
    BY DEF IInv, TypeOK
<1>2. b \in Faulty
    BY <1>1 DEF IInv, Sound, NewEntry
<1>3. health' \in [Backends -> Entry]
    BY <1>1, EntryTyped
<1>4. Tasks
    <2>1. Places'
        BY KeepsPlaces DEF IInv, TypeOK
    <2> QED BY <2>1 DEF Tasks, Moved, Stays, IInv
<1>5. Sound'
    BY <1>1, <1>2 DEF IInv, Sound
<1> QED BY <1>3, <1>4, <1>5, TasksKeep DEF IInv, TypeOK

-----------------------------------------------------------------------------
(* The theorems.                                                            *)

(* At the start nothing is asked, leased or known of any backend.           *)
LEMMA IInvAtStart == Init => IInv
<1> SUFFICES ASSUME Init PROVE IInv
    OBVIOUS
<1>1. NewEntry \in Entry /\ EjectAfter \in Nat \ {0} /\ MaxTrouble \in Nat
    BY ProxyAssumption DEF NewEntry, Entry
<1>2. Cardinality(Streams) \in Nat
    BY ProxyAssumption, FS_CardinalityType
<1>3. <<>> \in BoundedSeq(Streams, tuning.pending)
    <2>1. tuning.pending \in Nat
        BY ProxyAssumption DEF Init
    <2>2. <<>> \in Seq(Streams) /\ Len(<<>>) <= tuning.pending
        BY <2>1
    <2> QED BY <2>1, <2>2, BoundedQueue
<1>4. TypeOK
    BY <1>1, <1>2, <1>3 DEF Init, TypeOK, Idle, Job
<1>5. mail \in [Streams -> Seq(Event)]
    BY DEF Init
<1>6. Counts
    <2>1. ASSUME NEW c \in Conns PROVE Cardinality(Holders(c)) = 0
        <3>1. Holders(c) = {}
            BY ProxyAssumption DEF Init, Holders, Idle
        <3> QED BY <3>1, FS_EmptySet
    <2> QED BY <2>1 DEF Init, Counts
<1>7. Queues /\ Sound
    BY DEF Init, Queues, InOrder, Sound
<1>8. ASSUME NEW s \in Streams PROVE Knows(s)
    <2>1. Unasked(s)
        BY DEF Init, Unasked, Quiet
    <2>2. JobKnows(s) /\ LandsElsewhere(s) /\ Blames(s)
        BY ProxyAssumption DEF Init, JobKnows, LandsElsewhere, Blames, Idle
    <2> QED BY <2>1, <2>2 DEF Init, Knows, Phase, Life!Allowed
<1> QED BY <1>4, <1>5, <1>6, <1>7, <1>8 DEF IInv

(* No step of the proxy, of a task or of a backend breaks it.               *)
LEMMA IInvKept == IInv /\ [Next]_vars => IInv'
<1> SUFFICES ASSUME IInv, [Next]_vars PROVE IInv'
    OBVIOUS
<1>1. CASE UNCHANGED vars
    <2>1. Places'
        BY <1>1, KeepsPlaces DEF vars, poolVars, taskVars, IInv, TypeOK
    <2>2. Tasks
        BY <1>1, <2>1 DEF vars, poolVars, taskVars, Tasks, Moved, Stays, IInv
    <2> QED BY <1>1, <2>2, TasksKeep DEF vars, poolVars, taskVars, IInv, TypeOK, Sound
<1>2. ASSUME NEW s \in Streams, Attempt(s) PROVE IInv'
    BY <1>2, DispatchKeeps, PickKeeps, ClaimKeeps, CheckoutKeeps, SendKeeps DEF Attempt
<1>3. ASSUME NEW s \in Streams, TakeEvent(s) \/ GiveUp(s) PROVE IInv'
    BY <1>3, TakeEventKeeps, GiveUpKeeps
<1>4. ASSUME NEW s \in Streams, TakeRequest(s) \/ TakeCancel(s) PROVE IInv'
    BY <1>4, TakeRequestKeeps, TakeCancelKeeps
<1>5. ASSUME NEW s \in Streams, BackendActs(s) \/ BackendRefuses(s) \/ BackendResets(s) PROVE IInv'
    BY <1>5, BackendHeadKeeps, BackendEndKeeps, BackendRefusesKeeps, BackendResetsKeeps
       DEF BackendActs
<1>6. ASSUME NEW c \in Conns, Task(c) \/ Drain(c) \/ ConnectFails(c) \/ ConnDies(c) PROVE IInv'
    BY <1>6, ConnectedKeeps, DrainDoneKeeps, DrainKeeps, ConnectFailsKeeps, ConnDiesKeeps DEF Task
<1>7. ASSUME NEW b \in Backends, EjectionExpires(b) PROVE IInv'
    BY <1>7, EjectionExpiresKeeps
<1> QED BY <1>1, <1>2, <1>3, <1>4, <1>5, <1>6, <1>7 DEF Next

LEMMA IInvAlways == Spec => []IInv
BY IInvAtStart, IInvKept, PTL DEF Spec

(* `live` never counts a lease that nobody holds, nor misses one, so that a *)
(* connection looks busy only while it is; and a request that has ended has *)
(* returned its lease (proxy.rs, Proxy::finish; pool.rs, Drop for Lease).   *)
THEOREM LeasesAreReturned == Spec => []SlotsMatchStreams
<1>1. IInv => SlotsMatchStreams
    <2> SUFFICES ASSUME IInv PROVE SlotsMatchStreams
        OBVIOUS
    <2>1. ASSUME NEW s \in Streams, lease[s] # None PROVE told[s] \in {"waiting", "head"}
        BY <2>1 DEF IInv, Knows, Phase, Unasked, Attempting, Asked, Headed, Ended, Turned, Closed,
                    GivenUp, Quiet
    <2> QED BY <2>1 DEF SlotsMatchStreams, IInv, Counts
<1> QED BY <1>1, IInvAlways, PTL

(* A backend that stays up and answers is in rotation for good, however its *)
(* neighbours fail and its clients give up (proxy.rs, Proxy::intercept).    *)
THEOREM SoundStaysInRotation == Spec => []SoundNeverEjected
<1>1. IInv => SoundNeverEjected
    BY DEF IInv, Sound, SoundNeverEjected, NewEntry
<1> QED BY <1>1, IInvAlways, PTL

(* While any other backend is sound, a retry goes to another backend than   *)
(* the one that failed (proxy.rs, Shared::pick).                            *)
THEOREM RetriesLandElsewhere == Spec => []RetryLandsElsewhere
<1>1. IInv => RetryLandsElsewhere
    BY DEF IInv, Knows, LandsElsewhere, RetryLandsElsewhere
<1> QED BY <1>1, IInvAlways, PTL

-----------------------------------------------------------------------------
(* The life of a request is one that RequestLife promises.                  *)

\* One request gets one step further, which is a step of its promised life.
LEMMA LivesOn ==
    ASSUME IInv, NEW s \in Streams, Attempt(s) \/ TakeEvent(s) \/ GiveUp(s)
    PROVE  Life!Next \/ UNCHANGED Life!vars
<1> USE DEF Life!vars
<1>1. TypeOK /\ Knows(s) /\ mail \in [Streams -> Seq(Event)]
    BY DEF IInv
<1>2. told \in [Streams -> Told] /\ tries \in [Streams -> 0..2]
    BY <1>1 DEF TypeOK, Told
<1>3. CASE Dispatch(s)
    <2>1. Life!Ask(s)
        BY <1>3 DEF Dispatch, Life!Ask, Life!Moves
    <2> QED BY <2>1 DEF Life!Next
<1>4. CASE Pick(s) \/ Claim(s) \/ Checkout(s)
    BY <1>4 DEF Pick, Claim, Checkout
<1>5. CASE Send(s)
    <2>1. told[s] = "waiting" /\ tries[s] < Life!Allowed(s)
        BY <1>1, <1>5, WhileAttempting DEF Send
    <2>2. Life!Try(s) \/ UNCHANGED <<told, tries>>
        BY <1>5, <2>1 DEF Send, Life!Try
    <2> QED BY <2>2 DEF Life!Next
<1>6. CASE TakeEvent(s)
    <2> DEFINE e == Head(mail[s])
    <2>1. mail[s] # <<>> /\ job[s] = Idle /\ UNCHANGED tries
        BY <1>6 DEF TakeEvent
    <2>2. CASE UNCHANGED told
        BY <2>1, <2>2
    <2>3. CASE told[s] # "gave up"
        <3>1. \/ e = "local 503" /\ told[s] = "waiting"
              \/ /\ e # "local 503" /\ tries[s] >= 1
                 /\ \/ e \in Firsts \cup {"head"} /\ told[s] = "waiting"
                    \/ e \in Rests /\ told[s] = "head"
            BY <1>1, <2>1, <2>3, Heard DEF Turned
        <3>2. tries[s] \in 0..2 /\ tries[s] <= Life!Allowed(s)
              /\ Life!Allowed(s) = IF s \in Retryable THEN 2 ELSE 1
            BY <1>1, <1>2 DEF Knows, Life!Allowed
        <3> HIDE DEF e
        <3>2a. ASSUME e # "local 503" PROVE tries[s] > 0 /\ told[s] \in {"waiting", "head"}
            <4>1. tries[s] \in Nat
                BY <1>2
            <4>2. tries[s] >= 1 /\ told[s] \in {"waiting", "head"}
                BY <3>1, <3>2a
            <4>3. tries[s] > 0
                BY <4>1, <4>2
            <4> QED BY <4>2, <4>3
        <3>2b. (e = "head" \/ e = "gone") => told[s] = "waiting"
            BY <3>1 DEF Rests
        <3>3. CASE e = "head" /\ TakeHead(s)
            <4>1. Life!Answer(s)
                BY <2>1, <3>2a, <3>2b, <3>3 DEF TakeHead, Life!Answer, Life!Moves
            <4> QED BY <4>1 DEF Life!Next
        <3>4. CASE e \in {"answer", "end"} /\ End(s, "done")
            <4>1. Life!Answer(s)
                BY <2>1, <3>2a, <3>4 DEF End, Life!Answer, Life!Moves
            <4> QED BY <4>1 DEF Life!Next
        <3>5. CASE e = "gone" /\ ~Retries(s) /\ End(s, "502")
            <4>1. told[s] = "waiting"
                BY <3>2b, <3>5
            <4>2. tries[s] = Life!Allowed(s)
                BY <3>2, <3>2a, <3>5, <4>1 DEF Retries
            <4>3. Life!BadGateway(s)
                BY <2>1, <3>5, <4>1, <4>2 DEF End, Life!BadGateway, Life!Moves
            <4> QED BY <4>3 DEF Life!Next
        <3>6. CASE e = "shed" /\ End(s, "503")
            <4>1. Life!Unavailable(s)
                BY <2>1, <3>1, <3>6 DEF End, Life!Unavailable, Life!Moves, Rests
            <4> QED BY <4>1 DEF Life!Next
        <3>7. CASE e = "local 503" /\ TakeLocal(s)
            <4>1. Life!Unavailable(s)
                BY <2>1, <3>1, <3>7 DEF TakeLocal, Life!Unavailable, Life!Moves
            <4> QED BY <4>1 DEF Life!Next
        <3>8. CASE e \in {"refused", "reset"} /\ End(s, "aborted")
            <4>1. Life!Abort(s)
                BY <2>1, <3>2a, <3>8 DEF End, Life!Abort, Life!Moves
            <4> QED BY <4>1 DEF Life!Next
        <3>9. CASE Retry(s)
            BY <2>1, <3>9 DEF Retry
        <3> QED BY <1>6, <2>3, <3>3, <3>4, <3>5, <3>6, <3>7, <3>8, <3>9
                DEF TakeEvent, e, TakeAnswer, TakeEnd, TakeGone, TakeShed, TakeRefused, TakeReset, Fails
    <2> QED BY <1>6, <2>2, <2>3 DEF TakeEvent
<1>7. CASE GiveUp(s)
    <2>1. Life!GiveUp(s)
        BY <1>7 DEF GiveUp, End, Life!GiveUp, Life!Moves
    <2> QED BY <2>1 DEF Life!Next
<1> QED BY <1>3, <1>4, <1>5, <1>6, <1>7 DEF Attempt

\* The tasks and the backends tell the client nothing themselves.
LEMMA StepsLiveOn == IInv /\ [Next]_vars => [Life!Next]_(Life!vars)
<1> SUFFICES ASSUME IInv, [Next]_vars PROVE Life!Next \/ UNCHANGED Life!vars
    OBVIOUS
<1>1. CASE UNCHANGED vars
    BY <1>1 DEF vars, Life!vars
<1>2. ASSUME NEW s \in Streams, TakeRequest(s) \/ TakeCancel(s) PROVE UNCHANGED Life!vars
    BY <1>2 DEF TakeRequest, TakeCancel, Life!vars
<1>3. ASSUME NEW s \in Streams, BackendActs(s) \/ BackendRefuses(s) \/ BackendResets(s)
      PROVE  UNCHANGED Life!vars
    BY <1>3 DEF BackendActs, BackendHead, BackendEnd, BackendRefuses, BackendResets, Hears, Life!vars
<1>4. ASSUME NEW c \in Conns, Task(c) \/ Drain(c) \/ ConnectFails(c) \/ ConnDies(c)
      PROVE  UNCHANGED Life!vars
    BY <1>4 DEF Task, Connected, DrainDone, Drain, ConnectFails, ConnDies, Life!vars
<1>5. ASSUME NEW b \in Backends, EjectionExpires(b) PROVE UNCHANGED Life!vars
    BY <1>5 DEF EjectionExpires, Life!vars
<1> QED BY <1>1, <1>2, <1>3, <1>4, <1>5, LivesOn DEF Next

(* Whatever pool, health and connections do, each request is asked once, is *)
(* tried within what its method allows, and ends once, in what its tries    *)
(* have come to (proxy.rs, Proxy::intercept and Proxy::retry).              *)
THEOREM KeepsRequestLife == Spec => ImplementsRequestLife
<1>1. Init => Life!Init
    BY DEF Init, Life!Init
<1> QED BY <1>1, IInvAlways, StepsLiveOn, PTL DEF Spec, ImplementsRequestLife, Life!Spec

-----------------------------------------------------------------------------
(* What every implementation of RequestLife inherits, for any requests.      *)

LifeInv == Life!TypeOK /\ Life!TriedAtMost

\* Only Try adds a try, and it asks Allowed first; only BadGateway tells 502, and
\* nothing is told or tried after it.
LEMMA LifeInvKept == LifeInv /\ [Life!Next]_(Life!vars) => LifeInv'
<1> SUFFICES ASSUME LifeInv, [Life!Next]_(Life!vars) PROVE LifeInv'
    OBVIOUS
<1> USE DEF LifeInv, Life!TypeOK, Life!TriedAtMost, Life!Allowed
<1>1. CASE UNCHANGED Life!vars
    BY <1>1 DEF Life!vars
<1>2. ASSUME NEW s \in Streams, Life!Ask(s) PROVE LifeInv'
    BY <1>2 DEF Life!Ask, Life!Moves
<1>3. ASSUME NEW s \in Streams, Life!Try(s) PROVE LifeInv'
    BY <1>3 DEF Life!Try
<1>4. ASSUME NEW s \in Streams, Life!Answer(s) PROVE LifeInv'
    BY <1>4 DEF Life!Answer, Life!Moves, Life!Over
<1>5. ASSUME NEW s \in Streams, Life!BadGateway(s) PROVE LifeInv'
    BY <1>5 DEF Life!BadGateway, Life!Moves, Life!Over
<1>6. ASSUME NEW s \in Streams, Life!Unavailable(s) PROVE LifeInv'
    BY <1>6 DEF Life!Unavailable, Life!Moves, Life!Over
<1>7. ASSUME NEW s \in Streams, Life!Abort(s) PROVE LifeInv'
    BY <1>7 DEF Life!Abort, Life!Moves, Life!Over
<1>8. ASSUME NEW s \in Streams, Life!GiveUp(s) PROVE LifeInv'
    BY <1>8 DEF Life!GiveUp, Life!Moves, Life!Over
<1> QED BY <1>1, <1>2, <1>3, <1>4, <1>5, <1>6, <1>7, <1>8 DEF Life!Next

\* A request that must not be repeated is handed to one backend at most, in
\* RequestLife and so in whatever implements it (proxy.rs, IDEMPOTENT).
THEOREM AtMostOnce == Life!Spec => []Life!TriedAtMost
<1>1. Life!Init => LifeInv
    BY DEF Life!Init, LifeInv, Life!TypeOK, Life!TriedAtMost, Life!Allowed
<1>2. LifeInv => Life!TriedAtMost
    BY DEF LifeInv
<1> QED BY <1>1, <1>2, LifeInvKept, PTL DEF Life!Spec

(* "a retried POST can charge a card twice" (proxy.rs, IDEMPOTENT): what may *)
(* not be repeated goes to one backend at most, and 502 is said only when   *)
(* every try has failed.                                                    *)
THEOREM TriedWithinTheLaw == Spec => []Life!TriedAtMost
BY KeepsRequestLife, AtMostOnce, PTL DEF ImplementsRequestLife
=============================================================================
