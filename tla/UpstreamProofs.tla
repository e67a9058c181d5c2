----------------------------- MODULE UpstreamProofs -----------------------------
(***************************************************************************)
(* For any number of requests to a backend, and however it answers,        *)
(* refuses, drains or fails: what is refused never ran, and a body that    *)
(* ends is whole.  Where the backend sends no zero WINDOW_UPDATE, the      *)
(* events of a request are a response; where besides no SETTINGS raises    *)
(* the limit, no slot is idle while somebody waits; and where none goes    *)
(* above the first limit and nothing is uploaded, the backend serves no    *)
(* more streams at once than it allowed.                                   *)
(*                                                                         *)
(* The invariant says where a request can be: not yet asked, in the inbox, *)
(* in the queue, or known to the backend by a stream id.                   *)
(***************************************************************************)
EXTENDS UpstreamConn, FiniteSetTheorems, SequenceTheorems, TLAPS

Message   == [k : {"Request", "Body", "Cancel"}, r : Requests, end : BOOLEAN]
DownFrame == [k : {"HEADERS", "RST"}, r : Requests, end : BOOLEAN]
                \cup [k : {"DATA"}, r : Requests, n : Nat, end : BOOLEAN]
UpFrame   == [k : {"HEADERS", "DATA", "ZEROUPDATE"}, r : Requests, end : BOOLEAN]
                \cup [k : {"BADTRAILERS"}, r : Requests, end : {TRUE}]
                \cup [k : {"RST"}, r : Requests, refused : BOOLEAN]
                \cup [k : {"GOAWAY"}, last : 0..Never]
                \cup [k : {"SETTINGS"}, max : Limits]

Types ==
    /\ TypeOK /\ up \in {"open", "stopping", "failed", "closed"}
    /\ \A r \in Requests : asked[r] \in Nat \cup {-1}
    /\ inbox \in Seq(Message) /\ toB \in Seq(DownFrame) /\ fromB \in Seq(UpFrame)

\* A request the backend can know: it has a stream id.
Known == {r \in Requests : id[r] # 0}

\* A request nobody has taken from the inbox yet.
Asking(r) == \E i \in DOMAIN inbox : inbox[i].k = "Request" /\ inbox[i].r = r
Fresh(r)  == asked[r] = -1 \/ Asking(r)

\* A Request comes once, and before whatever else is said of it.
InOrder ==
    \A i \in DOMAIN inbox :
        /\ asked[inbox[i].r] # -1
        /\ inbox[i].k = "Request" =>
                \A j \in DOMAIN inbox : inbox[j].r = inbox[i].r => i <= j

Distinct(q) == \A i, j \in DOMAIN q : q[i] = q[j] => i = j

\* A request is in one place.
Places ==
    /\ Distinct(pending)
    /\ \A r \in Requests : Fresh(r) => stage[r] = "none" /\ r \notin Known
    /\ \A r \in ToSet(pending) : stage[r] = "none" /\ r \notin Known /\ ~Fresh(r)
    /\ live \subseteq Known /\ routes \subseteq Known

\* Stream ids are those below the next.
Numbers ==
    /\ nextId \in Nat \ {0}
    /\ \A r \in Requests : id[r] < nextId
    /\ \A i \in 1..(nextId - 1) : \E r \in Requests : id[r] = i

\* What is on its way to the backend: HEADERS once, first, and to be accepted yet.
Down(q) ==
    \A i \in DOMAIN q :
        /\ q[i].r \in Known
        /\ q[i].k = "HEADERS" =>
            /\ bState[q[i].r] = "idle"
            /\ \A j \in DOMAIN q : q[j].r = q[i].r => i <= j

\* What the backend has said, and what it must be for having said it.
About(f) == f.k \notin {"GOAWAY", "SETTINGS"}
Settled  == {"done", "reset", "refused"}
Said(f) ==
    /\ About(f) => f.r \in Known /\ bState[f.r] # "idle"
    /\ f.k = "RST" => bState[f.r] \in Settled /\ (f.refused => bState[f.r] = "refused")
    /\ f.k \in {"HEADERS", "DATA", "BADTRAILERS"} /\ f.end => bState[f.r] \in Settled
    /\ f.k = "GOAWAY" => /\ bLast <= f.last
                         /\ \A r \in Requests : bState[r] # "idle" => id[r] <= f.last
Backend ==
    /\ \A r \in Requests : bState[r] # "idle" => r \in Known
    /\ \A i \in DOMAIN fromB : Said(fromB[i])

\* The backend refused it, or was not sent it and will not be, or will not take it.
Unrun(r) ==
    \/ bState[r] = "refused"
    \/ bState[r] = "idle" /\ (id[r] = 0 \/ id[r] > bLast)
Refusals == \A r \in Requests : stage[r] = "refused" => Unrun(r)

\* The inductive invariant.
Base == Types /\ InOrder /\ Places /\ Numbers /\ Down(toB) /\ Backend
UInv == Base /\ Refusals

-----------------------------------------------------------------------------
(* Sequences. *)

\* r is q with f behind it; r is q without its first; what the two have in common.
Longer(q, r, f) ==
    /\ Len(q) \in Nat /\ DOMAIN q = 1..Len(q) /\ DOMAIN r = 1..(Len(q) + 1)
    /\ \A i \in 1..Len(q) : r[i] = q[i]
    /\ r[Len(q) + 1] = f
Shorter(q, r) ==
    /\ Len(q) \in Nat \ {0} /\ DOMAIN q = 1..Len(q) /\ DOMAIN r = 1..(Len(q) - 1)
    /\ \A i \in 1..(Len(q) - 1) : r[i] = q[i + 1]
    /\ q[1] = Head(q)

LEMMA Added ==
    ASSUME NEW S, NEW q \in Seq(S), NEW f \in S, NEW r, r = Append(q, f)
    PROVE  r \in Seq(S) /\ Len(r) = Len(q) + 1 /\ Longer(q, r, f)
BY DEF Longer

LEMMA Taken ==
    ASSUME NEW S, NEW q \in Seq(S), q # <<>>, NEW r, r = Tail(q)
    PROVE  r \in Seq(S) /\ Head(q) \in S /\ Shorter(q, r)
BY DEF Shorter

\* The first n elements of q, and q without them.
Firsts(q, n) == {q[i] : i \in 1..n}

LEMMA NoMore ==
    ASSUME NEW a \in Nat, NEW b \in Nat, NEW k \in 0..a, a <= b PROVE a - k <= b
OBVIOUS

LEMMA Split ==
    ASSUME NEW q \in Seq(Requests), Distinct(q), NEW n \in 0..Len(q), NEW r,
           r = SubSeq(q, n + 1, Len(q))
    PROVE  /\ r \in Seq(Requests) /\ Distinct(r)
           /\ Len(r) = Len(q) - n /\ (Len(q) <= MaxPending => Len(r) <= MaxPending)
           /\ \A i \in DOMAIN r : r[i] \in ToSet(q) /\ r[i] \notin Firsts(q, n)
           /\ ToSet(q) = Firsts(q, n) \cup ToSet(r)
<1>1. /\ r \in Seq(Requests) /\ Len(r) = Len(q) - n
      /\ \A i \in 1..(Len(q) - n) : r[i] = q[i + n]
    BY SubSeqProperties
<1>2. \A i \in DOMAIN r : i + n \in DOMAIN q /\ r[i] = q[i + n] /\ ~(i + n \in 1..n)
    BY <1>1
<1>3. Distinct(r)
    <2> SUFFICES ASSUME NEW i \in DOMAIN r, NEW j \in DOMAIN r, r[i] = r[j] PROVE i = j
        BY DEF Distinct
    <2>1. i + n = j + n
        BY <1>2 DEF Distinct
    <2> QED BY <2>1, <1>1
<1>4. ASSUME NEW i \in DOMAIN r PROVE r[i] \in ToSet(q) /\ r[i] \notin Firsts(q, n)
    <2>1. r[i] \in ToSet(q)
        BY <1>2 DEF ToSet
    <2>2. ASSUME NEW j \in 1..n PROVE r[i] # q[j]
        BY <1>2 DEF Distinct
    <2> QED BY <2>1, <2>2 DEF Firsts
<1>5. ASSUME NEW x \in ToSet(q) PROVE x \in Firsts(q, n) \cup ToSet(r)
    <2>1. PICK i \in DOMAIN q : x = q[i]
        BY DEF ToSet
    <2>2. CASE i <= n
        BY <2>1, <2>2 DEF Firsts
    <2>3. CASE ~(i <= n)
        <3>1. i - n \in DOMAIN r /\ i - n \in 1..(Len(q) - n) /\ (i - n) + n = i
            BY <2>3, <1>1
        <3>2. r[i - n] = x
            BY <3>1, <2>1, <1>1
        <3> QED BY <3>1, <3>2 DEF ToSet
    <2> QED BY <2>2, <2>3
<1>6. Firsts(q, n) \subseteq ToSet(q)
    BY DEF Firsts, ToSet
<1>7. ToSet(r) \subseteq ToSet(q)
    BY <1>4 DEF ToSet
<1>8. Len(q) <= MaxPending => Len(r) <= MaxPending
    <2>1. MaxPending \in Nat
        BY UpstreamAssumption
    <2>2. Len(q) \in Nat
        OBVIOUS
    <2> QED BY <1>1, <2>1, <2>2, NoMore, Zenon
<1> QED BY <1>1, <1>3, <1>4, <1>5, <1>6, <1>7, <1>8

\* Taking one of distinct elements out leaves the others, each once.
LEMMA WithoutOne ==
    ASSUME NEW q \in Seq(Requests), NEW s \in Requests, Distinct(q), NEW w, w = Without(q, s)
    PROVE  /\ w \in Seq(Requests) /\ Len(w) <= Len(q) /\ Distinct(w)
           /\ \A i \in DOMAIN w : w[i] \in ToSet(q) /\ w[i] # s
<1>1. CASE ~Contains(q, s)
    <2>1. w = q
        BY <1>1 DEF Without
    <2>2. \A i \in DOMAIN q : q[i] # s
        BY <1>1 DEF Contains
    <2> QED BY <2>1, <2>2 DEF ToSet
<1>2. CASE Contains(q, s)
    <2> DEFINE k == CHOOSE i \in 1..Len(q) : q[i] = s
               front == SubSeq(q, 1, k - 1)
               back  == SubSeq(q, k + 1, Len(q))
    <2>1. k \in 1..Len(q) /\ q[k] = s
        BY <1>2 DEF Contains
    <2>2. w = front \o back
        BY <1>2 DEF Without, RemoveAt
    <2> HIDE DEF k
    <2>3. /\ front \in Seq(Requests) /\ Len(front) = k - 1
          /\ \A i \in 1..(k - 1) : front[i] = q[i]
        BY <2>1, SubSeqProperties
    <2>4. /\ back \in Seq(Requests) /\ Len(back) = Len(q) - k
          /\ \A i \in 1..(Len(q) - k) : back[i] = q[i + k]
        BY <2>1, SubSeqProperties
    <2> HIDE DEF front, back
    <2>5. /\ w \in Seq(Requests) /\ Len(w) = Len(front) + Len(back)
          /\ \A i \in 1..(Len(front) + Len(back)) :
                w[i] = IF i <= Len(front) THEN front[i] ELSE back[i - Len(front)]
        <3> DEFINE both == front \o back
        <3>1. /\ both \in Seq(Requests) /\ Len(both) = Len(front) + Len(back)
              /\ \A i \in 1..(Len(front) + Len(back)) :
                    both[i] = IF i <= Len(front) THEN front[i] ELSE back[i - Len(front)]
            BY <2>3, <2>4, ConcatProperties, ZenonT(40)
        <3> QED BY <2>2, <3>1, Zenon
    <2> DEFINE From(n) == IF n < k THEN n ELSE n + 1
    <2>6. ASSUME NEW i \in DOMAIN w
          PROVE  From(i) \in DOMAIN q /\ From(i) # k /\ w[i] = q[From(i)]
        <3>1. i \in 1..(Len(front) + Len(back)) /\ i \in 1..(Len(q) - 1)
            BY <2>1, <2>3, <2>4, <2>5
        <3>2. CASE i < k
            <4>1. i \in 1..(k - 1) /\ i <= Len(front)
                BY <2>1, <2>3, <3>1, <3>2
            <4>2. w[i] = q[i]
                BY <2>3, <2>5, <3>1, <4>1
            <4> QED BY <2>1, <3>1, <3>2, <4>2
        <3>3. CASE ~(i < k)
            <4>1. i - (k - 1) \in 1..(Len(q) - k) /\ (i - (k - 1)) + k = i + 1
                BY <2>1, <3>1, <3>3
            <4>2. ~(i <= Len(front)) /\ Len(front) = k - 1
                BY <2>1, <2>3, <3>1, <3>3
            <4>3. w[i] = back[i - Len(front)]
                BY <2>5, <3>1, <4>2
            <4>4. i - Len(front) \in 1..(Len(q) - k) /\ (i - Len(front)) + k = i + 1
                BY <4>1, <4>2
            <4>5. w[i] = q[i + 1]
                <5>1. back[i - Len(front)] = q[(i - Len(front)) + k]
                    BY <2>4, <4>4
                <5> QED BY <4>3, <4>4, <5>1
            <4>6. i + 1 \in DOMAIN q /\ i + 1 # k
                BY <2>1, <3>1, <3>3
            <4> QED BY <3>3, <4>5, <4>6, Zenon
        <3> QED BY <3>2, <3>3
    <2>7. Len(w) <= Len(q) /\ \A i, j \in DOMAIN w : From(i) = From(j) => i = j
        BY <2>1, <2>3, <2>4, <2>5
    <2> HIDE DEF From
    <2>8. Distinct(w)
        BY <2>6, <2>7 DEF Distinct
    <2>9. \A i \in DOMAIN w : w[i] \in ToSet(q) /\ w[i] # s
        BY <2>1, <2>6 DEF Distinct, ToSet
    <2> QED BY <2>5, <2>7, <2>8, <2>9
<1> QED BY <1>1, <1>2

-----------------------------------------------------------------------------
(* Opening streams. *)

\* The first n of q get a stream, beside those open and routed, in the order of
\* q; their HEADERS follow `frames`.  With n = 0, none does.
Opens(q, n, open, kept, frames) ==
    /\ q \in Seq(Requests) /\ n \in 0..Len(q)
    /\ live' = open \cup Firsts(q, n) /\ routes' = kept \cup Firsts(q, n)
    /\ nextId' = nextId + n
    /\ id' \in [Requests -> Nat]
    /\ \A i \in 1..n : id'[q[i]] = nextId + i - 1
    /\ \A r \in Requests \ Firsts(q, n) : id'[r] = id[r]
    /\ toB' \in Seq(DownFrame) /\ Len(toB') = Len(frames) + n
    /\ \A i \in 1..Len(frames) : toB'[i] = frames[i]
    /\ \A i \in 1..n : toB'[Len(frames) + i] = Headers(q[i])

\* The types of what a step that opens streams reads.
Table ==
    /\ id \in [Requests -> Nat] /\ nextId \in Nat \ {0} /\ limit \in Nat
    /\ live \subseteq Requests /\ routes \subseteq Requests
    /\ toB \in Seq(DownFrame) /\ pending \in Seq(Requests)

LEMMA HeadersType ==
    ASSUME NEW r \in Requests
    PROVE  Headers(r) \in DownFrame /\ Headers(r).k = "HEADERS" /\ Headers(r).r = r
BY UpstreamAssumption DEF Headers, Frame, DownFrame

LEMMA Unopened ==
    ASSUME Table, NEW open, NEW kept, live' = open, routes' = kept,
           UNCHANGED <<nextId, id>>, toB' \in Seq(DownFrame)
    PROVE  Opens(<<>>, 0, open, kept, toB')
BY DEF Table, Opens, Firsts

LEMMA Filled ==
    ASSUME Table, NEW open, NEW kept, open \in SUBSET Requests,
           NEW q \in Seq(Requests), Distinct(q),
           NEW frames \in Seq(DownFrame), FillSlots(open, kept, q, frames)
    PROVE  \E n \in 0..Len(q) :
               /\ Opens(q, n, open, kept, frames)
               /\ pending' = SubSeq(q, n + 1, Len(q))
               /\ n = Len(q) \/ Cardinality(open) + n >= limit
               /\ n = 0 \/ Cardinality(open) + n <= limit
<1> DEFINE c     == Cardinality(open)
           room  == IF CanOpen(open) THEN limit - c ELSE 0
           n     == IF Len(q) < room THEN Len(q) ELSE room
           first == SubSeq(q, 1, n)
           new   == [i \in 1..n |-> Headers(first[i])]
<1>1. c \in Nat
    <2>1. IsFiniteSet(open)
        BY UpstreamAssumption, FS_Subset
    <2> QED BY <2>1, FS_CardinalityType
<1>2. /\ live' = open \cup ToSet(first) /\ routes' = kept \cup ToSet(first)
      /\ pending' = SubSeq(q, n + 1, Len(q)) /\ nextId' = nextId + n
      /\ id' = [r \in Requests |-> IF r \in ToSet(first)
                    THEN nextId + (CHOOSE i \in 1..n : first[i] = r) - 1 ELSE id[r]]
      /\ toB' = frames \o new
    BY Zenon DEF FillSlots
<1>3. CanOpen(open) <=> c < limit
    BY DEF CanOpen
<1> HIDE DEF c
<1>4. /\ n \in 0..Len(q)
      /\ n = Len(q) \/ c + n >= limit
      /\ n = 0 \/ c + n <= limit
    BY <1>1, <1>3 DEF Table
<1> HIDE DEF n
<1>5. first \in Seq(Requests) /\ Len(first) = n /\ \A i \in 1..n : first[i] = q[i]
    BY <1>4, SubSeqProperties
<1> HIDE DEF first
<1>6. ToSet(first) = Firsts(q, n)
    BY <1>4, <1>5 DEF ToSet, Firsts
<1>7. /\ new \in Seq(DownFrame) /\ Len(new) = n
      /\ \A i \in 1..n : new[i] = Headers(q[i])
    <2>1. \A i \in 1..n : first[i] \in Requests
        BY <1>4, <1>5
    <2>2. \A i \in 1..n : new[i] = Headers(q[i]) /\ new[i] \in DownFrame
        BY <1>5, <2>1, HeadersType
    <2>3. DOMAIN new = 1..n /\ n \in Nat
        BY <1>4
    <2> HIDE DEF new
    <2>4. new = [i \in 1..n |-> new[i]]
        BY <1>4 DEF new
    <2>5. new \in [1..n -> DownFrame]
        BY <2>2, <2>4
    <2> QED BY <2>2, <2>3, <2>5
<1> HIDE DEF new
<1>8. /\ toB' \in Seq(DownFrame) /\ Len(toB') = Len(frames) + n
      /\ \A i \in 1..Len(frames) : toB'[i] = frames[i]
      /\ \A i \in 1..n : toB'[Len(frames) + i] = Headers(q[i])
    <2> DEFINE both == frames \o new
    <2>1. /\ both \in Seq(DownFrame) /\ Len(both) = Len(frames) + Len(new)
          /\ \A i \in 1..(Len(frames) + Len(new)) :
                both[i] = IF i <= Len(frames) THEN frames[i] ELSE new[i - Len(frames)]
        BY <1>7, ConcatProperties, ZenonT(40)
    <2>2. toB' = both
        BY <1>2
    <2> HIDE DEF both
    <2>3. Len(frames) \in Nat /\ n \in Nat
        BY <1>4
    <2>4. \A i \in 1..Len(frames) : i \in 1..(Len(frames) + Len(new)) /\ i <= Len(frames)
        BY <1>7, <2>3
    <2>5. ASSUME NEW i \in 1..n
          PROVE  /\ Len(frames) + i \in 1..(Len(frames) + Len(new))
                 /\ ~(Len(frames) + i <= Len(frames)) /\ (Len(frames) + i) - Len(frames) = i
        BY <1>7, <2>3
    <2>6. \A i \in 1..n : both[Len(frames) + i] = new[i]
        BY <2>1, <2>5
    <2> QED BY <1>7, <2>1, <2>2, <2>4, <2>6
<1>9. /\ id' \in [Requests -> Nat]
      /\ \A i \in 1..n : id'[q[i]] = nextId + i - 1
      /\ \A r \in Requests \ Firsts(q, n) : id'[r] = id[r]
    <2>1. ASSUME NEW r \in Firsts(q, n)
          PROVE  /\ r \in Requests
                 /\ \E i \in 1..n : first[i] = r /\ id'[r] = nextId + i - 1
        <3>1. PICK j \in 1..n : q[j] = r
            BY DEF Firsts
        <3>2. first[j] = r /\ r \in Requests /\ r \in ToSet(first)
            BY <3>1, <1>4, <1>5, <1>6
        <3> DEFINE k == CHOOSE i \in 1..n : first[i] = r
        <3>3. k \in 1..n /\ first[k] = r
            BY <3>2
        <3>4. id'[r] = nextId + k - 1
            BY <1>2, <3>2
        <3> QED BY <3>2, <3>3, <3>4
    <2>2. \A r \in Requests \ Firsts(q, n) : id'[r] = id[r]
        BY <1>2, <1>6
    <2>3. \A i \in 1..n : nextId + i - 1 \in Nat
        BY <1>4 DEF Table
    <2>4. id' \in [Requests -> Nat]
        <3>1. \A r \in Requests : id'[r] \in Nat
            BY <2>1, <2>2, <2>3 DEF Table
        <3>2. id' = [r \in Requests |-> id'[r]]
            BY <1>2
        <3> QED BY <3>1, <3>2
    <2>5. ASSUME NEW i \in 1..n PROVE id'[q[i]] = nextId + i - 1
        <3>1. q[i] \in Firsts(q, n) /\ i \in DOMAIN q
            BY <1>4 DEF Firsts
        <3>2. PICK j \in 1..n : first[j] = q[i] /\ id'[q[i]] = nextId + j - 1
            BY <2>1, <3>1
        <3>3. q[j] = q[i] /\ j \in DOMAIN q
            BY <1>4, <1>5, <3>2
        <3>4. i = j
            BY <3>1, <3>3 DEF Distinct
        <3> QED BY <3>2, <3>4
    <2> QED BY <2>2, <2>4, <2>5
<1>10. Opens(q, n, open, kept, frames)
    BY <1>2, <1>4, <1>6, <1>8, <1>9 DEF Opens
<1> QED BY <1>2, <1>4, <1>10 DEF c

\* What is behind the frames on their way opens nothing.
Behind(frames) ==
    /\ frames \in Seq(DownFrame) /\ Len(toB) <= Len(frames)
    /\ \A i \in DOMAIN frames :
            IF i <= Len(toB) THEN frames[i] = toB[i]
            ELSE frames[i].k # "HEADERS" /\ frames[i].r \in Known

LEMMA BehindDown ==
    ASSUME Table, Down(toB), NEW frames, Behind(frames)
    PROVE  Down(frames)
<1>1. /\ Len(toB) \in Nat /\ DOMAIN toB = 1..Len(toB)
      /\ Len(frames) \in Nat /\ DOMAIN frames = 1..Len(frames)
    BY DEF Table, Behind
<1>2. \A i \in DOMAIN frames : i <= Len(toB) => i \in DOMAIN toB /\ frames[i] = toB[i]
    BY <1>1 DEF Behind
<1>3. ASSUME NEW i \in DOMAIN frames PROVE frames[i].r \in Known
    BY <1>2 DEF Behind, Down
<1>4. ASSUME NEW i \in DOMAIN frames, frames[i].k = "HEADERS"
      PROVE  /\ bState[frames[i].r] = "idle"
             /\ \A j \in DOMAIN frames : frames[j].r = frames[i].r => i <= j
    <2>1. i <= Len(toB) /\ i \in DOMAIN toB /\ frames[i] = toB[i]
        BY <1>2, <1>4 DEF Behind
    <2>2. /\ bState[toB[i].r] = "idle"
          /\ \A j \in DOMAIN toB : toB[j].r = toB[i].r => i <= j
        BY <2>1, <1>4 DEF Down
    <2>3. ASSUME NEW j \in DOMAIN frames, frames[j].r = frames[i].r PROVE i <= j
        <3>1. CASE j <= Len(toB)
            BY <3>1, <2>1, <2>2, <2>3, <1>2
        <3>2. CASE ~(j <= Len(toB))
            BY <3>2, <2>1, <1>1
        <3> QED BY <3>1, <3>2
    <2> QED BY <2>1, <2>2, <2>3
<1> QED BY <1>3, <1>4 DEF Down

LEMMA Numbered ==
    ASSUME Table, Numbers, Down(toB), live \subseteq Known, routes \subseteq Known,
           \A r \in Requests : bState[r] # "idle" => r \in Known,
           NEW open, NEW kept, open \in SUBSET live, kept \in SUBSET routes,
           NEW frames, Behind(frames), NEW q, NEW n, Distinct(q),
           \A r \in Firsts(q, n) : r \notin Known,
           Opens(q, n, open, kept, frames), bState' = bState
    PROVE  /\ Known' = Known \cup Firsts(q, n)
           /\ \A r \in Known : id'[r] = id[r]
           /\ Numbers' /\ Down(toB)'
           /\ live' \subseteq Known' /\ routes' \subseteq Known'
<1>1. /\ n \in Nat /\ q \in Seq(Requests) /\ \A i \in 1..n : i \in DOMAIN q /\ q[i] \in Requests
      /\ nextId' = nextId + n
      /\ \A i \in 1..n : id'[q[i]] = nextId + i - 1
      /\ \A r \in Requests \ Firsts(q, n) : id'[r] = id[r]
      /\ id' \in [Requests -> Nat]
    BY DEF Opens
<1>2. \A r \in Firsts(q, n) : r \in Requests /\ \E i \in 1..n : q[i] = r /\ id'[r] = nextId + i - 1
    BY <1>1 DEF Firsts
<1>3. Known' = Known \cup Firsts(q, n) /\ \A r \in Known : id'[r] = id[r]
    <2>1. \A r \in Firsts(q, n) : id'[r] # 0
        BY <1>1, <1>2 DEF Table
    <2> QED BY <1>1, <1>2, <2>1 DEF Known
<1>4. Numbers'
    <2>1. nextId' \in Nat \ {0} /\ nextId <= nextId'
        BY <1>1 DEF Table
    <2>2. ASSUME NEW r \in Requests PROVE id'[r] < nextId'
        <3>1. CASE r \in Firsts(q, n)
            BY <3>1, <1>1, <1>2 DEF Table
        <3>2. CASE r \notin Firsts(q, n)
            BY <3>2, <1>1 DEF Table, Numbers
        <3> QED BY <3>1, <3>2
    <2>3. ASSUME NEW i \in 1..(nextId' - 1) PROVE \E r \in Requests : id'[r] = i
        <3>1. CASE i < nextId
            <4>1. i \in 1..(nextId - 1)
                BY <3>1 DEF Table
            <4>2. PICK r \in Requests : id[r] = i
                BY <4>1 DEF Numbers
            <4>3. r \in Known
                BY <4>2 DEF Known
            <4> QED BY <4>2, <4>3, <1>3
        <3>2. CASE ~(i < nextId)
            <4>1. i - nextId + 1 \in 1..n /\ nextId + (i - nextId + 1) - 1 = i
                BY <3>2, <1>1 DEF Table
            <4> QED BY <4>1, <1>1
        <3> QED BY <3>1, <3>2
    <2> QED BY <2>1, <2>2, <2>3 DEF Numbers
<1>5. live' \subseteq Known' /\ routes' \subseteq Known'
    BY <1>3 DEF Opens
<1>6. Down(toB)'
    <2>1. Down(frames)
        BY BehindDown
    <2>2. /\ Len(frames) \in Nat /\ DOMAIN frames = 1..Len(frames)
          /\ DOMAIN toB' = 1..(Len(frames) + n)
          /\ \A i \in 1..Len(frames) : toB'[i] = frames[i]
        BY <1>1 DEF Opens, Behind
    <2>3. ASSUME NEW i \in DOMAIN toB', ~(i \in DOMAIN frames)
          PROVE  /\ i - Len(frames) \in 1..n /\ i > Len(frames)
                 /\ toB'[i].r = q[i - Len(frames)] /\ q[i - Len(frames)] \in Firsts(q, n)
        <3>1. i - Len(frames) \in 1..n /\ Len(frames) + (i - Len(frames)) = i /\ i > Len(frames)
            BY <1>1, <2>2, <2>3
        <3>2. toB'[i] = Headers(q[i - Len(frames)])
            BY <3>1 DEF Opens
        <3>3. q[i - Len(frames)] \in Requests
            BY <3>1, <1>1
        <3>4. toB'[i].r = q[i - Len(frames)]
            BY <3>2, <3>3, HeadersType
        <3> QED BY <3>1, <3>4 DEF Firsts
    <2>4. ASSUME NEW i \in DOMAIN toB' PROVE (toB'[i]).r \in Known'
        BY <2>1, <2>2, <2>3, <1>3 DEF Down
    <2>5. ASSUME NEW i \in DOMAIN toB', (toB'[i]).k = "HEADERS"
          PROVE  /\ bState[toB'[i].r] = "idle"
                 /\ \A j \in DOMAIN toB' : toB'[j].r = toB'[i].r => i <= j
        <3>1. CASE i \in DOMAIN frames
            <4>1. frames[i].k = "HEADERS" /\ toB'[i] = frames[i]
                BY <2>2, <2>5, <3>1
            <4>2. /\ bState[frames[i].r] = "idle"
                  /\ \A j \in DOMAIN frames : frames[j].r = frames[i].r => i <= j
                BY <2>1, <3>1, <4>1 DEF Down
            <4>3. \A j \in DOMAIN toB' : ~(j \in DOMAIN frames) => i <= j
                BY <2>2, <3>1
            <4>4. \A j \in DOMAIN frames : toB'[j] = frames[j]
                BY <2>2
            <4> QED BY <4>1, <4>2, <4>3, <4>4
        <3>2. CASE ~(i \in DOMAIN frames)
            <4>1. /\ i - Len(frames) \in 1..n /\ i > Len(frames)
                  /\ toB'[i].r = q[i - Len(frames)] /\ q[i - Len(frames)] \in Firsts(q, n)
                BY <2>3, <3>2
            <4>2. toB'[i].r \in Requests /\ toB'[i].r \notin Known
                BY <4>1, <1>2
            <4>3. bState[toB'[i].r] = "idle"
                BY <4>2
            <4>4. ASSUME NEW j \in DOMAIN toB', (toB'[j]).r = (toB'[i]).r PROVE i <= j
                <5>1. ~(j \in DOMAIN frames)
                    BY <2>1, <2>2, <4>2, <4>4 DEF Down
                <5>2. j - Len(frames) \in 1..n /\ toB'[j].r = q[j - Len(frames)]
                    BY <2>3, <5>1
                <5>3. j - Len(frames) = i - Len(frames)
                    BY <1>1, <4>1, <4>4, <5>2 DEF Distinct
                <5> QED BY <5>3, <2>2
            <4> QED BY <4>3, <4>4
        <3> QED BY <3>1, <3>2
    <2> QED BY <2>4, <2>5 DEF Down
<1> QED BY <1>3, <1>4, <1>5, <1>6

LEMMA TypedTable == ASSUME Types, Numbers PROVE Table
BY Zenon DEF Types, TypeOK, Table, Numbers

\* What is still to be read from the backend, if the backend did nothing.
OldNews(q) == \A i \in DOMAIN q : \E j \in DOMAIN fromB : q[i] = fromB[j]

\* Who nobody asked for yet is left alone; who waits, waits in one place; and who
\* is newly told of a refusal is rightly told.
Fresher  == \A r \in Requests : Fresh(r)' => Fresh(r) /\ stage'[r] = "none"
Waits(r) ==
    /\ Fresh(r) \/ r \in ToSet(pending)
    /\ r \notin Known /\ ~Fresh(r)' /\ stage'[r] = "none"
Spared   == \A r \in Requests : stage'[r] = "refused" => stage[r] = "refused" \/ Unrun(r)

\* A step of the task: the first n of q get a stream.
TaskStep(q, n, open, kept, frames) ==
    /\ open \in SUBSET live /\ kept \in SUBSET routes /\ Behind(frames)
    /\ Distinct(q) /\ Opens(q, n, open, kept, frames)
    /\ UNCHANGED backendVars /\ OldNews(fromB')
    /\ Fresher /\ Spared /\ Distinct(pending')
    /\ \A r \in Firsts(q, n) \cup ToSet(pending') : Waits(r)
    /\ \A r \in ToSet(pending') : r \notin Firsts(q, n)

\* Such a step leaves every request in one place.
LEMMA TaskKeeps ==
    ASSUME UInv, NEW q, NEW n, NEW open, NEW kept, NEW frames,
           TaskStep(q, n, open, kept, frames)
    PROVE  /\ Places' /\ Numbers' /\ Down(toB)' /\ Backend' /\ Refusals'
           /\ Known' = Known \cup Firsts(q, n) /\ \A r \in Known : id'[r] = id[r]
<1>1. bState' = bState /\ bLast' = bLast
    BY DEF backendVars, TaskStep
<1>2. Table /\ Numbers /\ Down(toB) /\ live \subseteq Known /\ routes \subseteq Known
      /\ \A r \in Requests : bState[r] # "idle" => r \in Known
    BY TypedTable, Zenon DEF UInv, Base, Places, Backend
<1>3. /\ Known' = Known \cup Firsts(q, n)
      /\ \A r \in Known : id'[r] = id[r]
      /\ Numbers' /\ Down(toB)'
      /\ live' \subseteq Known' /\ routes' \subseteq Known'
    <2>1. /\ open \in SUBSET live /\ kept \in SUBSET routes /\ Behind(frames)
          /\ Distinct(q) /\ Opens(q, n, open, kept, frames)
          /\ \A r \in Firsts(q, n) : r \notin Known
        BY Zenon DEF TaskStep, Waits
    <2> QED BY <2>1, <1>1, <1>2, Numbered, Zenon
<1>4. Places'
    <2>1. ASSUME NEW r \in Requests, Fresh(r)' PROVE stage'[r] = "none" /\ r \notin Known'
        BY <2>1, <1>3, Zenon DEF UInv, Base, Places, TaskStep, Fresher, Waits
    <2>2. \A r \in ToSet(pending') : stage'[r] = "none" /\ r \notin Known' /\ ~Fresh(r)'
        BY <1>3, Zenon DEF TaskStep, Waits
    <2>3. Distinct(pending')
        BY Zenon DEF TaskStep
    <2> QED BY <2>1, <2>2, <2>3, <1>3, Zenon DEF Places
<1>5. Backend'
    <2>1. \A r \in Requests : bState'[r] # "idle" => r \in Known'
        BY <1>1, <1>2, <1>3, Zenon
    <2>2. ASSUME NEW f, Said(f) PROVE Said(f)'
        <3>1. About(f) => f.r \in Known' /\ bState'[f.r] # "idle"
            BY <2>2, <1>1, <1>3, Zenon DEF Said
        <3>2. /\ f.k = "RST" => bState'[f.r] \in Settled /\ (f.refused => bState'[f.r] = "refused")
              /\ f.k \in {"HEADERS", "DATA", "BADTRAILERS"} /\ f.end => bState'[f.r] \in Settled
            BY <2>2, <1>1 DEF Said
        <3>3. f.k = "GOAWAY" => /\ bLast' <= f.last
                                /\ \A r \in Requests : bState'[r] # "idle" => id'[r] <= f.last
            BY <2>2, <1>1, <1>2, <1>3, Zenon DEF Said
        <3> QED BY <3>1, <3>2, <3>3, Zenon DEF Said
    <2>3. ASSUME NEW i \in DOMAIN fromB' PROVE Said(fromB[i])'
        <3>1. PICK j \in DOMAIN fromB : fromB'[i] = fromB[j]
            BY Zenon DEF TaskStep, OldNews
        <3>2. Said(fromB[j])
            BY Zenon DEF UInv, Base, Backend
        <3>3. Said(fromB'[i])
            BY <3>1, <3>2, Zenon
        <3> QED BY <2>2, <3>3, Zenon DEF Said, About
    <2> QED BY <2>1, <2>3, Zenon DEF Backend
<1>6. Refusals'
    <2> SUFFICES ASSUME NEW r \in Requests, stage'[r] = "refused" PROVE Unrun(r)'
        BY DEF Refusals
    <2>1. Unrun(r)
        BY Zenon DEF UInv, Refusals, TaskStep, Spared
    <2>2. r \notin Firsts(q, n)
        BY DEF TaskStep, Waits
    <2>3. id'[r] = id[r]
        BY <2>2 DEF TaskStep, Opens
    <2> QED BY <2>1, <2>3, <1>1 DEF Unrun
<1> QED BY <1>3, <1>4, <1>5, <1>6

-----------------------------------------------------------------------------
(* The inbox. *)

LEMMA MessageType ==
    ASSUME NEW k \in {"Request", "Body", "Cancel"}, NEW r \in Requests, NEW end \in BOOLEAN
    PROVE  /\ Frame(k, r, end) \in Message
           /\ Frame(k, r, end).k = k /\ Frame(k, r, end).r = r /\ Frame(k, r, end).end = end
BY DEF Frame, Message

\* One more message: the Request itself, or one about a request that was asked for.
LEMMA MessageSent ==
    ASSUME Types, InOrder, NEW m \in Message, inbox' = Append(inbox, m),
           asked' \in [Requests -> Nat \cup {-1}],
           \A r \in Requests : r # m.r => asked'[r] = asked[r],
           IF m.k = "Request" THEN asked[m.r] = -1 ELSE asked[m.r] # -1, asked'[m.r] # -1
    PROVE  /\ inbox' \in Seq(Message) /\ InOrder'
           /\ \A r \in Requests : Fresh(r)' <=> Fresh(r)
<1>1. inbox' \in Seq(Message) /\ Longer(inbox, inbox', m)
    BY Added DEF Types
<1>2. /\ Len(inbox) \in Nat /\ DOMAIN inbox = 1..Len(inbox)
      /\ DOMAIN inbox' = 1..(Len(inbox) + 1)
      /\ \A i \in 1..Len(inbox) : inbox'[i] = inbox[i]
      /\ inbox'[Len(inbox) + 1] = m
    BY <1>1 DEF Longer
<1> DEFINE n == Len(inbox) + 1
<1>3. /\ n \in DOMAIN inbox' /\ inbox'[n] = m
      /\ \A i \in DOMAIN inbox : i \in DOMAIN inbox' /\ inbox'[i] = inbox[i] /\ i <= n
      /\ \A i \in DOMAIN inbox' : i = n \/ i \in DOMAIN inbox
    BY <1>2
<1>4. \A i \in DOMAIN inbox : inbox[i].r \in Requests
    <2>1. inbox \in Seq(Message)
        BY DEF Types
    <2>2. \A i \in DOMAIN inbox : inbox[i] \in Message
        BY <2>1
    <2> QED BY <2>2 DEF Message
<1>5. m.r \in Requests /\ n \in Nat
    BY <1>2 DEF Message
<1> HIDE DEF n
<1>6. InOrder'
    <2>1. ASSUME NEW i \in DOMAIN inbox' PROVE asked'[inbox'[i].r] # -1
        BY <1>3, <1>4 DEF InOrder
    <2>2. ASSUME NEW i \in DOMAIN inbox', inbox'[i].k = "Request",
                 NEW j \in DOMAIN inbox', inbox'[j].r = inbox'[i].r
          PROVE  i <= j
        <3>1. CASE i = n
            <4>1. asked[m.r] = -1
                BY <2>2, <3>1, <1>3
            <4>2. j \notin DOMAIN inbox
                BY <2>2, <3>1, <4>1, <1>3 DEF InOrder
            <4> QED BY <3>1, <4>2, <1>3, <1>5
        <3>2. CASE i # n
            BY <2>2, <3>2, <1>3 DEF InOrder
        <3> QED BY <3>1, <3>2
    <2> QED BY <2>1, <2>2 DEF InOrder
<1>7. ASSUME NEW r \in Requests PROVE Fresh(r)' <=> Fresh(r)
    <2>1. CASE r # m.r
        <3>1. asked'[r] = asked[r]
            BY <2>1
        <3>2. Asking(r)' <=> Asking(r)
            BY <2>1, <1>3 DEF Asking
        <3> QED BY <3>1, <3>2, Zenon DEF Fresh, Asking
    <2>2. CASE r = m.r /\ m.k = "Request"
        <3>1. Fresh(r)
            BY <2>2 DEF Fresh
        <3>2. Asking(r)'
            BY <2>2, <1>3 DEF Asking
        <3> QED BY <3>1, <3>2, Zenon DEF Fresh, Asking
    <2>3. CASE r = m.r /\ m.k # "Request"
        <3>1. Asking(r)' <=> Asking(r)
            BY <2>3, <1>3 DEF Asking
        <3> QED BY <2>3, <3>1, Zenon DEF Fresh, Asking
    <2> QED BY <2>1, <2>2, <2>3
<1> QED BY <1>1, <1>6, <1>7

\* One message less: what a message other than the Request is about was taken.
LEMMA MessageTaken ==
    ASSUME Types, InOrder, inbox # <<>>, inbox' = Tail(inbox), asked' = asked,
           NEW m, m = Head(inbox)
    PROVE  /\ inbox' \in Seq(Message) /\ InOrder' /\ m \in Message
           /\ m.k = "Request" <=> Fresh(m.r)
           /\ ~Fresh(m.r)'
           /\ \A r \in Requests : Fresh(r)' => Fresh(r)
<1>1. inbox' \in Seq(Message) /\ m \in Message /\ Shorter(inbox, inbox')
    BY Taken DEF Types
<1>2. /\ 1 \in DOMAIN inbox /\ inbox[1] = m
      /\ \A i \in DOMAIN inbox' : i \in Nat /\ i + 1 \in DOMAIN inbox /\ inbox'[i] = inbox[i + 1]
      /\ \A i \in DOMAIN inbox : i \in Nat \ {0}
      /\ \A i \in DOMAIN inbox' : i # 0
    BY <1>1 DEF Shorter
<1>3. asked[m.r] # -1
    BY <1>2 DEF InOrder
<1>4. InOrder'
    <2>1. ASSUME NEW i \in DOMAIN inbox' PROVE asked'[inbox'[i].r] # -1
        BY <1>2 DEF InOrder
    <2>2. ASSUME NEW i \in DOMAIN inbox', inbox'[i].k = "Request",
                 NEW j \in DOMAIN inbox', inbox'[j].r = inbox'[i].r
          PROVE  i <= j
        <3>1. i + 1 <= j + 1
            BY <2>2, <1>2 DEF InOrder
        <3> QED BY <3>1, <1>2
    <2> QED BY <2>1, <2>2 DEF InOrder
<1>5. \A r \in Requests : Fresh(r)' => Fresh(r)
    BY <1>2 DEF Fresh, Asking
<1>6. m.k = "Request" => Fresh(m.r)
    BY <1>2 DEF Fresh, Asking
<1>7. m.k # "Request" => ~Asking(m.r)
    <2> SUFFICES ASSUME m.k # "Request", NEW i \in DOMAIN inbox,
                        inbox[i].k = "Request", inbox[i].r = m.r
                 PROVE FALSE
        BY DEF Asking
    <2>1. i <= 1
        BY <1>2 DEF InOrder
    <2> QED BY <2>1, <1>2
<1>8. ~Asking(m.r)'
    <2> SUFFICES ASSUME NEW i \in DOMAIN inbox', (inbox'[i]).k = "Request", (inbox'[i]).r = m.r
                 PROVE FALSE
        BY Zenon DEF Asking
    <2>1. i + 1 <= 1
        BY <1>2 DEF InOrder
    <2> QED BY <2>1, <1>2
<1> QED BY <1>1, <1>3, <1>4, <1>5, <1>6, <1>7, <1>8, Zenon DEF Fresh, Asking

-----------------------------------------------------------------------------
(* The steps of the task. *)

\* Nothing but RST_STREAM and HEADERS is sent.
Quiet(frames) == \A i \in DOMAIN frames : i > Len(toB) => frames[i].k = "RST"
StepOf(open, kept) == \E q, n, frames : TaskStep(q, n, open, kept, frames) /\ Quiet(frames)

\* The queue is served.
LEMMA Refilled ==
    ASSUME UInv, NEW open \in SUBSET live, NEW kept \in SUBSET routes,
           NEW frames, Behind(frames), Quiet(frames),
           NEW queue \in Seq(Requests), Distinct(queue), Len(queue) <= MaxPending,
           FillSlots(open, kept, queue, frames),
           UNCHANGED backendVars, OldNews(fromB'), Fresher, Spared,
           \A r \in ToSet(queue) : Waits(r)
    PROVE  /\ StepOf(open, kept)
           /\ pending' \in Seq(Requests) /\ Len(pending') <= MaxPending /\ buf' = buf
<1>1. Table /\ frames \in Seq(DownFrame) /\ open \in SUBSET Requests
    <2>1. Table
        BY TypedTable, Zenon DEF UInv, Base
    <2> QED BY <2>1 DEF Table, Behind
<1>2. PICK n \in 0..Len(queue) :
          /\ Opens(queue, n, open, kept, frames)
          /\ pending' = SubSeq(queue, n + 1, Len(queue))
    BY <1>1, Filled, Zenon
<1>3. /\ pending' \in Seq(Requests) /\ Len(pending') <= MaxPending /\ Distinct(pending')
      /\ \A i \in DOMAIN pending' : pending'[i] \in ToSet(queue) /\ pending'[i] \notin Firsts(queue, n)
      /\ ToSet(queue) = Firsts(queue, n) \cup ToSet(pending')
    <2> DEFINE rest == SubSeq(queue, n + 1, Len(queue))
    <2>1. /\ rest \in Seq(Requests) /\ Len(rest) <= MaxPending /\ Distinct(rest)
          /\ \A i \in DOMAIN rest : rest[i] \in ToSet(queue) /\ rest[i] \notin Firsts(queue, n)
          /\ ToSet(queue) = Firsts(queue, n) \cup ToSet(rest)
        <3>1. /\ queue \in Seq(Requests) /\ Len(queue) <= MaxPending /\ Distinct(queue)
              /\ n \in 0..Len(queue)
            BY Zenon
        <3> QED BY <3>1, Split, ZenonT(40)
    <2> QED BY <1>2, <2>1, Zenon
<1>4. TaskStep(queue, n, open, kept, frames)
    <2>1. \A r \in ToSet(pending') : r \notin Firsts(queue, n)
        BY <1>3, Zenon DEF ToSet
    <2>2. \A r \in Firsts(queue, n) \cup ToSet(pending') : Waits(r)
        BY <1>3, Zenon
    <2> QED BY <1>2, <1>3, <2>1, <2>2, Zenon DEF TaskStep
<1>5. buf' = buf
    BY DEF FillSlots
<1> QED BY <1>3, <1>4, <1>5, Zenon DEF StepOf

\* No stream is opened.
LEMMA Unfilled ==
    ASSUME UInv, live' \in SUBSET live, routes' \in SUBSET routes, UNCHANGED <<nextId, id>>,
           Behind(toB'), UNCHANGED backendVars, OldNews(fromB'), Fresher, Spared,
           Distinct(pending'), \A r \in ToSet(pending') : Waits(r)
    PROVE  TaskStep(<<>>, 0, live', routes', toB')
<1>1. Table
    BY TypedTable, Zenon DEF UInv, Base
<1> DEFINE open == live'
           kept == routes'
<1>2. Opens(<<>>, 0, open, kept, toB')
    BY <1>1, Unopened, Zenon DEF Behind
<1>3. Distinct(<<>>) /\ Firsts(<<>>, 0) = {}
    BY DEF Distinct, Firsts
<1> QED BY <1>2, <1>3, Zenon DEF TaskStep

\* Nothing more is sent, or one frame.
LEMMA BehindSame == ASSUME UInv PROVE Behind(toB) /\ Quiet(toB)
<1>1. Table
    BY TypedTable, Zenon DEF UInv, Base
<1> QED BY <1>1 DEF Table, Behind, Quiet

LEMMA BehindOne ==
    ASSUME UInv, NEW f \in DownFrame, f.k # "HEADERS", f.r \in Known
    PROVE  Behind(Append(toB, f)) /\ (f.k = "RST" => Quiet(Append(toB, f)))
<1> DEFINE b == Append(toB, f)
<1>1. b \in Seq(DownFrame) /\ Len(b) = Len(toB) + 1 /\ Longer(toB, b, f)
    BY Added DEF UInv, Base, Types
<1> HIDE DEF b
<1>2. Behind(b)
    BY <1>1 DEF Longer, Behind
<1>3. f.k = "RST" => Quiet(b)
    BY <1>1 DEF Longer, Quiet
<1> QED BY <1>2, <1>3 DEF b

LEMMA ResetType ==
    ASSUME NEW r \in Requests
    PROVE  /\ Frame("RST", r, FALSE) \in DownFrame
           /\ Frame("RST", r, FALSE).k = "RST" /\ Frame("RST", r, FALSE).r = r
BY DEF Frame, DownFrame

LEMMA SameNews == OldNews(fromB)
BY DEF OldNews

Event == {"Head", "HeadEnd", "Data", "End", "reset", "refused", "gone", "shed"}

LEMMA AfterType ==
    ASSUME NEW was \in Stage, NEW event \in Event
    PROVE  /\ After(was, event) \in Stage
           /\ After(was, event) # "none"
           /\ After(was, event) = "refused" => event = "refused" /\ was = "none"
BY DEF After, Event, Stage, Final

LEMMA Emitted ==
    ASSUME stage \in [Requests -> Stage], NEW r \in Requests, NEW event \in Event, Emit(r, event)
    PROVE  /\ stage' \in [Requests -> Stage]
           /\ \A s \in Requests : s # r => stage'[s] = stage[s]
           /\ stage'[r] = "refused" => event = "refused" /\ stage[r] = "none"
<1>1. /\ After(stage[r], event) \in Stage
      /\ After(stage[r], event) = "refused" => event = "refused" /\ stage[r] = "none"
    BY AfterType
<1>2. stage' = [stage EXCEPT ![r] = After(stage[r], event)]
    BY DEF Emit
<1> QED BY <1>1, <1>2

\* The rest of the task's state.
TaskTypes ==
    /\ stage \in [Requests -> Stage]
    /\ pending \in Seq(Requests) /\ Len(pending) <= MaxPending
    /\ buf \in [Requests -> [n : Nat, end : BOOLEAN]] /\ cancelled \subseteq Requests

LEMMA TaskTyped == ASSUME UInv PROVE TaskTypes
BY Zenon DEF UInv, Base, Types, TypeOK, TaskTypes

\* Where a request is, it is not elsewhere.
LEMMA Waiting ==
    ASSUME UInv
    PROVE  /\ Distinct(pending) /\ ToSet(pending) \subseteq Requests
           /\ \A r \in ToSet(pending) : r \notin Known /\ ~Fresh(r) /\ stage[r] = "none"
           /\ \A r \in Requests : Fresh(r) => r \notin Known /\ stage[r] = "none"
           /\ \A r \in Requests : r \notin Known => bState[r] = "idle" /\ id[r] = 0
           /\ \A r \in live \cup routes : r \in Known /\ ~Fresh(r) /\ r \notin ToSet(pending)
<1>1. ToSet(pending) \subseteq Requests
    <2>1. pending \in Seq(Requests)
        BY TaskTyped, Zenon DEF TaskTypes
    <2> QED BY <2>1 DEF ToSet
<1>2. \A r \in Requests : r \notin Known => bState[r] = "idle" /\ id[r] = 0
    BY Zenon DEF UInv, Base, Backend, Known
<1>3. Known \subseteq Requests
    BY DEF Known
<1> QED BY <1>1, <1>2, <1>3, Zenon DEF UInv, Base, Places

\* TakeRequest: a Request finds a slot, a place in the queue, or neither.
LEMMA TookRequest ==
    ASSUME UInv, inbox # <<>>, inbox' = Tail(inbox), NEW m, m = Head(inbox), m.k = "Request",
           TakeRequest(m.r), UNCHANGED <<clientVars, fromB, backendVars>>
    PROVE  StepOf(live, routes) /\ TaskTypes' /\ buf' = buf
<1> DEFINE r == m.r
<1>1. /\ r \in Requests /\ Fresh(r) /\ ~Fresh(r)'
      /\ \A s \in Requests : Fresh(s)' => Fresh(s)
    <2>1. Types /\ InOrder /\ asked' = asked
        BY Zenon DEF UInv, Base, clientVars
    <2>2. m \in Message /\ Fresh(m.r) /\ ~Fresh(m.r)' /\ \A s \in Requests : Fresh(s)' => Fresh(s)
        BY <2>1, MessageTaken, Zenon
    <2> QED BY <2>2 DEF Message
<1> HIDE DEF r
<1>2. r \notin Known /\ stage[r] = "none" /\ r \notin ToSet(pending) /\ bState[r] = "idle" /\ id[r] = 0
    BY <1>1, Waiting, Zenon
<1>3. TaskTypes
    BY TaskTyped
<1>4. Behind(toB) /\ Quiet(toB) /\ OldNews(fromB') /\ Table
    <2>1. OldNews(fromB')
        BY SameNews
    <2> QED BY <2>1, BehindSame, TypedTable, Zenon DEF UInv, Base
<1>5. cancelled' = cancelled \ {r} /\ cancelled' \subseteq Requests
    BY <1>3 DEF TakeRequest, TaskTypes, r
\* The requests that waited wait still.
<1>6. ASSUME \A s \in Requests : s # r => stage'[s] = stage[s]
      PROVE  \A s \in ToSet(pending) : Waits(s)
    BY <1>1, <1>2, <1>6, Waiting, Zenon DEF Waits
<1>7. ASSUME \A s \in Requests : s # r => stage'[s] = stage[s],
             stage'[r] # "refused" \/ stage[r] = "none"
      PROVE  Fresher /\ Spared
    <2>1. Fresher
        BY <1>1, <1>7, Waiting, Zenon DEF Fresher
    <2>2. Spared
        BY <1>2, <1>7, Zenon DEF Spared, Unrun
    <2> QED BY <2>1, <2>2
<1>8. CASE NoForget /\ \/ UNCHANGED stage
                       \/ Emit(r, "refused")
                       \/ Emit(r, "shed")
    <2>1. /\ stage' \in [Requests -> Stage]
          /\ \A s \in Requests : s # r => stage'[s] = stage[s]
        <3>1. CASE UNCHANGED stage
            BY <3>1, <1>3 DEF TaskTypes
        <3>2. CASE Emit(r, "refused") \/ Emit(r, "shed")
            <4>1. "refused" \in Event /\ "shed" \in Event
                BY DEF Event
            <4> QED BY <3>2, <4>1, <1>1, <1>3, Emitted, Zenon DEF TaskTypes
        <3> QED BY <3>1, <3>2, <1>8
    <2>2. /\ live' = live /\ routes' = routes /\ UNCHANGED <<nextId, id>> /\ toB' = toB
          /\ pending' = pending /\ buf' = buf
        BY <1>8 DEF NoForget
    <2>3. Fresher /\ Spared /\ \A s \in ToSet(pending) : Waits(s)
        BY <2>1, <1>2, <1>6, <1>7, Zenon
    <2>4. TaskStep(<<>>, 0, live', routes', toB')
        <3>1. live' \in SUBSET live /\ routes' \in SUBSET routes
            BY <2>2
        <3> QED BY <2>2, <2>3, <3>1, <1>4, Unfilled, Waiting, Zenon
    <2>5. StepOf(live, routes)
        BY <2>2, <2>4, <1>4, Zenon DEF StepOf
    <2> QED BY <2>1, <2>2, <2>5, <1>3, <1>5, Zenon DEF TaskTypes
<1>9. CASE /\ OpenLocal(r) /\ routes' = routes \cup {r}
           /\ toB' = Append(toB, Headers(r)) /\ UNCHANGED <<stage, pending, buf>>
    <2> DEFINE q == <<r>>
    <2>1. q \in Seq(Requests) /\ Len(q) = 1 /\ q[1] = r /\ Firsts(q, 1) = {r} /\ Distinct(q)
        BY <1>1 DEF Firsts, Distinct
    <2> HIDE DEF q
    <2>2. /\ Headers(r) \in DownFrame
          /\ toB' \in Seq(DownFrame) /\ Len(toB') = Len(toB) + 1 /\ Longer(toB, toB', Headers(r))
        <3>1. Headers(r) \in DownFrame
            BY <1>1, HeadersType, Zenon
        <3>2. toB \in Seq(DownFrame)
            BY <1>4, Zenon DEF Table
        <3> QED BY <3>1, <3>2, <1>9, Added, Zenon
    <2>3. /\ id' \in [Requests -> Nat] /\ id'[r] = nextId /\ nextId' = nextId + 1
          /\ \A s \in Requests \ {r} : id'[s] = id[s]
          /\ live' = live \cup {r} /\ routes' = routes \cup {r}
        BY <1>1, <1>4, <1>9 DEF OpenLocal, Table
    <2>4. Opens(q, 1, live, routes, toB)
        <3>1. \A i \in 1..1 : i = 1
            OBVIOUS
        <3>2. nextId + 1 - 1 = nextId /\ 1 \in 0..Len(q)
            BY <1>4, <2>1 DEF Table
        <3> QED BY <2>1, <2>2, <2>3, <3>1, <3>2 DEF Opens, Longer
    <2>5. Fresher /\ Spared /\ \A s \in ToSet(pending) : Waits(s)
        BY <1>2, <1>6, <1>7, <1>9, Zenon
    <2>6. Waits(r) /\ pending' = pending
        BY <1>1, <1>2, <1>9, Zenon DEF Waits
    <2>7. TaskStep(q, 1, live, routes, toB)
        <3>1. live \in SUBSET live /\ routes \in SUBSET routes
            OBVIOUS
        <3>2. \A s \in Firsts(q, 1) \cup ToSet(pending') : Waits(s)
            BY <2>1, <2>5, <2>6
        <3>3. \A s \in ToSet(pending') : s \notin Firsts(q, 1)
            BY <2>1, <2>6, <1>2
        <3> QED BY <2>1, <2>4, <2>5, <2>6, <3>1, <3>2, <3>3, <1>4, Waiting, Zenon DEF TaskStep
    <2>8. StepOf(live, routes)
        BY <2>7, <1>4, Zenon DEF StepOf
    <2> QED BY <2>8, <1>3, <1>5, <1>9, Zenon DEF TaskTypes
<1>10. CASE /\ Len(pending) < MaxPending /\ pending' = Append(pending, r)
            /\ UNCHANGED <<stage, live, routes, id, nextId, toB, buf>>
    <2>1. /\ pending' \in Seq(Requests) /\ Len(pending') = Len(pending) + 1
          /\ Longer(pending, pending', r)
        BY <1>1, <1>3, <1>10, Added DEF TaskTypes
    <2>2. Len(pending') <= MaxPending
        <3>1. MaxPending \in Nat
            BY UpstreamAssumption, Zenon
        <3>2. Len(pending) \in Nat
            BY <1>3 DEF TaskTypes
        <3> QED BY <3>1, <3>2, <2>1, <1>10
    <2>3. ToSet(pending') = ToSet(pending) \cup {r}
        BY <2>1 DEF Longer, ToSet
    <2>4. Distinct(pending')
        <3>1. Distinct(pending) /\ r \notin ToSet(pending)
            BY <1>2, Waiting, Zenon
        <3> QED BY <3>1, <2>1 DEF Distinct, Longer, ToSet
    <2>5. Fresher /\ Spared /\ \A s \in ToSet(pending') : Waits(s)
        <3>1. Waits(r)
            BY <1>1, <1>2, <1>10, Zenon DEF Waits
        <3>2. Fresher /\ Spared /\ \A s \in ToSet(pending) : Waits(s)
            BY <1>2, <1>6, <1>7, <1>10, Zenon
        <3> QED BY <3>1, <3>2, <2>3
    <2>6. TaskStep(<<>>, 0, live', routes', toB')
        <3>1. live' \in SUBSET live /\ routes' \in SUBSET routes /\ UNCHANGED <<nextId, id, toB>>
            BY <1>10
        <3> QED BY <3>1, <2>4, <2>5, <1>4, Unfilled, Zenon
    <2>7. StepOf(live, routes)
        BY <2>6, <1>4, <1>10, Zenon DEF StepOf
    <2> QED BY <2>1, <2>2, <2>7, <1>3, <1>5, <1>10, Zenon DEF TaskTypes
<1> QED BY <1>8, <1>9, <1>10, <1>1, Zenon DEF TakeRequest, Admit, r

\* A step that tells no request of anything, or only one the backend knows.
LEMMA Unheard ==
    ASSUME UInv, stage' = stage, \A s \in Requests : Fresh(s)' => Fresh(s)
    PROVE  Fresher /\ Spared /\ \A s \in ToSet(pending) : Waits(s)
<1>1. \A s \in ToSet(pending) : s \in Requests /\ s \notin Known /\ ~Fresh(s) /\ stage[s] = "none"
    BY Waiting, Zenon
<1> QED BY <1>1, Waiting, Zenon DEF Fresher, Spared, Waits

LEMMA Heard ==
    ASSUME UInv, NEW r \in Known, \A s \in Requests : s # r => stage'[s] = stage[s],
           stage'[r] = "refused" => stage[r] = "refused" \/ Unrun(r),
           \A s \in Requests : Fresh(s)' => Fresh(s)
    PROVE  Fresher /\ Spared /\ \A s \in ToSet(pending) : Waits(s)
<1>1. \A s \in ToSet(pending) : s \in Requests /\ s \notin Known /\ ~Fresh(s) /\ stage[s] = "none"
    BY Waiting, Zenon
<1> QED BY <1>1, Waiting, Zenon DEF Fresher, Spared, Waits

\* TakeBody: the octets are buffered, for a stream or a request that waits.
LEMMA TookBody ==
    ASSUME UInv, inbox # <<>>, inbox' = Tail(inbox), NEW m, m = Head(inbox),
           TakeBody(m.r, m.end), UNCHANGED <<clientVars, fromB, backendVars>>
    PROVE  StepOf(live, routes) /\ TaskTypes'
<1>1. m \in Message /\ \A s \in Requests : Fresh(s)' => Fresh(s)
    <2>1. Types /\ InOrder /\ asked' = asked
        BY Zenon DEF UInv, Base, clientVars
    <2> QED BY <2>1, MessageTaken, Zenon
<1>2. /\ UNCHANGED <<stage, cancelled, live, routes, id, nextId, pending, toB>>
      /\ buf' = IF m.r \in live \cup ToSet(pending)
                THEN [buf EXCEPT ![m.r] = [n |-> buf[m.r].n + 1, end |-> m.end]] ELSE buf
    BY DEF TakeBody, Buffer
<1>3. TaskTypes'
    <2>1. TaskTypes
        BY TaskTyped
    <2>2. m.r \in Requests /\ m.end \in BOOLEAN
        BY <1>1 DEF Message
    <2>3. buf' \in [Requests -> [n : Nat, end : BOOLEAN]]
        BY <1>2, <2>1, <2>2 DEF TaskTypes
    <2> QED BY <1>2, <2>1, <2>3, Zenon DEF TaskTypes
<1>4. Fresher /\ Spared /\ \A s \in ToSet(pending) : Waits(s)
    BY <1>1, <1>2, Unheard, Zenon
<1>5. Behind(toB) /\ Quiet(toB) /\ OldNews(fromB')
    <2>1. OldNews(fromB')
        BY SameNews
    <2> QED BY <2>1, BehindSame, Zenon
<1>6. TaskStep(<<>>, 0, live', routes', toB')
    <2>1. live' \in SUBSET live /\ routes' \in SUBSET routes
        BY <1>2
    <2> QED BY <2>1, <1>2, <1>4, <1>5, Unfilled, Waiting, Zenon
<1> QED BY <1>2, <1>3, <1>5, <1>6, Zenon DEF StepOf

\* TakeCancel: the stream goes and the next in the queue gets its slot, or the
\* request leaves the queue.
LEMMA TookCancel ==
    ASSUME UInv, inbox # <<>>, inbox' = Tail(inbox), NEW m, m = Head(inbox),
           TakeCancel(m.r), UNCHANGED <<clientVars, fromB, backendVars>>
    PROVE  /\ StepOf(IF m.r \in routes THEN live \ {m.r} ELSE live, routes \ {m.r})
           /\ TaskTypes' /\ buf' = buf
<1> DEFINE r == m.r
<1>1. r \in Requests /\ \A s \in Requests : Fresh(s)' => Fresh(s)
    <2>1. Types /\ InOrder /\ asked' = asked
        BY Zenon DEF UInv, Base, clientVars
    <2>2. m \in Message /\ \A s \in Requests : Fresh(s)' => Fresh(s)
        BY <2>1, MessageTaken, Zenon
    <2> QED BY <2>2 DEF Message
<1> HIDE DEF r
<1>2. TaskTypes /\ stage' = stage /\ OldNews(fromB')
    <2>1. OldNews(fromB')
        BY SameNews
    <2> QED BY <2>1, TaskTyped, Zenon DEF TakeCancel
<1>3. Fresher /\ Spared /\ \A s \in ToSet(pending) : Waits(s)
    BY <1>1, <1>2, Unheard, Zenon
<1>4. CASE r \in routes
    <2> DEFINE frames == IF r \in live THEN Append(toB, Frame("RST", r, FALSE)) ELSE toB
    <2>1. /\ FillSlots(live \ {r}, routes \ {r}, pending, frames)
          /\ cancelled' = cancelled
        BY <1>4, Zenon DEF TakeCancel, Forget, r
    <2>2. Behind(frames) /\ Quiet(frames)
        <3>1. CASE r \in live
            <4>1. r \in Known
                BY <1>4, Waiting, Zenon
            <4>2. Frame("RST", r, FALSE) \in DownFrame /\ Frame("RST", r, FALSE).k = "RST"
                  /\ Frame("RST", r, FALSE).r = r /\ Frame("RST", r, FALSE).k # "HEADERS"
                BY <1>1, ResetType
            <4>3. Behind(Append(toB, Frame("RST", r, FALSE))) /\ Quiet(Append(toB, Frame("RST", r, FALSE)))
                BY <4>1, <4>2, BehindOne, Zenon
            <4> QED BY <3>1, <4>3, Zenon
        <3>2. CASE r \notin live
            BY <3>2, BehindSame, Zenon
        <3> QED BY <3>1, <3>2
    <2> HIDE DEF frames
    <2>3. /\ StepOf(live \ {r}, routes \ {r})
          /\ pending' \in Seq(Requests) /\ Len(pending') <= MaxPending /\ buf' = buf
        <3>1. live \ {r} \in SUBSET live /\ routes \ {r} \in SUBSET routes
            OBVIOUS
        <3>2. /\ pending \in Seq(Requests) /\ Distinct(pending) /\ Len(pending) <= MaxPending
              /\ UNCHANGED backendVars
            BY <1>2, Waiting, Zenon DEF TaskTypes
        <3> QED BY <2>1, <2>2, <3>1, <3>2, <1>2, <1>3, Refilled, Zenon
    <2> QED BY <1>4, <2>1, <2>3, <1>2, Zenon DEF TaskTypes, r
<1>5. CASE r \notin routes
    <2>1. /\ pending' = Without(pending, r) /\ cancelled' = cancelled \cup {r}
          /\ UNCHANGED <<live, routes, id, nextId, toB, buf>>
        BY <1>5, Zenon DEF TakeCancel, r
    <2>2. /\ pending' \in Seq(Requests) /\ Len(pending') <= Len(pending) /\ Distinct(pending')
          /\ \A i \in DOMAIN pending' : pending'[i] \in ToSet(pending) /\ pending'[i] # r
        <3>1. pending \in Seq(Requests) /\ Distinct(pending)
            BY <1>2, Waiting, Zenon DEF TaskTypes
        <3> DEFINE w == Without(pending, r)
        <3>2. /\ w \in Seq(Requests) /\ Len(w) <= Len(pending) /\ Distinct(w)
              /\ \A i \in DOMAIN w : w[i] \in ToSet(pending) /\ w[i] # r
            BY <3>1, <1>1, WithoutOne
        <3> QED BY <2>1, <3>2, Zenon
    <2>3. Len(pending') <= MaxPending /\ cancelled' \subseteq Requests
        <3>1. MaxPending \in Nat
            BY UpstreamAssumption, Zenon
        <3>2. Len(pending) \in Nat /\ Len(pending') \in Nat /\ Len(pending) <= MaxPending
            BY <1>2, <2>2 DEF TaskTypes
        <3>3. cancelled' \subseteq Requests
            BY <1>1, <1>2, <2>1 DEF TaskTypes
        <3> QED BY <3>1, <3>2, <3>3, <2>2
    <2>4. \A s \in ToSet(pending') : Waits(s)
        BY <1>3, <2>2, Zenon DEF ToSet
    <2>5. TaskStep(<<>>, 0, live', routes', toB')
        <3>1. live' \in SUBSET live /\ routes' \in SUBSET routes /\ UNCHANGED <<id, nextId, toB>>
            BY <2>1
        <3>2. Behind(toB') /\ UNCHANGED backendVars
            BY <3>1, BehindSame, Zenon
        <3> QED BY <3>1, <3>2, <1>2, <1>3, <2>2, <2>4, Unfilled, Zenon
    <2>6. StepOf(live, routes \ {r})
        <3>1. routes \ {r} = routes /\ toB' = toB
            BY <1>5, <2>1
        <3> QED BY <2>1, <2>5, <3>1, BehindSame, Zenon DEF StepOf
    <2> QED BY <1>5, <2>1, <2>2, <2>3, <2>6, <1>2, Zenon DEF TaskTypes, r
<1> QED BY <1>4, <1>5

\* The fields of a frame of the backend.
LEMMA UpFields ==
    ASSUME NEW f \in UpFrame
    PROVE  /\ f.k \in {"HEADERS", "DATA", "ZEROUPDATE", "BADTRAILERS", "RST", "GOAWAY", "SETTINGS"}
           /\ About(f) => f.r \in Requests
           /\ f.k \in {"HEADERS", "DATA", "ZEROUPDATE", "BADTRAILERS"} => f.end \in BOOLEAN
           /\ f.k = "BADTRAILERS" => f.end
           /\ f.k = "RST" => f.refused \in BOOLEAN
           /\ f.k = "GOAWAY" => f.last \in 0..Never
           /\ f.k = "SETTINGS" => f.max \in Nat
<1>1. f.k = "SETTINGS" => f.max \in Nat
    <2>1. Limits \subseteq Nat
        BY UpstreamAssumption, Zenon
    <2> QED BY <2>1 DEF UpFrame
<1> QED BY <1>1 DEF UpFrame, About

\* A frame of the backend is taken.
LEMMA FrameTaken ==
    ASSUME UInv, fromB # <<>>, fromB' = Tail(fromB), NEW f, f = Head(fromB)
    PROVE  fromB' \in Seq(UpFrame) /\ OldNews(fromB') /\ f \in UpFrame /\ Said(f)
<1>1. fromB' \in Seq(UpFrame) /\ f \in UpFrame /\ Shorter(fromB, fromB')
    <2>1. fromB \in Seq(UpFrame)
        BY Zenon DEF UInv, Base, Types
    <2> QED BY <2>1, Taken, Zenon
<1>2. /\ 1 \in DOMAIN fromB /\ fromB[1] = f
      /\ \A i \in DOMAIN fromB' : i + 1 \in DOMAIN fromB /\ fromB'[i] = fromB[i + 1]
    BY <1>1 DEF Shorter
<1>3. Said(f)
    BY <1>2, Zenon DEF UInv, Base, Backend
<1> QED BY <1>1, <1>2, <1>3, Zenon DEF OldNews

LEMMA StillFresh ==
    ASSUME UNCHANGED <<asked, inbox>>
    PROVE  \A r \in Requests : Fresh(r)' <=> Fresh(r)
BY DEF Fresh, Asking

\* What it does to the request it is about: the stream stays, or goes and its slot
\* goes to whoever waits.
LEMMA Handled ==
    ASSUME UInv, OldNews(fromB'), UNCHANGED <<clientVars, inbox, cancelled, backendVars>>,
           NEW r \in Known, stage' \in [Requests -> Stage],
           \A s \in Requests : s # r => stage'[s] = stage[s],
           stage'[r] = "refused" => stage[r] = "refused" \/ Unrun(r)
    PROVE  /\ NoForget => StepOf(live, routes) /\ TaskTypes' /\ buf' = buf
           /\ Forget(r, toB) => StepOf(live \ {r}, routes \ {r}) /\ TaskTypes' /\ buf' = buf
<1>1. TaskTypes /\ Behind(toB) /\ Quiet(toB) /\ UNCHANGED backendVars /\ cancelled' = cancelled
    BY TaskTyped, BehindSame, Zenon
<1>2. Fresher /\ Spared /\ \A s \in ToSet(pending) : Waits(s)
    <2>1. \A s \in Requests : Fresh(s)' => Fresh(s)
        BY StillFresh, Zenon DEF clientVars
    <2> QED BY <2>1, Heard, Zenon
<1>3. ASSUME NoForget PROVE StepOf(live, routes) /\ TaskTypes' /\ buf' = buf
    <2>1. UNCHANGED <<live, routes, pending, nextId, id, toB, buf>>
        BY <1>3 DEF NoForget
    <2>2. TaskStep(<<>>, 0, live', routes', toB')
        <3>1. live' \in SUBSET live /\ routes' \in SUBSET routes
            BY <2>1
        <3> QED BY <3>1, <2>1, <1>1, <1>2, Unfilled, Waiting, Zenon
    <2> QED BY <2>1, <2>2, <1>1, Zenon DEF StepOf, TaskTypes
<1>4. ASSUME Forget(r, toB) PROVE StepOf(live \ {r}, routes \ {r}) /\ TaskTypes' /\ buf' = buf
    <2>1. FillSlots(live \ {r}, routes \ {r}, pending, toB)
        BY <1>4, Zenon DEF Forget
    <2>2. /\ StepOf(live \ {r}, routes \ {r})
          /\ pending' \in Seq(Requests) /\ Len(pending') <= MaxPending /\ buf' = buf
        <3>1. live \ {r} \in SUBSET live /\ routes \ {r} \in SUBSET routes
            OBVIOUS
        <3>2. pending \in Seq(Requests) /\ Distinct(pending) /\ Len(pending) <= MaxPending
            BY <1>1, Waiting, Zenon DEF TaskTypes
        <3> QED BY <2>1, <3>1, <3>2, <1>1, <1>2, Refilled, Zenon
    <2> QED BY <2>2, <1>1, Zenon DEF TaskTypes
<1> QED BY <1>3, <1>4

\* The client is told, or not, of the request r.
LEMMA Announced ==
    ASSUME UInv, NEW r \in Known, NEW event \in Event,
           UNCHANGED stage \/ Emit(r, event), event = "refused" => bState[r] = "refused"
    PROVE  /\ stage' \in [Requests -> Stage]
           /\ \A s \in Requests : s # r => stage'[s] = stage[s]
           /\ stage'[r] = "refused" => stage[r] = "refused" \/ Unrun(r)
<1>1. stage \in [Requests -> Stage] /\ r \in Requests
    BY TaskTyped DEF TaskTypes, Known
<1>2. CASE UNCHANGED stage
    BY <1>1, <1>2, Zenon
<1>3. CASE Emit(r, event)
    BY <1>1, <1>3, Emitted, Zenon DEF Unrun
<1> QED BY <1>2, <1>3

\* RecvHeaders: the fields go on to the client, and a stream reset here is then
\* found to be closed.
LEMMA TookHeaders ==
    ASSUME UInv, fromB # <<>>, fromB' = Tail(fromB), NEW f, f = Head(fromB), f.k = "HEADERS",
           RecvHeaders(f.r, f.end), UNCHANGED <<clientVars, inbox, cancelled, backendVars>>
    PROVE  /\ StepOf(live, routes) \/ StepOf(live \ {f.r}, routes \ {f.r})
           /\ TaskTypes' /\ buf' = buf
<1> DEFINE r == f.r
           event == CASE stage[r] # "none" -> "End"
                      [] stage[r] = "none" -> IF f.end THEN "HeadEnd" ELSE "Head"
<1>1. r \in Known /\ r \in Requests /\ OldNews(fromB')
    <2>1. f \in UpFrame /\ Said(f) /\ OldNews(fromB')
        BY FrameTaken
    <2> QED BY <2>1 DEF Said, About, Known
<1>2. event \in Event \ {"refused"} /\ "reset" \in Event
    BY DEF Event
<1>3. /\ r \notin routes => NoForget /\ stage' = stage
      /\ r \in routes =>
            /\ stage' = [stage EXCEPT ![r] =
                   IF r \in live THEN After(stage[r], event) ELSE After(After(stage[r], event), "reset")]
            /\ Forget(r, toB) \/ NoForget
    BY DEF RecvHeaders
<1> HIDE DEF r, event
<1>4. /\ stage' \in [Requests -> Stage]
      /\ \A s \in Requests : s # r => stage'[s] = stage[s]
      /\ stage'[r] = "refused" => stage[r] = "refused"
    <2>1. stage \in [Requests -> Stage]
        BY TaskTyped, Zenon DEF TaskTypes
    <2>2. stage[r] \in Stage
        BY <2>1, <1>1
    <2>3. After(stage[r], event) \in Stage /\ After(stage[r], event) # "refused"
        BY <2>2, <1>2, AfterType
    <2>4. /\ After(After(stage[r], event), "reset") \in Stage
          /\ After(After(stage[r], event), "reset") # "refused"
        <3>1. After(After(stage[r], event), "reset") = "refused" => "reset" = "refused"
            BY <2>3, <1>2, AfterType
        <3> QED BY <2>3, <3>1, <1>2, AfterType
    <2> QED BY <2>1, <2>3, <2>4, <1>1, <1>3
<1> QED BY <1>1, <1>3, <1>4, Handled, Zenon DEF r

\* RecvData, RecvBadTrailers and RecvRst.
LEMMA TookAnswer ==
    ASSUME UInv, fromB # <<>>, fromB' = Tail(fromB), NEW f, f = Head(fromB),
           \/ f.k = "DATA" /\ RecvData(f.r, f.end)
           \/ f.k = "BADTRAILERS" /\ RecvBadTrailers(f.r)
           \/ f.k = "RST" /\ RecvRst(f.r, f.refused),
           UNCHANGED <<clientVars, inbox, cancelled, backendVars>>
    PROVE  /\ StepOf(live, routes) \/ StepOf(live \ {f.r}, routes \ {f.r})
           /\ TaskTypes' /\ buf' = buf
<1>1. f \in UpFrame /\ Said(f) /\ OldNews(fromB')
    BY FrameTaken
<1>2. f.r \in Known
    BY <1>1 DEF Said, About
<1>3. "reset" \in Event /\ "refused" \in Event /\ "End" \in Event /\ "Data" \in Event
    BY DEF Event
<1>4. /\ \E event \in Event : /\ UNCHANGED stage \/ Emit(f.r, event)
                              /\ event = "refused" => bState[f.r] = "refused"
      /\ NoForget \/ Forget(f.r, toB)
    <2>1. CASE f.k = "DATA" /\ RecvData(f.r, f.end)
        <3>1. /\ UNCHANGED stage \/ Emit(f.r, "End") \/ Emit(f.r, "Data")
              /\ NoForget \/ Forget(f.r, toB)
            BY <2>1 DEF RecvData
        <3>2. "End" # "refused" /\ "Data" # "refused"
            OBVIOUS
        <3> QED BY <3>1, <3>2, <1>3, Zenon
    <2>2. CASE f.k = "BADTRAILERS" /\ RecvBadTrailers(f.r)
        <3>1. /\ UNCHANGED stage \/ Emit(f.r, "reset")
              /\ NoForget \/ Forget(f.r, toB)
            BY <2>2, Zenon DEF RecvBadTrailers
        <3>2. "reset" # "refused"
            OBVIOUS
        <3> QED BY <3>1, <3>2, <1>3, Zenon
    <2>3. CASE f.k = "RST" /\ RecvRst(f.r, f.refused)
        <3>1. /\ \/ UNCHANGED stage
                 \/ Emit(f.r, "reset")
                 \/ Emit(f.r, "refused") /\ f.refused
              /\ Forget(f.r, toB)
            BY <2>3 DEF RecvRst
        <3>2. f.refused => bState[f.r] = "refused"
            BY <2>3, <1>1 DEF Said
        <3>3. "reset" # "refused"
            OBVIOUS
        <3> QED BY <3>1, <3>2, <3>3, <1>3, Zenon
    <2> QED BY <2>1, <2>2, <2>3
<1>5. /\ stage' \in [Requests -> Stage]
      /\ \A s \in Requests : s # f.r => stage'[s] = stage[s]
      /\ stage'[f.r] = "refused" => stage[f.r] = "refused" \/ Unrun(f.r)
    BY <1>2, <1>4, Announced, Zenon
<1> QED BY <1>1, <1>2, <1>4, <1>5, Handled, Zenon

\* RecvZeroUpdate: the stream goes and the backend is told; no slot is filled.
LEMMA TookZeroUpdate ==
    ASSUME UInv, fromB # <<>>, fromB' = Tail(fromB), NEW f, f = Head(fromB), f.k = "ZEROUPDATE",
           RecvZeroUpdate(f.r), UNCHANGED <<clientVars, inbox, cancelled, backendVars>>
    PROVE  StepOf(live \ {f.r}, routes) /\ TaskTypes' /\ buf' = buf
<1>1. f \in UpFrame /\ Said(f) /\ OldNews(fromB')
    BY FrameTaken
<1>2. f.r \in Known /\ f.r \in Requests
    BY <1>1 DEF Said, About, Known
<1>3. /\ live' = live \ {f.r} /\ UNCHANGED <<stage, routes, pending, nextId, id, buf>>
      /\ toB' = Append(toB, Frame("RST", f.r, FALSE))
    BY DEF RecvZeroUpdate
<1>4. Behind(toB') /\ Quiet(toB')
    <2>1. Frame("RST", f.r, FALSE) \in DownFrame /\ Frame("RST", f.r, FALSE).k = "RST"
          /\ Frame("RST", f.r, FALSE).r = f.r /\ Frame("RST", f.r, FALSE).k # "HEADERS"
        BY <1>2, ResetType
    <2> QED BY <2>1, <1>2, <1>3, BehindOne, Zenon
<1>5. Fresher /\ Spared /\ \A s \in ToSet(pending) : Waits(s)
    <2>1. \A s \in Requests : Fresh(s)' => Fresh(s)
        BY StillFresh, Zenon DEF clientVars
    <2> QED BY <2>1, <1>3, Unheard, Zenon
<1>6. TaskStep(<<>>, 0, live', routes', toB')
    <2>1. live' \in SUBSET live /\ routes' \in SUBSET routes
        BY <1>3
    <2> QED BY <2>1, <1>1, <1>3, <1>4, <1>5, Unfilled, Waiting, Zenon
<1> QED BY <1>3, <1>4, <1>6, TaskTyped, Zenon DEF StepOf, TaskTypes

\* begin_peer_drain: who waits and whom the backend will not take are refused.
LEMMA TookGoAway ==
    ASSUME UInv, fromB # <<>>, fromB' = Tail(fromB), NEW f, f = Head(fromB), f.k = "GOAWAY",
           BeginDrain(f.last), UNCHANGED <<clientVars, inbox, cancelled, backendVars>>
    PROVE  /\ \E above \in SUBSET routes : StepOf(live \ above, routes \ above)
           /\ TaskTypes' /\ draining' = f.last /\ f.last \in 0..Never /\ buf' = buf
<1>1. f \in UpFrame /\ Said(f) /\ OldNews(fromB')
    BY FrameTaken
<1> DEFINE above == {r \in routes : id[r] > f.last}
<1>2. /\ draining' = f.last
      /\ stage' = Tell(ToSet(pending) \cup above, "refused")
      /\ FillSlots(live \ above, routes \ above, <<>>, toB)
    BY DEF BeginDrain, Abandon
<1>3. \A r \in above : r \in Requests /\ r \in Known /\ ~Fresh(r) /\ Unrun(r)
    <2> SUFFICES ASSUME NEW r \in above PROVE r \in Requests /\ r \in Known /\ ~Fresh(r) /\ Unrun(r)
        OBVIOUS
    <2>1. r \in Known /\ ~Fresh(r) /\ r \in Requests
        BY Waiting DEF Known
    <2>2. bLast <= f.last /\ (bState[r] # "idle" => id[r] <= f.last) /\ id[r] > f.last
        BY <2>1, <1>1 DEF Said
    <2>3. id[r] \in Nat /\ bLast \in Nat /\ f.last \in Nat
        <3>1. id \in [Requests -> Nat] /\ bLast \in 0..NotDraining
            BY Zenon DEF UInv, Base, Types, TypeOK
        <3>2. f.last \in 0..Never
            BY <1>1, UpFields, Zenon
        <3> QED BY <2>1, <3>1, <3>2
    <2>4. bState[r] = "idle" /\ id[r] > bLast
        BY <2>2, <2>3
    <2> QED BY <2>1, <2>4 DEF Unrun
<1> HIDE DEF above
<1>4. TaskTypes /\ Behind(toB) /\ Quiet(toB)
    BY TaskTyped, BehindSame, Zenon
<1>5. /\ stage' \in [Requests -> Stage]
      /\ \A r \in Requests : r \notin ToSet(pending) \cup above => stage'[r] = stage[r]
    <2>1. "refused" \in Event
        BY DEF Event
    <2>2. \A r \in Requests : stage[r] \in Stage
        BY <1>4 DEF TaskTypes
    <2>3. \A r \in Requests : After(stage[r], "refused") \in Stage
        BY <2>1, <2>2, AfterType, Zenon
    <2>4. /\ stage' = [r \in Requests |-> stage'[r]]
          /\ \A r \in Requests : stage'[r] \in {stage[r], After(stage[r], "refused")}
          /\ \A r \in Requests : r \notin ToSet(pending) \cup above => stage'[r] = stage[r]
        BY <1>2 DEF Tell
    <2>5. \A r \in Requests : stage'[r] \in Stage
        BY <2>2, <2>3, <2>4
    <2> QED BY <2>4, <2>5
<1>6. Fresher /\ Spared
    <2>1. \A s \in Requests : Fresh(s)' => Fresh(s)
        BY StillFresh, Zenon DEF clientVars
    <2>2. Fresher
        BY <2>1, <1>3, <1>5, Waiting DEF Fresher
    <2>3. \A s \in ToSet(pending) : Unrun(s)
        BY Waiting, Zenon DEF Unrun
    <2>4. Spared
        BY <2>3, <1>3, <1>5, Zenon DEF Spared
    <2> QED BY <2>2, <2>4
<1>7. /\ StepOf(live \ above, routes \ above)
      /\ pending' \in Seq(Requests) /\ Len(pending') <= MaxPending /\ buf' = buf
    <2> DEFINE none == <<>>
    <2>1. none \in Seq(Requests) /\ Distinct(none) /\ Len(none) <= MaxPending
          /\ \A r \in ToSet(none) : Waits(r)
        <3>1. MaxPending \in Nat
            BY UpstreamAssumption, Zenon
        <3> QED BY <3>1 DEF Distinct, ToSet
    <2>2. live \ above \in SUBSET live /\ routes \ above \in SUBSET routes
        OBVIOUS
    <2> HIDE DEF none
    <2>3. FillSlots(live \ above, routes \ above, none, toB)
        BY <1>2, Zenon DEF none
    <2> QED BY <2>1, <2>2, <2>3, <1>1, <1>4, <1>6, Refilled, Zenon
<1>8. TaskTypes'
    BY <1>4, <1>5, <1>7, Zenon DEF TaskTypes
<1>9. above \in SUBSET routes
    BY DEF above
<1>10. f.last \in 0..Never
    BY <1>1, UpFields, Zenon
<1> QED BY <1>2, <1>7, <1>8, <1>9, <1>10, Zenon

\* pump_outbound.
LEMMA Pumped ==
    ASSUME UInv, NEW r \in Requests, PumpBody(r)
    PROVE  TaskStep(<<>>, 0, live, routes, toB') /\ TaskTypes'
<1>1. r \in Known /\ TaskTypes
    BY TaskTyped, Waiting, Zenon DEF PumpBody
<1>2. Data(r) \in DownFrame /\ Data(r).k = "DATA" /\ Data(r).r = r
    <2>1. buf[r].n \in Nat /\ buf[r].end \in BOOLEAN
        BY <1>1 DEF TaskTypes
    <2> QED BY <2>1 DEF Data, DownFrame
<1>3. Behind(toB')
    <2>1. Data(r).k # "HEADERS"
        BY <1>2
    <2> QED BY <2>1, <1>1, <1>2, BehindOne, Zenon DEF PumpBody
<1>4. TaskTypes'
    <2>1. buf' \in [Requests -> [n : Nat, end : BOOLEAN]]
        BY <1>1 DEF PumpBody, NoBody, TaskTypes
    <2> QED BY <1>1, <2>1, Zenon DEF PumpBody, TaskTypes
<1>5. Fresher /\ Spared /\ \A s \in ToSet(pending) : Waits(s)
    <2>1. \A s \in Requests : Fresh(s)' => Fresh(s)
        BY StillFresh, Zenon DEF clientVars, PumpBody
    <2> QED BY <2>1, Unheard, Zenon DEF PumpBody
<1>6. TaskStep(<<>>, 0, live', routes', toB')
    <2>1. live' \in SUBSET live /\ routes' \in SUBSET routes
        BY DEF PumpBody
    <2>2. OldNews(fromB')
        BY SameNews, Zenon DEF PumpBody
    <2> QED BY <2>1, <2>2, <1>3, <1>5, Unfilled, Waiting, Zenon DEF PumpBody
<1> QED BY <1>4, <1>6, Zenon DEF PumpBody

\* A step that touches neither table, queue nor wires.
LEMMA Elsewhere ==
    ASSUME UInv, UNCHANGED <<stage, nextId, id, live, routes, pending, toB, fromB, backendVars>>,
           \A s \in Requests : Fresh(s)' => Fresh(s)
    PROVE  TaskStep(<<>>, 0, live, routes, toB)
<1>1. Fresher /\ Spared /\ \A s \in ToSet(pending) : Waits(s)
    BY Unheard, Zenon
<1>2. live' \in SUBSET live /\ routes' \in SUBSET routes
    OBVIOUS
<1>3. OldNews(fromB')
    BY SameNews, Zenon
<1>4. TaskStep(<<>>, 0, live', routes', toB')
    BY <1>1, <1>2, <1>3, BehindSame, Unfilled, Waiting, Zenon
<1> QED BY <1>4, Zenon

\* fail_all_routes: who is routed or waits is told that the backend is gone.
LEMMA Failed ==
    ASSUME UInv, FailAllRoutes
    PROVE  TaskStep(<<>>, 0, live, {}, toB) /\ TaskTypes'
<1>1. TaskTypes /\ Behind(toB)
    BY TaskTyped, BehindSame, Zenon
<1>2. UNCHANGED <<clientVars, inbox, nextId, id, live, buf, cancelled, toB, fromB, backendVars>>
      /\ routes' = {} /\ pending' = <<>>
    BY Zenon DEF FailAllRoutes
<1>3. /\ stage' \in [Requests -> Stage]
      /\ \A r \in Requests : r \notin ToSet(pending) \cup routes => stage'[r] = stage[r]
      /\ \A r \in Requests : stage'[r] = "refused" => stage[r] = "refused"
    <2>1. "gone" \in Event /\ "reset" \in Event
        BY DEF Event
    <2>2. \A r \in Requests : stage[r] \in Stage
        BY <1>1 DEF TaskTypes
    <2>3. \A r \in Requests :
              /\ After(stage[r], "gone") \in Stage /\ After(stage[r], "gone") # "refused"
              /\ After(stage[r], "reset") \in Stage /\ After(stage[r], "reset") # "refused"
        <3>1. "gone" # "refused" /\ "reset" # "refused"
            OBVIOUS
        <3> QED BY <3>1, <2>1, <2>2, AfterType, Zenon
    <2>4. /\ stage' = [r \in Requests |-> stage'[r]]
          /\ \A r \in Requests :
                stage'[r] \in {stage[r], After(stage[r], "gone"), After(stage[r], "reset")}
          /\ \A r \in Requests : r \notin ToSet(pending) \cup routes => stage'[r] = stage[r]
        BY DEF FailAllRoutes
    <2>5. \A r \in Requests : stage'[r] \in Stage /\ (stage'[r] = "refused" => stage[r] = "refused")
        BY <2>2, <2>3, <2>4
    <2> QED BY <2>4, <2>5
<1>4. Fresher /\ Spared
    <2>1. \A s \in Requests : Fresh(s)' => Fresh(s)
        BY <1>2, StillFresh, Zenon DEF clientVars
    <2>2. Fresher
        BY <2>1, <1>3, Waiting DEF Fresher
    <2> QED BY <2>2, <1>3, Zenon DEF Spared
<1>5. TaskTypes'
    <2>1. pending' \in Seq(Requests) /\ Len(pending') <= MaxPending
        <3>1. MaxPending \in Nat
            BY UpstreamAssumption, Zenon
        <3> QED BY <3>1, <1>2
    <2> QED BY <2>1, <1>1, <1>2, <1>3, Zenon DEF TaskTypes
<1>6. TaskStep(<<>>, 0, live', routes', toB')
    <2>1. live' \in SUBSET live /\ routes' \in SUBSET routes
        BY <1>2
    <2>2. Distinct(pending') /\ \A r \in ToSet(pending') : Waits(r)
        BY <1>2 DEF Distinct, ToSet
    <2>3. OldNews(fromB')
        BY <1>2, SameNews, Zenon
    <2> QED BY <2>1, <2>2, <2>3, <1>1, <1>2, <1>4, Unfilled, Zenon
<1> QED BY <1>2, <1>5, <1>6, Zenon

\* The inbox closes, and whose Request it held is told.
LEMMA Closed ==
    ASSUME UInv, CloseInbox
    PROVE  TaskStep(<<>>, 0, live, routes, toB) /\ TaskTypes' /\ InOrder'
<1>1. TaskTypes /\ Behind(toB)
    BY TaskTyped, BehindSame, Zenon
<1>2. UNCHANGED <<clientVars, nextId, id, live, routes, buf, pending, cancelled, toB, fromB, backendVars>>
      /\ inbox' = <<>> /\ stage' = Tell(Unread, "gone")
    BY Zenon DEF CloseInbox
<1>3. \A r \in Requests : (Fresh(r)' => asked[r] = -1) /\ (asked[r] = -1 => Fresh(r))
    BY <1>2 DEF Fresh, Asking, clientVars
<1>4. \A r \in Unread : r \in Requests /\ Fresh(r) /\ asked[r] # -1
    <2> SUFFICES ASSUME NEW r \in Requests, NEW i \in DOMAIN inbox,
                        inbox[i] = Frame("Request", r, BodyOf[r] = 0)
                 PROVE  Fresh(r) /\ asked[r] # -1
        BY DEF Unread
    <2>1. inbox[i].k = "Request" /\ inbox[i].r = r
        BY DEF Frame
    <2>2. asked[inbox[i].r] # -1
        BY Zenon DEF UInv, Base, InOrder
    <2> QED BY <2>1, <2>2 DEF Fresh, Asking
<1>5. /\ stage' \in [Requests -> Stage]
      /\ \A r \in Requests : r \notin Unread => stage'[r] = stage[r]
      /\ \A r \in Requests : stage'[r] = "refused" => stage[r] = "refused"
    <2>1. "gone" \in Event
        BY DEF Event
    <2>2. \A r \in Requests : stage[r] \in Stage
        BY <1>1 DEF TaskTypes
    <2>3. \A r \in Requests : After(stage[r], "gone") \in Stage /\ After(stage[r], "gone") # "refused"
        <3>1. "gone" # "refused"
            OBVIOUS
        <3> QED BY <3>1, <2>1, <2>2, AfterType, Zenon
    <2>4. /\ stage' = [r \in Requests |-> stage'[r]]
          /\ \A r \in Requests : stage'[r] \in {stage[r], After(stage[r], "gone")}
          /\ \A r \in Requests : r \notin Unread => stage'[r] = stage[r]
        BY <1>2 DEF Tell
    <2>5. \A r \in Requests : stage'[r] \in Stage /\ (stage'[r] = "refused" => stage[r] = "refused")
        BY <2>2, <2>3, <2>4
    <2> QED BY <2>4, <2>5
<1>6. Fresher /\ Spared /\ \A r \in ToSet(pending) : Waits(r)
    <2>1. \A r \in ToSet(pending) : r \in Requests /\ r \notin Known /\ ~Fresh(r) /\ stage[r] = "none"
        BY Waiting, Zenon
    <2> QED BY <2>1, <1>3, <1>4, <1>5, Waiting, Zenon DEF Fresher, Spared, Waits
<1>7. TaskStep(<<>>, 0, live', routes', toB')
    <2>1. live' \in SUBSET live /\ routes' \in SUBSET routes
        BY <1>2
    <2>2. OldNews(fromB')
        BY <1>2, SameNews, Zenon
    <2> QED BY <2>1, <2>2, <1>1, <1>2, <1>6, Unfilled, Waiting, Zenon
<1>8. InOrder'
    BY <1>2 DEF InOrder
<1>9. TaskTypes'
    BY <1>1, <1>2, <1>5, Zenon DEF TaskTypes
<1> QED BY <1>2, <1>7, <1>8, <1>9, Zenon

-----------------------------------------------------------------------------
(* The steps of the backend. *)

\* Stream ids are no more than the requests.
LEMMA NoMoreIds == ASSUME UInv PROVE \A r \in Requests : id[r] \in 0..Never
<1> DEFINE n == nextId - 1
           of == [i \in 1..n |-> CHOOSE r \in Requests : id[r] = i]
<1>1. nextId \in Nat \ {0} /\ id \in [Requests -> Nat]
    BY Zenon DEF UInv, Base, Numbers, Types, TypeOK
<1>2. n \in Nat
    BY <1>1
<1>3. \A i \in 1..n : of[i] \in Requests /\ id[of[i]] = i
    <2>1. \A i \in 1..n : \E r \in Requests : id[r] = i
        BY Zenon DEF UInv, Base, Numbers
    <2> QED BY <2>1
<1>4. of \in Injection(1..n, Requests)
    <2>1. of \in [1..n -> Requests]
        BY <1>3
    <2>2. \A i, j \in 1..n : of[i] = of[j] => i = j
        BY <1>3
    <2> HIDE DEF of, n
    <2> QED BY <2>1, <2>2 DEF Injection, IsInjective
<1>5. IsFiniteSet(Requests)
    BY UpstreamAssumption, Zenon
<1>6. Cardinality(1..n) <= Cardinality(Requests)
    <2> HIDE DEF of, n
    <2> QED BY <1>4, <1>5, FS_Injection, Zenon
<1>7. Cardinality(1..n) = n
    <2>1. 1 \in Int /\ n \in Int
        BY <1>2
    <2> QED BY <1>2, <2>1, FS_Interval
<1>8. Cardinality(Requests) \in Nat
    BY <1>5, FS_CardinalityType
<1>9. n < Never
    <2> HIDE DEF n
    <2> QED BY <1>2, <1>6, <1>7, <1>8 DEF Never
<1> SUFFICES ASSUME NEW r \in Requests PROVE id[r] \in 0..Never
    OBVIOUS
<1>10. id[r] \in Nat /\ id[r] < nextId
    BY <1>1 DEF UInv, Base, Numbers
<1>11. Never \in Nat
    BY <1>8 DEF Never
<1> QED BY <1>1, <1>9, <1>10, <1>11

\* A request the backend takes up it had not heard of, and may; one it is done with
\* it is done with.
Proceeds(r) ==
    /\ bState[r] = "idle" /\ bState'[r] # "idle" => r \in Known /\ id[r] <= bLast
    /\ bState[r] # "idle" => bState'[r] # "idle"
    /\ bState[r] \in Settled => bState'[r] \in Settled
    /\ bState[r] = "refused" => bState'[r] = "refused"

\* It says one thing more, if anything.
LEMMA BackendKeeps ==
    ASSUME UInv, UNCHANGED <<clientVars, inbox, stage, taskVars>>,
           bLast' \in Nat, bLast' <= bLast, \A r \in Requests : Proceeds(r),
           fromB' = fromB \/ \E f \in UpFrame : fromB' = Append(fromB, f) /\ Said(f)'
    PROVE  InOrder' /\ Places' /\ Numbers' /\ Backend' /\ Refusals' /\ fromB' \in Seq(UpFrame)
<1>1. UNCHANGED <<asked, inbox, stage, id, nextId, live, routes, pending>>
    BY DEF clientVars, taskVars
<1>2. InOrder' /\ Places' /\ Numbers' /\ Known' = Known
    <2>1. InOrder'
        BY <1>1, Zenon DEF UInv, Base, InOrder
    <2>2. /\ Known' = Known /\ Distinct(pending') /\ ToSet(pending) \subseteq Requests
          /\ \A r \in Requests : Fresh(r)' <=> Fresh(r)
        BY <1>1, StillFresh, Waiting, Zenon DEF Known
    <2>3. Places'
        BY <1>1, <2>2, Zenon DEF UInv, Base, Places
    <2>4. Numbers'
        BY <1>1, Zenon DEF UInv, Base, Numbers
    <2> QED BY <2>1, <2>2, <2>3, <2>4
<1>3. bLast \in Nat /\ fromB \in Seq(UpFrame) /\ id \in [Requests -> Nat]
    <2>1. bLast \in 0..NotDraining /\ fromB \in Seq(UpFrame) /\ id \in [Requests -> Nat]
        BY Zenon DEF UInv, Base, Types, TypeOK
    <2> QED BY <2>1
\* What it said before stays true.
<1>4. ASSUME NEW f \in UpFrame, Said(f) PROVE Said(f)'
    <2>1. About(f) => f.r \in Known' /\ bState'[f.r] # "idle"
        <3>1. Known \subseteq Requests
            BY DEF Known
        <3> QED BY <3>1, <1>2, <1>4, Zenon DEF Said, Proceeds
    <2>2. About(f) => f.r \in Requests
        BY UpFields, Zenon
    <2>3. f.k = "RST" => bState'[f.r] \in Settled /\ (f.refused => bState'[f.r] = "refused")
        BY <2>2, <1>4, Zenon DEF Said, Proceeds, About
    <2>4. f.k \in {"HEADERS", "DATA", "BADTRAILERS"} /\ f.end => bState'[f.r] \in Settled
        <3>1. f.k \in {"HEADERS", "DATA", "BADTRAILERS"} => About(f)
            BY DEF About
        <3> QED BY <3>1, <2>2, <1>4, Zenon DEF Said, Proceeds
    <2>5. f.k = "GOAWAY" => /\ bLast' <= f.last
                            /\ \A r \in Requests : bState'[r] # "idle" => id'[r] <= f.last
        <3> SUFFICES ASSUME f.k = "GOAWAY"
                     PROVE  /\ bLast' <= f.last
                            /\ \A r \in Requests : bState'[r] # "idle" => id'[r] <= f.last
            OBVIOUS
        <3>1. f.last \in Nat
            <4>1. f.last \in 0..Never
                BY UpFields, Zenon
            <4> QED BY <4>1
        <3>2. bLast <= f.last /\ \A r \in Requests : bState[r] # "idle" => id[r] <= f.last
            BY <1>4, Zenon DEF Said
        <3>3. bLast' <= f.last
            BY <3>1, <3>2, <1>3
        <3>4. ASSUME NEW r \in Requests, bState'[r] # "idle" PROVE id'[r] <= f.last
            <4>1. CASE bState[r] # "idle"
                BY <3>2, <4>1, <1>1
            <4>2. CASE bState[r] = "idle"
                <5>1. id[r] <= bLast
                    BY <3>4, <4>2, Zenon DEF Proceeds
                <5> QED BY <5>1, <3>1, <3>2, <1>1, <1>3
            <4> QED BY <4>1, <4>2
        <3> QED BY <3>3, <3>4
    <2> QED BY <2>1, <2>3, <2>4, <2>5, Zenon DEF Said
<1>5. \A i \in DOMAIN fromB : fromB[i] \in UpFrame /\ Said(fromB[i])
    <2>1. \A i \in DOMAIN fromB : fromB[i] \in UpFrame
        BY <1>3
    <2> QED BY <2>1, Zenon DEF UInv, Base, Backend
<1>6. fromB' \in Seq(UpFrame) /\ \A i \in DOMAIN fromB' : Said(fromB[i])'
    <2>1. CASE fromB' = fromB
        BY <2>1, <1>3, <1>4, <1>5, Zenon DEF Said, About
    <2>2. CASE \E f \in UpFrame : fromB' = Append(fromB, f) /\ Said(f)'
        <3>1. PICK f \in UpFrame : fromB' = Append(fromB, f) /\ Said(f)'
            BY <2>2
        <3>2. fromB' \in Seq(UpFrame) /\ Longer(fromB, fromB', f)
            BY <3>1, <1>3, Added, Zenon
        <3>3. \A i \in DOMAIN fromB' : \/ i \in DOMAIN fromB /\ fromB'[i] = fromB[i]
                                       \/ fromB'[i] = f
            BY <3>2 DEF Longer
        <3>4. \A i \in DOMAIN fromB' : \E g \in UpFrame : fromB'[i] = g /\ Said(g)'
            BY <3>1, <3>3, <1>4, <1>5, Zenon
        <3>5. ASSUME NEW i \in DOMAIN fromB' PROVE Said(fromB[i])'
            <4>1. PICK g \in UpFrame : fromB'[i] = g /\ Said(g)'
                BY <3>4, Zenon
            <4> QED BY <4>1 DEF Said, About
        <3> QED BY <3>2, <3>5, Zenon
    <2> QED BY <2>1, <2>2
<1>7. Backend'
    <2>1. \A r \in Requests : bState'[r] # "idle" => r \in Known'
        BY <1>2, Zenon DEF UInv, Base, Backend, Proceeds
    <2> QED BY <2>1, <1>6, Zenon DEF Backend
<1>8. Refusals'
    <2> SUFFICES ASSUME NEW r \in Requests, stage'[r] = "refused" PROVE Unrun(r)'
        BY DEF Refusals
    <2>1. Unrun(r) /\ Proceeds(r) /\ id'[r] = id[r]
        BY <1>1, Zenon DEF UInv, Refusals
    <2>2. bState[r] = "refused" => Unrun(r)'
        BY <2>1, Zenon DEF Unrun, Proceeds
    <2>3. CASE bState[r] = "idle" /\ (id[r] = 0 \/ id[r] > bLast)
        <3>1. id[r] \in Nat /\ (id[r] # 0 => id[r] > bLast)
            BY <2>3, <1>3
        <3>2. r \in Known => id[r] > bLast
            BY <3>1 DEF Known
        <3>3. bState'[r] = "idle"
            BY <3>2, <2>1, <2>3, <1>3 DEF Proceeds
        <3>4. id[r] = 0 \/ id[r] > bLast'
            BY <3>1, <1>3
        <3> QED BY <3>3, <3>4, <2>1 DEF Unrun
    <2> QED BY <2>1, <2>2, <2>3, Zenon DEF Unrun
<1> QED BY <1>2, <1>6, <1>7, <1>8

BackendTypes ==
    /\ bState \in [Requests -> BackendState] /\ bGot \in [Requests -> [n : Nat, end : BOOLEAN]]
    /\ bLast \in 0..NotDraining

LEMMA BackendTyped == ASSUME UInv PROVE BackendTypes /\ bLast \in Nat
<1>1. BackendTypes
    BY Zenon DEF UInv, Base, Types, TypeOK, BackendTypes
<1> QED BY <1>1 DEF BackendTypes

\* Nothing is taken from the wire: what is HEADERS there is to be accepted yet.
LEMMA WireKept ==
    ASSUME UInv, toB' = toB, id' = id, \A r \in Requests : bState[r] = "idle" => bState'[r] = "idle"
    PROVE  Down(toB)' /\ toB' \in Seq(DownFrame)
<1>1. Down(toB) /\ toB \in Seq(DownFrame)
    BY Zenon DEF UInv, Base, Types
<1>2. \A i \in DOMAIN toB : toB[i].r \in Known
    BY <1>1, Zenon DEF Down
<1>3. \A i \in DOMAIN toB : toB[i].r \in Requests
    BY <1>2 DEF Known
<1> QED BY <1>1, <1>2, <1>3, Zenon DEF Down, Known

\* A response, or the part of one.
LEMMA Responded ==
    ASSUME UInv, NEW r \in Requests, NEW f \in UpFrame, NEW now \in BackendState,
           Respond(r, f, now), bState[r] \in {"open", "head", "data"}, now # "idle",
           About(f), f.r = r, f.k # "GOAWAY",
           f.k = "RST" => now \in Settled /\ ~f.refused,
           f.k \in {"HEADERS", "DATA", "BADTRAILERS"} /\ f.end => now \in Settled
    PROVE  /\ InOrder' /\ Places' /\ Numbers' /\ Backend' /\ Refusals' /\ fromB' \in Seq(UpFrame)
           /\ Down(toB)' /\ toB' \in Seq(DownFrame) /\ BackendTypes'
<1>1. /\ UNCHANGED <<clientVars, inbox, stage, taskVars, toB, bGot, bLast>>
      /\ fromB' = Append(fromB, f)
      /\ bState' = [bState EXCEPT ![r] = now]
    BY Zenon DEF Respond
<1>2. BackendTypes /\ bLast \in Nat
    BY BackendTyped
<1>3. /\ bState'[r] = now /\ \A s \in Requests : s # r => bState'[s] = bState[s]
      /\ bState' \in [Requests -> BackendState]
    BY <1>1, <1>2 DEF BackendTypes
<1>4. bState[r] \notin Settled \cup {"idle", "refused"}
    BY DEF Settled
<1>5. \A s \in Requests : Proceeds(s)
    BY <1>3, <1>4, Zenon DEF Proceeds
<1>6. Said(f)'
    <2>1. r \in Known /\ id' = id
        BY <1>1, <1>4, Waiting, Zenon DEF taskVars
    <2>2. f.r \in Known' /\ bState'[f.r] # "idle"
        BY <2>1, <1>3, Zenon DEF Known
    <2>3. f.k = "RST" => bState'[f.r] \in Settled /\ ~f.refused
        BY <1>3, Zenon
    <2>4. f.k \in {"HEADERS", "DATA", "BADTRAILERS"} /\ f.end => bState'[f.r] \in Settled
        BY <1>3, Zenon
    <2> QED BY <2>2, <2>3, <2>4, Zenon DEF Said
<1>7. bLast' \in Nat /\ bLast' <= bLast
    BY <1>1, <1>2
<1>8. InOrder' /\ Places' /\ Numbers' /\ Backend' /\ Refusals' /\ fromB' \in Seq(UpFrame)
    BY <1>1, <1>5, <1>6, <1>7, BackendKeeps, Zenon
<1>9. Down(toB)' /\ toB' \in Seq(DownFrame)
    <2>1. \A s \in Requests : bState[s] = "idle" => bState'[s] = "idle"
        BY <1>3, <1>4
    <2> QED BY <2>1, <1>1, WireKept, Zenon DEF taskVars
<1>10. BackendTypes'
    BY <1>1, <1>2, <1>3, Zenon DEF BackendTypes
<1> QED BY <1>8, <1>9, <1>10

LEMMA Answered ==
    ASSUME UInv, NEW r \in Requests,
           BackendHead(r) \/ BackendData(r) \/ BackendEnd(r) \/ BackendReset(r)
    PROVE  /\ InOrder' /\ Places' /\ Numbers' /\ Backend' /\ Refusals' /\ fromB' \in Seq(UpFrame)
           /\ Down(toB)' /\ toB' \in Seq(DownFrame) /\ BackendTypes'
<1>1. \A k \in {"HEADERS", "DATA"}, end \in BOOLEAN :
          /\ Frame(k, r, end) \in UpFrame /\ Frame(k, r, end).k = k
          /\ Frame(k, r, end).r = r /\ Frame(k, r, end).end = end /\ About(Frame(k, r, end))
          /\ Frame(k, r, end).k # "RST" /\ Frame(k, r, end).k # "GOAWAY"
    BY DEF Frame, UpFrame, About
<1>2. {"head", "data", "done", "reset"} \subseteq BackendState \ {"idle"}
      /\ "done" \in Settled /\ "reset" \in Settled
    BY DEF BackendState, Settled
<1>3. CASE BackendHead(r)
    <2>1. PICK end \in BOOLEAN :
              bState[r] = "open" /\ Respond(r, Frame("HEADERS", r, end), IF end THEN "done" ELSE "head")
        BY <1>3, Zenon DEF BackendHead
    <2> DEFINE now == IF end THEN "done" ELSE "head"
    <2>2. now \in BackendState /\ now # "idle" /\ (end => now \in Settled)
        BY <1>2
    <2>3. Respond(r, Frame("HEADERS", r, end), now) /\ bState[r] \in {"open", "head", "data"}
        BY <2>1
    <2> HIDE DEF now
    <2> QED BY <1>1, <2>2, <2>3, Responded, Zenon
<1>4. CASE BackendData(r)
    <2>1. Respond(r, Frame("DATA", r, FALSE), "data") /\ bState[r] \in {"open", "head", "data"}
        BY <1>4 DEF BackendData
    <2>2. FALSE \in BOOLEAN /\ "data" \in BackendState /\ "data" # "idle"
        BY <1>2
    <2> QED BY <1>1, <2>1, <2>2, Responded, Zenon
<1>5. CASE BackendEnd(r)
    <2>1. PICK k \in {"DATA", "HEADERS"} :
              bState[r] \in {"head", "data"} /\ Respond(r, Frame(k, r, TRUE), "done")
        BY <1>5, Zenon DEF BackendEnd
    <2>2. TRUE \in BOOLEAN /\ "done" \in BackendState /\ "done" # "idle" /\ k \in {"HEADERS", "DATA"}
          /\ bState[r] \in {"open", "head", "data"}
        BY <1>2, <2>1
    <2> QED BY <1>1, <1>2, <2>1, <2>2, Responded, Zenon
<1>6. CASE BackendReset(r)
    <2> DEFINE f == [k |-> "RST", r |-> r, refused |-> FALSE]
    <2>1. f \in UpFrame /\ About(f) /\ f.k = "RST" /\ f.r = r /\ ~f.refused /\ f.k # "GOAWAY"
          /\ ~(f.k \in {"HEADERS", "DATA", "BADTRAILERS"})
        BY DEF UpFrame, About
    <2>2. Respond(r, f, "reset") /\ bState[r] \in {"open", "head", "data"}
        BY <1>6, Zenon DEF BackendReset
    <2>3. "reset" \in BackendState /\ "reset" # "idle"
        BY <1>2
    <2> HIDE DEF f
    <2> QED BY <1>2, <2>1, <2>2, <2>3, Responded, Zenon
<1> QED BY <1>3, <1>4, <1>5, <1>6

\* What it may send at any time: GOAWAY, SETTINGS and the malformed frames.
LEMMA Declared ==
    ASSUME UInv, NEW f \in UpFrame, fromB' = Append(fromB, f),
           UNCHANGED <<clientVars, inbox, stage, taskVars, toB, bGot>>,
           bState' \in [Requests -> BackendState], bLast' \in 0..NotDraining, bLast' <= bLast,
           \A s \in Requests :
               \/ bState'[s] = bState[s]
               \/ bState[s] \in {"head", "data"} /\ bState'[s] = "done",
           Said(f)'
    PROVE  /\ InOrder' /\ Places' /\ Numbers' /\ Backend' /\ Refusals' /\ fromB' \in Seq(UpFrame)
           /\ Down(toB)' /\ toB' \in Seq(DownFrame) /\ BackendTypes'
<1>1. BackendTypes /\ bLast \in Nat
    BY BackendTyped
<1>2. \A s \in Requests : Proceeds(s)
    BY DEF Proceeds, Settled
<1>3. bLast' \in Nat
    OBVIOUS
<1>4. InOrder' /\ Places' /\ Numbers' /\ Backend' /\ Refusals' /\ fromB' \in Seq(UpFrame)
    BY <1>2, <1>3, BackendKeeps, Zenon
<1>5. Down(toB)' /\ toB' \in Seq(DownFrame)
    <2>1. \A s \in Requests : bState[s] = "idle" => bState'[s] = "idle"
        OBVIOUS
    <2> QED BY <2>1, WireKept, Zenon DEF taskVars
<1>6. BackendTypes'
    BY <1>1, Zenon DEF BackendTypes
<1> QED BY <1>4, <1>5, <1>6

LEMMA SaidFreely ==
    ASSUME UInv,
           \/ BackendGoAway \/ BackendSettings
           \/ \E r \in Requests : BackendZeroUpdate(r) \/ BackendBadTrailers(r)
    PROVE  /\ InOrder' /\ Places' /\ Numbers' /\ Backend' /\ Refusals' /\ fromB' \in Seq(UpFrame)
           /\ Down(toB)' /\ toB' \in Seq(DownFrame) /\ BackendTypes'
           /\ UNCHANGED <<clientVars, inbox, stage, taskVars, toB>>
<1>1. BackendTypes /\ bLast \in Nat
    BY BackendTyped
<1>2. CASE BackendGoAway
    <2>1. PICK last \in {Never} \cup {id[r] : r \in Requests} :
              /\ last <= bLast
              /\ \A r \in Requests : bState[r] # "idle" => id[r] <= last
              /\ Say("GOAWAY", MaxGoAway, [k |-> "GOAWAY", last |-> last])
              /\ bLast' = last
              /\ UNCHANGED bState
        BY <1>2, Zenon DEF BackendGoAway
    <2>2. Never \in Nat
        <3>1. Cardinality(Requests) \in Nat
            BY UpstreamAssumption, FS_CardinalityType, Zenon
        <3> QED BY <3>1 DEF Never
    <2>3. last \in 0..Never
        <3>1. CASE last = Never
            BY <3>1, <2>2
        <3>2. CASE last \in {id[r] : r \in Requests}
            BY <3>2, NoMoreIds
        <3> QED BY <3>1, <3>2, <2>1, Zenon
    <2> DEFINE f == [k |-> "GOAWAY", last |-> last]
    <2>4. f \in UpFrame /\ ~About(f) /\ f.k = "GOAWAY" /\ f.last = last
        BY <2>3 DEF UpFrame, About
    <2>5. /\ UNCHANGED <<clientVars, inbox, stage, taskVars, toB, bGot, bState>>
          /\ fromB' = Append(fromB, f)
        BY <2>1, Zenon DEF Say
    <2> HIDE DEF f
    <2>6. Said(f)'
        <3>1. id' = id
            BY <2>3, <2>5, Zenon DEF taskVars
        <3>2. "GOAWAY" # "RST" /\ "GOAWAY" \notin {"HEADERS", "DATA", "BADTRAILERS"}
            OBVIOUS
        <3>3. last <= last
            BY <2>3
        <3> QED BY <2>1, <2>4, <2>5, <3>1, <3>2, <3>3, Zenon DEF Said
    <2>7. bLast' \in 0..NotDraining /\ bLast' <= bLast
        BY <2>1, <2>2, <2>3 DEF NotDraining
    <2>8. bState' \in [Requests -> BackendState]
        BY <1>1, <2>5, Zenon DEF BackendTypes
    <2> QED BY <2>4, <2>5, <2>6, <2>7, <2>8, Declared, Zenon
<1>3. ASSUME NEW f \in UpFrame, fromB' = Append(fromB, f), Said(f)',
             UNCHANGED <<clientVars, inbox, stage, taskVars, toB, bGot, bLast>>,
             bState' \in [Requests -> BackendState],
             \A s \in Requests :
                 \/ bState'[s] = bState[s]
                 \/ bState[s] \in {"head", "data"} /\ bState'[s] = "done"
      PROVE  /\ InOrder' /\ Places' /\ Numbers' /\ Backend' /\ Refusals' /\ fromB' \in Seq(UpFrame)
             /\ Down(toB)' /\ toB' \in Seq(DownFrame) /\ BackendTypes'
    <2>1. bLast' \in 0..NotDraining /\ bLast' <= bLast
        BY <1>1, <1>3 DEF BackendTypes
    <2> QED BY <1>3, <2>1, Declared, Zenon
<1>4. CASE BackendSettings
    <2>1. PICK max \in Limits :
              /\ Say("SETTINGS", MaxSettings, [k |-> "SETTINGS", max |-> max])
              /\ UNCHANGED <<bState, bLast>>
        BY <1>4, Zenon DEF BackendSettings
    <2> DEFINE f == [k |-> "SETTINGS", max |-> max]
    <2>2. f \in UpFrame /\ ~About(f) /\ f.k = "SETTINGS"
        BY DEF UpFrame, About
    <2>3. /\ UNCHANGED <<clientVars, inbox, stage, taskVars, toB, bGot, bState, bLast>>
          /\ fromB' = Append(fromB, f)
        BY <2>1, Zenon DEF Say
    <2> HIDE DEF f
    <2>4. Said(f)'
        BY <2>2 DEF Said
    <2> QED BY <1>1, <1>3, <2>2, <2>3, <2>4, Zenon DEF BackendTypes
<1>5. ASSUME NEW r \in Requests, BackendZeroUpdate(r)
      PROVE  /\ InOrder' /\ Places' /\ Numbers' /\ Backend' /\ Refusals' /\ fromB' \in Seq(UpFrame)
             /\ Down(toB)' /\ toB' \in Seq(DownFrame) /\ BackendTypes'
    <2> DEFINE f == Frame("ZEROUPDATE", r, FALSE)
    <2>1. f \in UpFrame /\ About(f) /\ f.k = "ZEROUPDATE" /\ f.r = r
        BY DEF Frame, UpFrame, About
    <2>2. /\ UNCHANGED <<clientVars, inbox, stage, taskVars, toB, bGot, bState, bLast>>
          /\ fromB' = Append(fromB, f) /\ bState[r] \in {"open", "head", "data"}
        BY <1>5, Zenon DEF BackendZeroUpdate, Say
    <2> HIDE DEF f
    <2>3. r \in Known' /\ bState'[r] # "idle"
        <3>1. bState[r] # "idle"
            BY <2>2
        <3> QED BY <3>1, <2>2, Waiting, Zenon DEF taskVars, Known
    <2>4. Said(f)'
        BY <2>1, <2>3 DEF Said
    <2> QED BY <1>1, <1>3, <2>1, <2>2, <2>4, Zenon DEF BackendTypes
<1>6. ASSUME NEW r \in Requests, BackendBadTrailers(r)
      PROVE  /\ InOrder' /\ Places' /\ Numbers' /\ Backend' /\ Refusals' /\ fromB' \in Seq(UpFrame)
             /\ Down(toB)' /\ toB' \in Seq(DownFrame) /\ BackendTypes'
    <2> DEFINE f == Frame("BADTRAILERS", r, TRUE)
    <2>1. f \in UpFrame /\ About(f) /\ f.k = "BADTRAILERS" /\ f.r = r
        BY DEF Frame, UpFrame, About
    <2>2. /\ UNCHANGED <<clientVars, inbox, stage, taskVars, toB, bGot, bLast>>
          /\ fromB' = Append(fromB, f) /\ bState[r] \in {"head", "data"}
          /\ bState' = [bState EXCEPT ![r] = "done"]
        BY <1>6, Zenon DEF BackendBadTrailers, Say
    <2> HIDE DEF f
    <2>3. /\ bState' \in [Requests -> BackendState] /\ bState'[r] = "done"
          /\ \A s \in Requests : s # r => bState'[s] = bState[s]
        BY <1>1, <2>2 DEF BackendTypes, BackendState
    <2>4. r \in Known'
        <3>1. bState[r] # "idle"
            BY <2>2
        <3> QED BY <3>1, <2>2, Waiting, Zenon DEF taskVars, Known
    <2>5. Said(f)'
        BY <2>1, <2>3, <2>4 DEF Said, Settled
    <2> QED BY <1>3, <2>1, <2>2, <2>3, <2>5, Zenon
<1>7. UNCHANGED <<clientVars, inbox, stage, taskVars, toB>>
    BY Zenon DEF BackendGoAway, BackendSettings, BackendZeroUpdate, BackendBadTrailers, Say
<1> QED BY <1>2, <1>4, <1>5, <1>6, <1>7, Zenon

\* What the backend does with the frame f that it takes from the wire.
Takes(f) ==
    \/ f.k = "HEADERS" /\ id[f.r] > bLast /\ UNCHANGED <<bState, bGot, fromB>>
    \/ f.k = "HEADERS" /\ id[f.r] <= bLast /\ (Accept(f) \/ Refuse(f))
    \/ /\ f.k = "DATA"
       /\ bGot' = [bGot EXCEPT ![f.r] = [n |-> bGot[f.r].n + f.n, end |-> f.end]]
       /\ UNCHANGED <<bState, fromB>>
    \/ /\ f.k = "RST"
       /\ bState' = [bState EXCEPT ![f.r] =
                         IF bState[f.r] \in {"idle", "refused"} THEN bState[f.r] ELSE "reset"]
       /\ UNCHANGED <<bGot, fromB>>

LEMMA Taking ==
    ASSUME UInv, BackendTake
    PROVE  \E f \in DownFrame :
              /\ f = Head(toB) /\ f.r \in Requests /\ f.r \in Known /\ Takes(f)
              /\ f.k \in {"HEADERS", "DATA", "RST"} /\ f.end \in BOOLEAN
              /\ f.k = "DATA" => f.n \in Nat
              /\ toB' \in Seq(DownFrame) /\ Len(toB') = Len(toB) - 1 /\ Shorter(toB, toB')
              /\ UNCHANGED <<clientVars, inbox, stage, taskVars, bLast>>
<1>1. toB \in Seq(DownFrame) /\ Down(toB) /\ toB # <<>> /\ toB' = Tail(toB)
      /\ UNCHANGED <<clientVars, inbox, stage, taskVars, bLast>>
    BY Zenon DEF UInv, Base, Types, BackendTake
<1>2. PICK f : f = Head(toB)
    OBVIOUS
<1>3. toB' \in Seq(DownFrame) /\ f \in DownFrame /\ Shorter(toB, toB')
    BY <1>1, <1>2, Taken, Zenon
<1>4. Len(toB') = Len(toB) - 1
    BY <1>1
<1>5. /\ f.k \in {"HEADERS", "DATA", "RST"} /\ f.end \in BOOLEAN /\ f.r \in Requests
      /\ f.k = "DATA" => f.n \in Nat
    BY <1>3 DEF DownFrame
<1>6. f.r \in Known
    <2>1. 1 \in DOMAIN toB /\ toB[1] = f
        BY <1>2, <1>3 DEF Shorter
    <2> QED BY <1>1, <2>1, Zenon DEF Down
<1>7. Takes(f)
    <2>1. \/ f.k = "HEADERS" /\ id[f.r] > bLast
          \/ f.k = "HEADERS" /\ id[f.r] <= bLast
          \/ f.k = "DATA"
          \/ f.k = "RST"
        <3>1. bLast \in Nat /\ id \in [Requests -> Nat]
            BY BackendTyped, Zenon DEF UInv, Base, Types, TypeOK
        <3>2. id[f.r] \in Nat
            BY <3>1, <1>5
        <3> QED BY <1>5, <3>1, <3>2
    <2> QED BY <1>2, <2>1 DEF BackendTake, Takes
<1> QED BY <1>1, <1>2, <1>3, <1>4, <1>5, <1>6, <1>7, Zenon

\* The backend takes a frame from the wire.
LEMMA Received ==
    ASSUME UInv, BackendTake
    PROVE  /\ InOrder' /\ Places' /\ Numbers' /\ Backend' /\ Refusals' /\ fromB' \in Seq(UpFrame)
           /\ Down(toB)' /\ toB' \in Seq(DownFrame) /\ BackendTypes'
           /\ UNCHANGED <<clientVars, inbox, stage, taskVars>>
<1>1. BackendTypes /\ bLast \in Nat
    BY BackendTyped
<1>0. PICK f \in DownFrame :
          /\ f = Head(toB) /\ f.r \in Requests /\ f.r \in Known /\ Takes(f)
          /\ f.end \in BOOLEAN
          /\ f.k = "DATA" => f.n \in Nat
          /\ toB' \in Seq(DownFrame) /\ Shorter(toB, toB')
          /\ UNCHANGED <<clientVars, inbox, stage, taskVars, bLast>>
    BY Taking, Zenon
<1>2. /\ toB' \in Seq(DownFrame) /\ f \in DownFrame /\ Shorter(toB, toB') /\ Down(toB)
    BY <1>0, Zenon DEF UInv, Base
<1>3. /\ 1 \in DOMAIN toB /\ toB[1] = f /\ \A i \in DOMAIN toB : i \in Nat \ {0}
      /\ \A i \in DOMAIN toB' : i \in Nat /\ i # 0 /\ i + 1 \in DOMAIN toB /\ toB'[i] = toB[i + 1]
    BY <1>2, <1>0 DEF Shorter
<1>4. /\ UNCHANGED <<clientVars, inbox, stage, taskVars, bLast>>
      /\ \/ f.k = "HEADERS" /\ id[f.r] > bLast /\ UNCHANGED <<bState, bGot, fromB>>
         \/ f.k = "HEADERS" /\ id[f.r] <= bLast /\ (Accept(f) \/ Refuse(f))
         \/ /\ f.k = "DATA"
            /\ bGot' = [bGot EXCEPT ![f.r] = [n |-> bGot[f.r].n + f.n, end |-> f.end]]
            /\ UNCHANGED <<bState, fromB>>
         \/ /\ f.k = "RST"
            /\ bState' = [bState EXCEPT ![f.r] =
                              IF bState[f.r] \in {"idle", "refused"} THEN bState[f.r] ELSE "reset"]
            /\ UNCHANGED <<bGot, fromB>>
    BY <1>0, Zenon DEF Takes
<1>5. f.r \in Known /\ f.r \in Requests
    BY <1>0
<1>6. f.k = "DATA" => f.n \in Nat /\ f.end \in BOOLEAN
    BY <1>0
<1>7. f.k = "HEADERS" => bState[f.r] = "idle" /\ f.end \in BOOLEAN
    BY <1>2, <1>3, <1>0, Zenon DEF Down
<1>8. /\ \A s \in Requests : s # f.r => bState'[s] = bState[s]
      /\ \/ UNCHANGED <<bState, fromB>>
         \/ /\ f.k = "HEADERS" /\ id[f.r] <= bLast /\ bState'[f.r] = "open" /\ fromB' = fromB
         \/ /\ f.k = "HEADERS" /\ id[f.r] <= bLast /\ bState'[f.r] = "refused"
            /\ fromB' = Append(fromB, [k |-> "RST", r |-> f.r, refused |-> TRUE])
         \/ /\ f.k = "RST" /\ bState[f.r] \notin {"idle", "refused"}
            /\ bState'[f.r] = "reset" /\ fromB' = fromB
      /\ BackendTypes'
    <2>1. bState \in [Requests -> BackendState] /\ bGot \in [Requests -> [n : Nat, end : BOOLEAN]]
        BY <1>1, Zenon DEF BackendTypes
    <2>2. bLast' \in 0..NotDraining
        BY <1>1, <1>4, Zenon DEF BackendTypes
    <2>3. CASE UNCHANGED <<bState, bGot, fromB>>
        BY <2>1, <2>2, <2>3, Zenon DEF BackendTypes
    <2>4. CASE f.k = "HEADERS" /\ id[f.r] <= bLast /\ Accept(f)
        <3>1. /\ bState' = [bState EXCEPT ![f.r] = "open"] /\ fromB' = fromB
              /\ bGot' = [bGot EXCEPT ![f.r].end = f.end]
            BY <2>4 DEF Accept
        <3>2. bState' \in [Requests -> BackendState]
            BY <2>1, <3>1 DEF BackendState
        <3>3. bGot' \in [Requests -> [n : Nat, end : BOOLEAN]]
            BY <2>1, <2>4, <3>1, <1>5, <1>7
        <3>4. bState'[f.r] = "open" /\ \A s \in Requests : s # f.r => bState'[s] = bState[s]
            BY <2>1, <3>1, <1>5
        <3> QED BY <2>2, <2>4, <3>1, <3>2, <3>3, <3>4, Zenon DEF BackendTypes
    <2>5. CASE f.k = "HEADERS" /\ id[f.r] <= bLast /\ Refuse(f)
        <3>1. /\ bState' = [bState EXCEPT ![f.r] = "refused"] /\ bGot' = bGot
              /\ fromB' = Append(fromB, [k |-> "RST", r |-> f.r, refused |-> TRUE])
            BY <2>5 DEF Refuse
        <3>2. bState' \in [Requests -> BackendState]
            BY <2>1, <3>1 DEF BackendState
        <3>3. bState'[f.r] = "refused" /\ \A s \in Requests : s # f.r => bState'[s] = bState[s]
            BY <2>1, <3>1, <1>5
        <3> QED BY <2>1, <2>2, <2>5, <3>1, <3>2, <3>3, Zenon DEF BackendTypes
    <2>6. CASE /\ f.k = "DATA"
               /\ bGot' = [bGot EXCEPT ![f.r] = [n |-> bGot[f.r].n + f.n, end |-> f.end]]
               /\ UNCHANGED <<bState, fromB>>
        <3>1. bGot' \in [Requests -> [n : Nat, end : BOOLEAN]]
            BY <2>1, <2>6, <1>5, <1>6
        <3> QED BY <2>1, <2>2, <2>6, <3>1, Zenon DEF BackendTypes
    <2>7. CASE /\ f.k = "RST"
               /\ bState' = [bState EXCEPT ![f.r] =
                                 IF bState[f.r] \in {"idle", "refused"} THEN bState[f.r] ELSE "reset"]
               /\ UNCHANGED <<bGot, fromB>>
        <3>1. bState' \in [Requests -> BackendState]
            BY <2>1, <2>7, <1>5 DEF BackendState
        <3>2. /\ \A s \in Requests : s # f.r => bState'[s] = bState[s]
              /\ \/ bState' = bState
                 \/ bState[f.r] \notin {"idle", "refused"} /\ bState'[f.r] = "reset"
            BY <2>1, <2>7, <1>5
        <3> QED BY <2>1, <2>2, <2>7, <3>1, <3>2, Zenon DEF BackendTypes
    <2> QED BY <1>4, <2>3, <2>4, <2>5, <2>6, <2>7, Zenon
<1>9. \A s \in Requests : Proceeds(s)
    BY <1>5, <1>7, <1>8 DEF Proceeds, Settled
<1>10. fromB' = fromB \/ \E g \in UpFrame : fromB' = Append(fromB, g) /\ Said(g)'
    <2> SUFFICES ASSUME bState'[f.r] = "refused",
                        fromB' = Append(fromB, [k |-> "RST", r |-> f.r, refused |-> TRUE])
                 PROVE  \E g \in UpFrame : fromB' = Append(fromB, g) /\ Said(g)'
        BY <1>8, Zenon
    <2> DEFINE g == [k |-> "RST", r |-> f.r, refused |-> TRUE]
    <2>1. g \in UpFrame /\ About(g) /\ g.k = "RST" /\ g.r = f.r
        BY <1>5 DEF UpFrame, About
    <2>2. fromB' = Append(fromB, g)
        OBVIOUS
    <2>3. f.r \in Known'
        BY <1>4, <1>5, Zenon DEF Known, taskVars
    <2> HIDE DEF g
    <2>4. ASSUME NEW h, h = g PROVE Said(h)'
        BY <2>1, <2>3, <2>4 DEF Said, Settled
    <2> QED BY <2>1, <2>2, <2>4, Zenon
<1>11. InOrder' /\ Places' /\ Numbers' /\ Backend' /\ Refusals' /\ fromB' \in Seq(UpFrame)
    <2>1. bLast' \in Nat /\ bLast' <= bLast
        BY <1>1, <1>4
    <2> QED BY <2>1, <1>4, <1>9, <1>10, BackendKeeps, Zenon
<1>12. Down(toB)'
    <2>1. id' = id
        BY <1>4, Zenon DEF taskVars
    <2>2. ASSUME NEW i \in DOMAIN toB' PROVE (toB'[i]).r \in Known'
        BY <2>1, <1>2, <1>3 DEF Down, Known
    <2>3. ASSUME NEW i \in DOMAIN toB', (toB'[i]).k = "HEADERS"
          PROVE  /\ bState'[toB'[i].r] = "idle"
                 /\ \A j \in DOMAIN toB' : toB'[j].r = toB'[i].r => i <= j
        <3>1. /\ bState[toB[i + 1].r] = "idle" /\ toB[i + 1].r \in Requests
              /\ \A j \in DOMAIN toB : toB[j].r = toB[i + 1].r => i + 1 <= j
            BY <2>3, <1>2, <1>3 DEF Down, Known
        <3>2. toB[i + 1].r # f.r
            BY <3>1, <1>3
        <3>3. bState'[toB'[i].r] = "idle"
            BY <3>1, <3>2, <1>3, <1>8
        <3>4. ASSUME NEW j \in DOMAIN toB', toB'[j].r = toB'[i].r PROVE i <= j
            <4>1. i + 1 <= j + 1
                BY <3>1, <3>4, <1>3
            <4> QED BY <4>1, <1>3
        <3> QED BY <3>3, <3>4
    <2> QED BY <2>2, <2>3 DEF Down
<1> QED BY <1>2, <1>4, <1>8, <1>11, <1>12

-----------------------------------------------------------------------------
(* Every step keeps the invariant. *)

\* The state of the proxies and the inbox; of the connection.
ClientTypes == asked \in [Requests -> Nat \cup {-1}] /\ gaveUp \subseteq Requests /\ inbox \in Seq(Message)
PhaseTypes  ==
    /\ up \in {"open", "stopping", "failed", "closed"} /\ limit \in Nat
    /\ draining \in 0..NotDraining

LEMMA ClientTyped == ASSUME UInv PROVE ClientTypes /\ PhaseTypes
<1>1. asked \in [Requests -> Int] /\ \A r \in Requests : asked[r] \in Nat \cup {-1}
    BY Zenon DEF UInv, Base, Types, TypeOK
<1>2. asked \in [Requests -> Nat \cup {-1}]
    BY <1>1
<1> QED BY <1>2, Zenon DEF UInv, Base, Types, TypeOK, ClientTypes, PhaseTypes

LEMMA AllTypesNext ==
    ASSUME ClientTypes', PhaseTypes', TaskTypes', BackendTypes',
           nextId' \in Nat, id' \in [Requests -> Nat], live' \subseteq Requests, routes' \subseteq Requests,
           toB' \in Seq(DownFrame), fromB' \in Seq(UpFrame)
    PROVE  Types'
<1>1. asked' \in [Requests -> Int] /\ \A r \in Requests : asked'[r] \in Nat \cup {-1}
    BY DEF ClientTypes
<1> QED BY <1>1, Zenon DEF ClientTypes, PhaseTypes, TaskTypes, BackendTypes, Types, TypeOK, Message

LEMMA Stepped ==
    ASSUME UInv, NEW q, NEW n, NEW open, NEW kept, NEW frames,
           TaskStep(q, n, open, kept, frames),
           TaskTypes', InOrder', ClientTypes', PhaseTypes', fromB' \in Seq(UpFrame)
    PROVE  UInv'
<1>1. Places' /\ Numbers' /\ Down(toB)' /\ Backend' /\ Refusals'
    BY TaskKeeps, Zenon
<1>2. nextId' \in Nat /\ id' \in [Requests -> Nat] /\ toB' \in Seq(DownFrame)
    <2>1. nextId' \in Nat
        BY <1>1 DEF Numbers
    <2> QED BY <2>1, Zenon DEF TaskStep, Opens
<1>3. live' \subseteq Requests /\ routes' \subseteq Requests
    BY <1>1 DEF Places, Known
<1>4. BackendTypes'
    <2>1. UNCHANGED backendVars
        BY Zenon DEF TaskStep
    <2> QED BY <2>1, BackendTyped, Zenon DEF backendVars, BackendTypes
<1>5. Types'
    BY <1>2, <1>3, <1>4, AllTypesNext, Zenon
<1> QED BY <1>1, <1>5, Zenon DEF UInv, Base

LEMMA SteppedSome ==
    ASSUME UInv, NEW open, NEW kept, StepOf(open, kept),
           TaskTypes', InOrder', ClientTypes', PhaseTypes', fromB' \in Seq(UpFrame)
    PROVE  UInv'
BY Stepped, Zenon DEF StepOf

LEMMA ClientSteps ==
    ASSUME UInv, NEW r \in Requests, SendRequest(r) \/ SendBody(r) \/ SendCancel(r)
    PROVE  UInv' /\ TaskStep(<<>>, 0, live, routes, toB)
<1>1. ClientTypes /\ PhaseTypes /\ TaskTypes /\ Types /\ InOrder /\ fromB \in Seq(UpFrame)
    <2>1. Types /\ InOrder /\ fromB \in Seq(UpFrame)
        BY Zenon DEF UInv, Base, Types
    <2> QED BY <2>1, ClientTyped, TaskTyped, Zenon
<1>2. asked \in [Requests -> Nat \cup {-1}] /\ BodyOf[r] \in Nat /\ gaveUp \subseteq Requests
    <2>1. BodyOf \in [Requests -> Nat]
        BY UpstreamAssumption, Zenon
    <2> QED BY <2>1, <1>1 DEF ClientTypes
<1>3. /\ asked' \in [Requests -> Nat \cup {-1}] /\ gaveUp' \subseteq Requests
      /\ inbox' \in Seq(Message) /\ InOrder'
      /\ \A s \in Requests : Fresh(s)' <=> Fresh(s)
    <2>1. CASE SendRequest(r)
        <3> DEFINE m == Frame("Request", r, BodyOf[r] = 0)
        <3>1. (BodyOf[r] = 0) \in BOOLEAN
            OBVIOUS
        <3>2. m \in Message /\ m.k = "Request" /\ m.r = r
            BY <3>1 DEF Message, Frame
        <3>3. /\ inbox' = Append(inbox, m) /\ gaveUp' = gaveUp
              /\ asked[r] = -1 /\ asked' = [asked EXCEPT ![r] = 0]
            BY <2>1 DEF SendRequest
        <3>4. /\ asked' \in [Requests -> Nat \cup {-1}] /\ asked'[r] # -1
              /\ \A s \in Requests : s # r => asked'[s] = asked[s]
            BY <3>3, <1>2
        <3> HIDE DEF m
        <3>5. /\ \A s \in Requests : s # m.r => asked'[s] = asked[s]
              /\ IF m.k = "Request" THEN asked[m.r] = -1 ELSE asked[m.r] # -1
              /\ asked'[m.r] # -1
            BY <3>2, <3>3, <3>4
        <3>6. inbox' \in Seq(Message) /\ InOrder' /\ \A s \in Requests : Fresh(s)' <=> Fresh(s)
            BY <1>1, <3>2, <3>3, <3>4, <3>5, MessageSent, Zenon
        <3> QED BY <3>3, <3>4, <3>6, <1>2, Zenon
    <2>2. CASE SendBody(r)
        <3> DEFINE m == Frame("Body", r, asked[r] + 1 = BodyOf[r])
        <3>1. (asked[r] + 1 = BodyOf[r]) \in BOOLEAN
            OBVIOUS
        <3>2. m \in Message /\ m.k # "Request" /\ m.r = r
            BY <3>1, MessageType
        <3>3. /\ inbox' = Append(inbox, m) /\ gaveUp' = gaveUp
              /\ asked[r] \in 0..(BodyOf[r] - 1) /\ asked' = [asked EXCEPT ![r] = asked[r] + 1]
            BY <2>2 DEF SendBody
        <3>4. /\ asked' \in [Requests -> Nat \cup {-1}] /\ asked'[r] # -1 /\ asked[r] # -1
              /\ \A s \in Requests : s # r => asked'[s] = asked[s]
            BY <3>3, <1>2
        <3> HIDE DEF m
        <3>5. /\ \A s \in Requests : s # m.r => asked'[s] = asked[s]
              /\ IF m.k = "Request" THEN asked[m.r] = -1 ELSE asked[m.r] # -1
              /\ asked'[m.r] # -1
            BY <3>2, <3>3, <3>4
        <3>6. inbox' \in Seq(Message) /\ InOrder' /\ \A s \in Requests : Fresh(s)' <=> Fresh(s)
            BY <1>1, <3>2, <3>3, <3>4, <3>5, MessageSent, Zenon
        <3> QED BY <3>3, <3>4, <3>6, <1>2, Zenon
    <2>3. CASE SendCancel(r)
        <3> DEFINE m == Frame("Cancel", r, FALSE)
        <3>1. FALSE \in BOOLEAN
            OBVIOUS
        <3>2. m \in Message /\ m.k # "Request" /\ m.r = r
            BY <3>1, MessageType
        <3>3. /\ inbox' = Append(inbox, m) /\ gaveUp' = gaveUp \cup {r}
              /\ asked[r] >= 0 /\ asked' = asked
            BY <2>3 DEF SendCancel
        <3>4. asked[r] # -1 /\ gaveUp' \subseteq Requests
            BY <3>3, <1>2
        <3> HIDE DEF m
        <3>5. /\ \A s \in Requests : s # m.r => asked'[s] = asked[s]
              /\ IF m.k = "Request" THEN asked[m.r] = -1 ELSE asked[m.r] # -1
              /\ asked'[m.r] # -1
            BY <3>2, <3>3, <3>4
        <3>6. inbox' \in Seq(Message) /\ InOrder' /\ \A s \in Requests : Fresh(s)' <=> Fresh(s)
            BY <1>1, <1>2, <3>2, <3>3, <3>5, MessageSent, Zenon
        <3> QED BY <3>3, <3>4, <3>6, <1>2, Zenon
    <2> QED BY <2>1, <2>2, <2>3
<1>4. UNCHANGED <<stage, taskVars, toB, fromB, backendVars>>
    BY Zenon DEF SendRequest, SendBody, SendCancel
<1>5. UNCHANGED <<nextId, id, live, routes, pending, buf, cancelled, up, limit, draining>>
    BY <1>4, Zenon DEF taskVars
<1>6. TaskStep(<<>>, 0, live, routes, toB)
    BY <1>3, <1>4, <1>5, Elsewhere, Zenon
<1>7. TaskTypes' /\ PhaseTypes' /\ ClientTypes'
    BY <1>1, <1>3, <1>4, <1>5, Zenon DEF TaskTypes, PhaseTypes, ClientTypes
<1> QED BY <1>1, <1>3, <1>4, <1>6, <1>7, Stepped, Zenon

LEMMA MessageSteps ==
    ASSUME UInv, TakeMessage
    PROVE  UInv' /\ \E open \in SUBSET live, kept \in SUBSET routes : StepOf(open, kept)
<1> DEFINE m == Head(inbox)
<1>1. /\ inbox # <<>> /\ inbox' = Tail(inbox)
      /\ UNCHANGED <<clientVars, up, limit, draining, fromB, backendVars>>
    BY Zenon DEF TakeMessage
<1>2. inbox' \in Seq(Message) /\ InOrder' /\ m \in Message
    <2>1. Types /\ InOrder /\ asked' = asked
        BY <1>1, Zenon DEF UInv, Base, clientVars
    <2> QED BY <2>1, <1>1, MessageTaken, Zenon
<1>3. \/ m.k = "Request" /\ TakeRequest(m.r)
      \/ TakeBody(m.r, m.end)
      \/ TakeCancel(m.r)
    <2>1. m.k \in {"Request", "Body", "Cancel"}
        BY <1>2 DEF Message
    <2> QED BY <2>1 DEF TakeMessage
<1> HIDE DEF m
<1>4. TaskTypes' /\ \E open \in SUBSET live, kept \in SUBSET routes : StepOf(open, kept)
    <2>1. m = Head(inbox) /\ live \in SUBSET live /\ routes \in SUBSET routes
        BY DEF m
    <2>2. CASE m.k = "Request" /\ TakeRequest(m.r)
        BY <2>1, <2>2, <1>1, TookRequest, Zenon
    <2>3. CASE TakeBody(m.r, m.end)
        BY <2>1, <2>3, <1>1, TookBody, Zenon
    <2>4. CASE TakeCancel(m.r)
        <3> DEFINE open == IF m.r \in routes THEN live \ {m.r} ELSE live
                   kept == routes \ {m.r}
        <3>1. open \in SUBSET live /\ kept \in SUBSET routes
            OBVIOUS
        <3>2. StepOf(open, kept) /\ TaskTypes'
            BY <2>1, <2>4, <1>1, TookCancel, Zenon
        <3> HIDE DEF open, kept
        <3> QED BY <3>1, <3>2, Zenon
    <2> QED BY <2>2, <2>3, <2>4, <1>3, Zenon
<1>5. ClientTypes' /\ PhaseTypes' /\ fromB' \in Seq(UpFrame)
    <2>1. fromB \in Seq(UpFrame)
        BY Zenon DEF UInv, Base, Types
    <2> QED BY <2>1, <1>1, <1>2, ClientTyped, Zenon DEF ClientTypes, PhaseTypes, clientVars
<1>6. UInv'
    BY <1>2, <1>4, <1>5, SteppedSome, Zenon
<1> QED BY <1>4, <1>6

LEMMA FrameSteps ==
    ASSUME UInv, TakeFrame
    PROVE  UInv' /\ \E open \in SUBSET live, kept \in SUBSET routes : StepOf(open, kept)
<1> DEFINE f == Head(fromB)
<1>1. /\ fromB # <<>> /\ fromB' = Tail(fromB)
      /\ UNCHANGED <<clientVars, inbox, up, cancelled, backendVars>>
    BY Zenon DEF TakeFrame
<1>2. fromB' \in Seq(UpFrame) /\ f \in UpFrame /\ OldNews(fromB') /\ Said(f)
    BY <1>1, FrameTaken, Zenon
<1>3. \/ f.k = "GOAWAY" /\ BeginDrain(f.last) /\ limit' = limit
      \/ /\ f.k = "SETTINGS" /\ limit' = f.max /\ NoForget /\ UNCHANGED <<stage, draining>>
      \/ /\ UNCHANGED <<limit, draining>>
         /\ \/ f.k = "HEADERS" /\ RecvHeaders(f.r, f.end)
            \/ f.k = "DATA" /\ RecvData(f.r, f.end)
            \/ f.k = "RST" /\ RecvRst(f.r, f.refused)
            \/ f.k = "BADTRAILERS" /\ RecvBadTrailers(f.r)
            \/ f.k = "ZEROUPDATE" /\ RecvZeroUpdate(f.r)
    <2>1. f.k \in {"HEADERS", "DATA", "ZEROUPDATE", "BADTRAILERS", "RST", "GOAWAY", "SETTINGS"}
        BY <1>2, UpFields, Zenon
    <2> QED BY <2>1 DEF TakeFrame
<1>4. /\ f.k = "GOAWAY" => f.last \in 0..Never
      /\ f.k = "SETTINGS" => f.max \in Nat
    BY <1>2, UpFields, Zenon
<1> HIDE DEF f
<1>5. f = Head(fromB)
    BY DEF f
<1>6. TaskTypes' /\ \E open \in SUBSET live, kept \in SUBSET routes : StepOf(open, kept)
    <2>1. CASE f.k = "GOAWAY" /\ BeginDrain(f.last)
        <3>1. /\ \E above \in SUBSET routes : StepOf(live \ above, routes \ above)
              /\ TaskTypes'
            BY <2>1, <1>1, <1>5, TookGoAway, Zenon
        <3>2. \A above : live \ above \in SUBSET live /\ routes \ above \in SUBSET routes
            OBVIOUS
        <3> QED BY <3>1, <3>2, Zenon
    <2>2. CASE f.k = "SETTINGS" /\ NoForget /\ UNCHANGED stage
        <3>1. UNCHANGED <<stage, nextId, id, live, routes, pending, toB, buf, cancelled, backendVars>>
            BY <2>2, <1>1, Zenon DEF NoForget
        <3>2. Fresher /\ Spared /\ \A s \in ToSet(pending) : Waits(s)
            <4>1. \A s \in Requests : Fresh(s)' => Fresh(s)
                BY <1>1, StillFresh, Zenon DEF clientVars
            <4> QED BY <4>1, <3>1, Unheard, Zenon
        <3>3. live' \in SUBSET live /\ routes' \in SUBSET routes
            BY <3>1
        <3>4. TaskStep(<<>>, 0, live', routes', toB')
            BY <3>1, <3>2, <3>3, <1>2, BehindSame, Unfilled, Waiting, Zenon
        <3> QED BY <3>1, <3>3, <3>4, BehindSame, TaskTyped, Zenon DEF StepOf, TaskTypes
    <2>3. ASSUME f.k \in {"HEADERS", "DATA", "RST", "BADTRAILERS"},
                 TaskTypes' /\ (StepOf(live, routes) \/ StepOf(live \ {f.r}, routes \ {f.r}))
          PROVE  TaskTypes' /\ \E open \in SUBSET live, kept \in SUBSET routes : StepOf(open, kept)
        <3>1. /\ live \in SUBSET live /\ routes \in SUBSET routes
              /\ live \ {f.r} \in SUBSET live /\ routes \ {f.r} \in SUBSET routes
            OBVIOUS
        <3> QED BY <2>3, <3>1, Zenon
    <2>4. CASE f.k = "HEADERS" /\ RecvHeaders(f.r, f.end)
        <3>1. TaskTypes' /\ (StepOf(live, routes) \/ StepOf(live \ {f.r}, routes \ {f.r}))
            BY <2>4, <1>1, <1>5, TookHeaders, Zenon
        <3> QED BY <2>3, <2>4, <3>1, Zenon
    <2>5. CASE \/ f.k = "DATA" /\ RecvData(f.r, f.end)
               \/ f.k = "BADTRAILERS" /\ RecvBadTrailers(f.r)
               \/ f.k = "RST" /\ RecvRst(f.r, f.refused)
        <3>1. TaskTypes' /\ (StepOf(live, routes) \/ StepOf(live \ {f.r}, routes \ {f.r}))
            BY <2>5, <1>1, <1>5, TookAnswer, Zenon
        <3> QED BY <2>3, <2>5, <3>1, Zenon
    <2>6. CASE f.k = "ZEROUPDATE" /\ RecvZeroUpdate(f.r)
        <3>1. StepOf(live \ {f.r}, routes) /\ TaskTypes'
            BY <2>6, <1>1, <1>5, TookZeroUpdate, Zenon
        <3>2. live \ {f.r} \in SUBSET live /\ routes \in SUBSET routes
            OBVIOUS
        <3> QED BY <3>1, <3>2, Zenon
    <2> QED BY <1>3, <2>1, <2>2, <2>4, <2>5, <2>6, Zenon
<1>7. ClientTypes' /\ PhaseTypes' /\ InOrder'
    <2>1. ClientTypes'
        BY <1>1, ClientTyped, Zenon DEF ClientTypes, clientVars
    <2>2. InOrder'
        BY <1>1, Zenon DEF UInv, Base, InOrder, clientVars
    <2>3. limit' \in Nat /\ draining' \in 0..NotDraining
        <3>1. limit \in Nat /\ draining \in 0..NotDraining
            BY ClientTyped, Zenon DEF PhaseTypes
        <3>2. f.k = "GOAWAY" => f.last \in 0..NotDraining
            <4>1. Never \in Nat
                <5>1. Cardinality(Requests) \in Nat
                    BY UpstreamAssumption, FS_CardinalityType, Zenon
                <5> QED BY <5>1 DEF Never
            <4> QED BY <4>1, <1>4 DEF NotDraining
        <3>3. f.k = "GOAWAY" /\ BeginDrain(f.last) => draining' = f.last
            BY DEF BeginDrain, Abandon
        <3> QED BY <3>1, <3>2, <3>3, <1>3, <1>4, Zenon
    <2>4. PhaseTypes'
        BY <1>1, <2>3, ClientTyped, Zenon DEF PhaseTypes
    <2> QED BY <2>1, <2>2, <2>4
<1>8. UInv'
    BY <1>2, <1>6, <1>7, SteppedSome, Zenon
<1> QED BY <1>6, <1>8

LEMMA PhaseSteps ==
    ASSUME UInv, \/ DrainDone \/ DrainDeadline \/ ConnectionFails \/ FailAllRoutes \/ CloseInbox
                 \/ \E r \in Requests : PumpBody(r)
    PROVE  UInv'
<1>1. ClientTypes /\ PhaseTypes /\ TaskTypes /\ InOrder /\ fromB \in Seq(UpFrame)
    BY ClientTyped, TaskTyped, Zenon DEF UInv, Base, Types
<1>2. /\ UNCHANGED <<clientVars, fromB, limit, draining>>
      /\ inbox' = inbox \/ CloseInbox
      /\ up' = up \/ up' \in {"stopping", "failed", "closed"}
    BY DEF DrainDone, DrainDeadline, ConnectionFails, FailAllRoutes, CloseInbox, PumpBody
<1>3. ClientTypes' /\ PhaseTypes' /\ InOrder' /\ fromB' \in Seq(UpFrame)
    <2>1. inbox' \in Seq(Message) /\ InOrder'
        <3>1. CASE CloseInbox
            <4>1. inbox' = <<>>
                BY <3>1 DEF CloseInbox
            <4> QED BY <4>1 DEF InOrder
        <3>2. CASE inbox' = inbox
            BY <3>2, <1>1, <1>2, Zenon DEF ClientTypes, InOrder, clientVars
        <3> QED BY <3>1, <3>2, <1>2
    <2>2. up' \in {"open", "stopping", "failed", "closed"}
        BY <1>1, <1>2 DEF PhaseTypes
    <2> QED BY <1>1, <1>2, <2>1, <2>2, Zenon DEF ClientTypes, PhaseTypes, clientVars
<1>4. CASE DrainDone \/ DrainDeadline \/ ConnectionFails
    <2>1. UNCHANGED <<stage, nextId, id, live, routes, pending, buf, cancelled, toB, fromB,
                      backendVars, asked, inbox>>
        BY <1>4, Zenon DEF DrainDone, DrainDeadline, ConnectionFails, clientVars
    <2>2. TaskStep(<<>>, 0, live, routes, toB)
        BY <2>1, StillFresh, Elsewhere, Zenon
    <2>3. TaskTypes'
        BY <2>1, <1>1, Zenon DEF TaskTypes
    <2> QED BY <2>2, <2>3, <1>3, Stepped, Zenon
<1>5. CASE FailAllRoutes
    BY <1>3, <1>5, Failed, Stepped, Zenon
<1>6. CASE CloseInbox
    BY <1>3, <1>6, Closed, Stepped, Zenon
<1>7. ASSUME NEW r \in Requests, PumpBody(r) PROVE UInv'
    BY <1>3, <1>7, Pumped, Stepped, Zenon
<1> QED BY <1>4, <1>5, <1>6, <1>7

LEMMA BackendSteps ==
    ASSUME UInv,
           \/ BackendTake \/ BackendGoAway \/ BackendSettings
           \/ \E r \in Requests :
                  \/ BackendHead(r) \/ BackendData(r) \/ BackendEnd(r) \/ BackendReset(r)
                  \/ BackendZeroUpdate(r) \/ BackendBadTrailers(r)
    PROVE  UInv'
<1>1. UNCHANGED <<clientVars, inbox, stage, taskVars>>
    BY Zenon DEF BackendTake, BackendGoAway, BackendSettings, BackendHead, BackendData, BackendEnd,
                 BackendReset, BackendZeroUpdate, BackendBadTrailers, Respond, Say
<1>2. /\ InOrder' /\ Places' /\ Numbers' /\ Backend' /\ Refusals' /\ fromB' \in Seq(UpFrame)
      /\ Down(toB)' /\ toB' \in Seq(DownFrame) /\ BackendTypes'
    BY Received, SaidFreely, Answered, Zenon
<1>3. ClientTypes' /\ PhaseTypes' /\ TaskTypes'
    BY <1>1, ClientTyped, TaskTyped, Zenon
       DEF ClientTypes, PhaseTypes, TaskTypes, clientVars, taskVars
<1>4. nextId' \in Nat /\ id' \in [Requests -> Nat] /\ live' \subseteq Requests /\ routes' \subseteq Requests
    <2>1. nextId \in Nat /\ id \in [Requests -> Nat] /\ live \subseteq Requests /\ routes \subseteq Requests
        BY Zenon DEF UInv, Base, Types, TypeOK
    <2> QED BY <1>1, <2>1, Zenon DEF taskVars
<1>5. Types'
    BY <1>2, <1>3, <1>4, AllTypesNext, Zenon
<1> QED BY <1>2, <1>5, Zenon DEF UInv, Base

LEMMA UInvInit == Init => UInv
<1> SUFFICES ASSUME Init PROVE UInv
    OBVIOUS
<1>1. /\ asked = [r \in Requests |-> -1] /\ gaveUp = {} /\ inbox = <<>>
      /\ stage = [r \in Requests |-> "none"] /\ up = "open" /\ limit = FirstLimit /\ nextId = 1
      /\ id = [r \in Requests |-> 0] /\ live = {} /\ routes = {}
      /\ buf = [r \in Requests |-> NoBody] /\ pending = <<>> /\ cancelled = {}
      /\ draining = NotDraining /\ toB = <<>> /\ fromB = <<>>
      /\ bState = [r \in Requests |-> "idle"] /\ bGot = [r \in Requests |-> NoBody]
      /\ bLast = NotDraining
    BY Zenon DEF Init
<1>2. MaxPending \in Nat /\ FirstLimit \in Nat /\ NotDraining \in Nat
    <2>1. Cardinality(Requests) \in Nat
        BY UpstreamAssumption, FS_CardinalityType, Zenon
    <2>2. NotDraining \in Nat
        BY <2>1 DEF NotDraining, Never
    <2> QED BY <2>2, UpstreamAssumption, Zenon
<1>3. Types
    <2>1. /\ asked \in [Requests -> Int] /\ \A r \in Requests : asked[r] \in Nat \cup {-1}
        BY <1>1
    <2>2. stage \in [Requests -> Stage] /\ bState \in [Requests -> BackendState]
        BY <1>1 DEF Stage, BackendState
    <2>3. /\ buf \in [Requests -> [n : Nat, end : BOOLEAN]]
          /\ bGot \in [Requests -> [n : Nat, end : BOOLEAN]]
          /\ id \in [Requests -> Nat]
        BY <1>1 DEF NoBody
    <2>4. inbox \in Seq(Message) /\ toB \in Seq(DownFrame) /\ fromB \in Seq(UpFrame)
          /\ pending \in Seq(Requests) /\ Len(pending) <= MaxPending
        BY <1>1, <1>2
    <2>5. gaveUp \subseteq Requests /\ live \subseteq Requests /\ routes \subseteq Requests
          /\ cancelled \subseteq Requests /\ up \in {"open", "stopping", "failed", "closed"}
        BY <1>1
    <2>6. limit \in Nat /\ nextId \in Nat /\ draining \in 0..NotDraining /\ bLast \in 0..NotDraining
        BY <1>1, <1>2
    <2> QED BY <2>1, <2>2, <2>3, <2>4, <2>5, <2>6, Zenon DEF Types, TypeOK, Message
<1>4. InOrder /\ Distinct(pending) /\ ToSet(pending) = {} /\ Down(toB) /\ Known = {}
    BY <1>1 DEF InOrder, Distinct, ToSet, Down, Known
<1>5. Places
    BY <1>1, <1>4 DEF Places
<1>6. Numbers
    BY <1>1 DEF Numbers
<1>7. Backend /\ Refusals
    BY <1>1 DEF Backend, Refusals
<1> QED BY <1>3, <1>4, <1>5, <1>6, <1>7, Zenon DEF UInv, Base

LEMMA UInvKept == UInv /\ [Next]_vars => UInv'
<1> SUFFICES ASSUME UInv, [Next]_vars PROVE UInv'
    OBVIOUS
<1>1. CASE \E r \in Requests : SendRequest(r) \/ SendBody(r) \/ SendCancel(r)
    BY <1>1, ClientSteps, Zenon
<1>2. CASE TakeMessage
    BY <1>2, MessageSteps, Zenon
<1>3. CASE TakeFrame
    BY <1>3, FrameSteps, Zenon
<1>4. CASE \/ DrainDone \/ DrainDeadline \/ ConnectionFails \/ FailAllRoutes \/ CloseInbox
           \/ \E r \in Requests : PumpBody(r)
    BY <1>4, PhaseSteps, Zenon
<1>5. CASE \/ BackendTake \/ BackendGoAway \/ BackendSettings
           \/ \E r \in Requests :
                  \/ BackendHead(r) \/ BackendData(r) \/ BackendEnd(r) \/ BackendReset(r)
                  \/ BackendZeroUpdate(r) \/ BackendBadTrailers(r)
    BY <1>5, BackendSteps, Zenon
<1>6. CASE UNCHANGED vars
    <2>1. UNCHANGED <<clientVars, inbox, stage, taskVars, toB, fromB, backendVars>>
        BY <1>6, Zenon DEF vars
    <2>2. UNCHANGED <<stage, nextId, id, live, routes, pending, buf, cancelled, up, limit, draining,
                      asked, inbox>>
        BY <2>1, Zenon DEF clientVars, taskVars
    <2>3. TaskStep(<<>>, 0, live, routes, toB)
        BY <2>1, <2>2, StillFresh, Elsewhere, Zenon
    <2>4. TaskTypes' /\ ClientTypes' /\ PhaseTypes' /\ InOrder' /\ fromB' \in Seq(UpFrame)
        <3>1. InOrder /\ fromB \in Seq(UpFrame)
            BY Zenon DEF UInv, Base, Types
        <3> QED BY <2>1, <2>2, <3>1, TaskTyped, ClientTyped, Zenon
               DEF TaskTypes, ClientTypes, PhaseTypes, InOrder, clientVars
    <2> QED BY <2>3, <2>4, Stepped, Zenon
<1> QED BY <1>1, <1>2, <1>3, <1>4, <1>5, <1>6, Zenon DEF Next

\* The inductive invariant holds in every reachable state.
THEOREM UInvHolds == Spec => []UInv
<1>1. Init => UInv
    BY UInvInit
<1>2. UInv /\ [Next]_vars => UInv'
    BY UInvKept
<1> QED BY <1>1, <1>2, PTL DEF Spec

\* Who is told REFUSED_STREAM may be sent elsewhere: the backend did not run it and
\* will not, whatever it said before and whatever is on its way.
THEOREM RefusedRunNowhere == Spec => []RefusedNeverRan
<1>1. UInv => RefusedNeverRan
    <2> SUFFICES ASSUME UInv PROVE RefusedNeverRan
        OBVIOUS
    <2>1. TypeOK
        BY Zenon DEF UInv, Base, Types
    <2>2. \A r \in Requests : stage[r] = "refused" => bState[r] \in {"idle", "refused"}
        BY DEF UInv, Refusals, Unrun
    <2> QED BY <2>1, <2>2, Zenon DEF RefusedNeverRan
<1> QED BY <1>1, UInvHolds, PTL

-----------------------------------------------------------------------------
(* A request body is whole. *)

\* The octets of r's body that m carries, and whether m ends it.
Weight(m, r) == CASE m.k = "Body" /\ m.r = r -> 1
                  [] m.k = "DATA" /\ m.r = r -> m.n
                  [] OTHER                   -> 0
Ends(m, r) == m.k \in {"Body", "DATA", "HEADERS"} /\ m.r = r /\ m.end

\* Along q, r's body grows from a to b, and ends where it is whole.
Carries(q, r, a, b) ==
    \E f \in [0..Len(q) -> Nat] :
        /\ f[0] = a /\ f[Len(q)] = b
        /\ \A i \in 1..Len(q) :
               /\ f[i] = f[i - 1] + Weight(q[i], r)
               /\ Ends(q[i], r) => f[i] = BodyOf[r]

\* The connection has the request still, or will: its stream is open, or it waits
\* for one, or it was not taken from the inbox.
Held(r) == up # "closed" /\ (r \in live \/ r \in ToSet(pending) \/ Fresh(r))
Sent(r) == IF asked[r] = -1 THEN 0 ELSE asked[r]

\* Behind the t octets that went to the wire come those in the buffer and those in
\* the inbox: that is all that was sent.
Rest(r, t) ==
    /\ buf[r].end => t + buf[r].n = BodyOf[r]
    /\ Carries(inbox, r, t + buf[r].n, Sent(r))
Whole(r) ==
    /\ bGot[r].end => bGot[r].n = BodyOf[r]
    /\ \E t \in Nat :
        /\ Carries(toB, r, bGot[r].n, t)
        /\ r \notin Known => t = 0
        /\ Held(r) => Rest(r, t)

LEMMA WeightType ==
    ASSUME NEW m, m.k = "DATA" => m.n \in Nat, NEW r
    PROVE  Weight(m, r) \in Nat
BY DEF Weight

\* One more message, and one less.
LEMMA CarriesMore ==
    ASSUME NEW q, NEW p, NEW m, Longer(q, p, m), Len(p) = Len(q) + 1,
           NEW r, NEW a \in Nat, NEW b \in Nat, Carries(q, r, a, b),
           NEW w \in Nat, w = Weight(m, r), Ends(m, r) => b + w = BodyOf[r]
    PROVE  Carries(p, r, a, b + w)
<1> DEFINE n == Len(q)
<1>1. PICK f \in [0..n -> Nat] :
          /\ f[0] = a /\ f[n] = b
          /\ \A i \in 1..n : /\ f[i] = f[i - 1] + Weight(q[i], r)
                             /\ Ends(q[i], r) => f[i] = BodyOf[r]
    BY Zenon DEF Carries
<1>2. /\ n \in Nat /\ Len(p) = n + 1 /\ p[n + 1] = m /\ \A i \in 1..n : p[i] = q[i]
    BY DEF Longer
<1> DEFINE g == [i \in 0..(n + 1) |-> IF i <= n THEN f[i] ELSE b + w]
<1> HIDE DEF n
<1>3. /\ g \in [0..(n + 1) -> Nat] /\ g[n + 1] = b + w
      /\ \A i \in 0..n : g[i] = f[i]
    <2>1. \A i \in 0..(n + 1) : i <= n => i \in 0..n
        BY <1>2
    <2>2. \A i \in 0..(n + 1) : (IF i <= n THEN f[i] ELSE b + w) \in Nat
        BY <1>1, <2>1
    <2>3. \A i \in 0..n : i \in 0..(n + 1) /\ i <= n
        BY <1>2
    <2>4. n + 1 \in 0..(n + 1) /\ ~(n + 1 <= n)
        BY <1>2
    <2> QED BY <2>2, <2>3, <2>4
<1> HIDE DEF g
<1>4. ASSUME NEW i \in 1..(n + 1)
      PROVE  /\ g[i] = g[i - 1] + Weight(p[i], r)
             /\ Ends(p[i], r) => g[i] = BodyOf[r]
    <2>1. CASE i = n + 1
        <3>0. n \in 0..n /\ i - 1 = n
            BY <1>2, <2>1
        <3>1. g[i - 1] = b /\ n \in 0..n /\ i - 1 = n
            <4>1. g[n] = f[n] /\ f[n] = b
                BY <1>1, <1>3, <3>0, Zenon
            <4> QED BY <3>0, <4>1
        <3> QED BY <1>2, <1>3, <2>1, <3>1
    <2>2. CASE i # n + 1
        <3>1. i \in 1..n /\ i \in 0..n /\ i - 1 \in 0..n
            BY <1>2, <2>2
        <3> QED BY <1>1, <1>2, <1>3, <3>1
    <2> QED BY <2>1, <2>2
<1>5. g[0] = a
    BY <1>1, <1>2, <1>3
<1>6. \E h \in [0..(n + 1) -> Nat] :
          /\ h[0] = a /\ h[n + 1] = b + w
          /\ \A i \in 1..(n + 1) : /\ h[i] = h[i - 1] + Weight(p[i], r)
                                   /\ Ends(p[i], r) => h[i] = BodyOf[r]
    BY <1>3, <1>4, <1>5, Zenon
<1>7. Len(p) = n + 1
    BY <1>2
<1> QED BY <1>6, <1>7, Zenon DEF Carries

LEMMA CarriesLess ==
    ASSUME NEW q, NEW p, Shorter(q, p), Len(p) = Len(q) - 1, NEW m, m = Head(q),
           NEW r, NEW a \in Nat, NEW b \in Nat, Carries(q, r, a, b),
           NEW w \in Nat, w = Weight(m, r)
    PROVE  Carries(p, r, a + w, b) /\ (Ends(m, r) => a + w = BodyOf[r])
<1> DEFINE n == Len(q)
<1>1. PICK f \in [0..n -> Nat] :
          /\ f[0] = a /\ f[n] = b
          /\ \A i \in 1..n : /\ f[i] = f[i - 1] + Weight(q[i], r)
                             /\ Ends(q[i], r) => f[i] = BodyOf[r]
    BY Zenon DEF Carries
<1>2. /\ n \in Nat \ {0} /\ Len(p) = n - 1 /\ q[1] = m /\ \A i \in 1..(n - 1) : p[i] = q[i + 1]
    BY DEF Shorter
<1> DEFINE g == [i \in 0..(n - 1) |-> f[i + 1]]
<1> HIDE DEF n
<1>3. /\ g \in [0..(n - 1) -> Nat] /\ \A i \in 0..(n - 1) : g[i] = f[i + 1]
    <2>1. \A i \in 0..(n - 1) : i + 1 \in 0..n
        BY <1>2
    <2> QED BY <1>1, <2>1
<1> HIDE DEF g
<1>4. f[1] = a + w /\ (Ends(m, r) => a + w = BodyOf[r])
    <2>1. 1 \in 1..n /\ 1 - 1 = 0
        BY <1>2
    <2> QED BY <1>1, <1>2, <2>1
<1>5. ASSUME NEW i \in 1..(n - 1)
      PROVE  /\ g[i] = g[i - 1] + Weight(p[i], r)
             /\ Ends(p[i], r) => g[i] = BodyOf[r]
    <2>0. n \in Nat /\ i \in Int /\ 1 <= i /\ i <= n - 1
        BY <1>2
    <2>a. i + 1 \in 1..n /\ (i + 1) - 1 = i
        BY <2>0
    <2>b. i \in 0..(n - 1) /\ i - 1 \in 0..(n - 1) /\ (i - 1) + 1 = i
        BY <2>0
    <2>1. /\ i + 1 \in 1..n /\ (i + 1) - 1 = i /\ i \in 0..(n - 1) /\ i - 1 \in 0..(n - 1)
          /\ (i - 1) + 1 = i
        BY <2>a, <2>b
    <2>2. g[i] = f[i + 1] /\ g[i - 1] = f[i] /\ p[i] = q[i + 1]
        BY <1>2, <1>3, <2>1
    <2>3. /\ f[i + 1] = f[i] + Weight(q[i + 1], r)
          /\ Ends(q[i + 1], r) => f[i + 1] = BodyOf[r]
        BY <1>1, <2>1
    <2> QED BY <2>2, <2>3, Zenon
<1>6. g[0] = a + w /\ g[n - 1] = b
    <2>1. 0 \in 0..(n - 1) /\ n - 1 \in 0..(n - 1) /\ (n - 1) + 1 = n /\ 0 + 1 = 1
        BY <1>2
    <2> QED BY <1>1, <1>3, <1>4, <2>1
<1>7. Carries(p, r, a + w, b)
    <2>1. \E h \in [0..(n - 1) -> Nat] :
              /\ h[0] = a + w /\ h[n - 1] = b
              /\ \A i \in 1..(n - 1) : /\ h[i] = h[i - 1] + Weight(p[i], r)
                                       /\ Ends(p[i], r) => h[i] = BodyOf[r]
        BY <1>3, <1>5, <1>6, Zenon
    <2>2. Len(p) = n - 1
        BY <1>2
    <2> QED BY <2>1, <2>2, Zenon DEF Carries
<1> QED BY <1>4, <1>7

\* What carries nothing of r's.
LEMMA CarriesAlso ==
    ASSUME NEW q, NEW p, NEW k \in Nat, NEW n \in Nat, k = Len(q), n = Len(p), k <= n,
           \A i \in 1..k : p[i] = q[i],
           NEW r, NEW a \in Nat, NEW b \in Nat, Carries(q, r, a, b),
           \A i \in 1..n : i > k => Weight(p[i], r) = 0 /\ (Ends(p[i], r) => b = BodyOf[r])
    PROVE  Carries(p, r, a, b)
<1>1. PICK f \in [0..k -> Nat] :
          /\ f[0] = a /\ f[k] = b
          /\ \A i \in 1..k : /\ f[i] = f[i - 1] + Weight(q[i], r)
                             /\ Ends(q[i], r) => f[i] = BodyOf[r]
    BY Zenon DEF Carries
<1> DEFINE g == [i \in 0..n |-> IF i <= k THEN f[i] ELSE b]
<1>2. /\ g \in [0..n -> Nat]
      /\ \A i \in 0..n : g[i] = IF i <= k THEN f[i] ELSE b
    <2>1. \A i \in 0..n : i <= k => i \in 0..k
        OBVIOUS
    <2> QED BY <1>1, <2>1
<1> HIDE DEF g
<1>3. ASSUME NEW i \in 1..n
      PROVE  /\ g[i] = g[i - 1] + Weight(p[i], r)
             /\ Ends(p[i], r) => g[i] = BodyOf[r]
    <2>1. i \in 0..n /\ i - 1 \in 0..n
        OBVIOUS
    <2>2. CASE i <= k
        <3>1. i \in 1..k /\ i - 1 <= k
            BY <2>2
        <3> QED BY <1>1, <1>2, <2>1, <2>2, <3>1
    <2>3. CASE i > k
        <3>1. g[i] = b /\ ~(i <= k)
            BY <1>2, <2>1, <2>3
        <3>2. g[i - 1] = b
            <4>1. CASE i - 1 <= k
                <5>1. i - 1 = k
                    BY <2>3, <4>1
                <5> QED BY <1>1, <1>2, <2>1, <5>1
            <4>2. CASE ~(i - 1 <= k)
                BY <1>2, <2>1, <4>2
            <4> QED BY <4>1, <4>2
        <3>3. Weight(p[i], r) = 0 /\ (Ends(p[i], r) => b = BodyOf[r])
            BY <2>3
        <3> QED BY <3>1, <3>2, <3>3
    <2> QED BY <2>2, <2>3
<1>4. g[0] = a /\ g[n] = b
    <2>1. 0 \in 0..n /\ n \in 0..n /\ 0 <= k
        OBVIOUS
    <2>2. g[n] = b
        <3>1. CASE n <= k
            <4>1. n = k
                BY <3>1
            <4> QED BY <1>1, <1>2, <2>1, <4>1
        <3>2. CASE ~(n <= k)
            BY <1>2, <2>1, <3>2
        <3> QED BY <3>1, <3>2
    <2> QED BY <1>1, <1>2, <2>1, <2>2
<1> QED BY <1>2, <1>3, <1>4, Zenon DEF Carries

LEMMA CarriesNone == ASSUME NEW q, Len(q) = 0, NEW r, NEW a \in Nat PROVE Carries(q, r, a, a)
<1> DEFINE f == [i \in 0..Len(q) |-> a]
<1>1. f \in [0..Len(q) -> Nat] /\ f[0] = a /\ f[Len(q)] = a
    OBVIOUS
<1>2. 1..Len(q) = {}
    OBVIOUS
<1> HIDE DEF f
<1> QED BY <1>1, <1>2, Zenon DEF Carries

\* The weight of what is in the inbox and on the wire.
LEMMA Weights ==
    ASSUME NEW r
    PROVE  /\ \A m \in Message : Weight(m, r) = IF m.k = "Body" /\ m.r = r THEN 1 ELSE 0
           /\ \A m \in Message : Ends(m, r) <=> (m.k = "Body" /\ m.r = r /\ m.end)
           /\ \A m \in DownFrame : m.k # "DATA" \/ m.r # r => Weight(m, r) = 0
           /\ \A m \in DownFrame : m.k = "RST" \/ m.r # r => ~Ends(m, r)
BY DEF Weight, Ends, Message, DownFrame

LEMMA HeadersWeight ==
    ASSUME NEW s \in Requests, NEW r
    PROVE  Weight(Headers(s), r) = 0 /\ (Ends(Headers(s), r) => s = r /\ BodyOf[r] = 0)
BY DEF Weight, Ends, Headers, Frame

\* A step of the task that sends no DATA, and does right by what it has still to send.
LEMMA TaskWhole ==
    ASSUME UInv, NEW r \in Requests, Whole(r),
           NEW q, NEW n, NEW open, NEW kept, NEW frames,
           TaskStep(q, n, open, kept, frames), Quiet(frames),
           up' # "closed" => up # "closed",
           \A t \in Nat : Held(r) /\ Held(r)' /\ Rest(r, t) => Rest(r, t)'
    PROVE  Whole(r)'
<1>1. bGot' = bGot /\ (bGot[r].end => bGot[r].n = BodyOf[r])
    BY Zenon DEF TaskStep, backendVars, Whole
<1>2. PICK t \in Nat :
          /\ Carries(toB, r, bGot[r].n, t)
          /\ r \notin Known => t = 0
          /\ Held(r) => Rest(r, t)
    BY Zenon DEF Whole
<1>3. Known' = Known \cup Firsts(q, n)
    BY TaskKeeps, Zenon
<1>4. Held(r)' => Held(r)
    <2>1. r \in live' => r \in live \/ r \in Firsts(q, n)
        BY DEF TaskStep, Opens
    <2>2. r \in Firsts(q, n) \cup ToSet(pending') => Fresh(r) \/ r \in ToSet(pending)
        BY Zenon DEF TaskStep, Waits
    <2>3. Fresh(r)' => Fresh(r)
        BY Zenon DEF TaskStep, Fresher
    <2> QED BY <2>1, <2>2, <2>3 DEF Held
<1>5. Carries(toB', r, bGot[r].n, t)
    <2> DEFINE k == Len(toB)
               l == Len(frames)
    <2>1. /\ toB \in Seq(DownFrame) /\ frames \in Seq(DownFrame) /\ toB' \in Seq(DownFrame)
          /\ k <= l /\ Len(toB') = l + n /\ n \in Nat
          /\ \A i \in 1..l : toB'[i] = frames[i]
          /\ \A i \in 1..n : toB'[l + i] = Headers(q[i])
          /\ \A i \in 1..n : q[i] \in Requests
          /\ \A i \in DOMAIN frames : IF i <= k THEN frames[i] = toB[i] ELSE frames[i].r \in Known
          /\ \A i \in DOMAIN frames : i > k => frames[i].k = "RST"
        <3>1. toB \in Seq(DownFrame)
            BY Zenon DEF UInv, Base, Types
        <3>2. Behind(frames) /\ Opens(q, n, open, kept, frames)
            BY Zenon DEF TaskStep
        <3>3. /\ q \in Seq(Requests) /\ n \in 0..Len(q) /\ Len(toB') = l + n
              /\ \A i \in 1..l : toB'[i] = frames[i] /\ TRUE
              /\ \A i \in 1..n : toB'[l + i] = Headers(q[i])
              /\ toB' \in Seq(DownFrame)
            BY <3>2, Zenon DEF Opens
        <3>4. n \in Nat /\ \A i \in 1..n : q[i] \in Requests
            BY <3>3
        <3>5. frames \in Seq(DownFrame) /\ k <= l
              /\ \A i \in DOMAIN frames : IF i <= k THEN frames[i] = toB[i] ELSE frames[i].r \in Known
            BY <3>2 DEF Behind
        <3> QED BY <3>1, <3>3, <3>4, <3>5, Zenon DEF Quiet
    <2>2. k \in Nat /\ l \in Nat /\ DOMAIN frames = 1..l
        BY <2>1
    <2> HIDE DEF k, l
    <2>3. k <= l + n /\ \A i \in 1..k : toB'[i] = toB[i]
        BY <2>1, <2>2
    <2>4. ASSUME NEW i \in 1..(l + n), i > k
          PROVE  Weight(toB'[i], r) = 0 /\ (Ends(toB'[i], r) => t = BodyOf[r])
        <3>1. CASE i <= l
            <4>1. i \in 1..l /\ i \in DOMAIN frames
                BY <2>1, <2>2, <2>4, <3>1
            <4>2. toB'[i] = frames[i] /\ frames[i] \in DownFrame /\ frames[i].k = "RST"
                BY <2>1, <2>4, <4>1
            <4>3. frames[i].k # "DATA"
                BY <4>2
            <4> QED BY <4>2, <4>3, Weights, Zenon
        <3>2. CASE ~(i <= l)
            <4> DEFINE j == i - l
            <4>1. j \in 1..n /\ l + j = i
                BY <2>1, <2>2, <3>2
            <4> HIDE DEF j
            <4>2. toB'[i] = Headers(q[j]) /\ q[j] \in Requests /\ q[j] \in Firsts(q, n)
                BY <2>1, <4>1, Zenon DEF Firsts
            <4>3. Weight(Headers(q[j]), r) = 0 /\ (Ends(Headers(q[j]), r) => q[j] = r /\ BodyOf[r] = 0)
                BY <4>2, HeadersWeight, Zenon
            <4>4. ASSUME Ends(toB'[i], r) PROVE t = BodyOf[r]
                <5>1. q[j] = r /\ BodyOf[r] = 0
                    BY <4>2, <4>3, <4>4, Zenon
                <5>2. r \notin Known
                    BY <4>2, <5>1, Zenon DEF TaskStep, Waits
                <5> QED BY <1>2, <5>1, <5>2
            <4> QED BY <4>2, <4>3, <4>4, Zenon
        <3> QED BY <3>1, <3>2
    <2>5. bGot[r].n \in Nat
        BY BackendTyped DEF BackendTypes
    <2>6. l + n \in Nat /\ Len(toB) = k /\ Len(toB') = l + n
        BY <2>1, <2>2 DEF k
    <2> QED BY <1>2, <2>2, <2>3, <2>4, <2>5, <2>6, CarriesAlso, ZenonT(40)
<1>6. Held(r)' => Rest(r, t)'
    BY <1>2, <1>4, Zenon
<1>7. r \notin Known' => t = 0
    BY <1>2, <1>3, Zenon
<1>8. /\ Carries(toB, r, bGot[r].n, t)'
      /\ bGot'[r].end => bGot'[r].n = BodyOf[r]
    <2>1. Carries(toB', r, bGot'[r].n, t)
        BY <1>1, <1>5, Zenon
    <2> QED BY <1>1, <2>1, Zenon
<1> QED BY <1>6, <1>7, <1>8, Zenon DEF Whole

LEMMA RestTypes ==
    ASSUME UInv, NEW r \in Requests
    PROVE  /\ buf[r].n \in Nat /\ buf[r].end \in BOOLEAN /\ bGot[r].n \in Nat
           /\ asked[r] \in Nat \cup {-1} /\ Sent(r) \in Nat
<1>1. /\ buf \in [Requests -> [n : Nat, end : BOOLEAN]] /\ bGot \in [Requests -> [n : Nat, end : BOOLEAN]]
      /\ asked \in [Requests -> Nat \cup {-1}]
    BY TaskTyped, BackendTyped, ClientTyped, Zenon DEF TaskTypes, BackendTypes, ClientTypes
<1>2. buf[r].n \in Nat /\ buf[r].end \in BOOLEAN /\ bGot[r].n \in Nat /\ asked[r] \in Nat \cup {-1}
    BY <1>1
<1> QED BY <1>2 DEF Sent

\* A message joins the inbox.
LEMMA ClientWhole ==
    ASSUME UInv, NEW r \in Requests, Whole(r),
           NEW s \in Requests, SendRequest(s) \/ SendBody(s) \/ SendCancel(s)
    PROVE  Whole(r)'
<1>1. /\ UNCHANGED <<stage, taskVars, toB, fromB, backendVars>>
      /\ UNCHANGED buf /\ UNCHANGED up
    BY Zenon DEF SendRequest, SendBody, SendCancel, taskVars
<1>2. TaskStep(<<>>, 0, live, routes, toB) /\ Quiet(toB)
    BY ClientSteps, BehindSame, Zenon
<1>3. ASSUME NEW t \in Nat, Rest(r, t) PROVE Rest(r, t)'
    <2>1. \E m \in Message :
              /\ inbox' = Append(inbox, m)
              /\ Sent(r)' = Sent(r) + Weight(m, r)
              /\ Ends(m, r) => Sent(r) + Weight(m, r) = BodyOf[r]
        <3>1. asked \in [Requests -> Nat \cup {-1}] /\ BodyOf[s] \in Nat
            <4>1. BodyOf \in [Requests -> Nat]
                BY UpstreamAssumption, Zenon
            <4> QED BY <4>1, ClientTyped DEF ClientTypes
        <3>2. CASE SendRequest(s)
            <4> DEFINE m == Frame("Request", s, BodyOf[s] = 0)
            <4>1. m \in Message /\ m.k = "Request" /\ inbox' = Append(inbox, m)
                BY <3>2 DEF Message, Frame, SendRequest
            <4>2. asked[s] = -1 /\ asked' = [asked EXCEPT ![s] = 0]
                BY <3>2, Zenon DEF SendRequest
            <4> HIDE DEF m
            <4>3. Weight(m, r) = 0 /\ ~Ends(m, r)
                BY <4>1 DEF Weight, Ends
            <4>4. Sent(r)' = Sent(r)
                BY <3>1, <4>2 DEF Sent
            <4>5. Sent(r) = Sent(r) + 0
                BY RestTypes
            <4> QED BY <4>1, <4>3, <4>4, <4>5
        <3>3. CASE SendBody(s)
            <4> DEFINE m == Frame("Body", s, asked[s] + 1 = BodyOf[s])
            <4>1. /\ m \in Message /\ m.k = "Body" /\ m.r = s /\ (m.end <=> asked[s] + 1 = BodyOf[s])
                  /\ inbox' = Append(inbox, m)
                BY <3>3 DEF Message, Frame, SendBody
            <4>2. asked[s] \in 0..(BodyOf[s] - 1) /\ asked' = [asked EXCEPT ![s] = asked[s] + 1]
                BY <3>3 DEF SendBody
            <4> HIDE DEF m
            <4>3. /\ Weight(m, r) = IF s = r THEN 1 ELSE 0
                  /\ Ends(m, r) => s = r /\ asked[s] + 1 = BodyOf[s]
                BY <4>1 DEF Weight, Ends
            <4>4. Sent(r) \in Nat
                BY RestTypes
            <4>5. CASE s = r
                <5>1. Sent(r) = asked[r] /\ Sent(r)' = asked[r] + 1
                    BY <3>1, <4>2, <4>5 DEF Sent
                <5> QED BY <4>1, <4>3, <4>5, <5>1, Zenon
            <4>6. CASE s # r
                <5>1. Sent(r)' = Sent(r) /\ Sent(r) + 0 = Sent(r)
                    BY <3>1, <4>2, <4>4, <4>6 DEF Sent
                <5> QED BY <4>1, <4>3, <4>6, <5>1, Zenon
            <4> QED BY <4>5, <4>6
        <3>4. CASE SendCancel(s)
            <4> DEFINE m == Frame("Cancel", s, FALSE)
            <4>1. m \in Message /\ m.k = "Cancel" /\ inbox' = Append(inbox, m) /\ asked' = asked
                BY <3>4 DEF Message, Frame, SendCancel
            <4> HIDE DEF m
            <4>2. Weight(m, r) = 0 /\ ~Ends(m, r)
                BY <4>1 DEF Weight, Ends
            <4>3. Sent(r)' = Sent(r) /\ Sent(r) = Sent(r) + 0
                BY <4>1, RestTypes DEF Sent
            <4> QED BY <4>1, <4>2, <4>3
        <3> QED BY <3>2, <3>3, <3>4
    <2>2. PICK m \in Message :
              /\ inbox' = Append(inbox, m)
              /\ Sent(r)' = Sent(r) + Weight(m, r)
              /\ Ends(m, r) => Sent(r) + Weight(m, r) = BodyOf[r]
        BY <2>1
    <2>3. Longer(inbox, inbox', m) /\ Len(inbox') = Len(inbox) + 1
        <3>1. inbox \in Seq(Message) /\ m \in Message /\ inbox' = Append(inbox, m)
            BY <2>2, ClientTyped, Zenon DEF ClientTypes
        <3> HIDE <2>2
        <3> QED BY <3>1, Added, Zenon
    <2> DEFINE w == Weight(m, r)
               a == t + buf[r].n
    <2>4. w \in Nat
        BY Weights
    <2>5. a \in Nat /\ Sent(r) \in Nat /\ Carries(inbox, r, a, Sent(r))
        BY <1>3, RestTypes DEF Rest
    <2> HIDE DEF w, a
    <2>6. Carries(inbox', r, a, Sent(r) + w)
        BY <2>2, <2>3, <2>4, <2>5, CarriesMore, Zenon DEF w
    <2> QED BY <1>1, <1>3, <2>2, <2>6, Zenon DEF Rest, w, a
<1> QED BY <1>1, <1>2, <1>3, TaskWhole, Zenon

\* A message leaves the inbox: for the buffer, if it is octets.
LEMMA MessageWhole ==
    ASSUME UInv, NEW r \in Requests, Whole(r), TakeMessage
    PROVE  Whole(r)'
<1>1. PICK q, n, open, kept, frames : TaskStep(q, n, open, kept, frames) /\ Quiet(frames)
    BY MessageSteps, Zenon DEF StepOf
<1>2. up' = up /\ inbox # <<>> /\ inbox' = Tail(inbox) /\ asked' = asked
      /\ UNCHANGED <<clientVars, fromB, backendVars>>
    BY Zenon DEF TakeMessage, clientVars
<1> DEFINE m == Head(inbox)
<1>3. /\ m \in Message /\ Shorter(inbox, inbox') /\ Len(inbox') = Len(inbox) - 1
      /\ m.k # "Request" => ~Fresh(m.r)
    <2>1. inbox \in Seq(Message) /\ Types /\ InOrder
        BY ClientTyped, Zenon DEF ClientTypes, UInv, Base
    <2>2. m \in Message /\ Shorter(inbox, inbox')
        BY <2>1, <1>2, Taken, Zenon
    <2>3. m.k # "Request" => ~Fresh(m.r)
        BY <2>1, <1>2, MessageTaken, Zenon
    <2>4. Len(inbox') = Len(inbox) - 1
        BY <2>1, <1>2
    <2> QED BY <2>2, <2>3, <2>4
<1>4. \/ m.k = "Request" /\ TakeRequest(m.r)
      \/ m.k = "Body" /\ TakeBody(m.r, m.end)
      \/ m.k = "Cancel" /\ TakeCancel(m.r)
    <2>1. m.k \in {"Request", "Body", "Cancel"}
        BY <1>3 DEF Message
    <2> QED BY <2>1 DEF TakeMessage
<1>5. m = Head(inbox)
    OBVIOUS
<1> HIDE DEF m
<1>6. m.k # "Body" => buf' = buf
    BY <1>2, <1>4, <1>5, TookRequest, TookCancel, Zenon
<1>7. m.k = "Body" =>
          /\ m.r = r /\ Held(r) => buf'[r] = [n |-> buf[r].n + 1, end |-> m.end]
          /\ m.r # r => buf'[r] = buf[r]
    <2> SUFFICES ASSUME m.k = "Body"
                 PROVE  /\ m.r = r /\ Held(r) => buf'[r] = [n |-> buf[r].n + 1, end |-> m.end]
                        /\ m.r # r => buf'[r] = buf[r]
        OBVIOUS
    <2>1. buf' = IF m.r \in live \cup ToSet(pending)
                 THEN [buf EXCEPT ![m.r] = [n |-> buf[m.r].n + 1, end |-> m.end]] ELSE buf
        BY <1>4 DEF TakeBody, Buffer
    <2>2. buf \in [Requests -> [n : Nat, end : BOOLEAN]]
        BY TaskTyped, Zenon DEF TaskTypes
    <2>3. m.r = r /\ Held(r) => m.r \in live \cup ToSet(pending)
        BY <1>3 DEF Held
    <2> QED BY <2>1, <2>2, <2>3
<1>8. ASSUME NEW t \in Nat, Held(r), Rest(r, t) PROVE Rest(r, t)'
    <2> DEFINE w == Weight(m, r)
               a == t + buf[r].n
    <2>1. w = IF m.k = "Body" /\ m.r = r THEN 1 ELSE 0
        BY <1>3, Weights, Zenon
    <2>2. Ends(m, r) <=> (m.k = "Body" /\ m.r = r /\ m.end)
        BY <1>3, Weights, Zenon
    <2>3. a \in Nat /\ Sent(r) \in Nat /\ Carries(inbox, r, a, Sent(r)) /\ buf[r].n \in Nat
        BY <1>8, RestTypes DEF Rest
    <2>4. w \in Nat
        BY <2>1
    <2>9. w = Weight(m, r)
        OBVIOUS
    <2> HIDE DEF a, w
    <2>8. Shorter(inbox, inbox') /\ Len(inbox') = Len(inbox) - 1 /\ m = Head(inbox)
        BY <1>3, <1>5, Zenon
    <2>5. Carries(inbox', r, a + w, Sent(r)) /\ (Ends(m, r) => a + w = BodyOf[r])
        BY <2>8, <2>9, <2>3, <2>4, CarriesLess
    <2>6. Sent(r)' = Sent(r)
        BY <1>2, Zenon DEF Sent
    <2>7. /\ t + buf'[r].n = a + w
          /\ buf'[r].end => a + w = BodyOf[r]
        <3>1. CASE m.k = "Body" /\ m.r = r
            <4>1. buf'[r].n = buf[r].n + 1 /\ buf'[r].end = m.end
                BY <1>7, <1>8, <3>1
            <4>2. w = 1 /\ (m.end => a + w = BodyOf[r])
                BY <2>1, <2>2, <2>5, <3>1
            <4>3. t + buf'[r].n = a + w
                BY <2>3, <4>1, <4>2 DEF a
            <4> QED BY <4>1, <4>2, <4>3
        <3>2. CASE ~(m.k = "Body" /\ m.r = r)
            <4>1. buf'[r] = buf[r] /\ w = 0
                BY <1>6, <1>7, <2>1, <3>2, Zenon
            <4>2. buf[r].end => a = BodyOf[r]
                BY <1>8 DEF Rest, a
            <4> QED BY <2>3, <4>1, <4>2 DEF a
        <3> QED BY <3>1, <3>2
    <2> QED BY <2>5, <2>6, <2>7, Zenon DEF Rest
<1> QED BY <1>1, <1>2, <1>8, TaskWhole, Zenon

\* A step that leaves the buffers and the inbox alone.
LEMMA RestSame ==
    ASSUME NEW r, NEW t, UNCHANGED <<buf, asked, inbox>>, Rest(r, t)
    PROVE  Rest(r, t)'
BY Zenon DEF Rest, Sent

\* What was in the buffer goes to the wire.
LEMMA PumpWhole ==
    ASSUME UInv, NEW r \in Requests, Whole(r), NEW s \in Requests, PumpBody(s)
    PROVE  Whole(r)'
<1>1. PICK t \in Nat :
          /\ Carries(toB, r, bGot[r].n, t)
          /\ r \notin Known => t = 0
          /\ Held(r) => Rest(r, t)
    BY Zenon DEF Whole
<1>2. /\ UNCHANGED <<asked, inbox, up, live, pending, id, bGot>> /\ up = "open" /\ s \in live
      /\ toB' = Append(toB, Data(s)) /\ buf' = [buf EXCEPT ![s] = NoBody]
    BY Zenon DEF PumpBody, clientVars, backendVars
<1>3. /\ buf \in [Requests -> [n : Nat, end : BOOLEAN]] /\ buf[r].n \in Nat /\ bGot[r].n \in Nat
      /\ s \in Known
    BY TaskTyped, RestTypes, Waiting, <1>2, Zenon DEF TaskTypes
<1> DEFINE d == Data(s)
           w == Weight(d, r)
<1>4. w = IF s = r THEN buf[r].n ELSE 0
    BY DEF Weight, Data
<1>5. Ends(d, r) => s = r /\ buf[r].end
    BY DEF Ends, Data
<1>6. Longer(toB, toB', d) /\ Len(toB') = Len(toB) + 1
    <2>1. toB \in Seq(DownFrame)
        BY Zenon DEF UInv, Base, Types
    <2>2. d \in DownFrame
        BY <1>3, <1>2 DEF Data, DownFrame, Known
    <2>3. toB' = Append(toB, d)
        BY <1>2
    <2> HIDE DEF d
    <2> QED BY <2>1, <2>2, <2>3, Added, Zenon
<1>16. w = Weight(d, r)
    OBVIOUS
<1>7. PICK u : u = t + w
    OBVIOUS
<1> HIDE DEF d, w
<1>8. w \in Nat /\ (Ends(d, r) => u = BodyOf[r])
    <2>1. s = r => Rest(r, t)
        BY <1>1, <1>2 DEF Held
    <2> QED BY <2>1, <1>3, <1>4, <1>5, <1>7 DEF Rest
<1>9. Carries(toB', r, bGot[r].n, u)
    <2>1. Carries(toB', r, bGot[r].n, t + w)
        BY <1>1, <1>3, <1>6, <1>7, <1>8, <1>16, CarriesMore
    <2> QED BY <2>1, <1>7
<1>10. u \in Nat /\ (r \notin Known => u = 0)
    BY <1>1, <1>3, <1>4, <1>7
<1>11. ASSUME Rest(r, t) PROVE Rest(r, u)'
    <2>1. u + buf'[r].n = t + buf[r].n /\ (buf'[r].end => buf[r].end)
        <3>1. CASE s = r
            <4>1. buf'[r] = NoBody
                BY <1>2, <1>3, <3>1
            <4> QED BY <4>1, <3>1, <1>3, <1>4, <1>7 DEF NoBody
        <3>2. CASE s # r
            <4>1. buf'[r] = buf[r]
                BY <1>2, <1>3, <3>2
            <4> QED BY <4>1, <3>2, <1>3, <1>4, <1>7
        <3> QED BY <3>1, <3>2
    <2>2. /\ buf[r].end => t + buf[r].n = BodyOf[r]
          /\ Carries(inbox, r, t + buf[r].n, Sent(r))
        BY <1>11, Zenon DEF Rest
    <2>3. /\ buf'[r].end => u + buf'[r].n = BodyOf[r]
          /\ Carries(inbox, r, u + buf'[r].n, Sent(r))
        BY <2>1, <2>2
    <2>4. inbox' = inbox /\ Sent(r)' = Sent(r)
        BY <1>2 DEF Sent
    <2> QED BY <2>3, <2>4 DEF Rest
<1>12. Known' = Known /\ (Held(r)' => Held(r))
    BY <1>2 DEF Known, Held, Fresh, Asking
<1>13. bGot[r].end => bGot[r].n = BodyOf[r]
    BY Zenon DEF Whole
<1>14. bGot' = bGot /\ (Held(r)' => Rest(r, u)')
    BY <1>1, <1>2, <1>11, <1>12
<1>15. /\ bGot'[r].end => bGot'[r].n = BodyOf[r]
      /\ Carries(toB', r, bGot'[r].n, u) /\ (r \notin Known' => u = 0)
    BY <1>9, <1>10, <1>12, <1>13, <1>14, Zenon
<1> QED BY <1>10, <1>14, <1>15, Zenon DEF Whole

\* The other steps of the task leave the buffers alone.
LEMMA TableWhole ==
    ASSUME UInv, NEW r \in Requests, Whole(r),
           TakeFrame \/ DrainDone \/ DrainDeadline \/ ConnectionFails \/ FailAllRoutes \/ CloseInbox
    PROVE  Whole(r)'
<1>1. CASE TakeFrame
    <2>1. PICK q, n, open, kept, frames : TaskStep(q, n, open, kept, frames) /\ Quiet(frames)
        BY <1>1, FrameSteps, Zenon DEF StepOf
    <2>2. UNCHANGED <<asked, inbox, up>> /\ fromB # <<>>
        BY <1>1, Zenon DEF TakeFrame, clientVars
    <2>3. buf' = buf
        <3> DEFINE f == Head(fromB)
        <3>1. f \in UpFrame
            <4>1. fromB \in Seq(UpFrame)
                BY Zenon DEF UInv, Base, Types
            <4> QED BY <4>1, <2>2, Taken, Zenon
        <3>2. f.k \in {"HEADERS", "DATA", "ZEROUPDATE", "BADTRAILERS", "RST", "GOAWAY", "SETTINGS"}
            BY <3>1, UpFields, Zenon
        <3>3. \/ BeginDrain(f.last) \/ NoForget \/ RecvHeaders(f.r, f.end) \/ RecvData(f.r, f.end)
              \/ RecvRst(f.r, f.refused) \/ RecvBadTrailers(f.r) \/ RecvZeroUpdate(f.r)
            BY <1>1, <3>2 DEF TakeFrame
        <3> HIDE DEF f
        <3>4. \A beside, routed, queue, sent : FillSlots(beside, routed, queue, sent) => buf' = buf
            BY DEF FillSlots
        <3>5. \A s : Forget(s, toB) \/ NoForget => buf' = buf
            BY <3>4, Zenon DEF Forget, NoForget
        <3>6. BeginDrain(f.last) => buf' = buf
            BY <3>4, Zenon DEF BeginDrain, Abandon
        <3>7. RecvHeaders(f.r, f.end) \/ RecvBadTrailers(f.r) \/ RecvRst(f.r, f.refused) => buf' = buf
            BY <3>5, Zenon DEF RecvHeaders, RecvBadTrailers, RecvRst
        <3>8. RecvData(f.r, f.end) => buf' = buf
            BY <3>5, Zenon DEF RecvData
        <3>9. RecvZeroUpdate(f.r) => buf' = buf
            BY DEF RecvZeroUpdate
        <3> QED BY <3>3, <3>5, <3>6, <3>7, <3>8, <3>9, Zenon
    <2>4. \A t \in Nat : Rest(r, t) => Rest(r, t)'
        BY <2>2, <2>3, RestSame, Zenon
    <2> QED BY <2>1, <2>2, <2>4, TaskWhole, Zenon
<1>2. CASE DrainDone \/ DrainDeadline \/ ConnectionFails
    <2>1. UNCHANGED <<stage, nextId, id, live, routes, pending, buf, toB, fromB, backendVars, asked, inbox>>
        BY <1>2, Zenon DEF DrainDone, DrainDeadline, ConnectionFails, clientVars
    <2>2. up' # "closed" => up # "closed"
        BY <1>2 DEF DrainDone, DrainDeadline, ConnectionFails
    <2>3. TaskStep(<<>>, 0, live, routes, toB) /\ Quiet(toB)
        BY <2>1, StillFresh, Elsewhere, BehindSame, Zenon
    <2>4. \A t \in Nat : Rest(r, t) => Rest(r, t)'
        BY <2>1, RestSame, Zenon
    <2> QED BY <2>2, <2>3, <2>4, TaskWhole, Zenon
<1>3. CASE FailAllRoutes
    <2>1. UNCHANGED <<buf, asked, inbox>> /\ up = "stopping"
        BY <1>3, Zenon DEF FailAllRoutes, clientVars
    <2>2. TaskStep(<<>>, 0, live, {}, toB) /\ Quiet(toB)
        BY <1>3, Failed, BehindSame, Zenon
    <2>3. \A t \in Nat : Rest(r, t) => Rest(r, t)'
        BY <2>1, RestSame, Zenon
    <2>4. up # "closed"
        BY <2>1
    <2> QED BY <2>2, <2>3, <2>4, TaskWhole, Zenon
<1>4. CASE CloseInbox
    <2>1. up' = "closed"
        BY <1>4 DEF CloseInbox
    <2>2. ~Held(r)'
        BY <2>1 DEF Held
    <2>3. TaskStep(<<>>, 0, live, routes, toB) /\ Quiet(toB)
        BY <1>4, Closed, BehindSame, Zenon
    <2> QED BY <2>1, <2>2, <2>3, TaskWhole, Zenon
<1> QED BY <1>1, <1>2, <1>3, <1>4

\* The backend takes a frame: the octets it then has, or the end, or neither.
LEMMA ReceivedWhole ==
    ASSUME UInv, NEW r \in Requests, Whole(r), BackendTake
    PROVE  Whole(r)'
<1>1. PICK t \in Nat :
          /\ Carries(toB, r, bGot[r].n, t)
          /\ r \notin Known => t = 0
          /\ Held(r) => Rest(r, t)
    BY Zenon DEF Whole
<1>2. PICK f \in DownFrame :
          /\ f = Head(toB) /\ Takes(f)
          /\ f.k \in {"HEADERS", "DATA", "RST"} /\ f.r \in Requests /\ f.end \in BOOLEAN
          /\ f.k = "DATA" => f.n \in Nat
          /\ toB' \in Seq(DownFrame) /\ Len(toB') = Len(toB) - 1 /\ Shorter(toB, toB')
          /\ UNCHANGED <<clientVars, inbox, stage, taskVars, bLast>>
    BY Taking, Zenon
<1>3. /\ bGot \in [Requests -> [n : Nat, end : BOOLEAN]] /\ bGot[r].n \in Nat
      /\ bGot[r].end => bGot[r].n = BodyOf[r]
    BY BackendTyped, RestTypes, Zenon DEF BackendTypes, Whole
<1> DEFINE w == Weight(f, r)
           a == bGot[r].n + w
<1>5. w \in Nat /\ (f.k = "DATA" /\ f.r = r => w = f.n) /\ (f.k # "DATA" \/ f.r # r => w = 0)
    BY <1>2 DEF Weight, DownFrame
<1>6. Ends(f, r) <=> f.k \in {"DATA", "HEADERS"} /\ f.r = r /\ f.end
    BY <1>2 DEF Ends, DownFrame
<1>8. w = Weight(f, r) /\ a = bGot[r].n + w
    OBVIOUS
<1>9. \/ f.k # "DATA" /\ bGot' = bGot
      \/ f.k = "HEADERS" /\ bGot' = [bGot EXCEPT ![f.r].end = f.end]
      \/ f.k = "DATA" /\ bGot' = [bGot EXCEPT ![f.r] = [n |-> bGot[f.r].n + f.n, end |-> f.end]]
    BY <1>2 DEF Takes, Accept, Refuse
<1> HIDE DEF w, a
<1>10. a \in Nat /\ Carries(toB', r, a, t) /\ (Ends(f, r) => a = BodyOf[r])
    <2>1. /\ Shorter(toB, toB') /\ Len(toB') = Len(toB) - 1 /\ f = Head(toB)
          /\ bGot[r].n \in Nat /\ Carries(toB, r, bGot[r].n, t)
        BY <1>1, <1>2, <1>3, Zenon
    <2>2. w \in Nat /\ w = Weight(f, r)
        BY <1>5, <1>8, Zenon
    <2>3. Carries(toB', r, bGot[r].n + w, t) /\ (Ends(f, r) => bGot[r].n + w = BodyOf[r])
        BY <2>1, <2>2, CarriesLess
    <2> QED BY <2>2, <2>3, <1>3, <1>8
<1>11. bGot'[r].n = a /\ (bGot'[r].end => (bGot[r].end /\ bGot'[r] = bGot[r]) \/ Ends(f, r))
    <2>1. CASE f.r # r \/ (bGot' = bGot /\ f.k # "DATA")
        <3>1. bGot'[r] = bGot[r] /\ w = 0
            BY <2>1, <1>3, <1>5, <1>2, <1>9
        <3> QED BY <3>1, <1>3, <1>8
    <2>2. CASE f.r = r /\ f.k = "HEADERS" /\ bGot' = [bGot EXCEPT ![f.r].end = f.end]
        <3>1. bGot'[r].n = bGot[r].n /\ bGot'[r].end = f.end /\ w = 0
            BY <2>2, <1>3, <1>5, <1>2
        <3> QED BY <3>1, <2>2, <1>3, <1>6, <1>8
    <2>3. CASE f.r = r /\ f.k = "DATA"
        <3>1. bGot'[r].n = bGot[r].n + f.n /\ bGot'[r].end = f.end /\ w = f.n
            BY <2>3, <1>3, <1>5, <1>2, <1>9
        <3> QED BY <3>1, <2>3, <1>6, <1>8
    <2> QED BY <2>1, <2>2, <2>3, <1>9
<1>12. bGot'[r].end => bGot'[r].n = BodyOf[r]
    BY <1>3, <1>10, <1>11
<1>13. Known' = Known /\ (Held(r)' => Held(r)) /\ (Rest(r, t) => Rest(r, t)')
    <2>1. UNCHANGED <<asked, inbox, buf, up, live, pending, id>>
        BY <1>2 DEF clientVars, taskVars
    <2>2. Known' = Known /\ (Held(r)' => Held(r))
        BY <2>1 DEF Known, Held, Fresh, Asking
    <2> QED BY <2>1, <2>2, RestSame, Zenon
<1>14. Carries(toB', r, bGot'[r].n, t)
    BY <1>10, <1>11, Zenon
<1> QED BY <1>1, <1>12, <1>13, <1>14, Zenon DEF Whole

\* What else the backend does is answer.
LEMMA AnswerWhole ==
    ASSUME UInv, NEW r \in Requests, Whole(r),
           \/ BackendGoAway \/ BackendSettings
           \/ \E s \in Requests :
                  \/ BackendHead(s) \/ BackendData(s) \/ BackendEnd(s) \/ BackendReset(s)
                  \/ BackendZeroUpdate(s) \/ BackendBadTrailers(s)
           \/ UNCHANGED vars
    PROVE  Whole(r)'
<1>1. UNCHANGED <<clientVars, inbox, taskVars, toB, bGot>>
    <2>1. CASE UNCHANGED vars
        BY <2>1, Zenon DEF vars, backendVars
    <2> QED BY <2>1, Zenon DEF BackendGoAway, BackendSettings, BackendHead, BackendData, BackendEnd,
               BackendReset, BackendZeroUpdate, BackendBadTrailers, Respond, Say
<1>2. UNCHANGED <<asked, inbox, buf, up, live, pending, id, toB, bGot>>
    BY <1>1, Zenon DEF clientVars, taskVars
<1>3. Known' = Known /\ (Held(r)' => Held(r))
    BY <1>2 DEF Known, Held, Fresh, Asking
<1>4. \A t \in Nat : Rest(r, t) => Rest(r, t)'
    BY <1>2, RestSame, Zenon
<1>5. PICK t \in Nat :
          /\ Carries(toB, r, bGot[r].n, t)
          /\ r \notin Known => t = 0
          /\ Held(r) => Rest(r, t)
    BY Zenon DEF Whole
<1>6. bGot'[r].end => bGot'[r].n = BodyOf[r]
    BY <1>2, Zenon DEF Whole
<1>7. Carries(toB', r, bGot'[r].n, t)
    BY <1>2, <1>5, Zenon
<1> QED BY <1>3, <1>4, <1>5, <1>6, <1>7, Zenon DEF Whole

\* A request body the backend sees the end of is whole, whether it came before the
\* request had a slot, after, or partly each (Pending::body, drain_pending).
THEOREM BodiesWhole == Spec => []BodyArrivesWhole
<1> DEFINE All == \A r \in Requests : Whole(r)
<1>1. Init => UInv /\ All
    <2> SUFFICES ASSUME Init, NEW r \in Requests PROVE UInv /\ Whole(r)
        BY UInvInit
    <2>1. /\ asked[r] = -1 /\ inbox = <<>> /\ buf[r] = NoBody /\ toB = <<>> /\ bGot[r] = NoBody
        BY DEF Init
    <2>2. Carries(toB, r, 0, 0) /\ Carries(inbox, r, 0, 0)
        <3>1. Len(toB) = 0 /\ Len(inbox) = 0 /\ 0 \in Nat
            BY <2>1
        <3> QED BY <3>1, CarriesNone, Zenon
    <2>3. /\ bGot[r].n = 0 /\ ~bGot[r].end /\ buf[r].n = 0 /\ ~buf[r].end /\ Sent(r) = 0
          /\ 0 + 0 = 0 /\ 0 \in Nat
        BY <2>1 DEF NoBody, Sent
    <2>4. Rest(r, 0)
        BY <2>2, <2>3, Zenon DEF Rest
    <2> QED BY <2>2, <2>3, <2>4, UInvInit, Zenon DEF Whole
<1>2. (UInv /\ All) /\ [Next]_vars => (UInv /\ All)'
    <2> SUFFICES ASSUME UInv, [Next]_vars, NEW r \in Requests, Whole(r) PROVE Whole(r)'
        BY UInvKept, Zenon
    <2>1. CASE \E s \in Requests : SendRequest(s) \/ SendBody(s) \/ SendCancel(s)
        BY <2>1, ClientWhole, Zenon
    <2>2. CASE \E s \in Requests : PumpBody(s)
        BY <2>2, PumpWhole, Zenon
    <2>3. CASE TakeMessage
        BY <2>3, MessageWhole, Zenon
    <2>4. CASE TakeFrame \/ DrainDone \/ DrainDeadline \/ ConnectionFails \/ FailAllRoutes \/ CloseInbox
        BY <2>4, TableWhole, Zenon
    <2>5. CASE BackendTake
        BY <2>5, ReceivedWhole, Zenon
    <2>6. CASE \/ BackendGoAway \/ BackendSettings
               \/ \E s \in Requests :
                      \/ BackendHead(s) \/ BackendData(s) \/ BackendEnd(s) \/ BackendReset(s)
                      \/ BackendZeroUpdate(s) \/ BackendBadTrailers(s)
               \/ UNCHANGED vars
        BY <2>6, AnswerWhole, Zenon
    <2> QED BY <2>1, <2>2, <2>3, <2>4, <2>5, <2>6, Zenon DEF Next
<1>3. UInv /\ All => BodyArrivesWhole
    BY Zenon DEF Whole, BodyArrivesWhole
<1> QED BY <1>1, <1>2, <1>3, PTL DEF Spec

-----------------------------------------------------------------------------
(* Nobody waits beside an idle slot. *)

\* The backend makes no WINDOW_UPDATE of zero, and none is on its way.
NoZeroUpdates == "zero update" \notin Faults
NoZero == \A i \in DOMAIN fromB : fromB[i].k # "ZEROUPDATE"

\* How many the table holds once the first n of q have joined those that stay.
LEMMA Joined ==
    ASSUME NEW open \in SUBSET Requests, NEW q \in Seq(Requests), Distinct(q),
           NEW n \in 0..Len(q), \A r \in Firsts(q, n) : r \notin open
    PROVE  /\ IsFiniteSet(open \cup Firsts(q, n)) /\ Cardinality(open) \in Nat
           /\ Cardinality(open \cup Firsts(q, n)) = Cardinality(open) + n
<1> DEFINE first == Firsts(q, n)
           f == [i \in 1..n |-> q[i]]
<1>1. n \in Nat /\ \A i \in 1..n : i \in DOMAIN q /\ q[i] \in first
    BY DEF Firsts
<1>2. f \in [1..n -> first] /\ \A i \in 1..n : f[i] = q[i]
    BY <1>1
<1>3. \A s \in first : \E i \in 1..n : q[i] = s
    BY DEF Firsts
<1> HIDE DEF first, f
<1>4. f \in Surjection(1..n, first) /\ f \in Injection(1..n, first)
    <2>1. \A i, j \in 1..n : f[i] = f[j] => i = j
        BY <1>1, <1>2 DEF Distinct
    <2>2. f \in Injection(1..n, first)
        BY <1>2, <2>1 DEF Injection, IsInjective
    <2>3. f \in Surjection(1..n, first)
        BY <1>2, <1>3 DEF Surjection
    <2> QED BY <2>2, <2>3
<1>5. IsFiniteSet(1..n) /\ Cardinality(1..n) = n
    <2>1. 1 \in Int /\ n \in Int
        BY <1>1
    <2> QED BY <1>1, <2>1, FS_Interval
<1>6. IsFiniteSet(first) /\ Cardinality(first) = n
    BY <1>4, <1>5, FS_Surjection, Zenon
<1>7. IsFiniteSet(open) /\ Cardinality(open) \in Nat
    <2>1. IsFiniteSet(Requests)
        BY UpstreamAssumption, Zenon
    <2>2. IsFiniteSet(open)
        BY <2>1, FS_Subset, Zenon
    <2> QED BY <2>2, FS_CardinalityType, Zenon
<1>8. /\ IsFiniteSet(open \cup first)
      /\ Cardinality(open \cup first) = Cardinality(open) + Cardinality(first) - Cardinality(open \cap first)
    BY <1>6, <1>7, FS_Union, Zenon
<1>9. Cardinality(open \cap first) = 0
    <2>1. open \cap first = {}
        BY DEF first
    <2> QED BY <2>1, FS_EmptySet
<1>10. Cardinality(open \cup first) = Cardinality(open) + n
    BY <1>1, <1>6, <1>7, <1>8, <1>9
<1> QED BY <1>7, <1>8, <1>10 DEF first

\* Once the queue was served, either it is empty or the table is full.
LEMMA Served ==
    ASSUME UInv, NEW open \in SUBSET live, NEW kept, NEW queue \in Seq(Requests), Distinct(queue),
           \A r \in ToSet(queue) : r \notin live,
           NEW frames \in Seq(DownFrame), FillSlots(open, kept, queue, frames), limit' = limit
    PROVE  NoIdleSlot'
<1>1. Table /\ open \in SUBSET Requests
    <2>1. Table
        BY TypedTable, Zenon DEF UInv, Base
    <2> QED BY <2>1 DEF Table
<1>2. PICK n \in 0..Len(queue) :
          /\ Opens(queue, n, open, kept, frames)
          /\ pending' = SubSeq(queue, n + 1, Len(queue))
          /\ n = Len(queue) \/ Cardinality(open) + n >= limit
    BY <1>1, Filled, Zenon
<1>3. /\ Cardinality(open) \in Nat
      /\ Cardinality(open \cup Firsts(queue, n)) = Cardinality(open) + n
    <2>1. \A r \in Firsts(queue, n) : r \notin open
        BY DEF Firsts, ToSet
    <2> QED BY <2>1, <1>1, Joined, Zenon
<1>4. live' = open \cup Firsts(queue, n)
    BY <1>2, Zenon DEF Opens
<1>5. CASE n = Len(queue)
    <2>1. pending' = <<>>
        BY <1>2, <1>5
    <2> QED BY <2>1 DEF NoIdleSlot
<1>6. CASE Cardinality(open) + n >= limit
    <2>1. limit \in Nat
        BY <1>1, Zenon DEF Table
    <2>2. ~(Cardinality(live') < limit')
        BY <1>3, <1>4, <1>6, <2>1
    <2> QED BY <2>2 DEF NoIdleSlot, CanOpen
<1> QED BY <1>2, <1>5, <1>6

\* A request that loses its stream, if it has one, leaves its slot to whoever waits.
LEMMA Passed ==
    ASSUME UInv, NEW r, NEW frames \in Seq(DownFrame), Forget(r, frames), limit' = limit
    PROVE  NoIdleSlot'
<1>1. pending \in Seq(Requests) /\ Distinct(pending) /\ \A s \in ToSet(pending) : s \notin live
    BY TaskTyped, Waiting, Zenon DEF TaskTypes
<1>2. live \ {r} \in SUBSET live
    OBVIOUS
<1>3. FillSlots(live \ {r}, routes \ {r}, pending, frames)
    BY Zenon DEF Forget
<1> QED BY <1>1, <1>2, <1>3, Served, Zenon

LEMMA SlotsMessage ==
    ASSUME UInv, NoIdleSlot, TakeMessage
    PROVE  NoIdleSlot'
<1> DEFINE m == Head(inbox)
<1>1. /\ inbox # <<>> /\ up = "open" /\ up' = "open" /\ limit' = limit
    BY DEF TakeMessage
<1>2. m \in Message
    BY <1>1, ClientTyped, Taken, Zenon DEF ClientTypes
<1>3. \/ m.k = "Request" /\ TakeRequest(m.r)
      \/ m.k = "Body" /\ TakeBody(m.r, m.end)
      \/ m.k = "Cancel" /\ TakeCancel(m.r)
    <2>1. m.k \in {"Request", "Body", "Cancel"}
        BY <1>2 DEF Message
    <2> QED BY <2>1 DEF TakeMessage
<1> HIDE DEF m
<1>4. ASSUME UNCHANGED <<live, pending>> PROVE NoIdleSlot'
    BY <1>1, <1>4, Zenon DEF NoIdleSlot, CanOpen
<1>5. CASE TakeRequest(m.r)
    <2>1. \/ UNCHANGED <<live, pending>>
          \/ CanOpen(live) /\ pending' = pending
          \/ ~CanOpen(live) /\ live' = live
        BY <1>5 DEF TakeRequest, Admit, NoForget
    <2>2. CASE CanOpen(live) /\ pending' = pending
        BY <1>1, <2>2, Zenon DEF NoIdleSlot
    <2>3. CASE ~CanOpen(live) /\ live' = live
        BY <1>1, <2>3, Zenon DEF NoIdleSlot, CanOpen
    <2> QED BY <2>1, <2>2, <2>3, <1>4
<1>6. CASE TakeBody(m.r, m.end)
    BY <1>4, <1>6, Zenon DEF TakeBody, Buffer
<1>7. CASE TakeCancel(m.r)
    <2>1. CASE m.r \in routes
        <3> DEFINE frames == IF m.r \in live THEN Append(toB, Frame("RST", m.r, FALSE)) ELSE toB
        <3>1. frames \in Seq(DownFrame)
            <4>1. toB \in Seq(DownFrame)
                BY Zenon DEF UInv, Base, Types
            <4>2. m.r \in Requests
                BY <1>2 DEF Message
            <4>3. Frame("RST", m.r, FALSE) \in DownFrame
                BY <4>2, ResetType, Zenon
            <4>4. Append(toB, Frame("RST", m.r, FALSE)) \in Seq(DownFrame)
                BY <4>1, <4>3, Added, Zenon
            <4> QED BY <4>1, <4>4, Zenon
        <3>2. Forget(m.r, frames)
            BY <1>7, <2>1, Zenon DEF TakeCancel
        <3> HIDE DEF frames
        <3> QED BY <3>1, <3>2, <1>1, Passed, Zenon
    <2>2. CASE m.r \notin routes
        <3>1. pending' = Without(pending, m.r) /\ live' = live
            BY <1>7, <2>2, Zenon DEF TakeCancel
        <3>2. pending = <<>> => pending' = <<>>
            BY <3>1 DEF Without, Contains
        <3> QED BY <3>1, <3>2, <1>1, Zenon DEF NoIdleSlot, CanOpen
    <2> QED BY <2>1, <2>2
<1> QED BY <1>3, <1>5, <1>6, <1>7

LEMMA SlotsFrame ==
    ASSUME UInv, NoIdleSlot, NoZero, TakeFrame, limit' <= limit
    PROVE  NoIdleSlot'
<1> DEFINE f == Head(fromB)
<1>1. /\ fromB # <<>> /\ up = "open" /\ up' = "open"
    BY DEF TakeFrame
<1>2. f \in UpFrame /\ f.k # "ZEROUPDATE"
    <2>1. fromB \in Seq(UpFrame)
        BY Zenon DEF UInv, Base, Types
    <2>2. f = fromB[1] /\ 1 \in DOMAIN fromB /\ f \in UpFrame
        BY <1>1, <2>1
    <2> QED BY <2>2, Zenon DEF NoZero
<1>3. \/ BeginDrain(f.last) /\ limit' = limit
      \/ NoForget
      \/ Forget(f.r, toB) /\ limit' = limit
    <2>1. f.k \in {"HEADERS", "DATA", "BADTRAILERS", "RST", "GOAWAY", "SETTINGS"}
        <3>1. f.k \in {"HEADERS", "DATA", "ZEROUPDATE", "BADTRAILERS", "RST", "GOAWAY", "SETTINGS"}
            BY <1>2, UpFields, Zenon
        <3> QED BY <3>1, <1>2
    <2>2. \/ BeginDrain(f.last) /\ limit' = limit
          \/ NoForget
          \/ /\ limit' = limit
             /\ \/ RecvHeaders(f.r, f.end) \/ RecvData(f.r, f.end)
                \/ RecvRst(f.r, f.refused) \/ RecvBadTrailers(f.r)
        BY <2>1 DEF TakeFrame
    <2> HIDE DEF f
    <2>3. RecvHeaders(f.r, f.end) \/ RecvBadTrailers(f.r) \/ RecvRst(f.r, f.refused)
              => NoForget \/ Forget(f.r, toB)
        BY Zenon DEF RecvHeaders, RecvBadTrailers, RecvRst
    <2>4. RecvData(f.r, f.end) => NoForget \/ Forget(f.r, toB)
        BY Zenon DEF RecvData
    <2> QED BY <2>2, <2>3, <2>4, Zenon
<1> HIDE DEF f
<1>4. toB \in Seq(DownFrame)
    BY Zenon DEF UInv, Base, Types
<1>5. CASE BeginDrain(f.last) /\ limit' = limit
    <2> DEFINE above == {r \in routes : id[r] > f.last}
               queue == <<>>
    <2>1. FillSlots(live \ above, routes \ above, queue, toB)
        BY <1>5, Zenon DEF BeginDrain, Abandon
    <2>2. live \ above \in SUBSET live
        OBVIOUS
    <2>3. queue \in Seq(Requests) /\ Distinct(queue) /\ \A r \in ToSet(queue) : r \notin live
        BY DEF Distinct, ToSet
    <2> HIDE DEF above, queue
    <2> QED BY <2>1, <2>2, <2>3, <1>4, <1>5, Served, Zenon
<1>6. CASE NoForget
    <2>1. live' = live /\ pending' = pending
        BY <1>6, Zenon DEF NoForget
    <2>2. Cardinality(live) \in Nat /\ limit \in Nat /\ limit' \in Nat
        <3>1. Table
            BY TypedTable, Zenon DEF UInv, Base
        <3>2. IsFiniteSet(Requests) /\ live \in SUBSET Requests /\ limit \in Nat
            BY <3>1, UpstreamAssumption, Zenon DEF Table
        <3>3. IsFiniteSet(live)
            BY <3>2, FS_Subset, Zenon
        <3>4. limit' \in Nat
            <4>1. UInv'
                BY FrameSteps, Zenon
            <4> QED BY <4>1, Zenon DEF UInv, Base, Types, TypeOK
        <3> QED BY <3>2, <3>3, <3>4, FS_CardinalityType, Zenon
    <2>3. ~(Cardinality(live) < limit) => ~(Cardinality(live) < limit')
        BY <2>2
    <2> QED BY <2>1, <2>3, <1>1, Zenon DEF NoIdleSlot, CanOpen
<1>7. CASE Forget(f.r, toB) /\ limit' = limit
    BY <1>4, <1>7, Passed, Zenon
<1> QED BY <1>3, <1>5, <1>6, <1>7

LEMMA SlotsElsewhere ==
    ASSUME UInv, NoIdleSlot, [Next]_vars, ~TakeMessage, ~TakeFrame
    PROVE  NoIdleSlot'
<1>1. \/ UNCHANGED <<up, limit, live, pending>>
      \/ up' # "open"
    <2>1. CASE \E r \in Requests : SendRequest(r) \/ SendBody(r) \/ SendCancel(r) \/ PumpBody(r)
        BY <2>1, Zenon DEF SendRequest, SendBody, SendCancel, PumpBody, taskVars
    <2>2. CASE DrainDone \/ DrainDeadline \/ ConnectionFails \/ FailAllRoutes \/ CloseInbox
        BY <2>2 DEF DrainDone, DrainDeadline, ConnectionFails, FailAllRoutes, CloseInbox
    <2>3. CASE \/ BackendTake \/ BackendGoAway \/ BackendSettings
               \/ \E r \in Requests :
                      \/ BackendHead(r) \/ BackendData(r) \/ BackendEnd(r) \/ BackendReset(r)
                      \/ BackendZeroUpdate(r) \/ BackendBadTrailers(r)
        BY <2>3, Zenon DEF BackendTake, BackendGoAway, BackendSettings, BackendHead, BackendData,
           BackendEnd, BackendReset, BackendZeroUpdate, BackendBadTrailers, Respond, Say, taskVars
    <2>4. CASE UNCHANGED vars
        BY <2>4, Zenon DEF vars, taskVars
    <2> QED BY <2>1, <2>2, <2>3, <2>4, Zenon DEF Next
<1> QED BY <1>1, Zenon DEF NoIdleSlot, CanOpen

\* What becomes of the wire from the backend: nothing, one frame less, or one more.
LEMMA NewsKinds ==
    ASSUME UInv, NoZeroUpdates, [Next]_vars
    PROVE  \/ fromB' = fromB
           \/ fromB # <<>> /\ fromB' = Tail(fromB)
           \/ \E f : fromB' = Append(fromB, f) /\ f.k # "ZEROUPDATE"
<1>1. CASE \E r \in Requests : SendRequest(r) \/ SendBody(r) \/ SendCancel(r) \/ PumpBody(r)
    BY <1>1, Zenon DEF SendRequest, SendBody, SendCancel, PumpBody
<1>2. CASE \/ DrainDone \/ DrainDeadline \/ ConnectionFails \/ FailAllRoutes \/ CloseInbox
           \/ TakeMessage \/ UNCHANGED vars
    BY <1>2, Zenon DEF DrainDone, DrainDeadline, ConnectionFails, FailAllRoutes, CloseInbox,
       TakeMessage, vars
<1>3. CASE TakeFrame
    BY <1>3, Zenon DEF TakeFrame
<1>4. CASE BackendTake
    <2>1. PICK f : Takes(f)
        BY <1>4, Taking, Zenon
    <2>2. CASE Refuse(f)
        <3> DEFINE g == [k |-> "RST", r |-> f.r, refused |-> TRUE]
        <3>1. g.k # "ZEROUPDATE"
            OBVIOUS
        <3>2. fromB' = Append(fromB, g)
            BY <2>2, Zenon DEF Refuse
        <3> QED BY <3>1, <3>2, Zenon
    <2>3. CASE ~Refuse(f)
        BY <2>1, <2>3, Zenon DEF Takes, Accept
    <2> QED BY <2>2, <2>3
<1>5. ASSUME NEW r \in Requests,
             BackendHead(r) \/ BackendData(r) \/ BackendEnd(r) \/ BackendReset(r) \/ BackendBadTrailers(r)
      PROVE  \E f : fromB' = Append(fromB, f) /\ f.k # "ZEROUPDATE"
    <2>1. \A kind, end : Frame(kind, r, end).k = kind
        BY DEF Frame
    <2>2. \A end : Frame("HEADERS", r, end).k # "ZEROUPDATE"
        BY <2>1
    <2>3. \A end : Frame("DATA", r, end).k # "ZEROUPDATE" /\ Frame("BADTRAILERS", r, end).k # "ZEROUPDATE"
        BY <2>1
    <2>4. CASE BackendHead(r)
        BY <2>2, <2>4, Zenon DEF BackendHead, Respond
    <2>5. CASE BackendData(r)
        BY <2>3, <2>5, Zenon DEF BackendData, Respond
    <2>6. CASE BackendEnd(r)
        <3>1. PICK kind \in {"DATA", "HEADERS"} : fromB' = Append(fromB, Frame(kind, r, TRUE))
            BY <2>6, Zenon DEF BackendEnd, Respond
        <3>2. kind # "ZEROUPDATE"
            BY <3>1
        <3>3. Frame(kind, r, TRUE).k # "ZEROUPDATE"
            BY <2>1, <3>2, Zenon
        <3> QED BY <3>1, <3>3, Zenon
    <2>7. CASE BackendReset(r)
        <3> DEFINE g == [k |-> "RST", r |-> r, refused |-> FALSE]
        <3>1. g.k # "ZEROUPDATE"
            OBVIOUS
        <3>2. fromB' = Append(fromB, g)
            BY <2>7, Zenon DEF BackendReset, Respond
        <3> QED BY <3>1, <3>2, Zenon
    <2>8. CASE BackendBadTrailers(r)
        BY <2>3, <2>8, Zenon DEF BackendBadTrailers, Say
    <2> QED BY <1>5, <2>4, <2>5, <2>6, <2>7, <2>8
<1>6. CASE BackendGoAway
    <2>1. PICK last : fromB' = Append(fromB, [k |-> "GOAWAY", last |-> last])
        BY <1>6, Zenon DEF BackendGoAway, Say
    <2> DEFINE g == [k |-> "GOAWAY", last |-> last]
    <2>2. g.k # "ZEROUPDATE"
        OBVIOUS
    <2> HIDE DEF g
    <2> QED BY <2>1, <2>2, Zenon DEF g
<1>7. CASE BackendSettings
    <2>1. PICK max : fromB' = Append(fromB, [k |-> "SETTINGS", max |-> max])
        BY <1>7, Zenon DEF BackendSettings, Say
    <2> DEFINE g == [k |-> "SETTINGS", max |-> max]
    <2>2. g.k # "ZEROUPDATE"
        OBVIOUS
    <2> HIDE DEF g
    <2> QED BY <2>1, <2>2, Zenon DEF g
<1>8. \A r : ~BackendZeroUpdate(r)
    BY Zenon DEF BackendZeroUpdate, NoZeroUpdates
<1> QED BY <1>1, <1>2, <1>3, <1>4, <1>5, <1>6, <1>7, <1>8, Zenon DEF Next

\* A backend that makes no such WINDOW_UPDATE puts none on the wire.
LEMMA NoZeroKept ==
    ASSUME UInv, NoZero, NoZeroUpdates, [Next]_vars
    PROVE  NoZero'
<1>1. fromB \in Seq(UpFrame) /\ fromB' \in Seq(UpFrame)
    <2>1. UInv'
        BY UInvKept, Zenon
    <2> QED BY <2>1, Zenon DEF UInv, Base, Types
<1>2. \/ fromB' = fromB
      \/ fromB # <<>> /\ fromB' = Tail(fromB)
      \/ \E f : fromB' = Append(fromB, f) /\ f.k # "ZEROUPDATE"
    BY NewsKinds, Zenon
<1>3. CASE fromB # <<>> /\ fromB' = Tail(fromB)
    <2>1. Shorter(fromB, fromB')
        BY <1>1, <1>3, Taken, Zenon
    <2>2. \A i \in DOMAIN fromB' : i + 1 \in DOMAIN fromB /\ fromB'[i] = fromB[i + 1]
        BY <2>1 DEF Shorter
    <2> QED BY <2>2, Zenon DEF NoZero
<1>4. ASSUME NEW f, fromB' = Append(fromB, f), f.k # "ZEROUPDATE" PROVE NoZero'
    <2>1. \A i \in DOMAIN fromB' : fromB'[i] = f \/ (i \in DOMAIN fromB /\ fromB'[i] = fromB[i])
        BY <1>1, <1>4
    <2> QED BY <2>1, <1>4, Zenon DEF NoZero
<1>5. CASE fromB' = fromB
    BY <1>5, Zenon DEF NoZero
<1> QED BY <1>2, <1>3, <1>4, <1>5, Zenon

\* Nobody waits for a slot while one is free (drain_pending): wherever a stream ends
\* the queue is served.  The two ways a slot is freed and nobody is told, a
\* WINDOW_UPDATE of zero and SETTINGS that raise the limit, are left out.
THEOREM SlotsServed ==
    ASSUME NoZeroUpdates
    PROVE  Spec /\ [][limit' <= limit]_limit => []NoIdleSlot
<1>1. Init => UInv /\ NoIdleSlot /\ NoZero
    <2> SUFFICES ASSUME Init PROVE NoIdleSlot /\ NoZero
        BY UInvInit
    <2>1. pending = <<>> /\ fromB = <<>>
        BY Zenon DEF Init
    <2> QED BY <2>1 DEF NoIdleSlot, NoZero
<1>2. (UInv /\ NoIdleSlot /\ NoZero) /\ [Next]_vars /\ [limit' <= limit]_limit
          => (UInv /\ NoIdleSlot /\ NoZero)'
    <2> SUFFICES ASSUME UInv, NoIdleSlot, NoZero, [Next]_vars, [limit' <= limit]_limit
                 PROVE  UInv' /\ NoIdleSlot' /\ NoZero'
        OBVIOUS
    <2>1. UInv' /\ NoZero'
        BY UInvKept, NoZeroKept, Zenon
    <2>2. limit' <= limit
        <3>1. limit \in Nat
            BY Zenon DEF UInv, Base, Types, TypeOK
        <3>2. limit' <= limit \/ limit' = limit
            OBVIOUS
        <3> QED BY <3>1, <3>2
    <2>3. NoIdleSlot'
        BY <2>2, SlotsMessage, SlotsFrame, SlotsElsewhere, Zenon
    <2> QED BY <2>1, <2>3
<1> QED BY <1>1, <1>2, PTL DEF Spec

-----------------------------------------------------------------------------
(* The events of a request are a response. *)

\* A frame about r; one that opens its response, and does not end it.
Of(f, r)      == About(f) /\ f.r = r
Opening(f, r) == f.k = "HEADERS" /\ f.r = r /\ ~f.end

\* What is on its way continues what the client was told of r's response, and what
\* the backend has still to say continues that.
Flow(r) ==
    /\ stage[r] \in {"none", "head"}
    /\ \A i \in DOMAIN fromB :
           /\ Opening(fromB[i], r) =>
                  stage[r] = "none" /\ \A j \in DOMAIN fromB : j < i => ~Of(fromB[j], r)
           /\ fromB[i].k = "DATA" /\ fromB[i].r = r =>
                  stage[r] = "head" \/ \E j \in DOMAIN fromB : j < i /\ Opening(fromB[j], r)
    /\ bState[r] \in {"idle", "open"} =>
           stage[r] = "none" /\ \A i \in DOMAIN fromB : ~Of(fromB[i], r)
    /\ bState[r] \in {"head", "data"} =>
           stage[r] = "head" \/ \E i \in DOMAIN fromB : Opening(fromB[i], r)

\* While the connection lives, who is routed has a stream.
Flows ==
    /\ EventsWellFormed
    /\ up \in {"open", "stopping"} => live = routes /\ \A r \in routes : Flow(r)

LEMMA OpeningOf == ASSUME NEW f, NEW r, Opening(f, r) PROVE Of(f, r)
BY DEF Opening, Of, About

\* Nothing was said of r.
LEMMA FlowStays ==
    ASSUME NEW r, Flow(r), stage'[r] = stage[r], fromB' = fromB,
           \/ bState'[r] = bState[r]
           \/ bState[r] = "idle" /\ bState'[r] = "open"
           \/ bState'[r] \in Settled
    PROVE  Flow(r)'
<1>1. /\ bState'[r] \in {"idle", "open"} => bState[r] \in {"idle", "open"}
      /\ bState'[r] \in {"head", "data"} => bState[r] \in {"head", "data"}
    BY DEF Settled
<1> QED BY <1>1, Zenon DEF Flow

\* The first frame is taken: it was not about r, or it opened r's response, or it
\* was part of it.
LEMMA FlowTaken ==
    ASSUME NEW r, Flow(r), NEW f, Shorter(fromB, fromB'), f = Head(fromB), bState'[r] = bState[r],
           \/ ~Of(f, r) /\ stage'[r] = stage[r]
           \/ Of(f, r) /\ f.k \in {"HEADERS", "DATA"} /\ ~f.end /\ stage'[r] = "head"
    PROVE  Flow(r)'
<1>1. /\ 1 \in DOMAIN fromB /\ fromB[1] = f
      /\ \A i \in DOMAIN fromB : i \in Nat /\ i >= 1
      /\ \A i \in DOMAIN fromB' : i \in Nat /\ i + 1 \in DOMAIN fromB /\ fromB'[i] = fromB[i + 1]
      /\ \A i \in DOMAIN fromB : i # 1 => i - 1 \in DOMAIN fromB' /\ fromB'[i - 1] = fromB[i]
    BY DEF Shorter
<1>2. CASE ~Of(f, r) /\ stage'[r] = stage[r]
    <2>1. ~Opening(f, r)
        BY <1>2, OpeningOf, Zenon
    <2>2. ASSUME NEW i \in DOMAIN fromB', Opening(fromB'[i], r)
          PROVE  stage'[r] = "none" /\ \A j \in DOMAIN fromB' : j < i => ~Of(fromB'[j], r)
        <3>1. /\ Opening(fromB[i + 1], r) /\ i + 1 \in DOMAIN fromB
              /\ \A j \in DOMAIN fromB' : j < i => j + 1 < i + 1
            BY <1>1, <2>2
        <3> QED BY <1>1, <1>2, <3>1, Zenon DEF Flow
    <2>3. ASSUME NEW i \in DOMAIN fromB', fromB'[i].k = "DATA", fromB'[i].r = r, stage'[r] # "head"
          PROVE  \E j \in DOMAIN fromB' : j < i /\ Opening(fromB'[j], r)
        <3>1. i + 1 \in DOMAIN fromB /\ fromB[i + 1].k = "DATA" /\ fromB[i + 1].r = r
            BY <1>1, <2>3
        <3>2. PICK j \in DOMAIN fromB : j < i + 1 /\ Opening(fromB[j], r)
            BY <1>2, <2>3, <3>1, Zenon DEF Flow
        <3>3. j # 1
            BY <1>1, <2>1, <3>2
        <3>4. j - 1 < i
            BY <1>1, <3>2
        <3> QED BY <1>1, <3>2, <3>3, <3>4, Zenon
    <2>4. bState'[r] \in {"idle", "open"} =>
              stage'[r] = "none" /\ \A i \in DOMAIN fromB' : ~Of(fromB'[i], r)
        BY <1>1, <1>2, Zenon DEF Flow
    <2>5. ASSUME bState'[r] \in {"head", "data"}, stage'[r] # "head"
          PROVE  \E i \in DOMAIN fromB' : Opening(fromB'[i], r)
        <3>1. PICK j \in DOMAIN fromB : Opening(fromB[j], r)
            BY <1>2, <2>5, Zenon DEF Flow
        <3>2. j # 1
            BY <1>1, <2>1, <3>1
        <3> QED BY <1>1, <3>1, <3>2, Zenon
    <2>6. stage'[r] \in {"none", "head"}
        BY <1>2, Zenon DEF Flow
    <2> QED BY <2>2, <2>3, <2>4, <2>5, <2>6, Zenon DEF Flow
<1>3. CASE Of(f, r) /\ f.k \in {"HEADERS", "DATA"} /\ ~f.end /\ stage'[r] = "head"
    <2>1. bState'[r] \notin {"idle", "open"}
        BY <1>1, <1>3, Zenon DEF Flow
    <2>2. stage[r] # "none" \/ Opening(f, r)
        <3>1. CASE f.k = "DATA"
            <4>1. f.r = r
                BY <1>3, Zenon DEF Of
            <4>2. ~\E j \in DOMAIN fromB : j < 1
                BY <1>1
            <4>3. stage[r] = "head"
                BY <1>1, <3>1, <4>1, <4>2, Zenon DEF Flow
            <4> QED BY <4>3
        <3>2. CASE f.k = "HEADERS"
            BY <1>3, <3>2, Zenon DEF Of, Opening
        <3> QED BY <1>3, <3>1, <3>2
    <2>3. ASSUME NEW i \in DOMAIN fromB', Opening(fromB'[i], r) PROVE FALSE
        <3>1. Opening(fromB[i + 1], r) /\ i + 1 \in DOMAIN fromB /\ 1 < i + 1
            <4>1. i >= 1
                BY <1>1, <2>3 DEF Shorter
            <4> QED BY <1>1, <2>3, <4>1
        <3>2. ~Of(f, r)
            BY <1>1, <3>1, Zenon DEF Flow
        <3> QED BY <1>3, <3>2
    <2> QED BY <1>3, <2>1, <2>3, Zenon DEF Flow
<1> QED BY <1>2, <1>3

\* Of a request without a stream nothing was said.
LEMMA FlowBegins ==
    ASSUME UInv, NEW r \in Requests, r \notin Known, stage'[r] = "none",
           OldNews(fromB'), bState' = bState
    PROVE  Flow(r)'
<1>1. bState[r] = "idle"
    BY Waiting, Zenon
<1>2. \A i \in DOMAIN fromB' : ~Of(fromB'[i], r)
    <2> SUFFICES ASSUME NEW i \in DOMAIN fromB', Of(fromB'[i], r) PROVE FALSE
        OBVIOUS
    <2>1. PICK j \in DOMAIN fromB : fromB'[i] = fromB[j]
        BY Zenon DEF OldNews
    <2>2. Said(fromB[j]) /\ Of(fromB[j], r)
        BY <2>1, Zenon DEF UInv, Base, Backend
    <2> QED BY <2>2, Zenon DEF Said, Of
<1>3. \A i \in DOMAIN fromB' : /\ ~Opening(fromB'[i], r)
                               /\ ~(fromB'[i].k = "DATA" /\ fromB'[i].r = r)
    <2> SUFFICES ASSUME NEW f, ~Of(f, r) PROVE ~Opening(f, r) /\ ~(f.k = "DATA" /\ f.r = r)
        BY <1>2, Zenon
    <2> QED BY DEF Of, Opening, About
<1>4. bState'[r] \notin {"head", "data"}
    BY <1>1
<1> QED BY <1>1, <1>2, <1>3, <1>4, Zenon DEF Flow

\* One frame more: not about r, or the end of what is said of it, or its opening, or
\* part of it.
LEMMA FlowGrows ==
    ASSUME NEW r, Flow(r), NEW f, Longer(fromB, fromB', f), stage'[r] = stage[r],
           \/ ~Of(f, r) /\ (bState'[r] = bState[r] \/ bState'[r] \in Settled)
           \/ ~Opening(f, r) /\ f.k # "DATA" /\ bState'[r] \in Settled
           \/ Opening(f, r) /\ bState[r] = "open" /\ bState'[r] = "head"
           \/ f.k = "DATA" /\ bState[r] \in {"head", "data"} /\ bState'[r] \in Settled \cup {"data"}
    PROVE  Flow(r)'
<1> DEFINE n == Len(fromB) + 1
<1>1. /\ n \in Nat /\ n \in DOMAIN fromB' /\ fromB'[n] = f
      /\ \A i \in DOMAIN fromB' : i = n \/ i \in DOMAIN fromB
      /\ \A i \in DOMAIN fromB : i \in DOMAIN fromB' /\ i < n /\ ~(n < i) /\ fromB'[i] = fromB[i]
      /\ ~(n < n)
    BY DEF Longer
<1> HIDE DEF n
<1>2. bState'[r] \in Settled => bState'[r] \notin {"idle", "open", "head", "data"}
    BY DEF Settled
<1>3. Opening(f, r) => bState[r] = "open" /\ bState'[r] = "head"
    BY OpeningOf DEF Opening
<1>4. f.k = "DATA" /\ f.r = r => bState[r] \in {"head", "data"}
    BY DEF Of, Opening, About
<1>5. ASSUME NEW i \in DOMAIN fromB', Opening(fromB'[i], r)
      PROVE  stage[r] = "none" /\ \A j \in DOMAIN fromB' : j < i => ~Of(fromB'[j], r)
    <2>1. CASE i = n
        <3>1. bState[r] \in {"idle", "open"}
            BY <1>1, <1>3, <1>5, <2>1
        <3>2. stage[r] = "none" /\ \A j \in DOMAIN fromB : ~Of(fromB[j], r)
            BY <3>1, Zenon DEF Flow
        <3> QED BY <1>1, <2>1, <3>2
    <2>2. CASE i \in DOMAIN fromB
        <3>1. Opening(fromB[i], r)
            BY <1>1, <1>5, <2>2
        <3>2. stage[r] = "none" /\ \A j \in DOMAIN fromB : j < i => ~Of(fromB[j], r)
            BY <2>2, <3>1, Zenon DEF Flow
        <3> QED BY <1>1, <2>2, <3>2
    <2> QED BY <1>1, <2>1, <2>2
<1>6. ASSUME NEW i \in DOMAIN fromB', fromB'[i].k = "DATA", fromB'[i].r = r, stage[r] # "head"
      PROVE  \E j \in DOMAIN fromB' : j < i /\ Opening(fromB'[j], r)
    <2>1. CASE i = n
        <3>1. bState[r] \in {"head", "data"}
            BY <1>1, <1>4, <1>6, <2>1
        <3>2. PICK j \in DOMAIN fromB : Opening(fromB[j], r)
            BY <1>6, <3>1, Zenon DEF Flow
        <3> QED BY <1>1, <2>1, <3>2
    <2>2. CASE i \in DOMAIN fromB
        <3>1. fromB[i].k = "DATA" /\ fromB[i].r = r
            BY <1>1, <1>6, <2>2
        <3>2. PICK j \in DOMAIN fromB : j < i /\ Opening(fromB[j], r)
            BY <1>6, <2>2, <3>1, Zenon DEF Flow
        <3> QED BY <1>1, <3>2
    <2> QED BY <1>1, <2>1, <2>2
<1>7. ASSUME bState'[r] \in {"idle", "open"}
      PROVE  stage[r] = "none" /\ \A i \in DOMAIN fromB' : ~Of(fromB'[i], r)
    <2>1. ~Of(f, r) /\ bState'[r] = bState[r]
        BY <1>2, <1>7
    <2>2. stage[r] = "none" /\ \A i \in DOMAIN fromB : ~Of(fromB[i], r)
        BY <1>7, <2>1, Zenon DEF Flow
    <2> QED BY <1>1, <2>1, <2>2
<1>8. ASSUME bState'[r] \in {"head", "data"}, stage[r] # "head"
      PROVE  \E i \in DOMAIN fromB' : Opening(fromB'[i], r)
    <2>1. Opening(f, r) \/ bState[r] \in {"head", "data"}
        BY <1>2, <1>8
    <2>2. CASE Opening(f, r)
        BY <1>1, <2>2
    <2>3. CASE bState[r] \in {"head", "data"}
        <3>1. PICK j \in DOMAIN fromB : Opening(fromB[j], r)
            BY <1>8, <2>3, Zenon DEF Flow
        <3> QED BY <1>1, <3>1
    <2> QED BY <2>1, <2>2, <2>3
<1>9. stage[r] \in {"none", "head"}
    BY Zenon DEF Flow
<1> QED BY <1>5, <1>6, <1>7, <1>8, <1>9, Zenon DEF Flow

\* Who has a stream once the queue was served had one before, or waited.
LEMMA FlowsOn ==
    ASSUME UInv, NEW kept, kept \in SUBSET Requests, NEW queue \in Seq(Requests), Distinct(queue),
           \A r \in ToSet(queue) : r \notin Known /\ stage'[r] = "none",
           NEW frames \in Seq(DownFrame), FillSlots(kept, kept, queue, frames),
           OldNews(fromB'), bState' = bState, \A r \in kept : Flow(r)'
    PROVE  live' = routes' /\ \A r \in routes' : Flow(r)'
<1>1. Table
    BY TypedTable, Zenon DEF UInv, Base
<1>2. PICK n \in 0..Len(queue) : Opens(queue, n, kept, kept, frames)
    BY <1>1, Filled, Zenon
<1>3. live' = kept \cup Firsts(queue, n) /\ routes' = kept \cup Firsts(queue, n)
    BY <1>2, Zenon DEF Opens
<1>4. \A r \in Firsts(queue, n) : r \in Requests /\ r \in ToSet(queue)
    BY DEF Firsts, ToSet
<1>5. \A r \in Firsts(queue, n) : Flow(r)'
    BY <1>4, FlowBegins, Zenon
<1> QED BY <1>3, <1>5

\* What an event makes of a request that is none or a head so far.
LEMMA Legal ==
    /\ After("none", "Head") = "head" /\ After("head", "Data") = "head"
    /\ After("none", "HeadEnd") # "illegal" /\ After("head", "End") # "illegal"
    /\ After("none", "reset") # "illegal" /\ After("head", "reset") # "illegal"
    /\ After("none", "refused") # "illegal" /\ After("none", "gone") # "illegal"
    /\ After("none", "shed") # "illegal"
BY DEF After

LEMMA Told ==
    ASSUME UInv, EventsWellFormed, NEW r \in Requests,
           \A s \in Requests : s # r => stage'[s] = stage[s], stage'[r] # "illegal"
    PROVE  EventsWellFormed'
BY Zenon DEF EventsWellFormed

LEMMA FlowsMessage ==
    ASSUME UInv, Flows, TakeMessage
    PROVE  Flows'
<1> DEFINE m == Head(inbox)
<1>1. /\ inbox # <<>> /\ up = "open" /\ up' = "open" /\ inbox' = Tail(inbox)
      /\ UNCHANGED <<clientVars, fromB, backendVars>>
    BY Zenon DEF TakeMessage
<1>2. m \in Message /\ (m.k = "Request" => Fresh(m.r))
    <2>1. Types /\ InOrder /\ asked' = asked
        BY <1>1, Zenon DEF UInv, Base, clientVars
    <2> QED BY <2>1, <1>1, MessageTaken, Zenon
<1>3. \/ m.k = "Request" /\ TakeRequest(m.r)
      \/ TakeBody(m.r, m.end)
      \/ TakeCancel(m.r)
    <2>1. m.k \in {"Request", "Body", "Cancel"}
        BY <1>2 DEF Message
    <2> QED BY <2>1 DEF TakeMessage
<1>4. m.r \in Requests
    BY <1>2 DEF Message
<1> HIDE DEF m
<1>5. /\ EventsWellFormed /\ live = routes /\ \A r \in routes : Flow(r)
      /\ bState' = bState /\ fromB' = fromB /\ OldNews(fromB')
    <2>1. up \in {"open", "stopping"}
        BY <1>1
    <2> QED BY <2>1, <1>1, SameNews, Zenon DEF Flows, backendVars
<1>6. ASSUME NEW r \in routes, stage'[r] = stage[r] PROVE Flow(r)'
    BY <1>5, <1>6, FlowStays, Zenon
<1>7. ASSUME EventsWellFormed', live' = routes', \A r \in routes' : Flow(r)' PROVE Flows'
    BY <1>7, Zenon DEF Flows
<1>8. ASSUME stage' = stage PROVE EventsWellFormed' /\ \A r \in routes : Flow(r)'
    BY <1>5, <1>6, <1>8, Zenon DEF EventsWellFormed
<1>9. CASE m.k = "Request" /\ TakeRequest(m.r)
    <2>1. m.r \notin Known /\ stage[m.r] = "none" /\ \A r \in routes : r \in Requests /\ r # m.r
        <3>1. Known \subseteq Requests
            BY DEF Known
        <3> QED BY <3>1, <1>2, <1>4, <1>9, Waiting, Zenon
    <2>2. \/ NoForget /\ stage' = stage
          \/ NoForget /\ Emit(m.r, "refused")
          \/ NoForget /\ Emit(m.r, "shed")
          \/ OpenLocal(m.r) /\ routes' = routes \cup {m.r} /\ stage' = stage
          \/ UNCHANGED <<stage, live, routes>>
        BY <1>9 DEF TakeRequest, Admit
    <2>3. CASE NoForget /\ (Emit(m.r, "refused") \/ Emit(m.r, "shed"))
        <3>1. stage \in [Requests -> Stage]
            BY TaskTyped, Zenon DEF TaskTypes
        <3>2. /\ \A s \in Requests : s # m.r => stage'[s] = stage[s]
              /\ stage'[m.r] = After("none", "refused") \/ stage'[m.r] = After("none", "shed")
            BY <2>1, <2>3, <3>1, <1>4 DEF Emit
        <3>3. stage'[m.r] # "illegal"
            BY <3>2, Legal, Zenon
        <3>4. EventsWellFormed'
            BY <3>2, <3>3, <1>4, <1>5, Told, Zenon
        <3>5. live' = live /\ routes' = routes
            BY <2>3, Zenon DEF NoForget
        <3> QED BY <2>1, <3>2, <3>4, <3>5, <1>5, <1>6, <1>7, Zenon
    <2>4. CASE stage' = stage /\ live' = live /\ routes' = routes
        BY <2>4, <1>5, <1>7, <1>8, Zenon
    <2>5. CASE OpenLocal(m.r) /\ routes' = routes \cup {m.r} /\ stage' = stage
        <3>1. live' = routes'
            BY <2>5, <1>5 DEF OpenLocal
        <3>2. stage'[m.r] = "none"
            BY <2>1, <2>5
        <3>3. ASSUME NEW r, r = m.r PROVE Flow(r)'
            BY <2>1, <3>2, <3>3, <1>4, <1>5, FlowBegins, Zenon
        <3>4. \A r \in routes' : Flow(r)'
            <4> SUFFICES ASSUME NEW r \in routes' PROVE Flow(r)'
                OBVIOUS
            <4>1. r \in routes \/ r = m.r
                BY <2>5
            <4> QED BY <4>1, <2>5, <3>3, <1>8, Zenon
        <3> QED BY <2>5, <3>1, <3>4, <1>7, <1>8, Zenon
    <2> QED BY <2>2, <2>3, <2>4, <2>5, Zenon DEF NoForget
<1>10. CASE TakeBody(m.r, m.end)
    <2>1. stage' = stage /\ live' = live /\ routes' = routes
        BY <1>10, Zenon DEF TakeBody, Buffer
    <2> QED BY <2>1, <1>5, <1>7, <1>8, Zenon
<1>11. CASE TakeCancel(m.r)
    <2>1. stage' = stage
        BY <1>11, Zenon DEF TakeCancel
    <2>2. CASE m.r \in routes
        <3> DEFINE frames == IF m.r \in live THEN Append(toB, Frame("RST", m.r, FALSE)) ELSE toB
                   kept   == routes \ {m.r}
        <3>1. frames \in Seq(DownFrame)
            <4>1. toB \in Seq(DownFrame)
                BY Zenon DEF UInv, Base, Types
            <4>2. Frame("RST", m.r, FALSE) \in DownFrame
                BY <1>4, ResetType, Zenon
            <4>3. Append(toB, Frame("RST", m.r, FALSE)) \in Seq(DownFrame)
                BY <4>1, <4>2, Added, Zenon
            <4> QED BY <4>1, <4>3, Zenon
        <3>2. FillSlots(kept, kept, pending, frames)
            BY <2>2, <1>5, <1>11, Zenon DEF TakeCancel, Forget
        <3>3. /\ pending \in Seq(Requests) /\ Distinct(pending)
              /\ \A r \in ToSet(pending) : r \notin Known /\ stage'[r] = "none"
            BY <2>1, TaskTyped, Waiting, Zenon DEF TaskTypes
        <3>4. kept \in SUBSET Requests /\ \A r \in kept : r \in routes
            <4>1. routes \subseteq Requests
                BY Zenon DEF UInv, Base, Types, TypeOK
            <4> QED BY <4>1
        <3>5. \A r \in kept : Flow(r)'
            BY <2>1, <3>4, <1>8, Zenon
        <3> HIDE DEF frames, kept
        <3>6. live' = routes' /\ \A r \in routes' : Flow(r)'
            BY <3>1, <3>2, <3>3, <3>4, <3>5, <1>5, FlowsOn, Zenon
        <3> QED BY <2>1, <3>6, <1>7, <1>8, Zenon
    <2>3. CASE m.r \notin routes
        <3>1. live' = live /\ routes' = routes
            BY <2>3, <1>11, Zenon DEF TakeCancel
        <3> QED BY <2>1, <3>1, <1>5, <1>7, <1>8, Zenon
    <2> QED BY <2>2, <2>3
<1> QED BY <1>3, <1>9, <1>10, <1>11

\* What a frame about r makes of r: part of its response, or its end.
LEMMA Answers ==
    ASSUME UInv, EventsWellFormed, live = routes, \A r \in routes : Flow(r),
           NEW f \in UpFrame, f = Head(fromB), Shorter(fromB, fromB'),
           \/ f.k = "HEADERS" /\ RecvHeaders(f.r, f.end)
           \/ f.k = "DATA" /\ RecvData(f.r, f.end)
           \/ f.k = "RST" /\ RecvRst(f.r, f.refused)
           \/ f.k = "BADTRAILERS" /\ RecvBadTrailers(f.r)
    PROVE  /\ \A s \in Requests : s # f.r => stage'[s] = stage[s]
           /\ EventsWellFormed'
           /\ \/ Forget(f.r, toB)
              \/ NoForget /\ f.r \notin routes
              \/ NoForget /\ f.k \in {"HEADERS", "DATA"} /\ ~f.end /\ stage'[f.r] = "head"
<1> DEFINE r == f.r
<1>1. r \in Requests /\ stage \in [Requests -> Stage]
    <2>1. About(f)
        BY DEF About
    <2> QED BY <2>1, UpFields, TaskTyped, Zenon DEF TaskTypes
<1>2. 1 \in DOMAIN fromB /\ fromB[1] = f /\ ~\E j \in DOMAIN fromB : j < 1
    BY DEF Shorter
<1>3. f.k \in {"HEADERS", "DATA"} => f.end \in BOOLEAN
    BY UpFields
<1>4. r \in routes => /\ stage[r] \in {"none", "head"}
                      /\ f.k = "HEADERS" /\ ~f.end => stage[r] = "none"
                      /\ f.k = "DATA" => stage[r] = "head"
    <2> SUFFICES ASSUME r \in routes
                 PROVE  /\ stage[r] \in {"none", "head"}
                        /\ f.k = "HEADERS" /\ ~f.end => stage[r] = "none"
                        /\ f.k = "DATA" => stage[r] = "head"
        OBVIOUS
    <2>1. Flow(r)
        OBVIOUS
    <2>2. /\ stage[r] \in {"none", "head"}
          /\ Opening(fromB[1], r) => stage[r] = "none"
          /\ fromB[1].k = "DATA" /\ fromB[1].r = r => stage[r] = "head"
        BY <2>1, <1>2, Zenon DEF Flow
    <2>3. f.k = "HEADERS" /\ ~f.end => Opening(fromB[1], r)
        BY <1>2, Zenon DEF Opening
    <2> QED BY <2>2, <2>3, <1>2, Zenon
<1> HIDE DEF r
<1>5. ASSUME stage' = stage PROVE (\A s \in Requests : s # r => stage'[s] = stage[s]) /\ EventsWellFormed'
    BY <1>5, Zenon DEF EventsWellFormed
<1>6. ASSUME NEW now, stage' = [stage EXCEPT ![r] = now], now # "illegal"
      PROVE  (\A s \in Requests : s # r => stage'[s] = stage[s]) /\ EventsWellFormed' /\ stage'[r] = now
    <2>1. (\A s \in Requests : s # r => stage'[s] = stage[s]) /\ stage'[r] = now
        BY <1>1, <1>6
    <2> QED BY <2>1, <1>1, <1>6, Told, Zenon
<1>7. CASE f.k = "HEADERS" /\ RecvHeaders(r, f.end)
    <2>1. CASE r \notin routes
        <3>1. NoForget /\ stage' = stage
            BY <1>7, <2>1 DEF RecvHeaders
        <3> QED BY <2>1, <3>1, <1>5 DEF r
    <2>2. CASE r \in routes
        <3> DEFINE event == CASE stage[r] # "none" -> "End"
                              [] stage[r] = "none" -> IF f.end THEN "HeadEnd" ELSE "Head"
                   now   == After(stage[r], event)
        <3>1. stage' = [stage EXCEPT ![r] = now] /\ IF f.end THEN Forget(r, toB) ELSE NoForget
            BY <1>7, <2>2 DEF RecvHeaders
        <3>2. now # "illegal" /\ (~f.end => now = "head")
            <4>1. CASE stage[r] = "none" /\ ~f.end
                <5>1. now = After("none", "Head")
                    BY <4>1
                <5> QED BY <5>1, Legal
            <4>2. CASE stage[r] = "none" /\ f.end
                <5>1. now = After("none", "HeadEnd")
                    BY <4>2
                <5> QED BY <5>1, <4>2, Legal
            <4>3. CASE stage[r] = "head"
                <5>1. now = After("head", "End") /\ f.end
                    BY <4>3, <2>2, <1>3, <1>4, <1>7
                <5> QED BY <5>1, Legal
            <4> QED BY <4>1, <4>2, <4>3, <2>2, <1>3, <1>4, <1>7
        <3> HIDE DEF now
        <3>3. (\A s \in Requests : s # r => stage'[s] = stage[s]) /\ EventsWellFormed' /\ stage'[r] = now
            BY <3>1, <3>2, <1>6, Zenon
        <3>4. Forget(r, toB) \/ (NoForget /\ ~f.end /\ stage'[r] = "head")
            BY <3>1, <3>2, <3>3, Zenon
        <3> QED BY <3>3, <3>4, <1>7 DEF r
    <2> QED BY <2>1, <2>2
<1>8. CASE f.k = "DATA" /\ RecvData(r, f.end)
    <2>1. CASE r \notin routes
        <3>1. NoForget /\ stage' = stage
            BY <1>8, <2>1 DEF RecvData
        <3> QED BY <2>1, <3>1, <1>5 DEF r
    <2>2. CASE r \in routes
        <3> DEFINE now == After(stage[r], IF f.end THEN "End" ELSE "Data")
        <3>1. stage' = [stage EXCEPT ![r] = now] /\ IF f.end THEN Forget(r, toB) ELSE NoForget
            BY <1>8, <2>2 DEF RecvData, Emit
        <3>2. now # "illegal" /\ (~f.end => now = "head")
            <4>1. stage[r] = "head"
                BY <2>2, <1>4, <1>8
            <4>2. CASE f.end
                <5>1. now = After("head", "End")
                    BY <4>1, <4>2
                <5> QED BY <5>1, <4>2, Legal
            <4>3. CASE ~f.end
                <5>1. now = After("head", "Data")
                    BY <4>1, <4>3
                <5> QED BY <5>1, Legal
            <4> QED BY <4>2, <4>3
        <3> HIDE DEF now
        <3>3. (\A s \in Requests : s # r => stage'[s] = stage[s]) /\ EventsWellFormed' /\ stage'[r] = now
            BY <3>1, <3>2, <1>6, Zenon
        <3>4. Forget(r, toB) \/ (NoForget /\ ~f.end /\ stage'[r] = "head")
            BY <3>1, <3>2, <3>3, Zenon
        <3> QED BY <3>3, <3>4, <1>8 DEF r
    <2> QED BY <2>1, <2>2
<1>9. CASE f.k = "RST" /\ RecvRst(r, f.refused)
    <2>1. Forget(r, toB)
        BY <1>9, Zenon DEF RecvRst
    <2>2. CASE r \notin routes
        <3>1. stage' = stage
            BY <1>9, <2>2 DEF RecvRst
        <3> QED BY <2>1, <3>1, <1>5 DEF r
    <2>3. CASE r \in routes
        <3> DEFINE now == After(stage[r], IF f.refused /\ stage[r] = "none" THEN "refused" ELSE "reset")
        <3>1. stage' = [stage EXCEPT ![r] = now]
            BY <1>9, <2>3 DEF RecvRst, Emit
        <3>2. now # "illegal"
            <4>1. \/ now = After("none", "refused")
                  \/ now = After("none", "reset")
                  \/ now = After("head", "reset")
                BY <2>3, <1>4
            <4> QED BY <4>1, Legal
        <3> HIDE DEF now
        <3>3. (\A s \in Requests : s # r => stage'[s] = stage[s]) /\ EventsWellFormed'
            BY <3>1, <3>2, <1>6, Zenon
        <3> QED BY <2>1, <3>3 DEF r
    <2> QED BY <2>2, <2>3
<1>10. CASE f.k = "BADTRAILERS" /\ RecvBadTrailers(r)
    <2>1. stage' = stage /\ (Forget(r, toB) \/ (NoForget /\ r \notin routes))
        BY <1>10 DEF RecvBadTrailers
    <2> QED BY <2>1, <1>5 DEF r
<1> QED BY <1>7, <1>8, <1>9, <1>10 DEF r

LEMMA FlowsFrame ==
    ASSUME UInv, Flows, NoZero, TakeFrame
    PROVE  Flows'
<1>1. PICK f : f = Head(fromB)
    OBVIOUS
<1>2. /\ fromB # <<>> /\ up = "open" /\ up' = "open" /\ fromB' = Tail(fromB)
      /\ UNCHANGED backendVars
    BY Zenon DEF TakeFrame
<1>3. f \in UpFrame /\ Shorter(fromB, fromB') /\ Said(f) /\ OldNews(fromB') /\ f.k # "ZEROUPDATE"
    <2>1. fromB \in Seq(UpFrame)
        BY Zenon DEF UInv, Base, Types
    <2>2. Shorter(fromB, fromB')
        BY <2>1, <1>2, Taken, Zenon
    <2>3. 1 \in DOMAIN fromB /\ fromB[1] = f
        BY <2>2, <1>1 DEF Shorter
    <2> QED BY <2>2, <2>3, <1>1, <1>2, FrameTaken, Zenon DEF NoZero
<1>4. /\ EventsWellFormed /\ live = routes /\ routes \subseteq Requests
      /\ \A r \in routes : Flow(r)
      /\ bState' = bState
    <2>1. up \in {"open", "stopping"}
        BY <1>2
    <2>2. routes \subseteq Requests
        BY Zenon DEF UInv, Base, Types, TypeOK
    <2> QED BY <2>1, <2>2, <1>2, Zenon DEF Flows, backendVars
<1>5. ASSUME NEW r \in routes, ~Of(f, r), stage'[r] = stage[r] PROVE Flow(r)'
    BY <1>1, <1>3, <1>4, <1>5, FlowTaken, Zenon
<1>6. ASSUME EventsWellFormed', live' = routes', \A r \in routes' : Flow(r)' PROVE Flows'
    BY <1>6, Zenon DEF Flows
<1>7. toB \in Seq(DownFrame) /\ pending \in Seq(Requests) /\ Distinct(pending)
      /\ \A r \in ToSet(pending) : r \in Requests /\ r \notin Known /\ stage[r] = "none"
    <2>1. toB \in Seq(DownFrame)
        BY Zenon DEF UInv, Base, Types
    <2> QED BY <2>1, TaskTyped, Waiting, Zenon DEF TaskTypes
<1>8. \/ f.k = "GOAWAY" /\ BeginDrain(f.last)
      \/ f.k = "SETTINGS" /\ NoForget /\ stage' = stage
      \/ /\ About(f)
         /\ \/ f.k = "HEADERS" /\ RecvHeaders(f.r, f.end)
            \/ f.k = "DATA" /\ RecvData(f.r, f.end)
            \/ f.k = "RST" /\ RecvRst(f.r, f.refused)
            \/ f.k = "BADTRAILERS" /\ RecvBadTrailers(f.r)
    <2>1. f.k \in {"HEADERS", "DATA", "BADTRAILERS", "RST", "GOAWAY", "SETTINGS"}
        <3>1. f.k \in {"HEADERS", "DATA", "ZEROUPDATE", "BADTRAILERS", "RST", "GOAWAY", "SETTINGS"}
            BY <1>3, UpFields, Zenon
        <3> QED BY <3>1, <1>3
    <2> QED BY <2>1, <1>1 DEF TakeFrame, About
<1>9. CASE f.k = "GOAWAY" /\ BeginDrain(f.last)
    <2> DEFINE above == {r \in routes : id[r] > f.last}
               kept  == routes \ above
               queue == <<>>
    <2>1. /\ FillSlots(kept, kept, queue, toB)
          /\ stage' = Tell(ToSet(pending) \cup above, "refused")
        BY <1>4, <1>9, Zenon DEF BeginDrain, Abandon
    <2>2. \A r \in above : r \in Requests /\ stage[r] = "none"
        <3> SUFFICES ASSUME NEW r \in above PROVE r \in Requests /\ stage[r] = "none"
            OBVIOUS
        <3>1. r \in Requests /\ Flow(r) /\ id[r] > f.last
            BY <1>4
        <3>2. bState[r] # "idle" => id[r] <= f.last
            BY <3>1, <1>3, <1>9, Zenon DEF Said
        <3>3. id[r] \in Nat /\ f.last \in Nat
            <4>1. id \in [Requests -> Nat] /\ f.last \in 0..Never
                BY <1>3, <1>9, UpFields, Zenon DEF UInv, Base, Types, TypeOK
            <4> QED BY <3>1, <4>1
        <3>4. bState[r] = "idle"
            BY <3>1, <3>2, <3>3
        <3>5. bState[r] \in {"idle", "open"}
            BY <3>4
        <3> QED BY <3>1, <3>5, Zenon DEF Flow
    <2>3. \A r \in kept : r \in routes /\ r \in Requests /\ r \notin above
        BY <1>4
    <2>4. kept \in SUBSET Requests
        BY <1>4
    <2>5. queue \in Seq(Requests) /\ Distinct(queue) /\ ToSet(queue) = {}
        BY DEF Distinct, ToSet
    <2> HIDE DEF above, kept, queue
    <2>6. /\ \A r \in Requests : r \notin ToSet(pending) \cup above => stage'[r] = stage[r]
          /\ \A r \in ToSet(pending) \cup above : stage'[r] = After("none", "refused")
        BY <1>7, <2>1, <2>2 DEF Tell
    <2>7. EventsWellFormed'
        BY <1>4, <2>6, Legal, Zenon DEF EventsWellFormed
    <2>8. \A r \in kept : Flow(r)'
        <3> SUFFICES ASSUME NEW r \in kept PROVE Flow(r)'
            OBVIOUS
        <3>1. r \notin ToSet(pending)
            BY <2>3, Waiting, Zenon
        <3>2. ~Of(f, r)
            BY <1>9 DEF Of, About
        <3> QED BY <2>3, <2>6, <3>1, <3>2, <1>5, Zenon
    <2>9. live' = routes' /\ \A r \in routes' : Flow(r)'
        <3>1. \A r \in ToSet(queue) : r \notin Known /\ stage'[r] = "none"
            BY <2>5
        <3> QED BY <2>1, <2>4, <2>5, <2>8, <3>1, <1>3, <1>4, <1>7, FlowsOn, Zenon
    <2> QED BY <2>7, <2>9, <1>6
<1>10. CASE f.k = "SETTINGS" /\ NoForget /\ stage' = stage
    <2>1. EventsWellFormed' /\ live' = live /\ routes' = routes
        BY <1>4, <1>10, Zenon DEF EventsWellFormed, NoForget
    <2>2. \A r : ~Of(f, r)
        BY <1>10 DEF Of, About
    <2>3. \A r \in routes : Flow(r)'
        BY <2>2, <1>5, <1>10, Zenon
    <2> QED BY <2>1, <2>3, <1>4, <1>6, Zenon
<1>11. CASE About(f) /\ \/ f.k = "HEADERS" /\ RecvHeaders(f.r, f.end)
                        \/ f.k = "DATA" /\ RecvData(f.r, f.end)
                        \/ f.k = "RST" /\ RecvRst(f.r, f.refused)
                        \/ f.k = "BADTRAILERS" /\ RecvBadTrailers(f.r)
    <2>1. /\ \A s \in Requests : s # f.r => stage'[s] = stage[s]
          /\ EventsWellFormed'
          /\ \/ Forget(f.r, toB)
             \/ NoForget /\ f.r \notin routes
             \/ NoForget /\ f.k \in {"HEADERS", "DATA"} /\ ~f.end /\ stage'[f.r] = "head"
        BY <1>1, <1>3, <1>4, <1>11, Answers, Zenon
    <2>2. f.r \in Known
        BY <1>3, <1>11, Zenon DEF Said
    <2>3. \A r \in routes : r # f.r => Flow(r)'
        <3> SUFFICES ASSUME NEW r \in routes, r # f.r PROVE Flow(r)'
            OBVIOUS
        <3>1. ~Of(f, r) /\ r \in Requests
            BY <1>4 DEF Of
        <3> QED BY <2>1, <3>1, <1>5, Zenon
    <2>4. CASE Forget(f.r, toB)
        <3> DEFINE kept == routes \ {f.r}
        <3>1. kept \in SUBSET Requests /\ \A r \in kept : Flow(r)'
            BY <2>3, <1>4
        <3>2. FillSlots(kept, kept, pending, toB)
            BY <2>4, <1>4, Zenon DEF Forget
        <3>3. \A r \in ToSet(pending) : r \notin Known /\ stage'[r] = "none"
            BY <2>1, <2>2, <1>7, Zenon
        <3> HIDE DEF kept
        <3>4. live' = routes' /\ \A r \in routes' : Flow(r)'
            BY <3>1, <3>2, <3>3, <1>3, <1>4, <1>7, FlowsOn, Zenon
        <3> QED BY <2>1, <3>4, <1>6
    <2>5. CASE NoForget /\ \/ f.r \notin routes
                           \/ f.k \in {"HEADERS", "DATA"} /\ ~f.end /\ stage'[f.r] = "head"
        <3>1. live' = live /\ routes' = routes
            BY <2>5, Zenon DEF NoForget
        <3>2. \A r \in routes : Flow(r)'
            <4> SUFFICES ASSUME NEW r \in routes, r = f.r PROVE Flow(r)'
                BY <2>3
            <4>1. Of(f, r) /\ f.k \in {"HEADERS", "DATA"} /\ ~f.end /\ stage'[r] = "head"
                BY <2>5, <1>11 DEF Of
            <4>2. Flow(r) /\ bState'[r] = bState[r]
                BY <1>4
            <4> QED BY <4>1, <4>2, <1>1, <1>3, FlowTaken, Zenon
        <3> QED BY <2>1, <3>1, <3>2, <1>4, <1>6, Zenon
    <2> QED BY <2>1, <2>4, <2>5
<1> QED BY <1>8, <1>9, <1>10, <1>11

LEMMA Appended ==
    ASSUME NEW S, NEW q \in Seq(S), NEW f, NEW r, r = Append(q, f)
    PROVE  Longer(q, r, f)
BY DEF Longer

\* Nothing is told the clients and nobody is routed.
LEMMA FlowsKept ==
    ASSUME Flows, UNCHANGED <<stage, live, routes>>,
           up' = up \/ (up \in {"open", "stopping"} /\ up' = "stopping"),
           \A r : Flow(r) => Flow(r)'
    PROVE  Flows'
<1>1. EventsWellFormed'
    BY Zenon DEF Flows, EventsWellFormed
<1>2. up' \in {"open", "stopping"} => up \in {"open", "stopping"}
    OBVIOUS
<1> QED BY <1>1, <1>2, Zenon DEF Flows

\* The backend takes a frame.
LEMMA FlowsTaken ==
    ASSUME UInv, BackendTake
    PROVE  \A r : Flow(r) => Flow(r)'
<1>1. PICK f \in DownFrame :
          /\ f = Head(toB) /\ f.r \in Requests /\ Takes(f) /\ Shorter(toB, toB')
          /\ UNCHANGED <<clientVars, inbox, stage, taskVars, bLast>>
    BY Taking, Zenon
<1>2. bState \in [Requests -> BackendState] /\ fromB \in Seq(UpFrame) /\ Down(toB)
    BY BackendTyped, Zenon DEF UInv, Base, Types, BackendTypes
<1>3. f.k = "HEADERS" => bState[f.r] = "idle"
    <2>1. 1 \in DOMAIN toB /\ toB[1] = f
        BY <1>1 DEF Shorter
    <2> QED BY <1>2, <2>1, Zenon DEF Down
<1>4. CASE UNCHANGED <<bState, fromB>>
    BY <1>1, <1>4, FlowStays, Zenon
<1>5. CASE f.k = "HEADERS" /\ Accept(f)
    <2>1. bState' = [bState EXCEPT ![f.r] = "open"] /\ fromB' = fromB
        BY <1>5, Zenon DEF Accept
    <2>2. \A r : bState'[r] = bState[r] \/ (bState[r] = "idle" /\ bState'[r] = "open")
        BY <2>1, <1>1, <1>2, <1>3, <1>5
    <2> QED BY <1>1, <2>1, <2>2, FlowStays, Zenon
<1>6. CASE Refuse(f)
    <2> DEFINE g == [k |-> "RST", r |-> f.r, refused |-> TRUE]
    <2>1. bState' = [bState EXCEPT ![f.r] = "refused"] /\ fromB' = Append(fromB, g)
        BY <1>6, Zenon DEF Refuse
    <2>2. g.k = "RST" /\ g.r = f.r
        OBVIOUS
    <2> HIDE DEF g
    <2>3. PICK h : h = g
        OBVIOUS
    <2>4. Longer(fromB, fromB', h)
        BY <2>1, <2>3, <1>2, Appended, Zenon
    <2>5. ASSUME NEW r, Flow(r) PROVE Flow(r)'
        <3>1. CASE r = f.r
            <4>1. ~Opening(h, r) /\ h.k # "DATA" /\ bState'[r] \in Settled
                BY <2>1, <2>2, <2>3, <3>1, <1>1, <1>2 DEF Opening, Settled
            <4> QED BY <4>1, <2>4, <2>5, <1>1, FlowGrows, Zenon
        <3>2. CASE r # f.r
            <4>1. ~Of(h, r) /\ bState'[r] = bState[r]
                BY <2>1, <2>2, <2>3, <3>2, <1>1, <1>2 DEF Of
            <4> QED BY <4>1, <2>4, <2>5, <1>1, FlowGrows, Zenon
        <3> QED BY <3>1, <3>2
    <2> QED BY <2>5
<1>7. CASE bState' = [bState EXCEPT ![f.r] =
                          IF bState[f.r] \in {"idle", "refused"} THEN bState[f.r] ELSE "reset"]
           /\ fromB' = fromB
    <2>1. \A r : bState'[r] = bState[r] \/ bState'[r] \in Settled
        BY <1>1, <1>2, <1>7 DEF Settled
    <2> QED BY <1>1, <1>7, <2>1, FlowStays, Zenon
<1> QED BY <1>1, <1>4, <1>5, <1>6, <1>7, Zenon DEF Takes

\* It answers.
LEMMA FlowsAnswered ==
    ASSUME UInv, NEW r \in Requests, NEW f, f.r = r, NEW now,
           fromB' = Append(fromB, f), bState' = [bState EXCEPT ![r] = now], stage' = stage,
           \/ Opening(f, r) /\ bState[r] = "open" /\ now = "head"
           \/ f.k = "DATA" /\ bState[r] \in {"head", "data"} /\ now \in Settled \cup {"data"}
           \/ ~Opening(f, r) /\ f.k # "DATA" /\ now \in Settled
    PROVE  \A s : Flow(s) => Flow(s)'
<1>1. bState \in [Requests -> BackendState] /\ fromB \in Seq(UpFrame)
    BY BackendTyped, Zenon DEF UInv, Base, Types, BackendTypes
<1>2. bState'[r] = now /\ \A s : s # r => bState'[s] = bState[s]
    BY <1>1
<1>3. Longer(fromB, fromB', f)
    BY <1>1, Appended, Zenon
<1>4. ASSUME NEW s, Flow(s), s # r PROVE Flow(s)'
    <2>1. ~Of(f, s)
        BY <1>4 DEF Of
    <2> QED BY <2>1, <1>2, <1>3, <1>4, FlowGrows, Zenon
<1>5. ASSUME Flow(r) PROVE Flow(r)'
    BY <1>2, <1>3, <1>5, FlowGrows, Zenon
<1> QED BY <1>4, <1>5, Zenon

LEMMA FlowsAnswers ==
    ASSUME UInv, NEW r \in Requests,
           \/ BackendHead(r) \/ BackendData(r) \/ BackendEnd(r) \/ BackendReset(r)
           \/ BackendBadTrailers(r)
    PROVE  \A s : Flow(s) => Flow(s)'
<1>1. \A k, end : Frame(k, r, end).k = k /\ Frame(k, r, end).r = r /\ Frame(k, r, end).end = end
    BY DEF Frame
<1>2. {"done", "reset"} \subseteq Settled
    BY DEF Settled
<1>3. CASE BackendHead(r)
    <2>1. PICK end \in BOOLEAN :
              /\ bState[r] = "open" /\ stage' = stage
              /\ fromB' = Append(fromB, Frame("HEADERS", r, end))
              /\ bState' = [bState EXCEPT ![r] = IF end THEN "done" ELSE "head"]
        BY <1>3, Zenon DEF BackendHead, Respond
    <2> DEFINE now == IF end THEN "done" ELSE "head"
    <2>2. PICK f : f = Frame("HEADERS", r, end)
        OBVIOUS
    <2>3. f.r = r /\ f.k # "DATA" /\ (Opening(f, r) <=> ~end)
        BY <2>2, <1>1 DEF Opening
    <2>4. \/ Opening(f, r) /\ bState[r] = "open" /\ now = "head"
          \/ ~Opening(f, r) /\ f.k # "DATA" /\ now \in Settled
        BY <2>1, <2>3, <1>2
    <2>5. fromB' = Append(fromB, f) /\ bState' = [bState EXCEPT ![r] = now]
        BY <2>1, <2>2
    <2> HIDE DEF now
    <2> QED BY <2>1, <2>3, <2>4, <2>5, FlowsAnswered, Zenon
<1>4. CASE BackendData(r)
    <2>1. PICK f : f = Frame("DATA", r, FALSE)
        OBVIOUS
    <2>2. f.k = "DATA" /\ f.r = r
        BY <2>1, <1>1
    <2>3. /\ bState[r] = "head" /\ stage' = stage /\ fromB' = Append(fromB, f)
          /\ bState' = [bState EXCEPT ![r] = "data"]
        BY <1>4, <2>1, Zenon DEF BackendData, Respond
    <2>4. bState[r] \in {"head", "data"} /\ "data" \in Settled \cup {"data"}
        BY <2>3
    <2> QED BY <2>2, <2>3, <2>4, FlowsAnswered, Zenon
<1>5. CASE BackendEnd(r)
    <2>1. PICK kind \in {"DATA", "HEADERS"} :
              /\ bState[r] \in {"head", "data"} /\ stage' = stage
              /\ fromB' = Append(fromB, Frame(kind, r, TRUE))
              /\ bState' = [bState EXCEPT ![r] = "done"]
        BY <1>5, Zenon DEF BackendEnd, Respond
    <2>2. PICK f : f = Frame(kind, r, TRUE)
        OBVIOUS
    <2>3. f.r = r /\ f.k = kind /\ ~Opening(f, r) /\ "done" \in Settled
        BY <2>2, <1>1, <1>2 DEF Opening
    <2>4. fromB' = Append(fromB, f)
        BY <2>1, <2>2
    <2>5. \/ f.k = "DATA" /\ bState[r] \in {"head", "data"} /\ "done" \in Settled \cup {"data"}
          \/ ~Opening(f, r) /\ f.k # "DATA" /\ "done" \in Settled
        BY <2>1, <2>3
    <2> QED BY <2>1, <2>3, <2>4, <2>5, FlowsAnswered, Zenon
<1>6. CASE BackendReset(r)
    <2> DEFINE g == [k |-> "RST", r |-> r, refused |-> FALSE]
    <2>1. g.k = "RST" /\ g.r = r
        OBVIOUS
    <2>2. /\ stage' = stage /\ fromB' = Append(fromB, g)
          /\ bState' = [bState EXCEPT ![r] = "reset"]
        BY <1>6, Zenon DEF BackendReset, Respond
    <2> HIDE DEF g
    <2>3. PICK f : f = g
        OBVIOUS
    <2>4. f.r = r /\ ~Opening(f, r) /\ f.k # "DATA" /\ "reset" \in Settled
        BY <2>1, <2>3, <1>2 DEF Opening
    <2> QED BY <2>2, <2>3, <2>4, FlowsAnswered, Zenon
<1>7. CASE BackendBadTrailers(r)
    <2>1. PICK f : f = Frame("BADTRAILERS", r, TRUE)
        OBVIOUS
    <2>2. f.r = r /\ f.k = "BADTRAILERS" /\ "done" \in Settled
        BY <2>1, <1>1, <1>2
    <2>3. ~Opening(f, r) /\ f.k # "DATA"
        BY <2>2 DEF Opening
    <2>4. /\ stage' = stage /\ fromB' = Append(fromB, f)
          /\ bState' = [bState EXCEPT ![r] = "done"]
        BY <1>7, <2>1, Zenon DEF BackendBadTrailers, Say
    <2> QED BY <2>2, <2>3, <2>4, FlowsAnswered, Zenon
<1> QED BY <1>3, <1>4, <1>5, <1>6, <1>7

\* It announces a GOAWAY, or SETTINGS.
LEMMA FlowsDeclared ==
    ASSUME UInv, BackendGoAway \/ BackendSettings
    PROVE  \A s : Flow(s) => Flow(s)'
<1>1. \E f : ~About(f) /\ fromB' = Append(fromB, f) /\ bState' = bState /\ stage' = stage
    <2>1. CASE BackendGoAway
        <3>1. PICK last : fromB' = Append(fromB, [k |-> "GOAWAY", last |-> last]) /\ bState' = bState
                          /\ stage' = stage
            BY <2>1, Zenon DEF BackendGoAway, Say
        <3> DEFINE f == [k |-> "GOAWAY", last |-> last]
        <3>2. ~About(f)
            BY DEF About
        <3> HIDE DEF f
        <3> QED BY <3>1, <3>2, Zenon DEF f
    <2>2. CASE BackendSettings
        <3>1. PICK max : fromB' = Append(fromB, [k |-> "SETTINGS", max |-> max]) /\ bState' = bState
                         /\ stage' = stage
            BY <2>2, Zenon DEF BackendSettings, Say
        <3> DEFINE f == [k |-> "SETTINGS", max |-> max]
        <3>2. ~About(f)
            BY DEF About
        <3> HIDE DEF f
        <3> QED BY <3>1, <3>2, Zenon DEF f
    <2> QED BY <2>1, <2>2
<1>2. PICK f : ~About(f) /\ fromB' = Append(fromB, f) /\ bState' = bState /\ stage' = stage
    BY <1>1
<1>3. Longer(fromB, fromB', f)
    <2>1. fromB \in Seq(UpFrame)
        BY Zenon DEF UInv, Base, Types
    <2> QED BY <2>1, <1>2, Appended, Zenon
<1>4. \A s : ~Of(f, s)
    BY <1>2, Zenon DEF Of
<1> QED BY <1>2, <1>3, <1>4, FlowGrows, Zenon

\* The connection has failed, and every request is answered.
LEMMA FlowsFailed ==
    ASSUME UInv, Flows, FailAllRoutes \/ CloseInbox
    PROVE  Flows'
<1>1. \A r \in Requests : stage[r] # "illegal"
    BY Zenon DEF Flows, EventsWellFormed
<1>2. CASE FailAllRoutes
    <2>1. /\ up' = "failed"
          /\ stage' = [r \in Requests |->
                CASE r \in ToSet(pending)                      -> After(stage[r], "gone")
                  [] r \in routes /\ stage[r] = "none"         -> After(stage[r], "gone")
                  [] r \in routes /\ stage[r] # "none"         -> After(stage[r], "reset")
                  [] OTHER                                      -> stage[r]]
        BY <1>2, Zenon DEF FailAllRoutes
    <2>2. \A r \in ToSet(pending) : stage[r] = "none"
        BY Waiting, Zenon
    <2>3. \A r \in routes : stage[r] \in {"none", "head"}
        <3>1. up \in {"open", "stopping"}
            BY <1>2 DEF FailAllRoutes
        <3> QED BY <3>1, Zenon DEF Flows, Flow
    <2>4. ASSUME NEW r \in Requests PROVE stage'[r] # "illegal"
        <3>1. CASE r \in ToSet(pending)
            <4>1. stage'[r] = After("none", "gone")
                BY <2>1, <2>2, <3>1
            <4> QED BY <4>1, Legal
        <3>2. CASE r \notin ToSet(pending) /\ r \in routes
            <4>1. stage'[r] = After("none", "gone") \/ stage'[r] = After("head", "reset")
                BY <2>1, <2>3, <3>2
            <4> QED BY <4>1, Legal
        <3>3. CASE r \notin ToSet(pending) /\ r \notin routes
            <4>1. stage'[r] = stage[r]
                BY <2>1, <3>3
            <4> QED BY <4>1, <1>1
        <3> QED BY <3>1, <3>2, <3>3
    <2>5. up' \notin {"open", "stopping"}
        BY <2>1
    <2> QED BY <2>4, <2>5, Zenon DEF Flows, EventsWellFormed
<1>3. CASE CloseInbox
    <2>1. up' \notin {"open", "stopping"} /\ stage' = Tell(Unread, "gone")
        BY <1>3 DEF CloseInbox
    <2>2. \A r \in Unread : stage[r] = "none"
        <3> SUFFICES ASSUME NEW r \in Requests, NEW i \in DOMAIN inbox,
                            inbox[i] = Frame("Request", r, BodyOf[r] = 0)
                     PROVE  stage[r] = "none"
            BY DEF Unread
        <3>1. inbox[i].k = "Request" /\ inbox[i].r = r
            BY DEF Frame
        <3>2. Fresh(r)
            BY <3>1 DEF Fresh, Asking
        <3> QED BY <3>2, Waiting, Zenon
    <2>3. ASSUME NEW r \in Requests PROVE stage'[r] # "illegal"
        <3>1. CASE r \in Unread
            <4>1. stage'[r] = After("none", "gone")
                BY <2>1, <2>2, <3>1 DEF Tell
            <4> QED BY <4>1, Legal
        <3>2. CASE r \notin Unread
            <4>1. stage'[r] = stage[r]
                BY <2>1, <3>2 DEF Tell
            <4> QED BY <4>1, <1>1
        <3> QED BY <3>1, <3>2
    <2> QED BY <2>1, <2>3, Zenon DEF Flows, EventsWellFormed
<1> QED BY <1>2, <1>3

LEMMA FlowsOthers ==
    ASSUME UInv, Flows, NoZeroUpdates, [Next]_vars, ~TakeMessage, ~TakeFrame
    PROVE  Flows'
<1>1. ASSUME fromB' = fromB, bState' = bState, stage' = stage PROVE \A r : Flow(r) => Flow(r)'
    BY <1>1, FlowStays, Zenon
<1>2. CASE \E r \in Requests : SendRequest(r) \/ SendBody(r) \/ SendCancel(r) \/ PumpBody(r)
    <2>1. UNCHANGED <<stage, live, routes, up, fromB, bState>>
        BY <1>2, Zenon DEF SendRequest, SendBody, SendCancel, PumpBody, taskVars, backendVars
    <2> QED BY <2>1, <1>1, FlowsKept, Zenon
<1>3. CASE DrainDone \/ DrainDeadline \/ ConnectionFails
    <2>1. UNCHANGED <<stage, live, routes, fromB, bState>> /\ up = "open" /\ up' = "stopping"
        BY <1>3, Zenon DEF DrainDone, DrainDeadline, ConnectionFails, backendVars
    <2>2. up \in {"open", "stopping"}
        BY <2>1
    <2> QED BY <2>1, <2>2, <1>1, FlowsKept, Zenon
<1>4. CASE BackendTake
    <2>1. UNCHANGED <<stage, live, routes, up>>
        BY <1>4, Zenon DEF BackendTake, taskVars
    <2> QED BY <2>1, <1>4, FlowsTaken, FlowsKept, Zenon
<1>5. CASE \E r \in Requests :
               \/ BackendHead(r) \/ BackendData(r) \/ BackendEnd(r) \/ BackendReset(r)
               \/ BackendBadTrailers(r)
    <2>1. UNCHANGED <<stage, live, routes, up>>
        BY <1>5, Zenon DEF BackendHead, BackendData, BackendEnd, BackendReset, BackendBadTrailers,
           Respond, Say, taskVars
    <2> QED BY <2>1, <1>5, FlowsAnswers, FlowsKept, Zenon
<1>6. CASE BackendGoAway \/ BackendSettings
    <2>1. UNCHANGED <<stage, live, routes, up>>
        BY <1>6, Zenon DEF BackendGoAway, BackendSettings, Say, taskVars
    <2> QED BY <2>1, <1>6, FlowsDeclared, FlowsKept, Zenon
<1>7. CASE UNCHANGED vars
    <2>1. UNCHANGED <<stage, live, routes, up, fromB, bState>>
        BY <1>7, Zenon DEF vars, taskVars, backendVars
    <2> QED BY <2>1, <1>1, FlowsKept, Zenon
<1>8. \A r : ~BackendZeroUpdate(r)
    BY Zenon DEF BackendZeroUpdate, NoZeroUpdates
<1> QED BY <1>2, <1>3, <1>4, <1>5, <1>6, <1>7, <1>8, FlowsFailed, Zenon DEF Next

\* The events a client connection is sent for a request are a response: one head, first;
\* a refusal or a 502 only in its place; one ending, and nothing after it, whatever
\* GOAWAY, RST_STREAM, cancellation or failure they come of.  A WINDOW_UPDATE of zero is
\* left out: it resets the stream, and the route stays to hear more (RecvZeroUpdate).
THEOREM EventsForm ==
    ASSUME NoZeroUpdates
    PROVE  Spec => []EventsWellFormed
<1>1. Init => UInv /\ NoZero /\ Flows
    <2> SUFFICES ASSUME Init PROVE NoZero /\ Flows
        BY UInvInit
    <2>1. /\ fromB = <<>> /\ live = {} /\ routes = {}
          /\ stage = [r \in Requests |-> "none"]
        BY Zenon DEF Init
    <2>2. NoZero /\ EventsWellFormed
        BY <2>1 DEF NoZero, EventsWellFormed
    <2>3. live = routes /\ \A r \in routes : Flow(r)
        BY <2>1
    <2> QED BY <2>2, <2>3, Zenon DEF Flows
<1>2. (UInv /\ NoZero /\ Flows) /\ [Next]_vars => (UInv /\ NoZero /\ Flows)'
    <2> SUFFICES ASSUME UInv, NoZero, Flows, [Next]_vars PROVE UInv' /\ NoZero' /\ Flows'
        OBVIOUS
    <2>1. UInv' /\ NoZero'
        BY UInvKept, NoZeroKept, Zenon
    <2>2. Flows'
        BY FlowsMessage, FlowsFrame, FlowsOthers, Zenon
    <2> QED BY <2>1, <2>2
<1>3. Flows => EventsWellFormed
    BY Zenon DEF Flows
<1> QED BY <1>1, <1>2, <1>3, PTL DEF Spec

-----------------------------------------------------------------------------
(* The backend's limit is kept. *)

\* No SETTINGS raise the limit, and nothing is uploaded: with an upload a response
\* may end first, its stream is forgotten here without RST_STREAM, and the backend
\* counts it still.
NeverRaised == \A l \in Limits : l <= FirstLimit
NoUploads   == \A r \in Requests : BodyOf[r] = 0

\* The streams the backend will count once it took the first i frames of the wire q,
\* if it says nothing in the meantime; b is what it makes of each now.
Busy              == {"open", "head", "data"}
Sends(q, k, r, i) == \E j \in 1..i : q[j].k = k /\ q[j].r = r
Streams(q, b, i)  ==
    {r \in Requests : /\ b[r] \in Busy \/ Sends(q, "HEADERS", r, i)
                      /\ ~Sends(q, "RST", r, i)}

Bare(q) == \A i \in DOMAIN q : q[i].k # "DATA" /\ (q[i].k = "HEADERS" => q[i].end)
Bodiless ==
    /\ \A i \in DOMAIN inbox : inbox[i].k # "Body"
    /\ \A r \in Requests : buf[r] = NoBody
    /\ Bare(toB)
    /\ \A r \in Requests : bState[r] \notin {"idle", "refused"} => bGot[r].end

\* They are never too many; and while streams are opened, all are in the table.
Bounded == \A i \in 0..Len(toB) : Cardinality(Streams(toB, bState, i)) <= FirstLimit
Budget  ==
    /\ Bodiless /\ limit <= FirstLimit /\ Bounded
    /\ draining # NotDraining => pending = <<>>
    /\ up = "open" /\ draining = NotDraining => Streams(toB, bState, Len(toB)) \subseteq live

LEMMA StreamsCount ==
    ASSUME NEW S, NEW T, S \subseteq Requests, T \subseteq S, Cardinality(S) <= FirstLimit
    PROVE  Cardinality(T) <= FirstLimit
<1>1. FirstLimit \in Nat /\ IsFiniteSet(Requests)
    BY UpstreamAssumption, Zenon
<1>2. IsFiniteSet(S)
    BY <1>1, FS_Subset, Zenon
<1>3. IsFiniteSet(T) /\ Cardinality(T) <= Cardinality(S)
    BY <1>2, FS_Subset, Zenon
<1>4. Cardinality(S) \in Nat /\ Cardinality(T) \in Nat
    BY <1>2, <1>3, FS_CardinalityType, Zenon
<1> QED BY <1>1, <1>3, <1>4

\* The wire grows, from q to t: RST_STREAM up to c, then HEADERS of what the table
\* holds now.
LEMMA StreamsGrow ==
    ASSUME NEW q, NEW t, NEW b, NEW c, NEW open,
           Len(q) \in Nat, Len(t) \in Nat, c \in Nat, Len(q) <= c, c <= Len(t),
           \A i \in 1..Len(q) : t[i] = q[i],
           \A i \in 1..c : i > Len(q) => t[i].k = "RST",
           \A i \in 1..Len(t) : i > c => t[i].r \in open,
           NEW i \in 0..Len(t)
    PROVE  /\ i <= Len(q) => Streams(t, b, i) = Streams(q, b, i)
           /\ Len(q) <= i /\ i <= c => Streams(t, b, i) \subseteq Streams(q, b, Len(q))
           /\ (\A r \in Streams(q, b, Len(q)) : r \in open \/ Sends(t, "RST", r, c))
                  => (c <= i => Streams(t, b, i) \subseteq open)
<1>1. i <= Len(q) => \A k, r : Sends(t, k, r, i) <=> Sends(q, k, r, i)
    <2> SUFFICES ASSUME i <= Len(q) PROVE \A k, r : Sends(t, k, r, i) <=> Sends(q, k, r, i)
        OBVIOUS
    <2>1. \A j \in 1..i : t[j] = q[j]
        <3>1. \A j \in 1..i : j \in 1..Len(q)
            OBVIOUS
        <3> QED BY <3>1
    <2> SUFFICES ASSUME NEW k, NEW r PROVE Sends(t, k, r, i) <=> Sends(q, k, r, i)
        OBVIOUS
    <2>2. ASSUME Sends(t, k, r, i) PROVE Sends(q, k, r, i)
        <3>1. PICK j \in 1..i : t[j].k = k /\ t[j].r = r
            BY <2>2, Zenon DEF Sends
        <3>2. q[j].k = k /\ q[j].r = r
            BY <2>1, <3>1
        <3> QED BY <3>2, Zenon DEF Sends
    <2>3. ASSUME Sends(q, k, r, i) PROVE Sends(t, k, r, i)
        <3>1. PICK j \in 1..i : q[j].k = k /\ q[j].r = r
            BY <2>3, Zenon DEF Sends
        <3>2. t[j].k = k /\ t[j].r = r
            BY <2>1, <3>1
        <3> QED BY <3>2, Zenon DEF Sends
    <2> QED BY <2>2, <2>3, Zenon
<1>2. Len(q) <= i => \A k, r : Sends(q, k, r, Len(q)) => Sends(t, k, r, i)
    <2> SUFFICES ASSUME Len(q) <= i, NEW k, NEW r, Sends(q, k, r, Len(q)) PROVE Sends(t, k, r, i)
        OBVIOUS
    <2>0. PICK j \in 1..Len(q) : q[j].k = k /\ q[j].r = r
        BY Zenon DEF Sends
    <2>1. j \in 1..i /\ t[j].k = k /\ t[j].r = r
        BY <2>0
    <2> QED BY <2>1, Zenon DEF Sends
<1>3. \A r : Sends(t, "HEADERS", r, i) => Sends(q, "HEADERS", r, Len(q)) \/ (i > c /\ r \in open)
    <2> SUFFICES ASSUME NEW r, NEW j \in 1..i, t[j].k = "HEADERS", t[j].r = r
                 PROVE  Sends(q, "HEADERS", r, Len(q)) \/ (i > c /\ r \in open)
        BY Zenon DEF Sends
    <2>1. CASE j \in 1..Len(q)
        BY <2>1, Zenon DEF Sends
    <2>2. CASE j > Len(q) /\ j <= c
        <3>1. j \in 1..c
            BY <2>2
        <3>2. t[j].k = "RST"
            BY <2>2, <3>1, Zenon
        <3> QED BY <3>2
    <2>3. CASE j > c
        <3>1. j \in 1..Len(t) /\ i > c
            BY <2>3
        <3> QED BY <2>3, <3>1, Zenon
    <2>4. j \in 1..Len(q) \/ (j > Len(q) /\ j <= c) \/ j > c
        OBVIOUS
    <2> QED BY <2>1, <2>2, <2>3, <2>4, Zenon
<1>4. ASSUME i <= Len(q) PROVE Streams(t, b, i) = Streams(q, b, i)
    <2>1. \A k, r : Sends(t, k, r, i) <=> Sends(q, k, r, i)
        BY <1>1, <1>4
    <2> QED BY <2>1 DEF Streams
<1>5. ASSUME Len(q) <= i, i <= c PROVE Streams(t, b, i) \subseteq Streams(q, b, Len(q))
    <2>1. ~(i > c)
        BY <1>5
    <2>2. /\ \A r : Sends(t, "HEADERS", r, i) => Sends(q, "HEADERS", r, Len(q))
          /\ \A r : Sends(q, "RST", r, Len(q)) => Sends(t, "RST", r, i)
        BY <2>1, <1>2, <1>3, <1>5, Zenon
    <2> QED BY <2>2, Zenon DEF Streams
<1>6. ASSUME \A r \in Streams(q, b, Len(q)) : r \in open \/ Sends(t, "RST", r, c), c <= i
      PROVE  Streams(t, b, i) \subseteq open
    <2>1. Len(q) <= i
        BY <1>6
    <2>2. \A r : Sends(t, "RST", r, c) => Sends(t, "RST", r, i)
        <3>1. \A j \in 1..c : j \in 1..i
            BY <1>6
        <3> QED BY <3>1, Zenon DEF Sends
    <2>3. /\ \A r : Sends(t, "HEADERS", r, i) => r \in open \/ Sends(q, "HEADERS", r, Len(q))
          /\ \A r : Sends(q, "RST", r, Len(q)) => Sends(t, "RST", r, i)
        BY <2>1, <1>2, <1>3, Zenon
    <2> QED BY <2>2, <2>3, <1>6, Zenon DEF Streams
<1> QED BY <1>4, <1>5, <1>6, Zenon

\* Who the backend counts, or will, keeps its place in the table, or is reset in the
\* first c frames.
Covered(c) ==
    \A r \in Streams(toB, bState, Len(toB)) : r \in live' \/ Sends(toB', "RST", r, c)

LEMMA BudgetGrows ==
    ASSUME UInv, UInv', Bounded, bState' = bState, Len(toB) <= Len(toB'),
           \A i \in 1..Len(toB) : toB'[i] = toB[i],
           NEW c \in Nat, Len(toB) <= c, c <= Len(toB'),
           \A i \in 1..c : i > Len(toB) => toB'[i].k = "RST",
           \A i \in 1..Len(toB') : i > c => toB'[i].r \in live',
           c = Len(toB') \/ (Covered(c) /\ Cardinality(live') <= FirstLimit)
    PROVE  /\ Bounded'
           /\ Covered(c) => Streams(toB', bState', Len(toB')) \subseteq live'
<1> DEFINE q == toB
           t == toB'
           b == bState
           open == live'
<1>1. Len(q) \in Nat /\ Len(t) \in Nat /\ open \subseteq Requests
    <2>1. toB \in Seq(DownFrame) /\ toB' \in Seq(DownFrame)
        BY Zenon DEF UInv, Base, Types
    <2>2. live' \subseteq Requests
        BY Zenon DEF UInv, Base, Types, TypeOK
    <2> QED BY <2>1, <2>2
<1>2. \A i : Streams(q, b, i) \subseteq Requests
    BY DEF Streams
<1>3. ASSUME NEW i \in 0..Len(t)
      PROVE  /\ i <= Len(q) => Streams(t, b, i) = Streams(q, b, i)
             /\ Len(q) <= i /\ i <= c => Streams(t, b, i) \subseteq Streams(q, b, Len(q))
             /\ Covered(c) => (c <= i => Streams(t, b, i) \subseteq open)
    <2>1. /\ i <= Len(q) => Streams(t, b, i) = Streams(q, b, i)
          /\ Len(q) <= i /\ i <= c => Streams(t, b, i) \subseteq Streams(q, b, Len(q))
          /\ (\A r \in Streams(q, b, Len(q)) : r \in open \/ Sends(t, "RST", r, c))
                 => (c <= i => Streams(t, b, i) \subseteq open)
        <3> HIDE DEF q, t, open, b
        <3>1. \A j \in 1..Len(q) : t[j] = q[j]
            BY DEF q, t
        <3>2. \A j \in 1..c : j > Len(q) => t[j].k = "RST"
            BY DEF q, t
        <3>3. \A j \in 1..Len(t) : j > c => t[j].r \in open
            BY DEF q, t, open
        <3>4. Len(q) <= c /\ c <= Len(t)
            BY DEF q, t
        <3> QED BY <1>1, <3>1, <3>2, <3>3, <3>4, StreamsGrow, ZenonT(40)
    <2> QED BY <2>1, Zenon DEF Covered
<1>4. \A i \in 0..Len(q) : Cardinality(Streams(q, b, i)) <= FirstLimit
    BY Zenon DEF Bounded
<1>5. c # Len(t) => Covered(c) /\ Cardinality(open) <= FirstLimit
    OBVIOUS
<1> HIDE DEF q, t, b, open
<1>6. ASSUME NEW i \in 0..Len(t) PROVE Cardinality(Streams(t, b, i)) <= FirstLimit
    <2>1. i \in Nat /\ Len(q) \in 0..Len(q)
        BY <1>1
    <2>2. CASE i <= Len(q)
        <3>1. i \in 0..Len(q)
            BY <1>1, <2>1, <2>2
        <3> QED BY <3>1, <2>2, <1>3, <1>4, Zenon
    <2>3. CASE Len(q) <= i /\ i <= c
        <3>1. Streams(t, b, i) \subseteq Streams(q, b, Len(q))
            BY <2>3, <1>3, Zenon
        <3> QED BY <3>1, <2>1, <1>2, <1>4, StreamsCount, Zenon
    <2>4. CASE c <= i /\ c # Len(t)
        BY <2>4, <1>1, <1>3, <1>5, StreamsCount, Zenon
    <2>5. i <= Len(q) \/ (Len(q) <= i /\ i <= c) \/ (c <= i /\ c # Len(t))
        BY <1>1, <2>1
    <2> QED BY <2>2, <2>3, <2>4, <2>5, Zenon
<1>7. ASSUME Covered(c) PROVE Streams(t, b, Len(t)) \subseteq open
    <2>1. Len(t) \in 0..Len(t) /\ c <= Len(t)
        BY <1>1 DEF t
    <2> QED BY <2>1, <1>3, <1>7, Zenon
<1> QED BY <1>6, <1>7, Zenon DEF q, t, b, open, Bounded

\* The same, of the streams that stay.
Remain(open, frames) ==
    \A r \in Streams(toB, bState, Len(toB)) : r \in open \/ Sends(frames, "RST", r, Len(frames))

LEMMA BudgetFilled ==
    ASSUME UInv, UInv', Budget, NoUploads, NEW open \in SUBSET live, NEW kept,
           NEW queue \in Seq(Requests), Distinct(queue), \A r \in ToSet(queue) : r \notin live,
           NEW frames, Behind(frames), Quiet(frames), FillSlots(open, kept, queue, frames),
           bState' = bState, queue = <<>> \/ Remain(open, frames)
    PROVE  /\ Bounded' /\ Bare(toB')
           /\ Remain(open, frames) => Streams(toB', bState', Len(toB')) \subseteq live'
<1>1. Table /\ open \in SUBSET Requests /\ frames \in Seq(DownFrame)
    <2>1. Table
        BY TypedTable, Zenon DEF UInv, Base
    <2> QED BY <2>1 DEF Table, Behind
<1>2. PICK n \in 0..Len(queue) :
          /\ Opens(queue, n, open, kept, frames)
          /\ n = 0 \/ Cardinality(open) + n <= limit
    BY <1>1, Filled, Zenon
<1> DEFINE c == Len(frames)
<1>3. /\ live' = open \cup Firsts(queue, n)
      /\ toB' \in Seq(DownFrame) /\ Len(toB') = c + n
      /\ \A i \in 1..c : toB'[i] = frames[i]
      /\ \A i \in 1..n : toB'[c + i] = Headers(queue[i])
    BY <1>2, Zenon DEF Opens
<1>4. /\ Len(toB) \in Nat /\ c \in Nat /\ n \in Nat /\ Len(toB) <= c
      /\ \A i \in 1..c : IF i <= Len(toB) THEN frames[i] = toB[i] ELSE frames[i].k = "RST"
      /\ \A i \in 1..n : queue[i] \in Requests /\ queue[i] \in Firsts(queue, n)
      /\ n # 0 => queue # <<>>
    <2>1. toB \in Seq(DownFrame)
        BY <1>1, Zenon DEF Table
    <2>2. \A i \in 1..c : IF i <= Len(toB) THEN frames[i] = toB[i] ELSE frames[i].k = "RST"
        BY <1>1, <2>1 DEF Behind, Quiet
    <2>3. \A i \in 1..n : queue[i] \in Requests /\ queue[i] \in Firsts(queue, n)
        BY DEF Firsts
    <2> QED BY <1>1, <2>1, <2>2, <2>3 DEF Behind
<1>5. \A i \in 1..Len(toB') : i <= c \/ \E j \in 1..n : i = c + j
    <2> SUFFICES ASSUME NEW i \in 1..Len(toB'), ~(i <= c) PROVE \E j \in 1..n : i = c + j
        OBVIOUS
    <2>1. i - c \in 1..n /\ i = c + (i - c)
        BY <1>3, <1>4
    <2> QED BY <2>1
<1>6. \A r \in Requests : Headers(r).k = "HEADERS" /\ Headers(r).r = r /\ Headers(r).end
    <2> SUFFICES ASSUME NEW r \in Requests
                 PROVE  Headers(r).k = "HEADERS" /\ Headers(r).r = r /\ Headers(r).end
        OBVIOUS
    <2>1. BodyOf[r] = 0
        BY DEF NoUploads
    <2> QED BY <2>1 DEF Headers, Frame
<1> HIDE DEF c
<1>7. \A i \in 1..Len(toB) : toB'[i] = toB[i]
    BY <1>3, <1>4
<1>8. \A i \in 1..c : i > Len(toB) => toB'[i].k = "RST"
    BY <1>3, <1>4
<1>9. \A i \in 1..Len(toB') : i > c => toB'[i].k = "HEADERS" /\ toB'[i].r \in live' /\ toB'[i].end
    <2> SUFFICES ASSUME NEW i \in 1..Len(toB'), i > c
                 PROVE  toB'[i].k = "HEADERS" /\ toB'[i].r \in live' /\ toB'[i].end
        OBVIOUS
    <2>1. PICK j \in 1..n : i = c + j
        BY <1>4, <1>5
    <2>2. toB'[i] = Headers(queue[j]) /\ queue[j] \in Requests /\ queue[j] \in live'
        BY <2>1, <1>3, <1>4
    <2> QED BY <2>2, <1>6
<1>10. Bare(toB')
    <2>1. Bare(toB) /\ DOMAIN toB' = 1..Len(toB') /\ DOMAIN toB = 1..Len(toB)
        <3>1. Bare(toB) /\ toB \in Seq(DownFrame)
            BY <1>1, Zenon DEF Budget, Bodiless, Table
        <3> QED BY <3>1, <1>3
    <2> SUFFICES ASSUME NEW i \in 1..Len(toB')
                 PROVE  toB'[i].k # "DATA" /\ (toB'[i].k = "HEADERS" => toB'[i].end)
        BY <2>1 DEF Bare
    <2>2. CASE i <= Len(toB)
        BY <2>1, <2>2, <1>4, <1>7 DEF Bare
    <2>3. CASE i > Len(toB) /\ i <= c
        BY <2>3, <1>4, <1>8
    <2>4. CASE i > c
        BY <2>4, <1>9
    <2> QED BY <2>2, <2>3, <2>4, <1>4
<1>11. Remain(open, frames) => Covered(c)
    <2>1. \A r : Sends(frames, "RST", r, c) => Sends(toB', "RST", r, c)
        BY <1>3 DEF Sends
    <2> QED BY <2>1, <1>3 DEF Remain, Covered, c
<1>12. c = Len(toB') \/ (Covered(c) /\ Cardinality(live') <= FirstLimit)
    <2>1. CASE n = 0
        BY <2>1, <1>3, <1>4
    <2>2. CASE n # 0
        <3>1. Covered(c)
            BY <2>2, <1>4, <1>11
        <3>2. \A r \in Firsts(queue, n) : r \notin open
            BY DEF Firsts, ToSet
        <3>3. Cardinality(open) \in Nat /\ Cardinality(live') = Cardinality(open) + n
            BY <3>2, <1>1, <1>3, Joined, Zenon
        <3>4. limit \in Nat /\ FirstLimit \in Nat /\ limit <= FirstLimit
            BY <1>1, UpstreamAssumption, Zenon DEF Table, Budget
        <3> QED BY <2>2, <3>1, <3>3, <3>4, <1>2, <1>4
    <2> QED BY <2>1, <2>2
<1>13. c <= Len(toB') /\ Len(toB) <= Len(toB')
    BY <1>3, <1>4
<1>14. /\ Bounded'
       /\ Covered(c) => Streams(toB', bState', Len(toB')) \subseteq live'
    <2>1. Bounded
        BY Zenon DEF Budget
    <2>2. \A i \in 1..Len(toB') : i > c => toB'[i].r \in live'
        BY <1>9, Zenon
    <2> QED BY <2>1, <2>2, <1>4, <1>7, <1>8, <1>12, <1>13, BudgetGrows, Zenon
<1> QED BY <1>10, <1>11, <1>14

\* Who the backend has answered to the end, or reset, is not counted.
LEMMA Uncounted ==
    ASSUME UInv, NEW r, bState[r] \in Settled
    PROVE  r \notin Streams(toB, bState, Len(toB))
<1>1. Down(toB) /\ toB \in Seq(DownFrame)
    BY Zenon DEF UInv, Base, Types
<1>2. DOMAIN toB = 1..Len(toB)
    BY <1>1
<1>3. bState[r] \notin Busy /\ bState[r] # "idle"
    BY DEF Settled, Busy
<1>4. ~Sends(toB, "HEADERS", r, Len(toB))
    BY <1>1, <1>2, <1>3, Zenon DEF Sends, Down
<1> QED BY <1>3, <1>4, Zenon DEF Streams

\* The streams that stay: nobody leaves the table but who is not counted.
LEMMA AllRemain ==
    ASSUME UInv, Streams(toB, bState, Len(toB)) \subseteq live, NEW r,
           r \in live => bState[r] \in Settled
    PROVE  Remain(live \ {r}, toB)
BY Uncounted, Zenon DEF Remain

\* What a step of the task that opens and resets no stream leaves of the budget.
LEMMA BudgetStays ==
    ASSUME UInv, Budget, UNCHANGED <<toB, live, buf, bState, bGot>>,
           \A i \in DOMAIN inbox' : inbox'[i].k # "Body",
           limit' <= FirstLimit, draining' # NotDraining => pending' = <<>>,
           up' = "open" /\ draining' = NotDraining => up = "open" /\ draining = NotDraining
    PROVE  Budget'
<1>1. Bodiless'
    BY Zenon DEF Budget, Bodiless, Bare, NoBody
<1>2. Bounded'
    BY Zenon DEF Budget, Bounded
<1> QED BY <1>1, <1>2, Zenon DEF Budget

\* The rest of the budget, where the wire is known to keep it.
LEMMA BudgetKept ==
    ASSUME Budget, UNCHANGED <<up, buf, bState, bGot>>,
           \A i \in DOMAIN inbox' : inbox'[i].k # "Body", limit' <= FirstLimit,
           draining' # NotDraining => pending' = <<>>, Bounded', Bare(toB'),
           up = "open" /\ draining' = NotDraining => Streams(toB', bState', Len(toB')) \subseteq live'
    PROVE  Budget'
<1>1. Bodiless'
    BY Zenon DEF Budget, Bodiless, Bare, NoBody
<1> QED BY <1>1, Zenon DEF Budget

LEMMA ResetBare ==
    ASSUME UInv, Bare(toB), NEW r \in Requests, NEW frames, frames = Append(toB, Frame("RST", r, FALSE))
    PROVE  /\ Bare(frames) /\ Sends(frames, "RST", r, Len(frames))
           /\ Len(toB) \in Nat /\ Len(frames) = Len(toB) + 1 /\ frames \in Seq(DownFrame)
           /\ \A i \in 1..Len(toB) : frames[i] = toB[i]
           /\ frames[Len(frames)].k = "RST"
<1>1. toB \in Seq(DownFrame)
    BY Zenon DEF UInv, Base, Types
<1>2. PICK g : g = Frame("RST", r, FALSE)
    OBVIOUS
<1>3. g \in DownFrame /\ g.k = "RST" /\ g.r = r /\ frames = Append(toB, g)
    BY <1>2, ResetType, Zenon
<1>4. frames \in Seq(DownFrame) /\ Len(frames) = Len(toB) + 1 /\ Longer(toB, frames, g)
    BY <1>1, <1>3, Added, Zenon
<1>5. /\ Len(toB) \in Nat /\ DOMAIN toB = 1..Len(toB) /\ DOMAIN frames = 1..(Len(toB) + 1)
      /\ \A i \in 1..Len(toB) : frames[i] = toB[i]
      /\ frames[Len(toB) + 1] = g
    BY <1>4, Zenon DEF Longer
<1>6. /\ frames[Len(frames)] = g /\ Len(frames) \in 1..Len(frames)
      /\ \A i \in DOMAIN frames : i \in DOMAIN toB \/ i = Len(frames)
    <2>1. PICK n : n = Len(toB) + 1
        OBVIOUS
    <2>2. n \in 1..n /\ \A i \in 1..n : i \in 1..Len(toB) \/ i = n
        BY <2>1, <1>5
    <2>3. Len(frames) = n /\ DOMAIN frames = 1..n /\ frames[n] = g /\ DOMAIN toB = 1..Len(toB)
        BY <2>1, <1>4, <1>5, Zenon
    <2> QED BY <2>2, <2>3, Zenon
<1>7. Sends(frames, "RST", r, Len(frames))
    BY <1>3, <1>6, Zenon DEF Sends
<1>8. Bare(frames)
    <2> SUFFICES ASSUME NEW i \in DOMAIN frames
                 PROVE  frames[i].k # "DATA" /\ (frames[i].k = "HEADERS" => frames[i].end)
        BY Zenon DEF Bare
    <2>1. CASE i \in DOMAIN toB
        BY <2>1, <1>5, Zenon DEF Bare
    <2>2. CASE i = Len(frames)
        BY <2>2, <1>3, <1>6
    <2> QED BY <2>1, <2>2, <1>6
<1> QED BY <1>3, <1>4, <1>5, <1>6, <1>7, <1>8

LEMMA BudgetMessage ==
    ASSUME UInv, UInv', Budget, NoUploads, TakeMessage
    PROVE  Budget'
<1> DEFINE m == Head(inbox)
<1>1. /\ inbox # <<>> /\ inbox' = Tail(inbox) /\ up = "open"
      /\ UNCHANGED <<clientVars, up, limit, draining, fromB, bState, bGot>>
    BY Zenon DEF TakeMessage, backendVars
<1>2. inbox \in Seq(Message) /\ toB \in Seq(DownFrame) /\ pending \in Seq(Requests)
      /\ Distinct(pending) /\ \A r \in ToSet(pending) : r \notin live
    BY TaskTyped, Waiting, Zenon DEF UInv, Base, Types, TaskTypes
<1>3. m \in Message /\ Shorter(inbox, inbox')
    BY <1>1, <1>2, Taken, Zenon
<1>4. m.r \in Requests /\ m.k \in {"Request", "Cancel"} /\ \A i \in DOMAIN inbox' : inbox'[i].k # "Body"
    <2>1. \A i \in DOMAIN inbox : inbox[i].k # "Body"
        BY Zenon DEF Budget, Bodiless
    <2>2. 1 \in DOMAIN inbox /\ inbox[1] = m /\ \A i \in DOMAIN inbox' : i + 1 \in DOMAIN inbox /\ inbox'[i] = inbox[i + 1]
        BY <1>3 DEF Shorter
    <2>3. m.k # "Body" /\ \A i \in DOMAIN inbox' : inbox'[i].k # "Body"
        BY <2>1, <2>2, Zenon
    <2> QED BY <2>3, <1>3 DEF Message
<1>5. \/ m.k = "Request" /\ TakeRequest(m.r)
      \/ m.k = "Cancel" /\ TakeCancel(m.r)
    BY <1>4 DEF TakeMessage
<1>6. /\ Bounded /\ Bare(toB) /\ limit' <= FirstLimit
      /\ draining # NotDraining => pending = <<>>
      /\ draining = NotDraining => Streams(toB, bState, Len(toB)) \subseteq live
    BY <1>1, Zenon DEF Budget, Bodiless
<1> HIDE DEF m
<1>7. CASE TakeRequest(m.r)
    <2>1. \/ UNCHANGED <<toB, live, buf, pending>>
          \/ UNCHANGED <<toB, live, buf>> /\ draining = NotDraining
          \/ /\ CanOpen(live) /\ draining = NotDraining /\ live' = live \cup {m.r}
             /\ toB' = Append(toB, Headers(m.r)) /\ UNCHANGED <<pending, buf>>
        BY <1>7 DEF TakeRequest, Admit, NoForget, OpenLocal
    <2>2. CASE UNCHANGED <<toB, live, buf>> /\ (pending' = pending \/ draining = NotDraining)
        BY <2>2, <1>1, <1>4, <1>6, BudgetStays, Zenon
    <2>3. CASE /\ CanOpen(live) /\ draining = NotDraining /\ live' = live \cup {m.r}
               /\ toB' = Append(toB, Headers(m.r)) /\ UNCHANGED <<pending, buf>>
        <3>1. PICK g : g = Headers(m.r)
            OBVIOUS
        <3>2. g \in DownFrame /\ g.k = "HEADERS" /\ g.r = m.r /\ g.end
            <4>1. BodyOf[m.r] = 0
                BY <1>4 DEF NoUploads
            <4>2. Headers(m.r).end
                BY <4>1 DEF Headers, Frame
            <4> QED BY <3>1, <4>2, <1>4, HeadersType, Zenon
        <3>3. toB' \in Seq(DownFrame) /\ Len(toB') = Len(toB) + 1 /\ Longer(toB, toB', g)
            <4>1. toB' = Append(toB, g)
                BY <2>3, <3>1
            <4> QED BY <4>1, <3>2, <1>2, Added, Zenon
        <3>4. Len(toB) \in Nat /\ Len(toB) <= Len(toB) /\ Len(toB) <= Len(toB')
            BY <3>3, <1>2
        <3>5. /\ \A i \in 1..Len(toB) : toB'[i] = toB[i]
              /\ \A i \in DOMAIN toB' : i \in DOMAIN toB \/ toB'[i] = g
              /\ \A i \in DOMAIN toB : toB'[i] = toB[i]
              /\ \A i \in 1..Len(toB') : i > Len(toB) => toB'[i] = g
            BY <3>3, <3>4 DEF Longer
        <3>6. Bare(toB')
            BY <3>2, <3>5, <1>6 DEF Bare
        <3>7. Cardinality(live') <= FirstLimit
            <4>1. live \subseteq Requests /\ limit \in Nat /\ FirstLimit \in Nat /\ IsFiniteSet(Requests)
                BY UpstreamAssumption, Zenon DEF UInv, Base, Types, TypeOK
            <4>2. IsFiniteSet(live)
                BY <4>1, FS_Subset, Zenon
            <4>3. Cardinality(live) \in Nat
                BY <4>2, FS_CardinalityType, Zenon
            <4>4. Cardinality(live') <= Cardinality(live) + 1
                <5>1. Cardinality(live \cup {m.r}) = IF m.r \in live THEN Cardinality(live) ELSE Cardinality(live) + 1
                    BY <4>2, FS_AddElement
                <5> QED BY <5>1, <4>3, <2>3
            <4>5. IsFiniteSet(live \cup {m.r})
                BY <4>2, FS_AddElement, Zenon
            <4>6. Cardinality(live') \in Nat
                BY <4>5, <2>3, FS_CardinalityType, Zenon
            <4>7. Cardinality(live) < limit /\ limit <= FirstLimit
                BY <2>3, <1>1, <1>6 DEF CanOpen
            <4> QED BY <4>1, <4>3, <4>4, <4>6, <4>7
        <3>8. Covered(Len(toB))
            BY <2>3, <1>6 DEF Covered
        <3>9. /\ \A i \in 1..Len(toB) : i > Len(toB) => toB'[i].k = "RST"
              /\ \A i \in 1..Len(toB') : i > Len(toB) => toB'[i].r \in live'
            <4>1. \A i \in 1..Len(toB) : ~(i > Len(toB))
                BY <3>4
            <4>2. m.r \in live'
                BY <2>3
            <4> QED BY <4>1, <4>2, <3>2, <3>5, Zenon
        <3>10. Bounded' /\ Streams(toB', bState', Len(toB')) \subseteq live'
            BY <3>4, <3>5, <3>7, <3>8, <3>9, <1>1, <1>6, BudgetGrows, Zenon
        <3> QED BY <2>3, <3>6, <3>10, <1>1, <1>4, <1>6, BudgetKept, Zenon
    <2> QED BY <2>1, <2>2, <2>3
<1>8. CASE TakeCancel(m.r)
    <2>1. CASE m.r \in routes
        <3> DEFINE frames == IF m.r \in live THEN Append(toB, Frame("RST", m.r, FALSE)) ELSE toB
        <3>1. FillSlots(live \ {m.r}, routes \ {m.r}, pending, frames)
            BY <2>1, <1>8, Zenon DEF TakeCancel, Forget
        <3>2. Behind(frames) /\ Quiet(frames)
            <4>1. CASE m.r \in live
                <5>1. m.r \in Known
                    BY <4>1, Waiting, Zenon
                <5>2. Frame("RST", m.r, FALSE) \in DownFrame /\ Frame("RST", m.r, FALSE).k = "RST"
                      /\ Frame("RST", m.r, FALSE).r = m.r /\ Frame("RST", m.r, FALSE).k # "HEADERS"
                    BY <1>4, ResetType
                <5>3. Behind(Append(toB, Frame("RST", m.r, FALSE)))
                      /\ Quiet(Append(toB, Frame("RST", m.r, FALSE)))
                    BY <5>1, <5>2, BehindOne, Zenon
                <5> QED BY <4>1, <5>3, Zenon
            <4>2. CASE m.r \notin live
                BY <4>2, BehindSame, Zenon
            <4> QED BY <4>1, <4>2
        <3>3. m.r \in live => Sends(frames, "RST", m.r, Len(frames))
            <4> SUFFICES ASSUME m.r \in live PROVE Sends(frames, "RST", m.r, Len(frames))
                OBVIOUS
            <4>1. frames = Append(toB, Frame("RST", m.r, FALSE))
                OBVIOUS
            <4> HIDE DEF frames
            <4> QED BY <4>1, <1>4, <1>6, ResetBare, Zenon
        <3>4. live \ {m.r} \in SUBSET live
            OBVIOUS
        <3> HIDE DEF frames
        <3>5. draining = NotDraining => Remain(live \ {m.r}, frames)
            BY <3>3, <1>6, Zenon DEF Remain
        <3>6. /\ Bounded' /\ Bare(toB')
              /\ draining = NotDraining => Streams(toB', bState', Len(toB')) \subseteq live'
            BY <3>1, <3>2, <3>4, <3>5, <1>1, <1>2, <1>6, BudgetFilled, Zenon
        <3>7. buf' = buf /\ (draining # NotDraining => pending' = <<>>)
            <4>1. pending = <<>> => pending' = <<>>
                <5> SUFFICES ASSUME pending = <<>> PROVE pending' = <<>>
                    OBVIOUS
                <5>1. \E n \in 0..Len(pending) : pending' = SubSeq(pending, n + 1, Len(pending))
                    <6>1. Table /\ live \ {m.r} \in SUBSET Requests
                        <7>1. Table
                            BY TypedTable, Zenon DEF UInv, Base
                        <7> QED BY <7>1 DEF Table
                    <6>2. frames \in Seq(DownFrame)
                        BY <3>2, Zenon DEF Behind
                    <6> QED BY <3>1, <6>1, <6>2, <1>2, Filled, Zenon
                <5> QED BY <5>1
            <4>2. buf' = buf
                BY <3>1 DEF FillSlots
            <4> QED BY <4>1, <4>2, <1>6
        <3> QED BY <3>6, <3>7, <1>1, <1>4, <1>6, BudgetKept, Zenon
    <2>2. CASE m.r \notin routes
        <3>1. pending' = Without(pending, m.r) /\ UNCHANGED <<toB, live, buf>>
            BY <1>8, <2>2, Zenon DEF TakeCancel
        <3>2. pending = <<>> => pending' = <<>>
            BY <3>1 DEF Without, Contains
        <3> QED BY <3>1, <3>2, <1>1, <1>4, <1>6, BudgetStays, Zenon
    <2> QED BY <2>1, <2>2
<1> QED BY <1>5, <1>7, <1>8

\* A frame about r: r leaves the table if it is over, or stays.
LEMMA Over ==
    ASSUME UInv, NEW f \in UpFrame, Said(f),
           \/ f.k = "HEADERS" /\ RecvHeaders(f.r, f.end)
           \/ f.k = "DATA" /\ RecvData(f.r, f.end)
           \/ f.k = "RST" /\ RecvRst(f.r, f.refused)
           \/ f.k = "BADTRAILERS" /\ RecvBadTrailers(f.r)
    PROVE  \/ NoForget
           \/ Forget(f.r, toB) /\ (f.r \in live => bState[f.r] \in Settled)
<1>1. /\ f.k = "RST" => bState[f.r] \in Settled
      /\ f.k \in {"HEADERS", "DATA", "BADTRAILERS"} /\ f.end => bState[f.r] \in Settled
    BY Zenon DEF Said
<1>2. CASE f.k = "HEADERS" /\ RecvHeaders(f.r, f.end)
    <2>1. NoForget \/ (Forget(f.r, toB) /\ (f.end \/ f.r \notin live))
        BY <1>2, Zenon DEF RecvHeaders
    <2>2. f.k \in {"HEADERS", "DATA", "BADTRAILERS"}
        BY <1>2
    <2> QED BY <2>1, <2>2, <1>1, Zenon
<1>3. CASE f.k = "DATA" /\ RecvData(f.r, f.end)
    <2>1. NoForget \/ (Forget(f.r, toB) /\ f.end)
        BY <1>3, Zenon DEF RecvData
    <2>2. f.k \in {"HEADERS", "DATA", "BADTRAILERS"}
        BY <1>3
    <2> QED BY <2>1, <2>2, <1>1, Zenon
<1>4. CASE f.k = "RST" /\ RecvRst(f.r, f.refused)
    BY <1>1, <1>4, Zenon DEF RecvRst
<1>5. CASE f.k = "BADTRAILERS" /\ RecvBadTrailers(f.r)
    <2>1. NoForget \/ Forget(f.r, toB)
        BY <1>5, Zenon DEF RecvBadTrailers
    <2>2. f.k \in {"HEADERS", "DATA", "BADTRAILERS"} /\ f.end
        BY <1>5, UpFields
    <2> QED BY <2>1, <2>2, <1>1, Zenon
<1> QED BY <1>2, <1>3, <1>4, <1>5

LEMMA LastIsLast == ASSUME NEW last \in 0..Never PROVE last # NotDraining
<1>1. Never \in Nat
    <2>1. Cardinality(Requests) \in Nat
        BY UpstreamAssumption, FS_CardinalityType, Zenon
    <2> QED BY <2>1 DEF Never
<1> QED BY <1>1 DEF NotDraining

LEMMA BudgetFrame ==
    ASSUME UInv, UInv', Budget, NoUploads, NeverRaised, TakeFrame
    PROVE  Budget'
<1>1. PICK f : f = Head(fromB)
    OBVIOUS
<1>2. /\ fromB # <<>> /\ up = "open" /\ fromB' = Tail(fromB)
      /\ UNCHANGED <<inbox, up, bState, bGot>>
    BY Zenon DEF TakeFrame, backendVars
<1>3. f \in UpFrame /\ Said(f)
    BY <1>1, <1>2, FrameTaken, Zenon
<1>4. /\ Bounded /\ Bare(toB) /\ limit <= FirstLimit
      /\ \A i \in DOMAIN inbox' : inbox'[i].k # "Body"
      /\ draining # NotDraining => pending = <<>>
      /\ draining = NotDraining => Streams(toB, bState, Len(toB)) \subseteq live
    BY <1>2, Zenon DEF Budget, Bodiless
<1>5. \/ f.k = "GOAWAY" /\ BeginDrain(f.last) /\ limit' = limit
      \/ f.k = "SETTINGS" /\ NoForget /\ limit' = f.max /\ draining' = draining
      \/ /\ limit' = limit /\ draining' = draining /\ About(f)
         /\ \/ f.k = "HEADERS" /\ RecvHeaders(f.r, f.end)
            \/ f.k = "DATA" /\ RecvData(f.r, f.end)
            \/ f.k = "RST" /\ RecvRst(f.r, f.refused)
            \/ f.k = "BADTRAILERS" /\ RecvBadTrailers(f.r)
            \/ f.k = "ZEROUPDATE" /\ RecvZeroUpdate(f.r)
    <2>1. f.k \in {"HEADERS", "DATA", "ZEROUPDATE", "BADTRAILERS", "RST", "GOAWAY", "SETTINGS"}
        BY <1>3, UpFields, Zenon
    <2> QED BY <2>1, <1>1 DEF TakeFrame, About
<1>6. /\ pending \in Seq(Requests) /\ Distinct(pending) /\ \A r \in ToSet(pending) : r \notin live
      /\ Behind(toB) /\ Quiet(toB)
    BY BehindSame, TaskTyped, Waiting, Zenon DEF TaskTypes
<1>7. CASE f.k = "GOAWAY" /\ BeginDrain(f.last) /\ limit' = limit
    <2> DEFINE above == {r \in routes : id[r] > f.last}
               queue == <<>>
    <2>1. FillSlots(live \ above, routes \ above, queue, toB) /\ draining' = f.last
        BY <1>7, Zenon DEF BeginDrain, Abandon
    <2>2. live \ above \in SUBSET live
        OBVIOUS
    <2>3. queue \in Seq(Requests) /\ Distinct(queue) /\ \A r \in ToSet(queue) : r \notin live
        BY DEF Distinct, ToSet
    <2>4. pending' = <<>> /\ buf' = buf
        <3>1. /\ buf' = buf
              /\ \E n : pending' = SubSeq(queue, n + 1, Len(queue)) /\ n \in 0..Len(queue)
            <4>1. Table /\ live \ above \in SUBSET Requests /\ toB \in Seq(DownFrame)
                <5>1. Table
                    BY TypedTable, Zenon DEF UInv, Base
                <5> QED BY <5>1 DEF Table
            <4>2. buf' = buf
                BY <2>1 DEF FillSlots
            <4> HIDE DEF above, queue
            <4> QED BY <4>1, <4>2, <2>1, <2>3, Filled, Zenon
        <3> QED BY <3>1
    <2>5. queue = <<>>
        OBVIOUS
    <2> HIDE DEF above, queue
    <2>6. Bounded' /\ Bare(toB')
        BY <2>1, <2>2, <2>3, <2>5, <1>2, <1>6, BudgetFilled, Zenon
    <2>7. draining' # NotDraining
        <3>1. f.last \in 0..Never
            BY <1>3, <1>7, UpFields, Zenon
        <3> QED BY <3>1, <2>1, LastIsLast, Zenon
    <2> QED BY <2>4, <2>6, <2>7, <1>2, <1>4, <1>7, BudgetKept, Zenon
<1>8. CASE f.k = "SETTINGS" /\ NoForget /\ limit' = f.max /\ draining' = draining
    <2>1. f.max \in Limits
        BY <1>3, <1>8 DEF UpFrame
    <2>2. limit' <= FirstLimit
        BY <2>1, <1>8 DEF NeverRaised
    <2>3. UNCHANGED <<toB, live, buf, pending>>
        BY <1>8, Zenon DEF NoForget
    <2> QED BY <2>2, <2>3, <1>2, <1>4, <1>8, BudgetStays, Zenon
<1>9. CASE /\ limit' = limit /\ draining' = draining /\ About(f)
           /\ \/ f.k = "HEADERS" /\ RecvHeaders(f.r, f.end)
              \/ f.k = "DATA" /\ RecvData(f.r, f.end)
              \/ f.k = "RST" /\ RecvRst(f.r, f.refused)
              \/ f.k = "BADTRAILERS" /\ RecvBadTrailers(f.r)
    <2>1. \/ NoForget
          \/ Forget(f.r, toB) /\ (f.r \in live => bState[f.r] \in Settled)
        BY <1>3, <1>9, Over, Zenon
    <2>2. CASE NoForget
        <3>1. UNCHANGED <<toB, live, buf, pending>>
            BY <2>2, Zenon DEF NoForget
        <3>2. limit' <= FirstLimit
            BY <1>4, <1>9
        <3> QED BY <3>1, <3>2, <1>2, <1>4, <1>9, BudgetStays, Zenon
    <2>3. CASE Forget(f.r, toB) /\ (f.r \in live => bState[f.r] \in Settled)
        <3>1. FillSlots(live \ {f.r}, routes \ {f.r}, pending, toB)
            BY <2>3, Zenon DEF Forget
        <3>2. draining = NotDraining => Remain(live \ {f.r}, toB)
            BY <2>3, <1>4, AllRemain, Zenon
        <3>3. live \ {f.r} \in SUBSET live
            OBVIOUS
        <3>4. /\ Bounded' /\ Bare(toB')
              /\ draining = NotDraining => Streams(toB', bState', Len(toB')) \subseteq live'
            BY <3>1, <3>2, <3>3, <1>2, <1>4, <1>6, BudgetFilled, Zenon
        <3>5. buf' = buf /\ (draining # NotDraining => pending' = <<>>)
            <4>1. \E n \in 0..Len(pending) : pending' = SubSeq(pending, n + 1, Len(pending))
                <5>1. Table /\ live \ {f.r} \in SUBSET Requests /\ toB \in Seq(DownFrame)
                    <6>1. Table
                        BY TypedTable, Zenon DEF UInv, Base
                    <6> QED BY <6>1 DEF Table
                <5> QED BY <3>1, <5>1, <1>6, Filled, Zenon
            <4>2. pending = <<>> => pending' = <<>>
                <5> SUFFICES ASSUME pending = <<>> PROVE pending' = <<>>
                    OBVIOUS
                <5> QED BY <4>1
            <4>3. buf' = buf
                BY <3>1 DEF FillSlots
            <4> QED BY <4>2, <4>3, <1>4
        <3>6. limit' <= FirstLimit
            BY <1>4, <1>9
        <3> QED BY <3>4, <3>5, <3>6, <1>2, <1>4, <1>9, BudgetKept, Zenon
    <2> QED BY <2>1, <2>2, <2>3
<1>10. CASE /\ limit' = limit /\ draining' = draining /\ About(f)
            /\ f.k = "ZEROUPDATE" /\ RecvZeroUpdate(f.r)
    <2>1. /\ live' = live \ {f.r} /\ toB' = Append(toB, Frame("RST", f.r, FALSE))
          /\ pending' = pending /\ buf' = buf
        BY <1>10 DEF RecvZeroUpdate
    <2>2. f.r \in Requests
        BY <1>3, <1>10, UpFields, Zenon
    <2>3. /\ Bare(toB') /\ Sends(toB', "RST", f.r, Len(toB'))
          /\ Len(toB) \in Nat /\ Len(toB') = Len(toB) + 1
          /\ \A i \in 1..Len(toB) : toB'[i] = toB[i]
          /\ toB'[Len(toB')].k = "RST"
        BY <2>1, <2>2, <1>4, ResetBare, Zenon
    <2>4. PICK c : c = Len(toB')
        OBVIOUS
    <2>5. /\ c \in Nat /\ Len(toB) <= c /\ c <= Len(toB') /\ Len(toB) <= Len(toB')
          /\ \A i \in 1..c : i > Len(toB) => i = c
          /\ \A i \in 1..Len(toB') : ~(i > c)
        BY <2>3, <2>4
    <2>6. \A i \in 1..c : i > Len(toB) => toB'[i].k = "RST"
        BY <2>3, <2>4, <2>5, Zenon
    <2>7. draining = NotDraining => Covered(c)
        BY <2>1, <2>3, <2>4, <1>4 DEF Covered
    <2>8. /\ Bounded'
          /\ Covered(c) => Streams(toB', bState', Len(toB')) \subseteq live'
        BY <2>3, <2>4, <2>5, <2>6, <1>2, <1>4, BudgetGrows, Zenon
    <2>9. limit' <= FirstLimit
        BY <1>4, <1>10
    <2> QED BY <2>1, <2>3, <2>7, <2>8, <2>9, <1>2, <1>4, <1>10, BudgetKept, Zenon
<1> QED BY <1>5, <1>7, <1>8, <1>9, <1>10

\* The backend takes the first frame: what it counts, or will, it would have counted.
LEMMA StreamsTaken ==
    ASSUME UInv, Bare(toB), NEW f, f = Head(toB), f.r \in Requests, Shorter(toB, toB'), Takes(f),
           NEW i \in 0..Len(toB'), Len(toB') = Len(toB) - 1
    PROVE  Streams(toB', bState', i) \subseteq Streams(toB, bState, i + 1)
<1>1. /\ 1 \in DOMAIN toB /\ toB[1] = f /\ i \in Nat /\ Len(toB) \in Nat
      /\ DOMAIN toB = 1..Len(toB) /\ i + 1 <= Len(toB)
      /\ \A j \in 1..i : toB'[j] = toB[j + 1] /\ j + 1 \in 1..(i + 1) /\ j + 1 \in DOMAIN toB
      /\ \A j \in 1..(i + 1) : j = 1 \/ (j - 1 \in 1..i /\ toB'[j - 1] = toB[j])
      /\ 1 \in 1..(i + 1)
    BY DEF Shorter
<1>2. bState \in [Requests -> BackendState] /\ Down(toB)
    BY BackendTyped, Zenon DEF UInv, Base, BackendTypes
<1>3. ASSUME NEW r, r # f.r PROVE \A k : Sends(toB', k, r, i) <=> Sends(toB, k, r, i + 1)
    <2> SUFFICES ASSUME NEW k PROVE Sends(toB', k, r, i) <=> Sends(toB, k, r, i + 1)
        OBVIOUS
    <2>1. ASSUME NEW j \in 1..i, toB'[j].k = k, toB'[j].r = r PROVE Sends(toB, k, r, i + 1)
        <3>1. toB[j + 1].k = k /\ toB[j + 1].r = r /\ j + 1 \in 1..(i + 1)
            BY <2>1, <1>1
        <3> QED BY <3>1, Zenon DEF Sends
    <2>2. ASSUME NEW j \in 1..(i + 1), toB[j].k = k, toB[j].r = r PROVE Sends(toB', k, r, i)
        <3>1. j # 1
            BY <2>2, <1>1, <1>3
        <3>2. toB'[j - 1].k = k /\ toB'[j - 1].r = r /\ j - 1 \in 1..i
            BY <2>2, <3>1, <1>1
        <3> QED BY <3>2, Zenon DEF Sends
    <2> QED BY <2>1, <2>2, Zenon DEF Sends
<1>4. ~Sends(toB', "HEADERS", f.r, i)
    <2> SUFFICES ASSUME NEW j \in 1..i, toB'[j].k = "HEADERS", toB'[j].r = f.r PROVE FALSE
        BY DEF Sends
    <2>1. toB[j + 1].k = "HEADERS" /\ toB[j + 1].r = f.r /\ j + 1 \in DOMAIN toB
        BY <1>1
    <2>2. j + 1 <= 1
        BY <2>1, <1>1, <1>2 DEF Down
    <2> QED BY <2>2
<1>5. /\ \A s \in Requests : s # f.r => bState'[s] = bState[s]
      /\ bState'[f.r] \in Busy => f.k = "HEADERS"
    <2>1. f.k # "DATA"
        BY <1>1 DEF Bare
    <2>2. CASE f.k = "HEADERS"
        BY <2>2, <1>2 DEF Takes, Accept, Refuse
    <2>3. CASE f.k = "RST"
        <3>1. bState' = [bState EXCEPT ![f.r] =
                             IF bState[f.r] \in {"idle", "refused"} THEN bState[f.r] ELSE "reset"]
            BY <2>3 DEF Takes
        <3> QED BY <3>1, <1>2 DEF Busy
    <2> QED BY <2>1, <2>2, <2>3 DEF Takes
<1>6. ASSUME NEW r \in Streams(toB', bState', i) PROVE r \in Streams(toB, bState, i + 1)
    <2>1. /\ r \in Requests /\ ~Sends(toB', "RST", r, i)
          /\ bState'[r] \in Busy \/ Sends(toB', "HEADERS", r, i)
        BY <1>6, Zenon DEF Streams
    <2>2. CASE r # f.r
        <3>1. bState'[r] = bState[r] /\ \A k : Sends(toB', k, r, i) <=> Sends(toB, k, r, i + 1)
            BY <2>1, <2>2, <1>3, <1>5
        <3> QED BY <2>1, <3>1, Zenon DEF Streams
    <2>3. CASE r = f.r
        <3>1. f.k = "HEADERS"
            BY <2>1, <2>3, <1>4, <1>5
        <3>2. Sends(toB, "HEADERS", r, i + 1)
            BY <2>3, <3>1, <1>1, Zenon DEF Sends
        <3>3. ~Sends(toB, "RST", r, i + 1)
            <4> SUFFICES ASSUME NEW j \in 1..(i + 1), toB[j].k = "RST", toB[j].r = r PROVE FALSE
                BY Zenon DEF Sends
            <4>1. j # 1
                BY <3>1, <1>1
            <4>2. j - 1 \in 1..i /\ toB'[j - 1] = toB[j]
                BY <4>1, <1>1
            <4> QED BY <2>1, <4>2, Zenon DEF Sends
        <3> QED BY <2>1, <3>2, <3>3, Zenon DEF Streams
    <2> QED BY <2>2, <2>3
<1> QED BY <1>6

LEMMA BudgetTaken ==
    ASSUME UInv, Budget, BackendTake
    PROVE  Budget'
<1>1. PICK f \in DownFrame :
          /\ f = Head(toB) /\ f.r \in Requests /\ Takes(f) /\ Shorter(toB, toB')
          /\ Len(toB') = Len(toB) - 1 /\ toB' \in Seq(DownFrame)
          /\ UNCHANGED <<clientVars, inbox, stage, taskVars, bLast>>
    BY Taking, Zenon
<1>2. Bounded /\ Bare(toB) /\ limit <= FirstLimit
      /\ \A r \in Requests : bState[r] \notin {"idle", "refused"} => bGot[r].end
    BY Zenon DEF Budget, Bodiless
<1>3. /\ bState \in [Requests -> BackendState] /\ bGot \in [Requests -> [n : Nat, end : BOOLEAN]]
      /\ toB \in Seq(DownFrame)
    BY BackendTyped, Zenon DEF BackendTypes, UInv, Base, Types
<1>4. UNCHANGED <<inbox, buf, live, pending, up, draining, limit>>
    BY <1>1, Zenon DEF taskVars
<1>5. /\ Len(toB) \in Nat /\ Len(toB') \in Nat /\ Len(toB') + 1 = Len(toB)
      /\ 1 \in DOMAIN toB /\ toB[1] = f
      /\ \A i \in DOMAIN toB' : i + 1 \in DOMAIN toB /\ toB'[i] = toB[i + 1]
    BY <1>1, <1>3 DEF Shorter
<1>6. Bare(toB')
    BY <1>2, <1>5, Zenon DEF Bare
<1>7. ASSUME NEW i \in 0..Len(toB')
      PROVE  Streams(toB', bState', i) \subseteq Streams(toB, bState, i + 1)
    BY <1>1, <1>2, StreamsTaken, Zenon
<1>8. Bounded'
    <2> SUFFICES ASSUME NEW i \in 0..Len(toB')
                 PROVE  Cardinality(Streams(toB', bState', i)) <= FirstLimit
        BY Zenon DEF Bounded
    <2>1. i + 1 \in 0..Len(toB)
        BY <1>5
    <2>2. Cardinality(Streams(toB, bState, i + 1)) <= FirstLimit
        BY <2>1, <1>2, Zenon DEF Bounded
    <2>3. Streams(toB, bState, i + 1) \subseteq Requests
        BY DEF Streams
    <2> QED BY <2>2, <2>3, <1>7, StreamsCount, Zenon
<1>9. up' = "open" /\ draining' = NotDraining => Streams(toB', bState', Len(toB')) \subseteq live'
    <2>1. Len(toB') \in 0..Len(toB')
        BY <1>5
    <2>2. Streams(toB', bState', Len(toB')) \subseteq Streams(toB, bState, Len(toB))
        BY <2>1, <1>5, <1>7, Zenon
    <2> QED BY <2>2, <1>4 DEF Budget
<1>10. ASSUME NEW r \in Requests, bState'[r] \notin {"idle", "refused"} PROVE bGot'[r].end
    <2>1. f.k # "DATA" /\ (f.k = "HEADERS" => f.end)
        BY <1>2, <1>5, Zenon DEF Bare
    <2>2. CASE UNCHANGED <<bState, bGot>>
        BY <2>2, <1>2, <1>10
    <2>3. CASE f.k = "HEADERS" /\ Accept(f)
        BY <2>1, <2>3, <1>1, <1>2, <1>3, <1>10 DEF Accept
    <2>4. CASE Refuse(f)
        BY <2>4, <1>1, <1>2, <1>3, <1>10 DEF Refuse
    <2>5. CASE /\ bState' = [bState EXCEPT ![f.r] =
                                 IF bState[f.r] \in {"idle", "refused"} THEN bState[f.r] ELSE "reset"]
               /\ bGot' = bGot
        BY <2>5, <1>1, <1>2, <1>3, <1>10
    <2> QED BY <2>1, <2>2, <2>3, <2>4, <2>5, <1>1, Zenon DEF Takes
<1>11. Bodiless'
    BY <1>4, <1>6, <1>10, Zenon DEF Budget, Bodiless, NoBody
<1> QED BY <1>2, <1>4, <1>8, <1>9, <1>11, Zenon DEF Budget

\* A response goes on, or ends: no more streams count than did.
LEMMA BudgetAnswered ==
    ASSUME UInv, Budget, UNCHANGED <<inbox, taskVars, toB, bGot>>,
           \A r \in Requests : bState'[r] # bState[r] => bState[r] \in Busy
    PROVE  Budget'
<1>1. Bounded /\ Bodiless /\ toB \in Seq(DownFrame)
    BY Zenon DEF Budget, UInv, Base, Types
<1>2. UNCHANGED <<inbox, buf, live, pending, up, draining, limit>>
    BY Zenon DEF taskVars
<1>3. \A i : Streams(toB, bState', i) \subseteq Streams(toB, bState, i)
    BY DEF Streams
<1>4. Bounded'
    <2> SUFFICES ASSUME NEW i \in 0..Len(toB)
                 PROVE  Cardinality(Streams(toB, bState', i)) <= FirstLimit
        BY Zenon DEF Bounded
    <2>1. Streams(toB, bState, i) \subseteq Requests
        BY DEF Streams
    <2>2. Cardinality(Streams(toB, bState, i)) <= FirstLimit
        BY <1>1, Zenon DEF Bounded
    <2> QED BY <2>1, <2>2, <1>3, StreamsCount, Zenon
<1>5. up' = "open" /\ draining' = NotDraining => Streams(toB', bState', Len(toB')) \subseteq live'
    <2>1. Streams(toB, bState', Len(toB)) \subseteq Streams(toB, bState, Len(toB))
        BY <1>3, Zenon
    <2> QED BY <2>1, <1>2 DEF Budget
<1>6. Bodiless'
    <2>1. \A r \in Requests : bState'[r] \notin {"idle", "refused"} => bGot'[r].end
        BY <1>1 DEF Bodiless, Busy
    <2> QED BY <2>1, <1>1, <1>2, Zenon DEF Bodiless, Bare, NoBody
<1> QED BY <1>2, <1>4, <1>5, <1>6, Zenon DEF Budget

\* A message more in the inbox, and no body.
LEMMA BudgetAsked ==
    ASSUME UInv, Budget, UNCHANGED <<stage, taskVars, toB, bState, bGot>>,
           NEW m \in Message, m.k # "Body", inbox' = Append(inbox, m)
    PROVE  Budget'
<1>1. inbox \in Seq(Message)
    BY Zenon DEF UInv, Base, Types
<1>2. Longer(inbox, inbox', m)
    BY <1>1, Added, Zenon
<1>3. \A i \in DOMAIN inbox' : inbox'[i].k # "Body"
    <2>1. \A i \in DOMAIN inbox : inbox[i].k # "Body"
        BY Zenon DEF Budget, Bodiless
    <2> QED BY <1>2, <2>1 DEF Longer
<1>4. UNCHANGED <<live, buf, pending, up, draining, limit>>
    BY Zenon DEF taskVars
<1>5. limit <= FirstLimit /\ (draining # NotDraining => pending = <<>>)
    BY Zenon DEF Budget
<1> QED BY <1>3, <1>4, <1>5, BudgetStays, Zenon

LEMMA BudgetOthers ==
    ASSUME UInv, UInv', Budget, NoUploads, NeverRaised, Next \/ UNCHANGED vars
    PROVE  Budget'
<1>1. /\ \A i \in DOMAIN inbox : inbox[i].k # "Body"
      /\ \A r \in Requests : buf[r] = NoBody
      /\ limit <= FirstLimit
      /\ draining # NotDraining => pending = <<>>
    BY Zenon DEF Budget, Bodiless
<1>2. bState \in [Requests -> BackendState]
    BY BackendTyped, Zenon DEF BackendTypes, UInv, Base
<1>3. CASE UNCHANGED vars
    <2>1. UNCHANGED <<inbox, toB, live, buf, bState, bGot, limit, draining, pending, up>>
        BY <1>3, Zenon DEF vars, taskVars, backendVars
    <2> QED BY <2>1, <1>1, BudgetStays, Zenon
<1>4. ASSUME NEW r \in Requests, SendRequest(r) \/ SendCancel(r) PROVE Budget'
    <2>1. UNCHANGED <<stage, taskVars, toB, bState, bGot>>
        BY <1>4, Zenon DEF SendRequest, SendCancel, backendVars
    <2>2. PICK k \in {"Request", "Cancel"}, e \in BOOLEAN : inbox' = Append(inbox, Frame(k, r, e))
        <3>1. (BodyOf[r] = 0) \in BOOLEAN
            OBVIOUS
        <3> QED BY <1>4, <3>1, Zenon DEF SendRequest, SendCancel
    <2>3. PICK m : m = Frame(k, r, e)
        OBVIOUS
    <2>4. m \in Message /\ m.k # "Body" /\ inbox' = Append(inbox, m)
        BY <2>2, <2>3 DEF Frame, Message
    <2> QED BY <2>1, <2>4, BudgetAsked, Zenon
<1>5. ASSUME NEW r \in Requests, SendBody(r) PROVE FALSE
    <2>1. BodyOf[r] = 0 /\ asked[r] \in 0..(BodyOf[r] - 1)
        BY <1>5 DEF SendBody, NoUploads
    <2> QED BY <2>1
<1>6. ASSUME NEW r \in Requests, PumpBody(r) PROVE FALSE
    <2>1. buf[r].n > 0 \/ buf[r].end
        BY <1>6 DEF PumpBody
    <2>2. buf[r].n = 0 /\ ~buf[r].end
        BY <1>1 DEF NoBody
    <2> QED BY <2>1, <2>2
<1>7. CASE DrainDone \/ DrainDeadline \/ ConnectionFails
    <2>1. /\ UNCHANGED <<inbox, toB, live, buf, bState, bGot, limit, draining, pending>>
          /\ up' = "stopping"
        BY <1>7, Zenon DEF DrainDone, DrainDeadline, ConnectionFails, backendVars
    <2>2. up' # "open"
        BY <2>1
    <2> QED BY <2>1, <2>2, <1>1, BudgetStays, Zenon
<1>8. CASE FailAllRoutes
    <2>1. /\ UNCHANGED <<inbox, toB, live, buf, bState, bGot, limit, draining>>
          /\ up' = "failed" /\ pending' = <<>>
        BY <1>8, Zenon DEF FailAllRoutes, backendVars
    <2>2. up' # "open"
        BY <2>1
    <2> QED BY <2>1, <2>2, <1>1, BudgetStays, Zenon
<1>9. CASE CloseInbox
    <2>1. /\ UNCHANGED <<toB, live, buf, bState, bGot, limit, draining, pending>>
          /\ up' = "closed" /\ inbox' = <<>>
        BY <1>9, Zenon DEF CloseInbox, backendVars
    <2>2. up' # "open" /\ \A i \in DOMAIN inbox' : inbox'[i].k # "Body"
        BY <2>1
    <2> QED BY <2>1, <2>2, <1>1, BudgetStays, Zenon
<1>10. ASSUME NEW r \in Requests, NEW frame, NEW now, bState[r] \in Busy, Respond(r, frame, now)
       PROVE  Budget'
    <2>1. UNCHANGED <<inbox, taskVars, toB, bGot>>
        BY <1>10, Zenon DEF Respond
    <2>2. \A s \in Requests : bState'[s] # bState[s] => bState[s] \in Busy
        BY <1>10, <1>2 DEF Respond
    <2> QED BY <2>1, <2>2, BudgetAnswered, Zenon
<1>11. ASSUME NEW r \in Requests,
              BackendHead(r) \/ BackendData(r) \/ BackendEnd(r) \/ BackendReset(r)
       PROVE  Budget'
    <2>1. bState[r] \in Busy
        BY <1>11 DEF Busy, BackendHead, BackendData, BackendEnd, BackendReset
    <2>2. \E frame, now : Respond(r, frame, now)
        BY <1>11, Zenon DEF BackendHead, BackendData, BackendEnd, BackendReset
    <2> QED BY <2>1, <2>2, <1>10, Zenon
<1>12. ASSUME NEW r \in Requests, BackendBadTrailers(r) PROVE Budget'
    <2>1. UNCHANGED <<inbox, taskVars, toB, bGot>>
        BY <1>12, Zenon DEF BackendBadTrailers, Say
    <2>2. \A s \in Requests : bState'[s] # bState[s] => bState[s] \in Busy
        BY <1>12, <1>2 DEF BackendBadTrailers, Busy
    <2> QED BY <2>1, <2>2, BudgetAnswered, Zenon
<1>13. ASSUME BackendGoAway \/ BackendSettings \/ \E r \in Requests : BackendZeroUpdate(r)
       PROVE  Budget'
    <2>1. UNCHANGED <<inbox, taskVars, toB, bGot, bState>>
        BY <1>13, Zenon DEF BackendGoAway, BackendSettings, BackendZeroUpdate, Say
    <2> QED BY <2>1, BudgetAnswered, Zenon
<1> QED BY <1>3, <1>4, <1>5, <1>6, <1>7, <1>8, <1>9, <1>11, <1>12, <1>13,
           BudgetMessage, BudgetFrame, BudgetTaken, Zenon DEF Next

LEMMA BudgetInit ==
    ASSUME Init
    PROVE  Budget
<1>1. /\ inbox = <<>> /\ toB = <<>> /\ pending = <<>> /\ limit = FirstLimit /\ live = {}
      /\ buf = [r \in Requests |-> NoBody] /\ bState = [r \in Requests |-> "idle"]
    BY Zenon DEF Init
<1>2. FirstLimit \in Nat
    BY UpstreamAssumption, Zenon
<1>3. Bodiless
    BY <1>1 DEF Bodiless, Bare
<1>4. Len(toB) = 0 /\ \A i \in 0..Len(toB) : i = 0
    BY <1>1
<1>5. \A r \in Requests : bState[r] \notin Busy
    BY <1>1 DEF Busy
<1>6. \A k, r : ~Sends(toB, k, r, 0)
    BY DEF Sends
<1>7. Streams(toB, bState, 0) = {}
    BY <1>5, <1>6, Zenon DEF Streams
<1>8. Cardinality({}) = 0
    BY FS_EmptySet, Zenon
<1>9. Bounded
    <2> SUFFICES ASSUME NEW i \in 0..Len(toB)
                 PROVE  Cardinality(Streams(toB, bState, i)) <= FirstLimit
        BY Zenon DEF Bounded
    <2>1. Streams(toB, bState, i) = {}
        BY <1>4, <1>7, Zenon
    <2>2. Cardinality(Streams(toB, bState, i)) = 0
        BY <2>1, <1>8, Zenon
    <2> QED BY <2>2, <1>2
<1>10. Streams(toB, bState, Len(toB)) \subseteq live
    BY <1>4, <1>7, Zenon
<1>11. limit <= FirstLimit
    BY <1>1, <1>2
<1> QED BY <1>1, <1>3, <1>9, <1>10, <1>11, Zenon DEF Budget

LEMMA BudgetCounts ==
    ASSUME UInv, Budget
    PROVE  BudgetObeyed
<1>1. Bounded /\ \A r \in Requests : bState[r] \notin {"idle", "refused"} => bGot[r].end
    BY Zenon DEF Budget, Bodiless
<1>2. toB \in Seq(DownFrame)
    BY Zenon DEF UInv, Base, Types
<1>3. 0 \in 0..Len(toB)
    BY <1>2
<1>4. Cardinality(Streams(toB, bState, 0)) <= FirstLimit
    BY <1>1, <1>3, Zenon DEF Bounded
<1>5. \A k, r : ~Sends(toB, k, r, 0)
    BY DEF Sends
<1>6. Counted \subseteq Streams(toB, bState, 0)
    BY <1>1, <1>5 DEF Counted, Streams, Busy
<1>7. Streams(toB, bState, 0) \subseteq Requests
    BY DEF Streams
<1> QED BY <1>4, <1>6, <1>7, StreamsCount, Zenon DEF BudgetObeyed

\* Where nothing is uploaded and no SETTINGS raise the limit, the backend never has
\* more streams to serve at once than it allowed: counted by what it has taken from
\* the wire and not by the stream table, so a slot is given away again (drain_pending)
\* only when the wire already says why.
THEOREM LimitObeyed ==
    ASSUME NeverRaised, NoUploads
    PROVE  Spec => []BudgetObeyed
<1>1. Init => Budget
    BY BudgetInit
<1>2. UInv /\ UInv' /\ Budget /\ [Next]_vars => Budget'
    BY BudgetOthers
<1>3. UInv /\ Budget => BudgetObeyed
    BY BudgetCounts
<1>4. Spec => []UInv
    BY UInvHolds
<1> QED BY <1>1, <1>2, <1>3, <1>4, PTL DEF Spec

=============================================================================
