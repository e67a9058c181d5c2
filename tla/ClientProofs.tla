------------------------------ MODULE ClientProofs ------------------------------
(***************************************************************************)
(* For any number of streams, and for every way their clients, backends    *)
(* and drains treat them: the responses on the wire are well formed,       *)
(* leases follow streams, and a drain keeps its promise.  Where resets and *)
(* drains spare the streams that a known defect would meet, no stream      *)
(* takes the connection down.                                              *)
(*                                                                         *)
(* The invariant says where a stream stands in each of the three channels; *)
(* the places of its frames in a channel are At(channel, s).               *)
(***************************************************************************)
EXTENDS ClientConn, SequenceTheorems, TLAPS

UpFrame   == [k : {"HEADERS", "DATA", "RST"}, s : Streams, end : BOOLEAN]
DownFrame == [k : {"HEADERS", "DATA", "RST"}, s : Streams, end : BOOLEAN]
                \cup [k : {"GOAWAY"}, s : {0}, end : {FALSE}]
Event     == [k : {"Head", "Data"}, s : Streams, end : BOOLEAN]
                \cup [k : {"Trailers", "reset", "Gone", "Shed"}, s : Streams, end : {TRUE}]

Channels == fromC \in Seq(UpFrame) /\ toC \in Seq(DownFrame) /\ events \in Seq(Event)

At(q, s) == {i \in DOMAIN q : q[i].s = s}

\* Requests arrive in the order in which they were opened, above any before.
Ascending ==
    /\ hi < cNext
    /\ \A s \in Streams : resp[s] # "none" \/ s \in Live => s <= hi
    /\ \A i \in DOMAIN fromC :
        fromC[i].k = "HEADERS" =>
            /\ fromC[i].s < cNext /\ hi < fromC[i].s
            /\ \A j \in DOMAIN fromC :
                    fromC[j].k = "HEADERS" /\ j < i => fromC[j].s < fromC[i].s

Promise == drain = "committed" => last = hi

\* What is in the event channel for a stream: what ends it comes last, and what
\* begins it, or replaces it, first.
EndsLast(q, s)    == \A i \in At(q, s) : \A j \in At(q, s) : j < i => ~q[j].end
BeginsFirst(q, s) ==
    \A i \in At(q, s) : q[i].k \in {"Head", "Gone", "Shed"} => \A j \in At(q, s) : i <= j
Quiet(q, s)   == At(q, s) = {}
HasHead(q, s) == \E i \in At(q, s) : q[i].k = "Head"
Begins(q, s)  == \E i \in At(q, s) : q[i].k \in {"Head", "Gone", "Shed"}
Ends(q, s)    == \E i \in At(q, s) : q[i].end
HeadBefore(q, s) ==
    \A i \in At(q, s) : q[i].k \in {"Data", "Trailers"} =>
        \E j \in At(q, s) : j < i /\ q[j].k = "Head"

\* How the response stands between the responder, the channel and the queue.
Told(s) ==
    /\ EndsLast(events, s) /\ BeginsFirst(events, s)
    /\ ~Quiet(events, s) => resp[s] \in {"head", "over"}
    /\ resp[s] = "head" => ~Ends(events, s)
    /\ st[s] # "none" /\ s \notin started =>
            HeadBefore(events, s) /\ (resp[s] = "head" => HasHead(events, s))
    /\ st[s] # "none" => resp[s] # "none"
    /\ s \in started => resp[s] \in {"head", "over"} /\ ~Begins(events, s)
    /\ st[s] = "half-closed local" \/ queue[s].end => resp[s] = "over" /\ Quiet(events, s)
    /\ queue[s] # Nothing => s \in started /\ st[s] # "half-closed local"
    /\ queue[s].trailers => queue[s].end
    /\ st[s] = "half-closed local" => s \in started

\* What is on the wire for a stream makes, with what the client has read, one
\* response: nothing but resets follows an end or a reset.
Wire(q, s, view) ==
    /\ view \in {"none", "head", "end", "rst"}
    /\ \A i \in At(q, s) : q[i].k # "RST" =>
        /\ view \in {"none", "head"}
        /\ \A j \in At(q, s) : j < i => q[j].k # "RST" /\ ~q[j].end
        /\ q[i].k = "HEADERS" /\ ~q[i].end => view = "none" /\ \A j \in At(q, s) : i <= j
        /\ q[i].k = "DATA" => view = "head" \/ \E j \in At(q, s) : j < i /\ q[j].k = "HEADERS"

\* No frame of it has been written; its head has and its end has not.
Unsent(q, s, view) == view = "none" /\ At(q, s) = {}
Sending(q, s, view) ==
    /\ view \in {"none", "head"}
    /\ view = "head" \/ \E i \in At(q, s) : q[i].k = "HEADERS"
    /\ \A i \in At(q, s) : q[i].k # "RST" /\ ~q[i].end

Sent(s) ==
    /\ Wire(toC, s, cView[s])
    /\ s \in Live \ started => Unsent(toC, s, cView[s])
    /\ s \in started /\ st[s] # "half-closed local" => Sending(toC, s, cView[s])
    /\ drain # "committed" /\ s > hi => Unsent(toC, s, cView[s])

\* LeasesFollowStreams, of one stream.
Leased(s) ==
    /\ s \in route => st[s] # "none"
    /\ st[s] # "none" /\ s \notin route => st[s] = "half-closed local" /\ resp[s] = "over"

Fine(s) == Told(s) /\ Sent(s) /\ Leased(s)

\* The inductive invariant.
CInv == TypeOK /\ Channels /\ Ascending /\ Promise /\ \A s \in Streams : Fine(s)

-----------------------------------------------------------------------------
(* The channels. *)

\* r is q with f behind it; r is q without its first.
Longer(q, r, f) ==
    /\ Len(q) \in Nat /\ DOMAIN q = 1..Len(q) /\ DOMAIN r = 1..(Len(q) + 1)
    /\ \A i \in 1..Len(q) : r[i] = q[i]
    /\ r[Len(q) + 1] = f
Shorter(q, r) ==
    /\ Len(q) \in Nat \ {0} /\ DOMAIN q = 1..Len(q) /\ DOMAIN r = 1..(Len(q) - 1)
    /\ \A i \in 1..(Len(q) - 1) : r[i] = q[i + 1]
    /\ q[1] = Head(q)

LEMMA Added ==
    ASSUME NEW S, NEW q \in Seq(S), NEW f \in S, NEW r, r = Append(q, f)
    PROVE  r \in Seq(S) /\ Longer(q, r, f)
BY DEF Longer

LEMMA Taken == ASSUME NEW S, NEW q \in Seq(S), q # <<>> PROVE Shorter(q, Tail(q))
BY DEF Shorter

LEMMA AtLonger ==
    ASSUME NEW q, NEW r, NEW f, Longer(q, r, f), NEW s
    PROVE  /\ Len(q) \in Nat /\ At(q, s) \subseteq 1..Len(q)
           /\ f.s = s => At(r, s) = At(q, s) \cup {Len(q) + 1}
           /\ f.s # s => At(r, s) = At(q, s)
           /\ \A i \in At(q, s) : r[i] = q[i]
           /\ r[Len(q) + 1] = f
BY DEF Longer, At

LEMMA AtShorter ==
    ASSUME NEW q, NEW r, Shorter(q, r), NEW s
    PROVE  /\ At(q, s) \subseteq Nat \ {0} /\ At(r, s) \subseteq Nat \ {0}
           /\ \A i \in At(r, s) : i + 1 \in At(q, s) /\ r[i] = q[i + 1]
           /\ \A i \in At(q, s) : i # 1 => i - 1 \in At(r, s) /\ r[i - 1] = q[i]
           /\ 1 \in At(q, s) <=> Head(q).s = s
           /\ q[1] = Head(q)
BY DEF Shorter, At

\* Two frames at once are one after the other.
LEMMA Joined ==
    ASSUME NEW S, NEW q \in Seq(S), NEW a \in S, NEW b \in S, NEW r, r = q \o <<a, b>>
    PROVE  r \in Seq(S) /\ \E m \in Seq(S) : Longer(q, m, a) /\ Longer(m, r, b)
<1> DEFINE m == Append(q, a)
<1>1. m \in Seq(S) /\ Longer(q, m, a)
    BY Added
<1>2. r = Append(m, b)
    OBVIOUS
<1> HIDE DEF m
<1>3. r \in Seq(S) /\ Longer(m, r, b)
    BY <1>1, <1>2, Added
<1> QED BY <1>1, <1>3

\* What is appended for another stream leaves a stream's frames as they are.
LEMMA SameFrames ==
    ASSUME NEW q, NEW r, NEW s, NEW view, At(r, s) = At(q, s), \A i \in At(q, s) : r[i] = q[i]
    PROVE  /\ Wire(q, s, view) => Wire(r, s, view)
           /\ Unsent(q, s, view) => Unsent(r, s, view)
           /\ Sending(q, s, view) => Sending(r, s, view)
<1>1. Wire(q, s, view) => Wire(r, s, view)
    BY DEF Wire
<1>2. Sending(q, s, view) => Sending(r, s, view)
    BY DEF Sending
<1> QED BY <1>1, <1>2 DEF Unsent

-----------------------------------------------------------------------------
(* The wire to the client. *)

LEMMA OtherWritten ==
    ASSUME NEW q, NEW r, NEW f, Longer(q, r, f), NEW s, f.s # s, NEW view
    PROVE  /\ Wire(q, s, view) => Wire(r, s, view)
           /\ Unsent(q, s, view) => Unsent(r, s, view)
           /\ Sending(q, s, view) => Sending(r, s, view)
<1>1. At(r, s) = At(q, s) /\ \A i \in At(q, s) : r[i] = q[i]
    BY AtLonger
<1> QED BY <1>1, SameFrames, Zenon

\* A reset may follow anything.
LEMMA ResetWritten ==
    ASSUME NEW q, NEW r, NEW f, Longer(q, r, f), NEW s, f.s = s, f.k = "RST", NEW view,
           Wire(q, s, view)
    PROVE  Wire(r, s, view)
<1> DEFINE n == Len(q) + 1
<1>1. /\ At(q, s) \subseteq 1..Len(q) /\ Len(q) \in Nat
      /\ At(r, s) = At(q, s) \cup {n} /\ r[n] = f
      /\ \A i \in At(q, s) : r[i] = q[i]
    <2>1. Longer(q, r, f) /\ f.s = s
        OBVIOUS
    <2> HIDE DEF Longer
    <2>2. At(q, s) \subseteq 1..Len(q) /\ Len(q) \in Nat /\ \A i \in At(q, s) : r[i] = q[i]
        BY <2>1, AtLonger
    <2>3. At(r, s) = At(q, s) \cup {n} /\ r[n] = f
        BY <2>1, AtLonger
    <2> QED BY <2>2, <2>3
<1>2. \A i \in At(q, s) : i < n /\ i \in Nat
    BY <1>1
<1> HIDE DEF n
<1> SUFFICES ASSUME NEW i \in At(r, s), r[i].k # "RST"
             PROVE  /\ view \in {"none", "head"}
                    /\ \A j \in At(r, s) : j < i => r[j].k # "RST" /\ ~r[j].end
                    /\ r[i].k = "HEADERS" /\ ~r[i].end => view = "none" /\ \A j \in At(r, s) : i <= j
                    /\ r[i].k = "DATA" => view = "head" \/ \E j \in At(r, s) : j < i /\ r[j].k = "HEADERS"
    BY DEF Wire
<1>3. i \in At(q, s) /\ r[i] = q[i] /\ ~(n < i) /\ i <= n
    BY <1>1, <1>2 DEF n
<1>4. /\ view \in {"none", "head"}
      /\ \A j \in At(q, s) : j < i => q[j].k # "RST" /\ ~q[j].end
      /\ q[i].k = "HEADERS" /\ ~q[i].end => view = "none" /\ \A j \in At(q, s) : i <= j
      /\ q[i].k = "DATA" => view = "head" \/ \E j \in At(q, s) : j < i /\ q[j].k = "HEADERS"
    BY <1>3 DEF Wire
<1> QED BY <1>1, <1>3, <1>4

\* A head goes out first; what follows it ends it or leaves it going on.
LEMMA HeadWritten ==
    ASSUME NEW q, NEW r, NEW f, Longer(q, r, f), NEW s, f.s = s, f.k = "HEADERS",
           NEW view, Unsent(q, s, view)
    PROVE  /\ Wire(r, s, view)
           /\ ~f.end => Sending(r, s, view)
<1> DEFINE n == Len(q) + 1
<1>1. At(r, s) = {n} /\ r[n] = f /\ n \in Nat /\ view = "none"
    <2>1. At(r, s) = At(q, s) \cup {n} /\ r[n] = f /\ Len(q) \in Nat
        BY AtLonger
    <2> QED BY <2>1 DEF Unsent
<1> HIDE DEF n
<1>2. Wire(r, s, view)
    BY <1>1 DEF Wire
<1>3. ~f.end => Sending(r, s, view)
    BY <1>1 DEF Sending
<1> QED BY <1>2, <1>3

LEMMA MoreWritten ==
    ASSUME NEW q, NEW r, NEW f, Longer(q, r, f), NEW s, f.s = s,
           f.k = "DATA" \/ (f.k = "HEADERS" /\ f.end),
           NEW view, Wire(q, s, view), Sending(q, s, view)
    PROVE  /\ Wire(r, s, view)
           /\ ~f.end => Sending(r, s, view)
<1> DEFINE n == Len(q) + 1
<1>1. /\ At(q, s) \subseteq 1..Len(q) /\ Len(q) \in Nat
      /\ At(r, s) = At(q, s) \cup {n} /\ r[n] = f
      /\ \A i \in At(q, s) : r[i] = q[i]
    BY AtLonger
<1>2. n \in Nat /\ \A i \in At(q, s) : i < n /\ i \in Nat
    BY <1>1
<1> HIDE DEF n
<1>3. /\ view \in {"none", "head"}
      /\ view = "head" \/ \E i \in At(q, s) : q[i].k = "HEADERS"
      /\ \A i \in At(q, s) : q[i].k # "RST" /\ ~q[i].end
    BY DEF Sending
<1>4. ASSUME NEW i \in At(r, s)
      PROVE  /\ \A j \in At(r, s) : j < i => r[j].k # "RST" /\ ~r[j].end
             /\ r[i].k = "HEADERS" /\ ~r[i].end => view = "none" /\ \A j \in At(r, s) : i <= j
             /\ r[i].k = "DATA" => view = "head" \/ \E j \in At(r, s) : j < i /\ r[j].k = "HEADERS"
    <2>1. CASE i = n
        BY <1>1, <1>2, <1>3, <2>1
    <2>2. CASE i # n
        <3>1. i \in At(q, s) /\ r[i] = q[i] /\ q[i].k # "RST" /\ ~(n < i) /\ i <= n
            BY <1>1, <1>2, <1>3, <2>2
        <3>2. /\ q[i].k = "HEADERS" /\ ~q[i].end => view = "none" /\ \A j \in At(q, s) : i <= j
              /\ q[i].k = "DATA" => view = "head" \/ \E j \in At(q, s) : j < i /\ q[j].k = "HEADERS"
            BY <3>1 DEF Wire
        <3> QED BY <1>1, <1>3, <3>1, <3>2
    <2> QED BY <2>1, <2>2
<1>5. Wire(r, s, view)
    BY <1>3, <1>4 DEF Wire
<1>6. ~f.end => Sending(r, s, view)
    BY <1>1, <1>3 DEF Sending
<1> QED BY <1>5, <1>6

\* The client reads a frame: of the stream, or of another.
LEMMA FrameRead ==
    ASSUME NEW q, NEW r, Shorter(q, r), NEW f, f = Head(q), NEW s, f.s = s,
           f.k \in {"HEADERS", "DATA", "RST"}, f.end \in BOOLEAN, NEW view, Wire(q, s, view)
    PROVE  /\ Wire(r, s, After(view, f))
           /\ ~Unsent(q, s, view)
           /\ Sending(q, s, view) => Sending(r, s, After(view, f))
<1>1. /\ At(q, s) \subseteq Nat \ {0} /\ At(r, s) \subseteq Nat \ {0}
      /\ \A i \in At(r, s) : i + 1 \in At(q, s) /\ r[i] = q[i + 1]
      /\ \A i \in At(q, s) : i # 1 => i - 1 \in At(r, s) /\ r[i - 1] = q[i]
      /\ 1 \in At(q, s) /\ q[1] = f
    BY AtShorter
<1>2. view \in {"none", "head", "end", "rst"}
    BY DEF Wire
<1>3. ~Unsent(q, s, view)
    BY <1>1 DEF Unsent
<1>4. CASE f.k = "RST"
    <2>1. After(view, f) = "rst"
        BY <1>2, <1>4 DEF After
    <2>2. ASSUME NEW i \in At(r, s) PROVE r[i].k = "RST"
        <3>1. i + 1 \in At(q, s) /\ r[i] = q[i + 1] /\ 1 < i + 1
            BY <1>1
        <3>2. q[i + 1].k # "RST" => \A j \in At(q, s) : j < i + 1 => q[j].k # "RST"
            BY <3>1 DEF Wire
        <3> QED BY <1>1, <1>4, <3>1, <3>2
    <2>3. Wire(r, s, "rst")
        BY <2>2 DEF Wire
    <2>4. ~Sending(q, s, view)
        BY <1>1, <1>4 DEF Sending
    <2> QED BY <1>3, <2>1, <2>3, <2>4
<1>5. CASE f.k # "RST"
    <2>1. /\ view \in {"none", "head"}
          /\ f.k = "HEADERS" /\ ~f.end => view = "none"
          /\ f.k = "DATA" => view = "head"
        <3>1. \A j \in At(q, s) : ~(j < 1)
            BY <1>1
        <3> QED BY <1>1, <1>5, <3>1 DEF Wire
    <2>2. After(view, f) = IF f.end THEN "end" ELSE "head"
        BY <1>5, <2>1 DEF After
    <2>3. ASSUME NEW i \in At(r, s), r[i].k # "RST"
          PROVE  /\ ~f.end
                 /\ ~(r[i].k = "HEADERS" /\ ~r[i].end)
                 /\ \A j \in At(r, s) : j < i => r[j].k # "RST" /\ ~r[j].end
        <3>1. i + 1 \in At(q, s) /\ r[i] = q[i + 1] /\ 1 < i + 1 /\ ~(i + 1 <= 1)
            BY <1>1
        <3>2. /\ \A j \in At(q, s) : j < i + 1 => q[j].k # "RST" /\ ~q[j].end
              /\ q[i + 1].k = "HEADERS" /\ ~q[i + 1].end => \A j \in At(q, s) : i + 1 <= j
            BY <2>3, <3>1 DEF Wire
        <3>3. \A j \in At(r, s) : j < i => j + 1 < i + 1
            BY <1>1
        <3> QED BY <1>1, <3>1, <3>2, <3>3
    <2>4. Wire(r, s, After(view, f))
        BY <2>2, <2>3 DEF Wire
    <2>5. Sending(q, s, view) => Sending(r, s, After(view, f))
        <3> SUFFICES ASSUME Sending(q, s, view) PROVE Sending(r, s, After(view, f))
            OBVIOUS
        <3>1. \A i \in At(q, s) : q[i].k # "RST" /\ ~q[i].end
            BY DEF Sending
        <3>2. ~f.end /\ \A i \in At(r, s) : r[i].k # "RST" /\ ~r[i].end
            BY <1>1, <3>1
        <3> QED BY <2>2, <3>2 DEF Sending
    <2> QED BY <1>3, <2>4, <2>5
<1> QED BY <1>4, <1>5

LEMMA OtherRead ==
    ASSUME NEW q, NEW r, Shorter(q, r), NEW s, Head(q).s # s, NEW view
    PROVE  /\ Wire(q, s, view) => Wire(r, s, view)
           /\ Unsent(q, s, view) => Unsent(r, s, view)
           /\ Sending(q, s, view) => Sending(r, s, view)
<1>1. /\ At(q, s) \subseteq Nat \ {0} /\ At(r, s) \subseteq Nat \ {0}
      /\ \A i \in At(r, s) : i + 1 \in At(q, s) /\ r[i] = q[i + 1]
      /\ \A i \in At(q, s) : i - 1 \in At(r, s) /\ r[i - 1] = q[i]
    <2>1. \A i \in At(q, s) : i # 1
        BY AtShorter
    <2> QED BY <2>1, AtShorter
<1>2. ASSUME Wire(q, s, view) PROVE Wire(r, s, view)
    <2>1. ASSUME NEW i \in At(r, s), r[i].k # "RST"
          PROVE  /\ view \in {"none", "head"}
                 /\ \A j \in At(r, s) : j < i => r[j].k # "RST" /\ ~r[j].end
                 /\ r[i].k = "HEADERS" /\ ~r[i].end => view = "none" /\ \A j \in At(r, s) : i <= j
                 /\ r[i].k = "DATA" => view = "head" \/ \E j \in At(r, s) : j < i /\ r[j].k = "HEADERS"
        <3>1. i + 1 \in At(q, s) /\ r[i] = q[i + 1] /\ i \in Nat
            BY <1>1
        <3>2. /\ view \in {"none", "head"}
              /\ \A j \in At(q, s) : j < i + 1 => q[j].k # "RST" /\ ~q[j].end
              /\ q[i + 1].k = "HEADERS" /\ ~q[i + 1].end =>
                    view = "none" /\ \A j \in At(q, s) : i + 1 <= j
              /\ q[i + 1].k = "DATA" =>
                    view = "head" \/ \E j \in At(q, s) : j < i + 1 /\ q[j].k = "HEADERS"
            BY <1>2, <2>1, <3>1 DEF Wire
        <3>3. \A j \in At(r, s) : j < i => r[j].k # "RST" /\ ~r[j].end
            BY <1>1, <3>1, <3>2
        <3>4. ASSUME r[i].k = "HEADERS", ~r[i].end PROVE view = "none" /\ \A j \in At(r, s) : i <= j
            BY <1>1, <3>1, <3>2, <3>4
        <3>5. ASSUME r[i].k = "DATA", view # "head"
              PROVE  \E j \in At(r, s) : j < i /\ r[j].k = "HEADERS"
            <4>1. PICK j \in At(q, s) : j < i + 1 /\ q[j].k = "HEADERS"
                BY <3>1, <3>2, <3>5
            <4>2. j - 1 \in At(r, s) /\ r[j - 1].k = "HEADERS" /\ j - 1 < i
                BY <1>1, <3>1, <4>1
            <4> QED BY <4>2
        <3> QED BY <3>2, <3>3, <3>4, <3>5
    <2>2. view \in {"none", "head", "end", "rst"}
        BY <1>2 DEF Wire
    <2> QED BY <2>1, <2>2 DEF Wire
<1>3. ASSUME Sending(q, s, view) PROVE Sending(r, s, view)
    BY <1>1, <1>3 DEF Sending
<1>4. ASSUME Unsent(q, s, view) PROVE Unsent(r, s, view)
    BY <1>1, <1>4 DEF Unsent
<1> QED BY <1>2, <1>3, <1>4

-----------------------------------------------------------------------------
(* The event channel. *)

\* r says of the stream what q says.
Alike(q, r, s) ==
    /\ EndsLast(q, s) => EndsLast(r, s)
    /\ BeginsFirst(q, s) => BeginsFirst(r, s)
    /\ HeadBefore(q, s) => HeadBefore(r, s)
    /\ Quiet(r, s) <=> Quiet(q, s)
    /\ HasHead(r, s) <=> HasHead(q, s)
    /\ Begins(r, s) <=> Begins(q, s)
    /\ Ends(r, s) <=> Ends(q, s)

LEMMA OtherSaid ==
    ASSUME NEW q, NEW r, NEW f, Longer(q, r, f), NEW s, f.s # s
    PROVE  Alike(q, r, s)
<1>1. At(r, s) = At(q, s) /\ \A i \in At(q, s) : r[i] = q[i]
    BY AtLonger
<1> QED BY <1>1 DEF Alike, EndsLast, BeginsFirst, HeadBefore, Quiet, HasHead, Begins, Ends

LEMMA OtherTaken ==
    ASSUME NEW q, NEW r, Shorter(q, r), NEW s, Head(q).s # s
    PROVE  Alike(q, r, s)
<1>1. /\ At(q, s) \subseteq Nat \ {0} /\ At(r, s) \subseteq Nat \ {0}
      /\ \A i \in At(r, s) : i + 1 \in At(q, s) /\ r[i] = q[i + 1]
      /\ \A i \in At(q, s) : i - 1 \in At(r, s) /\ r[i - 1] = q[i]
    <2>1. \A i \in At(q, s) : i # 1
        BY AtShorter
    <2> QED BY <2>1, AtShorter
<1>2. EndsLast(q, s) => EndsLast(r, s)
    BY <1>1 DEF EndsLast
<1>3. BeginsFirst(q, s) => BeginsFirst(r, s)
    BY <1>1 DEF BeginsFirst
<1>4. ASSUME HeadBefore(q, s) PROVE HeadBefore(r, s)
    <2> SUFFICES ASSUME NEW i \in At(r, s), r[i].k \in {"Data", "Trailers"}
                 PROVE  \E j \in At(r, s) : j < i /\ r[j].k = "Head"
        BY DEF HeadBefore
    <2>1. i + 1 \in At(q, s) /\ q[i + 1].k \in {"Data", "Trailers"} /\ i \in Nat
        BY <1>1
    <2>2. PICK j \in At(q, s) : j < i + 1 /\ q[j].k = "Head"
        BY <1>4, <2>1 DEF HeadBefore
    <2>3. j - 1 \in At(r, s) /\ r[j - 1].k = "Head" /\ j - 1 < i
        BY <1>1, <2>1, <2>2
    <2> QED BY <2>3
<1>5. /\ Quiet(r, s) <=> Quiet(q, s)
      /\ HasHead(r, s) <=> HasHead(q, s)
      /\ Begins(r, s) <=> Begins(q, s)
      /\ Ends(r, s) <=> Ends(q, s)
    <2>1. Quiet(r, s) <=> Quiet(q, s)
        BY <1>1 DEF Quiet
    <2>2. HasHead(r, s) <=> HasHead(q, s)
        BY <1>1 DEF HasHead
    <2>3. Begins(r, s) <=> Begins(q, s)
        BY <1>1 DEF Begins
    <2>4. Ends(r, s) <=> Ends(q, s)
        BY <1>1 DEF Ends
    <2> QED BY <2>1, <2>2, <2>3, <2>4
<1> QED BY <1>2, <1>3, <1>4, <1>5 DEF Alike

\* The responder speaks of the stream, after what does not end it.
LEMMA OwnSaid ==
    ASSUME NEW q, NEW r, NEW f, Longer(q, r, f), NEW s, f.s = s,
           EndsLast(q, s), BeginsFirst(q, s), ~Ends(q, s),
           f.k \in {"Head", "Gone", "Shed"} => Quiet(q, s)
    PROVE  /\ EndsLast(r, s) /\ BeginsFirst(r, s) /\ ~Quiet(r, s)
           /\ Ends(r, s) <=> f.end
           /\ Begins(r, s) <=> Begins(q, s) \/ f.k \in {"Head", "Gone", "Shed"}
           /\ HasHead(r, s) <=> HasHead(q, s) \/ f.k = "Head"
           /\ HeadBefore(q, s) /\ (f.k \in {"Data", "Trailers"} => HasHead(q, s)) => HeadBefore(r, s)
<1> DEFINE n == Len(q) + 1
<1>1. /\ At(q, s) \subseteq 1..Len(q) /\ Len(q) \in Nat
      /\ At(r, s) = At(q, s) \cup {n} /\ r[n] = f
      /\ \A i \in At(q, s) : r[i] = q[i]
    BY AtLonger
<1>2. n \in Nat /\ \A i \in At(q, s) : i < n /\ i \in Nat /\ ~(n < i) /\ i <= n /\ ~(n <= i)
    BY <1>1
<1> HIDE DEF n
<1>3. EndsLast(r, s)
    BY <1>1, <1>2 DEF EndsLast, Ends
<1>4. BeginsFirst(r, s)
    BY <1>1, <1>2 DEF BeginsFirst, Quiet
<1>5. ~Quiet(r, s) /\ (Ends(r, s) <=> f.end)
    BY <1>1 DEF Quiet, Ends
<1>6. Begins(r, s) <=> Begins(q, s) \/ f.k \in {"Head", "Gone", "Shed"}
    BY <1>1 DEF Begins
<1>7. HasHead(r, s) <=> HasHead(q, s) \/ f.k = "Head"
    BY <1>1 DEF HasHead
<1>8. HeadBefore(q, s) /\ (f.k \in {"Data", "Trailers"} => HasHead(q, s)) => HeadBefore(r, s)
    BY <1>1, <1>2 DEF HeadBefore, HasHead
<1> QED BY <1>3, <1>4, <1>5, <1>6, <1>7, <1>8

\* The task takes an event of the stream.
LEMMA OwnTaken ==
    ASSUME NEW q, NEW r, Shorter(q, r), NEW f, f = Head(q), NEW s, f.s = s,
           EndsLast(q, s), BeginsFirst(q, s)
    PROVE  /\ EndsLast(r, s) /\ BeginsFirst(r, s) /\ ~Quiet(q, s)
           /\ f.end => Quiet(r, s) /\ Ends(q, s)
           /\ ~Begins(r, s) /\ ~HasHead(r, s)
           /\ f.k \in {"Head", "Gone", "Shed"} => Begins(q, s)
           /\ f.k \in {"Data", "Trailers"} => ~HeadBefore(q, s)
           /\ Ends(r, s) => Ends(q, s)
<1>1. /\ At(q, s) \subseteq Nat \ {0} /\ At(r, s) \subseteq Nat \ {0}
      /\ \A i \in At(r, s) : i + 1 \in At(q, s) /\ r[i] = q[i + 1]
      /\ 1 \in At(q, s) /\ q[1] = f
    BY AtShorter
<1>2. \A i \in At(r, s) : 1 < i + 1 /\ ~(i + 1 <= 1) /\ i \in Nat
    BY <1>1
<1>3. EndsLast(r, s)
    BY <1>1 DEF EndsLast
<1>4. BeginsFirst(r, s)
    BY <1>1 DEF BeginsFirst
<1>5. ~Quiet(q, s) /\ (f.end => Ends(q, s)) /\ (Ends(r, s) => Ends(q, s))
    BY <1>1 DEF Quiet, Ends
<1>6. f.end => Quiet(r, s)
    BY <1>1, <1>2 DEF EndsLast, Quiet
<1>7. ~Begins(r, s) /\ ~HasHead(r, s)
    BY <1>1, <1>2 DEF BeginsFirst, Begins, HasHead
<1>8. f.k \in {"Head", "Gone", "Shed"} => Begins(q, s)
    BY <1>1 DEF Begins
<1>9. f.k \in {"Data", "Trailers"} => ~HeadBefore(q, s)
    BY <1>1 DEF HeadBefore
<1> QED BY <1>3, <1>4, <1>5, <1>6, <1>7, <1>8, <1>9

-----------------------------------------------------------------------------
(* The stream table. *)

Queues == [data : BOOLEAN, end : BOOLEAN, trailers : BOOLEAN]
TableTyped ==
    /\ st \in [Streams -> {"none", "open", "half-closed local", "half-closed remote"}]
    /\ started \subseteq Live
    /\ queue \in [Streams -> Queues]

Same(s)      == st'[s] = st[s] /\ (s \in started' <=> s \in started) /\ queue'[s] = queue[s]
Elsewhere(s) == \A t \in Streams \ {s} : Same(t)
Removed(s)   == st'[s] = "none" /\ s \notin started' /\ queue'[s] = Nothing

\* What the client has read and what is on its wire say of s what they did.
Carried(s) ==
    /\ Wire(toC, s, cView[s]) => Wire(toC', s, cView'[s])
    /\ Unsent(toC, s, cView[s]) => Unsent(toC', s, cView'[s])
    /\ Sending(toC, s, cView[s]) => Sending(toC', s, cView'[s])

LEMMA RetireTyped ==
    ASSUME TableTyped, NEW s \in Streams, Retire(s)
    PROVE  TableTyped' /\ Elsewhere(s) /\ Removed(s)
<1>1. Nothing \in Queues
    BY DEF Nothing, Queues
<1> QED BY <1>1 DEF TableTyped, Retire, Elsewhere, Same, Removed, Live

LEMMA ApplyTyped ==
    ASSUME TableTyped, NEW s \in Streams, s \in Live, NEW ours \in BOOLEAN, NEW end \in BOOLEAN,
           NEW begins \in BOOLEAN, NEW q \in Queues, Apply(s, ours, end, begins, q)
    PROVE  /\ TableTyped' /\ Elsewhere(s) /\ UNCHANGED <<conn, hi>>
           /\ Closes(s, ours, end) => Removed(s)
           /\ ~Closes(s, ours, end) =>
                /\ st'[s] = IF end THEN Half(ours) ELSE st[s]
                /\ s \in started' <=> begins \/ s \in started
                /\ queue'[s] = q
<1>1. CASE Closes(s, ours, end)
    BY <1>1, RetireTyped DEF Apply
<1>2. CASE ~Closes(s, ours, end)
    BY <1>2 DEF Apply, TableTyped, Elsewhere, Same, Live, Half
<1> QED BY <1>1, <1>2

-----------------------------------------------------------------------------
(* What a step leaves of a stream. *)

LEMMA AlikeItself == ASSUME NEW q, NEW s PROVE Alike(q, q, s)
BY DEF Alike

LEMMA Untouched ==
    ASSUME NEW s \in Streams, Fine(s), Same(s), resp'[s] = resp[s],
           s \in route' <=> s \in route, Alike(events, events', s), Carried(s),
           drain' # "committed" => drain # "committed", s > hi' => s > hi
    PROVE  Fine(s)'
<1>1. Told(s)'
    BY DEF Fine, Told, Same, Alike
<1>2. Sent(s)'
    BY DEF Fine, Sent, Same, Carried, Live
<1>3. Leased(s)'
    BY DEF Fine, Leased, Same
<1> QED BY <1>1, <1>2, <1>3 DEF Fine

\* A stream that is not in the table.
LEMMA Away ==
    ASSUME NEW s \in Streams, st'[s] = "none", s \notin started', queue'[s] = Nothing,
           s \notin route',
           EndsLast(events', s), BeginsFirst(events', s),
           ~Quiet(events', s) => resp'[s] \in {"head", "over"},
           resp'[s] = "head" => ~Ends(events', s),
           Wire(toC', s, cView'[s]),
           drain' # "committed" /\ s > hi' => Unsent(toC', s, cView'[s])
    PROVE  Fine(s)'
<1>1. Told(s)'
    BY DEF Told, Nothing
<1>2. Sent(s)'
    BY DEF Sent, Live
<1>3. Leased(s)'
    BY DEF Leased
<1> QED BY <1>1, <1>2, <1>3 DEF Fine

\* Nothing new was asked, and nothing was sent or taken by the client's side.
LEMMA AscendingStays ==
    ASSUME Ascending, UNCHANGED <<hi, fromC, cNext>>,
           \A s \in Streams : resp'[s] # "none" \/ s \in Live' => resp[s] # "none" \/ s \in Live
    PROVE  Ascending'
BY DEF Ascending

\* A GOAWAY is about no stream.
LEMMA GoAwayWritten ==
    ASSUME NEW q, NEW f, f = F("GOAWAY", 0, FALSE), NEW r, Longer(q, r, f),
           NEW s \in Streams, NEW view
    PROVE  /\ Wire(q, s, view) => Wire(r, s, view)
           /\ Unsent(q, s, view) => Unsent(r, s, view)
           /\ Sending(q, s, view) => Sending(r, s, view)
<1>1. f.s = 0
    BY DEF F
<1>2. 0 # s
    BY ClientAssumption DEF Streams
<1> QED BY <1>1, <1>2, OtherWritten

LEMMA GoodBye ==
    ASSUME toC \in Seq(DownFrame), NEW f, f = F("GOAWAY", 0, FALSE),
           toC' = Append(toC, f) \/ toC' = toC \o <<f, f>>, cView' = cView
    PROVE  toC' \in Seq(DownFrame) /\ \A s \in Streams : Carried(s)
<1>1. f \in DownFrame
    BY DEF F, DownFrame
<1>2. CASE toC' = Append(toC, f)
    <2>1. toC' \in Seq(DownFrame) /\ Longer(toC, toC', f)
        BY <1>1, <1>2, Added
    <2> QED BY <2>1, GoAwayWritten DEF Carried
<1>3. CASE toC' = toC \o <<f, f>>
    <2>1. toC' \in Seq(DownFrame) /\ \E m \in Seq(DownFrame) : Longer(toC, m, f) /\ Longer(m, toC', f)
        BY <1>1, <1>3, Joined
    <2>2. PICK m \in Seq(DownFrame) : Longer(toC, m, f) /\ Longer(m, toC', f)
        BY <2>1
    <2>3. ASSUME NEW s \in Streams PROVE Carried(s)
        <3>1. /\ Wire(toC, s, cView[s]) => Wire(m, s, cView[s])
              /\ Unsent(toC, s, cView[s]) => Unsent(m, s, cView[s])
              /\ Sending(toC, s, cView[s]) => Sending(m, s, cView[s])
            BY <2>2, GoAwayWritten
        <3>2. /\ Wire(m, s, cView[s]) => Wire(toC', s, cView[s])
              /\ Unsent(m, s, cView[s]) => Unsent(toC', s, cView[s])
              /\ Sending(m, s, cView[s]) => Sending(toC', s, cView[s])
            BY <2>2, GoAwayWritten
        <3> QED BY <3>1, <3>2 DEF Carried
    <2> QED BY <2>1, <2>3
<1> QED BY <1>2, <1>3

-----------------------------------------------------------------------------
(* The client. *)

LEMMA OpenKeeps == ASSUME CInv, ClientOpen PROVE CInv'
<1> USE DEF ClientOpen, CInv
<1>1. /\ UNCHANGED <<cView, cGoAway, toC, conn, tableVars, drainVars, route, resp, events>>
      /\ cNext \in 1..N /\ cNext' = cNext + 1
    BY DEF Streams
<1>2. TypeOK'
    <2>1. cNext' \in 1..(N + 1)
        BY <1>1, ClientAssumption
    <2>2. cState' \in [Streams -> {"idle", "open", "sent", "reset"}]
        BY DEF TypeOK
    <2> QED BY <1>1, <2>1, <2>2 DEF TypeOK, tableVars, drainVars, Live
<1> DEFINE f == F("HEADERS", cNext, cNext \notin WithBody)
<1>3. f \in UpFrame /\ f.s = cNext /\ f.k = "HEADERS"
    BY <1>1 DEF F, UpFrame, Streams
<1>4. fromC' \in Seq(UpFrame) /\ Longer(fromC, fromC', f)
    BY <1>1, <1>3, Added DEF Channels
<1> HIDE DEF f
<1>5. Channels'
    BY <1>1, <1>4 DEF Channels
<1>6. Ascending'
    <2>1. \A s \in Streams : resp'[s] # "none" \/ s \in Live' => s <= hi'
        BY <1>1 DEF Ascending, Live, tableVars
    <2>2. hi \in Int /\ hi' = hi /\ hi < cNext /\ hi' < cNext' /\ cNext \in Int
        <3>1. hi \in Int
            <4>1. hi \in 0..N
                BY Zenon DEF TypeOK
            <4> QED BY <4>1
        <3>4. hi < cNext
            BY DEF Ascending
        <3>2. cNext \in Int /\ hi' = hi
            BY <1>1 DEF tableVars
        <3> QED BY <1>1, <3>1, <3>2, <3>4
    <2> DEFINE n == Len(fromC)
    <2>3. /\ n \in Nat /\ DOMAIN fromC = 1..n /\ DOMAIN fromC' = 1..(n + 1)
          /\ \A i \in 1..n : fromC'[i] = fromC[i]
          /\ fromC'[n + 1] = f
        BY <1>4 DEF Longer
    <2> HIDE DEF n
    <2>4. \A i \in 1..n : fromC[i].s \in Int
        <3>1. \A u \in UpFrame : u.s \in Int
            BY DEF UpFrame, Streams
        <3>2. \A i \in 1..n : fromC[i] \in UpFrame
            BY <2>3 DEF Channels
        <3> QED BY <3>1, <3>2
    <2>5. ASSUME NEW i \in DOMAIN fromC', fromC'[i].k = "HEADERS"
          PROVE  /\ fromC'[i].s < cNext' /\ hi' < fromC'[i].s
                 /\ \A j \in DOMAIN fromC' :
                        fromC'[j].k = "HEADERS" /\ j < i => fromC'[j].s < fromC'[i].s
        <3>1. CASE i = n + 1
            <4>1. \A j \in 1..n : fromC[j].k = "HEADERS" => fromC[j].s < cNext
                BY <2>3 DEF Ascending
            <4> QED BY <1>1, <1>3, <2>2, <2>3, <3>1, <4>1
        <3>2. CASE i # n + 1
            <4>1. i \in 1..n /\ fromC'[i] = fromC[i]
                BY <2>3, <3>2
            <4>2. /\ fromC[i].s < cNext /\ hi < fromC[i].s
                  /\ \A j \in 1..n : fromC[j].k = "HEADERS" /\ j < i => fromC[j].s < fromC[i].s
                BY <2>3, <2>5, <4>1 DEF Ascending
            <4> QED BY <1>1, <2>2, <2>3, <2>4, <4>1, <4>2
        <3> QED BY <3>1, <3>2
    <2> QED BY <2>1, <2>2, <2>5 DEF Ascending
<1>7. Promise'
    BY <1>1 DEF Promise, drainVars, tableVars
<1>8. ASSUME NEW s \in Streams PROVE Fine(s)'
    <2>1. Same(s) /\ Carried(s) /\ Alike(events, events', s)
        BY <1>1, AlikeItself DEF Same, Carried, tableVars
    <2> QED BY <1>1, <2>1, Untouched DEF tableVars, drainVars
<1> QED BY <1>2, <1>5, <1>6, <1>7, <1>8

\* A frame that opens nothing.
LEMMA ClientSends ==
    ASSUME CInv, NEW f \in UpFrame, f.k # "HEADERS", fromC' = Append(fromC, f),
           cState' \in [Streams -> {"idle", "open", "sent", "reset"}],
           UNCHANGED <<cNext, cView, cGoAway, toC, conn, tableVars, drainVars, route, resp, events>>
    PROVE  CInv'
<1> USE DEF CInv
<1>1. TypeOK'
    BY DEF TypeOK, tableVars, drainVars, Live
<1>2. fromC' \in Seq(UpFrame) /\ Longer(fromC, fromC', f)
    BY Added DEF Channels
<1>3. Channels'
    BY <1>2 DEF Channels
<1>4. Ascending'
    <2>1. /\ Len(fromC) \in Nat /\ DOMAIN fromC = 1..Len(fromC)
          /\ \A i \in DOMAIN fromC' : fromC'[i].k = "HEADERS" =>
                i \in DOMAIN fromC /\ fromC'[i] = fromC[i]
        BY <1>2 DEF Longer
    <2> QED BY <2>1 DEF Ascending, Live, tableVars
<1>5. Promise'
    BY DEF Promise, drainVars, tableVars
<1>6. ASSUME NEW s \in Streams PROVE Fine(s)'
    <2>1. Same(s) /\ Carried(s) /\ Alike(events, events', s)
        BY AlikeItself DEF Same, Carried, tableVars
    <2> QED BY <2>1, Untouched DEF tableVars, drainVars
<1> QED BY <1>1, <1>3, <1>4, <1>5, <1>6

LEMMA BodyKeeps == ASSUME CInv, NEW s \in Streams, ClientBody(s) PROVE CInv'
<1> DEFINE f == F("DATA", s, TRUE)
<1>1. f \in UpFrame /\ f.k # "HEADERS" /\ fromC' = Append(fromC, f)
    BY DEF F, UpFrame, ClientBody
<1>2. cState' \in [Streams -> {"idle", "open", "sent", "reset"}]
    BY DEF ClientBody, CInv, TypeOK
<1> HIDE DEF f
<1> QED BY <1>1, <1>2, ClientSends DEF ClientBody

LEMMA ResetKeeps == ASSUME CInv, NEW s \in Streams, ClientReset(s) PROVE CInv'
<1> DEFINE f == F("RST", s, FALSE)
<1>1. f \in UpFrame /\ f.k # "HEADERS" /\ fromC' = Append(fromC, f)
    BY DEF F, UpFrame, ClientReset
<1>2. cState' \in [Streams -> {"idle", "open", "sent", "reset"}]
    BY DEF ClientReset, CInv, TypeOK
<1> HIDE DEF f
<1> QED BY <1>1, <1>2, ClientSends DEF ClientReset

LEMMA ReadKeeps == ASSUME CInv, ClientTake PROVE CInv'
<1> USE DEF CInv
<1> DEFINE f == Head(toC)
<1>1. /\ UNCHANGED <<cNext, fromC, conn, tableVars, drainVars, route, resp, events>>
      /\ toC # <<>> /\ toC' = Tail(toC)
      /\ IF f.k = "GOAWAY" THEN cGoAway' = TRUE /\ UNCHANGED <<cState, cView>>
         ELSE /\ cView' = [cView EXCEPT ![f.s] = After(@, f)]
              /\ cState' = [cState EXCEPT ![f.s] = IF f.k = "RST" THEN "reset" ELSE @]
              /\ UNCHANGED cGoAway
    BY DEF ClientTake
<1>2. f \in DownFrame /\ toC' \in Seq(DownFrame) /\ Shorter(toC, toC')
    BY <1>1, Taken DEF Channels
<1> HIDE DEF f
<1>3. f.k # "GOAWAY" => f.s \in Streams /\ f.k \in {"HEADERS", "DATA", "RST"} /\ f.end \in BOOLEAN
    BY <1>2 DEF DownFrame
<1>4. f.k = "GOAWAY" => f.s \notin Streams
    <2>1. f.k = "GOAWAY" => f.s = 0
        BY <1>2 DEF DownFrame
    <2>2. 0 \notin Streams
        BY DEF Streams
    <2> QED BY <2>1, <2>2
<1>5. ASSUME NEW s \in Streams, s # f.s PROVE Carried(s) /\ cView'[s] = cView[s]
    <2>1. cView'[s] = cView[s]
        BY <1>1, <1>3, <1>5 DEF TypeOK
    <2> QED BY <1>2, <1>5, <2>1, OtherRead DEF Carried, f
<1>6. ASSUME f.s \in Streams PROVE Carried(f.s) /\ Wire(toC', f.s, cView'[f.s])
    <2>1. /\ cView'[f.s] = After(cView[f.s], f) /\ f.k \in {"HEADERS", "DATA", "RST"}
          /\ f.end \in BOOLEAN /\ Wire(toC, f.s, cView[f.s])
        BY <1>1, <1>3, <1>4, <1>6 DEF TypeOK, Fine, Sent
    <2>2. /\ Wire(toC', f.s, After(cView[f.s], f))
          /\ ~Unsent(toC, f.s, cView[f.s])
          /\ Sending(toC, f.s, cView[f.s]) => Sending(toC', f.s, After(cView[f.s], f))
        BY <1>2, <2>1, FrameRead DEF f
    <2> QED BY <2>1, <2>2 DEF Carried
<1>7. TypeOK'
    <2>1. cView' \in [Streams -> {"none", "head", "end", "rst", "bad"}]
        <3>1. CASE f.k = "GOAWAY"
            BY <1>1, <3>1 DEF TypeOK
        <3>2. CASE f.k # "GOAWAY"
            <4>1. After(cView[f.s], f) \in {"none", "head", "end", "rst"}
                BY <1>1, <1>3, <1>6, <3>2 DEF Wire, TypeOK
            <4> QED BY <1>1, <1>3, <3>2, <4>1 DEF TypeOK
        <3> QED BY <3>1, <3>2
    <2>2. cState' \in [Streams -> {"idle", "open", "sent", "reset"}] /\ cGoAway' \in BOOLEAN
        <3>1. CASE f.k = "GOAWAY"
            BY <1>1, <3>1 DEF TypeOK
        <3>2. CASE f.k # "GOAWAY"
            <4>1. f.s \in Streams /\ (IF f.k = "RST" THEN "reset" ELSE cState[f.s])
                        \in {"idle", "open", "sent", "reset"}
                BY <1>3, <3>2 DEF TypeOK
            <4> QED BY <1>1, <3>2, <4>1 DEF TypeOK
        <3> QED BY <3>1, <3>2
    <2> QED BY <1>1, <2>1, <2>2 DEF TypeOK, tableVars, drainVars, Live
<1>8. Channels' /\ Promise'
    BY <1>1, <1>2 DEF Channels, Promise, drainVars, tableVars
<1>9. Ascending'
    BY <1>1, AscendingStays DEF tableVars, Live
<1>10. ASSUME NEW s \in Streams PROVE Fine(s)'
    <2>1. Carried(s)
        BY <1>5, <1>6
    <2>2. Same(s) /\ Alike(events, events', s)
        BY <1>1, AlikeItself DEF Same, tableVars
    <2> QED BY <1>1, <2>1, <2>2, Untouched DEF tableVars, drainVars
<1> QED BY <1>7, <1>8, <1>9, <1>10

-----------------------------------------------------------------------------
(* The drain. *)

\* What leaves the streams, the requests and the events alone.
LEMMA StreamsAside ==
    ASSUME CInv, toC' \in Seq(DownFrame), \A s \in Streams : Carried(s),
           drain' # "committed" => drain # "committed", Promise',
           conn' \in {"up", "closed", "expired", "failed"},
           drain' \in {"none", "grace", "committed"}, last' \in 0..N,
           UNCHANGED <<clientVars, fromC, tableVars, route, resp, events>>
    PROVE  CInv'
<1> USE DEF CInv
<1>1. TypeOK'
    BY DEF TypeOK, clientVars, tableVars, Live
<1>2. Channels'
    BY DEF Channels
<1>3. Ascending'
    BY AscendingStays DEF tableVars, clientVars, Live
<1>4. ASSUME NEW s \in Streams PROVE Fine(s)'
    <2>1. Same(s) /\ Alike(events, events', s)
        BY AlikeItself DEF Same, tableVars
    <2> QED BY <2>1, Untouched DEF tableVars
<1> QED BY <1>1, <1>2, <1>3, <1>4

LEMMA DrainKeeps ==
    ASSUME CInv, BeginDrain \/ Commit \/ DrainFinished \/ DrainDeadline
    PROVE  CInv'
<1>1. toC \in Seq(DownFrame) /\ hi \in 0..N /\ last \in 0..N /\ conn \in {"up", "closed", "expired", "failed"}
    BY DEF CInv, Channels, TypeOK
<1> DEFINE bye == F("GOAWAY", 0, FALSE)
<1>2. CASE DrainFinished \/ DrainDeadline
    <2>1. /\ UNCHANGED <<clientVars, fromC, toC, tableVars, drainVars, route, resp, events>>
          /\ conn' \in {"up", "closed", "expired", "failed"}
        BY <1>2 DEF DrainFinished, DrainDeadline
    <2>2. Promise' /\ drain' \in {"none", "grace", "committed"}
        BY <2>1 DEF CInv, Promise, TypeOK, drainVars, tableVars
    <2>3. \A s \in Streams : Carried(s)
        BY <2>1 DEF Carried, clientVars
    <2> QED BY <1>1, <2>1, <2>2, <2>3, StreamsAside DEF drainVars
<1>3. CASE Commit
    <2>1. /\ UNCHANGED <<clientVars, fromC, tableVars, route, resp, events>>
          /\ drain' = "committed" /\ last' = hi
          /\ toC' = Append(toC, bye) /\ conn' \in {"up", "closed", "expired", "failed"}
        BY <1>1, <1>3 DEF Commit, Committing
    <2>2. toC' \in Seq(DownFrame) /\ \A s \in Streams : Carried(s)
        BY <1>1, <2>1, GoodBye DEF clientVars
    <2>3. Promise' /\ last' \in 0..N
        BY <1>1, <2>1 DEF Promise, tableVars
    <2> QED BY <2>1, <2>2, <2>3, StreamsAside
<1>4. CASE BeginDrain
    <2>1. /\ UNCHANGED <<clientVars, fromC, tableVars, route, resp, events>> /\ drain = "none"
        BY <1>4 DEF BeginDrain
    <2>2. CASE drain' = "grace" /\ UNCHANGED <<last, conn>> /\ toC' = Append(toC, bye)
        <3>1. toC' \in Seq(DownFrame) /\ \A s \in Streams : Carried(s)
            BY <1>1, <2>1, <2>2, GoodBye DEF clientVars
        <3> QED BY <1>1, <2>1, <2>2, <3>1, StreamsAside DEF Promise
    <2>3. CASE CommitNow /\ toC' = toC \o <<bye, bye>>
        <3>1. drain' = "committed" /\ last' = hi /\ conn' \in {"up", "closed", "expired", "failed"}
            BY <1>1, <2>3 DEF CommitNow
        <3>5. toC' \in Seq(DownFrame) /\ \A s \in Streams : Carried(s)
            BY <1>1, <2>1, <2>3, GoodBye DEF clientVars
        <3> QED BY <1>1, <2>1, <3>1, <3>5, StreamsAside DEF Promise, tableVars
    <2> QED BY <1>4, <2>2, <2>3 DEF BeginDrain
<1> QED BY <1>2, <1>3, <1>4

-----------------------------------------------------------------------------
(* What the connection task does to one stream. *)

\* The event channel still says of other streams what it said, and of s no more.
Heard(s) ==
    /\ \A t \in Streams \ {s} : Alike(events, events', t)
    /\ EndsLast(events', s) /\ BeginsFirst(events', s)
    /\ Quiet(events, s) => Quiet(events', s)
    /\ Ends(events', s) => Ends(events, s)

LEMMA HeardNothing == ASSUME CInv, events' = events, NEW s \in Streams PROVE Heard(s)
BY AlikeItself DEF CInv, Fine, Told, Heard

LEMMA HeardOne ==
    ASSUME CInv, Shorter(events, events'), NEW s \in Streams, Head(events).s = s
    PROVE  Heard(s)
<1>1. \A t \in Streams \ {s} : Alike(events, events', t)
    BY OtherTaken
<1>2. EndsLast(events, s) /\ BeginsFirst(events, s)
    BY DEF CInv, Fine, Told
<1>3. /\ EndsLast(events', s) /\ BeginsFirst(events', s) /\ ~Quiet(events, s)
      /\ Ends(events', s) => Ends(events, s)
    BY <1>2, OwnTaken
<1> QED BY <1>1, <1>3 DEF Heard

LEMMA Typed ==
    ASSUME TypeOK, TableTyped', route' \subseteq Streams, hi' \in 0..N,
           conn' \in {"up", "closed", "expired", "failed"},
           resp' \in [Streams -> {"none", "asked", "head", "over"}],
           UNCHANGED <<clientVars, drainVars>>
    PROVE  TypeOK'
BY DEF TypeOK, TableTyped, Queues, clientVars, drainVars

LEMMA TableIsTyped == ASSUME CInv PROVE TableTyped /\ hi \in 0..N /\ hi \in Int
<1>1. hi \in 0..N
    BY Zenon DEF CInv, TypeOK
<1>2. TableTyped
    BY DEF CInv, TypeOK, TableTyped, Queues
<1> QED BY <1>1, <1>2

LEMMA NotAbove == ASSUME CInv, NEW s \in Streams, s <= hi, hi' = hi PROVE ~(s > hi')
BY TableIsTyped DEF Streams

\* The streams that a step is not about.
LEMMA Others ==
    ASSUME CInv, NEW s \in Streams, Elsewhere(s), UNCHANGED <<drain, hi>>,
           \A t \in Streams \ {s} : resp'[t] = resp[t] /\ (t \in route' <=> t \in route),
           \A t \in Streams \ {s} : Alike(events, events', t),
           \A t \in Streams \ {s} : Carried(t),
           NEW t \in Streams, t # s
    PROVE  Fine(t)'
<1>1. Fine(t) /\ Same(t)
    BY DEF CInv, Elsewhere
<1> QED BY <1>1, Untouched

LEMMA OthersCarried ==
    ASSUME NEW f, Longer(toC, toC', f), cView' = cView, NEW t \in Streams, f.s # t
    PROVE  Carried(t)
BY OtherWritten DEF Carried

\* A stream leaves the table.
LEMMA Leaves ==
    ASSUME CInv, NEW s \in Streams, Retire(s), Cancel(s), Heard(s),
           UNCHANGED <<clientVars, hi, drainVars, resp>>,
           \A t \in Streams \ {s} : Carried(t), Wire(toC', s, cView[s]),
           s <= hi \/ drain = "committed"
    PROVE  TableTyped' /\ route' \subseteq Streams /\ \A t \in Streams : Fine(t)'
<1>1. TableTyped' /\ Elsewhere(s) /\ Removed(s)
    BY TableIsTyped, RetireTyped
<1>2. route' = route \ {s} /\ route' \subseteq Streams
    BY DEF Cancel, CInv, TypeOK
<1>3. ASSUME NEW t \in Streams, t # s PROVE Fine(t)'
    BY <1>1, <1>2, <1>3, Others DEF Heard, drainVars
<1>4. Fine(s)'
    <2>1. /\ st'[s] = "none" /\ s \notin started' /\ queue'[s] = Nothing /\ s \notin route'
          /\ EndsLast(events', s) /\ BeginsFirst(events', s)
        BY <1>1, <1>2 DEF Removed, Heard
    <2>2. /\ ~Quiet(events', s) => resp'[s] \in {"head", "over"}
          /\ resp'[s] = "head" => ~Ends(events', s)
        BY DEF Heard, CInv, Fine, Told
    <2>3. Wire(toC', s, cView'[s])
        BY DEF clientVars
    <2>4. ~(drain' # "committed" /\ s > hi')
        BY TableIsTyped DEF drainVars, Streams
    <2> QED BY <2>1, <2>2, <2>3, <2>4, Away
<1> QED BY <1>1, <1>2, <1>3, <1>4

LEMMA LeavesWithRst ==
    ASSUME CInv, NEW s \in Streams, WriteRst(s), Heard(s),
           UNCHANGED <<clientVars, drainVars, resp>>, s <= hi \/ drain = "committed"
    PROVE  /\ TableTyped' /\ route' \subseteq Streams /\ \A t \in Streams : Fine(t)'
           /\ toC' \in Seq(DownFrame) /\ UNCHANGED <<conn, hi>>
<1> DEFINE f == F("RST", s, FALSE)
<1>1. toC \in Seq(DownFrame) /\ toC' = Append(toC, f) /\ f = F("RST", s, FALSE)
    BY DEF CInv, Channels, WriteRst
<1>6. f \in DownFrame /\ f.s = s /\ f.k = "RST"
    BY DEF F, DownFrame
<1> HIDE DEF f
<1>2. toC' \in Seq(DownFrame) /\ Longer(toC, toC', f) /\ f.s = s /\ f.k = "RST"
    BY <1>1, <1>6, Added
<1>3. \A t \in Streams \ {s} : Carried(t)
    BY <1>2, OthersCarried DEF clientVars
<1>4. Wire(toC', s, cView[s])
    BY <1>2, ResetWritten DEF CInv, Fine, Sent
<1>5. Retire(s) /\ Cancel(s) /\ UNCHANGED <<conn, hi>>
    BY DEF WriteRst
<1> QED BY <1>2, <1>3, <1>4, <1>5, Leaves

LEMMA NothingQueued == Nothing \in Queues /\ ~Nothing.end /\ ~Nothing.trailers
BY DEF Nothing, Queues

\* The connection says more of a stream that it has begun, or begins now, to answer.
LEMMA Speaks ==
    ASSUME CInv, NEW s \in Live, NEW end \in BOOLEAN, NEW begins \in BOOLEAN,
           Apply(s, TRUE, end, begins, Nothing), s \in started \/ begins,
           Finish(s, TRUE, end) \/ (end /\ Cancel(s)),
           UNCHANGED <<clientVars, drainVars, resp>>, Heard(s),
           \A t \in Streams \ {s} : Carried(t), Wire(toC', s, cView[s]),
           ~end => Sending(toC', s, cView[s]),
           st[s] # "half-closed local", resp[s] \in {"head", "over"}, ~Begins(events', s),
           end => resp[s] = "over" /\ Quiet(events', s)
    PROVE  /\ TableTyped' /\ route' \subseteq Streams /\ \A t \in Streams : Fine(t)'
           /\ UNCHANGED <<conn, hi>>
<1>1. s \in Streams /\ s <= hi /\ st[s] # "none"
    BY DEF Live, CInv, Ascending
<1>2. Nothing \in Queues
    BY NothingQueued
<1>3. /\ TableTyped' /\ Elsewhere(s) /\ UNCHANGED <<conn, hi>>
      /\ Closes(s, TRUE, end) => Removed(s)
      /\ ~Closes(s, TRUE, end) =>
            /\ st'[s] = IF end THEN "half-closed local" ELSE st[s]
            /\ s \in started'
            /\ queue'[s] = Nothing
    <2>1. TableTyped /\ s \in Live /\ Nothing \in Queues
        BY <1>2, TableIsTyped
    <2>2. Half(TRUE) = "half-closed local"
        BY Zenon DEF Half
    <2>3. Apply(s, TRUE, end, begins, Nothing) /\ (begins \/ s \in started)
        OBVIOUS
    <2> QED BY <1>1, <2>1, <2>2, <2>3, ApplyTyped, ZenonT(40)
<1>4. /\ route' \subseteq Streams
      /\ \A t \in Streams \ {s} : t \in route' <=> t \in route
      /\ s \in route' => s \in route
      /\ Closes(s, TRUE, end) => s \notin route'
      /\ ~end => (s \in route' <=> s \in route)
    BY DEF Finish, Cancel, Closes, CInv, TypeOK
<1>5. ASSUME NEW t \in Streams, t # s PROVE Fine(t)'
    BY <1>1, <1>3, <1>4, <1>5, Others DEF Heard, drainVars
<1>6. Told(s) /\ Leased(s)
    BY <1>1 DEF CInv, Fine
<1>7. cView' = cView /\ drain' = drain /\ ~(s > hi')
    <2>1. ~(s > hi') 
        BY <1>1, <1>3, NotAbove, Zenon
    <2> QED BY <2>1, Zenon DEF clientVars, drainVars
<1>8. CASE Closes(s, TRUE, end)
    <2>1. Fine(s)'
        BY <1>1, <1>3, <1>4, <1>6, <1>7, <1>8, Away DEF Removed, Heard, Told
    <2> QED BY <1>3, <1>4, <1>5, <2>1
<1>9. CASE ~Closes(s, TRUE, end)
    <2>1. /\ st'[s] = IF end THEN "half-closed local" ELSE st[s]
          /\ s \in started' /\ queue'[s] = Nothing /\ resp' = resp
        BY <1>3, <1>9
    <2>2. Told(s)'
        <3>1. /\ EndsLast(events', s) /\ BeginsFirst(events', s) /\ ~Begins(events', s)
              /\ resp'[s] \in {"head", "over"}
              /\ resp'[s] = "head" => ~Ends(events', s)
            BY <1>6, <2>1 DEF Told, Heard
        <3>2. st'[s] = "half-closed local" => resp'[s] = "over" /\ Quiet(events', s)
            BY <2>1
        <3> QED BY <2>1, <3>1, <3>2, NothingQueued, Zenon DEF Told
    <2>3. Sent(s)'
        BY <1>1, <1>7, <2>1 DEF Sent, Live
    <2>4. Leased(s)'
        BY <1>1, <1>4, <1>6, <2>1 DEF Leased
    <2> QED BY <1>3, <1>4, <1>5, <2>2, <2>3, <2>4 DEF Fine
<1> QED BY <1>8, <1>9

\* Nothing happens to the streams but that an event is taken, or to the wire but
\* that a GOAWAY is written.
LEMMA Nowhere ==
    ASSUME CInv, NEW s \in Streams, Heard(s),
           UNCHANGED <<clientVars, drainVars, resp, tableVars>>,
           s \notin Live \/ Alike(events, events', s),
           route' = route \/ (s \notin Live /\ Cancel(s)),
           \A t \in Streams : Carried(t)
    PROVE  TableTyped' /\ route' \subseteq Streams /\ \A t \in Streams : Fine(t)'
<1>1. TableTyped' /\ Elsewhere(s) /\ Same(s)
    BY TableIsTyped DEF TableTyped, Elsewhere, Same, tableVars, Live
<1>2. /\ route' \subseteq Streams
      /\ \A t \in Streams : t \in route' <=> t \in route
    BY DEF CInv, TypeOK, Cancel, Fine, Leased, Live
<1>3. ASSUME NEW t \in Streams, t # s PROVE Fine(t)'
    BY <1>1, <1>2, <1>3, Others DEF Heard, drainVars, tableVars
<1>4. Fine(s)'
    <2>1. CASE Alike(events, events', s)
        BY <1>1, <1>2, <2>1, Untouched DEF drainVars, tableVars, CInv
    <2>2. CASE s \notin Live
        <3>1. /\ st'[s] = "none" /\ s \notin started' /\ queue'[s] = Nothing /\ s \notin route'
            <4>1. st[s] = "none" /\ s \notin started /\ queue[s] = Nothing
                BY <2>2 DEF Live, CInv, Fine, Told, TypeOK
            <4>2. s \notin route
                BY <4>1 DEF CInv, Fine, Leased
            <4> QED BY <1>2, <4>1, <4>2 DEF tableVars
        <3>2. Told(s) /\ Sent(s)
            BY DEF CInv, Fine
        <3>3. /\ Wire(toC', s, cView'[s])
              /\ drain' # "committed" /\ s > hi' => Unsent(toC', s, cView'[s])
            BY <3>2 DEF Sent, Carried, drainVars, tableVars
        <3> QED BY <3>1, <3>2, <3>3, Away DEF Told, Heard
    <2> QED BY <2>1, <2>2
<1> QED BY <1>1, <1>2, <1>3, <1>4

-----------------------------------------------------------------------------
(* A frame from the client. *)

\* The requests that are still to come are above any before.
LEMMA RequestsTaken ==
    ASSUME Channels, Ascending, hi \in Int, NEW q, q = fromC', Shorter(fromC, q), NEW h,
           h = hi \/ (Head(fromC).k = "HEADERS" /\ h = Head(fromC).s)
    PROVE  /\ h < cNext /\ hi <= h
           /\ \A i \in DOMAIN q :
                q[i].k = "HEADERS" =>
                    /\ q[i].s < cNext /\ h < q[i].s
                    /\ \A j \in DOMAIN q : q[j].k = "HEADERS" /\ j < i => q[j].s < q[i].s
<1> DEFINE n == Len(fromC)
<1>1. /\ n \in Nat \ {0} /\ DOMAIN fromC = 1..n /\ DOMAIN q = 1..(n - 1)
      /\ \A i \in 1..(n - 1) : q[i] = fromC[i + 1]
      /\ fromC[1] = Head(fromC)
    BY DEF Shorter
<1> HIDE DEF n
<1>2. \A i \in 1..n :
        fromC[i].k = "HEADERS" =>
            /\ fromC[i].s < cNext /\ hi < fromC[i].s
            /\ \A j \in 1..n : fromC[j].k = "HEADERS" /\ j < i => fromC[j].s < fromC[i].s
    BY <1>1 DEF Ascending
<1>3. \A i \in 1..n : fromC[i].s \in Int
    <2>1. \A u \in UpFrame : u.s \in Int
        BY DEF UpFrame, Streams
    <2>2. \A i \in 1..n : fromC[i] \in UpFrame
        BY <1>1 DEF Channels
    <2> QED BY <2>1, <2>2
<1>4. h < cNext /\ hi <= h
    <2>1. hi < cNext
        BY DEF Ascending
    <2> QED BY <1>1, <1>2, <1>3, <2>1
<1>5. ASSUME NEW i \in 1..(n - 1), q[i].k = "HEADERS"
      PROVE  /\ q[i].s < cNext /\ h < q[i].s
             /\ \A j \in 1..(n - 1) : q[j].k = "HEADERS" /\ j < i => q[j].s < q[i].s
    <2>1. i + 1 \in 1..n /\ q[i] = fromC[i + 1] /\ 1 \in 1..n /\ 1 < i + 1
        BY <1>1
    <2>2. q[i].s < cNext /\ h < q[i].s
        BY <1>1, <1>2, <1>5, <2>1
    <2>3. ASSUME NEW j \in 1..(n - 1), q[j].k = "HEADERS", j < i PROVE q[j].s < q[i].s
        <3>1. j + 1 \in 1..n /\ q[j] = fromC[j + 1] /\ j + 1 < i + 1
            BY <1>1, <2>3
        <3> QED BY <1>2, <1>5, <2>1, <2>3, <3>1
    <2> QED BY <2>2, <2>3
<1> QED BY <1>1, <1>4, <1>5

\* A request that was admitted: nothing was said of it before.
LEMMA AdmitKeeps ==
    ASSUME CInv, NEW s \in Streams, NEW end \in BOOLEAN, Admit(s, end), hi < s,
           drain # "committed", UNCHANGED <<clientVars, drainVars, events>>
    PROVE  /\ TableTyped' /\ route' \subseteq Streams /\ \A t \in Streams : Fine(t)'
           /\ resp' \in [Streams -> {"none", "asked", "head", "over"}]
           /\ UNCHANGED <<toC, conn>> /\ hi' = s
<1>1. /\ hi' = s /\ UNCHANGED <<toC, conn, started, queue>>
      /\ route' = route \cup {s}
    BY DEF Admit
<1>2. st[s] = "none" /\ resp[s] = "none"
    <2>1. ~(s <= hi)
        BY TableIsTyped DEF Streams
    <2> QED BY <2>1, Zenon DEF CInv, Ascending, Live
<1>3. st \in [Streams -> {"none", "open", "half-closed local", "half-closed remote"}]
      /\ resp \in [Streams -> {"none", "asked", "head", "over"}]
    BY Zenon DEF CInv, TypeOK
<1>4. /\ st' \in [Streams -> {"none", "open", "half-closed local", "half-closed remote"}]
      /\ st'[s] \in {"open", "half-closed remote"}
      /\ \A t \in Streams \ {s} : st'[t] = st[t]
    BY <1>3 DEF Admit
<1>5. /\ resp' \in [Streams -> {"none", "asked", "head", "over"}]
      /\ resp'[s] = "asked" /\ \A t \in Streams \ {s} : resp'[t] = resp[t]
    BY <1>3 DEF Admit
<1>6. TableTyped' /\ route' \subseteq Streams
    <2>1. TableTyped /\ route \subseteq Streams
        BY TableIsTyped DEF CInv, TypeOK
    <2>2. started' \subseteq Live'
        BY <1>1, <1>2, <1>4, <2>1 DEF TableTyped, Live
    <2> QED BY <1>1, <1>4, <2>1, <2>2 DEF TableTyped
<1>7. ASSUME NEW t \in Streams, t # s PROVE Fine(t)'
    <2>1. Same(t) /\ Carried(t) /\ Alike(events, events', t)
        BY <1>1, <1>4, <1>7, AlikeItself DEF Same, Carried, clientVars
    <2>2. t > hi' => t > hi
        BY <1>1, TableIsTyped DEF Streams
    <2>3. /\ resp'[t] = resp[t] /\ (t \in route' <=> t \in route) /\ Fine(t)
          /\ drain' # "committed" => drain # "committed"
        BY <1>1, <1>5, <1>7 DEF CInv, drainVars
    <2> QED BY <2>1, <2>2, <2>3, Untouched
<1>8. Fine(s)'
    <2>1. Fine(s) /\ s \notin started /\ queue[s] = Nothing
        <3>1. s \notin started
            BY <1>2, TableIsTyped DEF TableTyped, Live
        <3> QED BY <3>1 DEF CInv, Fine, Told
    <2>2. Quiet(events, s)
        BY <1>2, <2>1 DEF Fine, Told
    <2>3. HeadBefore(events, s) /\ ~Begins(events, s)
        BY <2>2 DEF Quiet, HeadBefore, Begins
    <2>4. Unsent(toC, s, cView[s]) /\ Wire(toC, s, cView[s])
        <3>1. s > hi
            BY TableIsTyped DEF Streams
        <3> QED BY <2>1, <3>1 DEF Fine, Sent
    <2>5. Told(s)'
        BY <1>1, <1>4, <1>5, <2>1, <2>2, <2>3, NothingQueued DEF Told, Fine
    <2>6. Sent(s)'
        BY <1>1, <2>1, <2>4 DEF Sent, clientVars
    <2>7. Leased(s)'
        BY <1>1, <1>4 DEF Leased
    <2> QED BY <2>5, <2>6, <2>7 DEF Fine
<1> QED BY <1>1, <1>5, <1>6, <1>7, <1>8

\* The client's END_STREAM, or its data.
LEMMA DataKeeps ==
    ASSUME CInv, NEW s \in Live, NEW end \in BOOLEAN,
           Apply(s, FALSE, end, FALSE, queue[s]), Finish(s, FALSE, end),
           UNCHANGED <<clientVars, drainVars, resp, events, toC>>
    PROVE  /\ TableTyped' /\ route' \subseteq Streams /\ \A t \in Streams : Fine(t)'
           /\ UNCHANGED <<conn, hi>>
<1>1. s \in Streams /\ s <= hi /\ st[s] # "none"
    BY DEF Live, CInv, Ascending
<1>2. queue[s] \in Queues /\ Heard(s) /\ \A t \in Streams : Carried(t)
    BY <1>1, TableIsTyped, HeardNothing DEF TableTyped, Carried, clientVars
<1>3. /\ TableTyped' /\ Elsewhere(s) /\ UNCHANGED <<conn, hi>>
      /\ Closes(s, FALSE, end) => Removed(s)
      /\ ~Closes(s, FALSE, end) =>
            /\ st'[s] = IF end THEN "half-closed remote" ELSE st[s]
            /\ s \in started' <=> s \in started
            /\ queue'[s] = queue[s]
    BY <1>1, <1>2, TableIsTyped, ApplyTyped DEF Half
<1>4. CASE Closes(s, FALSE, end)
    <2>1. Retire(s) /\ Cancel(s)
        BY <1>4 DEF Apply, Finish
    <2>2. Wire(toC', s, cView[s]) /\ UNCHANGED <<clientVars, hi, drainVars, resp>>
        BY <1>1, <1>3 DEF CInv, Fine, Sent
    <2> QED BY <1>1, <1>2, <1>3, <2>1, <2>2, Leaves
<1>5. CASE ~Closes(s, FALSE, end)
    <2>1. route' = route /\ route' \subseteq Streams
        BY <1>5, Zenon DEF Finish, CInv, TypeOK
    <2>2. ASSUME NEW t \in Streams, t # s PROVE Fine(t)'
        BY <1>1, <1>2, <1>3, <2>1, <2>2, Others DEF Heard, drainVars
    <2>3. /\ st'[s] = IF end THEN "half-closed remote" ELSE st[s]
          /\ s \in started' <=> s \in started
          /\ queue'[s] = queue[s] /\ resp' = resp /\ Fine(s)
          /\ end => st[s] # "half-closed local"
        BY <1>1, <1>3, <1>5 DEF CInv, Closes
    <2>4. Told(s)'
        BY <1>1, <2>3 DEF Told, Fine
    <2>5. Sent(s)'
        <3>1. ~(s > hi')
            BY <1>1, <1>3, NotAbove, Zenon
        <3> QED BY <1>1, <2>3, <3>1, Zenon DEF Sent, Fine, Live, clientVars
    <2>6. Leased(s)'
        BY <1>1, <2>1, <2>3 DEF Leased, Fine
    <2> QED BY <1>3, <2>1, <2>2, <2>4, <2>5, <2>6 DEF Fine
<1> QED BY <1>4, <1>5

LEMMA FrameKeeps == ASSUME CInv, TakeFrame PROVE CInv'
<1> DEFINE f == Head(fromC)
<1>1. /\ fromC # <<>> /\ fromC' = Tail(fromC)
      /\ UNCHANGED <<clientVars, drainVars, events>>
      /\ \/ f.k = "HEADERS" /\ RecvRequest(f.s, f.end)
         \/ f.k = "DATA"    /\ RecvData(f.s, f.end) /\ UNCHANGED resp
         \/ f.k = "RST"     /\ RecvRst(f.s) /\ UNCHANGED resp
    BY DEF TakeFrame
<1>2. fromC' \in Seq(UpFrame) /\ Shorter(fromC, fromC') /\ f \in UpFrame
    BY <1>1, Taken DEF CInv, Channels
<1>3. f = Head(fromC)
    OBVIOUS
<1> HIDE DEF f
<1>4. f.s \in Streams /\ f.end \in BOOLEAN
    BY <1>2 DEF UpFrame
<1> DEFINE s == f.s
           end == f.end
<1>5. s \in Streams /\ end \in BOOLEAN /\ Heard(s)
    BY <1>1, <1>4, HeardNothing
<1>6. /\ hi \in Int /\ hi \in 0..N /\ TypeOK /\ Channels /\ Ascending /\ Promise
      /\ resp \in [Streams -> {"none", "asked", "head", "over"}]
      /\ conn \in {"up", "closed", "expired", "failed"}
      /\ toC \in Seq(DownFrame) /\ events \in Seq(Event)
    BY TableIsTyped, Zenon DEF CInv, TypeOK, Channels
<1>7. f.k = "HEADERS" => hi < s
    <2>1. 1 \in DOMAIN fromC /\ fromC[1] = f
        BY <1>1, <1>3, <1>6 DEF Channels
    <2> QED BY <1>6, <2>1 DEF Ascending
<1> DEFINE Done ==
        /\ TableTyped' /\ route' \subseteq Streams /\ \A t \in Streams : Fine(t)'
        /\ toC' \in Seq(DownFrame)
        /\ conn' \in {"up", "closed", "expired", "failed"}
<1>8. ASSUME FailConn, UNCHANGED <<route, resp>> PROVE Done /\ hi' = hi /\ resp' = resp
    <2> DEFINE bye == F("GOAWAY", 0, FALSE)
    <2>1. conn' = "failed" /\ toC' = Append(toC, bye) /\ UNCHANGED tableVars
        BY <1>8 DEF FailConn
    <2>2. bye = F("GOAWAY", 0, FALSE) /\ cView' = cView
        BY <1>1 DEF clientVars
    <2> HIDE DEF bye
    <2>3. toC' \in Seq(DownFrame) /\ \A t \in Streams : Carried(t)
        BY <1>6, <2>1, <2>2, GoodBye
    <2>4. Alike(events, events', s)
        BY <1>1, AlikeItself
    <2> QED BY <1>1, <1>5, <1>8, <2>1, <2>3, <2>4, Nowhere DEF tableVars
<1>9. ASSUME WriteRst(s), resp' = resp, s <= hi \/ drain = "committed"
      PROVE  Done /\ hi' = hi
    BY <1>1, <1>5, <1>6, <1>9, LeavesWithRst
<1>10. Done /\ /\ resp' \in [Streams -> {"none", "asked", "head", "over"}]
               /\ \/ hi' = hi /\ resp' = resp
                  \/ /\ f.k = "HEADERS" /\ hi' = s /\ drain # "committed"
                     /\ \A t \in Streams \ {s} : resp'[t] = resp[t] /\ (t \in Live' <=> t \in Live)
    <2>1. CASE f.k = "HEADERS" /\ RecvRequest(s, end)
        <3>1. Lookup(s) # "closed"
            <4>1. ~(s <= hi)
                BY <1>5, <1>6, <1>7, <2>1 DEF Streams
            <4> QED BY <4>1 DEF Lookup
        <3>2. CASE drain = "committed"
            <4>1. WriteRst(s) /\ resp' = resp
                BY <2>1, <3>1, <3>2 DEF RecvRequest
            <4> QED BY <1>6, <1>9, <3>2, <4>1
        <3>3. CASE drain # "committed"
            <4>1. Admit(s, end)
                BY <2>1, <3>1, <3>3 DEF RecvRequest
            <4>2. /\ TableTyped' /\ route' \subseteq Streams /\ \A t \in Streams : Fine(t)'
                  /\ resp' \in [Streams -> {"none", "asked", "head", "over"}]
                  /\ UNCHANGED <<toC, conn>> /\ hi' = s
                BY <1>1, <1>5, <1>7, <2>1, <3>3, <4>1, AdmitKeeps
            <4>3. \A t \in Streams \ {s} : resp'[t] = resp[t] /\ (t \in Live' <=> t \in Live)
                BY <1>5, <1>6, <4>1, TableIsTyped DEF Admit, Live, TableTyped
            <4> QED BY <1>6, <2>1, <3>3, <4>2, <4>3
        <3> QED BY <3>2, <3>3
    <2>2. CASE RecvData(s, end) /\ UNCHANGED resp
        <3>1. CASE Lookup(s) = "idle"
            BY <1>6, <1>8, <2>2, <3>1 DEF RecvData
        <3>2. CASE Lookup(s) = "closed"
            <4>1. s <= hi
                BY <3>2 DEF Lookup
            <4> QED BY <1>6, <1>9, <2>2, <3>2, <4>1 DEF RecvData
        <3>3. CASE Lookup(s) = "live"
            <4>1. /\ s \in Live /\ Apply(s, FALSE, end, FALSE, queue[s]) /\ Finish(s, FALSE, end)
                  /\ UNCHANGED toC
                BY <1>5, <2>2, <3>3 DEF RecvData, Lookup, Live
            <4>2. /\ TableTyped' /\ route' \subseteq Streams /\ \A t \in Streams : Fine(t)'
                  /\ UNCHANGED <<conn, hi>>
                BY <1>1, <1>5, <2>2, <4>1, DataKeeps
            <4> QED BY <1>6, <2>2, <4>1, <4>2
        <3> QED BY <3>1, <3>2, <3>3 DEF Lookup
    <2>3. CASE RecvRst(s) /\ UNCHANGED resp
        <3>1. CASE Lookup(s) = "idle"
            BY <1>6, <1>8, <2>3, <3>1 DEF RecvRst
        <3>2. CASE Lookup(s) = "closed"
            <4>1. UNCHANGED <<toC, conn, tableVars, route>>
                BY <2>3, <3>2 DEF RecvRst, Ignore
            <4>2. Alike(events, events', s) /\ \A t \in Streams : Carried(t)
                BY <1>1, <4>1, AlikeItself DEF Carried, clientVars
            <4>3. TableTyped' /\ route' \subseteq Streams /\ \A t \in Streams : Fine(t)'
                BY <1>1, <1>5, <2>3, <4>1, <4>2, Nowhere
            <4> QED BY <1>6, <2>3, <4>1, <4>3 DEF tableVars
        <3>3. CASE Lookup(s) = "live"
            <4>1. Retire(s) /\ Cancel(s) /\ UNCHANGED <<toC, conn, hi>> /\ s <= hi
                BY <1>5, <1>6, <2>3, <3>3 DEF RecvRst, Lookup, Live, Ascending
            <4>2. Wire(toC', s, cView[s]) /\ \A t \in Streams : Carried(t)
                BY <1>1, <1>5, <4>1 DEF Carried, clientVars, CInv, Fine, Sent
            <4>3. TableTyped' /\ route' \subseteq Streams /\ \A t \in Streams : Fine(t)'
                BY <1>1, <1>5, <2>3, <4>1, <4>2, Leaves
            <4> QED BY <1>6, <2>3, <4>1, <4>3
        <3> QED BY <3>1, <3>2, <3>3 DEF Lookup
    <2> QED BY <1>1, <2>1, <2>2, <2>3
<1>11. Channels' /\ cNext' = cNext /\ drain' = drain /\ last' = last
    BY <1>1, <1>2, <1>6, <1>10 DEF Channels, clientVars, drainVars
<1>12. /\ hi' < cNext /\ hi <= hi'
       /\ \A i \in DOMAIN fromC' :
                fromC'[i].k = "HEADERS" =>
                    /\ fromC'[i].s < cNext /\ hi' < fromC'[i].s
                    /\ \A j \in DOMAIN fromC' :
                            fromC'[j].k = "HEADERS" /\ j < i => fromC'[j].s < fromC'[i].s
    BY <1>2, <1>3, <1>6, <1>10, RequestsTaken
<1>13. hi' \in 0..N
    BY <1>5, <1>6, <1>10 DEF Streams
<1>14. TypeOK'
    BY <1>1, <1>6, <1>10, <1>13, Typed
<1>15. Promise'
    BY <1>6, <1>10, <1>11 DEF Promise
<1>16. Ascending'
    <2>1. ASSUME NEW t \in Streams, resp'[t] # "none" \/ t \in Live' PROVE t <= hi'
        <3>1. CASE hi' = hi /\ resp' = resp
            <4>1. t \in Live' => resp'[t] # "none"
                BY <1>10 DEF Fine, Told, Live
            <4> QED BY <1>6, <2>1, <3>1, <4>1 DEF Ascending
        <3>2. CASE t = s /\ hi' = s
            BY <1>5, <3>2 DEF Streams
        <3>3. CASE t # s /\ \A u \in Streams \ {s} : resp'[u] = resp[u] /\ (u \in Live' <=> u \in Live)
            <4>1. t <= hi
                BY <1>6, <2>1, <3>3 DEF Ascending
            <4>2. t \in Int /\ hi' \in Int
                BY <1>13 DEF Streams
            <4> QED BY <1>6, <1>12, <4>1, <4>2
        <3> QED BY <1>10, <3>1, <3>2, <3>3
    <2> QED BY <1>11, <1>12, <2>1 DEF Ascending
<1> QED BY <1>10, <1>11, <1>14, <1>15, <1>16 DEF CInv

-----------------------------------------------------------------------------
(* An event of the responder. *)

\* One frame of a stream is written, its first or one after that.
LEMMA SpeaksOnce ==
    ASSUME CInv, NEW s \in Live, NEW f \in DownFrame, f.s = s, toC' = Append(toC, f),
           NEW end \in BOOLEAN, f.end = end, NEW begins \in BOOLEAN,
           \/ f.k = "HEADERS" /\ s \notin started /\ begins
           \/ (f.k = "DATA" \/ (f.k = "HEADERS" /\ end)) /\ s \in started,
           Apply(s, TRUE, end, begins, Nothing),
           Finish(s, TRUE, end) \/ (end /\ Cancel(s)),
           UNCHANGED <<clientVars, drainVars, resp>>, Heard(s),
           st[s] # "half-closed local", resp[s] \in {"head", "over"}, ~Begins(events', s),
           end => resp[s] = "over" /\ Quiet(events', s)
    PROVE  /\ TableTyped' /\ route' \subseteq Streams /\ \A t \in Streams : Fine(t)'
           /\ toC' \in Seq(DownFrame) /\ UNCHANGED <<conn, hi>>
<1>1. s \in Streams /\ Sent(s) /\ toC \in Seq(DownFrame) /\ cView' = cView
    BY Zenon DEF Live, CInv, Fine, Channels, clientVars
<1>2. toC' \in Seq(DownFrame) /\ Longer(toC, toC', f)
    BY <1>1, Added, Zenon
<1>3. \A t \in Streams \ {s} : Carried(t)
    BY <1>1, <1>2, OthersCarried, Zenon
<1>4. Wire(toC', s, cView[s]) /\ (~end => Sending(toC', s, cView[s]))
    <2>1. CASE f.k = "HEADERS" /\ s \notin started /\ begins
        <3>1. Unsent(toC, s, cView[s])
            BY <1>1, <2>1, Zenon DEF Sent
        <3> QED BY <1>2, <2>1, <3>1, HeadWritten, Zenon
    <2>2. CASE (f.k = "DATA" \/ (f.k = "HEADERS" /\ end)) /\ s \in started
        <3>1. Wire(toC, s, cView[s]) /\ Sending(toC, s, cView[s])
            BY <1>1, <2>2, Zenon DEF Sent
        <3> QED BY <1>2, <2>2, <3>1, MoreWritten, Zenon
    <2> QED BY <2>1, <2>2, Zenon
<1>5. s \in started \/ begins
    BY Zenon
<1> QED BY <1>2, <1>3, <1>4, <1>5, Speaks, Zenon

\* What the place of an event in the channel says of its stream.
LEMMA EventMeans ==
    ASSUME CInv, Shorter(events, events'), NEW e, e = Head(events), NEW s \in Streams, e.s = s
    PROVE  /\ Heard(s) /\ ~Begins(events', s) /\ resp[s] \in {"head", "over"}
           /\ st[s] # "half-closed local" /\ ~queue[s].end
           /\ e.end => resp[s] = "over" /\ Quiet(events', s)
           /\ e.k \in {"Head", "Gone", "Shed"} => s \notin started /\ queue[s] = Nothing
           /\ e.k \in {"Data", "Trailers"} /\ s \in Live => s \in started
<1>1. Heard(s)
    BY HeardOne
<1>2. Told(s)
    BY DEF CInv, Fine
<1>3. /\ ~Quiet(events, s) /\ ~Begins(events', s)
      /\ e.end => Quiet(events', s) /\ Ends(events, s)
      /\ e.k \in {"Head", "Gone", "Shed"} => Begins(events, s)
      /\ e.k \in {"Data", "Trailers"} => ~HeadBefore(events, s)
    BY <1>2, OwnTaken DEF Told
<1> QED BY <1>1, <1>2, <1>3 DEF Told, Live

\* Data waits for the window.
LEMMA DataWaits ==
    ASSUME CInv, NEW s \in started, NEW q \in Queues, queue' = [queue EXCEPT ![s] = q],
           UNCHANGED <<clientVars, drainVars, resp, toC, conn, hi, st, started, route>>,
           Heard(s), ~Begins(events', s), st[s] # "half-closed local",
           q.end => resp[s] = "over" /\ Quiet(events', s), q.trailers => q.end
    PROVE  TableTyped' /\ route' \subseteq Streams /\ \A t \in Streams : Fine(t)'
<1>1. s \in Streams /\ s \in Live
    BY TableIsTyped DEF TableTyped, Live
<1>2. TableTyped' /\ Elsewhere(s) /\ queue'[s] = q
    BY <1>1, TableIsTyped DEF TableTyped, Live, Elsewhere, Same
<1>3. route' \subseteq Streams
    BY Zenon DEF CInv, TypeOK
<1>4. \A t \in Streams : Carried(t)
    BY DEF Carried, clientVars
<1>5. ASSUME NEW t \in Streams, t # s PROVE Fine(t)'
    BY <1>1, <1>2, <1>4, <1>5, Others DEF Heard, drainVars
<1>6. Fine(s)
    BY <1>1 DEF CInv
<1>7. Told(s)'
    <2>1. /\ EndsLast(events', s) /\ BeginsFirst(events', s) /\ ~Begins(events', s)
          /\ resp'[s] \in {"head", "over"}
          /\ resp'[s] = "head" => ~Ends(events', s)
        BY <1>6 DEF Fine, Told, Heard
    <2> QED BY <1>2, <2>1 DEF Told
<1>8. Sent(s)'
    BY <1>6, Zenon DEF Fine, Sent, Live, clientVars, drainVars
<1>9. Leased(s)'
    BY <1>6 DEF Fine, Leased
<1> QED BY <1>2, <1>3, <1>5, <1>7, <1>8, <1>9 DEF Fine

LEMMA EventKeeps == ASSUME CInv, TakeEvent PROVE CInv'
<1> DEFINE e == Head(events)
<1>1. /\ events # <<>> /\ events' = Tail(events)
      /\ UNCHANGED <<clientVars, fromC, drainVars, resp>>
      /\ \/ e.k = "Head" /\ TakeHead(e.s, e.end)
         \/ e.k = "Data" /\ TakeData(e.s, e.end)
         \/ e.k = "Trailers" /\ TakeTrailers(e.s)
         \/ e.k = "reset" /\ TakeReset(e.s)
         \/ e.k \in {"Gone", "Shed"} /\ Answer(e.s, e.k)
    BY DEF TakeEvent
<1>2. events' \in Seq(Event) /\ Shorter(events, events') /\ e \in Event
    BY <1>1, Taken DEF CInv, Channels
<1>3. e = Head(events)
    OBVIOUS
<1> HIDE DEF e
<1>4. /\ e.s \in Streams /\ e.end \in BOOLEAN
      /\ e.k \in {"Trailers", "reset", "Gone", "Shed"} => e.end
    BY <1>2 DEF Event
<1> DEFINE s == e.s
           end == e.end
<1>5. /\ s \in Streams /\ end \in BOOLEAN
      /\ Heard(s) /\ ~Begins(events', s) /\ resp[s] \in {"head", "over"}
      /\ st[s] # "half-closed local" /\ ~queue[s].end
      /\ end => resp[s] = "over" /\ Quiet(events', s)
      /\ e.k \in {"Head", "Gone", "Shed"} => s \notin started /\ queue[s] = Nothing
      /\ e.k \in {"Data", "Trailers"} /\ s \in Live => s \in started
    BY <1>2, <1>3, <1>4, EventMeans
<1>6. /\ hi \in Int /\ hi \in 0..N /\ TypeOK /\ Channels /\ Ascending /\ Promise
      /\ resp \in [Streams -> {"none", "asked", "head", "over"}]
      /\ conn \in {"up", "closed", "expired", "failed"}
      /\ toC \in Seq(DownFrame) /\ fromC \in Seq(UpFrame)
    BY TableIsTyped, Zenon DEF CInv, TypeOK, Channels
<1> DEFINE Done ==
        /\ TableTyped' /\ route' \subseteq Streams /\ \A t \in Streams : Fine(t)'
        /\ toC' \in Seq(DownFrame) /\ hi' = hi
        /\ conn' \in {"up", "closed", "expired", "failed"}
<1>7. ASSUME Ignore, UNCHANGED route, s \notin Live PROVE Done
    <2>1. UNCHANGED <<toC, conn, tableVars>> /\ hi' = hi
        BY <1>7 DEF Ignore, tableVars
    <2>2. \A t \in Streams : Carried(t)
        BY <1>1, <2>1 DEF Carried, clientVars
    <2>3. TableTyped' /\ route' \subseteq Streams /\ \A t \in Streams : Fine(t)'
        BY <1>1, <1>5, <1>7, <2>1, <2>2, Nowhere
    <2> QED BY <1>6, <2>1, <2>3
<1>8. ASSUME WriteRst(s), s \in Live PROVE Done
    <2>1. s <= hi
        BY <1>5, <1>6, <1>8, Zenon DEF Ascending
    <2> QED BY <1>1, <1>5, <1>6, <1>8, <2>1, LeavesWithRst
<1>9. ASSUME NEW fin \in BOOLEAN, s \in Live, s \notin started, queue[s] = Nothing,
             SendResponse(s, fin), Finish(s, TRUE, fin) \/ (fin /\ Cancel(s)), fin = end
      PROVE  Done
    <2> DEFINE f == F("HEADERS", s, fin)
    <2>1. f \in DownFrame /\ f.s = s /\ f.end = fin /\ f.k = "HEADERS"
        BY <1>5 DEF F, DownFrame
    <2>2. toC' = Append(toC, f) /\ Apply(s, TRUE, fin, TRUE, Nothing)
        BY <1>9, Zenon DEF SendResponse
    <2> HIDE DEF f
    <2>3. TRUE \in BOOLEAN
        OBVIOUS
    <2>4. /\ TableTyped' /\ route' \subseteq Streams /\ \A t \in Streams : Fine(t)'
          /\ toC' \in Seq(DownFrame) /\ UNCHANGED <<conn, hi>>
        BY <1>1, <1>5, <1>9, <2>1, <2>2, <2>3, SpeaksOnce, Zenon
    <2> QED BY <1>6, <2>4
<1>10. ASSUME s \in started, NEW q \in Queues, queue' = [queue EXCEPT ![s] = q],
              UNCHANGED <<toC, conn, hi, st, started, route>>, q.end => end, q.trailers => q.end
       PROVE  Done
    <2>1. TableTyped' /\ route' \subseteq Streams /\ \A t \in Streams : Fine(t)'
        BY <1>1, <1>5, <1>10, DataWaits
    <2> QED BY <1>6, <1>10, <2>1
<1>11. queue[s] \in Queues
    BY <1>5, TableIsTyped DEF TableTyped
<1>12. Done
    <2>1. CASE e.k = "Head" /\ TakeHead(s, end)
        BY <1>5, <1>7, <1>9, <2>1 DEF TakeHead
    <2>2. CASE e.k = "Data" /\ TakeData(s, end)
        <3>1. UNCHANGED <<toC, conn, hi, st, started, route>>
            BY <2>2 DEF TakeData
        <3>2. CASE s \in Live
            <4> DEFINE q == [queue[s] EXCEPT !.data = TRUE, !.end = @ \/ end]
            <4>1. q \in Queues /\ (q.end => end) /\ (q.trailers => q.end)
                <5>1. queue[s].trailers => queue[s].end
                    BY <1>5, Zenon DEF CInv, Fine, Told
                <5> QED BY <1>5, <1>11, <5>1 DEF Queues
            <4>2. queue' = [queue EXCEPT ![s] = q]
                <5>1. queue' = [queue EXCEPT ![s].data = TRUE, ![s].end = @ \/ end]
                    BY <2>2, <3>2 DEF TakeData
                <5>2. queue \in [Streams -> Queues]
                    BY TableIsTyped DEF TableTyped
                <5> QED BY <1>5, <1>11, <5>1, <5>2 DEF Queues
            <4> HIDE DEF q
            <4> QED BY <1>5, <1>10, <2>2, <3>1, <3>2, <4>1, <4>2
        <3>3. CASE s \notin Live
            <4>1. Ignore /\ UNCHANGED route
                BY <2>2, <3>1, <3>3 DEF TakeData, Ignore, tableVars
            <4> QED BY <1>7, <3>3, <4>1
        <3> QED BY <3>2, <3>3
    <2>3. CASE e.k = "Trailers" /\ TakeTrailers(s)
        <3>1. CASE s \notin Live
            BY <1>7, <2>3, <3>1 DEF TakeTrailers
        <3>2. CASE s \in Live /\ queue[s] = Nothing
            <4> DEFINE f == F("HEADERS", s, TRUE)
                       yes == TRUE
            <4>1. f \in DownFrame /\ f.s = s /\ f.end = yes /\ f.k = "HEADERS" /\ yes \in BOOLEAN
                BY <1>5 DEF F, DownFrame
            <4>2. /\ toC' = Append(toC, f) /\ Apply(s, TRUE, yes, FALSE, Nothing)
                  /\ Finish(s, TRUE, yes)
                BY <2>3, <3>2, Zenon DEF TakeTrailers, SendTrailers
            <4>3. yes /\ end /\ s \in started /\ FALSE \in BOOLEAN
                BY <1>4, <1>5, <2>3, <3>2
            <4> HIDE DEF f, yes
            <4>4. /\ TableTyped' /\ route' \subseteq Streams /\ \A t \in Streams : Fine(t)'
                  /\ toC' \in Seq(DownFrame) /\ UNCHANGED <<conn, hi>>
                BY <1>1, <1>5, <3>2, <4>1, <4>2, <4>3, SpeaksOnce, Zenon
            <4> QED BY <1>6, <4>4
        <3>3. CASE s \in Live /\ queue[s] # Nothing
            <4> DEFINE q == [queue[s] EXCEPT !.trailers = TRUE, !.end = TRUE]
            <4>1. q \in Queues /\ q.end /\ end
                BY <1>4, <1>11, <2>3 DEF Queues
            <4>2. queue' = [queue EXCEPT ![s] = q] /\ UNCHANGED <<toC, conn, hi, st, started, route>>
                <5>1. /\ queue' = [queue EXCEPT ![s].trailers = TRUE, ![s].end = TRUE]
                      /\ UNCHANGED <<toC, conn, hi, st, started, route>>
                    BY <2>3, <3>3 DEF TakeTrailers, SendTrailers
                <5>2. queue \in [Streams -> Queues]
                    BY TableIsTyped DEF TableTyped
                <5> QED BY <1>5, <1>11, <5>1, <5>2 DEF Queues
            <4> HIDE DEF q
            <4> QED BY <1>5, <1>10, <2>3, <3>3, <4>1, <4>2
        <3> QED BY <3>1, <3>2, <3>3
    <2>4. CASE e.k = "reset" /\ TakeReset(s)
        BY <1>7, <1>8, <2>4 DEF TakeReset
    <2>5. CASE e.k \in {"Gone", "Shed"} /\ Answer(s, e.k)
        <3>1. s \notin started /\ queue[s] = Nothing /\ end
            BY <1>4, <1>5, <2>5
        <3>2. CASE s \in Live
            <4>1. SendResponse(s, TRUE) /\ (Finish(s, TRUE, TRUE) \/ Cancel(s))
                BY <2>5, <3>1, <3>2, Zenon DEF Answer
            <4> DEFINE yes == TRUE
            <4>2. yes \in BOOLEAN /\ yes = end /\ SendResponse(s, yes)
                  /\ (Finish(s, TRUE, yes) \/ (yes /\ Cancel(s)))
                BY <1>5, <3>1, <4>1
            <4> HIDE DEF yes
            <4> QED BY <1>9, <3>1, <3>2, <4>2, Zenon
        <3>3. CASE s \notin Live
            <4>1. FailConn /\ Cancel(s)
                BY <2>5, <3>1, <3>3, Zenon DEF Answer
            <4> DEFINE bye == F("GOAWAY", 0, FALSE)
            <4>2. conn' = "failed" /\ toC' = Append(toC, bye) /\ UNCHANGED tableVars
                BY <4>1 DEF FailConn
            <4>3. bye = F("GOAWAY", 0, FALSE) /\ cView' = cView
                BY <1>1 DEF clientVars
            <4> HIDE DEF bye
            <4>4. toC' \in Seq(DownFrame) /\ \A t \in Streams : Carried(t)
                BY <1>6, <4>2, <4>3, GoodBye
            <4>5. TableTyped' /\ route' \subseteq Streams /\ \A t \in Streams : Fine(t)'
                BY <1>1, <1>5, <3>3, <4>1, <4>2, <4>4, Nowhere
            <4> QED BY <4>2, <4>4, <4>5 DEF tableVars
        <3> QED BY <3>2, <3>3
    <2> QED BY <1>1, <2>1, <2>2, <2>3, <2>4, <2>5
<1>13. TypeOK'
    BY <1>1, <1>6, <1>12, Typed
<1>14. Channels' /\ Promise'
    BY <1>1, <1>2, <1>6, <1>12 DEF Channels, Promise, drainVars
<1>15. Ascending'
    <2>1. \A t \in Streams : t \in Live' => resp'[t] # "none"
        BY <1>12, Zenon DEF Fine, Told, Live
    <2>2. UNCHANGED <<hi, fromC, cNext>> /\ resp' = resp
        BY <1>1, <1>12 DEF clientVars
    <2> QED BY <1>6, <2>1, <2>2, AscendingStays
<1> QED BY <1>12, <1>13, <1>14, <1>15, Zenon DEF CInv

-----------------------------------------------------------------------------
(* The window lets what is queued out. *)

LEMMA Pairs ==
    ASSUME NEW b, NEW c
    PROVE  /\ <<>> \o <<b>> = <<b>> /\ <<c>> \o <<b>> = <<c, b>>
           /\ Append(<<>>, b) = <<b>> /\ Append(<<c>>, b) = <<c, b>>
<1> DEFINE S == {b, c}
<1>1. <<c>> \in Seq(S) /\ <<b>> \in Seq(S) /\ <<>> \in Seq(S)
    OBVIOUS
<1>2. <<>> \o <<b>> = <<b>> /\ Append(<<>>, b) = <<b>>
    BY <1>1
<1>3. \A r \in Seq(S) : Len(r) = 2 /\ r[1] = c /\ r[2] = b => r = <<c, b>>
    <2> SUFFICES ASSUME NEW r \in Seq(S), Len(r) = 2, r[1] = c, r[2] = b PROVE r = <<c, b>>
        OBVIOUS
    <2>1. <<c, b>> \in Seq(S) /\ Len(<<c, b>>) = 2 /\ <<c, b>>[1] = c /\ <<c, b>>[2] = b
        OBVIOUS
    <2> HIDE DEF S
    <2>2. \A i \in 1..2 : r[i] = <<c, b>>[i]
        BY <2>1
    <2> QED BY <2>1, <2>2, SeqEqual
<1>4. <<c>> \o <<b>> = <<c, b>>
    <2> DEFINE r == <<c>> \o <<b>>
    <2>1. r \in Seq(S) /\ Len(r) = 2 /\ r[1] = c /\ r[2] = b
        BY <1>1
    <2> HIDE DEF r
    <2>2. r = <<c, b>>
        BY <1>3, <2>1
    <2> QED BY <2>2 DEF r
<1>5. Append(<<c>>, b) = <<c, b>>
    <2> DEFINE r == Append(<<c>>, b)
    <2>1. r \in Seq(S) /\ Len(r) = 2 /\ r[1] = c /\ r[2] = b
        BY <1>1
    <2> HIDE DEF r
    <2>2. r = <<c, b>>
        BY <1>3, <2>1
    <2> QED BY <2>2 DEF r
<1> QED BY <1>2, <1>4, <1>5

LEMMA FramesOf ==
    ASSUME NEW s, queue[s] \in Queues, queue[s] # Nothing, queue[s].trailers => queue[s].end
    PROVE  \/ Frames(s) = <<F("DATA", s, queue[s].end)>>
           \/ queue[s].end /\ Frames(s) = <<F("HEADERS", s, TRUE)>>
           \/ queue[s].end /\ Frames(s) = <<F("DATA", s, FALSE), F("HEADERS", s, TRUE)>>
<1> DEFINE q == queue[s]
           a == F("DATA", s, q.end)
           b == F("HEADERS", s, TRUE)
           c == F("DATA", s, FALSE)
<1>1. CASE q.trailers
    <2>1. q.end /\ Frames(s) = (IF q.data THEN <<c>> ELSE <<>>) \o <<b>>
        BY <1>1 DEF Frames
    <2> HIDE DEF b, c
    <2>2. <<c>> \o <<b>> = <<c, b>> /\ <<>> \o <<b>> = <<b>>
        BY Pairs, Zenon
    <2>3. Frames(s) = <<c, b>> \/ Frames(s) = <<b>>
        BY <2>1, <2>2, Zenon
    <2> QED BY <2>1, <2>3, Zenon DEF b, c
<1>2. CASE ~q.trailers
    <2>1. q.data \/ q.end
        BY <1>2 DEF Nothing, Queues
    <2>2. Frames(s) = <<a>> \o <<>>
        <3>1. (q.end /\ ~q.trailers) = q.end
            BY <1>2 DEF Queues
        <3>2. Frames(s) = (IF q.data \/ (q.end /\ ~q.trailers)
                           THEN <<F("DATA", s, q.end /\ ~q.trailers)>> ELSE <<>>) \o <<>>
            BY <1>2, Zenon DEF Frames
        <3>3. q.data \/ (q.end /\ ~q.trailers)
            BY <1>2, <2>1
        <3> QED BY <3>1, <3>2, <3>3, Zenon
    <2> HIDE DEF a
    <2>3. <<a>> \o <<>> = <<a>>
        OBVIOUS
    <2> QED BY <2>2, <2>3 DEF a
<1> QED BY <1>1, <1>2

LEMMA AddedTail ==
    ASSUME NEW S, NEW q \in Seq(S), NEW f \in S, NEW r, r = q \o <<f>>
    PROVE  r \in Seq(S) /\ Longer(q, r, f)
<1>1. r = Append(q, f)
    OBVIOUS
<1> QED BY <1>1, Added

LEMMA VisitKeeps == ASSUME CInv, NEW s \in Streams, Visit(s) PROVE CInv'
<1>1. /\ queue[s] # Nothing /\ toC' = toC \o Frames(s)
      /\ Apply(s, TRUE, queue[s].end, FALSE, Nothing) /\ Finish(s, TRUE, queue[s].end)
      /\ UNCHANGED <<clientVars, fromC, drainVars, resp, events>>
    BY Zenon DEF Visit, Written
<1>2. /\ hi \in Int /\ hi \in 0..N /\ TypeOK /\ Channels /\ Ascending /\ Promise
      /\ resp \in [Streams -> {"none", "asked", "head", "over"}]
      /\ conn \in {"up", "closed", "expired", "failed"}
      /\ toC \in Seq(DownFrame) /\ Heard(s) /\ Told(s) /\ Sent(s)
    BY <1>1, TableIsTyped, HeardNothing, Zenon DEF CInv, TypeOK, Channels, Fine
<1>3. queue[s] \in Queues /\ queue[s].end \in BOOLEAN
    BY TableIsTyped DEF TableTyped, Queues
<1>4. /\ s \in started /\ st[s] # "half-closed local"
      /\ queue[s].trailers => queue[s].end
      /\ queue[s].end => resp[s] = "over" /\ Quiet(events, s)
      /\ resp[s] \in {"head", "over"} /\ ~Begins(events, s)
    BY <1>1, <1>2, Zenon DEF Told
<1>5. s \in Live
    BY <1>4, TableIsTyped DEF TableTyped
<1>6. Wire(toC, s, cView[s]) /\ Sending(toC, s, cView[s])
    BY <1>2, <1>4, Zenon DEF Sent
<1>7. /\ toC' \in Seq(DownFrame) /\ \A t \in Streams \ {s} : Carried(t)
      /\ Wire(toC', s, cView[s]) /\ (~queue[s].end => Sending(toC', s, cView[s]))
    <2> DEFINE a == F("DATA", s, queue[s].end)
               b == F("HEADERS", s, TRUE)
               c == F("DATA", s, FALSE)
    <2>1. /\ a \in DownFrame /\ a.s = s /\ a.k = "DATA" /\ a.end = queue[s].end
          /\ b \in DownFrame /\ b.s = s /\ b.k = "HEADERS" /\ b.end
          /\ c \in DownFrame /\ c.s = s /\ c.k = "DATA" /\ ~c.end
        BY <1>3 DEF F, DownFrame
    <2>2. \/ Frames(s) = <<a>>
          \/ queue[s].end /\ Frames(s) = <<b>>
          \/ queue[s].end /\ Frames(s) = <<c, b>>
        BY <1>1, <1>3, <1>4, FramesOf, Zenon
    <2> HIDE DEF a, b, c
    <2>3. cView' = cView
        BY <1>1 DEF clientVars
    <2>4. CASE Frames(s) = <<a>>
        <3>1. toC' \in Seq(DownFrame) /\ Longer(toC, toC', a)
            <4>1. toC' = toC \o <<a>>
                BY <1>1, <2>4
            <4> QED BY <1>2, <2>1, <4>1, AddedTail
        <3>2. \A t \in Streams \ {s} : Carried(t)
            BY <2>1, <2>3, <3>1, OthersCarried, Zenon
        <3>3. Wire(toC', s, cView[s]) /\ (~a.end => Sending(toC', s, cView[s]))
            BY <1>6, <2>1, <3>1, MoreWritten, Zenon
        <3> QED BY <2>1, <3>1, <3>2, <3>3
    <2>5. CASE queue[s].end /\ Frames(s) = <<b>>
        <3>1. toC' \in Seq(DownFrame) /\ Longer(toC, toC', b)
            <4>1. toC' = toC \o <<b>>
                BY <1>1, <2>5
            <4> QED BY <1>2, <2>1, <4>1, AddedTail
        <3>2. \A t \in Streams \ {s} : Carried(t)
            BY <2>1, <2>3, <3>1, OthersCarried, Zenon
        <3>3. Wire(toC', s, cView[s])
            BY <1>6, <2>1, <3>1, MoreWritten, Zenon
        <3> QED BY <2>5, <3>1, <3>2, <3>3
    <2>6. CASE queue[s].end /\ Frames(s) = <<c, b>>
        <3>1. toC' \in Seq(DownFrame) /\ \E m \in Seq(DownFrame) : Longer(toC, m, c) /\ Longer(m, toC', b)
            <4>1. toC' = toC \o <<c, b>>
                BY <1>1, <2>6
            <4> QED BY <1>2, <2>1, <4>1, Joined
        <3>2. PICK m \in Seq(DownFrame) : Longer(toC, m, c) /\ Longer(m, toC', b)
            BY <3>1
        <3>3. ASSUME NEW t \in Streams, t # s PROVE Carried(t)
            <4>1. /\ Wire(toC, t, cView[t]) => Wire(m, t, cView[t])
                  /\ Unsent(toC, t, cView[t]) => Unsent(m, t, cView[t])
                  /\ Sending(toC, t, cView[t]) => Sending(m, t, cView[t])
                BY <2>1, <3>2, <3>3, OtherWritten
            <4>2. /\ Wire(m, t, cView[t]) => Wire(toC', t, cView[t])
                  /\ Unsent(m, t, cView[t]) => Unsent(toC', t, cView[t])
                  /\ Sending(m, t, cView[t]) => Sending(toC', t, cView[t])
                BY <2>1, <3>2, <3>3, OtherWritten
            <4> QED BY <2>3, <4>1, <4>2 DEF Carried
        <3>4. Wire(m, s, cView[s]) /\ Sending(m, s, cView[s])
            BY <1>6, <2>1, <3>2, MoreWritten, Zenon
        <3>5. Wire(toC', s, cView[s])
            BY <2>1, <3>2, <3>4, MoreWritten, Zenon
        <3> QED BY <2>6, <3>1, <3>3, <3>5
    <2> QED BY <2>2, <2>4, <2>5, <2>6
<1>8. /\ TableTyped' /\ route' \subseteq Streams /\ \A t \in Streams : Fine(t)'
      /\ UNCHANGED <<conn, hi>>
    <2>1. FALSE \in BOOLEAN /\ (s \in started \/ FALSE) /\ events' = events
        BY <1>1, <1>4
    <2>2. ~Begins(events', s) /\ (queue[s].end => resp[s] = "over" /\ Quiet(events', s))
        BY <1>4, <2>1
    <2>3. UNCHANGED <<clientVars, drainVars, resp>>
        BY <1>1
    <2> QED BY <1>1, <1>2, <1>3, <1>4, <1>5, <1>7, <2>1, <2>2, <2>3, Speaks, Zenon
<1>9. TypeOK'
    BY <1>1, <1>2, <1>8, Typed
<1>10. Channels' /\ Promise'
    BY <1>1, <1>2, <1>7, <1>8 DEF Channels, Promise, drainVars
<1>11. Ascending'
    <2>1. \A t \in Streams : t \in Live' => resp'[t] # "none"
        BY <1>8, Zenon DEF Fine, Told, Live
    <2>2. UNCHANGED <<hi, fromC, cNext>> /\ resp' = resp
        BY <1>1, <1>8 DEF clientVars
    <2> QED BY <1>2, <2>1, <2>2, AscendingStays
<1> QED BY <1>8, <1>9, <1>10, <1>11, Zenon DEF CInv

-----------------------------------------------------------------------------
(* The responder. *)

\* It answers the stream and may say more: what the channel says of it then.
Telling(q, s) ==
    /\ EndsLast(q, s) /\ BeginsFirst(q, s) /\ ~Ends(q, s)
    /\ st[s] # "none" /\ s \notin started => HeadBefore(q, s) /\ HasHead(q, s)
    /\ s \in started => ~Begins(q, s)
\* It has said all.
ToldAll(q, s) ==
    /\ EndsLast(q, s) /\ BeginsFirst(q, s)
    /\ st[s] # "none" /\ s \notin started => HeadBefore(q, s)
    /\ s \in started => ~Begins(q, s)

LEMMA MoreSaid ==
    ASSUME NEW q, NEW r, NEW f, Longer(q, r, f), NEW s, f.s = s, Telling(q, s),
           f.k \in {"Data", "Trailers", "reset"}
    PROVE  ToldAll(r, s) /\ (~f.end => Telling(r, s))
<1>1. EndsLast(q, s) /\ BeginsFirst(q, s) /\ ~Ends(q, s) /\ ~(f.k \in {"Head", "Gone", "Shed"})
    BY DEF Telling
<1>2. /\ EndsLast(r, s) /\ BeginsFirst(r, s)
      /\ Ends(r, s) <=> f.end
      /\ Begins(r, s) <=> Begins(q, s) \/ f.k \in {"Head", "Gone", "Shed"}
      /\ HasHead(r, s) <=> HasHead(q, s) \/ f.k = "Head"
      /\ HeadBefore(q, s) /\ (f.k \in {"Data", "Trailers"} => HasHead(q, s)) => HeadBefore(r, s)
    BY <1>1, OwnSaid, Zenon
<1> QED BY <1>1, <1>2, Zenon DEF Telling, ToldAll

LEMMA FirstSaid ==
    ASSUME NEW q, NEW r, NEW f, Longer(q, r, f), NEW s, f.s = s, Quiet(q, s), s \notin started,
           f.k \in {"Head", "Gone", "Shed", "reset"}
    PROVE  ToldAll(r, s) /\ (~f.end /\ f.k = "Head" => Telling(r, s))
<1>1. EndsLast(q, s) /\ BeginsFirst(q, s) /\ ~Ends(q, s) /\ HeadBefore(q, s)
    BY DEF Quiet, EndsLast, BeginsFirst, Ends, HeadBefore
<1>2. /\ EndsLast(r, s) /\ BeginsFirst(r, s)
      /\ Ends(r, s) <=> f.end
      /\ HasHead(r, s) <=> HasHead(q, s) \/ f.k = "Head"
      /\ HeadBefore(q, s) /\ (f.k \in {"Data", "Trailers"} => HasHead(q, s)) => HeadBefore(r, s)
    BY <1>1, OwnSaid, Zenon
<1>3. HeadBefore(r, s)
    BY <1>1, <1>2
<1> QED BY <1>2, <1>3, Zenon DEF Telling, ToldAll

\* What the responder does to a stream that is being answered.
LEMMA Answers ==
    ASSUME CInv, NEW s \in Streams, resp[s] \in {"asked", "head"}, NEW now \in {"head", "over"},
           resp' = [resp EXCEPT ![s] = now],
           UNCHANGED <<clientVars, fromC, toC, conn, tableVars, drainVars, route>>,
           events' \in Seq(Event), \A t \in Streams \ {s} : Alike(events, events', t),
           ToldAll(events', s), now = "head" => Telling(events', s)
    PROVE  CInv'
<1>1. resp \in [Streams -> {"none", "asked", "head", "over"}] /\ TypeOK
      /\ TableTyped /\ hi \in 0..N /\ Told(s) /\ Leased(s) /\ Sent(s)
    BY TableIsTyped, Zenon DEF CInv, TypeOK, Fine
<1>2. /\ resp' \in [Streams -> {"none", "asked", "head", "over"}]
      /\ resp'[s] = now /\ \A t \in Streams \ {s} : resp'[t] = resp[t]
    BY <1>1
<1>3. TypeOK'
    <2>1. TableTyped' /\ route' \subseteq Streams /\ hi' \in 0..N
          /\ conn' \in {"up", "closed", "expired", "failed"}
          /\ UNCHANGED <<clientVars, drainVars>>
        BY <1>1 DEF TableTyped, tableVars, Live, TypeOK
    <2> QED BY <1>1, <1>2, <2>1, Typed
<1>4. Channels' /\ Promise'
    BY DEF CInv, Channels, Promise, drainVars, tableVars
<1>5. Ascending'
    <2>1. \A t \in Streams : resp'[t] # "none" \/ t \in Live' => resp[t] # "none" \/ t \in Live
        BY <1>2 DEF Live, tableVars
    <2>2. Ascending /\ UNCHANGED <<hi, fromC, cNext>>
        BY DEF CInv, tableVars, clientVars
    <2> QED BY <2>1, <2>2, AscendingStays
<1>6. ASSUME NEW t \in Streams, t # s PROVE Fine(t)'
    <2>1. Elsewhere(s) /\ UNCHANGED <<drain, hi>> /\ \A u \in Streams \ {s} : Carried(u)
        BY DEF Elsewhere, Same, Carried, tableVars, drainVars, clientVars
    <2> QED BY <1>2, <1>6, <2>1, Others
<1>7. st[s] # "half-closed local" /\ ~queue[s].end /\ resp'[s] # "none"
    BY <1>1, <1>2, Zenon DEF Told
<1>8. Told(s)'
    <2>1. st' = st /\ started' = started /\ queue' = queue
        BY DEF tableVars
    <2>2. s \in started => s \notin {} /\ resp'[s] \in {"head", "over"}
        BY <1>2
    <2>3. resp'[s] \in {"head", "over"} /\ (resp'[s] = "head" => Telling(events', s))
        BY <1>2
    <2>4. queue[s] # Nothing => s \in started
        BY <1>1, Zenon DEF Told
    <2>5. queue[s].trailers => queue[s].end
        BY <1>1, Zenon DEF Told
    <2> QED BY <1>7, <2>1, <2>3, <2>4, <2>5, Zenon DEF Told, Telling, ToldAll
<1>9. Sent(s)'
    BY <1>1, Zenon DEF Sent, Live, tableVars, drainVars, clientVars
<1>10. Leased(s)'
    <2>1. st[s] # "none" => s \in route
        BY <1>1 DEF Leased
    <2> QED BY <1>1, <2>1 DEF Leased, tableVars
<1> QED BY <1>3, <1>4, <1>5, <1>6, <1>8, <1>9, <1>10, Zenon DEF CInv, Fine

\* One event, or two.
LEMMA SaysOne ==
    ASSUME CInv, NEW s \in Streams, NEW b \in Event, b.s = s, events' = events \o <<b>>,
           \/ resp[s] = "head" /\ b.k \in {"Data", "Trailers", "reset"} /\ b.end
           \/ resp[s] = "asked" /\ b.k \in {"Head", "Gone", "Shed", "reset"},
           resp' = [resp EXCEPT ![s] = IF b.end THEN "over" ELSE "head"],
           ~b.end => b.k = "Head",
           UNCHANGED <<clientVars, fromC, toC, conn, tableVars, drainVars, route>>
    PROVE  CInv'
<1>1. events' \in Seq(Event) /\ Longer(events, events', b)
    BY AddedTail DEF CInv, Channels
<1>2. \A t \in Streams \ {s} : Alike(events, events', t)
    BY <1>1, OtherSaid
<1>3. Told(s)
    BY DEF CInv, Fine
<1>4. ToldAll(events', s) /\ (~b.end => Telling(events', s))
    <2>1. CASE resp[s] = "head" /\ b.k \in {"Data", "Trailers", "reset"}
        <3>1. Telling(events, s)
            BY <1>3, <2>1 DEF Told, Telling
        <3> QED BY <1>1, <2>1, <3>1, MoreSaid
    <2>2. CASE resp[s] = "asked" /\ b.k \in {"Head", "Gone", "Shed", "reset"}
        <3>1. Quiet(events, s) /\ s \notin started
            BY <1>3, <2>2 DEF Told
        <3> QED BY <1>1, <2>2, <3>1, FirstSaid
    <2> QED BY <2>1, <2>2
<1> DEFINE now == IF b.end THEN "over" ELSE "head"
<1>5. now \in {"head", "over"} /\ (now = "head" => ~b.end) /\ resp' = [resp EXCEPT ![s] = now]
    OBVIOUS
<1>6. resp[s] \in {"asked", "head"}
    OBVIOUS
<1> HIDE DEF now
<1> QED BY <1>1, <1>2, <1>4, <1>5, <1>6, Answers

LEMMA SaysTwo ==
    ASSUME CInv, NEW s \in Streams, NEW a \in Event, a.s = s, a.k = "Data", ~a.end,
           NEW b \in Event, b.s = s, b.k \in {"Data", "Trailers"}, b.end,
           events' = events \o <<a, b>>, resp[s] = "head",
           resp' = [resp EXCEPT ![s] = "over"],
           UNCHANGED <<clientVars, fromC, toC, conn, tableVars, drainVars, route>>
    PROVE  CInv'
<1>1. events' \in Seq(Event) /\ \E m \in Seq(Event) : Longer(events, m, a) /\ Longer(m, events', b)
    BY Joined DEF CInv, Channels
<1>2. PICK m \in Seq(Event) : Longer(events, m, a) /\ Longer(m, events', b)
    BY <1>1
<1>3. ASSUME NEW t \in Streams \ {s} PROVE Alike(events, events', t)
    <2>1. Alike(events, m, t) /\ Alike(m, events', t)
        BY <1>2, OtherSaid
    <2> QED BY <2>1 DEF Alike
<1>4. Telling(events, s)
    BY DEF CInv, Fine, Told, Telling
<1>5. Telling(m, s)
    BY <1>2, <1>4, MoreSaid
<1>6. ToldAll(events', s)
    BY <1>2, <1>5, MoreSaid
<1> QED BY <1>1, <1>3, <1>6, Answers

LEMMA RespondKeeps ==
    ASSUME CInv, NEW s \in Streams, RespondHead(s) \/ RespondEnd(s) \/ HearsCancel(s)
    PROVE  CInv'
<1>1. CASE RespondHead(s)
    <2>1. PICK end \in BOOLEAN :
                resp[s] = "asked" /\ Respond(s, IF end THEN "over" ELSE "head", <<F("Head", s, end)>>)
        BY <1>1, Zenon DEF RespondHead
    <2> DEFINE b == F("Head", s, end)
    <2>2. /\ b \in Event /\ b.s = s /\ b.k = "Head" /\ b.end = end
        BY DEF F, Event
    <2>3. events' = events \o <<b>> /\ resp' = [resp EXCEPT ![s] = IF end THEN "over" ELSE "head"]
          /\ UNCHANGED <<clientVars, fromC, toC, conn, tableVars, drainVars, route>>
        BY <2>1, Zenon DEF Respond
    <2> HIDE DEF b
    <2> QED BY <2>1, <2>2, <2>3, SaysOne
<1>2. CASE HearsCancel(s)
    <2>1. /\ resp[s] \in {"asked", "head"} /\ s \notin route
          /\ resp' = [resp EXCEPT ![s] = "over"] /\ events' = events \o <<>>
          /\ UNCHANGED <<clientVars, fromC, toC, conn, tableVars, drainVars, route>>
        BY <1>2, Zenon DEF HearsCancel, Respond
    <2>2. events \in Seq(Event) /\ events' = events
        BY <2>1 DEF CInv, Channels
    <2>3. Told(s) /\ Leased(s)
        BY DEF CInv, Fine
    <2>4. ToldAll(events', s)
        BY <2>2, <2>3 DEF Told, ToldAll
    <2>5. \A t \in Streams \ {s} : Alike(events, events', t)
        BY <2>2, AlikeItself
    <2> QED BY <2>1, <2>2, <2>4, <2>5, Answers
<1>3. CASE RespondEnd(s)
    <2> DEFINE data == F("Data", s, FALSE)
               done == F("Data", s, TRUE)
               trailers == F("Trailers", s, TRUE)
    <2>1. PICK how \in Endings[s] :
            \/ how = "end" /\ resp[s] = "head" /\ Respond(s, "over", <<done>>)
            \/ how = "end" /\ resp[s] = "head" /\ Respond(s, "over", <<data, done>>)
            \/ how = "trailers" /\ resp[s] = "head"
                /\ \E body \in {<<>>, <<data>>} : Respond(s, "over", Append(body, trailers))
            \/ how = "reset" /\ resp[s] \in {"asked", "head"} /\ Respond(s, "over", <<F(how, s, TRUE)>>)
            \/ how \in {"Gone", "Shed"} /\ resp[s] = "asked" /\ Respond(s, "over", <<F(how, s, TRUE)>>)
        BY <1>3, Zenon DEF RespondEnd
    <2> DEFINE other == F(how, s, TRUE)
    <2>2. /\ data \in Event /\ data.s = s /\ data.k = "Data" /\ ~data.end
          /\ done \in Event /\ done.s = s /\ done.k = "Data" /\ done.end
          /\ trailers \in Event /\ trailers.s = s /\ trailers.k = "Trailers" /\ trailers.end
          /\ how \in {"reset", "Gone", "Shed"} =>
                other \in Event /\ other.s = s /\ other.k = how /\ other.end
        BY DEF F, Event
    <2> HIDE DEF data, done, trailers, other
    <2>3. PICK es : /\ Respond(s, "over", es)
                    /\ \/ resp[s] = "head" /\ es = <<done>>
                       \/ resp[s] = "head" /\ es = <<trailers>>
                       \/ resp[s] = "head" /\ es = <<data, done>>
                       \/ resp[s] = "head" /\ es = <<data, trailers>>
                       \/ es = <<other>> /\ \/ how = "reset" /\ resp[s] \in {"asked", "head"}
                                            \/ how \in {"Gone", "Shed"} /\ resp[s] = "asked"
        <3>1. Append(<<>>, trailers) = <<trailers>> /\ Append(<<data>>, trailers) = <<data, trailers>>
            BY Pairs, Zenon
        <3>2. CASE /\ how = "trailers" /\ resp[s] = "head"
                   /\ \E body \in {<<>>, <<data>>} : Respond(s, "over", Append(body, trailers))
            BY <3>1, <3>2, Zenon
        <3> QED BY <2>1, <3>2, Zenon DEF other
    <2>4. /\ resp' = [resp EXCEPT ![s] = "over"] /\ events' = events \o es
          /\ UNCHANGED <<clientVars, fromC, toC, conn, tableVars, drainVars, route>>
        BY <2>3, Zenon DEF Respond
    <2>5. ASSUME NEW b \in Event, b.s = s, b.end, es = <<b>>,
                 \/ resp[s] = "head" /\ b.k \in {"Data", "Trailers", "reset"}
                 \/ resp[s] = "asked" /\ b.k \in {"Gone", "Shed", "reset"}
          PROVE  CInv'
        <3>1. events' = events \o <<b>> /\ resp' = [resp EXCEPT ![s] = IF b.end THEN "over" ELSE "head"]
            BY <2>4, <2>5
        <3> QED BY <2>4, <2>5, <3>1, SaysOne
    <2>6. ASSUME NEW b \in Event, b.s = s, b.end, b.k \in {"Data", "Trailers"}, es = <<data, b>>,
                 resp[s] = "head"
          PROVE  CInv'
        <3>1. events' = events \o <<data, b>>
            BY <2>4, <2>6
        <3> QED BY <2>2, <2>4, <2>6, <3>1, SaysTwo
    <2>7. CASE resp[s] = "head" /\ (es = <<done>> \/ es = <<trailers>>)
        BY <2>2, <2>5, <2>7
    <2>8. CASE resp[s] = "head" /\ (es = <<data, done>> \/ es = <<data, trailers>>)
        BY <2>2, <2>6, <2>8
    <2>9. CASE es = <<other>> /\ \/ how = "reset" /\ resp[s] \in {"asked", "head"}
                                 \/ how \in {"Gone", "Shed"} /\ resp[s] = "asked"
        <3>1. other \in Event /\ other.s = s /\ other.k = how /\ other.end
            BY <2>2, <2>9
        <3> QED BY <2>5, <2>9, <3>1
    <2> QED BY <2>3, <2>7, <2>8, <2>9, Zenon
<1> QED BY <1>1, <1>2, <1>3

-----------------------------------------------------------------------------
(* The invariant, and what follows from it. *)

LEMMA Initially == ASSUME Init PROVE CInv
<1>1. Nothing \in Queues
    BY NothingQueued
<1>2. TypeOK
    <2>1. N \in Nat
        BY ClientAssumption
    <2>2. cNext \in 1..(N + 1) /\ hi \in 0..N /\ last \in 0..N
        BY <2>1 DEF Init
    <2>3. /\ cState \in [Streams -> {"idle", "open", "sent", "reset"}]
          /\ cView \in [Streams -> {"none", "head", "end", "rst", "bad"}]
          /\ resp \in [Streams -> {"none", "asked", "head", "over"}]
        BY DEF Init
    <2>4. /\ st \in [Streams -> {"none", "open", "half-closed local", "half-closed remote"}]
          /\ queue \in [Streams -> Queues]
        BY <1>1 DEF Init
    <2>5. /\ cGoAway \in BOOLEAN /\ conn \in {"up", "closed", "expired", "failed"}
          /\ started \subseteq Live /\ drain \in {"none", "grace", "committed"}
          /\ route \subseteq Streams
        BY DEF Init
    <2> QED BY <2>2, <2>3, <2>4, <2>5 DEF TypeOK, Queues
<1>3. Channels /\ Ascending /\ Promise
    BY DEF Init, Channels, Ascending, Promise, Live
<1>4. ASSUME NEW s \in Streams PROVE Fine(s)
    <2>1. st[s] = "none" /\ started = {} /\ queue[s] = Nothing /\ resp[s] = "none" /\ cView[s] = "none"
        BY DEF Init
    <2>2. At(events, s) = {} /\ At(toC, s) = {}
        BY DEF Init, At
    <2>3. Told(s)
        BY <2>1, <2>2, NothingQueued DEF Told, EndsLast, BeginsFirst, Quiet, Ends
    <2>4. Sent(s)
        BY <2>1, <2>2 DEF Sent, Wire, Unsent, Live
    <2>5. Leased(s)
        BY <2>1 DEF Leased, Init
    <2> QED BY <2>3, <2>4, <2>5 DEF Fine
<1> QED BY <1>2, <1>3, <1>4 DEF CInv

LEMMA StandingStill == ASSUME CInv, UNCHANGED vars PROVE CInv'
BY Zenon DEF CInv, TypeOK, Channels, Ascending, Promise, Fine, Told, Sent, Leased, Live, vars,
             clientVars, tableVars, drainVars

\* Whatever the client, the responders and the drain do, each stream stands in the
\* three channels where its state in the table says (conn.rs, one task).
THEOREM ClientInvariant == Spec => []CInv
<1>1. Init => CInv
    BY Initially
<1>2. CInv /\ [Next]_vars => CInv'
    <2> SUFFICES ASSUME CInv, [Next]_vars PROVE CInv'
        OBVIOUS
    <2>1. CASE ClientOpen
        BY <2>1, OpenKeeps
    <2>2. CASE ClientTake
        BY <2>2, ReadKeeps
    <2>3. CASE TakeFrame
        BY <2>3, FrameKeeps
    <2>4. CASE TakeEvent
        BY <2>4, EventKeeps
    <2>5. CASE BeginDrain \/ Commit \/ DrainFinished \/ DrainDeadline
        BY <2>5, DrainKeeps
    <2>6. ASSUME NEW s \in Streams,
                 \/ ClientBody(s) \/ ClientReset(s) \/ Visit(s)
                 \/ RespondHead(s) \/ RespondEnd(s) \/ HearsCancel(s)
          PROVE  CInv'
        BY <2>6, BodyKeeps, ResetKeeps, VisitKeeps, RespondKeeps
    <2>7. CASE UNCHANGED vars
        BY <2>7, StandingStill
    <2> QED BY <2>1, <2>2, <2>3, <2>4, <2>5, <2>6, <2>7, Zenon DEF Next
<1> QED BY <1>1, <1>2, PTL DEF Spec

\* Every response the client reads is one head, its data and one END_STREAM, or is
\* cut short by a reset (visit_ready_stream on send_end_stream).
THEOREM ResponsesWellFormed == Spec => []WireWellFormed
<1>1. CInv => WireWellFormed
    BY DEF CInv, Fine, Sent, Wire, WireWellFormed
<1> QED BY <1>1, ClientInvariant, PTL

\* A lease is held as long as its stream is in the table, but for the upload of a
\* request that was shed (apply_stream_event).
THEOREM LeasesFollow == Spec => []LeasesFollowStreams
<1>1. CInv => LeasesFollowStreams
    BY DEF CInv, Fine, Leased, LeasesFollowStreams, Live, TypeOK
<1> QED BY <1>1, ClientInvariant, PTL

\* Nothing above the committed GOAWAY is ever dispatched (advance_drain).
THEOREM DrainKeepsItsPromise == Spec => []NothingAfterTheLast
<1>1. CInv => NothingAfterTheLast
    BY DEF CInv, Ascending, Promise, NothingAfterTheLast
<1> QED BY <1>1, ClientInvariant, PTL

-----------------------------------------------------------------------------
(* No stream takes the connection down, as long as what may come too late for *)
(* a drain has nothing more to send, and what the client may reset has a      *)
(* backend that does not vanish.                                              *)

Gentle ==
    /\ MayBeLate \cap (WithBody \cup MayReset) = {}
    /\ \A s \in MayReset : Endings[s] \cap {"Gone", "Shed"} = {}

Opened(q, s)   == \E i \in At(q, s) : q[i].k = "HEADERS"
Vanishes(q, s) == \E i \in At(q, s) : q[i].k \in {"Gone", "Shed"}

\* What follows a request on the wire follows it, or the request was admitted.
Follows == \A i \in DOMAIN fromC :
    /\ fromC[i].k = "DATA" => fromC[i].s \in WithBody
    /\ fromC[i].k = "RST"  => fromC[i].s \in MayReset
    /\ fromC[i].k # "HEADERS" =>
            \/ fromC[i].s <= hi
            \/ \E j \in At(fromC, fromC[i].s) : j < i /\ fromC[j].k = "HEADERS"
Arriving(s) ==
    /\ cState[s] \in {"open", "sent"} => s < cNext
    /\ cState[s] = "open" => s \in WithBody
    /\ s < cNext /\ s \notin MayBeLate => s <= hi \/ Opened(fromC, s)
\* Only what may be late comes after the commit.
LateOnly == drain = "committed" /\ conn = "up" =>
    /\ cGoAway \/ cNext..N \subseteq MayBeLate
    /\ \A i \in DOMAIN fromC : fromC[i].k = "HEADERS" => fromC[i].s \in MayBeLate
Coming == Follows /\ LateOnly /\ \A s \in Streams : Arriving(s)

\* A stream that may yet have to be answered by the connection itself is there.
Waits(s) ==
    /\ s \notin MayReset /\ (resp[s] = "asked" \/ Vanishes(events, s)) => st[s] # "none"
    /\ Vanishes(events, s) => s \notin MayReset

SInv == ConnectionSurvives /\ Coming /\ \A s \in Streams : Waits(s)

LEMMA ComingStays ==
    ASSUME Coming, UNCHANGED <<fromC, hi, cNext>>, LateOnly',
           \A s \in Streams : cState'[s] \in {"open", "sent"} => cState'[s] = cState[s]
    PROVE  Coming'
BY DEF Coming, Follows, Arriving

LEMMA WaitsStays ==
    ASSUME NEW s \in Streams, Waits(s), st'[s] = st[s], resp'[s] = resp[s] \/ resp'[s] # "asked",
           Vanishes(events', s) => Vanishes(events, s)
    PROVE  Waits(s)'
BY DEF Waits

LEMMA VanishSaid ==
    ASSUME NEW q, NEW r, NEW f, Longer(q, r, f), NEW s, Vanishes(r, s),
           ~(f.s = s /\ f.k \in {"Gone", "Shed"})
    PROVE  Vanishes(q, s)
BY AtLonger DEF Vanishes

LEMMA VanishTaken ==
    ASSUME NEW q, NEW r, Shorter(q, r), NEW s
    PROVE  /\ Vanishes(r, s) => Vanishes(q, s)
           /\ Head(q).s = s /\ Head(q).k \in {"Gone", "Shed"} => Vanishes(q, s)
BY AtShorter DEF Vanishes

LEMMA VanishBegins == ASSUME NEW q, NEW s, Vanishes(q, s) PROVE Begins(q, s)
BY DEF Vanishes, Begins

LEMMA FrameOf ==
    ASSUME CInv, NEW i \in DOMAIN fromC
    PROVE  fromC[i].s \in Streams /\ fromC[i].s \in Int
<1>1. fromC[i] \in UpFrame
    BY DEF CInv, Channels
<1> QED BY <1>1 DEF UpFrame, Streams

\* The client opens, goes on, resets.
LEMMA OpenSpares == ASSUME CInv, SInv, ClientOpen PROVE SInv'
<1>1. /\ UNCHANGED <<cView, cGoAway, toC, conn, tableVars, drainVars, route, resp, events>>
      /\ cNext \in Streams /\ ~cGoAway /\ cNext' = cNext + 1
      /\ cState' = [cState EXCEPT ![cNext] = IF cNext \in WithBody THEN "open" ELSE "sent"]
    BY DEF ClientOpen
<1> DEFINE f == F("HEADERS", cNext, cNext \notin WithBody)
           n == Len(fromC)
<1>2. f \in UpFrame /\ f.s = cNext /\ f.k = "HEADERS" /\ fromC' = Append(fromC, f)
    BY <1>1 DEF F, UpFrame, ClientOpen
<1> HIDE DEF f
<1>3. Longer(fromC, fromC', f)
    BY <1>2, Added DEF CInv, Channels
<1>4. /\ n \in Nat /\ DOMAIN fromC = 1..n /\ DOMAIN fromC' = 1..(n + 1)
      /\ \A i \in 1..n : fromC'[i] = fromC[i]
      /\ fromC'[n + 1] = f
    BY <1>3 DEF Longer
<1> HIDE DEF n
<1>5. \A s \in Streams : \A i \in At(fromC, s) : i \in At(fromC', s) /\ fromC'[i] = fromC[i]
    BY <1>4 DEF At
<1>6. UNCHANGED <<hi, st, drain, conn>>
    BY <1>1 DEF tableVars, drainVars
<1>7. Follows'
    <2> SUFFICES ASSUME NEW i \in DOMAIN fromC'
                 PROVE  /\ fromC'[i].k = "DATA" => fromC'[i].s \in WithBody
                        /\ fromC'[i].k = "RST"  => fromC'[i].s \in MayReset
                        /\ fromC'[i].k # "HEADERS" =>
                              \/ fromC'[i].s <= hi'
                              \/ \E j \in At(fromC', fromC'[i].s) : j < i /\ fromC'[j].k = "HEADERS"
        BY DEF Follows
    <2>1. CASE i = n + 1
        BY <1>2, <1>4, <2>1
    <2>2. CASE i # n + 1
        <3>1. i \in DOMAIN fromC /\ fromC'[i] = fromC[i] /\ fromC[i].s \in Streams
            BY <1>4, <2>2, FrameOf
        <3> QED BY <1>5, <1>6, <3>1 DEF SInv, Coming, Follows
    <2> QED BY <2>1, <2>2
<1>8. ASSUME NEW s \in Streams PROVE Arriving(s)'
    <2>1. Arriving(s) /\ s \in Int /\ cNext \in Int /\ cState \in [Streams -> {"idle", "open", "sent", "reset"}]
        <3>1. Arriving(s) /\ cState \in [Streams -> {"idle", "open", "sent", "reset"}]
            BY Zenon DEF SInv, Coming, CInv, TypeOK
        <3>2. s \in Int /\ cNext \in Int
            BY <1>1 DEF Streams
        <3> QED BY <3>1, <3>2
    <2>2. s = cNext => Opened(fromC', s)
        BY <1>2, <1>4 DEF Opened, At
    <2>3. Opened(fromC, s) => Opened(fromC', s)
        BY <1>5 DEF Opened
    <2> QED BY <1>1, <1>6, <2>1, <2>2, <2>3 DEF Arriving
<1>9. LateOnly'
    <2> SUFFICES ASSUME drain' = "committed", conn' = "up"
                 PROVE  /\ cNext'..N \subseteq MayBeLate
                        /\ \A i \in DOMAIN fromC' : fromC'[i].k = "HEADERS" => fromC'[i].s \in MayBeLate
        BY DEF LateOnly
    <2>1. /\ cNext..N \subseteq MayBeLate /\ cNext \in cNext..N
          /\ \A i \in DOMAIN fromC : fromC[i].k = "HEADERS" => fromC[i].s \in MayBeLate
        <3>1. cNext \in cNext..N
            BY <1>1, ClientAssumption DEF Streams
        <3> QED BY <1>1, <1>6, <3>1 DEF SInv, Coming, LateOnly
    <2>2. cNext'..N \subseteq cNext..N
        BY <1>1, ClientAssumption DEF Streams
    <2> QED BY <1>2, <1>4, <2>1, <2>2
<1>10. ASSUME NEW s \in Streams PROVE Waits(s)'
    BY <1>1, <1>6, WaitsStays DEF SInv
<1> QED BY <1>6, <1>7, <1>8, <1>9, <1>10 DEF SInv, Coming, ConnectionSurvives

LEMMA SendSpares ==
    ASSUME CInv, SInv, Gentle, NEW s \in Streams, ClientBody(s) \/ ClientReset(s)
    PROVE  SInv'
<1>1. /\ UNCHANGED <<cNext, cView, cGoAway, toC, conn, tableVars, drainVars, route, resp, events>>
      /\ cState[s] \in {"open", "sent"}
    BY DEF ClientBody, ClientReset
<1>2. PICK f \in UpFrame :
            /\ fromC' = Append(fromC, f) /\ f.s = s /\ f.k \in {"DATA", "RST"}
            /\ f.k = "DATA" => s \in WithBody
            /\ f.k = "RST" => s \in MayReset
    <2>1. Arriving(s)
        BY DEF SInv, Coming
    <2>2. CASE ClientBody(s)
        <3> DEFINE f == F("DATA", s, TRUE)
        <3>1. f \in UpFrame /\ f.s = s /\ f.k = "DATA" /\ fromC' = Append(fromC, f)
            BY <2>2 DEF F, UpFrame, ClientBody
        <3>2. s \in WithBody
            BY <2>1, <2>2 DEF ClientBody, Arriving
        <3> HIDE DEF f
        <3> QED BY <3>1, <3>2
    <2>3. CASE ClientReset(s)
        <3> DEFINE f == F("RST", s, FALSE)
        <3>1. f \in UpFrame /\ f.s = s /\ f.k = "RST" /\ fromC' = Append(fromC, f) /\ s \in MayReset
            BY <2>3 DEF F, UpFrame, ClientReset
        <3> HIDE DEF f
        <3> QED BY <3>1
    <2> QED BY <2>2, <2>3
<1> DEFINE n == Len(fromC)
<1>3. Longer(fromC, fromC', f)
    BY <1>2, Added DEF CInv, Channels
<1>4. /\ n \in Nat /\ DOMAIN fromC = 1..n /\ DOMAIN fromC' = 1..(n + 1)
      /\ \A i \in 1..n : fromC'[i] = fromC[i]
      /\ fromC'[n + 1] = f
    BY <1>3 DEF Longer
<1> HIDE DEF n
<1>5. \A t \in Streams : \A i \in At(fromC, t) : i \in At(fromC', t) /\ fromC'[i] = fromC[i] /\ i < n + 1
    BY <1>4 DEF At
<1>6. UNCHANGED <<hi, st, drain, conn>>
    BY <1>1 DEF tableVars, drainVars
<1>7. s <= hi \/ Opened(fromC, s)
    <2>1. s \notin MayBeLate
        BY <1>2 DEF Gentle
    <2> QED BY <1>1, <2>1 DEF SInv, Coming, Arriving
<1>8. Follows'
    <2> SUFFICES ASSUME NEW i \in DOMAIN fromC'
                 PROVE  /\ fromC'[i].k = "DATA" => fromC'[i].s \in WithBody
                        /\ fromC'[i].k = "RST"  => fromC'[i].s \in MayReset
                        /\ fromC'[i].k # "HEADERS" =>
                              \/ fromC'[i].s <= hi'
                              \/ \E j \in At(fromC', fromC'[i].s) : j < i /\ fromC'[j].k = "HEADERS"
        BY DEF Follows
    <2>1. CASE i = n + 1
        BY <1>2, <1>4, <1>5, <1>6, <1>7, <2>1 DEF Opened
    <2>2. CASE i # n + 1
        <3>1. i \in DOMAIN fromC /\ fromC'[i] = fromC[i] /\ fromC[i].s \in Streams
            BY <1>4, <2>2, FrameOf
        <3> QED BY <1>5, <1>6, <3>1 DEF SInv, Coming, Follows
    <2> QED BY <2>1, <2>2
<1>9. ASSUME NEW t \in Streams PROVE Arriving(t)'
    <2>1. Arriving(t) /\ cState \in [Streams -> {"idle", "open", "sent", "reset"}]
        BY DEF SInv, Coming, CInv, TypeOK
    <2>2. Opened(fromC, t) => Opened(fromC', t)
        BY <1>5 DEF Opened
    <2>3. cState'[t] \in {"open", "sent"} => cState[t] \in {"open", "sent"}
        BY <1>1, <2>1 DEF ClientBody, ClientReset
    <2>4. cState'[t] = "open" => cState[t] = "open"
        BY <1>1, <2>1 DEF ClientBody, ClientReset
    <2> QED BY <1>1, <1>6, <2>1, <2>2, <2>3, <2>4, Zenon DEF Arriving
<1>10. LateOnly'
    <2>1. \A i \in DOMAIN fromC' : fromC'[i].k = "HEADERS" => i \in DOMAIN fromC /\ fromC'[i] = fromC[i]
        BY <1>2, <1>4
    <2> QED BY <1>1, <1>6, <2>1 DEF LateOnly, SInv, Coming
<1>11. ASSUME NEW t \in Streams PROVE Waits(t)'
    BY <1>1, <1>6, WaitsStays DEF SInv
<1> QED BY <1>6, <1>8, <1>9, <1>10, <1>11 DEF SInv, Coming, ConnectionSurvives

\* It reads; and the drain.
LEMMA AsideSpares ==
    ASSUME CInv, SInv, ClientTake \/ BeginDrain \/ Commit \/ DrainFinished \/ DrainDeadline
    PROVE  SInv'
<1>1. /\ UNCHANGED <<fromC, hi, st, cNext, resp, events>>
      /\ conn' # "failed"
    BY DEF ClientTake, BeginDrain, CommitNow, Commit, Committing, DrainFinished, DrainDeadline,
           tableVars, clientVars, SInv, ConnectionSurvives
<1>2. \A s \in Streams : cState'[s] \in {"open", "sent"} => cState'[s] = cState[s]
    <2>1. CASE ClientTake
        BY <2>1 DEF ClientTake, CInv, TypeOK
    <2>2. CASE BeginDrain \/ Commit \/ DrainFinished \/ DrainDeadline
        BY <2>2 DEF BeginDrain, Commit, Committing, DrainFinished, DrainDeadline, clientVars
    <2> QED BY <2>1, <2>2
<1>3. LateOnly'
    <2>1. CASE ClientTake
        BY <1>1, <2>1 DEF ClientTake, LateOnly, SInv, Coming, drainVars
    <2>2. CASE BeginDrain
        BY <2>2 DEF BeginDrain, CommitNow, LateOnly
    <2>3. CASE Commit
        BY <1>1, <2>3 DEF Commit, Committing, GraceOver, LateOnly, clientVars
    <2>4. CASE DrainFinished \/ DrainDeadline
        BY <2>4 DEF DrainFinished, DrainDeadline, LateOnly
    <2> QED BY <2>1, <2>2, <2>3, <2>4
<1>4. Coming'
    BY <1>1, <1>2, <1>3, ComingStays DEF SInv
<1>5. ASSUME NEW s \in Streams PROVE Waits(s)'
    BY <1>1, WaitsStays DEF SInv
<1> QED BY <1>1, <1>4, <1>5 DEF SInv, ConnectionSurvives

\* A frame.
LEMMA FrameSpares == ASSUME CInv, SInv, Gentle, TakeFrame PROVE SInv'
<1> DEFINE f == Head(fromC)
<1>1. /\ fromC # <<>> /\ fromC' = Tail(fromC) /\ conn = "up"
      /\ UNCHANGED <<clientVars, drainVars, events>>
      /\ \/ f.k = "HEADERS" /\ RecvRequest(f.s, f.end)
         \/ f.k = "DATA"    /\ RecvData(f.s, f.end) /\ UNCHANGED resp
         \/ f.k = "RST"     /\ RecvRst(f.s) /\ UNCHANGED resp
    BY DEF TakeFrame
<1>2. fromC' \in Seq(UpFrame) /\ Shorter(fromC, fromC') /\ f \in UpFrame /\ f = fromC[1]
    BY <1>1, Taken DEF CInv, Channels
<1> HIDE DEF f
<1> DEFINE n == Len(fromC)
<1>3. /\ n \in Nat \ {0} /\ DOMAIN fromC = 1..n /\ DOMAIN fromC' = 1..(n - 1)
      /\ \A i \in 1..(n - 1) : fromC'[i] = fromC[i + 1]
    BY <1>2 DEF Shorter
<1> HIDE DEF n
<1>4. f.s \in Streams /\ f.end \in BOOLEAN /\ f.s \in Int /\ hi \in Int
    BY <1>2, TableIsTyped DEF UpFrame, Streams
<1>5. f.k = "HEADERS" => hi < f.s /\ (drain = "committed" => f.s \in MayBeLate)
    BY <1>1, <1>2, <1>3 DEF CInv, Ascending, SInv, Coming, LateOnly
<1>6. f.k # "HEADERS" => f.s <= hi /\ (f.k = "RST" => f.s \in MayReset)
    <2>1. \A j \in At(fromC, f.s) : ~(j < 1)
        BY <1>3 DEF At
    <2> QED BY <1>2, <1>3, <2>1 DEF SInv, Coming, Follows
\* The step, as far as it matters here.
<1>7. /\ conn' = conn
      /\ hi' = hi \/ (f.k = "HEADERS" /\ hi' = f.s)
      /\ f.k = "HEADERS" => hi' = f.s \/ drain = "committed"
      /\ f.k = "HEADERS" /\ hi' # f.s => resp' = resp
      /\ f.k # "HEADERS" => resp' = resp
    <2>1. CASE f.k = "HEADERS" /\ RecvRequest(f.s, f.end)
        <3>1. Lookup(f.s) # "closed"
            BY <1>4, <1>5, <2>1 DEF Lookup
        <3> QED BY <2>1, <3>1 DEF RecvRequest, WriteRst, Admit
    <2>2. CASE f.k = "DATA" /\ RecvData(f.s, f.end) /\ UNCHANGED resp
        <3>1. Lookup(f.s) # "idle"
            BY <1>6, <2>2 DEF Lookup
        <3>2. CASE Lookup(f.s) = "closed"
            BY <2>2, <3>1, <3>2 DEF RecvData, WriteRst
        <3>3. CASE Lookup(f.s) = "live"
            BY <2>2, <3>1, <3>3 DEF RecvData, Apply
        <3> QED BY <3>1, <3>2, <3>3 DEF Lookup
    <2>3. CASE f.k = "RST" /\ RecvRst(f.s) /\ UNCHANGED resp
        <3>1. Lookup(f.s) # "idle"
            BY <1>6, <2>3 DEF Lookup
        <3>2. CASE Lookup(f.s) = "closed"
            BY <2>3, <3>1, <3>2 DEF RecvRst, Ignore, tableVars
        <3>3. CASE Lookup(f.s) = "live"
            BY <2>3, <3>1, <3>3 DEF RecvRst
        <3> QED BY <3>1, <3>2, <3>3 DEF Lookup
    <2> QED BY <1>1, <2>1, <2>2, <2>3
<1>8. hi <= hi' /\ hi' \in Int
    BY <1>4, <1>5, <1>7
\* Whose request was taken: it was admitted, or nothing of it may follow.
<1>9. f.k = "HEADERS" => f.s <= hi' \/ f.s \in MayBeLate
    BY <1>4, <1>5, <1>7
<1>10. Follows'
    <2> SUFFICES ASSUME NEW i \in DOMAIN fromC'
                 PROVE  /\ fromC'[i].k = "DATA" => fromC'[i].s \in WithBody
                        /\ fromC'[i].k = "RST"  => fromC'[i].s \in MayReset
                        /\ fromC'[i].k # "HEADERS" =>
                              \/ fromC'[i].s <= hi'
                              \/ \E j \in At(fromC', fromC'[i].s) : j < i /\ fromC'[j].k = "HEADERS"
        BY DEF Follows
    <2>1. i + 1 \in DOMAIN fromC /\ fromC'[i] = fromC[i + 1] /\ i \in Nat
        BY <1>3
    <2> DEFINE g == fromC[i + 1]
    <2>2. g.s \in Streams /\ g.s \in Int /\ g.k \in {"HEADERS", "DATA", "RST"}
        <3>1. g \in UpFrame
            BY <2>1 DEF CInv, Channels
        <3> QED BY <3>1 DEF UpFrame, Streams
    <2>3. /\ g.k = "DATA" => g.s \in WithBody
          /\ g.k = "RST"  => g.s \in MayReset
          /\ g.k # "HEADERS" =>
                g.s <= hi \/ \E j \in At(fromC, g.s) : j < i + 1 /\ fromC[j].k = "HEADERS"
        BY <2>1 DEF SInv, Coming, Follows
    <2> HIDE DEF g
    <2>4. ASSUME g.k # "HEADERS", ~(g.s <= hi')
          PROVE  \E j \in At(fromC', g.s) : j < i /\ fromC'[j].k = "HEADERS"
        <3>1. ~(g.s <= hi)
            BY <1>4, <1>8, <2>2, <2>4
        <3>2. PICK j \in At(fromC, g.s) : j < i + 1 /\ fromC[j].k = "HEADERS"
            BY <2>3, <2>4, <3>1
        <3>3. j # 1
            <4>1. g.s \notin MayBeLate
                BY <2>2, <2>3, <2>4 DEF Gentle
            <4>2. j = 1 => f.s = g.s /\ f.k = "HEADERS"
                BY <1>2, <3>2 DEF At
            <4> QED BY <1>9, <2>4, <4>1, <4>2
        <3>4. j - 1 \in DOMAIN fromC' /\ fromC'[j - 1] = fromC[j] /\ j - 1 < i
            BY <1>3, <2>1, <3>2, <3>3 DEF At
        <3> QED BY <3>2, <3>4 DEF At
    <2> QED BY <2>1, <2>3, <2>4 DEF g
<1>11. ASSUME NEW t \in Streams PROVE Arriving(t)'
    <2>1. Arriving(t) /\ cState' = cState /\ cNext' = cNext /\ t \in Int
        BY <1>1 DEF SInv, Coming, clientVars, Streams
    <2>2. ASSUME t \notin MayBeLate, Opened(fromC, t), ~(t <= hi') PROVE Opened(fromC', t)
        <3>1. PICK j \in At(fromC, t) : fromC[j].k = "HEADERS"
            BY <2>2 DEF Opened
        <3>2. j # 1
            BY <1>2, <1>9, <2>2, <3>1 DEF At
        <3>3. j - 1 \in DOMAIN fromC' /\ fromC'[j - 1] = fromC[j]
            BY <1>3, <3>1, <3>2 DEF At
        <3> QED BY <3>1, <3>3 DEF Opened, At
    <2>3. t <= hi => t <= hi'
        BY <1>4, <1>8, <2>1
    <2> QED BY <2>1, <2>2, <2>3 DEF Arriving
<1>12. LateOnly'
    <2>1. \A i \in DOMAIN fromC' : i + 1 \in DOMAIN fromC /\ fromC'[i] = fromC[i + 1]
        BY <1>3
    <2> QED BY <1>1, <2>1 DEF LateOnly, SInv, Coming, clientVars, drainVars
<1>13. ASSUME NEW t \in Streams PROVE Waits(t)'
    <2>1. events' = events /\ Waits(t) /\ TableTyped /\ Told(t)
        BY <1>1, TableIsTyped, Zenon DEF SInv, CInv, Fine
    <2>2. CASE f.k = "HEADERS" /\ RecvRequest(f.s, f.end)
        <3>1. Lookup(f.s) # "closed"
            BY <1>4, <1>5, <2>2 DEF Lookup
        <3>2. CASE WriteRst(f.s) /\ UNCHANGED resp
            <4>1. st[f.s] = "none"
                <5>1. ~(f.s <= hi)
                    BY <1>4, <1>5, <2>2
                <5> QED BY <1>4, <5>1, Zenon DEF CInv, Ascending, Live
            <4>2. st'[t] = st[t]
                BY <1>4, <2>1, <3>2, <4>1 DEF WriteRst, Retire, TableTyped
            <4> QED BY <2>1, <3>2, <4>2, WaitsStays
        <3>3. CASE Admit(f.s, f.end)
            <4>1. t # f.s => st'[t] = st[t] /\ resp'[t] = resp[t]
                BY <2>1, <3>3 DEF Admit, CInv, TypeOK
            <4>2. st'[f.s] # "none"
                BY <1>4, <2>1, <3>3 DEF Admit, TableTyped
            <4> QED BY <2>1, <4>1, <4>2, WaitsStays DEF Waits
        <3> QED BY <2>2, <3>1, <3>2, <3>3, Zenon DEF RecvRequest
    <2>3. CASE f.k = "DATA" /\ RecvData(f.s, f.end) /\ UNCHANGED resp
        <3>1. CASE st'[t] = st[t] \/ st'[t] # "none"
            BY <2>1, <2>3, <3>1 DEF Waits
        <3>2. CASE st'[t] = "none" /\ st[t] # "none"
            <4>1. Lookup(f.s) # "idle"
                BY <1>6, <2>3 DEF Lookup
            <4>2. st[t] = "half-closed local"
                <5>1. CASE Lookup(f.s) = "closed"
                    BY <1>4, <2>1, <2>3, <3>2, <5>1 DEF RecvData, WriteRst, Retire, Lookup, TableTyped
                <5>2. CASE Lookup(f.s) = "live"
                    <6>1. Apply(f.s, FALSE, f.end, FALSE, queue[f.s])
                        BY <2>3, <5>2, Zenon DEF RecvData
                    <6>2. CASE Closes(f.s, FALSE, f.end)
                        BY <1>4, <2>1, <3>2, <6>1, <6>2 DEF Apply, Retire, Closes, TableTyped
                    <6>3. CASE ~Closes(f.s, FALSE, f.end)
                        BY <1>4, <2>1, <3>2, <6>1, <6>3 DEF Apply, Half, TableTyped
                    <6> QED BY <6>2, <6>3
                <5> QED BY <4>1, <5>1, <5>2 DEF Lookup
            <4>3. resp[t] = "over" /\ Quiet(events, t)
                BY <2>1, <4>2, Zenon DEF Told
            <4>4. ~Vanishes(events, t)
                BY <4>3 DEF Quiet, Vanishes
            <4> QED BY <2>1, <2>3, <4>3, <4>4 DEF Waits
        <3> QED BY <3>1, <3>2
    <2>4. CASE f.k = "RST" /\ RecvRst(f.s) /\ UNCHANGED resp
        <3>1. CASE t = f.s
            BY <1>6, <2>1, <2>4, <3>1 DEF Waits
        <3>2. CASE t # f.s
            <4>1. st'[t] = st[t]
                BY <2>1, <2>4, <3>2 DEF RecvRst, FailConn, Ignore, Retire, tableVars, TableTyped, Lookup
            <4> QED BY <2>1, <2>4, <4>1, WaitsStays
        <3> QED BY <3>1, <3>2
    <2> QED BY <1>1, <2>2, <2>3, <2>4
<1> QED BY <1>7, <1>10, <1>11, <1>12, <1>13 DEF SInv, Coming, ConnectionSurvives

\* What has been sent waits for nothing.
LEMMA WaitsNot ==
    ASSUME NEW s \in Streams, resp'[s] # "asked", ~Begins(events', s)
    PROVE  Waits(s)'
BY VanishBegins DEF Waits

\* Nothing about the requests that are still to come.
LEMMA ComingAside ==
    ASSUME SInv, UNCHANGED <<clientVars, fromC, drainVars, conn, hi>>
    PROVE  Coming'
<1>1. LateOnly'
    BY DEF SInv, Coming, LateOnly, clientVars, drainVars
<1> QED BY <1>1, ComingStays DEF SInv, clientVars

\* An event.
LEMMA EventSpares == ASSUME CInv, SInv, TakeEvent PROVE SInv'
<1> DEFINE e == Head(events)
<1>1. /\ events # <<>> /\ events' = Tail(events)
      /\ UNCHANGED <<clientVars, fromC, drainVars, resp>>
      /\ \/ e.k = "Head" /\ TakeHead(e.s, e.end)
         \/ e.k = "Data" /\ TakeData(e.s, e.end)
         \/ e.k = "Trailers" /\ TakeTrailers(e.s)
         \/ e.k = "reset" /\ TakeReset(e.s)
         \/ e.k \in {"Gone", "Shed"} /\ Answer(e.s, e.k)
    BY DEF TakeEvent
<1>2. Shorter(events, events') /\ e \in Event /\ e = Head(events)
    BY <1>1, Taken DEF CInv, Channels
<1> HIDE DEF e
<1> DEFINE s == e.s
<1>3. s \in Streams
    BY <1>2 DEF Event
<1>4. ~Begins(events', s) /\ resp[s] \in {"head", "over"}
    BY <1>2, <1>3, EventMeans
<1>5. e.k \in {"Gone", "Shed"} => s \in Live
    <2>1. e.k \in {"Gone", "Shed"} => Vanishes(events, s)
        BY <1>2, VanishTaken
    <2> QED BY <1>3, <2>1 DEF SInv, Waits, Live
<1>6. TableTyped
    BY TableIsTyped
<1>7. UNCHANGED <<conn, hi>> /\ \A t \in Streams \ {s} : st'[t] = st[t]
    <2>1. CASE e.k = "Head" /\ TakeHead(s, e.end)
        BY <1>3, <1>6, <2>1 DEF TakeHead, SendResponse, Apply, Retire, Ignore, tableVars, TableTyped
    <2>2. CASE e.k = "Data" /\ TakeData(s, e.end)
        BY <2>2 DEF TakeData
    <2>3. CASE e.k = "Trailers" /\ TakeTrailers(s)
        BY <1>3, <1>6, <2>3 DEF TakeTrailers, SendTrailers, Apply, Retire, Ignore, tableVars, TableTyped
    <2>4. CASE e.k = "reset" /\ TakeReset(s)
        BY <1>3, <1>6, <2>4 DEF TakeReset, WriteRst, Retire, Ignore, tableVars, TableTyped
    <2>5. CASE e.k \in {"Gone", "Shed"} /\ Answer(s, e.k)
        BY <1>3, <1>5, <1>6, <2>5 DEF Answer, SendResponse, WriteRst, Apply, Retire, TableTyped
    <2> QED BY <1>1, <2>1, <2>2, <2>3, <2>4, <2>5
<1>8. ASSUME NEW t \in Streams PROVE Waits(t)'
    <2>1. CASE t = s
        BY <1>1, <1>4, <2>1, WaitsNot
    <2>2. CASE t # s
        BY <1>1, <1>2, <1>7, <2>2, WaitsStays, VanishTaken DEF SInv
    <2> QED BY <2>1, <2>2
<1>9. Coming'
    BY <1>1, <1>7, ComingAside
<1> QED BY <1>7, <1>8, <1>9 DEF SInv, ConnectionSurvives

LEMMA VisitSpares == ASSUME CInv, SInv, NEW s \in Streams, Visit(s) PROVE SInv'
<1>1. /\ queue[s] # Nothing
      /\ Apply(s, TRUE, queue[s].end, FALSE, Nothing)
      /\ UNCHANGED <<clientVars, fromC, drainVars, resp, events>>
    BY Zenon DEF Visit, Written
<1>2. Told(s) /\ TableTyped
    BY TableIsTyped, Zenon DEF CInv, Fine
<1>3. resp[s] \in {"head", "over"} /\ ~Begins(events, s)
    BY <1>1, <1>2, Zenon DEF Told
<1>4. UNCHANGED <<conn, hi>> /\ \A t \in Streams \ {s} : st'[t] = st[t]
    BY <1>1, <1>2 DEF Apply, Retire, TableTyped
<1>5. ASSUME NEW t \in Streams PROVE Waits(t)'
    <2>1. CASE t = s
        BY <1>1, <1>3, <2>1, WaitsNot
    <2>2. CASE t # s
        BY <1>1, <1>4, <2>2, WaitsStays DEF SInv
    <2> QED BY <2>1, <2>2
<1>6. Coming'
    BY <1>1, <1>4, ComingAside
<1> QED BY <1>4, <1>5, <1>6 DEF SInv, ConnectionSurvives

\* What the responder adds is a Gone or a Shed of a stream that it was asked, and
\* that the client does not reset.
LEMMA SaidSpares ==
    ASSUME CInv, SInv, NEW s \in Streams, resp[s] \in {"asked", "head"},
           NEW now \in {"head", "over"}, resp' = [resp EXCEPT ![s] = now],
           UNCHANGED <<clientVars, fromC, toC, conn, tableVars, drainVars, route>>,
           \A t \in Streams : Vanishes(events', t) =>
                Vanishes(events, t) \/ (t = s /\ resp[s] = "asked" /\ s \notin MayReset)
    PROVE  SInv'
<1>1. resp \in [Streams -> {"none", "asked", "head", "over"}]
    BY Zenon DEF CInv, TypeOK
<1>2. resp'[s] = now /\ \A t \in Streams \ {s} : resp'[t] = resp[t]
    BY <1>1
<1>3. UNCHANGED <<conn, hi, st>>
    BY DEF tableVars
<1>4. ASSUME NEW t \in Streams PROVE Waits(t)'
    BY <1>2, <1>3 DEF SInv, Waits
<1>5. Coming'
    BY <1>3, ComingAside
<1> QED BY <1>3, <1>4, <1>5 DEF SInv, ConnectionSurvives

LEMMA RespondSpares ==
    ASSUME CInv, SInv, Gentle, NEW s \in Streams, RespondHead(s) \/ RespondEnd(s) \/ HearsCancel(s)
    PROVE  SInv'
\* Only Gone and Shed can make it wait.
<1>1. ASSUME NEW es \in Seq(Event), Respond(s, "over", es) \/ Respond(s, "head", es),
             resp[s] \in {"asked", "head"},
             \A i \in DOMAIN es : es[i].k \in {"Gone", "Shed"} =>
                 es[i].s = s /\ resp[s] = "asked" /\ s \notin MayReset
      PROVE  SInv'
    <2>1. PICK now \in {"head", "over"} : Respond(s, now, es)
        BY <1>1
    <2>2. /\ resp' = [resp EXCEPT ![s] = now] /\ events' = events \o es
          /\ UNCHANGED <<clientVars, fromC, toC, conn, tableVars, drainVars, route>>
        BY <2>1, Zenon DEF Respond
    <2>3. \A i \in DOMAIN events' : (i \in DOMAIN events /\ events'[i] = events[i])
                \/ \E j \in DOMAIN es : events'[i] = es[j]
        <3>1. events \in Seq(Event) /\ events' = events \o es
            BY <2>2 DEF CInv, Channels
        <3> DEFINE m == Len(events)
                   l == Len(es)
        <3>2. /\ m \in Nat /\ l \in Nat /\ DOMAIN events = 1..m /\ DOMAIN es = 1..l
              /\ DOMAIN events' = 1..(m + l)
              /\ \A i \in 1..(m + l) : events'[i] = IF i <= m THEN events[i] ELSE es[i - m]
            BY <1>1, <3>1
        <3> HIDE DEF m, l
        <3> SUFFICES ASSUME NEW i \in 1..(m + l), ~(i <= m)
                     PROVE  \E j \in DOMAIN es : events'[i] = es[j]
            BY <3>2
        <3>3. i - m \in 1..l
            BY <3>2
        <3> QED BY <3>2, <3>3
    <2>4. \A t \in Streams : Vanishes(events', t) =>
                Vanishes(events, t) \/ (t = s /\ resp[s] = "asked" /\ s \notin MayReset)
        BY <1>1, <2>3 DEF Vanishes, At
    <2> QED BY <1>1, <2>2, <2>4, SaidSpares
<1>2. \A how : how \in Endings[s] /\ how \in {"Gone", "Shed"} => s \notin MayReset
    BY DEF Gentle
<1>3. \A k \in {"Head", "Data"} : \A end \in BOOLEAN : F(k, s, end) \in Event /\ F(k, s, end).k = k
    BY DEF F, Event
<1>4. \A k \in {"Trailers", "reset", "Gone", "Shed"} :
            F(k, s, TRUE) \in Event /\ F(k, s, TRUE).k = k /\ F(k, s, TRUE).s = s
    BY DEF F, Event
<1>5. CASE RespondHead(s)
    <2>1. PICK end \in BOOLEAN :
                resp[s] = "asked" /\ Respond(s, IF end THEN "over" ELSE "head", <<F("Head", s, end)>>)
        BY <1>5, Zenon DEF RespondHead
    <2> DEFINE b == F("Head", s, end)
    <2>2. b \in Event /\ b.k = "Head"
        BY <1>3
    <2>3. Respond(s, "over", <<b>>) \/ Respond(s, "head", <<b>>)
        BY <2>1, Zenon
    <2> HIDE DEF b
    <2>4. <<b>> \in Seq(Event) /\ \A i \in DOMAIN <<b>> : <<b>>[i] = b
        BY <2>2
    <2> QED BY <1>1, <2>1, <2>2, <2>3, <2>4
<1>6. CASE HearsCancel(s)
    <2>1. resp[s] \in {"asked", "head"} /\ Respond(s, "over", <<>>)
        BY <1>6, Zenon DEF HearsCancel
    <2>2. <<>> \in Seq(Event) /\ DOMAIN <<>> = {}
        OBVIOUS
    <2> QED BY <1>1, <2>1, <2>2
<1>7. CASE RespondEnd(s)
    <2> DEFINE data == F("Data", s, FALSE)
               done == F("Data", s, TRUE)
               trailers == F("Trailers", s, TRUE)
    <2>1. PICK how \in Endings[s] :
            \/ how = "end" /\ resp[s] = "head" /\ Respond(s, "over", <<done>>)
            \/ how = "end" /\ resp[s] = "head" /\ Respond(s, "over", <<data, done>>)
            \/ how = "trailers" /\ resp[s] = "head"
                /\ \E body \in {<<>>, <<data>>} : Respond(s, "over", Append(body, trailers))
            \/ how = "reset" /\ resp[s] \in {"asked", "head"} /\ Respond(s, "over", <<F(how, s, TRUE)>>)
            \/ how \in {"Gone", "Shed"} /\ resp[s] = "asked" /\ Respond(s, "over", <<F(how, s, TRUE)>>)
        BY <1>7, Zenon DEF RespondEnd
    <2> DEFINE other == F(how, s, TRUE)
    <2>2. /\ data \in Event /\ data.k = "Data"
          /\ done \in Event /\ done.k = "Data"
          /\ trailers \in Event /\ trailers.k = "Trailers"
          /\ how \in {"reset", "Gone", "Shed"} => other \in Event /\ other.k = how /\ other.s = s
        BY DEF F, Event
    <2> HIDE DEF data, done, trailers, other
    <2>3. CASE how = "end" /\ resp[s] = "head" /\ Respond(s, "over", <<done>>)
        <3>1. <<done>> \in Seq(Event) /\ \A i \in DOMAIN <<done>> : <<done>>[i].k = "Data"
            BY <2>2
        <3> QED BY <1>1, <2>3, <3>1
    <2>4. CASE how = "end" /\ resp[s] = "head" /\ Respond(s, "over", <<data, done>>)
        <3>1. <<data, done>> \in Seq(Event) /\ \A i \in DOMAIN <<data, done>> : <<data, done>>[i].k = "Data"
            BY <2>2
        <3> QED BY <1>1, <2>4, <3>1
    <2>5. CASE how = "trailers" /\ resp[s] = "head"
                /\ \E body \in {<<>>, <<data>>} : Respond(s, "over", Append(body, trailers))
        <3>1. Append(<<>>, trailers) = <<trailers>> /\ Append(<<data>>, trailers) = <<data, trailers>>
            BY Pairs, Zenon
        <3>2. Respond(s, "over", <<trailers>>) \/ Respond(s, "over", <<data, trailers>>)
            BY <2>5, <3>1, Zenon
        <3>3. /\ <<trailers>> \in Seq(Event)
              /\ \A i \in DOMAIN <<trailers>> : <<trailers>>[i].k = "Trailers"
            BY <2>2
        <3>4. /\ <<data, trailers>> \in Seq(Event)
              /\ \A i \in DOMAIN <<data, trailers>> : <<data, trailers>>[i].k \in {"Data", "Trailers"}
            BY <2>2
        <3>5. CASE Respond(s, "over", <<trailers>>)
            BY <1>1, <2>5, <3>3, <3>5
        <3>6. CASE Respond(s, "over", <<data, trailers>>)
            BY <1>1, <2>5, <3>4, <3>6
        <3> QED BY <3>2, <3>5, <3>6
    <2>6. CASE /\ how \in {"reset", "Gone", "Shed"} /\ resp[s] \in {"asked", "head"}
               /\ how \in {"Gone", "Shed"} => resp[s] = "asked"
               /\ Respond(s, "over", <<other>>)
        <3>1. <<other>> \in Seq(Event) /\ \A i \in DOMAIN <<other>> : <<other>>[i] = other
            BY <2>2, <2>6
        <3> QED BY <1>1, <1>2, <2>2, <2>6, <3>1
    <2> QED BY <2>1, <2>3, <2>4, <2>5, <2>6 DEF other
<1> QED BY <1>5, <1>6, <1>7

LEMMA SparesStill == ASSUME SInv, UNCHANGED vars PROVE SInv'
<1>1. Coming'
    BY ComingAside DEF vars, tableVars
<1>2. ASSUME NEW s \in Streams PROVE Waits(s)'
    BY WaitsStays DEF SInv, vars, tableVars
<1> QED BY <1>1, <1>2 DEF SInv, ConnectionSurvives, vars

\* Then nothing that happens to one stream takes the connection down
\* (handle_service_event: "always a silent drop, never an error").
THEOREM StreamsSpareTheConnection == ASSUME Gentle PROVE Spec => []ConnectionSurvives
<1>1. Init => SInv
    <2> SUFFICES ASSUME Init PROVE SInv
        OBVIOUS
    <2>1. Coming
        <3>1. \A s \in Streams : ~(s < cNext)
            BY DEF Init, Streams
        <3> QED BY <3>1 DEF Init, Coming, Follows, LateOnly, Arriving
    <2>2. \A s \in Streams : Waits(s)
        BY DEF Init, Waits, Vanishes, At
    <2> QED BY <2>1, <2>2 DEF SInv, Init, ConnectionSurvives
<1>2. CInv /\ SInv /\ [Next]_vars => SInv'
    <2> SUFFICES ASSUME CInv, SInv, [Next]_vars PROVE SInv'
        OBVIOUS
    <2>1. CASE ClientOpen
        BY <2>1, OpenSpares
    <2>2. CASE ClientTake \/ BeginDrain \/ Commit \/ DrainFinished \/ DrainDeadline
        BY <2>2, AsideSpares
    <2>3. CASE TakeFrame
        BY <2>3, FrameSpares
    <2>4. CASE TakeEvent
        BY <2>4, EventSpares
    <2>5. ASSUME NEW s \in Streams,
                 \/ ClientBody(s) \/ ClientReset(s) \/ Visit(s)
                 \/ RespondHead(s) \/ RespondEnd(s) \/ HearsCancel(s)
          PROVE  SInv'
        BY <2>5, SendSpares, VisitSpares, RespondSpares
    <2>6. CASE UNCHANGED vars
        BY <2>6, SparesStill
    <2> QED BY <2>1, <2>2, <2>3, <2>4, <2>5, <2>6, Zenon DEF Next
<1>3. SInv => ConnectionSurvives
    BY DEF SInv
<1> QED BY <1>1, <1>2, <1>3, ClientInvariant, PTL DEF Spec

============================================================================
