----------------------------- MODULE BridgeProofs -----------------------------
(***************************************************************************)
(* For any number of streams and clients, every window and every order in  *)
(* which the backend, the upstream task, the client tasks and the clients  *)
(* act, disconnections included: the connection window is a CreditLoop,    *)
(* stream credit is conserved, what a route withholds is what is buffered, *)
(* and END_STREAM never arrives before the last octet.                     *)
(***************************************************************************)
EXTENDS Bridge, TLAPS

\* What is proved of the abstract loop, said of the connection window.
LoopProofs == INSTANCE CreditLoopProofs WITH
                  Initial <- ConnWindow,
                  Granted <- DefaultWindow,
                  credit  <- bConn,
                  flight  <- Total(flight),
                  recv    <- uConn,
                  held    <- Total(pend),
                  update  <- wuConn

BackendTypes ==
    /\ bConn \in Nat /\ bStr \in [Streams -> Nat] /\ bLeft \in [Streams -> Nat]
    /\ flight \in [Streams -> Nat] /\ fin \in [Streams -> Fin]

WireTypes == wuConn \in Nat /\ wuStr \in [Streams -> Nat] /\ rstUp \subseteq Streams

UpTypes ==
    /\ uConn \in RecvWindow /\ uStr \in [Streams -> RecvWindow]
    /\ route \subseteq Streams /\ pend \in [Streams -> Nat] /\ fault \in BOOLEAN

ChannelTypes ==
    /\ ev \in [Streams -> Nat] /\ evEnd \in [Streams -> {"open", "end", "reset"}]
    /\ rel \in [Streams -> Nat] /\ cancel \subseteq Streams

ClientTypes ==
    /\ alive \subseteq Clients /\ cLive \subseteq Streams /\ pRoute \subseteq Streams
    /\ queue \in [Streams -> Nat] /\ qEnd \in [Streams -> BOOLEAN]
    /\ cConn \in [Clients -> Nat] /\ cStr \in [Streams -> Nat]
    /\ owed \in [Streams -> Nat] /\ outcome \in [Streams -> Outcome]

\* The stream's own loop of credit, with less than half of it kept back.
StreamBooks ==
    \A s \in route :
        /\ bStr[s] + flight[s] + wuStr[s] = uStr[s].window
        /\ uStr[s].window + pend[s] + uStr[s].unreleased = StreamWindow
        /\ 2 * uStr[s].unreleased < StreamWindow

\* No more is released for a stream than its route withholds, and all of it
\* will be while the client task knows the request.
HeldWhere ==
    /\ cLive = pRoute
    /\ \A s \in pRoute : Owner[s] \in alive
    /\ \A s \in route : rel[s] <= pend[s]
                        /\ (s \in pRoute => pend[s] = ev[s] + queue[s] + rel[s])

\* The backend has sent all of a stream, and the upstream task has read it.
Sent(s) == s \notin route /\ fin[s] = "done" /\ bLeft[s] = 0 /\ flight[s] = 0

\* How far an END_STREAM has come, and what cannot be behind it any more.
Ends ==
    \A s \in Streams :
        /\ fin[s] = "end" => bLeft[s] = 0
        /\ evEnd[s] = "end" => Sent(s)
        /\ qEnd[s] => Sent(s) /\ ev[s] = 0
        /\ outcome[s] = "whole" => Sent(s) /\ ev[s] = 0 /\ queue[s] = 0

\* The inductive invariant.
Local ==
    /\ BackendTypes /\ WireTypes /\ UpTypes /\ ChannelTypes /\ ClientTypes
    /\ fault = FALSE /\ StreamBooks /\ HeldWhere /\ Ends

BInv == Local /\ LoopProofs!IInv

-----------------------------------------------------------------------------
(* The connection window: every step is a step of CreditLoop. *)

LEMMA Sizes ==
    /\ IsFiniteSet(Streams) /\ Owner \in [Streams -> Clients] /\ Body \in [Streams -> Nat]
    /\ MaxWindow \in Nat \ {0} /\ ConnWindow \in 1..MaxWindow /\ ConnWindow \in Nat \ {0}
    /\ DefaultWindow \in 0..ConnWindow /\ StreamWindow \in Nat \ {0}
    /\ ClientConn \in Nat /\ ClientStream \in Nat /\ SendBudget \in Nat
BY BridgeAssumption, MaxWindowAssumption

LEMMA LoopSizes ==
    MaxWindow \in Nat \ {0} /\ ConnWindow \in 1..MaxWindow /\ DefaultWindow \in 0..ConnWindow
BY Sizes

\* The operators of FlowControl are the same seen through the instance.
LEMMA SameOperators ==
    /\ \A S : IsFiniteSet(S) => LoopProofs!IsFiniteSet(S)
    /\ \A f : Total(f) = LoopProofs!Total(f)
    /\ \A r, n : Record(r, n) = LoopProofs!Record(r, n)
    /\ \A r, n, i : Release(r, n, i) = LoopProofs!Release(r, n, i)
    /\ \A r, n, i : Increment(r, n, i) = LoopProofs!Increment(r, n, i)
    /\ \A i : NewRecvWindow(i) = LoopProofs!NewRecvWindow(i)
    /\ RecvWindow = LoopProofs!RecvWindow
<1>1. \A S : IsFiniteSet(S) => LoopProofs!IsFiniteSet(S)
    BY Zenon DEF IsFiniteSet, LoopProofs!IsFiniteSet
<1>2. \A S : Cardinality(S) = LoopProofs!Cardinality(S)
    BY Zenon DEF Cardinality, LoopProofs!Cardinality
<1>3. \A f : Total(f) = LoopProofs!Total(f)
    BY <1>2 DEF Total, LoopProofs!Total
<1>4. /\ \A r, n : Record(r, n) = LoopProofs!Record(r, n)
      /\ \A i : NewRecvWindow(i) = LoopProofs!NewRecvWindow(i)
      /\ RecvWindow = LoopProofs!RecvWindow
    BY DEF Record, LoopProofs!Record, NewRecvWindow, LoopProofs!NewRecvWindow,
           RecvWindow, LoopProofs!RecvWindow
<1>5. \A r, n, i : Due(r, n, i) = LoopProofs!Due(r, n, i)
    BY Zenon DEF Due, LoopProofs!Due
<1>6. /\ \A r, n, i : Release(r, n, i) = LoopProofs!Release(r, n, i)
      /\ \A r, n, i : Increment(r, n, i) = LoopProofs!Increment(r, n, i)
    BY <1>5, Zenon DEF Release, LoopProofs!Release, Increment, LoopProofs!Increment
<1> QED BY <1>1, <1>3, <1>4, <1>6

\* What giving one stream another number of octets does to their total, and
\* what fewer and more of them do.
LEMMA TotalMoves ==
    ASSUME NEW f \in [Streams -> Nat], NEW s \in Streams, NEW n \in Nat
    PROVE  /\ Total(f) \in Nat /\ f[s] <= Total(f)
           /\ Total([f EXCEPT ![s] = n]) = Total(f) - f[s] + n
<1>1. LoopProofs!IsFiniteSet(Streams)
    BY Sizes, SameOperators
<1>2. /\ LoopProofs!Total(f) \in Nat /\ f[s] <= LoopProofs!Total(f)
      /\ LoopProofs!Total([f EXCEPT ![s] = n]) = LoopProofs!Total(f) - f[s] + n
    BY <1>1, LoopSizes, LoopProofs!TotalExcept
<1> QED BY <1>2, SameOperators

LEMMA TotalLess ==
    ASSUME NEW f \in [Streams -> Nat], NEW s \in Streams, NEW n \in 1..f[s]
    PROVE  Total([f EXCEPT ![s] = f[s] - n]) = Total(f) - n /\ n \in 1..Total(f)
<1> DEFINE k == f[s] - n
<1>1. k \in Nat /\ f[s] \in Nat
    OBVIOUS
<1> HIDE DEF k
<1>2. /\ Total([f EXCEPT ![s] = k]) = Total(f) - f[s] + k
      /\ Total(f) \in Nat /\ f[s] <= Total(f)
    BY <1>1, TotalMoves
<1> QED BY <1>1, <1>2 DEF k

LEMMA TotalMore ==
    ASSUME NEW f \in [Streams -> Nat], NEW s \in Streams, NEW n \in Nat
    PROVE  Total([f EXCEPT ![s] = f[s] + n]) = Total(f) + n /\ Total(f) \in Nat
<1> DEFINE k == f[s] + n
<1>1. k \in Nat /\ f[s] \in Nat
    OBVIOUS
<1> HIDE DEF k
<1>2. Total([f EXCEPT ![s] = k]) = Total(f) - f[s] + k /\ Total(f) \in Nat
    BY <1>1, TotalMoves
<1> QED BY <1>1, <1>2 DEF k

LEMMA StreamReleases ==
    ASSUME NEW r \in RecvWindow, NEW n \in Nat, NEW size \in Nat \ {0}, 2 * r.unreleased < size
    PROVE  /\ Release(r, n, size) \in RecvWindow /\ Increment(r, n, size) \in Nat
           /\ Release(r, n, size).window = r.window + Increment(r, n, size)
           /\ Release(r, n, size).window + Release(r, n, size).unreleased
                  = r.window + r.unreleased + n
           /\ 2 * Release(r, n, size).unreleased < size
BY LoopSizes, SameOperators, LoopProofs!ReleaseEffect

\* The loop's invariant is one for the octets of all streams.
LEMMA LoopIs ==
    LoopProofs!IInv <=>
        /\ bConn \in Nat /\ Total(flight) \in Nat /\ uConn \in RecvWindow
        /\ Total(pend) \in Nat /\ wuConn \in Nat
        /\ bConn + Total(flight) + wuConn = uConn.window
        /\ uConn.window + Total(pend) + uConn.unreleased = ConnWindow
        /\ 2 * uConn.unreleased < ConnWindow
BY SameOperators DEF LoopProofs!IInv, LoopProofs!TypeOK, LoopProofs!Conservation, LoopProofs!BelowHalf

\* Octets are decoded, and some of what is held is released with them.
LEMMA LoopArrives ==
    ASSUME BackendTypes, WireTypes, UpTypes, NEW s \in Streams, NEW n \in 1..flight[s],
           NEW m \in Nat, m <= Total(pend) + n, Total(pend)' = Total(pend) + n - m,
           flight' = [flight EXCEPT ![s] = @ - n], ReleaseConn(Record(uConn, n), m),
           UNCHANGED bConn
    PROVE  LoopProofs!Next
<1>1. /\ n \in Nat /\ flight[s] - n \in Nat /\ flight \in [Streams -> Nat] /\ flight[s] \in Nat
      /\ pend \in [Streams -> Nat]
    BY DEF BackendTypes, UpTypes
<1>2. flight' = [flight EXCEPT ![s] = flight[s] - n]
    OBVIOUS
<1>3. Total(flight)' = Total(flight) - n /\ n \in 1..Total(flight)
    <2>1. Total([flight EXCEPT ![s] = flight[s] - n]) = Total(flight) - n /\ n \in 1..Total(flight)
        BY <1>1, TotalLess, Zenon
    <2> QED BY <1>2, <2>1
<1>4. Total(pend) \in Nat
    BY <1>1, TotalMoves
<1>5. m \in 0..(Total(pend) + n)
    BY <1>1, <1>4
<1>6. LoopProofs!Arrive(n, m)
    <2>1. CASE m = 0
        BY <1>3, <1>5, <2>1, SameOperators DEF ReleaseConn, LoopProofs!Arrive, WireTypes
    <2>2. CASE m # 0
        BY <1>3, <1>5, <2>2, SameOperators DEF ReleaseConn, LoopProofs!Arrive, LoopProofs!ReleaseFrom
    <2> QED BY <2>1, <2>2
<1> QED BY <1>3, <1>5, <1>6 DEF LoopProofs!Next

\* What a route withheld is released, or there was nothing.
LEMMA LoopHands ==
    ASSUME NEW m \in Nat, m <= Total(pend), Total(pend) \in Nat, uConn \in RecvWindow, wuConn \in Nat,
           Total(pend)' = Total(pend) - m, ReleaseConn(uConn, m), UNCHANGED <<bConn, flight>>
    PROVE  [LoopProofs!Next]_(LoopProofs!vars)
<1>1. CASE m = 0
    BY <1>1 DEF ReleaseConn, LoopProofs!vars
<1>2. CASE m # 0
    <2>1. m \in 1..Total(pend)
        BY <1>2
    <2>2. LoopProofs!Hand(m)
        BY <1>2, <2>1, SameOperators DEF ReleaseConn, LoopProofs!Hand, LoopProofs!ReleaseFrom
    <2> QED BY <2>1, <2>2 DEF LoopProofs!Next
<1> QED BY <1>1, <1>2

\* The books leave room for whatever is on the wire, at both levels.
LEMMA RecvDataIs ==
    ASSUME BInv, NEW s \in Streams, NEW n \in Nat, NEW end \in BOOLEAN, RecvData(s, n, end)
    PROVE  /\ n <= flight[s] /\ (n > 0 \/ end)
           /\ fault' = FALSE /\ UNCHANGED rstUp
           /\ \/ s \notin route /\ DropData(s, n)
              \/ s \in route /\ ForwardData(s, n, end)
<1>1. /\ flight \in [Streams -> Nat] /\ bConn \in Nat /\ wuConn \in Nat
      /\ bStr \in [Streams -> Nat] /\ wuStr \in [Streams -> Nat]
    BY DEF BInv, Local, BackendTypes, WireTypes
<1>2. n <= flight[s] /\ (n > 0 \/ end) /\ flight[s] \in Nat
    BY <1>1 DEF RecvData
<1>3. flight[s] <= Total(flight) /\ Total(flight) \in Nat
    BY <1>1, TotalMoves
<1>4. uConn.window = bConn + Total(flight) + wuConn
    BY LoopIs DEF BInv, Local
<1>5. CanConsume(uConn.window, n)
    BY <1>1, <1>2, <1>3, <1>4 DEF CanConsume
<1>6. s \in route => CanConsume(uStr[s].window, n)
    BY <1>1, <1>2 DEF BInv, Local, StreamBooks, CanConsume
<1>7. fault = FALSE
    BY DEF BInv, Local
<1>8. CASE s \in route
    <2>1. ForwardData(s, n, end)
        BY <1>5, <1>6, <1>8 DEF RecvData
    <2> QED BY <1>2, <1>7, <1>8, <2>1 DEF ForwardData
<1>9. CASE s \notin route
    <2>1. DropData(s, n)
        BY <1>5, <1>9 DEF RecvData
    <2> QED BY <1>2, <1>7, <1>9, <2>1 DEF DropData
<1> QED BY <1>8, <1>9

\* What all routes withhold moves with what one of them does.
LEMMA HeldMoves ==
    ASSUME BInv, NEW s \in Streams
    PROVE  /\ pend[s] \in Nat /\ pend[s] <= Total(pend) /\ Total(pend) \in Nat
           /\ \A n \in Nat : pend' = [pend EXCEPT ![s] = n] =>
                                 Total(pend)' = Total(pend) - pend[s] + n
<1>1. pend \in [Streams -> Nat]
    BY DEF BInv, Local, UpTypes
<1> QED BY <1>1, TotalMoves

LEMMA ForgetHands ==
    ASSUME BInv, NEW s \in Streams, Forget(s, uConn, pend[s]), UNCHANGED <<bConn, flight>>
    PROVE  [LoopProofs!Next]_(LoopProofs!vars)
<1>1. /\ pend[s] \in Nat /\ pend[s] <= Total(pend) /\ Total(pend) \in Nat
      /\ Total(pend)' = Total(pend) - pend[s] + 0
    BY HeldMoves DEF Forget
<1>2. uConn \in RecvWindow /\ wuConn \in Nat
    BY DEF BInv, Local, UpTypes, WireTypes
<1> DEFINE m == pend[s]
<1>3. m \in Nat /\ m <= Total(pend) /\ Total(pend)' = Total(pend) - m /\ ReleaseConn(uConn, m)
    BY <1>1 DEF Forget
<1> HIDE DEF m
<1> QED BY <1>1, <1>2, <1>3, LoopHands

LEMMA RecvDataLoops ==
    ASSUME BInv, NEW s \in Streams, NEW n \in Nat, NEW end \in BOOLEAN, RecvData(s, n, end)
    PROVE  [LoopProofs!Next]_(LoopProofs!vars)
<1>1. /\ n <= flight[s] /\ (n > 0 \/ end)
      /\ \/ s \notin route /\ DropData(s, n)
         \/ s \in route /\ ForwardData(s, n, end)
    BY RecvDataIs
<1>2. /\ flight' = [flight EXCEPT ![s] = @ - n] /\ UNCHANGED bConn
    BY DEF RecvData
<1>3. /\ BackendTypes /\ WireTypes /\ UpTypes /\ uConn \in RecvWindow /\ wuConn \in Nat
      /\ flight \in [Streams -> Nat] /\ flight[s] \in Nat /\ pend \in [Streams -> Nat]
    BY DEF BInv, Local, UpTypes, WireTypes, BackendTypes
<1>4. pend[s] \in Nat /\ pend[s] <= Total(pend) /\ Total(pend) \in Nat
    BY HeldMoves
<1>5. CASE n = 0
    <2>1. flight' = flight
        BY <1>2, <1>3, <1>5
    <2>2. Record(uConn, n) = uConn
        BY <1>3, <1>5 DEF Record, RecvWindow
    <2>3. CASE s \notin route
        <3>1. ReleaseConn(uConn, n) /\ UNCHANGED pend
            BY <1>1, <2>2, <2>3 DEF DropData
        <3>2. uConn' = uConn /\ wuConn' = wuConn
            BY <1>3, <1>5, <3>1 DEF ReleaseConn
        <3> QED BY <1>2, <2>1, <3>1, <3>2 DEF LoopProofs!vars
    <2>4. CASE s \in route
        <3>1. Forget(s, uConn, pend[s])
            BY <1>1, <1>4, <1>5, <2>2, <2>4 DEF ForwardData
        <3> QED BY <1>2, <2>1, <3>1, ForgetHands
    <2> QED BY <2>3, <2>4
<1>6. CASE n # 0
    <2>1. n \in 1..flight[s]
        BY <1>1, <1>3, <1>6
    <2>2. CASE s \notin route
        <3>1. ReleaseConn(Record(uConn, n), n) /\ UNCHANGED pend
            BY <1>1, <2>2 DEF DropData
        <3>2. n <= Total(pend) + n /\ Total(pend)' = Total(pend) + n - n
            BY <1>4, <3>1
        <3> QED BY <1>2, <1>3, <2>1, <3>1, <3>2, LoopArrives
    <2>3. CASE s \in route /\ end
        <3>1. pend' = [pend EXCEPT ![s] = 0] /\ ReleaseConn(Record(uConn, n), pend[s] + n)
            BY <1>1, <2>3 DEF ForwardData, Forget
        <3>2. Total(pend)' = Total(pend) - pend[s] + 0
            BY <3>1, HeldMoves
        <3> DEFINE m == pend[s] + n
        <3>3. m \in Nat /\ m <= Total(pend) + n /\ Total(pend)' = Total(pend) + n - m
            BY <1>4, <3>2
        <3>4. ReleaseConn(Record(uConn, n), m)
            BY <3>1
        <3> HIDE DEF m
        <3> QED BY <1>2, <1>3, <2>1, <3>3, <3>4, LoopArrives
    <2>4. CASE s \in route /\ ~end
        <3>1. pend' = [pend EXCEPT ![s] = pend[s] + n] /\ ReleaseConn(Record(uConn, n), 0)
            BY <1>1, <2>4 DEF ForwardData, Hold
        <3>2. Total(pend)' = Total(pend) - pend[s] + (pend[s] + n)
            <4>1. pend[s] + n \in Nat
                BY <1>4
            <4> QED BY <3>1, <4>1, HeldMoves
        <3>3. 0 \in Nat /\ 0 <= Total(pend) + n /\ Total(pend)' = Total(pend) + n - 0
            BY <1>4, <3>2
        <3> QED BY <1>2, <1>3, <2>1, <3>1, <3>3, LoopArrives
    <2> QED BY <2>2, <2>3, <2>4
<1> QED BY <1>5, <1>6

LEMMA BackendSendLoops ==
    ASSUME BInv, NEW s \in Streams, NEW n \in Nat, NEW end \in BOOLEAN, BackendSend(s, n, end)
    PROVE  [LoopProofs!Next]_(LoopProofs!vars)
<1>1. /\ bConn' = bConn - n /\ flight' = [flight EXCEPT ![s] = @ + n] /\ n <= bConn
      /\ UNCHANGED <<wuConn, uConn, pend>> /\ bConn \in Nat
      /\ flight \in [Streams -> Nat] /\ flight[s] \in Nat
    BY DEF BackendSend, wireVars, upVars, Lesser, BInv, Local, BackendTypes
<1>2. Total(flight)' = Total(flight) + n /\ Total(flight) \in Nat
    <2>1. Total([flight EXCEPT ![s] = flight[s] + n]) = Total(flight) + n /\ Total(flight) \in Nat
        BY <1>1, TotalMore, Zenon
    <2> QED BY <1>1, <2>1
<1>3. CASE n = 0
    BY <1>1, <1>2, <1>3 DEF LoopProofs!vars
<1>4. CASE n # 0
    <2>1. n \in 1..bConn
        BY <1>1, <1>4
    <2>2. LoopProofs!Send(n)
        BY <1>1, <1>2, <2>1 DEF LoopProofs!Send
    <2> QED BY <2>1, <2>2 DEF LoopProofs!Next
<1> QED BY <1>3, <1>4

LEMMA TakeReleasedLoops ==
    ASSUME BInv, NEW s \in Streams, NEW n \in 1..rel[s], TakeReleased(s, n)
    PROVE  [LoopProofs!Next]_(LoopProofs!vars)
<1>1. UNCHANGED <<bConn, flight>>
    BY DEF TakeReleased, backendVars
<1>2. CASE s \notin route
    BY <1>1, <1>2 DEF TakeReleased, LoopProofs!vars
<1>3. CASE s \in route
    <2>1. /\ pend[s] \in Nat /\ pend[s] <= Total(pend) /\ Total(pend) \in Nat
          /\ uConn \in RecvWindow /\ wuConn \in Nat
        BY HeldMoves DEF BInv, Local, UpTypes, WireTypes
    <2>2. n \in Nat /\ n <= pend[s] /\ pend[s] - n \in Nat
        <3>1. rel[s] \in Nat /\ rel[s] <= pend[s]
            BY <1>3 DEF BInv, Local, HeldWhere, ChannelTypes
        <3> QED BY <2>1, <3>1
    <2>3. pend' = [pend EXCEPT ![s] = pend[s] - n] /\ ReleaseConn(uConn, n)
        BY <1>3, <2>1, <2>2 DEF TakeReleased
    <2>4. Total(pend)' = Total(pend) - pend[s] + (pend[s] - n)
        BY <2>2, <2>3, HeldMoves
    <2>5. n <= Total(pend) /\ Total(pend)' = Total(pend) - n
        BY <2>1, <2>2, <2>4
    <2> QED BY <1>1, <2>1, <2>2, <2>3, <2>5, LoopHands
<1> QED BY <1>2, <1>3

\* Every step of the four processes is one of the abstract loop, or none.
LEMMA StepIsLoops == BInv /\ [Next]_vars => [LoopProofs!Next]_(LoopProofs!vars)
<1> SUFFICES ASSUME BInv, [Next]_vars PROVE [LoopProofs!Next]_(LoopProofs!vars)
    OBVIOUS
<1> USE DEF LoopProofs!vars
<1>1. CASE UNCHANGED <<bConn, flight, uConn, pend, wuConn>>
    BY <1>1
<1>2. CASE BackendCredited
    BY <1>2, SameOperators DEF BackendCredited, upVars, LoopProofs!Next, LoopProofs!Credited
<1>3. ASSUME NEW s \in Streams, NEW n \in Nat, NEW end \in BOOLEAN,
             BackendSend(s, n, end) \/ RecvData(s, n, end)
      PROVE  [LoopProofs!Next]_(LoopProofs!vars)
    BY <1>3, BackendSendLoops, RecvDataLoops
<1>4. ASSUME NEW s \in Streams, RecvReset(s) \/ TakeCancel(s)
      PROVE  [LoopProofs!Next]_(LoopProofs!vars)
    <2>1. UNCHANGED <<bConn, flight>>
        BY <1>4 DEF RecvReset, TakeCancel, backendVars
    <2>2. Forget(s, uConn, pend[s]) \/ UNCHANGED <<uConn, pend, wuConn>>
        BY <1>4 DEF RecvReset, TakeCancel
    <2> QED BY <1>1, <2>1, <2>2, ForgetHands
<1>5. ASSUME NEW s \in Streams, NEW n \in 1..rel[s], TakeReleased(s, n)
      PROVE  [LoopProofs!Next]_(LoopProofs!vars)
    BY <1>5, TakeReleasedLoops
<1>6. ASSUME NEW s \in Streams, NEW n \in Nat, NEW end \in BOOLEAN,
             \/ BackendReset(s) \/ BackendSeesReset(s) \/ BackendStreamCredited(s)
             \/ TakeData(s, n, end) \/ TakeReset(s) \/ ClientReset(s)
             \/ SendData(s, n) \/ ClientCredit(s)
      PROVE  UNCHANGED <<bConn, flight, uConn, pend, wuConn>>
    BY <1>6 DEF BackendReset, BackendSeesReset, BackendStreamCredited, TakeData, TakeReset,
                ClientReset, SendData, Visit, ClientCredit, backendVars, wireVars, upVars
<1>7. ASSUME NEW c \in Clients, HangUp(c) PROVE UNCHANGED <<bConn, flight, uConn, pend, wuConn>>
    BY <1>7 DEF HangUp, backendVars, wireVars, upVars
<1>8. CASE UNCHANGED vars
    BY <1>1, <1>8 DEF vars, backendVars, wireVars, upVars
<1>9. CASE Next
    <2>1. \A s \in Streams : bLeft[s] \in Nat /\ flight[s] \in Nat /\ ev[s] \in Nat /\ queue[s] \in Nat
        BY DEF BInv, Local, BackendTypes, ChannelTypes, ClientTypes
    <2>2. \A k \in Nat : 0..k \subseteq Nat
        OBVIOUS
    <2> QED BY <1>1, <1>2, <1>3, <1>4, <1>5, <1>6, <1>7, <1>9, <2>1, <2>2 DEF Next
<1> QED BY <1>8, <1>9

\* So the loop's invariant, proved once for CreditLoop, is kept.
LEMMA LoopKept == BInv /\ [Next]_vars => LoopProofs!IInv'
<1> SUFFICES ASSUME BInv, [Next]_vars PROVE LoopProofs!IInv'
    OBVIOUS
<1>1. LoopProofs!IInv /\ [LoopProofs!Next]_(LoopProofs!vars)
    BY StepIsLoops DEF BInv, Local
<1>2. LoopProofs!IInv /\ [LoopProofs!Next]_(LoopProofs!vars) => LoopProofs!IInv'
    BY LoopSizes, LoopProofs!NextIInv
<1> QED BY <1>1, <1>2

-----------------------------------------------------------------------------
(* What each step leaves alone. *)

LEMMA TypesUntouched ==
    ASSUME Local
    PROVE  /\ UNCHANGED <<backendVars, flight>> => BackendTypes'
           /\ UNCHANGED wireVars => WireTypes'
           /\ UNCHANGED upVars => UpTypes'
           /\ UNCHANGED <<ev, evEnd, rel, cancel>> => ChannelTypes'
           /\ UNCHANGED clientVars => ClientTypes'
<1>1. UNCHANGED <<backendVars, flight>> => BackendTypes'
    BY DEF Local, BackendTypes, backendVars
<1>2. UNCHANGED wireVars => WireTypes'
    BY DEF Local, WireTypes, wireVars
<1>3. UNCHANGED upVars => UpTypes'
    BY DEF Local, UpTypes, upVars
<1>4. UNCHANGED <<ev, evEnd, rel, cancel>> => ChannelTypes'
    BY DEF Local, ChannelTypes
<1>5. UNCHANGED clientVars => ClientTypes'
    BY DEF Local, ClientTypes, clientVars
<1> QED BY <1>1, <1>2, <1>3, <1>4, <1>5

LEMMA BooksUntouched ==
    ASSUME Local
    PROVE  /\ UNCHANGED <<bStr, flight, wuStr, uStr, pend, route>> => StreamBooks'
           /\ UNCHANGED <<cLive, pRoute, alive, route, rel, pend, ev, queue>> => HeldWhere'
           /\ UNCHANGED <<fin, bLeft, flight, route, evEnd, qEnd, outcome, ev, queue>> => Ends'
<1>1. UNCHANGED <<bStr, flight, wuStr, uStr, pend, route>> => StreamBooks'
    BY DEF Local, StreamBooks
<1>2. UNCHANGED <<cLive, pRoute, alive, route, rel, pend, ev, queue>> => HeldWhere'
    BY DEF Local, HeldWhere
<1>3. UNCHANGED <<fin, bLeft, flight, route, evEnd, qEnd, outcome, ev, queue>> => Ends'
    BY DEF Local, Ends, Sent
<1> QED BY <1>1, <1>2, <1>3

-----------------------------------------------------------------------------
(* The backend. *)

LEMMA BackendCreditedStep == BInv /\ BackendCredited => Local'
<1> SUFFICES ASSUME BInv, BackendCredited PROVE Local'
    OBVIOUS
<1>0. Local
    BY DEF BInv
<1> USE DEF BackendCredited, upVars, clientVars
<1>1. BackendTypes' /\ WireTypes'
    BY <1>0 DEF Local, BackendTypes, WireTypes
<1> QED BY <1>0, <1>1, TypesUntouched, BooksUntouched DEF Local

LEMMA BackendSendStep ==
    ASSUME BInv, NEW s \in Streams, NEW n \in Nat, NEW end \in BOOLEAN, BackendSend(s, n, end)
    PROVE  Local'
<1>0. Local
    BY DEF BInv
<1>1. /\ UNCHANGED <<wireVars, upVars, ev, evEnd, rel, cancel, clientVars>>
      /\ bConn' = bConn - n /\ bStr' = [bStr EXCEPT ![s] = @ - n]
      /\ bLeft' = [bLeft EXCEPT ![s] = @ - n] /\ flight' = [flight EXCEPT ![s] = @ + n]
      /\ fin' = [fin EXCEPT ![s] = IF end THEN "end" ELSE @]
      /\ fin[s] = "open" /\ (end => n = bLeft[s])
    BY DEF BackendSend
<1>2. /\ bConn \in Nat /\ bStr \in [Streams -> Nat] /\ bLeft \in [Streams -> Nat]
      /\ flight \in [Streams -> Nat] /\ fin \in [Streams -> Fin]
    BY <1>0 DEF Local, BackendTypes
<1>3. n <= bConn /\ n <= bStr[s] /\ n <= bLeft[s]
    BY <1>2 DEF BackendSend, Lesser
<1>4. BackendTypes'
    <2>1. bConn' \in Nat /\ bStr' \in [Streams -> Nat] /\ bLeft' \in [Streams -> Nat]
          /\ flight' \in [Streams -> Nat]
        BY <1>1, <1>2, <1>3
    <2>2. fin' \in [Streams -> Fin]
        BY <1>1, <1>2 DEF Fin
    <2> QED BY <2>1, <2>2 DEF BackendTypes
<1>5. StreamBooks'
    <2> SUFFICES ASSUME NEW t \in route
                 PROVE  bStr'[t] + flight'[t] + wuStr[t] = bStr[t] + flight[t] + wuStr[t]
        BY <1>0, <1>1 DEF Local, StreamBooks, wireVars, upVars
    <2>1. t \in Streams /\ wuStr[t] \in Nat
        BY <1>0 DEF Local, UpTypes, WireTypes
    <2>2. CASE t = s
        BY <1>1, <1>2, <2>1, <2>2
    <2>3. CASE t # s
        BY <1>1, <1>2, <2>1, <2>3
    <2> QED BY <2>2, <2>3
<1>6. Ends'
    <2>1. ~Sent(s) /\ fin'[s] \in {"open", "end"} /\ (fin'[s] = "end" => bLeft'[s] = 0)
        BY <1>1, <1>2 DEF Sent
    <2>2. \A t \in Streams : t # s => fin'[t] = fin[t] /\ bLeft'[t] = bLeft[t] /\ flight'[t] = flight[t]
        BY <1>1, <1>2
    <2> QED BY <1>0, <1>1, <2>1, <2>2 DEF Local, Ends, Sent, upVars, clientVars
<1>7. HeldWhere'
    BY <1>0, <1>1, BooksUntouched DEF upVars, clientVars
<1> QED BY <1>0, <1>1, <1>4, <1>5, <1>6, <1>7, TypesUntouched DEF Local, upVars

LEMMA BackendTurnStep ==
    ASSUME BInv, NEW s \in Streams, BackendReset(s) \/ BackendSeesReset(s)
    PROVE  Local'
<1>0. Local
    BY DEF BInv
<1>1. UNCHANGED <<bConn, bStr, bLeft, flight, wuConn, wuStr, upVars, ev, evEnd, rel, cancel, clientVars>>
    BY DEF BackendReset, BackendSeesReset, wireVars
<1>2. /\ fin' \in [Streams -> Fin]
      /\ \A t \in Streams : (fin'[t] = "end" => fin[t] = "end") /\ (fin[t] = "done" => fin'[t] = "done")
    BY <1>0 DEF BackendReset, BackendSeesReset, Local, BackendTypes, Fin
<1>3. rstUp' \subseteq Streams
    BY <1>0 DEF BackendReset, BackendSeesReset, wireVars, Local, WireTypes
<1>4. BackendTypes' /\ WireTypes'
    BY <1>0, <1>1, <1>2, <1>3 DEF Local, BackendTypes, WireTypes
<1>5. Ends'
    BY <1>0, <1>1, <1>2 DEF Local, Ends, Sent, upVars, clientVars
<1>6. StreamBooks' /\ HeldWhere'
    BY <1>0, <1>1, BooksUntouched DEF upVars, clientVars
<1> QED BY <1>0, <1>1, <1>4, <1>5, <1>6, TypesUntouched DEF Local, upVars

LEMMA BackendStreamCreditedStep ==
    ASSUME BInv, NEW s \in Streams, BackendStreamCredited(s)
    PROVE  Local'
<1>0. Local
    BY DEF BInv
<1>1. /\ UNCHANGED <<bConn, bLeft, fin, flight, wuConn, rstUp, upVars, ev, evEnd, rel, cancel, clientVars>>
      /\ bStr' = [bStr EXCEPT ![s] = @ + wuStr[s]] /\ wuStr' = [wuStr EXCEPT ![s] = 0]
    BY DEF BackendStreamCredited
<1>2. bStr \in [Streams -> Nat] /\ wuStr \in [Streams -> Nat] /\ flight \in [Streams -> Nat]
    BY <1>0 DEF Local, BackendTypes, WireTypes
<1>3. BackendTypes' /\ WireTypes'
    <2>1. bStr' \in [Streams -> Nat] /\ wuStr' \in [Streams -> Nat]
        BY <1>1, <1>2
    <2> QED BY <1>0, <1>1, <2>1 DEF Local, BackendTypes, WireTypes
<1>4. StreamBooks'
    <2> SUFFICES ASSUME NEW t \in route
                 PROVE  bStr'[t] + flight[t] + wuStr'[t] = bStr[t] + flight[t] + wuStr[t]
        BY <1>0, <1>1 DEF Local, StreamBooks, upVars
    <2>1. t \in Streams
        BY <1>0 DEF Local, UpTypes
    <2> QED BY <1>1, <1>2, <2>1
<1>5. HeldWhere' /\ Ends'
    BY <1>0, <1>1, BooksUntouched DEF upVars, clientVars
<1> QED BY <1>0, <1>1, <1>3, <1>4, <1>5, TypesUntouched DEF Local, upVars

-----------------------------------------------------------------------------
(* The upstream connection task. *)

LEMMA ReleaseConnTypes ==
    ASSUME BInv, [Next]_vars, UNCHANGED <<wuStr, uStr, fault>>, rstUp' \subseteq Streams,
           route' \subseteq Streams, pend' \in [Streams -> Nat]
    PROVE  WireTypes' /\ UpTypes'
<1>1. wuConn' \in Nat /\ uConn' \in RecvWindow
    <2>1. LoopProofs!IInv'
        BY LoopKept
    <2> QED BY <2>1, SameOperators DEF LoopProofs!IInv, LoopProofs!TypeOK
<1> QED BY <1>1 DEF BInv, Local, WireTypes, UpTypes

\* A route ends early: nothing is said of it any more, but that it has ended.
LEMMA ForgetStep ==
    ASSUME BInv, NEW s \in Streams, Forget(s, uConn, pend[s]), RecvReset(s) \/ TakeCancel(s)
    PROVE  Local'
<1>0. Local
    BY DEF BInv
<1>1. /\ UNCHANGED <<bConn, bStr, bLeft, flight, wuStr, uStr, fault, ev, rel, clientVars>>
      /\ route' = route \ {s} /\ pend' = [pend EXCEPT ![s] = 0]
    BY DEF RecvReset, TakeCancel, backendVars, Forget
<1> DEFINE Later == /\ fin' \in [Streams -> Fin]
                    /\ \A t \in Streams : (fin'[t] = "end" => fin[t] = "end")
                                          /\ (fin[t] = "done" => fin'[t] = "done")
                    /\ evEnd' \in [Streams -> {"open", "end", "reset"}]
                    /\ \A t \in Streams : evEnd'[t] = "end" => evEnd[t] = "end"
<1>2. Later /\ rstUp' \subseteq Streams /\ cancel' \subseteq Streams
    <2>1. /\ fin \in [Streams -> Fin] /\ evEnd \in [Streams -> {"open", "end", "reset"}]
          /\ rstUp \subseteq Streams /\ cancel \subseteq Streams
        BY <1>0 DEF Local, BackendTypes, ChannelTypes, WireTypes
    <2>2. CASE RecvReset(s)
        BY <2>1, <2>2 DEF RecvReset, EmitEnd, Fin
    <2>3. CASE TakeCancel(s)
        BY <2>1, <2>3 DEF TakeCancel, backendVars
    <2> QED BY <2>2, <2>3
<1> HIDE DEF Later
<1>3. [Next]_vars
    BY DEF Next
<1>4. pend' \in [Streams -> Nat] /\ route' \subseteq Streams
    BY <1>0, <1>1 DEF Local, UpTypes
<1>5. WireTypes' /\ UpTypes'
    BY <1>1, <1>2, <1>3, <1>4, ReleaseConnTypes
<1>6. BackendTypes' /\ ChannelTypes'
    BY <1>0, <1>1, <1>2 DEF Local, BackendTypes, ChannelTypes, Later
<1>7. \A t \in route' : t \in route /\ pend'[t] = pend[t]
    BY <1>0, <1>1 DEF Local, UpTypes
<1>8. StreamBooks'
    BY <1>0, <1>1, <1>7 DEF Local, StreamBooks
<1>9. HeldWhere'
    BY <1>0, <1>1, <1>7 DEF Local, HeldWhere, clientVars
<1>10. Ends'
    BY <1>0, <1>1, <1>2, <1>7 DEF Local, Ends, Sent, Later, clientVars
<1> QED BY <1>0, <1>1, <1>5, <1>6, <1>8, <1>9, <1>10, TypesUntouched DEF Local

LEMMA RouteEndsStep ==
    ASSUME BInv, NEW s \in Streams, RecvReset(s) \/ TakeCancel(s)
    PROVE  Local'
<1>0. Local
    BY DEF BInv
<1>1. CASE Forget(s, uConn, pend[s])
    BY <1>1, ForgetStep
<1>2. CASE ~Forget(s, uConn, pend[s])
    <2>1. UNCHANGED <<bConn, bStr, bLeft, flight, wuStr, uStr, fault, ev, rel, clientVars,
                      route, pend, uConn, wuConn, rstUp, evEnd>>
        BY <1>2 DEF RecvReset, TakeCancel, backendVars
    <2>2. /\ fin' \in [Streams -> Fin] /\ cancel' \subseteq Streams
          /\ \A t \in Streams : (fin'[t] = "end" => fin[t] = "end") /\ (fin[t] = "done" => fin'[t] = "done")
        <3>1. fin \in [Streams -> Fin] /\ cancel \subseteq Streams
            BY <1>0 DEF Local, BackendTypes, ChannelTypes
        <3>2. CASE RecvReset(s)
            BY <3>1, <3>2 DEF RecvReset, Fin
        <3>3. CASE TakeCancel(s)
            BY <3>1, <3>3 DEF TakeCancel, backendVars
        <3> QED BY <3>2, <3>3
    <2>3. BackendTypes' /\ ChannelTypes'
        BY <1>0, <2>1, <2>2 DEF Local, BackendTypes, ChannelTypes
    <2>4. Ends'
        BY <1>0, <2>1, <2>2 DEF Local, Ends, Sent, clientVars
    <2>5. WireTypes' /\ UpTypes' /\ ClientTypes'
        BY <1>0, <2>1, TypesUntouched DEF wireVars, upVars
    <2>6. StreamBooks' /\ HeldWhere'
        BY <1>0, <2>1, BooksUntouched DEF clientVars
    <2> QED BY <1>0, <2>1, <2>3, <2>4, <2>5, <2>6 DEF Local
<1> QED BY <1>1, <1>2

LEMMA TakeReleasedStep ==
    ASSUME BInv, NEW s \in Streams, NEW n \in 1..rel[s], TakeReleased(s, n)
    PROVE  Local'
<1>0. Local
    BY DEF BInv
<1>1. /\ UNCHANGED <<backendVars, flight, rstUp, route, fault, ev, evEnd, cancel, clientVars>>
      /\ rel' = [rel EXCEPT ![s] = @ - n]
    BY DEF TakeReleased
<1>2. /\ rel \in [Streams -> Nat] /\ rel[s] \in Nat /\ n \in Nat /\ n <= rel[s] /\ rel[s] - n \in Nat
      /\ pend \in [Streams -> Nat] /\ pend[s] \in Nat /\ ev[s] \in Nat /\ queue[s] \in Nat
    BY <1>0 DEF Local, ChannelTypes, UpTypes, ClientTypes
<1>3. ChannelTypes'
    BY <1>0, <1>1, <1>2 DEF Local, ChannelTypes
<1>4. BackendTypes' /\ ClientTypes' /\ Ends'
    BY <1>0, <1>1, TypesUntouched, BooksUntouched DEF backendVars, clientVars
<1>5. uConn' \in RecvWindow /\ wuConn' \in Nat
    <2>1. [Next]_vars
        BY DEF Next
    <2>2. LoopProofs!IInv'
        BY <2>1, LoopKept
    <2> QED BY <2>2, SameOperators DEF LoopProofs!IInv, LoopProofs!TypeOK
<1>6. CASE s \notin route
    <2>1. UNCHANGED <<pend, uStr, wuStr, uConn, wuConn>>
        BY <1>6 DEF TakeReleased
    <2>2. WireTypes' /\ UpTypes' /\ StreamBooks'
        BY <1>0, <1>1, <2>1, TypesUntouched, BooksUntouched DEF backendVars, wireVars, upVars
    <2>3. HeldWhere'
        BY <1>0, <1>1, <1>2, <1>6, <2>1 DEF Local, HeldWhere, clientVars, UpTypes
    <2> QED BY <1>0, <1>1, <1>3, <1>4, <2>2, <2>3 DEF Local
<1>7. CASE s \in route
    <2> DEFINE inc == Increment(uStr[s], n, StreamWindow)
               r2  == Release(uStr[s], n, StreamWindow)
    <2>1. rel[s] <= pend[s] /\ (s \in pRoute => pend[s] = ev[s] + queue[s] + rel[s])
        BY <1>0, <1>7 DEF Local, HeldWhere
    <2>2. pend' = [pend EXCEPT ![s] = pend[s] - n] /\ pend[s] - n \in Nat
        BY <1>2, <1>7, <2>1 DEF TakeReleased
    <2>3. uStr' = [uStr EXCEPT ![s] = r2] /\ wuStr' = [wuStr EXCEPT ![s] = @ + inc]
        BY <1>7 DEF TakeReleased, ReleaseStream
    <2>4. /\ uStr[s] \in RecvWindow /\ uStr[s].window \in Int /\ uStr[s].unreleased \in Nat
          /\ bStr[s] + flight[s] + wuStr[s] = uStr[s].window
          /\ uStr[s].window + pend[s] + uStr[s].unreleased = StreamWindow
          /\ 2 * uStr[s].unreleased < StreamWindow
        BY <1>0, <1>7 DEF Local, UpTypes, StreamBooks, RecvWindow
    <2>5. /\ r2 \in RecvWindow /\ inc \in Nat /\ r2.window = uStr[s].window + inc
          /\ r2.window + r2.unreleased = uStr[s].window + uStr[s].unreleased + n
          /\ 2 * r2.unreleased < StreamWindow
        <3> DEFINE r == uStr[s]
        <3>1. r \in RecvWindow /\ n \in Nat /\ StreamWindow \in Nat \ {0} /\ 2 * r.unreleased < StreamWindow
            BY <1>2, <2>4, Sizes
        <3> HIDE DEF r
        <3>2. /\ Release(r, n, StreamWindow) \in RecvWindow /\ Increment(r, n, StreamWindow) \in Nat
              /\ Release(r, n, StreamWindow).window = r.window + Increment(r, n, StreamWindow)
              /\ Release(r, n, StreamWindow).window + Release(r, n, StreamWindow).unreleased
                     = r.window + r.unreleased + n
              /\ 2 * Release(r, n, StreamWindow).unreleased < StreamWindow
            BY <3>1, StreamReleases
        <3> QED BY <3>2 DEF r
    <2> HIDE DEF inc, r2
    <2>6. r2.window \in Int /\ r2.unreleased \in Nat
        BY <2>5 DEF RecvWindow
    <2>7. WireTypes' /\ UpTypes'
        <3>1. uStr' \in [Streams -> RecvWindow] /\ wuStr' \in [Streams -> Nat] /\ pend' \in [Streams -> Nat]
            BY <1>0, <1>2, <2>2, <2>3, <2>5 DEF Local, UpTypes, WireTypes
        <3> QED BY <1>0, <1>1, <1>5, <3>1 DEF Local, UpTypes, WireTypes
    <2>8. StreamBooks'
        <3> SUFFICES ASSUME NEW t \in route
                     PROVE  /\ bStr[t] + flight[t] + wuStr'[t] = uStr'[t].window
                            /\ uStr'[t].window + pend'[t] + uStr'[t].unreleased = StreamWindow
                            /\ 2 * uStr'[t].unreleased < StreamWindow
            BY <1>1 DEF StreamBooks, backendVars
        <3>1. t \in Streams
            BY <1>0 DEF Local, UpTypes
        <3>2. CASE t = s
            <4>1. bStr[s] \in Nat /\ flight[s] \in Nat /\ wuStr[s] \in Nat /\ wuStr'[s] = wuStr[s] + inc
                BY <1>0, <2>3 DEF Local, BackendTypes, WireTypes
            <4>2. uStr'[s] = r2 /\ pend'[s] = pend[s] - n
                BY <1>0, <1>2, <2>2, <2>3 DEF Local, UpTypes
            <4> QED BY <1>2, <2>4, <2>5, <2>6, <3>2, <4>1, <4>2, Sizes
        <3>3. CASE t # s
            <4>1. wuStr'[t] = wuStr[t] /\ uStr'[t] = uStr[t] /\ pend'[t] = pend[t]
                BY <1>0, <1>2, <2>2, <2>3, <3>1, <3>3 DEF Local, UpTypes, WireTypes
            <4> QED BY <1>0, <4>1 DEF Local, StreamBooks
        <3> QED BY <3>2, <3>3
    <2>9. HeldWhere'
        <3>1. \A t \in route : t # s => rel'[t] = rel[t] /\ pend'[t] = pend[t]
            BY <1>0, <1>1, <1>2, <2>2 DEF Local, UpTypes
        <3>2. rel'[s] = rel[s] - n /\ pend'[s] = pend[s] - n
            BY <1>1, <1>2, <2>2
        <3>3. rel'[s] <= pend'[s] /\ (s \in pRoute => pend'[s] = ev[s] + queue[s] + rel'[s])
            BY <1>2, <2>1, <3>2
        <3> QED BY <1>0, <1>1, <3>1, <3>3 DEF Local, HeldWhere, clientVars
    <2> QED BY <1>0, <1>1, <1>3, <1>4, <2>7, <2>8, <2>9 DEF Local
<1> QED BY <1>6, <1>7

\* Octets nobody wants: their credit goes back to the connection.
LEMMA DropDataStep ==
    ASSUME BInv, [Next]_vars, NEW s \in Streams, NEW n \in Nat, NEW end \in BOOLEAN,
           RecvData(s, n, end), n <= flight[s], fault' = FALSE, s \notin route, DropData(s, n)
    PROVE  Local'
<1>0. Local
    BY DEF BInv
<1>1. /\ UNCHANGED <<bConn, bStr, bLeft, wuStr, rel, cancel, clientVars, uStr, route, pend, fault,
                     rstUp, ev, evEnd>>
      /\ flight' = [flight EXCEPT ![s] = @ - n] /\ (end => fin[s] = "end")
      /\ fin' = [fin EXCEPT ![s] = IF end THEN "done" ELSE @]
    BY DEF RecvData, DropData
<1>2. flight \in [Streams -> Nat] /\ flight[s] - n \in Nat /\ fin \in [Streams -> Fin]
    BY <1>0 DEF Local, BackendTypes
<1>3. BackendTypes' /\ ChannelTypes'
    <2>1. flight' \in [Streams -> Nat] /\ fin' \in [Streams -> Fin]
        BY <1>1, <1>2 DEF Fin
    <2> QED BY <1>0, <1>1, <2>1 DEF Local, BackendTypes, ChannelTypes
<1>4. WireTypes' /\ UpTypes'
    <2>1. rstUp' \subseteq Streams /\ route' \subseteq Streams /\ pend' \in [Streams -> Nat]
        BY <1>0, <1>1 DEF Local, WireTypes, UpTypes
    <2> QED BY <1>1, <2>1, ReleaseConnTypes
<1>5. StreamBooks'
    <2>1. \A t \in route : flight'[t] = flight[t]
        BY <1>0, <1>1, <1>2 DEF Local, UpTypes
    <2> QED BY <1>0, <1>1, <2>1 DEF Local, StreamBooks
<1>6. HeldWhere'
    BY <1>0, <1>1, BooksUntouched DEF clientVars
<1>7. Ends'
    <2>1. \A t \in Streams : /\ fin'[t] = "end" => fin[t] = "end"
                             /\ fin[t] = "done" => fin'[t] = "done"
                             /\ flight[t] = 0 => flight'[t] = 0
        BY <1>1, <1>2
    <2> QED BY <1>0, <1>1, <2>1 DEF Local, Ends, Sent, clientVars
<1> QED BY <1>0, <1>1, <1>3, <1>4, <1>5, <1>6, <1>7, TypesUntouched DEF Local

\* Octets that are forwarded: held, buffered, and on no wire any more.
LEMMA ForwardDataStep ==
    ASSUME BInv, [Next]_vars, NEW s \in Streams, NEW n \in Nat, NEW end \in BOOLEAN,
           RecvData(s, n, end), n <= flight[s], fault' = FALSE, s \in route, ForwardData(s, n, end)
    PROVE  Local'
<1>0. Local
    BY DEF BInv
<1>1. /\ UNCHANGED <<bConn, bStr, bLeft, wuStr, rel, cancel, clientVars, fault, rstUp>>
      /\ flight' = [flight EXCEPT ![s] = @ - n]
      /\ (end => fin[s] = "end" /\ n = flight[s])
      /\ fin' = [fin EXCEPT ![s] = IF end THEN "done" ELSE @]
      /\ uStr' = [uStr EXCEPT ![s] = Record(@, n)]
      /\ ev' = [ev EXCEPT ![s] = IF Owner[s] \in alive THEN @ + n ELSE @]
    BY DEF RecvData, ForwardData, EmitData
<1>2. /\ end => /\ route' = route \ {s} /\ pend' = [pend EXCEPT ![s] = 0]
                /\ evEnd' = [evEnd EXCEPT ![s] = IF Owner[s] \in alive THEN "end" ELSE @]
      /\ ~end => route' = route /\ pend' = [pend EXCEPT ![s] = @ + n] /\ evEnd' = evEnd
    BY DEF ForwardData, Forget, Hold, EmitEnd
<1>3. /\ flight \in [Streams -> Nat] /\ flight[s] - n \in Nat /\ fin \in [Streams -> Fin]
      /\ uStr \in [Streams -> RecvWindow] /\ ev \in [Streams -> Nat] /\ pend \in [Streams -> Nat]
      /\ evEnd \in [Streams -> {"open", "end", "reset"}] /\ route \subseteq Streams
      /\ bLeft \in [Streams -> Nat] /\ flight[s] \in Nat /\ pend[s] \in Nat /\ ev[s] \in Nat
      /\ rel[s] \in Nat /\ queue[s] \in Nat
    BY <1>0 DEF Local, BackendTypes, UpTypes, ChannelTypes, ClientTypes
<1>4. BackendTypes' /\ ChannelTypes'
    <2>1. flight' \in [Streams -> Nat] /\ fin' \in [Streams -> Fin]
        BY <1>1, <1>3 DEF Fin
    <2>2. ev' \in [Streams -> Nat]
        BY <1>1, <1>3
    <2>3. evEnd' \in [Streams -> {"open", "end", "reset"}]
        BY <1>2, <1>3
    <2> QED BY <1>0, <1>1, <2>1, <2>2, <2>3 DEF Local, BackendTypes, ChannelTypes
<1>5. /\ uStr[s] \in RecvWindow /\ uStr'[s] \in RecvWindow /\ uStr'[s].window = uStr[s].window - n
      /\ uStr'[s].unreleased = uStr[s].unreleased
      /\ uStr[s].window \in Int /\ uStr[s].unreleased \in Nat
    <2>1. uStr[s] \in RecvWindow /\ uStr'[s] = Record(uStr[s], n)
        BY <1>1, <1>3
    <2> QED BY <2>1 DEF Record, RecvWindow
<1>6. pend' \in [Streams -> Nat] /\ route' \subseteq Streams /\ \A t \in route' : t \in route
    BY <1>2, <1>3
<1>7. WireTypes' /\ UpTypes'
    <2>1. wuConn' \in Nat /\ uConn' \in RecvWindow
        <3>1. LoopProofs!IInv'
            BY LoopKept
        <3> QED BY <3>1, SameOperators DEF LoopProofs!IInv, LoopProofs!TypeOK
    <2>2. uStr' \in [Streams -> RecvWindow]
        BY <1>1, <1>3, <1>5
    <2> QED BY <1>0, <1>1, <1>6, <2>1, <2>2 DEF Local, WireTypes, UpTypes
<1>8. \A t \in Streams : t # s => /\ flight'[t] = flight[t] /\ fin'[t] = fin[t] /\ uStr'[t] = uStr[t]
                                  /\ ev'[t] = ev[t] /\ pend'[t] = pend[t] /\ evEnd'[t] = evEnd[t]
                                  /\ (t \in route' <=> t \in route)
    BY <1>1, <1>2, <1>3
<1>9. StreamBooks'
    <2> SUFFICES ASSUME NEW t \in route'
                 PROVE  /\ bStr[t] + flight'[t] + wuStr[t] = uStr'[t].window
                        /\ uStr'[t].window + pend'[t] + uStr'[t].unreleased = StreamWindow
                        /\ 2 * uStr'[t].unreleased < StreamWindow
        BY <1>1 DEF StreamBooks
    <2>1. t \in route /\ t \in Streams
        BY <1>3, <1>6
    <2>2. CASE t = s
        <3>1. /\ bStr[s] + flight[s] + wuStr[s] = uStr[s].window
              /\ uStr[s].window + pend[s] + uStr[s].unreleased = StreamWindow
              /\ 2 * uStr[s].unreleased < StreamWindow
              /\ bStr[s] \in Nat /\ wuStr[s] \in Nat
            BY <1>0 DEF Local, StreamBooks, BackendTypes, WireTypes
        <3>2. ~end /\ pend'[s] = pend[s] + n /\ flight'[s] = flight[s] - n
            BY <1>1, <1>2, <1>3, <2>2
        <3> QED BY <1>3, <1>5, <2>2, <3>1, <3>2, Sizes
    <2>3. CASE t # s
        BY <1>0, <1>8, <2>1, <2>3 DEF Local, StreamBooks
    <2> QED BY <2>2, <2>3
<1>10. HeldWhere'
    <2> SUFFICES ASSUME NEW t \in route'
                 PROVE  rel[t] <= pend'[t] /\ (t \in pRoute => pend'[t] = ev'[t] + queue[t] + rel[t])
        BY <1>0, <1>1 DEF Local, HeldWhere, clientVars
    <2>1. t \in route /\ t \in Streams
        BY <1>3, <1>6
    <2>2. CASE t = s
        <3>1. rel[s] <= pend[s] /\ (s \in pRoute => pend[s] = ev[s] + queue[s] + rel[s])
            BY <1>0 DEF Local, HeldWhere
        <3>2. ~end /\ pend'[s] = pend[s] + n
            BY <1>2, <1>3, <2>2
        <3>3. s \in pRoute => ev'[s] = ev[s] + n
            BY <1>0, <1>1, <1>3 DEF Local, HeldWhere
        <3> QED BY <1>3, <2>2, <3>1, <3>2, <3>3
    <2>3. CASE t # s
        BY <1>0, <1>8, <2>1, <2>3 DEF Local, HeldWhere
    <2> QED BY <2>2, <2>3
<1>11. Ends'
    <2>1. ~Sent(s)
        BY DEF Sent
    <2>2. evEnd[s] # "end" /\ ~qEnd[s] /\ outcome[s] # "whole" /\ (fin[s] = "end" => bLeft[s] = 0)
        BY <1>0, <2>1 DEF Local, Ends
    <2>3. CASE end
        <3>1. s \notin route' /\ fin'[s] = "done" /\ flight'[s] = 0 /\ bLeft[s] = 0
            BY <1>1, <1>2, <1>3, <2>2, <2>3
        <3>2. Sent(s)'
            BY <1>1, <3>1 DEF Sent
        <3> QED BY <1>0, <1>1, <1>8, <2>2, <3>1, <3>2 DEF Local, Ends, Sent, clientVars
    <2>4. CASE ~end
        <3>1. evEnd'[s] = evEnd[s] /\ fin'[s] = fin[s]
            BY <1>1, <1>2, <1>3, <2>4
        <3> QED BY <1>0, <1>1, <1>8, <2>2, <3>1 DEF Local, Ends, Sent, clientVars
    <2> QED BY <2>3, <2>4
<1> QED BY <1>0, <1>1, <1>4, <1>7, <1>9, <1>10, <1>11, TypesUntouched DEF Local

LEMMA RecvDataStep ==
    ASSUME BInv, [Next]_vars, NEW s \in Streams, NEW n \in Nat, NEW end \in BOOLEAN, RecvData(s, n, end)
    PROVE  Local'
<1>1. /\ n <= flight[s] /\ fault' = FALSE
      /\ \/ s \notin route /\ DropData(s, n)
         \/ s \in route /\ ForwardData(s, n, end)
    BY RecvDataIs
<1> QED BY <1>1, DropDataStep, ForwardDataStep

-----------------------------------------------------------------------------
(* The client connection tasks and the clients. *)

\* Steps that leave the backend, its wire and the upstream task alone.
LEMMA ClientSide ==
    ASSUME Local, UNCHANGED <<backendVars, flight, wireVars, upVars>>
    PROVE  BackendTypes' /\ WireTypes' /\ UpTypes' /\ fault' = FALSE /\ StreamBooks'
<1>1. BackendTypes' /\ WireTypes' /\ UpTypes'
    BY TypesUntouched
<1>2. fault' = FALSE /\ StreamBooks'
    BY BooksUntouched DEF Local, backendVars, wireVars, upVars
<1> QED BY <1>1, <1>2

LEMMA TakeDataStep ==
    ASSUME BInv, NEW s \in Streams, NEW n \in Nat, NEW end \in BOOLEAN, TakeData(s, n, end)
    PROVE  Local'
<1>0. Local
    BY DEF BInv
<1>1. /\ UNCHANGED <<backendVars, flight, wireVars, upVars, rel, cancel,
                     alive, cLive, pRoute, cConn, cStr, owed, outcome>>
      /\ n <= ev[s] /\ (end => evEnd[s] = "end" /\ n = ev[s])
      /\ ev' = [ev EXCEPT ![s] = @ - n]
      /\ evEnd' = [evEnd EXCEPT ![s] = IF end THEN "open" ELSE @]
      /\ s \in cLive => /\ queue' = [queue EXCEPT ![s] = @ + n]
                        /\ qEnd' = [qEnd EXCEPT ![s] = @ \/ end]
      /\ s \notin cLive => queue' = queue /\ qEnd' = qEnd
    BY <1>0 DEF TakeData, Local, ChannelTypes
<1>2. /\ ev \in [Streams -> Nat] /\ ev[s] \in Nat /\ ev[s] - n \in Nat /\ queue \in [Streams -> Nat]
      /\ evEnd \in [Streams -> {"open", "end", "reset"}] /\ queue[s] \in Nat /\ rel[s] \in Nat /\ pend[s] \in Nat
    BY <1>0, <1>1 DEF Local, ChannelTypes, ClientTypes, UpTypes
<1>3. ChannelTypes'
    BY <1>0, <1>1, <1>2 DEF Local, ChannelTypes
<1>4. ClientTypes'
    <2>1. queue' \in [Streams -> Nat]
        BY <1>1, <1>2
    <2>2. qEnd' \in [Streams -> BOOLEAN]
        <3>1. qEnd \in [Streams -> BOOLEAN] /\ (qEnd[s] \/ end) \in BOOLEAN
            BY <1>0 DEF Local, ClientTypes
        <3>2. qEnd' = qEnd \/ qEnd' = [qEnd EXCEPT ![s] = qEnd[s] \/ end]
            BY <1>1, Zenon
        <3> QED BY <3>1, <3>2, Zenon
    <2> QED BY <1>0, <1>1, <2>1, <2>2 DEF Local, ClientTypes
<1>5. \A t \in Streams : t # s => ev'[t] = ev[t] /\ evEnd'[t] = evEnd[t] /\ queue'[t] = queue[t]
                                  /\ (qEnd'[t] <=> qEnd[t])
    BY <1>0, <1>1, <1>2 DEF Local, ClientTypes
<1>6. ev'[s] = ev[s] - n /\ queue'[s] \in {queue[s], queue[s] + n}
      /\ (s \in cLive => queue'[s] = queue[s] + n) /\ (qEnd'[s] => qEnd[s] \/ end)
      /\ (evEnd'[s] = "end" => evEnd[s] = "end")
    BY <1>0, <1>1, <1>2 DEF Local, ClientTypes
<1>7. HeldWhere'
    <2> SUFFICES ASSUME NEW t \in route, t \in pRoute
                 PROVE  pend[t] = ev'[t] + queue'[t] + rel[t]
        BY <1>0, <1>1 DEF Local, HeldWhere, upVars
    <2>1. pend[t] = ev[t] + queue[t] + rel[t] /\ t \in Streams /\ t \in cLive
        BY <1>0 DEF Local, HeldWhere, UpTypes
    <2>2. CASE t = s
        BY <1>2, <1>6, <2>1, <2>2
    <2>3. CASE t # s
        BY <1>5, <2>1, <2>3
    <2> QED BY <2>2, <2>3
<1>8. Ends'
    <2> SUFFICES ASSUME NEW t \in Streams
                 PROVE  /\ evEnd'[t] = "end" => Sent(t)
                        /\ qEnd'[t] => Sent(t) /\ ev'[t] = 0
                        /\ outcome[t] = "whole" => Sent(t) /\ ev'[t] = 0 /\ queue'[t] = 0
        BY <1>0, <1>1 DEF Local, Ends, Sent, backendVars, upVars
    <2>1. /\ evEnd[t] = "end" => Sent(t)
          /\ qEnd[t] => Sent(t) /\ ev[t] = 0
          /\ outcome[t] = "whole" => Sent(t) /\ ev[t] = 0 /\ queue[t] = 0
        BY <1>0 DEF Local, Ends
    <2> HIDE DEF Sent
    <2>2. CASE t = s
        BY <1>1, <1>2, <1>6, <2>1, <2>2
    <2>3. CASE t # s
        BY <1>5, <2>1, <2>3
    <2> QED BY <2>2, <2>3
<1> QED BY <1>0, <1>1, <1>3, <1>4, <1>7, <1>8, ClientSide DEF Local

\* A stream is abandoned: its client sees no end of it any more.
LEMMA AbandonStep ==
    ASSUME BInv, NEW s \in Streams, Abandon(s), UNCHANGED <<backendVars, flight, wireVars, upVars, ev, rel>>,
           evEnd' \in [Streams -> {"open", "end", "reset"}],
           \A t \in Streams : evEnd'[t] = "end" => evEnd[t] = "end"
    PROVE  Local'
<1>0. Local
    BY DEF BInv
<1>1. /\ cLive' = cLive \ {s} /\ queue' = [queue EXCEPT ![s] = 0] /\ qEnd' = [qEnd EXCEPT ![s] = FALSE]
      /\ pRoute' = pRoute \ {s} /\ outcome' = [outcome EXCEPT ![s] = "reset"]
      /\ UNCHANGED <<alive, cConn, cStr, owed>> /\ cancel' \subseteq Streams
    BY <1>0 DEF Abandon, Local, ChannelTypes
<1>2. ChannelTypes'
    BY <1>0, <1>1 DEF Local, ChannelTypes
<1>3. ClientTypes'
    <2>1. queue' \in [Streams -> Nat] /\ outcome' \in [Streams -> Outcome]
        BY <1>0, <1>1 DEF Local, ClientTypes, Outcome
    <2>2. qEnd' \in [Streams -> BOOLEAN]
        BY <1>0, <1>1, Zenon DEF Local, ClientTypes
    <2> QED BY <1>0, <1>1, <2>1, <2>2 DEF Local, ClientTypes
<1>4. \A t \in Streams : t # s => queue'[t] = queue[t] /\ (qEnd'[t] <=> qEnd[t]) /\ outcome'[t] = outcome[t]
    BY <1>0, <1>1 DEF Local, ClientTypes
<1>5. ~qEnd'[s] /\ outcome'[s] = "reset"
    BY <1>0, <1>1 DEF Local, ClientTypes
<1>6. HeldWhere'
    BY <1>0, <1>1, <1>4 DEF Local, HeldWhere, upVars, UpTypes
<1>7. Ends'
    BY <1>0, <1>4, <1>5 DEF Local, Ends, Sent, backendVars, upVars
<1> QED BY <1>0, <1>2, <1>3, <1>6, <1>7, ClientSide DEF Local

LEMMA ResetStep ==
    ASSUME BInv, NEW s \in Streams, TakeReset(s) \/ ClientReset(s)
    PROVE  Local'
<1>0. Local
    BY DEF BInv
<1>1. /\ UNCHANGED <<backendVars, flight, wireVars, upVars, ev, rel>>
      /\ Abandon(s) \/ UNCHANGED <<cancel, clientVars>>
    BY DEF TakeReset, ClientReset
<1>2. /\ evEnd' \in [Streams -> {"open", "end", "reset"}]
      /\ \A t \in Streams : evEnd'[t] = "end" => evEnd[t] = "end"
    BY <1>0 DEF TakeReset, ClientReset, Local, ChannelTypes
<1>3. CASE Abandon(s)
    BY <1>1, <1>2, <1>3, AbandonStep
<1>4. CASE UNCHANGED <<cancel, clientVars>>
    <2>1. ChannelTypes'
        BY <1>0, <1>1, <1>2, <1>4 DEF Local, ChannelTypes
    <2>2. ClientTypes' /\ HeldWhere'
        BY <1>0, <1>1, <1>4, TypesUntouched, BooksUntouched DEF upVars, clientVars
    <2>3. Ends'
        BY <1>0, <1>1, <1>2, <1>4 DEF Local, Ends, Sent, backendVars, upVars, clientVars
    <2> QED BY <1>0, <1>1, <2>1, <2>2, <2>3, ClientSide DEF Local
<1> QED BY <1>1, <1>3, <1>4

LEMMA SendDataStep ==
    ASSUME BInv, NEW s \in Streams, NEW n \in Nat, SendData(s, n)
    PROVE  Local'
<1>0. Local
    BY DEF BInv
<1> DEFINE end == qEnd[s] /\ n = queue[s]
<1>1. /\ UNCHANGED <<backendVars, flight, wireVars, upVars, ev, evEnd, cancel, alive>>
      /\ s \in cLive /\ n \in 0..Lesser(queue[s], Budget(s))
      /\ queue' = [queue EXCEPT ![s] = @ - n] /\ cStr' = [cStr EXCEPT ![s] = @ - n]
      /\ cConn' = [cConn EXCEPT ![Owner[s]] = @ - n] /\ owed' = [owed EXCEPT ![s] = @ + n]
    BY DEF SendData, Visit
<1>2. /\ end => /\ cLive' = cLive \ {s} /\ pRoute' = pRoute \ {s} /\ rel' = rel
                /\ qEnd' = [qEnd EXCEPT ![s] = FALSE] /\ outcome' = [outcome EXCEPT ![s] = "whole"]
      /\ ~end => /\ UNCHANGED <<cLive, pRoute, qEnd, outcome>>
                 /\ rel' = [rel EXCEPT ![s] = IF s \in pRoute THEN @ + n ELSE @]
    BY DEF SendData, Visit, EmitReleased
<1>3. /\ queue \in [Streams -> Nat] /\ queue[s] \in Nat /\ cStr \in [Streams -> Nat] /\ cStr[s] \in Nat
      /\ cConn \in [Clients -> Nat] /\ Owner[s] \in Clients /\ cConn[Owner[s]] \in Nat
      /\ owed \in [Streams -> Nat] /\ owed[s] \in Nat /\ rel \in [Streams -> Nat] /\ rel[s] \in Nat
      /\ ev[s] \in Nat /\ pend[s] \in Nat /\ outcome \in [Streams -> Outcome]
    BY <1>0, Sizes DEF Local, ClientTypes, ChannelTypes, UpTypes
<1>4. n <= queue[s] /\ n <= cStr[s] /\ n <= cConn[Owner[s]]
    BY <1>1, <1>3, Sizes DEF Lesser, Budget
<1>5. end => Sent(s) /\ ev[s] = 0 /\ n = queue[s]
    BY <1>0 DEF Local, Ends
<1>6. qEnd \in [Streams -> BOOLEAN] /\ qEnd' \in [Streams -> BOOLEAN]
    <2>1. qEnd \in [Streams -> BOOLEAN]
        BY <1>0 DEF Local, ClientTypes
    <2>2. qEnd' = qEnd \/ qEnd' = [qEnd EXCEPT ![s] = FALSE]
        BY <1>2
    <2> QED BY <2>1, <2>2, Zenon
<1> HIDE DEF end
<1>7. ClientTypes'
    <2>1. queue' \in [Streams -> Nat] /\ cStr' \in [Streams -> Nat] /\ owed' \in [Streams -> Nat]
        BY <1>1, <1>3, <1>4
    <2>2. cConn' \in [Clients -> Nat]
        BY <1>1, <1>3, <1>4
    <2>3. outcome' \in [Streams -> Outcome] /\ cLive' \subseteq Streams /\ pRoute' \subseteq Streams
        BY <1>0, <1>2, <1>3 DEF Local, ClientTypes, Outcome
    <2> QED BY <1>0, <1>1, <1>6, <2>1, <2>2, <2>3 DEF Local, ClientTypes
<1>8. ChannelTypes'
    <2>1. rel' \in [Streams -> Nat]
        BY <1>2, <1>3
    <2> QED BY <1>0, <1>1, <2>1 DEF Local, ChannelTypes
<1>9. HeldWhere'
    <2>1. CASE end
        <3>1. s \notin route
            BY <1>5, <2>1 DEF Sent
        <3>2. \A t \in Streams : t # s => queue'[t] = queue[t]
            BY <1>1, <1>3
        <3> QED BY <1>0, <1>1, <1>2, <2>1, <3>1, <3>2 DEF Local, HeldWhere, upVars, UpTypes
    <2>2. CASE ~end
        <3> SUFFICES ASSUME NEW t \in route
                     PROVE  rel'[t] <= pend[t] /\ (t \in pRoute => pend[t] = ev[t] + queue'[t] + rel'[t])
            BY <1>0, <1>1, <1>2, <2>2 DEF Local, HeldWhere, upVars
        <3>1. /\ rel[t] <= pend[t] /\ (t \in pRoute => pend[t] = ev[t] + queue[t] + rel[t])
              /\ t \in Streams /\ cLive = pRoute
            BY <1>0 DEF Local, HeldWhere, UpTypes
        <3>2. CASE t = s
            <4>1. queue'[s] = queue[s] - n /\ rel'[s] = rel[s] + n
                BY <1>1, <1>2, <1>3, <2>2, <3>1
            <4> QED BY <1>1, <1>3, <1>4, <3>1, <3>2, <4>1
        <3>3. CASE t # s
            BY <1>1, <1>2, <1>3, <2>2, <3>1, <3>3
        <3> QED BY <3>2, <3>3
    <2> QED BY <2>1, <2>2
<1>10. Ends'
    <2> SUFFICES ASSUME NEW t \in Streams
                 PROVE  /\ qEnd'[t] => Sent(t) /\ ev[t] = 0
                        /\ outcome'[t] = "whole" => Sent(t) /\ ev[t] = 0 /\ queue'[t] = 0
        BY <1>0, <1>1 DEF Local, Ends, Sent, backendVars, upVars
    <2>1. /\ qEnd[t] => Sent(t) /\ ev[t] = 0
          /\ outcome[t] = "whole" => Sent(t) /\ ev[t] = 0 /\ queue[t] = 0
        BY <1>0 DEF Local, Ends
    <2>2. CASE t = s
        <3>1. queue'[s] = queue[s] - n /\ (qEnd'[s] => qEnd[s])
            BY <1>1, <1>2, <1>3, <1>6
        <3>2. CASE end
            BY <1>3, <1>5, <2>1, <2>2, <3>1, <3>2
        <3>3. CASE ~end
            BY <1>2, <1>3, <1>4, <2>1, <2>2, <3>1, <3>3
        <3> QED BY <3>2, <3>3
    <2>3. CASE t # s
        <3>1. queue'[t] = queue[t] /\ (qEnd'[t] => qEnd[t]) /\ outcome'[t] = outcome[t]
            BY <1>1, <1>2, <1>3, <1>6, <2>3
        <3> QED BY <2>1, <3>1
    <2> QED BY <2>2, <2>3
<1> QED BY <1>0, <1>1, <1>7, <1>8, <1>9, <1>10, ClientSide DEF Local

LEMMA ClientCreditStep ==
    ASSUME BInv, NEW s \in Streams, ClientCredit(s)
    PROVE  Local'
<1>0. Local
    BY DEF BInv
<1>1. /\ UNCHANGED <<backendVars, flight, wireVars, upVars, ev, evEnd, rel, cancel,
                     alive, cLive, pRoute, queue, qEnd, outcome>>
      /\ cConn' = [cConn EXCEPT ![Owner[s]] = @ + owed[s]]
      /\ cStr' = [cStr EXCEPT ![s] = IF s \in cLive THEN @ + owed[s] ELSE @]
      /\ owed' = [owed EXCEPT ![s] = 0]
    BY DEF ClientCredit
<1>2. ClientTypes'
    <2>1. cStr \in [Streams -> Nat] /\ cConn \in [Clients -> Nat] /\ Owner[s] \in Clients /\ owed \in [Streams -> Nat]
        BY <1>0, Sizes DEF Local, ClientTypes
    <2>2. cStr' \in [Streams -> Nat] /\ cConn' \in [Clients -> Nat] /\ owed' \in [Streams -> Nat]
        BY <1>1, <2>1
    <2> QED BY <1>0, <1>1, <2>2 DEF Local, ClientTypes
<1>3. ChannelTypes' /\ HeldWhere' /\ Ends'
    BY <1>0, <1>1, TypesUntouched, BooksUntouched DEF backendVars, upVars
<1> QED BY <1>0, <1>1, <1>2, <1>3, ClientSide DEF Local

\* A client that hangs up takes its routes with it, and leaves the upstream's.
LEMMA HangUpStep ==
    ASSUME BInv, NEW c \in Clients, HangUp(c)
    PROVE  Local'
<1>0. Local
    BY DEF BInv
<1> DEFINE mine == {s \in Streams : Owner[s] = c}
<1>1. /\ UNCHANGED <<backendVars, flight, wireVars, upVars, rel, cancel, cConn, cStr, outcome>>
      /\ alive' = alive \ {c} /\ cLive' = cLive \ mine /\ pRoute' = pRoute \ mine
      /\ queue' = [s \in Streams |-> IF s \in mine THEN 0 ELSE queue[s]]
      /\ owed' = [s \in Streams |-> IF s \in mine THEN 0 ELSE owed[s]]
      /\ ev' = [s \in Streams |-> IF s \in mine THEN 0 ELSE ev[s]]
      /\ evEnd' = [s \in Streams |-> IF s \in mine THEN "open" ELSE evEnd[s]]
      /\ qEnd' = [s \in Streams |-> qEnd[s] /\ s \notin mine]
    BY DEF HangUp
<1>2. ChannelTypes'
    <2>1. ev' \in [Streams -> Nat] /\ evEnd' \in [Streams -> {"open", "end", "reset"}]
        BY <1>0, <1>1 DEF Local, ChannelTypes
    <2> QED BY <1>0, <1>1, <2>1 DEF Local, ChannelTypes
<1>3. ClientTypes'
    <2>1. queue' \in [Streams -> Nat] /\ owed' \in [Streams -> Nat]
        BY <1>0, <1>1 DEF Local, ClientTypes
    <2>2. qEnd' \in [Streams -> BOOLEAN]
        BY <1>1, Zenon
    <2> QED BY <1>0, <1>1, <2>1, <2>2 DEF Local, ClientTypes
<1>4. HeldWhere'
    <2>1. \A s \in pRoute' : Owner[s] \in alive' /\ s \notin mine
        BY <1>0, <1>1 DEF Local, HeldWhere, ClientTypes
    <2>2. \A s \in Streams \ mine : ev'[s] = ev[s] /\ queue'[s] = queue[s]
        BY <1>1
    <2> HIDE DEF mine
    <2> QED BY <1>0, <1>1, <2>1, <2>2 DEF Local, HeldWhere, upVars, UpTypes
<1>5. Ends'
    <2>1. \A s \in Streams : /\ evEnd'[s] = "end" => evEnd[s] = "end"
                             /\ qEnd'[s] => qEnd[s]
                             /\ ev[s] = 0 => ev'[s] = 0
                             /\ queue[s] = 0 => queue'[s] = 0
        BY <1>1
    <2> QED BY <1>0, <1>1, <2>1 DEF Local, Ends, Sent, backendVars, upVars
<1> QED BY <1>0, <1>1, <1>2, <1>3, <1>4, <1>5, ClientSide DEF Local

-----------------------------------------------------------------------------
(* The theorems. *)

LEMMA InitBInv == Init => BInv
<1> SUFFICES ASSUME Init PROVE BInv
    OBVIOUS
<1> USE DEF Init
<1>1. NewRecvWindow(StreamWindow) \in RecvWindow /\ NewRecvWindow(ConnWindow) \in RecvWindow
    BY Sizes DEF NewRecvWindow, RecvWindow
<1>2. BackendTypes /\ WireTypes
    <2>1. ConnWindow - DefaultWindow \in Nat /\ DefaultWindow \in Nat
        BY Sizes
    <2> QED BY <2>1, Sizes DEF BackendTypes, WireTypes, Fin
<1>3. UpTypes /\ ChannelTypes
    BY <1>1 DEF UpTypes, ChannelTypes
<1>4. ClientTypes
    <2>1. qEnd \in [Streams -> BOOLEAN]
        BY Zenon
    <2> QED BY <2>1, Sizes DEF ClientTypes, Outcome
<1>5. StreamBooks
    BY Sizes DEF StreamBooks, NewRecvWindow
<1>6. HeldWhere
    BY Sizes DEF HeldWhere
<1>7. Ends
    BY DEF Ends, Sent
<1>8. LoopProofs!IInv
    <2>1. LoopProofs!IsFiniteSet(Streams)
        BY Sizes, SameOperators
    <2>2. LoopProofs!Total([s \in Streams |-> 0]) = 0
        BY <2>1, LoopSizes, LoopProofs!TotalNone
    <2>3. Total(flight) = 0 /\ Total(pend) = 0
        BY <2>2, SameOperators
    <2>4. LoopProofs!Init
        BY <2>3, SameOperators DEF LoopProofs!Init
    <2> QED BY <2>4, LoopSizes, LoopProofs!InitIInv
<1> QED BY <1>2, <1>3, <1>4, <1>5, <1>6, <1>7, <1>8 DEF BInv, Local

LEMMA NextBInv == BInv /\ [Next]_vars => BInv'
<1> SUFFICES ASSUME BInv, [Next]_vars PROVE BInv'
    OBVIOUS
<1>0. Local
    BY DEF BInv
<1>1. Local'
    <2>1. CASE UNCHANGED vars
        <3>1. UNCHANGED <<backendVars, flight, wireVars, upVars, ev, evEnd, rel, cancel, clientVars>>
            BY <2>1 DEF vars
        <3>2. ChannelTypes' /\ ClientTypes' /\ HeldWhere' /\ Ends'
            BY <1>0, <3>1, TypesUntouched, BooksUntouched DEF backendVars, upVars, clientVars
        <3> QED BY <1>0, <3>1, <3>2, ClientSide DEF Local
    <2>2. CASE BackendCredited
        BY <2>2, BackendCreditedStep
    <2>3. ASSUME NEW c \in Clients, HangUp(c) PROVE Local'
        BY <2>3, HangUpStep
    <2>4. ASSUME NEW s \in Streams, NEW n \in Nat, NEW end \in BOOLEAN,
                 BackendSend(s, n, end) \/ RecvData(s, n, end) \/ TakeData(s, n, end) \/ SendData(s, n)
          PROVE  Local'
        BY <2>4, BackendSendStep, RecvDataStep, TakeDataStep, SendDataStep
    <2>5. ASSUME NEW s \in Streams,
                 \/ BackendReset(s) \/ BackendSeesReset(s) \/ BackendStreamCredited(s)
                 \/ RecvReset(s) \/ TakeCancel(s)
                 \/ TakeReset(s) \/ ClientReset(s) \/ ClientCredit(s)
          PROVE  Local'
        BY <2>5, BackendTurnStep, BackendStreamCreditedStep, RouteEndsStep, ResetStep, ClientCreditStep
    <2>6. ASSUME NEW s \in Streams, NEW n \in 1..rel[s], TakeReleased(s, n) PROVE Local'
        BY <2>6, TakeReleasedStep
    <2>7. CASE Next
        <3>1. \A s \in Streams : bLeft[s] \in Nat /\ flight[s] \in Nat /\ ev[s] \in Nat /\ queue[s] \in Nat
            BY <1>0 DEF Local, BackendTypes, ChannelTypes, ClientTypes
        <3>2. \A k \in Nat : 0..k \subseteq Nat
            OBVIOUS
        <3> QED BY <2>2, <2>3, <2>4, <2>5, <2>6, <2>7, <3>1, <3>2 DEF Next
    <2> QED BY <2>1, <2>7
<1>2. LoopProofs!IInv'
    BY LoopKept
<1> QED BY <1>1, <1>2 DEF BInv

\* What is true of every reachable state of the bridge, whatever the windows.
THEOREM BridgeInvariant == Spec => []BInv
<1> QED BY InitBInv, NextBInv, PTL DEF Spec

\* No FLOW_CONTROL_ERROR is ever raised against a backend that spends the
\* credit it was given, and a live stream's credit is conserved (recv_data).
THEOREM StreamCreditIsConserved == Spec => []StreamCreditConserved
<1>1. BInv => StreamCreditConserved
    <2> SUFFICES ASSUME BInv PROVE StreamCreditConserved
        OBVIOUS
    <2>1. TypeOK
        BY DEF BInv, Local, BackendTypes, WireTypes, UpTypes, ChannelTypes, ClientTypes, TypeOK
    <2> QED BY <2>1 DEF BInv, Local, StreamBooks, StreamCreditConserved
<1> QED BY <1>1, BridgeInvariant, PTL

\* A route withholds exactly the octets that are between the upstream task and
\* the client's socket (Route::pending_conn_release).
THEOREM WithheldIsBuffered == Spec => []HeldIsBuffered
<1>1. BInv => HeldIsBuffered
    BY DEF BInv, Local, HeldWhere, HeldIsBuffered
<1> QED BY <1>1, BridgeInvariant, PTL

\* END_STREAM reaches a client behind the last octet of the body, in whatever
\* pieces the two tasks pass it on.
THEOREM EndComesLast == Spec => []EndMeansWhole
<1>1. BInv => EndMeansWhole
    BY DEF BInv, Local, Ends, Sent, EndMeansWhole
<1> QED BY <1>1, BridgeInvariant, PTL

\* The two instances of CreditLoop are one.
LEMMA SameLoop ==
    /\ LoopProofs!Init => Loop!Init
    /\ [LoopProofs!Next]_(LoopProofs!vars) => [Loop!Next]_(Loop!vars)
<1>1. \A r, n, i : LoopProofs!Release(r, n, i) = Loop!Release(r, n, i)
    BY Zenon DEF LoopProofs!Release, Loop!Release, LoopProofs!Due, Loop!Due
<1>2. \A r, n, i : LoopProofs!Increment(r, n, i) = Loop!Increment(r, n, i)
    BY Zenon DEF LoopProofs!Increment, Loop!Increment, LoopProofs!Due, Loop!Due
<1>3. \A r, n : LoopProofs!Record(r, n) = Loop!Record(r, n)
    BY Zenon DEF LoopProofs!Record, Loop!Record
<1>4. LoopProofs!Init => Loop!Init
    BY DEF LoopProofs!Init, Loop!Init, LoopProofs!NewRecvWindow, Loop!NewRecvWindow
<1>5. \A n : LoopProofs!Send(n) => Loop!Send(n)
    BY DEF LoopProofs!Send, Loop!Send
<1>6. \A n, m : LoopProofs!Arrive(n, m) => Loop!Arrive(n, m)
    BY <1>1, <1>2, <1>3 DEF LoopProofs!Arrive, Loop!Arrive, LoopProofs!ReleaseFrom, Loop!ReleaseFrom
<1>7. \A m : LoopProofs!Hand(m) => Loop!Hand(m)
    BY <1>1, <1>2 DEF LoopProofs!Hand, Loop!Hand, LoopProofs!ReleaseFrom, Loop!ReleaseFrom
<1>8. LoopProofs!Credited => Loop!Credited
    BY DEF LoopProofs!Credited, Loop!Credited
<1>9. LoopProofs!Next => Loop!Next
    BY <1>5, <1>6, <1>7, <1>8 DEF LoopProofs!Next, Loop!Next
<1> QED BY <1>4, <1>9 DEF LoopProofs!vars, Loop!vars

\* The connection window of the four processes together implements CreditLoop:
\* whatever resets, cancellations and disconnections do to the streams on it,
\* credit is in one of its five places (conn_recv_window).
THEOREM BridgeImplementsLoop == Spec => ConnCreditLoop
<1>1. Init => Loop!Init
    <2> SUFFICES ASSUME Init PROVE Loop!Init
        OBVIOUS
    <2>1. LoopProofs!IsFiniteSet(Streams)
        BY Sizes, SameOperators
    <2>2. LoopProofs!Total([s \in Streams |-> 0]) = 0
        BY <2>1, LoopSizes, LoopProofs!TotalNone
    <2>3. Total(flight) = 0 /\ Total(pend) = 0
        BY <2>2, SameOperators DEF Init
    <2>4. LoopProofs!Init
        BY <2>3, SameOperators DEF Init, LoopProofs!Init
    <2> QED BY <2>4, SameLoop
<1>2. BInv /\ [Next]_vars => [Loop!Next]_(Loop!vars)
    BY StepIsLoops, SameLoop
<1> QED BY <1>1, <1>2, BridgeInvariant, PTL DEF Spec, ConnCreditLoop, Loop!Spec
=============================================================================
