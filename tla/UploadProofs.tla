----------------------------- MODULE UploadProofs -----------------------------
(***************************************************************************)
(* For any number of uploads, every window and every order in which the    *)
(* client, the two tasks and the backend act: credit is conserved on the   *)
(* client's connection, on each of its streams and towards the backend,    *)
(* and every octet that is held is on its way.                             *)
(***************************************************************************)
EXTENDS Upload, CreditLoopProofs

ClientTypes ==
    /\ left \in [Streams -> Nat] /\ cCredit \in [Streams -> Nat] /\ cFlight \in [Streams -> Nat]
    /\ cEnd \in [Streams -> {"open", "end", "rst", "done"}] /\ cUpdate \in [Streams -> Nat]

TaskTypes ==
    /\ st \in [Streams -> {"open", "half", "local", "gone"}]
    /\ rw \in [Streams -> RecvWindow] /\ pend \in [Streams -> Nat] /\ pRoute \subseteq Streams

ChannelTypes ==
    /\ inbox \in [Streams -> Nat] /\ iEnd \subseteq Streams /\ iCancel \subseteq Streams
    /\ acc \in [Streams -> Nat] /\ ev \in [Streams -> {"open", "answer", "reset"}]

UpTypes ==
    /\ route \subseteq Streams /\ queue \in [Streams -> Nat] /\ qEnd \in [Streams -> BOOLEAN]
    /\ sw \in [Streams -> Int] /\ kw \in Int /\ iw \in Int

BackendTypes ==
    /\ bHeld \in [Streams -> Nat] /\ bUpdate \in [Streams -> Nat] /\ kUpdate \in Nat
    /\ whole \subseteq Streams /\ bEnd \in [Streams -> {"open", "answer", "reset"}]
    /\ sizes \in Seq(BackendSizes) /\ sizes # <<>>

UTypeOK == ClientTypes /\ TaskTypes /\ ChannelTypes /\ UpTypes /\ BackendTypes

\* The stream's own loop of credit, with less than half of it kept back.
StreamLoop ==
    \A s \in Streams : st[s] # "gone" =>
        /\ cCredit[s] + cFlight[s] + cUpdate[s] = rw[s].window
        /\ rw[s].window + rw[s].unreleased + pend[s] = StreamInitial
        /\ 2 * rw[s].unreleased < StreamInitial

HeldTogether == Total(pend) = held

\* No more comes back for a stream than it holds; all of it, while the backend
\* can still be sent it.
Backed ==
    \A s \in Streams : st[s] # "gone" =>
        /\ inbox[s] + queue[s] + acc[s] <= pend[s]
        /\ st[s] # "local" /\ ev[s] = "open" => inbox[s] + queue[s] + acc[s] = pend[s]

\* How far the two tasks can be apart about a stream.
Phases ==
    \A s \in Streams :
        /\ s \in route => ev[s] = "open" /\ st[s] # "local"
        /\ st[s] = "local" => ev[s] = "open" /\ s \in MayAnswer
        /\ s \in iCancel => st[s] = "gone"
        /\ s \in iEnd \cup whole \/ qEnd[s] => st[s] # "open"
        /\ bEnd[s] = "answer" => s \in whole \cup MayAnswer
        /\ ev[s] # "open" => ev[s] = bEnd[s]
        /\ st[s] \in {"open", "half"} /\ ev[s] = "open" => s \in route

\* The inductive invariant, beside CreditLoop's.
UInv == IInv /\ UTypeOK /\ StreamLoop /\ HeldTogether /\ Backed /\ Phases /\ SendCreditConserved

-----------------------------------------------------------------------------
(* The connection window: every action is a step of CreditLoop. *)

LEMMA Sizes ==
    /\ IsFiniteSet(Streams) /\ StreamInitial \in Nat \ {0} /\ BackendConn \in Nat
    /\ BackendSizes \subseteq Nat
BY UploadAssumption, MaxWindowAssumption

LEMMA LoopKept ==
    ASSUME IInv,
           \/ UNCHANGED vars \/ Credited \/ Send(1)
           \/ \E n, m \in Nat : Arrive(n, m)
           \/ \E m \in Nat : Hand(m)
    PROVE  IInv'
<1>1. CASE UNCHANGED vars
    BY <1>1, NextIInv
<1>2. CASE Credited
    BY <1>2, NextIInv DEF Next
<1>3. CASE Send(1)
    BY <1>3, SendIInv DEF Send
<1>4. ASSUME NEW n \in Nat, NEW m \in Nat, Arrive(n, m) PROVE IInv'
    BY <1>4, ArriveIInv DEF Arrive
<1>5. ASSUME NEW m \in Nat, Hand(m) PROVE IInv'
    BY <1>5, HandIInv DEF Hand
<1> QED BY <1>1, <1>2, <1>3, <1>4, <1>5

\* What a handler gives back of what the connection holds.
LEMMA HeldMoves ==
    ASSUME IInv
    PROVE  /\ held \in Nat
           /\ UNCHANGED vars => held' = held
           /\ \A n, m \in Nat : Arrive(n, m) => held' = held + n - m
           /\ \A m \in Nat : Hand(m) \/ Reclaim(m) => held' = held - m
           /\ \A m \in Nat : Reclaim(m) => UNCHANGED vars \/ Hand(m)
BY DEF IInv, TypeOK, Arrive, Hand, Reclaim, vars

LEMMA InitUInv == UInit => UInv
<1> SUFFICES ASSUME UInit PROVE UInv
    OBVIOUS
<1> USE DEF UInit
<1>0. IInv
    BY InitIInv
<1>1. UTypeOK
    <2>1. StreamInitial \in Nat /\ NewRecvWindow(StreamInitial) \in RecvWindow
        BY Sizes DEF NewRecvWindow, RecvWindow
    <2>2. FirstSize \in BackendSizes /\ FirstSize \in Int /\ BackendConn \in Int /\ Body \in [Streams -> Nat]
        BY Sizes, UploadAssumption
    <2>3. sizes \in Seq(BackendSizes) /\ sizes # <<>>
        BY <2>2
    <2> QED BY <2>1, <2>2, <2>3 DEF UTypeOK, ClientTypes, TaskTypes, ChannelTypes, UpTypes, BackendTypes
<1>2. StreamLoop
    BY Sizes DEF StreamLoop, NewRecvWindow
<1>3. HeldTogether
    <2>1. pend \in [Streams -> Nat] /\ held = 0
        BY DEF Init
    <2> QED BY <2>1, TotalNone DEF HeldTogether
<1>4. Backed /\ Phases
    BY DEF Backed, Phases
<1>5. SendCreditConserved
    <2>1. Total(bHeld) = 0
        BY TotalNone
    <2>2. FirstSize \in Int /\ BackendConn \in Int
        BY Sizes, UploadAssumption
    <2> QED BY <2>1, <2>2 DEF SendCreditConserved
<1> QED BY <1>0, <1>1, <1>2, <1>3, <1>4, <1>5 DEF UInv

-----------------------------------------------------------------------------
(* The client and its connection task. *)

LEMMA TypesUntouched ==
    ASSUME UTypeOK
    PROVE  /\ UNCHANGED clientVars => ClientTypes'
           /\ UNCHANGED taskVars => TaskTypes'
           /\ UNCHANGED channels => ChannelTypes'
           /\ UNCHANGED upVars => UpTypes'
           /\ UNCHANGED backendVars => BackendTypes'
<1>1. UNCHANGED clientVars => ClientTypes'
    BY DEF UTypeOK, ClientTypes, clientVars
<1>2. UNCHANGED taskVars => TaskTypes'
    BY DEF UTypeOK, TaskTypes, taskVars
<1>3. UNCHANGED channels => ChannelTypes'
    BY DEF UTypeOK, ChannelTypes, channels
<1>4. UNCHANGED upVars => UpTypes'
    BY DEF UTypeOK, UpTypes, upVars
<1>5. UNCHANGED backendVars => BackendTypes'
    BY DEF UTypeOK, BackendTypes, backendVars
<1> QED BY <1>1, <1>2, <1>3, <1>4, <1>5

LEMMA SendUntouched ==
    ASSUME UInv, UNCHANGED <<route, sw, kw, iw, bHeld, bUpdate, kUpdate>>
    PROVE  SendCreditConserved'
BY DEF UInv, SendCreditConserved

LEMMA LoopsUntouched ==
    ASSUME UInv, UNCHANGED <<vars, cCredit, cFlight, cUpdate, st, rw, pend>>
    PROVE  IInv' /\ StreamLoop' /\ HeldTogether'
<1>1. IInv'
    BY LoopKept DEF UInv
<1>2. StreamLoop' /\ HeldTogether'
    BY DEF UInv, StreamLoop, HeldTogether, vars
<1> QED BY <1>1, <1>2

\* What a stream holds has gone from n to m: so has what all of them hold.
LEMMA HeldFollows ==
    ASSUME UInv, NEW s \in Streams, NEW n \in Nat, pend' = [pend EXCEPT ![s] = n],
           held' = held - pend[s] + n
    PROVE  HeldTogether'
<1>1. pend \in [Streams -> Nat] /\ IsFiniteSet(Streams) /\ held = Total(pend)
    BY Sizes DEF UInv, UTypeOK, ClientTypes, TaskTypes, ChannelTypes, UpTypes, BackendTypes, HeldTogether
<1>2. Total(pend') = Total(pend) - pend[s] + n
    BY <1>1, TotalExcept
<1> QED BY <1>1, <1>2 DEF HeldTogether

LEMMA ClientSendStep == UInv /\ (\E s \in Streams : ClientSend(s)) => UInv'
<1> SUFFICES ASSUME UInv, NEW s \in Streams, ClientSend(s) PROVE UInv'
    OBVIOUS
<1> USE DEF ClientSend, taskVars, channels, upVars, backendVars
<1>1. UTypeOK
    BY DEF UInv
<1>2. IInv'
    BY LoopKept DEF UInv
<1>3. UTypeOK'
    <2>1. ClientTypes'
        BY <1>1 DEF UTypeOK, ClientTypes
    <2>2. TaskTypes' /\ ChannelTypes' /\ UpTypes' /\ BackendTypes'
        BY <1>1, TypesUntouched
    <2> QED BY <2>1, <2>2 DEF UTypeOK
<1>4. StreamLoop'
    BY <1>1 DEF UInv, UTypeOK, ClientTypes, TaskTypes, ChannelTypes, UpTypes, BackendTypes, StreamLoop
<1>5. HeldTogether'
    BY DEF UInv, HeldTogether, Send
<1>6. Backed' /\ Phases'
    BY DEF UInv, Backed, Phases
<1>7. SendCreditConserved'
    BY SendUntouched
<1> QED BY <1>2, <1>3, <1>4, <1>5, <1>6, <1>7 DEF UInv

LEMMA ClientTurnStep ==
    UInv /\ (\E s \in Streams : ClientEnds(s) \/ ClientResets(s)) => UInv'
<1> SUFFICES ASSUME UInv, NEW s \in Streams, ClientEnds(s) \/ ClientResets(s) PROVE UInv'
    OBVIOUS
<1> USE DEF ClientEnds, ClientResets, taskVars, channels, upVars, backendVars
<1>0. UTypeOK
    BY DEF UInv
<1>1. UTypeOK'
    <2>1. ClientTypes'
        BY <1>0 DEF UTypeOK, ClientTypes
    <2>2. TaskTypes' /\ ChannelTypes' /\ UpTypes' /\ BackendTypes'
        BY <1>0, TypesUntouched
    <2> QED BY <2>1, <2>2 DEF UTypeOK
<1>2. IInv' /\ StreamLoop' /\ HeldTogether'
    BY LoopsUntouched
<1>3. Backed' /\ Phases'
    BY DEF UInv, Backed, Phases
<1>4. SendCreditConserved'
    BY SendUntouched
<1> QED BY <1>1, <1>2, <1>3, <1>4 DEF UInv

LEMMA ClientCreditedStep == UInv /\ ClientCredited => UInv'
<1> SUFFICES ASSUME UInv, ClientCredited PROVE UInv'
    OBVIOUS
<1> USE DEF ClientCredited, taskVars, channels, upVars, backendVars
<1>1. UTypeOK /\ IInv
    BY DEF UInv
<1>2. IInv'
    BY <1>1, LoopKept
<1>3. UTypeOK'
    <2>1. ClientTypes'
        BY <1>1 DEF UTypeOK, ClientTypes
    <2>2. TaskTypes' /\ ChannelTypes' /\ UpTypes' /\ BackendTypes'
        BY <1>1, TypesUntouched
    <2> QED BY <2>1, <2>2 DEF UTypeOK
<1>4. StreamLoop'
    BY <1>1 DEF UInv, UTypeOK, ClientTypes, TaskTypes, ChannelTypes, UpTypes, BackendTypes, StreamLoop
<1>5. HeldTogether'
    BY DEF UInv, HeldTogether, Credited, vars
<1>6. Backed' /\ Phases'
    BY DEF UInv, Backed, Phases
<1>7. SendCreditConserved'
    BY SendUntouched
<1> QED BY <1>2, <1>3, <1>4, <1>5, <1>6, <1>7 DEF UInv

\* A stream retires: what is said of live streams is said of it no more.
LEMMA RetireStep ==
    ASSUME UInv, UTypeOK', IInv', NEW s \in Streams, NEW told, Retire(s, told),
           held' = held - pend[s],
           \A t \in Streams \ {s} : cCredit'[t] = cCredit[t] /\ cFlight'[t] = cFlight[t]
                                    /\ cUpdate'[t] = cUpdate[t] /\ acc'[t] = acc[t]
                                    /\ ev'[t] = ev[t],
           ev'[s] \in {"open", ev[s]},
           UNCHANGED <<inbox, iEnd, upVars, backendVars>>
    PROVE  UInv'
<1> USE DEF Retire, upVars, backendVars
<1>1. UTypeOK
    BY DEF UInv
<1>2. StreamLoop'
    BY <1>1 DEF UInv, UTypeOK, ClientTypes, TaskTypes, ChannelTypes, UpTypes, BackendTypes, StreamLoop
<1>3. HeldTogether'
    <2>1. held \in Nat /\ pend[s] \in Nat /\ pend' = [pend EXCEPT ![s] = 0]
        BY <1>1, HeldMoves DEF UInv, UTypeOK, TaskTypes
    <2>2. held' = held - pend[s] + 0 /\ 0 \in Nat
        BY <2>1
    <2> QED BY <2>1, <2>2, HeldFollows
<1>4. Backed'
    BY <1>1 DEF UInv, UTypeOK, ClientTypes, TaskTypes, ChannelTypes, UpTypes, BackendTypes, Backed
<1>5. Phases'
    <2> SUFFICES ASSUME NEW t \in Streams
                 PROVE  /\ t \in route => ev'[t] = "open" /\ st'[t] # "local"
                        /\ st'[t] = "local" => ev'[t] = "open" /\ t \in MayAnswer
                        /\ t \in iCancel' => st'[t] = "gone"
                        /\ t \in iEnd \cup whole \/ qEnd[t] => st'[t] # "open"
                        /\ bEnd[t] = "answer" => t \in whole \cup MayAnswer
                        /\ ev'[t] # "open" => ev'[t] = bEnd[t]
                        /\ st'[t] \in {"open", "half"} /\ ev'[t] = "open" => t \in route
        BY DEF Phases
    <2>1. CASE t = s
        BY <1>1, <2>1 DEF UInv, UTypeOK, TaskTypes, Phases
    <2>2. CASE t # s
        BY <1>1, <2>2 DEF UInv, UTypeOK, TaskTypes, Phases
    <2> QED BY <2>1, <2>2
<1>6. SendCreditConserved'
    BY SendUntouched
<1> QED BY <1>2, <1>3, <1>4, <1>5, <1>6 DEF UInv

\* DATA is decoded: for a stream that is gone its octets go back at once; one
\* that ends here gives back all it held; else the stream holds them too.
LEMMA RecvDataTypes ==
    ASSUME UInv, NEW s \in Streams, NEW n \in Nat, RecvData(s, n)
    PROVE  ClientTypes' /\ UpTypes' /\ BackendTypes' /\ cFlight[s] - n \in Nat
<1>0. UTypeOK
    BY DEF UInv
<1> USE DEF RecvData
<1>1. cFlight[s] \in Nat /\ n <= cFlight[s] /\ cFlight[s] - n \in Nat
    BY <1>0 DEF UTypeOK, ClientTypes
<1>2. cFlight' \in [Streams -> Nat] /\ cEnd' \in [Streams -> {"open", "end", "rst", "done"}]
    BY <1>0, <1>1 DEF UTypeOK, ClientTypes
<1>3. ClientTypes'
    BY <1>0, <1>2 DEF UTypeOK, ClientTypes
<1> QED BY <1>0, <1>1, <1>3, TypesUntouched

LEMMA RecvLateData ==
    ASSUME UInv, NEW s \in Streams, NEW n \in Nat, RecvData(s, n), st[s] = "gone"
    PROVE  UInv'
<1>0. UTypeOK /\ IInv
    BY DEF UInv
<1>1. /\ Arrive(n, n)
      /\ UNCHANGED <<taskVars, channels, upVars, backendVars, cCredit, cUpdate>>
      /\ cFlight' = [cFlight EXCEPT ![s] = @ - n]
    BY DEF RecvData, channels
<1>2. IInv' /\ held' = held
    BY <1>0, <1>1, LoopKept, HeldMoves
<1>3. UTypeOK'
    BY <1>0, <1>1, RecvDataTypes, TypesUntouched DEF UTypeOK
<1>4. StreamLoop'
    BY <1>0, <1>1 DEF UInv, StreamLoop, taskVars, UTypeOK, ClientTypes
<1>5. HeldTogether' /\ Backed' /\ Phases'
    BY <1>1, <1>2 DEF UInv, HeldTogether, Backed, Phases, taskVars, channels, upVars, backendVars
<1>6. SendCreditConserved'
    BY <1>1, SendUntouched DEF upVars, backendVars
<1> QED BY <1>2, <1>3, <1>4, <1>5, <1>6 DEF UInv

LEMMA RecvLastData ==
    ASSUME UInv, NEW s \in Streams, NEW n \in Nat, RecvData(s, n),
           Arrive(n, pend[s] + n), NEW told, Retire(s, told),
           UNCHANGED <<inbox, iEnd>>,
           acc' = acc \/ acc' = [acc EXCEPT ![s] = @ + n]
    PROVE  UInv'
<1>0. UTypeOK /\ IInv
    BY DEF UInv
<1>1. /\ UNCHANGED <<ev, upVars, backendVars, cCredit, cUpdate>>
      /\ cFlight' = [cFlight EXCEPT ![s] = @ - n]
    BY DEF RecvData
<1>2. pend[s] \in Nat /\ held \in Nat
    BY <1>0, HeldMoves DEF UTypeOK, TaskTypes
<1>3. held' = held - pend[s]
    BY <1>0, <1>2, HeldMoves
<1>4. IInv'
    <2>1. pend[s] + n \in Nat
        BY <1>2
    <2> QED BY <1>0, <2>1, LoopKept
<1>5. TaskTypes' /\ ChannelTypes'
    <2>1. NewRecvWindow(StreamInitial) \in RecvWindow
        BY Sizes DEF NewRecvWindow, RecvWindow
    <2>2. TaskTypes'
        BY <1>0, <2>1 DEF Retire, UTypeOK, TaskTypes
    <2>3. iCancel' \subseteq Streams /\ acc' \in [Streams -> Nat]
        BY <1>0 DEF Retire, UTypeOK, ChannelTypes
    <2>4. ChannelTypes'
        BY <1>0, <1>1, <2>3 DEF UTypeOK, ChannelTypes
    <2> QED BY <2>2, <2>4
<1>6. UTypeOK'
    BY <1>5, RecvDataTypes DEF UTypeOK
<1>7. \A t \in Streams \ {s} : cCredit'[t] = cCredit[t] /\ cFlight'[t] = cFlight[t]
                               /\ cUpdate'[t] = cUpdate[t] /\ acc'[t] = acc[t] /\ ev'[t] = ev[t]
    BY <1>0, <1>1 DEF UTypeOK, ClientTypes, ChannelTypes
<1> QED BY <1>1, <1>3, <1>4, <1>6, <1>7, RetireStep

LEMMA RecvHeldData ==
    ASSUME UInv, NEW s \in Streams, NEW n \in Nat, NEW end \in BOOLEAN, RecvData(s, n),
           st[s] # "gone", end => st[s] # "local", CanConsume(rw[s].window, n), Arrive(n, 0),
           rw' = [rw EXCEPT ![s] = Record(@, n)], pend' = [pend EXCEPT ![s] = @ + n],
           st' = IF end THEN [st EXCEPT ![s] = "half"] ELSE st,
           PassOn(s, n, end), UNCHANGED <<pRoute, iCancel>>
    PROVE  UInv'
<1>0. UTypeOK /\ IInv
    BY DEF UInv
<1>1. /\ UNCHANGED <<ev, upVars, backendVars, cCredit, cUpdate>>
      /\ cFlight' = [cFlight EXCEPT ![s] = @ - n]
    BY DEF RecvData
<1>2. pend[s] \in Nat /\ held \in Nat /\ inbox[s] \in Nat /\ acc[s] \in Nat /\ queue[s] \in Nat
    BY <1>0, HeldMoves DEF UTypeOK, TaskTypes, ChannelTypes, UpTypes
<1>3. IInv' /\ held' = held + n
    BY <1>0, <1>2, LoopKept, HeldMoves
<1>4. /\ rw[s] \in RecvWindow /\ rw'[s] \in RecvWindow
      /\ rw'[s].window = rw[s].window - n /\ rw'[s].unreleased = rw[s].unreleased
      /\ rw[s].window \in Int /\ rw[s].unreleased \in Nat
    <2>1. rw[s] \in RecvWindow /\ rw'[s] = Record(rw[s], n)
        BY <1>0 DEF UTypeOK, TaskTypes
    <2>2. /\ rw'[s] \in RecvWindow /\ rw'[s].window = rw[s].window - n
          /\ rw'[s].unreleased = rw[s].unreleased
        BY <1>0, <2>1, RecordEffect
    <2> QED BY <2>1, <2>2 DEF RecvWindow
<1>5. TaskTypes'
    <2>1. rw' \in [Streams -> RecvWindow]
        BY <1>0, <1>4 DEF UTypeOK, TaskTypes
    <2>2. pend' \in [Streams -> Nat] /\ st' \in [Streams -> {"open", "half", "local", "gone"}]
        BY <1>0 DEF UTypeOK, TaskTypes
    <2> QED BY <1>0, <2>1, <2>2 DEF UTypeOK, TaskTypes
<1>6. ChannelTypes'
    BY <1>0, <1>1, <1>2 DEF UTypeOK, ChannelTypes, PassOn
<1>7. UTypeOK'
    BY <1>5, <1>6, RecvDataTypes DEF UTypeOK
<1>8. StreamLoop'
    <2> SUFFICES ASSUME NEW t \in Streams, st'[t] # "gone"
                 PROVE  /\ cCredit[t] + cFlight'[t] + cUpdate[t] = rw'[t].window
                        /\ rw'[t].window + rw'[t].unreleased + pend'[t] = StreamInitial
                        /\ 2 * rw'[t].unreleased < StreamInitial
        BY <1>1 DEF StreamLoop
    <2>1. CASE t = s
        <3>1. /\ cCredit[s] \in Nat /\ cFlight[s] \in Nat /\ cUpdate[s] \in Nat
              /\ cFlight'[s] = cFlight[s] - n /\ pend'[s] = pend[s] + n
            BY <1>0, <1>1 DEF UTypeOK, ClientTypes, TaskTypes
        <3>2. /\ cCredit[s] + cFlight[s] + cUpdate[s] = rw[s].window
              /\ rw[s].window + rw[s].unreleased + pend[s] = StreamInitial
              /\ 2 * rw[s].unreleased < StreamInitial
            BY DEF UInv, StreamLoop
        <3> QED BY <2>1, <3>1, <3>2, <1>2, <1>4, Sizes
    <2>2. CASE t # s
        BY <1>0, <1>1, <2>2 DEF UInv, StreamLoop, UTypeOK, ClientTypes, TaskTypes
    <2> QED BY <2>1, <2>2
<1>9. HeldTogether'
    <2>1. held' = held - pend[s] + (pend[s] + n) /\ pend[s] + n \in Nat
        BY <1>2, <1>3
    <2> QED BY <2>1, HeldFollows
<1>10. Backed'
    <2> SUFFICES ASSUME NEW t \in Streams, st'[t] # "gone"
                 PROVE  /\ inbox'[t] + queue[t] + acc'[t] <= pend'[t]
                        /\ st'[t] # "local" /\ ev[t] = "open" => inbox'[t] + queue[t] + acc'[t] = pend'[t]
        BY <1>1 DEF Backed, upVars
    <2>1. CASE t = s
        <3>1. /\ inbox'[s] + queue[s] + acc'[s] = inbox[s] + queue[s] + acc[s] + n
              /\ pend'[s] = pend[s] + n /\ (st'[s] # "local" => st[s] # "local")
            BY <1>0, <1>2 DEF PassOn, UTypeOK, TaskTypes, ChannelTypes
        <3>2. /\ inbox[s] + queue[s] + acc[s] <= pend[s]
              /\ st[s] # "local" /\ ev[s] = "open" => inbox[s] + queue[s] + acc[s] = pend[s]
            BY DEF UInv, Backed
        <3> QED BY <2>1, <3>1, <3>2, <1>2
    <2>2. CASE t # s
        BY <1>0, <2>2 DEF UInv, Backed, PassOn, UTypeOK, TaskTypes, ChannelTypes
    <2> QED BY <2>1, <2>2
<1>11. Phases'
    <2> SUFFICES ASSUME NEW t \in Streams
                 PROVE  /\ t \in route => ev[t] = "open" /\ st'[t] # "local"
                        /\ st'[t] = "local" => ev[t] = "open" /\ t \in MayAnswer
                        /\ t \in iCancel => st'[t] = "gone"
                        /\ t \in iEnd' \cup whole \/ qEnd[t] => st'[t] # "open"
                        /\ bEnd[t] = "answer" => t \in whole \cup MayAnswer
                        /\ ev[t] # "open" => ev[t] = bEnd[t]
                        /\ st'[t] \in {"open", "half"} /\ ev[t] = "open" => t \in route
        BY <1>1 DEF Phases, upVars, backendVars
    <2>1. CASE t = s
        BY <1>0, <2>1 DEF UInv, Phases, PassOn, UTypeOK, TaskTypes
    <2>2. CASE t # s
        BY <1>0, <2>2 DEF UInv, Phases, PassOn, UTypeOK, TaskTypes
    <2> QED BY <2>1, <2>2
<1>12. SendCreditConserved'
    BY <1>1, SendUntouched DEF upVars, backendVars
<1> QED BY <1>3, <1>7, <1>8, <1>9, <1>10, <1>11, <1>12 DEF UInv

LEMMA RecvDataStep ==
    ASSUME UInv, NEW s \in Streams, NEW n \in Nat, RecvData(s, n)
    PROVE  UInv'
<1> DEFINE end == n = cFlight[s] /\ cEnd[s] = "end"
<1>1. CASE st[s] = "gone"
    BY <1>1, RecvLateData
<1>2. CASE st[s] # "gone" /\ ~CanConsume(rw[s].window, n)
    BY <1>2, RecvLastData DEF RecvData
<1>3. CASE st[s] # "gone" /\ CanConsume(rw[s].window, n)
    <2>1. RecvBody(s, n, end) /\ end \in BOOLEAN
        BY <1>3 DEF RecvData
    <2> HIDE DEF end
    <2>2. CASE end /\ st[s] = "local"
        BY <2>1, <2>2, RecvLastData DEF RecvBody
    <2>3. CASE ~(end /\ st[s] = "local")
        BY <1>3, <2>1, <2>3, RecvHeldData DEF RecvBody
    <2> QED BY <2>2, <2>3
<1> QED BY <1>1, <1>2, <1>3

LEMMA RetireTypes ==
    ASSUME UTypeOK, NEW s \in Streams, NEW told, Retire(s, told)
    PROVE  TaskTypes' /\ iCancel' \subseteq Streams
<1>1. NewRecvWindow(StreamInitial) \in RecvWindow
    BY Sizes DEF NewRecvWindow, RecvWindow
<1>2. TaskTypes'
    BY <1>1 DEF Retire, UTypeOK, TaskTypes
<1>3. iCancel' \subseteq Streams
    BY DEF Retire, UTypeOK, ChannelTypes
<1> QED BY <1>2, <1>3

\* The client's RST_STREAM, or an event from the backend, retires a stream.
LEMMA EndsEarly ==
    ASSUME UInv, NEW s \in Streams, NEW told, Retire(s, told), Reclaim(pend[s]),
           ClientTypes', UNCHANGED <<cCredit, cFlight, cUpdate, inbox, iEnd, acc, upVars, backendVars>>,
           ev' = ev \/ ev' = [ev EXCEPT ![s] = "open"]
    PROVE  UInv'
<1>0. UTypeOK /\ IInv /\ pend[s] \in Nat
    BY DEF UInv, UTypeOK, TaskTypes
<1>1. IInv' /\ held' = held - pend[s]
    BY <1>0, LoopKept, HeldMoves
<1>2. ChannelTypes'
    BY <1>0, RetireTypes DEF UTypeOK, ChannelTypes
<1>3. UTypeOK'
    BY <1>0, <1>2, RetireTypes, TypesUntouched DEF UTypeOK
<1>4. ev'[s] \in {"open", ev[s]} /\ \A t \in Streams \ {s} : ev'[t] = ev[t]
    BY <1>0 DEF UTypeOK, ChannelTypes
<1> QED BY <1>1, <1>3, <1>4, RetireStep

LEMMA RecvRstStep ==
    ASSUME UInv, NEW s \in Streams, RecvRst(s)
    PROVE  UInv'
<1>0. UTypeOK
    BY DEF UInv
<1>1. /\ UNCHANGED <<left, cCredit, cFlight, cUpdate, inbox, iEnd, acc, ev, upVars, backendVars>>
      /\ cEnd' = [cEnd EXCEPT ![s] = "done"]
    BY DEF RecvRst
<1>2. ClientTypes'
    BY <1>0, <1>1 DEF UTypeOK, ClientTypes
<1>3. CASE st[s] = "gone"
    <2>1. UNCHANGED <<vars, taskVars, channels>>
        BY <1>1, <1>3 DEF RecvRst, channels
    <2>2. IInv' /\ StreamLoop' /\ HeldTogether'
        BY <1>1, <2>1, LoopsUntouched DEF taskVars
    <2>3. UTypeOK'
        BY <1>0, <1>1, <1>2, <2>1, TypesUntouched DEF UTypeOK
    <2>4. Backed' /\ Phases' /\ SendCreditConserved'
        BY <1>1, <2>1, SendUntouched DEF UInv, Backed, Phases, taskVars, channels, upVars, backendVars
    <2> QED BY <2>2, <2>3, <2>4 DEF UInv
<1>4. CASE st[s] # "gone"
    <2>1. Reclaim(pend[s]) /\ Retire(s, "cancel")
        BY <1>4 DEF RecvRst
    <2> QED BY <1>1, <1>2, <2>1, EndsEarly
<1> QED BY <1>3, <1>4

LEMMA TakeEventStep ==
    ASSUME UInv, NEW s \in Streams, TakeEvent(s)
    PROVE  UInv'
<1>0. UTypeOK
    BY DEF UInv
<1>1. /\ UNCHANGED <<clientVars, inbox, iEnd, acc, upVars, backendVars>>
      /\ ev' = [ev EXCEPT ![s] = "open"] /\ ev[s] \in {"answer", "reset"}
      /\ st[s] \in {"open", "half", "local", "gone"}
    BY <1>0 DEF TakeEvent, clientVars, UTypeOK, ChannelTypes, TaskTypes
<1>2. ClientTypes'
    BY <1>0, <1>1, TypesUntouched
<1>3. st[s] # "local" /\ s \notin route
    BY <1>1 DEF UInv, Phases
<1>4. CASE UNCHANGED <<vars, rw, pend, pRoute, iCancel>> /\
           ((st[s] = "gone" /\ st' = st) \/
            (ev[s] = "answer" /\ st[s] = "open" /\ st' = [st EXCEPT ![s] = "local"]))
    <2>1. \A t \in Streams : /\ st[t] = "gone" <=> st'[t] = "gone"
                             /\ t # s => st'[t] = st[t] /\ ev'[t] = ev[t]
                             /\ ev'[s] = "open" /\ st'[s] \in {"local", "gone"}
        BY <1>0, <1>1, <1>4 DEF UTypeOK, TaskTypes, ChannelTypes
    <2>2. UTypeOK'
        <3>1. TaskTypes'
            BY <1>0, <1>4 DEF UTypeOK, TaskTypes
        <3>2. ChannelTypes'
            BY <1>0, <1>1, <1>4 DEF UTypeOK, ChannelTypes
        <3> QED BY <1>0, <1>1, <1>2, <3>1, <3>2, TypesUntouched DEF UTypeOK
    <2>3. IInv' /\ HeldTogether'
        BY <1>4, LoopKept DEF UInv, HeldTogether, vars
    <2>4. StreamLoop'
        BY <1>1, <1>4, <2>1 DEF UInv, StreamLoop, clientVars
    <2>5. Backed'
        BY <1>1, <1>4, <2>1 DEF UInv, Backed, upVars
    <2>6. Phases'
        <3> SUFFICES ASSUME NEW t \in Streams
                     PROVE  /\ t \in route => ev'[t] = "open" /\ st'[t] # "local"
                            /\ st'[t] = "local" => ev'[t] = "open" /\ t \in MayAnswer
                            /\ t \in iCancel => st'[t] = "gone"
                            /\ t \in iEnd \cup whole \/ qEnd[t] => st'[t] # "open"
                            /\ bEnd[t] = "answer" => t \in whole \cup MayAnswer
                            /\ ev'[t] # "open" => ev'[t] = bEnd[t]
                            /\ st'[t] \in {"open", "half"} /\ ev'[t] = "open" => t \in route
            BY <1>1, <1>4 DEF Phases, upVars, backendVars
        <3>1. CASE t = s
            <4>1. ev[s] = "answer" /\ st[s] = "open" => s \in MayAnswer
                BY <1>1 DEF UInv, Phases
            <4> QED BY <1>1, <1>3, <1>4, <2>1, <3>1, <4>1 DEF UInv, Phases
        <3>2. CASE t # s
            BY <2>1, <3>2 DEF UInv, Phases
        <3> QED BY <3>1, <3>2
    <2>7. SendCreditConserved'
        BY <1>1, SendUntouched DEF upVars, backendVars
    <2> QED BY <2>2, <2>3, <2>4, <2>5, <2>6, <2>7 DEF UInv
<1>5. CASE \E told : Reclaim(pend[s]) /\ Retire(s, told)
    BY <1>1, <1>2, <1>5, EndsEarly DEF clientVars
<1>6. \/ UNCHANGED <<vars, rw, pend, pRoute, iCancel>> /\
           ((st[s] = "gone" /\ st' = st) \/
            (ev[s] = "answer" /\ st[s] = "open" /\ st' = [st EXCEPT ![s] = "local"]))
      \/ \E told : Reclaim(pend[s]) /\ Retire(s, told)
    <2>1. CASE st[s] = "gone"
        BY <2>1 DEF TakeEvent, taskVars
    <2>2. CASE ev[s] = "answer" /\ st[s] = "open"
        BY <2>2 DEF TakeEvent
    <2>3. CASE ev[s] = "answer" /\ st[s] = "half"
        BY <2>3 DEF TakeEvent
    <2>4. CASE ev[s] = "reset" /\ st[s] # "gone"
        BY <2>4 DEF TakeEvent
    <2> QED BY <1>1, <1>3, <2>1, <2>2, <2>3, <2>4
<1> QED BY <1>4, <1>5, <1>6

\* What is confirmed leaves both windows' books, and they still balance.
LEMMA TakeAcceptedStep ==
    ASSUME UInv, NEW s \in Streams, NEW n \in Nat, TakeAccepted(s, n)
    PROVE  UInv'
<1>0. UTypeOK /\ IInv
    BY DEF UInv
<1>1. /\ UNCHANGED <<left, cCredit, cFlight, cEnd, st, pRoute, inbox, iEnd, iCancel, ev, upVars, backendVars>>
      /\ acc' = [acc EXCEPT ![s] = @ - n] /\ n \in 1..acc[s]
    BY DEF TakeAccepted
<1>2. /\ acc[s] \in Nat /\ pend[s] \in Nat /\ inbox[s] \in Nat /\ queue[s] \in Nat
      /\ acc' \in [Streams -> Nat] /\ acc'[s] = acc[s] - n /\ held \in Nat
    BY <1>0, <1>1, HeldMoves DEF UTypeOK, ChannelTypes, TaskTypes, UpTypes
<1>3. ChannelTypes'
    BY <1>0, <1>1, <1>2 DEF UTypeOK, ChannelTypes
<1>4. SendCreditConserved'
    BY <1>1, SendUntouched DEF upVars, backendVars
<1>5. Phases'
    BY <1>1 DEF UInv, Phases, upVars, backendVars
<1>6. CASE st[s] = "gone"
    <2>1. UNCHANGED <<vars, rw, pend, cUpdate>>
        BY <1>6 DEF TakeAccepted
    <2>2. IInv' /\ StreamLoop' /\ HeldTogether'
        BY <1>1, <2>1, LoopsUntouched
    <2>3. UTypeOK'
        BY <1>0, <1>1, <1>3, <2>1, TypesUntouched DEF UTypeOK, clientVars, taskVars
    <2>4. Backed'
        BY <1>0, <1>1, <1>6, <2>1 DEF UInv, Backed, upVars, UTypeOK, ChannelTypes
    <2> QED BY <1>4, <1>5, <2>2, <2>3, <2>4 DEF UInv
<1>7. CASE st[s] # "gone"
    <2> DEFINE inc == Increment(rw[s], n, StreamInitial)
    <2>1. /\ Hand(n) /\ rw' = [rw EXCEPT ![s] = Release(@, n, StreamInitial)]
          /\ pend' = [pend EXCEPT ![s] = @ - Lesser(n, @)]
          /\ cUpdate' = [cUpdate EXCEPT ![s] = @ + inc]
        BY <1>7 DEF TakeAccepted
    <2>2. inbox[s] + queue[s] + acc[s] <= pend[s]
        BY <1>7 DEF UInv, Backed
    <2>3. n <= pend[s] /\ Lesser(n, pend[s]) = n /\ pend[s] - n \in Nat
        BY <1>1, <1>2, <2>2 DEF Lesser
    <2>4. /\ rw[s] \in RecvWindow /\ rw[s].window \in Int /\ rw[s].unreleased \in Nat
          /\ 2 * rw[s].unreleased < StreamInitial
        BY <1>0, <1>7 DEF UInv, StreamLoop, UTypeOK, TaskTypes, RecvWindow
    <2>5. rw'[s] = Release(rw[s], n, StreamInitial)
        BY <1>0, <2>1 DEF UTypeOK, TaskTypes
    <2>6. /\ rw'[s] \in RecvWindow /\ inc \in Nat /\ rw'[s].window = rw[s].window + inc
          /\ rw'[s].window + rw'[s].unreleased = rw[s].window + rw[s].unreleased + n
          /\ 2 * rw'[s].unreleased < StreamInitial
          /\ rw'[s].window \in Int /\ rw'[s].unreleased \in Nat
        <3> DEFINE r  == rw[s]
                   r2 == Release(r, n, StreamInitial)
        <3>1. /\ r \in RecvWindow /\ n \in Nat /\ StreamInitial \in Nat \ {0}
              /\ 2 * r.unreleased < StreamInitial
            BY <1>1, <1>2, <2>4, Sizes
        <3>2. rw'[s] = r2 /\ inc = Increment(r, n, StreamInitial)
            BY <2>5
        <3> HIDE DEF r, inc
        <3>3. /\ r2 \in RecvWindow /\ Increment(r, n, StreamInitial) \in Nat
              /\ r2.window = r.window + Increment(r, n, StreamInitial)
              /\ r2.window + r2.unreleased = r.window + r.unreleased + n
              /\ 2 * r2.unreleased < StreamInitial
            BY <3>1, ReleaseEffect
        <3>4. r2.window \in Int /\ r2.unreleased \in Nat
            BY <3>3 DEF RecvWindow
        <3> HIDE DEF r2
        <3> QED BY <3>2, <3>3, <3>4 DEF r
    <2> HIDE DEF inc
    <2>7. pend' = [pend EXCEPT ![s] = pend[s] - n] /\ pend'[s] = pend[s] - n
        BY <1>0, <2>1, <2>3 DEF UTypeOK, TaskTypes
    <2>8. IInv' /\ held' = held - n
        BY <1>0, <2>1, LoopKept, HeldMoves
    <2>9. UTypeOK'
        <3>1. TaskTypes'
            <4>1. rw' \in [Streams -> RecvWindow]
                BY <1>0, <2>1, <2>6 DEF UTypeOK, TaskTypes
            <4>2. pend' \in [Streams -> Nat]
                BY <1>0, <2>3, <2>7 DEF UTypeOK, TaskTypes
            <4> QED BY <1>0, <1>1, <4>1, <4>2 DEF UTypeOK, TaskTypes
        <3>2. ClientTypes'
            BY <1>0, <1>1, <2>1, <2>6 DEF UTypeOK, ClientTypes
        <3> QED BY <1>0, <1>1, <1>3, <3>1, <3>2, TypesUntouched DEF UTypeOK
    <2>10. HeldTogether'
        <3>1. held' = held - pend[s] + (pend[s] - n)
            BY <1>2, <2>3, <2>8
        <3> QED BY <2>3, <2>7, <3>1, HeldFollows
    <2>11. StreamLoop'
        <3> SUFFICES ASSUME NEW t \in Streams, st[t] # "gone"
                     PROVE  /\ cCredit[t] + cFlight[t] + cUpdate'[t] = rw'[t].window
                            /\ rw'[t].window + rw'[t].unreleased + pend'[t] = StreamInitial
                            /\ 2 * rw'[t].unreleased < StreamInitial
            BY <1>1 DEF StreamLoop
        <3>1. CASE t = s
            <4>1. /\ cCredit[s] \in Nat /\ cFlight[s] \in Nat /\ cUpdate[s] \in Nat
                  /\ cUpdate'[s] = cUpdate[s] + inc
                BY <1>0, <2>1 DEF UTypeOK, ClientTypes
            <4>2. /\ cCredit[s] + cFlight[s] + cUpdate[s] = rw[s].window
                  /\ rw[s].window + rw[s].unreleased + pend[s] = StreamInitial
                BY <1>7 DEF UInv, StreamLoop
            <4>3. cCredit[s] + cFlight[s] + cUpdate'[s] = rw'[s].window
                BY <2>4, <2>6, <4>1, <4>2
            <4>4. rw'[s].window + rw'[s].unreleased + pend'[s] = StreamInitial
                BY <1>2, <2>4, <2>6, <2>7, <4>2
            <4> QED BY <2>6, <3>1, <4>3, <4>4
        <3>2. CASE t # s
            BY <1>0, <2>1, <3>2 DEF UInv, StreamLoop, UTypeOK, ClientTypes, TaskTypes
        <3> QED BY <3>1, <3>2
    <2>12. Backed'
        <3> SUFFICES ASSUME NEW t \in Streams, st[t] # "gone"
                     PROVE  /\ inbox[t] + queue[t] + acc'[t] <= pend'[t]
                            /\ st[t] # "local" /\ ev[t] = "open" => inbox[t] + queue[t] + acc'[t] = pend'[t]
            BY <1>1 DEF Backed, upVars
        <3>1. CASE t = s
            <4>1. st[s] # "local" /\ ev[s] = "open" => inbox[s] + queue[s] + acc[s] = pend[s]
                BY <1>7 DEF UInv, Backed
            <4> QED BY <1>1, <1>2, <2>2, <2>7, <3>1, <4>1
        <3>2. CASE t # s
            BY <1>0, <1>1, <2>7, <3>2 DEF UInv, Backed, UTypeOK, ChannelTypes, TaskTypes
        <3> QED BY <3>1, <3>2
    <2> QED BY <1>4, <1>5, <2>8, <2>9, <2>10, <2>11, <2>12 DEF UInv
<1> QED BY <1>6, <1>7

-----------------------------------------------------------------------------
(* The upstream task and the backend. *)

\* The two tasks' own windows and what they hold are not theirs to move.
LEMMA UpstreamSide ==
    ASSUME UInv, UNCHANGED <<vars, clientVars, taskVars>>
    PROVE  IInv' /\ StreamLoop' /\ HeldTogether' /\ ClientTypes' /\ TaskTypes'
BY LoopsUntouched, TypesUntouched DEF clientVars, taskVars, UInv

LEMMA TakeBodyStep ==
    ASSUME UInv, NEW s \in Streams, TakeBody(s)
    PROVE  UInv'
<1>0. UTypeOK
    BY DEF UInv
<1>1. /\ UNCHANGED <<vars, clientVars, taskVars, iCancel, acc, ev, route, sw, kw, iw, backendVars>>
      /\ inbox' = [inbox EXCEPT ![s] = 0] /\ iEnd' = iEnd \ {s}
    BY DEF TakeBody
<1>2. \/ s \in route /\ queue' = [queue EXCEPT ![s] = @ + inbox[s]]
                     /\ qEnd' = [qEnd EXCEPT ![s] = @ \/ s \in iEnd]
      \/ s \notin route /\ queue' = queue /\ qEnd' = qEnd
    BY DEF TakeBody
<1>3. inbox[s] \in Nat /\ queue[s] \in Nat /\ acc[s] \in Nat /\ pend[s] \in Nat
    BY <1>0 DEF UTypeOK, ChannelTypes, UpTypes, TaskTypes
<1>4. UTypeOK'
    <2>1. ChannelTypes'
        BY <1>0, <1>1 DEF UTypeOK, ChannelTypes
    <2>2. queue' \in [Streams -> Nat]
        BY <1>0, <1>2, <1>3 DEF UTypeOK, UpTypes
    <2>3. qEnd' \in [Streams -> BOOLEAN]
        <3>1. qEnd \in [Streams -> BOOLEAN]
            BY <1>0 DEF UTypeOK, UpTypes
        <3>2. (qEnd[s] \/ s \in iEnd) \in BOOLEAN
            OBVIOUS
        <3>3. qEnd' = qEnd \/ qEnd' = [qEnd EXCEPT ![s] = qEnd[s] \/ s \in iEnd]
            BY <1>2, Zenon
        <3> QED BY <3>1, <3>2, <3>3, Zenon
    <2>4. UpTypes'
        BY <1>0, <1>1, <2>2, <2>3 DEF UTypeOK, UpTypes
    <2> QED BY <1>0, <1>1, <2>1, <2>4, UpstreamSide, TypesUntouched DEF UTypeOK
<1>5. Backed'
    <2> SUFFICES ASSUME NEW t \in Streams, st[t] # "gone"
                 PROVE  /\ inbox'[t] + queue'[t] + acc[t] <= pend[t]
                        /\ st[t] # "local" /\ ev[t] = "open" => inbox'[t] + queue'[t] + acc[t] = pend[t]
        BY <1>1 DEF Backed, taskVars
    <2>1. CASE t = s
        <3>1. inbox'[s] = 0 /\ inbox'[s] + queue'[s] + acc[s] <= inbox[s] + queue[s] + acc[s]
            BY <1>0, <1>1, <1>2, <1>3 DEF UTypeOK, ChannelTypes, UpTypes
        <3>2. s \in route => inbox'[s] + queue'[s] + acc[s] = inbox[s] + queue[s] + acc[s]
            BY <1>0, <1>1, <1>2, <1>3 DEF UTypeOK, ChannelTypes, UpTypes
        <3>3. st[s] # "local" /\ ev[s] = "open" => s \in route
            BY <1>0, <2>1 DEF UInv, Phases, UTypeOK, TaskTypes
        <3>4. /\ inbox[s] + queue[s] + acc[s] <= pend[s]
              /\ st[s] # "local" /\ ev[s] = "open" => inbox[s] + queue[s] + acc[s] = pend[s]
            BY <2>1 DEF UInv, Backed
        <3>5. inbox'[s] \in Nat /\ queue'[s] \in Nat
            BY <1>4 DEF UTypeOK, ChannelTypes, UpTypes
        <3> QED BY <2>1, <3>1, <3>2, <3>3, <3>4, <3>5, <1>3
    <2>2. CASE t # s
        BY <1>0, <1>1, <1>2, <2>2 DEF UInv, Backed, UTypeOK, ChannelTypes, UpTypes
    <2> QED BY <2>1, <2>2
<1>6. Phases'
    <2>1. \A t \in Streams : qEnd'[t] => qEnd[t] \/ t \in iEnd
        BY <1>0, <1>2 DEF UTypeOK, UpTypes
    <2> QED BY <1>1, <2>1 DEF UInv, Phases, taskVars, backendVars
<1>7. SendCreditConserved'
    BY <1>1, SendUntouched DEF backendVars
<1> QED BY <1>1, <1>4, <1>5, <1>6, <1>7, UpstreamSide DEF UInv

\* A request is forgotten: nothing more of it is queued, and its windows go.
LEMMA ForgetStep ==
    ASSUME UInv, NEW s \in Streams, Forget(s),
           UNCHANGED <<vars, clientVars, taskVars, inbox, iEnd, acc, kw, iw, backendVars>>,
           \/ s \in iCancel /\ iCancel' = iCancel \ {s} /\ ev' = ev
           \/ s \in route /\ iCancel' = iCancel /\ bEnd[s] # "open" /\ ev' = [ev EXCEPT ![s] = bEnd[s]]
    PROVE  UInv'
<1>0. UTypeOK
    BY DEF UInv
<1>1. inbox[s] \in Nat /\ queue[s] \in Nat /\ acc[s] \in Nat /\ pend[s] \in Nat
    BY <1>0 DEF UTypeOK, ChannelTypes, UpTypes, TaskTypes
<1>2. UTypeOK'
    <2>1. ChannelTypes'
        BY <1>0 DEF UTypeOK, ChannelTypes, BackendTypes
    <2>2. queue' \in [Streams -> Nat] /\ sw' \in [Streams -> Int] /\ route' \subseteq Streams
        BY <1>0 DEF Forget, UTypeOK, UpTypes
    <2>3. qEnd' \in [Streams -> BOOLEAN]
        BY <1>0, Zenon DEF Forget, UTypeOK, UpTypes
    <2>4. UpTypes'
        BY <1>0, <2>2, <2>3 DEF UTypeOK, UpTypes
    <2> QED BY <1>0, <2>1, <2>4, UpstreamSide, TypesUntouched DEF UTypeOK
<1>3. st[s] = "gone" \/ (ev'[s] # "open" /\ ev'[s] = bEnd[s] /\ st[s] # "local")
    BY <1>0 DEF UInv, Phases, UTypeOK, ChannelTypes
<1>4. \A t \in Streams : t # s => ev'[t] = ev[t]
    BY <1>0 DEF UTypeOK, ChannelTypes
<1>5. Backed'
    <2> SUFFICES ASSUME NEW t \in Streams, st[t] # "gone"
                 PROVE  /\ inbox[t] + queue'[t] + acc[t] <= pend[t]
                        /\ st[t] # "local" /\ ev'[t] = "open" => inbox[t] + queue'[t] + acc[t] = pend[t]
        BY DEF Backed, taskVars
    <2>1. CASE t = s
        <3>1. queue'[s] = 0 /\ inbox[s] + queue[s] + acc[s] <= pend[s]
            BY <1>0, <2>1 DEF Forget, UInv, Backed, UTypeOK, UpTypes
        <3> QED BY <1>1, <1>3, <2>1, <3>1
    <2>2. CASE t # s
        BY <1>0, <1>4, <2>2 DEF Forget, UInv, Backed, UTypeOK, UpTypes
    <2> QED BY <2>1, <2>2
<1>6. Phases'
    <2> SUFFICES ASSUME NEW t \in Streams
                 PROVE  /\ t \in route' => ev'[t] = "open" /\ st[t] # "local"
                        /\ st[t] = "local" => ev'[t] = "open" /\ t \in MayAnswer
                        /\ t \in iCancel' => st[t] = "gone"
                        /\ t \in iEnd \cup whole \/ qEnd'[t] => st[t] # "open"
                        /\ bEnd[t] = "answer" => t \in whole \cup MayAnswer
                        /\ ev'[t] # "open" => ev'[t] = bEnd[t]
                        /\ st[t] \in {"open", "half"} /\ ev'[t] = "open" => t \in route'
        BY DEF Phases, taskVars, backendVars
    <2>1. CASE t = s
        <3>1. s \notin route' /\ ~qEnd'[s]
            BY <1>0 DEF Forget, UTypeOK, UpTypes
        <3>2. /\ s \in iCancel' => st[s] = "gone"
              /\ s \in iEnd \cup whole => st[s] # "open"
              /\ bEnd[s] = "answer" => s \in whole \cup MayAnswer
            BY DEF UInv, Phases
        <3>3. /\ ev'[s] # "open" => ev'[s] = bEnd[s]
              /\ st[s] \in {"open", "half"} => ev'[s] # "open"
              /\ st[s] # "local"
            <4>1. CASE st[s] = "gone" /\ ev' = ev
                BY <4>1 DEF UInv, Phases
            <4>2. CASE ev'[s] # "open" /\ ev'[s] = bEnd[s] /\ st[s] # "local"
                BY <4>2
            <4>3. st[s] = "gone" => ev' = ev \/ ev'[s] = bEnd[s]
                BY <1>0 DEF UTypeOK, ChannelTypes
            <4> QED BY <1>3, <4>1, <4>2, <4>3
        <3> QED BY <2>1, <3>1, <3>2, <3>3
    <2>2. CASE t # s
        <3>1. /\ t \in route' <=> t \in route
              /\ qEnd'[t] = qEnd[t] /\ ev'[t] = ev[t] /\ (t \in iCancel' => t \in iCancel)
            BY <1>0, <1>4, <2>2 DEF Forget, UTypeOK, UpTypes
        <3>2. /\ t \in route => ev[t] = "open" /\ st[t] # "local"
              /\ st[t] = "local" => ev[t] = "open" /\ t \in MayAnswer
              /\ t \in iCancel => st[t] = "gone"
              /\ t \in iEnd \cup whole \/ qEnd[t] => st[t] # "open"
              /\ bEnd[t] = "answer" => t \in whole \cup MayAnswer
              /\ ev[t] # "open" => ev[t] = bEnd[t]
              /\ st[t] \in {"open", "half"} /\ ev[t] = "open" => t \in route
            BY DEF UInv, Phases
        <3> QED BY <3>1, <3>2
    <2> QED BY <2>1, <2>2
<1>7. SendCreditConserved'
    BY <1>0 DEF Forget, UInv, SendCreditConserved, backendVars, UTypeOK, UpTypes
<1> QED BY <1>2, <1>5, <1>6, <1>7, UpstreamSide DEF UInv

LEMMA VisitStep ==
    ASSUME UInv, NEW s \in Streams, Visit(s)
    PROVE  UInv'
<1>0. UTypeOK
    BY DEF UInv
<1> DEFINE n   == IF Budget(s) < 0 THEN 0 ELSE Lesser(queue[s], Budget(s))
           end == qEnd[s] /\ n = queue[s]
<1>1. /\ UNCHANGED <<vars, clientVars, taskVars, inbox, iEnd, iCancel, ev, route, iw,
                     bUpdate, kUpdate, bEnd, sizes, changes>>
      /\ s \in route
      /\ queue' = [queue EXCEPT ![s] = @ - n] /\ qEnd' = [qEnd EXCEPT ![s] = @ /\ ~end]
      /\ sw' = [sw EXCEPT ![s] = @ - n] /\ kw' = kw - n
      /\ bHeld' = [bHeld EXCEPT ![s] = @ + n]
      /\ whole' = IF end THEN whole \cup {s} ELSE whole
      /\ acc' = [acc EXCEPT ![s] = @ + n]
    BY DEF Visit
<1>2. /\ inbox[s] \in Nat /\ queue[s] \in Nat /\ acc[s] \in Nat /\ pend[s] \in Nat
      /\ sw[s] \in Int /\ kw \in Int /\ iw \in Int /\ bHeld[s] \in Nat /\ bUpdate[s] \in Nat
    BY <1>0 DEF UTypeOK, ChannelTypes, UpTypes, TaskTypes, BackendTypes
<1>3. n \in 0..queue[s]
    <2>1. SendBudget \in Nat
        BY UploadAssumption
    <2> QED BY <1>2, <2>1 DEF Budget, Lesser
<1> HIDE DEF n
<1>4. queue[s] - n \in Nat /\ n \in Nat
    BY <1>2, <1>3
<1>5. UTypeOK'
    <2>1. queue' \in [Streams -> Nat] /\ sw' \in [Streams -> Int] /\ kw' \in Int
        BY <1>0, <1>1, <1>2, <1>4 DEF UTypeOK, UpTypes
    <2>2. qEnd' \in [Streams -> BOOLEAN]
        <3>1. qEnd \in [Streams -> BOOLEAN]
            BY <1>0 DEF UTypeOK, UpTypes
        <3> HIDE DEF end
        <3>2. (qEnd[s] /\ ~end) \in BOOLEAN /\ qEnd' = [qEnd EXCEPT ![s] = qEnd[s] /\ ~end]
            BY <1>1, Zenon
        <3> QED BY <3>1, <3>2, Zenon
    <2>3. UpTypes'
        BY <1>0, <1>1, <2>1, <2>2 DEF UTypeOK, UpTypes
    <2>4. ChannelTypes'
        BY <1>0, <1>1, <1>4 DEF UTypeOK, ChannelTypes
    <2>5. BackendTypes'
        BY <1>0, <1>1, <1>4 DEF UTypeOK, BackendTypes
    <2> QED BY <1>1, <2>3, <2>4, <2>5, UpstreamSide DEF UTypeOK
<1>6. Backed'
    <2> SUFFICES ASSUME NEW t \in Streams, st[t] # "gone"
                 PROVE  /\ inbox[t] + queue'[t] + acc'[t] <= pend[t]
                        /\ st[t] # "local" /\ ev[t] = "open" => inbox[t] + queue'[t] + acc'[t] = pend[t]
        BY <1>1 DEF Backed, taskVars
    <2>1. CASE t = s
        <3>1. queue'[s] = queue[s] - n /\ acc'[s] = acc[s] + n
            BY <1>0, <1>1 DEF UTypeOK, UpTypes, ChannelTypes
        <3>2. /\ inbox[s] + queue[s] + acc[s] <= pend[s]
              /\ st[s] # "local" /\ ev[s] = "open" => inbox[s] + queue[s] + acc[s] = pend[s]
            BY <2>1 DEF UInv, Backed
        <3> QED BY <1>2, <1>4, <2>1, <3>1, <3>2
    <2>2. CASE t # s
        BY <1>0, <1>1, <2>2 DEF UInv, Backed, UTypeOK, UpTypes, ChannelTypes
    <2> QED BY <2>1, <2>2
<1>7. Phases'
    <2>1. \A t \in Streams : (qEnd'[t] => qEnd[t]) /\ (t \in whole' => t \in whole \/ qEnd[t]) /\ (t \in whole => t \in whole')
        BY <1>0, <1>1 DEF UTypeOK, UpTypes
    <2> QED BY <1>1, <2>1 DEF UInv, Phases, taskVars
<1>8. SendCreditConserved'
    <2>1. bHeld[s] + n \in Nat /\ bHeld' = [bHeld EXCEPT ![s] = bHeld[s] + n]
        BY <1>1, <1>2, <1>4
    <2>2. Total(bHeld') = Total(bHeld) - bHeld[s] + (bHeld[s] + n) /\ Total(bHeld) \in Nat
        <3>1. bHeld \in [Streams -> Nat] /\ IsFiniteSet(Streams)
            BY <1>0, Sizes DEF UTypeOK, BackendTypes
        <3> DEFINE m == bHeld[s] + n
        <3>2. m \in Nat /\ bHeld' = [bHeld EXCEPT ![s] = m]
            BY <2>1
        <3> HIDE DEF m
        <3>3. Total(bHeld') = Total(bHeld) - bHeld[s] + m /\ Total(bHeld) \in Nat
            BY <3>1, <3>2, TotalExcept
        <3> QED BY <3>3 DEF m
    <2>3. kw' + kUpdate + Total(bHeld') = BackendConn
        BY <1>0, <1>1, <1>2, <1>4, <2>2 DEF UInv, SendCreditConserved, UTypeOK, BackendTypes
    <2>4. ASSUME NEW t \in route PROVE sw'[t] + bUpdate[t] + bHeld'[t] = iw
        BY <1>0, <1>1, <1>2, <1>4 DEF UInv, SendCreditConserved, UTypeOK, UpTypes, BackendTypes
    <2> QED BY <1>1, <2>3, <2>4 DEF SendCreditConserved
<1> QED BY <1>1, <1>5, <1>6, <1>7, <1>8, UpstreamSide DEF UInv

\* Credit arrives, or a size: every window moves by what the books say.
LEMMA UpTypesOnly ==
    ASSUME UInv, UpTypes', BackendTypes', SendCreditConserved',
           UNCHANGED <<vars, clientVars, taskVars, channels, route, queue, qEnd, whole, bEnd>>
    PROVE  UInv'
<1>1. UTypeOK'
    BY TypesUntouched DEF UInv, UTypeOK
<1>2. Backed' /\ Phases'
    BY DEF UInv, Backed, Phases, taskVars, channels
<1> QED BY <1>1, <1>2, UpstreamSide DEF UInv

LEMMA RecvUpdateStep ==
    ASSUME UInv, NEW s \in Streams, RecvUpdate(s)
    PROVE  UInv'
<1>0. UTypeOK
    BY DEF UInv
<1>1. /\ UNCHANGED <<vars, clientVars, taskVars, channels, route, queue, qEnd, kw, iw,
                     bHeld, kUpdate, whole, bEnd, sizes, changes>>
      /\ bUpdate' = [bUpdate EXCEPT ![s] = 0]
      /\ sw' = IF s \in route THEN [sw EXCEPT ![s] = @ + bUpdate[s]] ELSE sw
    BY DEF RecvUpdate
<1>2. UpTypes'
    <2>1. sw' \in [Streams -> Int]
        BY <1>0, <1>1 DEF UTypeOK, UpTypes, BackendTypes
    <2> QED BY <1>0, <1>1, <2>1 DEF UTypeOK, UpTypes
<1>3. BackendTypes'
    BY <1>0, <1>1 DEF UTypeOK, BackendTypes
<1>4. SendCreditConserved'
    <2> SUFFICES ASSUME NEW t \in route PROVE sw'[t] + bUpdate'[t] + bHeld[t] = iw
        BY <1>1 DEF UInv, SendCreditConserved
    <2>1. sw[t] + bUpdate[t] + bHeld[t] = iw /\ t \in Streams
        BY <1>0 DEF UInv, SendCreditConserved, UTypeOK, UpTypes
    <2>2. CASE t = s
        BY <1>0, <1>1, <2>1, <2>2 DEF UTypeOK, UpTypes, BackendTypes
    <2>3. CASE t # s
        BY <1>0, <1>1, <2>1, <2>3 DEF UTypeOK, UpTypes, BackendTypes
    <2> QED BY <2>2, <2>3
<1> QED BY <1>1, <1>2, <1>3, <1>4, UpTypesOnly

LEMMA RecvConnUpdateStep == UInv /\ RecvConnUpdate => UInv'
<1> SUFFICES ASSUME UInv, RecvConnUpdate PROVE UInv'
    OBVIOUS
<1>0. UTypeOK
    BY DEF UInv
<1>1. /\ UNCHANGED <<vars, clientVars, taskVars, channels, route, queue, qEnd, sw, iw,
                     bHeld, bUpdate, whole, bEnd, sizes, changes>>
      /\ kUpdate' = 0 /\ kw' = kw + kUpdate
    BY DEF RecvConnUpdate
<1>2. UpTypes' /\ BackendTypes'
    BY <1>0, <1>1 DEF UTypeOK, UpTypes, BackendTypes
<1>3. SendCreditConserved'
    BY <1>0, <1>1 DEF UInv, SendCreditConserved, UTypeOK, UpTypes, BackendTypes
<1> QED BY <1>1, <1>2, <1>3, UpTypesOnly

LEMMA RecvSettingsStep == UInv /\ RecvSettings => UInv'
<1> SUFFICES ASSUME UInv, RecvSettings PROVE UInv'
    OBVIOUS
<1>0. UTypeOK
    BY DEF UInv
<1> DEFINE delta == sizes[2] - sizes[1]
<1>1. /\ UNCHANGED <<vars, clientVars, taskVars, channels, route, queue, qEnd, kw,
                     bHeld, bUpdate, kUpdate, whole, bEnd, changes>>
      /\ sizes' = Tail(sizes) /\ Len(sizes) > 1
      /\ sw' = [t \in Streams |-> IF t \in route THEN sw[t] + delta ELSE sw[t]]
      /\ iw' = iw + delta
    BY DEF RecvSettings, ApplySize
<1>2. delta \in Int /\ sizes' \in Seq(BackendSizes) /\ sizes' # <<>>
    <2>1. sizes \in Seq(BackendSizes)
        BY <1>0 DEF UTypeOK, BackendTypes
    <2>2. sizes[1] \in BackendSizes /\ sizes[2] \in BackendSizes
        BY <1>1, <2>1
    <2>3. sizes' \in Seq(BackendSizes) /\ sizes' # <<>>
        BY <1>1, <2>1
    <2>4. delta \in Int
        <3>1. \A i, j \in BackendSizes : i - j \in Int
            BY Sizes
        <3> QED BY <2>2, <3>1
    <2> HIDE DEF delta
    <2> QED BY <2>3, <2>4
<1> HIDE DEF delta
<1>3. UpTypes' /\ BackendTypes'
    <2>1. sw' \in [Streams -> Int]
        BY <1>0, <1>1, <1>2 DEF UTypeOK, UpTypes
    <2>2. UpTypes'
        BY <1>0, <1>1, <1>2, <2>1 DEF UTypeOK, UpTypes
    <2>3. BackendTypes'
        BY <1>0, <1>1, <1>2 DEF UTypeOK, BackendTypes
    <2> QED BY <2>2, <2>3
<1>4. SendCreditConserved'
    <2>1. ASSUME NEW t \in route PROVE sw'[t] + bUpdate[t] + bHeld[t] = iw'
        <3>1. /\ sw[t] + bUpdate[t] + bHeld[t] = iw /\ t \in Streams /\ sw[t] \in Int
              /\ bUpdate[t] \in Nat /\ bHeld[t] \in Nat
            BY <1>0 DEF UInv, SendCreditConserved, UTypeOK, UpTypes, BackendTypes
        <3>2. sw'[t] = sw[t] + delta /\ iw' = iw + delta
            BY <1>1, <3>1
        <3> QED BY <1>2, <3>1, <3>2
    <2> QED BY <1>1, <2>1 DEF UInv, SendCreditConserved
<1> QED BY <1>1, <1>3, <1>4, UpTypesOnly

LEMMA RouteEndsStep ==
    ASSUME UInv, NEW s \in Streams, TakeCancel(s) \/ RecvEnding(s)
    PROVE  UInv'
BY ForgetStep DEF TakeCancel, RecvEnding

LEMMA BackendCreditsStep ==
    ASSUME UInv, NEW s \in Streams, BackendCredits(s)
    PROVE  UInv'
<1>0. UTypeOK
    BY DEF UInv
<1>1. /\ UNCHANGED <<vars, clientVars, taskVars, channels, upVars, whole, bEnd, sizes, changes>>
      /\ bHeld' = [bHeld EXCEPT ![s] = 0] /\ kUpdate' = kUpdate + bHeld[s]
      /\ bUpdate' = IF s \in route THEN [bUpdate EXCEPT ![s] = @ + bHeld[s]] ELSE bUpdate
    BY DEF BackendCredits
<1>2. bHeld \in [Streams -> Nat] /\ bUpdate \in [Streams -> Nat] /\ kUpdate \in Nat /\ kw \in Int
    BY <1>0 DEF UTypeOK, UpTypes, BackendTypes
<1>3. UpTypes' /\ BackendTypes'
    <2>1. bUpdate' \in [Streams -> Nat] /\ bHeld' \in [Streams -> Nat] /\ kUpdate' \in Nat
        BY <1>1, <1>2
    <2> QED BY <1>0, <1>1, <2>1, TypesUntouched DEF UTypeOK, BackendTypes
<1>4. SendCreditConserved'
    <2>1. IsFiniteSet(Streams) /\ 0 \in Nat
        BY Sizes
    <2>2. Total(bHeld') = Total(bHeld) - bHeld[s] + 0 /\ Total(bHeld) \in Nat
        BY <1>1, <1>2, <2>1, TotalExcept
    <2>3. kw' + kUpdate' + Total(bHeld') = BackendConn
        BY <1>1, <1>2, <2>2 DEF UInv, SendCreditConserved, upVars
    <2>4. ASSUME NEW t \in route PROVE sw[t] + bUpdate'[t] + bHeld'[t] = iw
        <3>1. sw[t] + bUpdate[t] + bHeld[t] = iw /\ t \in Streams /\ sw[t] \in Int
            BY <1>0 DEF UInv, SendCreditConserved, UTypeOK, UpTypes
        <3> QED BY <1>1, <1>2, <3>1
    <2> QED BY <1>1, <2>3, <2>4 DEF SendCreditConserved, upVars
<1> QED BY <1>1, <1>3, <1>4, UpTypesOnly DEF upVars

LEMMA BackendTurnStep ==
    ASSUME UInv, NEW s \in Streams, BackendAnswers(s) \/ BackendResets(s)
    PROVE  UInv'
<1>0. UTypeOK
    BY DEF UInv
<1>1. /\ UNCHANGED <<vars, clientVars, taskVars, channels, upVars,
                     bHeld, bUpdate, kUpdate, whole, sizes, changes>>
      /\ s \in route
      /\ \/ bEnd' = [bEnd EXCEPT ![s] = "answer"] /\ s \in whole \cup MayAnswer
         \/ bEnd' = [bEnd EXCEPT ![s] = "reset"]
    BY DEF BackendAnswers, BackendResets
<1>2. BackendTypes'
    BY <1>0, <1>1 DEF UTypeOK, BackendTypes
<1>3. UTypeOK'
    BY <1>0, <1>1, <1>2, UpstreamSide, TypesUntouched DEF UTypeOK
<1>4. Backed'
    BY <1>1 DEF UInv, Backed, taskVars, channels, upVars
<1>5. Phases'
    <2>1. ev[s] = "open"
        BY <1>1 DEF UInv, Phases
    <2>2. \A t \in Streams : t # s => bEnd'[t] = bEnd[t]
        BY <1>0, <1>1 DEF UTypeOK, BackendTypes
    <2>3. bEnd'[s] = "answer" => s \in whole \cup MayAnswer
        BY <1>0, <1>1 DEF UTypeOK, BackendTypes
    <2> QED BY <1>1, <2>1, <2>2, <2>3 DEF UInv, Phases, taskVars, channels, upVars
<1>6. SendCreditConserved'
    BY <1>1, SendUntouched DEF upVars
<1> QED BY <1>1, <1>3, <1>4, <1>5, <1>6, UpstreamSide DEF UInv

LEMMA BackendResizesStep ==
    ASSUME UInv, NEW n \in BackendSizes, BackendResizes(n)
    PROVE  UInv'
<1>1. /\ UNCHANGED <<vars, clientVars, taskVars, channels, upVars,
                     bHeld, bUpdate, kUpdate, whole, bEnd>>
      /\ sizes' = Append(sizes, n)
    BY DEF BackendResizes
<1>2. BackendTypes'
    BY <1>1, SMTT(30) DEF UInv, UTypeOK, BackendTypes
<1>3. UpTypes' /\ SendCreditConserved'
    BY <1>1, SendUntouched, TypesUntouched DEF upVars, UInv
<1> QED BY <1>1, <1>2, <1>3, UpTypesOnly DEF upVars

-----------------------------------------------------------------------------
(* The theorems. *)

LEMMA NextUInv == UInv /\ [UNext]_all => UInv'
<1> SUFFICES ASSUME UInv, [UNext]_all PROVE UInv'
    OBVIOUS
<1>1. CASE UNCHANGED all
    <2>1. UNCHANGED <<vars, clientVars, taskVars, channels, upVars, backendVars>>
        BY <1>1 DEF all, upload
    <2>2. UpTypes' /\ BackendTypes' /\ SendCreditConserved'
        BY <2>1, SendUntouched, TypesUntouched DEF UInv, upVars, backendVars
    <2> QED BY <2>1, <2>2, UpTypesOnly DEF upVars, backendVars
<1>2. CASE Work
    <2>1. CASE ClientCredited \/ RecvConnUpdate \/ RecvSettings
        BY <2>1, ClientCreditedStep, RecvConnUpdateStep, RecvSettingsStep
    <2>2. ASSUME NEW s \in Streams,
                 ClientSend(s) \/ ClientEnds(s) \/ RecvRst(s) \/ TakeEvent(s) \/ TakeBody(s)
                 \/ TakeCancel(s) \/ Visit(s) \/ RecvUpdate(s) \/ RecvEnding(s) \/ BackendCredits(s)
          PROVE  UInv'
        BY <2>2, ClientSendStep, ClientTurnStep, RecvRstStep, TakeEventStep, TakeBodyStep,
           RouteEndsStep, VisitStep, RecvUpdateStep, BackendCreditsStep
    <2>3. ASSUME NEW s \in Streams, NEW n \in 0..Body[s], RecvData(s, n) \/ TakeAccepted(s, n)
          PROVE  UInv'
        <3>1. n \in Nat
            BY UploadAssumption
        <3> QED BY <2>3, <3>1, RecvDataStep, TakeAcceptedStep
    <2> QED BY <1>2, <2>1, <2>2, <2>3 DEF Work
<1>3. CASE Whim
    BY <1>3, ClientTurnStep, BackendTurnStep, BackendResizesStep DEF Whim
<1> QED BY <1>1, <1>2, <1>3 DEF UNext

\* What is true of every reachable state of an upload, whatever the sizes.
THEOREM UploadInvariant == USpec => []UInv
<1>1. UInit => UInv
    BY InitUInv
<1>2. UInv /\ [UNext]_all => UInv'
    BY NextUInv
<1> QED BY <1>1, <1>2, PTL DEF USpec

\* The connection window of the client is a CreditLoop whatever the streams do
\* (conn.rs, recv_data and release_recv_window): its books balance, and less
\* than half of it is kept back.
THEOREM UploadLoopHolds == USpec => []IInv
<1>1. UInv => IInv
    BY DEF UInv
<1> QED BY <1>1, UploadInvariant, PTL

\* Stream credit is conserved, and the streams together hold what the
\* connection window waits for.
THEOREM UploadCreditConserved == USpec => []StreamCreditConserved
<1>1. UInv => StreamCreditConserved
    BY DEF UInv, StreamLoop, HeldTogether, StreamCreditConserved
<1> QED BY <1>1, UploadInvariant, PTL

\* Towards the backend every window is the size in force less what it has not
\* credited, in whatever order SETTINGS, DATA and WINDOW_UPDATE cross.
THEOREM SendWindowsBalance == USpec => []SendCreditConserved
<1>1. UInv => SendCreditConserved
    BY DEF UInv
<1> QED BY <1>1, UploadInvariant, PTL

\* Where no backend answers before it has the whole body, every octet a stream
\* holds is on its way or acknowledged, until the stream is about to end.
THEOREM HeldIsOnItsWay ==
    ASSUME MayAnswer = {}
    PROVE  USpec => []HeldIsAwaited
<1>1. UInv => HeldIsAwaited
    <2> SUFFICES ASSUME UInv, NEW s \in Streams, st[s] # "gone", ev[s] = "open"
                 PROVE  pend[s] = inbox[s] + queue[s] + acc[s]
        BY DEF HeldIsAwaited
    <2>1. st[s] # "local"
        BY DEF UInv, Phases
    <2> QED BY <2>1 DEF UInv, Backed
<1> QED BY <1>1, UploadInvariant, PTL

\* And a backend that does answer early breaks that for the streams it answers
\* and for no other: what those hold waits for the end of their body.
OthersAwaited ==
    \A s \in Streams \ MayAnswer :
        st[s] # "gone" /\ ev[s] = "open" => pend[s] = inbox[s] + queue[s] + acc[s]

THEOREM EarlyAnswersHarmNoOther == USpec => []OthersAwaited
<1>1. UInv => OthersAwaited
    <2> SUFFICES ASSUME UInv, NEW s \in Streams \ MayAnswer, st[s] # "gone", ev[s] = "open"
                 PROVE  pend[s] = inbox[s] + queue[s] + acc[s]
        BY DEF OthersAwaited
    <2>1. st[s] # "local"
        BY DEF UInv, Phases
    <2> QED BY <2>1 DEF UInv, Backed
<1> QED BY <1>1, UploadInvariant, PTL
=============================================================================
