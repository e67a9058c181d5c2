--------------------------- MODULE CreditLoopProofs ---------------------------
(***************************************************************************)
(* For every window size, the credit loop conserves its credit, never      *)
(* overruns and never strands the sender.  The lemmas about windows and    *)
(* about the octets of several streams serve Upload and Bridge as well.    *)
(***************************************************************************)
EXTENDS CreditLoop, FiniteSetTheorems, TLAPS

(***************************************************************************)
(* What RecvWindow::record does to a well-formed window: the octets leave  *)
(* the outstanding credit and nothing else moves (flow.rs, `record`).      *)
(***************************************************************************)
LEMMA RecordEffect ==
    ASSUME NEW r \in RecvWindow, NEW n \in Nat
    PROVE  /\ Record(r, n) \in RecvWindow
           /\ Record(r, n).window = r.window - n
           /\ Record(r, n).unreleased = r.unreleased
  BY DEF Record, RecvWindow

(***************************************************************************)
(* What RecvWindow::release does: consumed octets become credit or are     *)
(* kept back, none vanish, the increment returned is exactly what our own  *)
(* window gained, and less than half the window is ever kept back.         *)
(***************************************************************************)
LEMMA ReleaseEffect ==
    ASSUME NEW r \in RecvWindow, NEW m \in Nat, NEW initial \in Nat \ {0},
           2 * r.unreleased < initial
    PROVE  LET r2  == Release(r, m, initial)
               inc == Increment(r, m, initial)
           IN  /\ r2 \in RecvWindow
               /\ inc \in Nat
               /\ r2.window = r.window + inc
               /\ r2.window + r2.unreleased = r.window + r.unreleased + m
               /\ 2 * r2.unreleased < initial
  <1>1. CASE Due(r, m, initial)
    BY <1>1 DEF Release, Increment, RecvWindow
  <1>2. CASE ~Due(r, m, initial)
    BY <1>2 DEF Release, Increment, RecvWindow, Due
  <1> QED BY <1>1, <1>2

-----------------------------------------------------------------------------
(* The octets of several streams. *)

Octets(f, s) == {s} \X (1..f[s])
Others(S, f, s) == UNION {Octets(f, t) : t \in S \ {s}}

LEMMA OctetsCounted ==
    ASSUME NEW s, NEW n \in Nat
    PROVE  IsFiniteSet({s} \X (1..n)) /\ Cardinality({s} \X (1..n)) = n
  <1>1. IsFiniteSet({s}) /\ Cardinality({s}) = 1
    BY FS_Singleton
  <1>2. IsFiniteSet(1..n) /\ Cardinality(1..n) = n
    BY FS_Interval
  <1>3. /\ IsFiniteSet({s} \X (1..n))
        /\ Cardinality({s} \X (1..n)) = Cardinality({s}) * Cardinality(1..n)
    BY <1>1, <1>2, FS_Product
  <1> QED BY <1>1, <1>2, <1>3

LEMMA OthersFinite ==
    ASSUME NEW S, IsFiniteSet(S), NEW f \in [S -> Nat], NEW s
    PROVE  IsFiniteSet(Others(S, f, s))
  <1> DEFINE rest == S \ {s}
             each == {Octets(f, t) : t \in rest}
             enum == [t \in rest |-> Octets(f, t)]
  <1>1. IsFiniteSet(rest)
    BY FS_Subset
  <1>2. enum \in Surjection(rest, each)
    BY DEF Surjection
  <1>3. IsFiniteSet(each)
    BY <1>1, <1>2, FS_Surjection
  <1>4. \A o \in each : IsFiniteSet(o)
    <2>1. ASSUME NEW t \in rest PROVE IsFiniteSet(Octets(f, t))
      <3>1. f[t] \in Nat
        OBVIOUS
      <3> QED BY <3>1, OctetsCounted DEF Octets
    <2> QED BY <2>1
  <1> QED BY <1>3, <1>4, FS_UNION DEF Others

\* All octets are those of one stream and those of the others.
LEMMA TotalSplit ==
    ASSUME NEW S, IsFiniteSet(S), NEW f \in [S -> Nat], NEW s \in S
    PROVE  /\ Cardinality(Others(S, f, s)) \in Nat
           /\ Total(f) = Cardinality(Others(S, f, s)) + f[s]
  <1> DEFINE mine == Octets(f, s)
             theirs == Others(S, f, s)
  <1>1. IsFiniteSet(mine) /\ Cardinality(mine) = f[s] /\ f[s] \in Nat
    BY OctetsCounted DEF Octets
  <1>2. IsFiniteSet(theirs) /\ Cardinality(theirs) \in Nat
    BY OthersFinite, FS_CardinalityType
  <1>3. mine \cap theirs = {}
    BY DEF Octets, Others
  <1>4. UNION {{t} \X (1..f[t]) : t \in DOMAIN f} = theirs \cup mine
    BY DEF Octets, Others
  <1>5. Cardinality(theirs \cup mine) = Cardinality(theirs) + Cardinality(mine) - Cardinality(theirs \cap mine)
    BY <1>1, <1>2, FS_Union
  <1>6. Cardinality(theirs \cap mine) = 0
    BY <1>3, FS_EmptySet
  <1>7. Total(f) = Cardinality(theirs \cup mine)
    BY <1>4 DEF Total
  <1> HIDE DEF mine, theirs
  <1>8. Total(f) = Cardinality(theirs) + f[s]
    BY <1>1, <1>2, <1>5, <1>6, <1>7
  <1> QED BY <1>2, <1>8 DEF theirs

(***************************************************************************)
(* What giving one stream another number of octets does to the total.      *)
(***************************************************************************)
LEMMA TotalExcept ==
    ASSUME NEW S, IsFiniteSet(S), NEW f \in [S -> Nat], NEW s \in S, NEW n \in Nat
    PROVE  /\ Total(f) \in Nat /\ f[s] <= Total(f)
           /\ Total([f EXCEPT ![s] = n]) = Total(f) - f[s] + n
  <1> DEFINE g == [f EXCEPT ![s] = n]
  <1>1. g \in [S -> Nat] /\ g[s] = n /\ \A t \in S \ {s} : g[t] = f[t]
    OBVIOUS
  <1>2. Others(S, g, s) = Others(S, f, s)
    BY <1>1 DEF Others, Octets
  <1>3. /\ Cardinality(Others(S, f, s)) \in Nat
        /\ Total(f) = Cardinality(Others(S, f, s)) + f[s]
    BY TotalSplit
  <1> HIDE DEF g
  <1>4. Total(g) = Cardinality(Others(S, g, s)) + g[s]
    BY <1>1, TotalSplit
  <1>5. f[s] \in Nat
    OBVIOUS
  <1> QED BY <1>1, <1>2, <1>3, <1>4, <1>5 DEF g

\* No stream has any.
LEMMA TotalNone ==
    ASSUME NEW S, NEW f \in [S -> Nat], \A s \in S : f[s] = 0
    PROVE  Total(f) = 0
  <1>1. UNION {{t} \X (1..f[t]) : t \in DOMAIN f} = {}
    OBVIOUS
  <1> QED BY <1>1, FS_EmptySet DEF Total

-----------------------------------------------------------------------------
(***************************************************************************)
(* Conservation, typing and the half-window rule form one inductive        *)
(* invariant; every property of the loop is read off it.                   *)
(***************************************************************************)
LEMMA InitIInv == Init => IInv
  BY CreditLoopAssumption, MaxWindowAssumption
  DEF Init, IInv, TypeOK, Conservation, BelowHalf, NewRecvWindow, RecvWindow

LEMMA SendIInv ==
    ASSUME IInv, NEW n \in 1..credit, Send(n)
    PROVE  IInv'
  BY DEF IInv, TypeOK, Conservation, BelowHalf, Send, RecvWindow

LEMMA ArriveIInv ==
    ASSUME IInv, NEW n \in 0..flight, NEW m \in 0..(held + n), Arrive(n, m)
    PROVE  IInv'
  <1> DEFINE r == Record(recv, n)
  <1>0. /\ n \in Nat /\ m \in Nat
        /\ credit \in Nat /\ flight \in Nat /\ held \in Nat /\ update \in Nat
        /\ recv \in RecvWindow /\ recv.window \in Int /\ recv.unreleased \in Nat
        /\ Initial \in Nat \ {0}
        /\ credit + flight + update = recv.window
        /\ recv.window + held + recv.unreleased = Initial
    BY CreditLoopAssumption, MaxWindowAssumption
    DEF IInv, TypeOK, RecvWindow, Conservation
  <1>1. /\ r \in RecvWindow
        /\ r.window = recv.window - n
        /\ r.unreleased = recv.unreleased
    BY <1>0, RecordEffect
  <1>2. /\ flight' = flight - n /\ flight' \in Nat
        /\ held' = held + n - m /\ held' \in Nat
        /\ credit' = credit
    BY <1>0 DEF Arrive
  <1>3. CASE m = 0
    <2>1. recv' = r /\ update' = update
      BY <1>3 DEF Arrive
    <2> HIDE DEF r
    <2> QED
      BY <1>0, <1>1, <1>2, <1>3, <2>1 DEF IInv, TypeOK, Conservation, BelowHalf
  <1>4. CASE m # 0
    <2>1. /\ recv' = Release(r, m, Initial)
          /\ update' = update + Increment(r, m, Initial)
      BY <1>4 DEF Arrive, ReleaseFrom
    <2>2. 2 * r.unreleased < Initial
      BY <1>1 DEF IInv, BelowHalf
    <2> HIDE DEF r
    <2>3. /\ recv' \in RecvWindow
          /\ Increment(r, m, Initial) \in Nat
          /\ recv'.window = r.window + Increment(r, m, Initial)
          /\ recv'.window + recv'.unreleased = r.window + r.unreleased + m
          /\ 2 * recv'.unreleased < Initial
      <3>1. /\ r \in RecvWindow /\ m \in Nat /\ Initial \in Nat \ {0}
        BY <1>0, <1>1
      <3> QED BY <2>1, <2>2, <3>1, ReleaseEffect, Zenon
    <2>4. recv'.window \in Int /\ recv'.unreleased \in Nat
      BY <2>3 DEF RecvWindow
    <2>5. update' \in Nat
      BY <1>0, <2>1, <2>3
    <2>6. TypeOK'
      BY <1>2, <1>0, <2>3, <2>5 DEF TypeOK
    <2>7. Conservation'
      <3>1. recv'.window = recv.window - n + Increment(r, m, Initial)
        BY <1>1, <2>3
      <3>2. credit' + flight' + update' = recv'.window
        BY <1>0, <1>2, <2>1, <2>3, <3>1
      <3>3. recv'.window + held' + recv'.unreleased = Initial
        BY <1>0, <1>1, <1>2, <2>3, <2>4
      <3> QED BY <3>2, <3>3 DEF Conservation
    <2> QED
      BY <2>3, <2>6, <2>7 DEF IInv, BelowHalf
  <1> QED BY <1>3, <1>4

LEMMA HandIInv ==
    ASSUME IInv, NEW m \in 1..held, Hand(m)
    PROVE  IInv'
  <1>0. /\ m \in Nat
        /\ credit \in Nat /\ flight \in Nat /\ held \in Nat /\ update \in Nat
        /\ recv \in RecvWindow /\ recv.window \in Int /\ recv.unreleased \in Nat
        /\ Initial \in Nat \ {0}
        /\ 2 * recv.unreleased < Initial
        /\ credit + flight + update = recv.window
        /\ recv.window + held + recv.unreleased = Initial
    BY CreditLoopAssumption, MaxWindowAssumption
    DEF IInv, TypeOK, RecvWindow, BelowHalf, Conservation
  <1>1. /\ held' = held - m /\ held' \in Nat
        /\ credit' = credit /\ flight' = flight
        /\ recv' = Release(recv, m, Initial)
        /\ update' = update + Increment(recv, m, Initial)
    BY <1>0 DEF Hand, ReleaseFrom
  <1>2. /\ recv' \in RecvWindow
        /\ Increment(recv, m, Initial) \in Nat
        /\ recv'.window = recv.window + Increment(recv, m, Initial)
        /\ recv'.window + recv'.unreleased = recv.window + recv.unreleased + m
        /\ 2 * recv'.unreleased < Initial
    BY <1>0, <1>1, ReleaseEffect
  <1>3. recv'.window \in Int /\ recv'.unreleased \in Nat
    BY <1>2 DEF RecvWindow
  <1>4. update' \in Nat
    BY <1>0, <1>1, <1>2
  <1>5. TypeOK'
    BY <1>0, <1>1, <1>2, <1>4 DEF TypeOK
  <1>6. Conservation'
    BY <1>0, <1>1, <1>2, <1>3, <1>4 DEF Conservation
  <1> QED
    BY <1>2, <1>5, <1>6 DEF IInv, BelowHalf

LEMMA NextIInv == IInv /\ [Next]_vars => IInv'
  <1> SUFFICES ASSUME IInv, [Next]_vars PROVE IInv'
    OBVIOUS
  <1>1. ASSUME NEW n \in 1..credit, Send(n) PROVE IInv'
    BY <1>1, SendIInv
  <1>2. ASSUME NEW n \in 1..flight, NEW m \in 0..(held + n), Arrive(n, m)
        PROVE  IInv'
    BY <1>2, ArriveIInv
  <1>3. ASSUME NEW m \in 1..held, Hand(m) PROVE IInv'
    BY <1>3, HandIInv
  <1>4. CASE Credited
    BY <1>4 DEF Credited, IInv, TypeOK, Conservation, BelowHalf, RecvWindow
  <1>5. CASE UNCHANGED vars
    BY <1>5 DEF vars, IInv, TypeOK, Conservation, BelowHalf
  <1> QED BY <1>1, <1>2, <1>3, <1>4, <1>5 DEF Next

\* Credit is conserved and well typed, for every window size and every order
\* in which octets arrive, are held and are released.
THEOREM CreditConserved == Spec => []IInv
  <1>1. Init => IInv BY InitIInv
  <1>2. IInv /\ [Next]_vars => IInv' BY NextIInv
  <1> QED BY <1>1, <1>2, PTL DEF Spec

-----------------------------------------------------------------------------
\* A conforming sender never meets FLOW_CONTROL_ERROR at RecvWindow::record.
THEOREM OverrunImpossible == Spec => []NoOverrun
  <1>1. IInv => NoOverrun
    BY DEF IInv, TypeOK, Conservation, NoOverrun, RecvWindow
  <1> QED BY <1>1, CreditConserved, PTL

\* flow.rs:17-24 as a theorem: what is held here and in flight fits one window.
THEOREM HoldingBounded == Spec => []BoundedHolding
  <1>1. IInv => BoundedHolding
    BY DEF IInv, TypeOK, Conservation, BoundedHolding, RecvWindow
  <1> QED BY <1>1, CreditConserved, PTL

\* The half-window threshold never leaves the sender without a way to credit.
THEOREM NeverStranded == Spec => []NoStrandedCredit
  <1>1. IInv => NoStrandedCredit
    BY CreditLoopAssumption, MaxWindowAssumption
    DEF IInv, TypeOK, Conservation, BelowHalf, NoStrandedCredit, RecvWindow
  <1> QED BY <1>1, CreditConserved, PTL

=============================================================================
