---------------------------- MODULE IdWorkerProofs ----------------------------
(***************************************************************************)
(* The order numbers for any number of processes, any field widths and any *)
(* behaviour of the clocks.                                                *)
(***************************************************************************)
EXTENDS IdWorker, TLAPS

LEMMA TypeInit == Init => TypeOK
  BY SizeAssumption DEF Init, TypeOK

(***************************************************************************)
(* The arithmetic of the packed number: a later millisecond outweighs any  *)
(* sequence number, and the fields can be read back.                       *)
(***************************************************************************)
LEMMA Carry ==
  ASSUME NEW B \in Nat \ {0}, NEW x \in Int, NEW z \in Int,
         NEW y \in 0..(B - 1), NEW u \in 0..(B - 1), x < z
  PROVE  x * B + y < z * B + u
<1>1. z * B = x * B + (z - x) * B
  OBVIOUS
<1>2. (z - x) * B >= B
  <2>1. z - x >= 1 /\ z - x \in Nat
    OBVIOUS
  <2>2. \A k \in Nat : k >= 1 => k * B >= B
    OBVIOUS
  <2>3. QED
    BY <2>1, <2>2
<1>3. x * B \in Int /\ z * B \in Int /\ (z - x) * B \in Int
  OBVIOUS
<1>4. QED
  BY <1>1, <1>2, <1>3

LEMMA Digits ==
  ASSUME NEW B \in Nat \ {0}, NEW x \in Int, NEW z \in Int,
         NEW y \in 0..(B - 1), NEW u \in 0..(B - 1), x * B + y = z * B + u
  PROVE  x = z /\ y = u
<1>1. ~(x < z)
  <2> SUFFICES ASSUME x < z PROVE FALSE
    OBVIOUS
  <2>1. x * B + y < z * B + u
    BY Carry
  <2>2. x * B + y \in Int
    OBVIOUS
  <2>3. QED
    BY <2>1, <2>2
<1>2. ~(z < x)
  <2> SUFFICES ASSUME z < x PROVE FALSE
    OBVIOUS
  <2>1. z * B + u < x * B + y
    BY Carry
  <2>2. x * B + y \in Int
    OBVIOUS
  <2>3. QED
    BY <2>1, <2>2
<1>3. x = z
  BY <1>1, <1>2
<1>4. x * B \in Int
  OBVIOUS
<1>5. QED
  BY <1>3, <1>4

SeqNo == 0..(SeqSize - 1)

\* The number without its sequence field, in units of SeqSize.
Prefix(w, t) == t * NodeSize + NodeId[w]

LEMMA PrefixType ==
  ASSUME NEW w \in Worker, NEW t \in Int
  PROVE  Prefix(w, t) \in Int /\ (t >= 0 => Prefix(w, t) >= 0)
<1>1. NodeId[w] \in Nat /\ NodeSize \in Nat
  BY NodeAssumption, SizeAssumption
<1>2. t * NodeSize \in Int /\ (t >= 0 => t * NodeSize >= 0)
  BY <1>1
<1>3. QED
  BY <1>1, <1>2 DEF Prefix

LEMMA IdPrefix ==
  \A w, t, n : Id(w, t, n) = Prefix(w, t) * SeqSize + n
  BY DEF Id, Prefix

LEMMA IdType ==
  ASSUME NEW w \in Worker, NEW t \in Int, NEW n \in SeqNo
  PROVE  Id(w, t, n) \in Int /\ (t >= 0 => Id(w, t, n) \in Nat)
<1>1. Prefix(w, t) \in Int /\ (t >= 0 => Prefix(w, t) >= 0)
  BY PrefixType
<1>2. \A k \in Int : k * SeqSize \in Int /\ (k >= 0 => k * SeqSize >= 0)
  BY SizeAssumption
<1>3. QED
  BY <1>1, <1>2, IdPrefix DEF SeqNo

LEMMA IdSameMillis ==
  ASSUME NEW w \in Worker, NEW t \in Int, NEW m \in SeqNo, NEW n \in SeqNo
  PROVE  /\ m < n => Id(w, t, m) < Id(w, t, n)
         /\ m <= n => Id(w, t, m) <= Id(w, t, n)
<1>1. \A k \in Int : k * SeqSize \in Int
  BY SizeAssumption
<1>2. Prefix(w, t) * SeqSize \in Int
  BY <1>1, PrefixType
<1>3. QED
  BY <1>2, IdPrefix DEF SeqNo

LEMMA IdLaterMillis ==
  ASSUME NEW w \in Worker, NEW t \in Int, NEW u \in Int, t < u,
         NEW m \in SeqNo, NEW n \in SeqNo
  PROVE  Id(w, t, m) < Id(w, u, n)
<1>1. Prefix(w, t) < Prefix(w, u)
  BY Carry, SizeAssumption, NodeAssumption DEF Prefix
<1>2. Prefix(w, t) \in Int /\ Prefix(w, u) \in Int
  BY PrefixType
<1>3. QED
  BY <1>1, <1>2, Carry, IdPrefix, SizeAssumption DEF SeqNo

LEMMA IdNode ==
  ASSUME NEW v \in Worker, NEW w \in Worker, NEW t \in Int, NEW u \in Int,
         NEW m \in SeqNo, NEW n \in SeqNo, Id(v, t, m) = Id(w, u, n)
  PROVE  NodeId[v] = NodeId[w]
<1>1. Prefix(v, t) \in Int /\ Prefix(w, u) \in Int
  BY PrefixType
<1>2. Prefix(v, t) * SeqSize + m = Prefix(w, u) * SeqSize + n
  BY IdPrefix
<1>3. Prefix(v, t) = Prefix(w, u)
  BY <1>1, <1>2, Digits, SizeAssumption DEF SeqNo
<1>4. QED
  BY <1>3, Digits, SizeAssumption, NodeAssumption DEF Prefix

-----------------------------------------------------------------------------
(***************************************************************************)
(* Every variable keeps its type; in particular the sequence number stays  *)
(* within its field.                                                       *)
(***************************************************************************)
LEMMA TypeStep == TypeOK /\ [Next]_vars => TypeOK'
<1> SUFFICES ASSUME TypeOK, [Next]_vars PROVE TypeOK'
  OBVIOUS
<1> USE SizeAssumption DEF TypeOK
<1>1. ASSUME NEW w \in Worker, Tick(w) PROVE TypeOK'
  BY <1>1 DEF Tick
<1>2. ASSUME NEW w \in Worker, SetBack(w) PROVE TypeOK'
  BY <1>2 DEF SetBack
<1>3. ASSUME NEW w \in Worker, Restart(w) PROVE TypeOK'
  BY <1>3 DEF Restart
<1>4. ASSUME NEW w \in Worker, NEW n \in SeqNo, Give(w, clock[w], n)
      PROVE  /\ ids' \in [Worker -> Seq(Nat)]
             /\ lastTimestamp' \in [Worker -> Nat \cup {-1}]
             /\ sequence' \in [Worker -> 0..(SeqSize - 1)]
  <2>1. Id(w, clock[w], n) \in Nat
    BY IdType
  <2>2. Append(ids[w], Id(w, clock[w], n)) \in Seq(Nat)
    BY <2>1
  <2>3. QED
    BY <1>4, <2>2 DEF Give, SeqNo
<1>5. ASSUME NEW w \in Worker, NextId(w) PROVE TypeOK'
  <2>1. CASE NewMillis(w)
    BY <1>4, <2>1 DEF NewMillis, SeqNo
  <2>2. CASE SameMillis(w)
    <3>1. sequence[w] + 1 \in SeqNo
      BY <2>2 DEF SameMillis, SeqNo
    <3>2. QED
      BY <1>4, <2>2, <3>1 DEF SameMillis
  <2>3. CASE Exhausted(w)
    BY <2>3 DEF Exhausted
  <2>4. CASE TilNextMillis(w)
    BY <1>4, <2>4 DEF TilNextMillis, SeqNo
  <2>5. QED
    BY <1>5, <2>1, <2>2, <2>3, <2>4 DEF NextId
<1>6. CASE UNCHANGED vars
  BY <1>6 DEF vars
<1>7. QED
  BY <1>1, <1>2, <1>3, <1>5, <1>6 DEF Next

THEOREM TypeCorrect == Spec => []TypeOK
  BY TypeInit, TypeStep, PTL DEF Spec

-----------------------------------------------------------------------------
(***************************************************************************)
(* The inductive invariant.  Bound is the largest number the present life  *)
(* of a process can have given out; a number of an earlier life is bounded *)
(* by the clock, as long as that was never set back.                       *)
(***************************************************************************)
Bound(w) ==
    Id(w, lastTimestamp[w], IF waiting[w] THEN SeqSize - 1 ELSE sequence[w])

LifeInv(w) ==
    /\ born[w] <= Len(ids[w])
    /\ \A i \in (born[w] + 1)..Len(ids[w]) : ids[w][i] <= Bound(w)
    /\ \A i, j \in (born[w] + 1)..Len(ids[w]) : i < j => ids[w][i] < ids[w][j]

ClockInv(w) ==
    setBacks[w] = 0 =>
        /\ lastTimestamp[w] <= clock[w]
        /\ \A i \in 1..born[w] : ids[w][i] < Id(w, clock[w], 0)
        /\ \A i, j \in 1..Len(ids[w]) : i < j => ids[w][i] < ids[w][j]

NodeInv(w) ==
    \A i \in 1..Len(ids[w]) :
        \E t \in Nat, n \in SeqNo : ids[w][i] = Id(w, t, n)

IInv == \A w \in Worker : LifeInv(w) /\ ClockInv(w) /\ NodeInv(w)

\* What nextId returns is later than everything the present life returned.
LEMMA GivesLater ==
  ASSUME TypeOK, NEW w \in Worker, NextId(w), ~Exhausted(w)
  PROVE  \E n \in SeqNo :
            /\ Give(w, clock[w], n)
            /\ Bound(w) < Id(w, clock[w], n)
            /\ Id(w, clock[w], 0) <= Id(w, clock[w], n)
            /\ waiting' = [waiting EXCEPT ![w] = FALSE]
            /\ UNCHANGED <<clock, born, setBacks>>
<1> USE SizeAssumption DEF TypeOK, SeqNo
<1>1. 0 \in SeqNo /\ SeqSize - 1 \in SeqNo /\ clock[w] \in Int
      /\ lastTimestamp[w] \in Int /\ sequence[w] \in SeqNo
  OBVIOUS
<1>2. (IF waiting[w] THEN SeqSize - 1 ELSE sequence[w]) \in SeqNo
  BY <1>1
<1>3. CASE NewMillis(w) \/ TilNextMillis(w)
  <2>1. /\ clock[w] > lastTimestamp[w] /\ Give(w, clock[w], 0)
        /\ waiting' = [waiting EXCEPT ![w] = FALSE]
        /\ UNCHANGED <<clock, born, setBacks>>
    BY <1>3 DEF NewMillis, TilNextMillis, Callable
  <2>2. Bound(w) < Id(w, clock[w], 0)
    BY <1>1, <1>2, <2>1, IdLaterMillis DEF Bound
  <2>3. Id(w, clock[w], 0) <= Id(w, clock[w], 0)
    BY <1>1, IdSameMillis
  <2>4. QED
    BY <1>1, <2>1, <2>2, <2>3
<1>4. CASE SameMillis(w)
  <2>1. /\ clock[w] = lastTimestamp[w] /\ Give(w, clock[w], sequence[w] + 1)
        /\ ~waiting[w] /\ sequence[w] + 1 \in SeqNo
        /\ UNCHANGED <<waiting, clock, born, setBacks>>
    BY <1>4 DEF SameMillis, Callable
  <2>2. Bound(w) < Id(w, clock[w], sequence[w] + 1)
    BY <1>1, <2>1, IdSameMillis DEF Bound
  <2>3. Id(w, clock[w], 0) <= Id(w, clock[w], sequence[w] + 1)
    BY <1>1, <2>1, IdSameMillis
  <2>4. waiting' = [waiting EXCEPT ![w] = FALSE]
    BY <2>1
  <2>5. QED
    BY <2>1, <2>2, <2>3, <2>4
<1>5. QED
  BY <1>3, <1>4 DEF NextId

LEMMA Appended ==
  ASSUME TypeOK, NEW w \in Worker, NEW n \in SeqNo, Give(w, clock[w], n)
  PROVE  /\ Len(ids'[w]) = Len(ids[w]) + 1 /\ Len(ids[w]) \in Nat
         /\ \A i \in 1..Len(ids[w]) : ids'[w][i] = ids[w][i] /\ ids[w][i] \in Nat
         /\ ids'[w][Len(ids[w]) + 1] = Id(w, clock[w], n)
         /\ Id(w, clock[w], n) \in Nat
<1>1. ids[w] \in Seq(Nat) /\ Id(w, clock[w], n) \in Nat
  BY IdType DEF TypeOK
<1>2. ids'[w] = Append(ids[w], Id(w, clock[w], n))
  BY DEF Give, TypeOK
<1>3. QED
  BY <1>1, <1>2

LEMMA IInvStep == TypeOK /\ IInv /\ [Next]_vars => IInv'
<1> SUFFICES ASSUME TypeOK, IInv, [Next]_vars, NEW w \in Worker
             PROVE  (LifeInv(w) /\ ClockInv(w) /\ NodeInv(w))'
  BY DEF IInv
<1>0. /\ LifeInv(w) /\ ClockInv(w) /\ NodeInv(w)
      /\ clock[w] \in Nat /\ lastTimestamp[w] \in Int /\ born[w] \in Nat
      /\ ids[w] \in Seq(Nat) /\ Len(ids[w]) \in Nat
      /\ \A i \in 1..Len(ids[w]) : ids[w][i] \in Nat
      /\ 0 \in SeqNo
      /\ (IF waiting[w] THEN SeqSize - 1 ELSE sequence[w]) \in SeqNo
      /\ setBacks[w] \in Nat
  BY SizeAssumption DEF IInv, TypeOK, SeqNo
<1>1. CASE /\ lastTimestamp'[w] = lastTimestamp[w]
           /\ sequence'[w] = sequence[w] /\ waiting'[w] = waiting[w]
           /\ ids'[w] = ids[w] /\ born'[w] = born[w]
           /\ clock'[w] = clock[w] /\ setBacks'[w] = setBacks[w]
  BY <1>0, <1>1 DEF LifeInv, ClockInv, NodeInv, Bound, Id
<1>2. \A i \in 1..Len(ids[w]) :
        ids[w][i] < Id(w, clock[w], 0) => ids[w][i] < Id(w, clock[w] + 1, 0)
  <2>1. Id(w, clock[w], 0) < Id(w, clock[w] + 1, 0)
    BY <1>0, IdLaterMillis
  <2>2. Id(w, clock[w], 0) \in Int /\ Id(w, clock[w] + 1, 0) \in Int
    BY <1>0, IdType
  <2>3. QED
    BY <1>0, <2>1, <2>2
<1>3. CASE Tick(w)
  <2>1. /\ clock'[w] = clock[w] + 1
        /\ UNCHANGED <<lastTimestamp, sequence, waiting, ids, born, setBacks>>
    BY <1>3 DEF Tick, TypeOK
  <2>2. LifeInv(w)' /\ NodeInv(w)'
    BY <1>0, <2>1 DEF LifeInv, NodeInv, Bound, Id
  <2>3. ClockInv(w)'
    BY <1>0, <1>2, <2>1 DEF ClockInv, LifeInv, Id
  <2>4. QED
    BY <2>2, <2>3
<1>4. CASE SetBack(w)
  <2>1. /\ setBacks'[w] = setBacks[w] + 1
        /\ UNCHANGED <<lastTimestamp, sequence, waiting, ids, born>>
    BY <1>4 DEF SetBack, TypeOK
  <2>2. LifeInv(w)' /\ NodeInv(w)'
    BY <1>0, <2>1 DEF LifeInv, NodeInv, Bound, Id
  <2>3. ClockInv(w)'
    BY <1>0, <2>1 DEF ClockInv
  <2>4. QED
    BY <2>2, <2>3
<1>5. CASE Restart(w)
  <2>1. /\ clock'[w] = clock[w] + 1 /\ born'[w] = Len(ids[w])
        /\ lastTimestamp'[w] = -1
        /\ UNCHANGED <<ids, setBacks>>
    BY <1>5 DEF Restart, TypeOK
  <2>2. LifeInv(w)' /\ NodeInv(w)'
    BY <1>0, <2>1 DEF LifeInv, NodeInv, Id
  <2>3. ASSUME setBacks[w] = 0, NEW i \in 1..Len(ids[w])
        PROVE  ids[w][i] < Id(w, clock[w] + 1, 0)
    <3>1. CASE i <= born[w]
      BY <1>0, <1>2, <2>3, <3>1 DEF ClockInv
    <3>2. CASE i > born[w]
      <4>1. ids[w][i] <= Bound(w)
        BY <1>0, <3>2 DEF LifeInv
      <4>2. lastTimestamp[w] < clock[w] + 1 /\ clock[w] + 1 \in Int
        BY <1>0, <2>3 DEF ClockInv
      <4>3. Bound(w) < Id(w, clock[w] + 1, 0)
        BY <1>0, <4>2, IdLaterMillis DEF Bound
      <4>4. Bound(w) \in Int /\ Id(w, clock[w] + 1, 0) \in Int
        BY <1>0, <4>2, IdType DEF Bound
      <4>5. QED
        BY <1>0, <4>1, <4>3, <4>4
    <3>3. QED
      BY <1>0, <3>1, <3>2
  <2>4. ClockInv(w)'
    BY <1>0, <2>1, <2>3 DEF ClockInv, LifeInv, Id
  <2>5. QED
    BY <2>2, <2>4
<1>6. CASE Exhausted(w)
  <2>0. sequence[w] = SeqSize - 1
    <3>1. sequence[w] \in Int /\ SeqSize \in Int
      BY SizeAssumption DEF TypeOK
    <3>2. sequence[w] + 1 = SeqSize
      BY <1>6 DEF Exhausted
    <3>3. QED
      BY <3>1, <3>2
  <2>1. /\ ~waiting[w] /\ waiting'[w] = TRUE
        /\ UNCHANGED <<clock, lastTimestamp, ids, born, setBacks>>
    BY <1>6 DEF Exhausted, Callable, TypeOK
  <2>2. Bound(w)' = Bound(w)
    BY <2>0, <2>1 DEF Bound, Id
  <2>3. QED
    BY <1>0, <2>1, <2>2 DEF LifeInv, ClockInv, NodeInv, Id
<1>7. CASE NextId(w) /\ ~Exhausted(w)
  <2>1. PICK n \in SeqNo :
            /\ Give(w, clock[w], n)
            /\ Bound(w) < Id(w, clock[w], n)
            /\ Id(w, clock[w], 0) <= Id(w, clock[w], n)
            /\ waiting' = [waiting EXCEPT ![w] = FALSE]
            /\ UNCHANGED <<clock, born, setBacks>>
    BY <1>7, GivesLater
  <2> DEFINE L == Len(ids[w])
             new == Id(w, clock[w], n)
  <2>2. /\ Len(ids'[w]) = L + 1 /\ L \in Nat
        /\ \A i \in 1..L : ids'[w][i] = ids[w][i] /\ ids[w][i] \in Nat
        /\ ids'[w][L + 1] = new
        /\ new \in Nat
    BY <2>1, Appended
  <2>3. Bound(w)' = new
    <3>1. /\ lastTimestamp'[w] = clock[w] /\ sequence'[w] = n /\ ~waiting'[w]
      BY <2>1 DEF Give, TypeOK
    <3>2. QED
      BY <3>1 DEF Bound, Id
  <2>4. Bound(w) \in Int /\ Id(w, clock[w], 0) \in Int
    BY <1>0, IdType DEF Bound
  <2>5. \A i \in (born[w] + 1)..L : ids[w][i] < new
    <3> SUFFICES ASSUME NEW i \in (born[w] + 1)..L PROVE ids[w][i] < new
      OBVIOUS
    <3>1. ids[w][i] <= Bound(w) /\ i \in 1..L
      BY <1>0 DEF LifeInv
    <3>2. QED
      BY <2>1, <2>2, <2>4, <3>1
  <2>6. setBacks[w] = 0 => \A i \in 1..born[w] : ids[w][i] < new
    <3> SUFFICES ASSUME setBacks[w] = 0, NEW i \in 1..born[w]
                 PROVE  ids[w][i] < new
      OBVIOUS
    <3>1. ids[w][i] < Id(w, clock[w], 0) /\ i \in 1..L
      BY <1>0 DEF ClockInv, LifeInv
    <3>2. QED
      BY <2>1, <2>2, <2>4, <3>1
  <2> HIDE DEF L, new
  <2>a. born'[w] = born[w] /\ born[w] \in 0..L
    BY <1>0, <2>1 DEF LifeInv, L
  <2>b. \A i \in 1..(L + 1) : i \in 1..L \/ i = L + 1
    BY <2>2
  <2>7. LifeInv(w)'
    <3>1. ASSUME NEW i \in (born[w] + 1)..(L + 1)
          PROVE  ids'[w][i] <= new
      <4>1. CASE i = L + 1
        BY <2>2, <4>1
      <4>2. CASE i # L + 1
        <5>1. i \in (born[w] + 1)..L /\ i \in 1..L
          BY <2>2, <2>a, <4>2
        <5>2. ids'[w][i] = ids[w][i] /\ ids[w][i] < new /\ ids[w][i] \in Nat
          BY <2>2, <2>5, <5>1
        <5>3. QED
          BY <2>2, <5>2
      <4>3. QED
        BY <4>1, <4>2
    <3>2. ASSUME NEW i \in (born[w] + 1)..(L + 1),
                 NEW j \in (born[w] + 1)..(L + 1), i < j
          PROVE  ids'[w][i] < ids'[w][j]
      <4>1. i \in (born[w] + 1)..L /\ i \in 1..L /\ ids'[w][i] = ids[w][i]
        BY <2>2, <2>a, <3>2
      <4>2. CASE j = L + 1
        BY <2>2, <2>5, <4>1, <4>2
      <4>3. CASE j \in 1..L
        <5>1. j \in (born[w] + 1)..L /\ ids'[w][j] = ids[w][j]
          BY <2>2, <2>a, <4>3
        <5>2. ids[w][i] < ids[w][j]
          BY <1>0, <3>2, <4>1, <5>1 DEF LifeInv, L
        <5>3. QED
          BY <4>1, <5>1, <5>2
      <4>4. QED
        BY <2>2, <2>a, <2>b, <4>2, <4>3
    <3>3. QED
      BY <2>2, <2>3, <2>a, <3>1, <3>2 DEF LifeInv
  <2>8. ClockInv(w)'
    <3>1. /\ Id(w, clock[w], 0)' = Id(w, clock[w], 0)
          /\ lastTimestamp'[w] = clock[w]
          /\ clock'[w] = clock[w] /\ setBacks'[w] = setBacks[w]
      BY <2>1 DEF Id, Give, TypeOK
    <3>2. ASSUME setBacks[w] = 0, NEW i \in 1..born[w]
          PROVE  ids'[w][i] < Id(w, clock[w], 0)
      <4>1. i \in 1..L
        BY <2>2, <2>a
      <4>2. QED
        BY <1>0, <2>2, <3>2, <4>1 DEF ClockInv
    <3>3. ASSUME setBacks[w] = 0, NEW i \in 1..(L + 1), NEW j \in 1..(L + 1),
                 i < j
          PROVE  ids'[w][i] < ids'[w][j]
      <4>1. i \in 1..L /\ ids'[w][i] = ids[w][i]
        BY <2>2, <3>3
      <4>2. CASE j = L + 1
        <5>1. i \in 1..born[w] \/ i \in (born[w] + 1)..L
          BY <2>2, <2>a, <4>1
        <5>2. QED
          BY <2>2, <2>5, <2>6, <3>3, <4>1, <4>2, <5>1
      <4>3. CASE j \in 1..L
        BY <1>0, <2>2, <3>3, <4>1, <4>3 DEF ClockInv, L
      <4>4. QED
        BY <2>b, <4>2, <4>3
    <3>4. QED
      BY <1>0, <2>2, <2>a, <3>1, <3>2, <3>3 DEF ClockInv
  <2>9. NodeInv(w)'
    <3> SUFFICES ASSUME NEW i \in 1..(L + 1)
                 PROVE  \E t \in Nat, m \in SeqNo : ids'[w][i] = Id(w, t, m)
      BY <2>2 DEF NodeInv, Id
    <3>1. CASE i = L + 1
      BY <1>0, <2>2, <3>1 DEF new
    <3>2. CASE i \in 1..L
      BY <1>0, <2>2, <3>2 DEF NodeInv, L
    <3>3. QED
      BY <2>2, <3>1, <3>2
  <2>10. QED
    BY <2>7, <2>8, <2>9
<1>8. ASSUME NEW v \in Worker, v # w,
             Tick(v) \/ SetBack(v) \/ Restart(v) \/ NextId(v)
      PROVE  (LifeInv(w) /\ ClockInv(w) /\ NodeInv(w))'
  BY <1>1, <1>8 DEF TypeOK, Tick, SetBack, Restart, NextId, NewMillis,
     SameMillis, Exhausted, TilNextMillis, Give
<1>9. CASE UNCHANGED vars
  BY <1>1, <1>9 DEF vars
<1>10. QED
  BY <1>3, <1>4, <1>5, <1>6, <1>7, <1>8, <1>9 DEF Next

LEMMA Invariant == Spec => [](TypeOK /\ IInv)
<1>1. Init => IInv
  <2> SUFFICES ASSUME Init, NEW w \in Worker
               PROVE  LifeInv(w) /\ ClockInv(w) /\ NodeInv(w)
    BY DEF IInv
  <2>1. /\ ids[w] = <<>> /\ Len(ids[w]) = 0 /\ born[w] = 0
        /\ lastTimestamp[w] = -1 /\ clock[w] = 0
    BY DEF Init
  <2>2. QED
    BY <2>1 DEF LifeInv, ClockInv, NodeInv
<1>2. QED
  BY <1>1, TypeInit, TypeStep, IInvStep, PTL DEF Spec

(***************************************************************************)
(* A process gives out increasing numbers for as long as it lives.         *)
(***************************************************************************)
THEOREM IncreasingSafe == Spec => []IncreasingInLife
<1>1. IInv => IncreasingInLife
  BY DEF IInv, LifeInv, IncreasingInLife
<1>2. QED
  BY <1>1, Invariant, PTL

(***************************************************************************)
(* On a host whose clock was never set back, restarts change nothing.      *)
(***************************************************************************)
THEOREM GoodClockSafe == Spec => []IncreasingOnGoodClock
<1>1. IInv => IncreasingOnGoodClock
  BY DEF IInv, ClockInv, IncreasingOnGoodClock
<1>2. QED
  BY <1>1, Invariant, PTL

(***************************************************************************)
(* Processes with different node ids never give out the same number.       *)
(***************************************************************************)
THEOREM NodesSafe == Spec => []NodesDisjoint
<1>1. IInv => NodesDisjoint
  <2> SUFFICES ASSUME IInv, NEW v \in Worker, NEW w \in Worker,
                      NodeId[v] # NodeId[w],
                      NEW i \in 1..Len(ids[v]), NEW j \in 1..Len(ids[w]),
                      ids[v][i] = ids[w][j]
               PROVE  FALSE
    BY DEF NodesDisjoint
  <2>1. PICK t \in Nat, m \in SeqNo : ids[v][i] = Id(v, t, m)
    BY DEF IInv, NodeInv
  <2>2. PICK u \in Nat, n \in SeqNo : ids[w][j] = Id(w, u, n)
    BY DEF IInv, NodeInv
  <2>3. Id(v, t, m) = Id(w, u, n)
    BY <2>1, <2>2
  <2>4. t \in Int /\ u \in Int
    OBVIOUS
  <2>5. QED
    BY <2>3, <2>4, IdNode
<1>2. QED
  BY <1>1, Invariant, PTL
=============================================================================
