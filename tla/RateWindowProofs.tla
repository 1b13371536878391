--------------------------- MODULE RateWindowProofs ---------------------------
(***************************************************************************)
(* The ring of MethodIpPercent for any number of threads, any ring of at   *)
(* least two slots and any delay of a thread below a round of the ring.    *)
(***************************************************************************)
EXTENDS RateWindow, FiniteSetTheorems, TLAPS

LEMMA Division ==
  ASSUME NEW d \in Nat \ {0}, NEW t \in Nat
  PROVE  /\ t \div d \in Nat /\ t % d \in 0..(d - 1)
         /\ t = d * (t \div d) + (t % d)
  OBVIOUS

\* Products of a width d: what a difference of quotients is worth.
LEMMA Products ==
  ASSUME NEW d \in Nat \ {0}, NEW q \in Int, NEW p \in Int, NEW k \in Int, q >= p + k
  PROVE  d * q >= d * p + d * k /\ d * q \in Int /\ d * p \in Int /\ d * k \in Int
<1>1. q = (p + k) + (q - (p + k)) /\ q - (p + k) \in Nat
  OBVIOUS
<1>2. \A m \in Nat : d * m >= 0 /\ d * m \in Int
  OBVIOUS
<1>3. d * q = d * p + d * k + d * (q - (p + k))
  OBVIOUS
<1>4. d * p \in Int /\ d * q \in Int /\ d * k \in Int
  OBVIOUS
<1>5. QED
  BY <1>1, <1>2, <1>3, <1>4

\* Numbers in the same slot of a ring: less than a round later is not later.
LEMMA NotLater ==
  ASSUME NEW d \in Nat \ {0}, NEW m \in Nat, NEW n \in Nat,
         m % d = n % d, n < m + d
  PROVE  n \div d <= m \div d
<1> DEFINE p == m \div d  q == n \div d
<1>1. /\ p \in Nat /\ q \in Nat /\ m % d \in 0..(d - 1)
      /\ m = d * p + (m % d) /\ n = d * q + (m % d)
  BY Division
<1> HIDE DEF p, q
<1>2. ASSUME q >= p + 1 PROVE FALSE
  <2>1. d * q >= d * p + d * 1 /\ d * q \in Int /\ d * p \in Int
    BY <1>1, <1>2, Products
  <2>2. d * 1 = d
    OBVIOUS
  <2>3. QED
    BY <1>1, <2>1, <2>2
<1>3. q <= p
  BY <1>1, <1>2
<1>4. QED
  BY <1>3 DEF p, q

LEMMA SameQuotient ==
  ASSUME NEW d \in Nat \ {0}, NEW m \in Nat, NEW n \in Nat,
         m % d = n % d, n < m + d, m < n + d
  PROVE  m = n
<1>1. n \div d <= m \div d /\ m \div d <= n \div d
  BY NotLater
<1>2. n \div d \in Nat /\ m \div d \in Nat
  BY Division
<1>3. n \div d = m \div d
  BY <1>1, <1>2
<1>4. m = d * (m \div d) + (m % d) /\ n = d * (n \div d) + (n % d)
  BY Division
<1>5. QED
  BY <1>3, <1>4

LEMMA TimeTypes ==
  /\ Start \in Nat /\ Time \subseteq Nat
  /\ \A t \in Time : /\ SecondOf(t) \in Seconds /\ SecondOf(t) \in Nat
                     /\ SlotOf(t) \in Slot
  /\ \A t \in Time : t # -1 /\ t > 0
<1>1. Slots * Second \in Nat /\ Slots * Second > 0
  BY WindowAssumption
<1>2. Start \in Nat /\ Start > 0 /\ Time \subseteq Nat
  BY <1>1, WindowAssumption DEF Start, Time
<1>3. ASSUME NEW t \in Time PROVE SecondOf(t) \in Seconds /\ SecondOf(t) \in Nat
  <2>1. t \in Nat /\ Start <= t /\ t <= MaxTime /\ MaxTime \in Nat
    BY <1>2, WindowAssumption DEF Time
  <2>2. \A a, b \in Nat : a <= b => a \div Second <= b \div Second
                                    /\ a \div Second \in Nat /\ b \div Second \in Nat
    BY WindowAssumption
  <2>3. QED
    BY <1>2, <2>1, <2>2 DEF SecondOf, Seconds
<1>4. ASSUME NEW t \in Time PROVE SlotOf(t) \in Slot
  BY <1>3, WindowAssumption, Division DEF SlotOf, Slot
<1>5. QED
  BY <1>2, <1>3, <1>4 DEF Time

LEMMA SecondTypes == \A n \in Seconds : n \in Nat /\ n % Slots \in Slot
<1>1. Start \div Second \in Nat
  BY TimeTypes, WindowAssumption, Division
<1>2. \A n \in Seconds : n \in Nat
  BY <1>1 DEF Seconds, SecondOf
<1>3. QED
  BY <1>2, WindowAssumption, Division DEF Slot

(***************************************************************************)
(* Times in one slot that are less than a round apart are of one second.   *)
(***************************************************************************)
LEMMA SameSecond ==
  ASSUME NEW t \in Time, NEW u \in Time, SlotOf(t) = SlotOf(u),
         t - u <= (Slots - 1) * Second, u - t <= (Slots - 1) * Second
  PROVE  SecondOf(t) = SecondOf(u)
<1> DEFINE p == SecondOf(t)  q == SecondOf(u)
<1>0. t \in Nat /\ u \in Nat /\ p \in Nat /\ q \in Nat
  BY TimeTypes
<1>1. /\ t = Second * p + (t % Second) /\ u = Second * q + (u % Second)
      /\ t % Second \in 0..(Second - 1) /\ u % Second \in 0..(Second - 1)
  BY <1>0, Division, WindowAssumption DEF SecondOf
<1>2. (Slots - 1) * Second = Second * Slots - Second /\ Second * Slots \in Nat
  BY WindowAssumption
<1>3. ~(p >= q + Slots)
  <2> SUFFICES ASSUME p >= q + Slots PROVE FALSE
    OBVIOUS
  <2>1. Second * p >= Second * q + Second * Slots /\ Second * p \in Int /\ Second * q \in Int
    BY <1>0, Products, WindowAssumption
  <2> HIDE DEF p, q
  <2>2. QED
    BY <1>0, <1>1, <1>2, <2>1, WindowAssumption
<1>4. ~(q >= p + Slots)
  <2> SUFFICES ASSUME q >= p + Slots PROVE FALSE
    OBVIOUS
  <2>1. Second * q >= Second * p + Second * Slots /\ Second * p \in Int /\ Second * q \in Int
    BY <1>0, Products, WindowAssumption
  <2> HIDE DEF p, q
  <2>2. QED
    BY <1>0, <1>1, <1>2, <2>1, WindowAssumption
<1>5. p % Slots = q % Slots
  BY DEF SlotOf
<1>6. QED
  BY <1>0, <1>3, <1>4, <1>5, SameQuotient, WindowAssumption

LEMMA LaterSecond ==
  ASSUME NEW t \in Time, NEW u \in Time, t - u > Second
  PROVE  SecondOf(t) > SecondOf(u)
<1> DEFINE p == SecondOf(t)  q == SecondOf(u)
<1>0. t \in Nat /\ u \in Nat /\ p \in Nat /\ q \in Nat
  BY TimeTypes
<1>1. /\ t = Second * p + (t % Second) /\ u = Second * q + (u % Second)
      /\ t % Second \in 0..(Second - 1) /\ u % Second \in 0..(Second - 1)
  BY <1>0, Division, WindowAssumption DEF SecondOf
<1>2. CASE q >= p
  <2>1. Second * q >= Second * p + Second * 0 /\ Second * p \in Int /\ Second * q \in Int
    BY <1>0, <1>2, Products, WindowAssumption
  <2> HIDE DEF p, q
  <2>2. QED
    BY <1>0, <1>1, <2>1, WindowAssumption
<1>3. QED
  BY <1>0, <1>2
-----------------------------------------------------------------------------
(***************************************************************************)
(* Every variable keeps its type: no slot outside the ring is touched, and *)
(* the slots only ever hold counts and times that were read.               *)
(***************************************************************************)
CountJob == [at : {"count"}, slot : 0..Slots, sum : Nat, from : Time]
UpdateJob == [at : Updating, slot : Slot, sum : {0}, from : Time]

LEMMA JobFacts ==
  ASSUME TypeOK, NEW r \in Thread
  PROVE  /\ job[r].at = "count" => job[r] \in CountJob
         /\ job[r].at \in Updating => job[r] \in UpdateJob
         /\ job[r].at # "idle" => job[r].from \in Time
  BY DEF TypeOK, Idle, Job, Updating, CountJob, UpdateJob

LEMMA TypeInit == Init => TypeOK
  BY TimeTypes, WindowAssumption DEF Init, TypeOK

LEMMA TypeStep == TypeOK /\ [Next]_vars => TypeOK'
<1> SUFFICES ASSUME TypeOK, [Next]_vars PROVE TypeOK'
  OBVIOUS
<1> USE WindowAssumption
<1>0. /\ Slot = 0..(Slots - 1) /\ Slots \in Nat /\ MaxTime \in Nat
      /\ Start \in Nat /\ now \in Time /\ Time \subseteq Nat
  BY TimeTypes DEF Slot, TypeOK
<1>1. CASE Tick
  <2>1. now' \in Time
    BY <1>0, <1>1 DEF Tick, Time
  <2>2. QED
    BY <1>1, <2>1 DEF Tick, TypeOK, slotVars
<1>2. ASSUME NEW r \in Thread, Request(r) PROVE TypeOK'
  <2> DEFINE J == {Idle} \cup CountJob \cup UpdateJob
  <2>0. job \in [Thread -> J]
    BY DEF TypeOK, CountJob, UpdateJob
  <2>1. ASSUME job' \in [Thread -> J], now' = now,
               atomicLong' \in [Slot -> Nat],
               lastIncrementTime' \in [Slot -> Time \cup {-1}],
               admitted' \in [Seconds -> Nat]
        PROVE  TypeOK'
    BY <2>1 DEF TypeOK, CountJob, UpdateJob
  <2>2. /\ atomicLong \in [Slot -> Nat]
        /\ lastIncrementTime \in [Slot -> Time \cup {-1}]
        /\ admitted \in [Seconds -> Nat]
    BY DEF TypeOK
  <2>3. CASE Arrive(r)
    <3>1. Job("count", 0, 0, now) \in CountJob
      BY <1>0 DEF Job, CountJob
    <3> HIDE DEF J
    <3>2. job' \in [Thread -> J]
      BY <2>0, <2>3, <3>1 DEF Arrive, J
    <3>3. QED
      BY <2>1, <2>2, <2>3, <3>2 DEF Arrive, slotVars
  <2>4. CASE Count(r)
    <3>1. /\ job[r] \in CountJob /\ job[r].slot \in Slot
          /\ atomicLong[job[r].slot] \in Nat
      BY <1>0, <2>2, <2>4, JobFacts DEF Count, CountJob
    <3>2. ASSUME NEW n \in Nat
          PROVE  [job[r] EXCEPT !.slot = job[r].slot + 1, !.sum = @ + n] \in CountJob
      <4>1. job[r].slot + 1 \in 0..Slots /\ job[r].sum + n \in Nat
        BY <1>0, <3>1 DEF CountJob
      <4>2. QED
        BY <3>1, <4>1 DEF CountJob
    <3>3. job'[r] \in CountJob /\ job' = [job EXCEPT ![r] = job'[r]]
      BY <2>0, <2>4, <3>1, <3>2 DEF Count
    <3> HIDE DEF J
    <3>4. job' \in [Thread -> J]
      BY <2>0, <3>3 DEF J
    <3>5. QED
      BY <2>1, <2>2, <2>4, <3>4 DEF Count, slotVars
  <2>5. CASE Limited(r) \/ Stamp(r)
    <3>1. Job("check", SlotOf(now), 0, now) \in UpdateJob
      BY <1>0, TimeTypes DEF Job, UpdateJob, Updating
    <3> HIDE DEF J
    <3>2. job' \in [Thread -> J]
      BY <2>0, <2>5, <3>1 DEF Limited, Stamp, J
    <3>3. QED
      BY <2>1, <2>2, <2>5, <3>2 DEF Limited, Stamp, slotVars
  <2>6. CASE Check(r) \/ Reset(r) \/ Add(r) \/ WriteTime(r)
    <3>1. job[r].at \in Updating
      BY <2>6 DEF Check, Reset, Add, WriteTime, Updating
    <3>2. job[r] \in UpdateJob /\ job[r].slot \in Slot /\ job[r].from \in Time
      BY <3>1, JobFacts DEF UpdateJob
    <3>3. \A at \in Updating : [job[r] EXCEPT !.at = at] \in UpdateJob
      BY <3>2 DEF UpdateJob
    <3>4. job'[r] \in UpdateJob \cup {Idle} /\ job' = [job EXCEPT ![r] = job'[r]]
      BY <2>0, <2>6, <3>3 DEF Check, Reset, Add, WriteTime, Updating
    <3>5. job' \in [Thread -> J]
      <4> HIDE DEF J
      <4>1. QED
        BY <2>0, <3>4 DEF J
    <3>6. SecondOf(job[r].from) \in Seconds
      BY <3>2, TimeTypes
    <3>7. CASE Check(r)
      BY <2>1, <2>2, <3>5, <3>7 DEF Check, slotVars
    <3>8. CASE Reset(r)
      <4> HIDE DEF J
      <4>1. /\ atomicLong' \in [Slot -> Nat] /\ now' = now /\ admitted' = admitted
            /\ lastIncrementTime' \in [Slot -> Time \cup {-1}]
        BY <2>2, <3>2, <3>8 DEF Reset, slotVars
      <4>2. QED
        BY <2>1, <2>2, <3>5, <4>1
    <3>9. CASE Add(r)
      <4> HIDE DEF J
      <4>1. /\ atomicLong' \in [Slot -> Nat] /\ now' = now
            /\ admitted' \in [Seconds -> Nat]
            /\ lastIncrementTime' = lastIncrementTime
        BY <2>2, <3>2, <3>6, <3>9 DEF Add
      <4>2. QED
        BY <2>1, <2>2, <3>5, <4>1
    <3>10. CASE WriteTime(r)
      <4> HIDE DEF J
      <4>1. /\ lastIncrementTime' \in [Slot -> Time \cup {-1}] /\ now' = now
            /\ atomicLong' = atomicLong /\ admitted' = admitted
        BY <2>2, <3>2, <3>10 DEF WriteTime
      <4>2. QED
        BY <2>1, <2>2, <3>5, <4>1
    <3>11. QED
      BY <2>6, <3>7, <3>8, <3>9, <3>10
  <2>7. QED
    BY <1>2, <2>3, <2>4, <2>5, <2>6 DEF Request
<1>3. CASE UNCHANGED vars
  BY <1>3 DEF vars, slotVars, TypeOK
<1>4. QED
  BY <1>1, <1>2, <1>3 DEF Next

\* Theorem: the slots and the threads in increment and isLimited keep their types
\* (TypeOK).
THEOREM TypeCorrect == Spec => []TypeOK
  BY TypeInit, TypeStep, PTL DEF Spec

-----------------------------------------------------------------------------
(***************************************************************************)
(* The inductive invariant.  Two threads between Stamp and WriteTime on    *)
(* one slot read the clock less than a round apart, so in one second; a    *)
(* slot that is not stale for one of them is of that second too.  What is  *)
(* counted in a later second than a slot was written for can only be the   *)
(* work of a thread that has not written the slot's first time yet.        *)
(***************************************************************************)
Writes(r, i) == job[r].at = "write" /\ job[r].slot = i

Stamped(r) ==
    job[r].at \in Updating =>
        /\ job[r].slot = SlotOf(job[r].from)
        /\ job[r].from <= now /\ now - job[r].from <= MaxDelay

Written(i) ==
    lastIncrementTime[i] # -1 =>
        SlotOf(lastIncrementTime[i]) = i /\ lastIncrementTime[i] <= now

InSecond(r) ==
    LET t == lastIncrementTime[job[r].slot] IN
    /\ job[r].at = "reset" => t # -1
    /\ job[r].at \in {"add", "write"} /\ t # -1 => SecondOf(t) = SecondOf(job[r].from)

Accounted(n) ==
    LET t == lastIncrementTime[n % Slots] IN
    admitted[n] # 0 =>
        /\ t # -1 => n <= SecondOf(t)
        /\ t = -1 => \E r \in Thread : job[r].at = "write" /\ SecondOf(job[r].from) = n

FirstRound(i) ==
    lastIncrementTime[i] = -1 =>
        /\ \A r \in Thread : Writes(r, i) => atomicLong[i] = admitted[SecondOf(job[r].from)]
        /\ (\A r \in Thread : ~Writes(r, i)) => atomicLong[i] = 0

Held(i) ==
    lastIncrementTime[i] # -1 => atomicLong[i] = admitted[SecondOf(lastIncrementTime[i])]

IInv ==
    /\ \A r \in Thread : Stamped(r) /\ InSecond(r)
    /\ \A i \in Slot : Written(i) /\ FirstRound(i) /\ Held(i)
    /\ \A n \in Seconds : Accounted(n)

LEMMA RoundAssumption ==
  /\ (Slots - 1) * Second \in Nat /\ Second <= (Slots - 1) * Second
  /\ MaxDelay \in Nat /\ MaxDelay <= (Slots - 1) * Second
<1>1. (Slots - 1) * Second = Second * (Slots - 1) /\ Second * (Slots - 1) \in Nat
  BY WindowAssumption
<1>2. Second * (Slots - 1) >= Second * 0 + Second * 1
  BY WindowAssumption, Products
<1>3. QED
  BY <1>1, <1>2, WindowAssumption, DelayAssumption

\* What the jobs and slots hold, with their types.
LEMMA Live ==
  ASSUME TypeOK, IInv, NEW r \in Thread, job[r].at \in Updating
  PROVE  /\ job[r].from \in Time /\ job[r].slot \in Slot
         /\ job[r].slot = SlotOf(job[r].from)
         /\ SecondOf(job[r].from) \in Seconds /\ SecondOf(job[r].from) \in Nat
         /\ SecondOf(job[r].from) % Slots = job[r].slot
         /\ job[r].from <= now /\ now - job[r].from <= MaxDelay
         /\ job[r].from \in Nat /\ now \in Nat
<1>1. job[r] \in UpdateJob /\ Stamped(r) /\ now \in Time
  BY JobFacts DEF IInv, TypeOK
<1>2. QED
  BY <1>1, TimeTypes DEF UpdateJob, Stamped, SlotOf

LEMMA Neighbours ==
  ASSUME TypeOK, IInv, NEW r \in Thread, NEW q \in Thread,
         job[r].at \in Updating, job[q].at \in Updating, job[r].slot = job[q].slot
  PROVE  SecondOf(job[r].from) = SecondOf(job[q].from)
<1>1. /\ job[r].from - job[q].from <= (Slots - 1) * Second
      /\ job[q].from - job[r].from <= (Slots - 1) * Second
      /\ SlotOf(job[r].from) = SlotOf(job[q].from)
  BY Live, RoundAssumption
<1>2. QED
  BY <1>1, Live, SameSecond

LEMMA SlotTime ==
  ASSUME TypeOK, IInv, NEW i \in Slot, lastIncrementTime[i] # -1
  PROVE  /\ lastIncrementTime[i] \in Time /\ lastIncrementTime[i] \in Nat
         /\ lastIncrementTime[i] <= now /\ SlotOf(lastIncrementTime[i]) = i
         /\ SecondOf(lastIncrementTime[i]) \in Seconds
         /\ SecondOf(lastIncrementTime[i]) \in Nat
         /\ SecondOf(lastIncrementTime[i]) % Slots = i
         /\ lastIncrementTime[i] > 0
  BY TimeTypes DEF TypeOK, IInv, Written, SlotOf

LEMMA NotStale ==
  ASSUME TypeOK, IInv, NEW r \in Thread, job[r].at \in Updating,
         lastIncrementTime[job[r].slot] # -1, ~Stale(r)
  PROVE  SecondOf(lastIncrementTime[job[r].slot]) = SecondOf(job[r].from)
<1> DEFINE t == lastIncrementTime[job[r].slot]
<1>1. /\ t \in Time /\ t \in Nat /\ t <= now /\ SlotOf(t) = SlotOf(job[r].from)
      /\ job[r].from - t <= Second
  BY Live, SlotTime, WindowAssumption DEF Stale
<1>2. t - job[r].from <= (Slots - 1) * Second /\ job[r].from - t <= (Slots - 1) * Second
  BY <1>1, Live, RoundAssumption, WindowAssumption
<1>3. QED
  BY <1>1, <1>2, Live, SameSecond

\* A step that leaves slots, counts and writers alone.
LEMMA Frame ==
  ASSUME TypeOK, IInv, UNCHANGED <<slotVars, admitted>>, now' \in Nat, now' >= now,
         \A q \in Thread : /\ job'[q].at = "write" <=> job[q].at = "write"
                           /\ job[q].at = "write" => job'[q] = job[q]
  PROVE  /\ \A i \in Slot : (Written(i) /\ FirstRound(i) /\ Held(i))'
         /\ \A n \in Seconds : Accounted(n)'
<1> USE DEF IInv, slotVars
<1>1. ASSUME NEW i \in Slot PROVE Written(i)'
  <2>1. lastIncrementTime'[i] # -1 => lastIncrementTime[i] \in Nat /\ lastIncrementTime[i] <= now
    BY SlotTime
  <2>2. now \in Nat
    BY TimeTypes DEF TypeOK
  <2>3. QED
    BY <2>1, <2>2 DEF Written
<1>2. ASSUME NEW i \in Slot PROVE FirstRound(i)' /\ Held(i)'
  <2>1. FirstRound(i) /\ Held(i)
    OBVIOUS
  <2>2. \A q \in Thread : /\ Writes(q, i)' <=> Writes(q, i)
                          /\ Writes(q, i) => job'[q].from = job[q].from
    BY DEF Writes
  <2>3. Held(i)'
    BY <2>1 DEF Held
  <2>4. ASSUME lastIncrementTime[i] = -1
        PROVE  /\ \A q \in Thread : Writes(q, i)' => atomicLong'[i] = admitted'[SecondOf(job'[q].from)]
               /\ (\A q \in Thread : ~Writes(q, i)') => atomicLong'[i] = 0
    BY <2>1, <2>2, <2>4 DEF FirstRound
  <2>5. FirstRound(i)'
    BY <2>4 DEF FirstRound
  <2>6. QED
    BY <2>3, <2>5
<1>3. ASSUME NEW n \in Seconds PROVE Accounted(n)'
  <2>1. Accounted(n)
    OBVIOUS
  <2>2. ASSUME NEW q \in Thread, job[q].at = "write", SecondOf(job[q].from) = n
        PROVE  job'[q].at = "write" /\ SecondOf(job'[q].from) = n
    BY <2>2
  <2>3. QED
    BY <2>1, <2>2 DEF Accounted
<1>4. QED
  BY <1>1, <1>2, <1>3

LEMMA JobStep ==
  ASSUME TypeOK, NEW r \in Thread, Request(r)
  PROVE  /\ now' = now
         /\ \A q \in Thread : q # r => job'[q] = job[q]
<1>1. /\ now' = now
      /\ \E x : job' = [job EXCEPT ![r] = x]
  BY DEF Request, Arrive, Count, Limited, Stamp, Check, Reset, Add, WriteTime
<1>2. QED
  BY <1>1 DEF TypeOK

LEMMA TickStep == TypeOK /\ TypeOK' /\ IInv /\ (Tick \/ UNCHANGED vars) => IInv'
<1> SUFFICES ASSUME TypeOK, TypeOK', IInv, Tick \/ UNCHANGED vars PROVE IInv'
  OBVIOUS
<1>1. now \in Nat /\ now' \in Nat /\ now' >= now
  BY TimeTypes DEF TypeOK, Tick, vars
<1>2. UNCHANGED <<slotVars, job, admitted>>
  BY DEF Tick, vars
<1>3. /\ \A i \in Slot : (Written(i) /\ FirstRound(i) /\ Held(i))'
      /\ \A n \in Seconds : Accounted(n)'
  BY <1>1, <1>2, Frame
<1>4. ASSUME NEW r \in Thread PROVE InSecond(r)'
  <2>1. InSecond(r)
    BY DEF IInv
  <2>2. QED
    BY <1>2, <2>1 DEF InSecond, slotVars
<1>5. ASSUME NEW r \in Thread PROVE Stamped(r)'
  <2>1. Stamped(r)
    BY DEF IInv
  <2>2. job[r].at \in Updating => now' - job[r].from <= MaxDelay /\ job[r].from <= now'
    <3>1. SUFFICES ASSUME job[r].at \in Updating
                   PROVE  now' - job[r].from <= MaxDelay /\ job[r].from <= now'
      OBVIOUS
    <3>2. /\ job[r].from \in Nat /\ job[r].from <= now /\ now - job[r].from <= MaxDelay
          /\ MaxDelay \in Nat
      BY <3>1, Live, RoundAssumption
    <3>3. CASE Tick
      BY <1>1, <3>1, <3>2, <3>3 DEF Tick
    <3>4. CASE UNCHANGED vars
      BY <3>2, <3>4 DEF vars
    <3>5. QED
      BY <3>3, <3>4
  <2>3. QED
    BY <1>2, <2>1, <2>2 DEF Stamped
<1>6. QED
  BY <1>3, <1>4, <1>5 DEF IInv

\* A step of a thread that leaves slots, counts and writers alone.
LEMMA ReadingStep ==
  ASSUME TypeOK, IInv, NEW r \in Thread, Request(r), UNCHANGED <<slotVars, admitted>>,
         job[r].at # "write", job'[r].at # "write", Stamped(r)', InSecond(r)'
  PROVE  IInv'
<1>1. now' = now /\ now \in Nat /\ \A q \in Thread : q # r => job'[q] = job[q]
  BY JobStep, TimeTypes DEF TypeOK
<1>2. /\ \A i \in Slot : (Written(i) /\ FirstRound(i) /\ Held(i))'
      /\ \A n \in Seconds : Accounted(n)'
  <2>1. \A q \in Thread : /\ job'[q].at = "write" <=> job[q].at = "write"
                          /\ job[q].at = "write" => job'[q] = job[q]
    BY <1>1
  <2>2. now' \in Nat /\ now' >= now
    BY <1>1
  <2>3. QED
    BY <2>1, <2>2, Frame
<1>3. ASSUME NEW q \in Thread, q # r PROVE Stamped(q)' /\ InSecond(q)'
  <2>1. Stamped(q) /\ InSecond(q)
    BY DEF IInv
  <2>2. job'[q] = job[q]
    BY <1>1, <1>3
  <2>3. QED
    BY <1>1, <2>1, <2>2 DEF Stamped, InSecond, slotVars
<1>4. QED
  BY <1>2, <1>3 DEF IInv

LEMMA CountStep ==
  ASSUME TypeOK, IInv, NEW r \in Thread, Request(r),
         Arrive(r) \/ Count(r) \/ Limited(r) \/ Stamp(r)
  PROVE  IInv'
<1>1. UNCHANGED <<slotVars, admitted>> /\ job[r].at # "write" /\ now' = now
  BY DEF Arrive, Count, Limited, Stamp, Idle, Job
<1>2. \/ job'[r].at \in {"idle", "count"}
      \/ job'[r] = Job("check", SlotOf(now), 0, now)
  BY DEF Arrive, Count, Limited, Stamp, Idle, Job, TypeOK
<1>3. Stamped(r)'
  <2>1. now \in Nat /\ MaxDelay \in Nat
    BY TimeTypes, RoundAssumption DEF TypeOK
  <2>2. QED
    BY <1>1, <1>2, <2>1 DEF Stamped, Job, Updating
<1>4. job'[r].at # "write" /\ InSecond(r)'
  BY <1>2 DEF InSecond, Job
<1>5. QED
  BY <1>1, <1>3, <1>4, ReadingStep

LEMMA CheckStep ==
  ASSUME TypeOK, IInv, NEW r \in Thread, Request(r), Check(r)
  PROVE  IInv'
<1>1. /\ job[r].at \in Updating /\ job[r] \in UpdateJob /\ job[r].slot \in Slot
      /\ UNCHANGED <<slotVars, admitted>> /\ job[r].at # "write" /\ now' = now
  BY JobFacts DEF Check, Updating, UpdateJob
<1> DEFINE t == lastIncrementTime[job[r].slot]
<1>2. /\ job'[r] = [job[r] EXCEPT !.at = IF t > 0 /\ Stale(r) THEN "reset" ELSE "add"]
  BY DEF Check, TypeOK
<1>3. job'[r].slot = job[r].slot /\ job'[r].from = job[r].from
      /\ job'[r].at = IF t > 0 /\ Stale(r) THEN "reset" ELSE "add"
  BY <1>1, <1>2 DEF UpdateJob
<1>4. Stamped(r)'
  <2>1. Stamped(r)
    BY DEF IInv
  <2>2. QED
    BY <1>1, <1>3, <2>1 DEF Stamped
<1>5. t > 0 => t # -1
  OBVIOUS
<1>6. t # -1 => t > 0
  BY <1>1, SlotTime
<1>7. t # -1 /\ ~Stale(r) => SecondOf(t) = SecondOf(job[r].from)
  BY <1>1, NotStale
<1>8. lastIncrementTime' = lastIncrementTime
  BY <1>1 DEF slotVars
<1>9. InSecond(r)'
  BY <1>3, <1>5, <1>6, <1>7, <1>8 DEF InSecond
<1>10. QED
  BY <1>1, <1>3, <1>4, <1>9, ReadingStep

LEMMA ResetStep ==
  ASSUME TypeOK, IInv, NEW r \in Thread, Request(r), Reset(r)
  PROVE  IInv'
<1> DEFINE i == job[r].slot
           s == SecondOf(job[r].from)
<1>0. /\ job[r].at \in Updating /\ job[r].at = "reset" /\ job[r] \in UpdateJob
      /\ i \in Slot /\ now' = now /\ admitted' = admitted
      /\ job[r].from \in Time /\ job[r].from <= now
      /\ \A q \in Thread : q # r => job'[q] = job[q]
  BY JobFacts, JobStep DEF Reset, Updating, UpdateJob, IInv, Stamped
<1>1. job'[r] = [job[r] EXCEPT !.at = "add"]
  BY DEF Reset, TypeOK
<1>2. job'[r].slot = i /\ job'[r].from = job[r].from /\ job'[r].at = "add"
  BY <1>0, <1>1 DEF UpdateJob
<1>3. Stamped(r) /\ lastIncrementTime[i] # -1
  BY <1>0 DEF IInv, InSecond
<1>4. Stamped(r)'
  BY <1>0, <1>2, <1>3 DEF Stamped
<1>5. CASE ~Stale(r)
  <2>1. UNCHANGED <<slotVars, admitted>>
    BY <1>0, <1>5 DEF Reset
  <2>2. SecondOf(lastIncrementTime[i]) = s
    BY <1>0, <1>3, <1>5, NotStale
  <2>3. InSecond(r)'
    BY <1>2, <2>1, <2>2 DEF InSecond, slotVars
  <2>4. QED
    BY <1>0, <1>2, <1>4, <2>1, <2>3, ReadingStep
<1>6. CASE Stale(r)
  <2>1. /\ atomicLong' = [atomicLong EXCEPT ![i] = 0]
        /\ lastIncrementTime' = [lastIncrementTime EXCEPT ![i] = job[r].from]
    BY <1>6 DEF Reset
  <2>2. /\ atomicLong'[i] = 0 /\ lastIncrementTime'[i] = job[r].from
        /\ job[r].from # -1
        /\ \A j \in Slot \ {i} : /\ atomicLong'[j] = atomicLong[j]
                                 /\ lastIncrementTime'[j] = lastIncrementTime[j]
    BY <1>0, <2>1, TimeTypes DEF TypeOK
  <2>3. s > SecondOf(lastIncrementTime[i]) /\ SecondOf(lastIncrementTime[i]) \in Nat
        /\ s \in Nat /\ s \in Seconds /\ s % Slots = i
    BY <1>0, <1>3, <1>6, LaterSecond, SlotTime, Live DEF Stale
  <2>4. admitted[s] = 0
    <3>1. Accounted(s)
      BY <2>3 DEF IInv
    <3>2. QED
      BY <1>3, <2>3, <3>1 DEF Accounted
  <2>5. ASSUME NEW q \in Thread PROVE Stamped(q)' /\ InSecond(q)'
    <3>0. Stamped(q) /\ InSecond(q)
      BY DEF IInv
    <3>1. Stamped(q)'
      BY <1>0, <1>4, <3>0 DEF Stamped
    <3>2. CASE q = r
      <4>1. InSecond(r)'
        BY <1>2, <2>2 DEF InSecond
      <4>2. QED
        BY <3>1, <3>2, <4>1
    <3>3. CASE q # r /\ job[q].at \in {"reset", "add", "write"}
      <4>1. job'[q] = job[q] /\ job[q].at \in Updating /\ job[q].slot \in Slot
        BY <1>0, <3>3, Live DEF Updating
      <4>2. CASE job[q].slot = i
        <5>1. SecondOf(job[q].from) = s
          BY <1>0, <4>1, <4>2, Neighbours
        <5>2. InSecond(q)'
          BY <2>2, <4>1, <4>2, <5>1 DEF InSecond
        <5>3. QED
          BY <3>1, <5>2
      <4>3. CASE job[q].slot # i
        <5>1. lastIncrementTime'[job[q].slot] = lastIncrementTime[job[q].slot]
          BY <2>2, <4>1, <4>3
        <5>2. InSecond(q)'
          BY <3>0, <4>1, <5>1 DEF InSecond
        <5>3. QED
          BY <3>1, <5>2
      <4>4. QED
        BY <4>2, <4>3
    <3>4. CASE q # r /\ job[q].at \notin {"reset", "add", "write"}
      BY <1>0, <3>1, <3>4 DEF InSecond
    <3>5. QED
      BY <3>2, <3>1, <3>3, <3>4
  <2>6. ASSUME NEW j \in Slot PROVE (Written(j) /\ FirstRound(j) /\ Held(j))'
    <3>0. Written(j) /\ FirstRound(j) /\ Held(j)
      BY DEF IInv
    <3>1. CASE j = i
      <4>1. SlotOf(job[r].from) = i
        BY <1>0, Live
      <4>2. Written(j)' /\ FirstRound(j)'
        BY <1>0, <2>2, <3>1, <4>1 DEF Written, FirstRound
      <4>3. Held(j)'
        BY <1>0, <2>2, <2>4, <3>1 DEF Held
      <4>4. QED
        BY <4>2, <4>3
    <3>2. CASE j # i
      <4>1. atomicLong'[j] = atomicLong[j] /\ lastIncrementTime'[j] = lastIncrementTime[j]
        BY <2>2, <3>2
      <4>2. Written(j)' /\ Held(j)'
        BY <1>0, <3>0, <4>1 DEF Written, Held
      <4>3. \A q \in Thread : /\ Writes(q, j)' <=> Writes(q, j)
                              /\ Writes(q, j) => job'[q].from = job[q].from
        BY <1>0, <1>2 DEF Writes
      <4>4. FirstRound(j)'
        <5>1. ASSUME lastIncrementTime[j] = -1
              PROVE  /\ \A q \in Thread : Writes(q, j)' =>
                            atomicLong'[j] = admitted'[SecondOf(job'[q].from)]
                     /\ (\A q \in Thread : ~Writes(q, j)') => atomicLong'[j] = 0
          BY <1>0, <3>0, <4>1, <4>3, <5>1 DEF FirstRound
        <5>2. QED
          BY <4>1, <5>1 DEF FirstRound
      <4>5. QED
        BY <4>2, <4>4
    <3>3. QED
      BY <3>1, <3>2
  <2>7. ASSUME NEW n \in Seconds PROVE Accounted(n)'
    <3>0. Accounted(n) /\ n \in Int
      BY DEF IInv, Seconds
    <3>1. CASE n % Slots = i
      BY <1>0, <1>3, <2>2, <2>3, <3>0, <3>1 DEF Accounted
    <3>2. CASE n % Slots # i
      <4>1. n % Slots \in Slot
        BY SecondTypes
      <4>2. lastIncrementTime'[n % Slots] = lastIncrementTime[n % Slots]
        BY <2>2, <3>2, <4>1
      <4>3. \A q \in Thread : job[q].at = "write" => job'[q] = job[q]
        BY <1>0
      <4>4. QED
        BY <1>0, <3>0, <4>2, <4>3 DEF Accounted
    <3>3. QED
      BY <3>1, <3>2
  <2>8. QED
    BY <2>5, <2>6, <2>7 DEF IInv
<1>7. QED
  BY <1>5, <1>6

LEMMA AddStep ==
  ASSUME TypeOK, IInv, NEW r \in Thread, Request(r), Add(r)
  PROVE  IInv'
<1> DEFINE i == job[r].slot
           s == SecondOf(job[r].from)
<1>0. /\ job[r].at = "add" /\ job[r].at \in Updating /\ job[r] \in UpdateJob
      /\ i \in Slot /\ now' = now /\ lastIncrementTime' = lastIncrementTime
      /\ s \in Seconds /\ s % Slots = i
      /\ \A q \in Thread : q # r => job'[q] = job[q]
  BY JobFacts, JobStep, Live DEF Add, Updating, UpdateJob
<1>1. job'[r] = [job[r] EXCEPT !.at = "write"]
  BY DEF Add, TypeOK
<1>2. job'[r].slot = i /\ job'[r].from = job[r].from /\ job'[r].at = "write"
  BY <1>0, <1>1 DEF UpdateJob
<1>3. /\ atomicLong'[i] = atomicLong[i] + 1 /\ admitted'[s] = admitted[s] + 1
      /\ \A j \in Slot \ {i} : atomicLong'[j] = atomicLong[j]
      /\ \A n \in Seconds \ {s} : admitted'[n] = admitted[n]
  BY <1>0 DEF Add, TypeOK
<1>4. ASSUME NEW q \in Thread PROVE Stamped(q)' /\ InSecond(q)'
  <2>0. Stamped(q) /\ InSecond(q)
    BY DEF IInv
  <2>1. /\ job'[q].slot = job[q].slot /\ job'[q].from = job[q].from
        /\ job'[q].at = job[q].at \/ (job[q].at = "add" /\ job'[q].at = "write")
    BY <1>0, <1>2
  <2>2. Stamped(q)'
    BY <1>0, <2>0, <2>1 DEF Stamped, Updating
  <2>3. InSecond(q)'
    BY <1>0, <2>0, <2>1 DEF InSecond
  <2>4. QED
    BY <2>2, <2>3
<1>5. ASSUME NEW q \in Thread, Writes(q, i) PROVE SecondOf(job[q].from) = s
  BY <1>0, <1>5, Neighbours DEF Writes, Updating
<1>6. lastIncrementTime[i] = -1 => atomicLong[i] = admitted[s]
  <2> SUFFICES ASSUME lastIncrementTime[i] = -1 PROVE atomicLong[i] = admitted[s]
    OBVIOUS
  <2>0. FirstRound(i) /\ Accounted(s)
    BY <1>0 DEF IInv
  <2>1. CASE \E q \in Thread : Writes(q, i)
    BY <1>5, <2>0, <2>1 DEF FirstRound
  <2>2. CASE \A q \in Thread : ~Writes(q, i)
    <3>1. atomicLong[i] = 0
      BY <2>0, <2>2 DEF FirstRound
    <3>2. ASSUME NEW q \in Thread, job[q].at = "write", SecondOf(job[q].from) = s
          PROVE FALSE
      <4>1. job[q].slot = i
        BY <1>0, <3>2, Live DEF Updating
      <4>2. QED
        BY <2>2, <3>2, <4>1 DEF Writes
    <3>3. admitted[s] = 0
      BY <1>0, <2>0, <3>2 DEF Accounted
    <3>4. QED
      BY <3>1, <3>3
  <2>3. QED
    BY <2>1, <2>2
<1>7. ASSUME NEW j \in Slot PROVE (Written(j) /\ FirstRound(j) /\ Held(j))'
  <2>0. Written(j) /\ FirstRound(j) /\ Held(j)
    BY DEF IInv
  <2>1. Written(j)'
    BY <1>0, <2>0 DEF Written
  <2>2. CASE j = i
    <3>1. lastIncrementTime[i] # -1 => SecondOf(lastIncrementTime[i]) = s
      BY <1>0 DEF IInv, InSecond
    <3>2. Held(j)'
      BY <1>0, <1>3, <2>0, <2>2, <3>1 DEF Held
    <3>3. ASSUME NEW q \in Thread, Writes(q, j)' PROVE SecondOf(job'[q].from) = s
      <4>1. CASE q = r
        BY <1>2, <4>1
      <4>2. CASE q # r
        <5>1. Writes(q, i) /\ job'[q] = job[q]
          BY <1>0, <2>2, <3>3, <4>2 DEF Writes
        <5>2. QED
          BY <1>5, <5>1
      <4>3. QED
        BY <4>1, <4>2
    <3>4. Writes(r, j)'
      BY <1>2, <2>2 DEF Writes
    <3>5. lastIncrementTime[j] = -1 =>
            /\ \A q \in Thread : Writes(q, j)' => atomicLong'[j] = admitted'[SecondOf(job'[q].from)]
            /\ ~ \A q \in Thread : ~Writes(q, j)'
      BY <1>3, <1>6, <2>2, <3>3, <3>4
    <3>6. FirstRound(j)'
      BY <1>0, <3>5 DEF FirstRound
    <3>7. QED
      BY <2>1, <3>2, <3>6
  <2>3. CASE j # i
    <3>1. lastIncrementTime[j] # -1 =>
            /\ SecondOf(lastIncrementTime[j]) \in Seconds
            /\ SecondOf(lastIncrementTime[j]) # s
      BY <1>0, <2>3, SlotTime
    <3>2. Held(j)'
      BY <1>0, <1>3, <2>0, <2>3, <3>1 DEF Held
    <3>3. \A q \in Thread : /\ Writes(q, j)' <=> Writes(q, j)
                            /\ Writes(q, j) => job'[q].from = job[q].from
      BY <1>0, <1>2, <2>3 DEF Writes
    <3>4. ASSUME NEW q \in Thread, Writes(q, j)
          PROVE  SecondOf(job[q].from) \in Seconds \ {s}
      BY <1>0, <2>3, <3>4, Live DEF Writes, Updating
    <3>5. lastIncrementTime[j] = -1 =>
            /\ \A q \in Thread : Writes(q, j)' => atomicLong'[j] = admitted'[SecondOf(job'[q].from)]
            /\ (\A q \in Thread : ~Writes(q, j)') => atomicLong'[j] = 0
      BY <1>3, <2>0, <2>3, <3>3, <3>4 DEF FirstRound
    <3>6. FirstRound(j)'
      BY <1>0, <3>5 DEF FirstRound
    <3>7. QED
      BY <2>1, <3>2, <3>6
  <2>4. QED
    BY <2>2, <2>3
<1>8. ASSUME NEW n \in Seconds PROVE Accounted(n)'
  <2>0. Accounted(n)
    BY DEF IInv
  <2>1. CASE n = s
    <3>1. lastIncrementTime[i] # -1 => SecondOf(lastIncrementTime[i]) = s
      BY <1>0 DEF IInv, InSecond
    <3>2. s \in Nat
      BY <1>0, SecondTypes
    <3>3. QED
      BY <1>0, <1>2, <2>1, <3>1, <3>2 DEF Accounted
  <2>2. CASE n # s
    <3>1. \A q \in Thread : job[q].at = "write" => job'[q] = job[q]
      BY <1>0
    <3>2. QED
      BY <1>0, <1>3, <2>0, <2>2, <3>1 DEF Accounted
  <2>3. QED
    BY <2>1, <2>2
<1>9. QED
  BY <1>4, <1>7, <1>8 DEF IInv

LEMMA WriteStep ==
  ASSUME TypeOK, IInv, NEW r \in Thread, Request(r), WriteTime(r)
  PROVE  IInv'
<1> DEFINE i == job[r].slot
           s == SecondOf(job[r].from)
<1>0. /\ job[r].at = "write" /\ job[r].at \in Updating
      /\ i \in Slot /\ now' = now /\ atomicLong' = atomicLong /\ admitted' = admitted
      /\ job[r].from \in Time /\ job[r].from <= now /\ SlotOf(job[r].from) = i
      /\ s \in Seconds /\ s \in Nat /\ s % Slots = i
      /\ \A q \in Thread : q # r => job'[q] = job[q]
  BY JobStep, Live DEF WriteTime, Updating
<1>1. job'[r].at = "idle"
  BY DEF WriteTime, TypeOK, Idle, Job
<1>2. /\ lastIncrementTime'[i] = job[r].from /\ job[r].from # -1
      /\ \A j \in Slot \ {i} : lastIncrementTime'[j] = lastIncrementTime[j]
  BY <1>0, TimeTypes DEF WriteTime, TypeOK
<1>3. ASSUME NEW q \in Thread PROVE Stamped(q)' /\ InSecond(q)'
  <2>0. Stamped(q) /\ InSecond(q)
    BY DEF IInv
  <2>1. Stamped(q)'
    BY <1>0, <1>1, <2>0 DEF Stamped, Updating
  <2>2. CASE q # r /\ job[q].at \in {"reset", "add", "write"}
    <3>1. job'[q] = job[q] /\ job[q].at \in Updating /\ job[q].slot \in Slot
      BY <1>0, <2>2, Live DEF Updating
    <3>2. CASE job[q].slot = i
      <4>1. SecondOf(job[q].from) = s
        BY <1>0, <3>1, <3>2, Neighbours
      <4>2. InSecond(q)'
        BY <1>2, <3>1, <3>2, <4>1 DEF InSecond
      <4>3. QED
        BY <2>1, <4>2
    <3>3. CASE job[q].slot # i
      <4>1. lastIncrementTime'[job[q].slot] = lastIncrementTime[job[q].slot]
        BY <1>2, <3>1, <3>3
      <4>2. InSecond(q)'
        BY <2>0, <3>1, <4>1 DEF InSecond
      <4>3. QED
        BY <2>1, <4>2
    <3>4. QED
      BY <3>2, <3>3
  <2>3. CASE job'[q].at \notin {"reset", "add", "write"}
    <3>1. InSecond(q)'
      BY <2>3 DEF InSecond
    <3>2. QED
      BY <2>1, <3>1
  <2>4. QED
    BY <1>0, <1>1, <2>2, <2>3
<1>4. ASSUME NEW j \in Slot PROVE (Written(j) /\ FirstRound(j) /\ Held(j))'
  <2>0. Written(j) /\ FirstRound(j) /\ Held(j)
    BY DEF IInv
  <2>1. CASE j = i
    <3>1. lastIncrementTime'[j] = job[r].from
      BY <1>2, <2>1
    <3>2. Written(j)' /\ FirstRound(j)'
      BY <1>0, <1>2, <2>1, <3>1 DEF Written, FirstRound
    <3>3. atomicLong[j] = admitted[s]
      <4>1. CASE lastIncrementTime[j] = -1
        <5>1. Writes(r, j)
          BY <1>0, <2>1 DEF Writes
        <5>2. QED
          BY <2>0, <4>1, <5>1 DEF FirstRound
      <4>2. CASE lastIncrementTime[j] # -1
        <5>1. SecondOf(lastIncrementTime[j]) = s
          BY <1>0, <2>1, <4>2 DEF IInv, InSecond
        <5>2. QED
          BY <2>0, <4>2, <5>1 DEF Held
      <4>3. QED
        BY <4>1, <4>2
    <3>4. Held(j)'
      BY <1>0, <3>1, <3>3 DEF Held
    <3>5. QED
      BY <3>2, <3>4
  <2>2. CASE j # i
    <3>1. lastIncrementTime'[j] = lastIncrementTime[j]
      BY <1>2, <2>2
    <3>2. Written(j)' /\ Held(j)'
      BY <1>0, <2>0, <3>1 DEF Written, Held
    <3>3. \A q \in Thread : /\ Writes(q, j)' <=> Writes(q, j)
                            /\ Writes(q, j) => job'[q].from = job[q].from
      BY <1>0, <1>1, <2>2 DEF Writes
    <3>4. lastIncrementTime[j] = -1 =>
            /\ \A q \in Thread : Writes(q, j)' => atomicLong'[j] = admitted'[SecondOf(job'[q].from)]
            /\ (\A q \in Thread : ~Writes(q, j)') => atomicLong'[j] = 0
      BY <1>0, <2>0, <3>3 DEF FirstRound
    <3>5. FirstRound(j)'
      BY <3>1, <3>4 DEF FirstRound
    <3>6. QED
      BY <3>2, <3>5
  <2>3. QED
    BY <2>1, <2>2
<1>5. ASSUME NEW n \in Seconds PROVE Accounted(n)'
  <2>0. Accounted(n) /\ n \in Nat /\ n % Slots \in Slot
    BY SecondTypes DEF IInv
  <2>1. ASSUME NEW q \in Thread, job[q].at = "write", SecondOf(job[q].from) = n
        PROVE  job[q].slot = n % Slots
    BY <2>1, Live DEF Updating
  <2>2. CASE n % Slots = i
    <3>1. CASE lastIncrementTime[i] = -1
      <4>1. admitted[n] # 0 => n = s
        <5>1. ASSUME NEW q \in Thread, job[q].at = "write", SecondOf(job[q].from) = n
              PROVE  n = s
          BY <1>0, <2>1, <2>2, <5>1, Neighbours DEF Updating
        <5>2. QED
          BY <2>0, <2>2, <3>1, <5>1 DEF Accounted
      <4>2. QED
        BY <1>0, <1>2, <2>2, <4>1 DEF Accounted
    <3>2. CASE lastIncrementTime[i] # -1
      <4>1. SecondOf(lastIncrementTime[i]) = s
        BY <1>0, <3>2 DEF IInv, InSecond
      <4>2. admitted[n] # 0 => n <= s
        BY <2>0, <2>2, <3>2, <4>1 DEF Accounted
      <4>3. QED
        BY <1>0, <1>2, <2>2, <4>2 DEF Accounted
    <3>3. QED
      BY <3>1, <3>2
  <2>3. CASE n % Slots # i
    <3>1. lastIncrementTime'[n % Slots] = lastIncrementTime[n % Slots]
      BY <1>2, <2>0, <2>3
    <3>2. ASSUME NEW q \in Thread, job[q].at = "write", SecondOf(job[q].from) = n
          PROVE  job'[q] = job[q]
      BY <1>0, <2>1, <2>3, <3>2
    <3>3. QED
      BY <1>0, <2>0, <3>1, <3>2 DEF Accounted
  <2>4. QED
    BY <2>2, <2>3
<1>6. QED
  BY <1>3, <1>4, <1>5 DEF IInv

LEMMA IInvInit == Init => IInv
<1> SUFFICES ASSUME Init PROVE IInv
  OBVIOUS
<1>1. /\ \A r \in Thread : job[r].at = "idle"
      /\ \A i \in Slot : lastIncrementTime[i] = -1 /\ atomicLong[i] = 0
      /\ \A n \in Seconds : admitted[n] = 0
  BY DEF Init, Idle, Job
<1>2. QED
  BY <1>1 DEF IInv, Stamped, InSecond, Written, FirstRound, Held, Accounted, Writes, Updating

LEMMA IInvStep == TypeOK /\ IInv /\ [Next]_vars => IInv'
<1> SUFFICES ASSUME TypeOK, IInv, [Next]_vars PROVE IInv'
  OBVIOUS
<1>1. TypeOK'
  BY TypeStep
<1>2. CASE Tick \/ UNCHANGED vars
  BY <1>1, <1>2, TickStep
<1>3. ASSUME NEW r \in Thread, Request(r) PROVE IInv'
  <2>1. CASE Arrive(r) \/ Count(r) \/ Limited(r) \/ Stamp(r)
    BY <1>3, <2>1, CountStep
  <2>2. CASE Check(r)
    BY <1>3, <2>2, CheckStep
  <2>3. CASE Reset(r)
    BY <1>3, <2>3, ResetStep
  <2>4. CASE Add(r)
    BY <1>3, <2>4, AddStep
  <2>5. CASE WriteTime(r)
    BY <1>3, <2>5, WriteStep
  <2>6. QED
    BY <1>3, <2>1, <2>2, <2>3, <2>4, <2>5 DEF Request
<1>4. QED
  BY <1>2, <1>3 DEF Next

(***************************************************************************)
(* No increment of MethodIpPercent is lost to a reset by another thread,   *)
(* and no slot keeps a count of an earlier round, as long as a thread is   *)
(* never delayed inside increment for a whole round of the ring.           *)
(***************************************************************************)
THEOREM SlotsCorrect == Spec => []SlotHoldsItsSecond
<1>1. IInv => SlotHoldsItsSecond
  BY DEF IInv, Held, SlotHoldsItsSecond
<1>2. QED
  BY <1>1, TypeInit, TypeStep, IInvInit, IInvStep, PTL DEF Spec

-----------------------------------------------------------------------------
(***************************************************************************)
(* How many requests a set of seconds has: the numbers of its seconds add  *)
(* up, and one more request is one more.                                   *)
(***************************************************************************)
Numbered(f, X) == UNION {{n} \X (1..f[n]) : n \in X}
Total(f, X) == Cardinality(Numbered(f, X))

LEMMA NumberedMembers ==
  ASSUME NEW f, NEW X, NEW n, NEW k
  PROVE  <<n, k>> \in Numbered(f, X) <=> n \in X /\ k \in 1..f[n]
  BY DEF Numbered

LEMMA NumberedPairs ==
  ASSUME NEW f, NEW X, NEW p \in Numbered(f, X)
  PROVE  p = <<p[1], p[2]>> /\ p[1] \in X /\ p[2] \in 1..f[p[1]]
  BY DEF Numbered

LEMMA SecondsFinite == IsFiniteSet(Seconds) /\ \A X \in SUBSET Seconds : IsFiniteSet(X)
<1>1. SecondOf(Start) \in Int /\ SecondOf(MaxTime) \in Int
  BY TimeTypes, WindowAssumption, Division DEF SecondOf
<1>2. IsFiniteSet(Seconds)
  BY <1>1, FS_Interval DEF Seconds
<1>3. QED
  BY <1>2, FS_Subset

LEMMA NumberedFinite ==
  ASSUME NEW f \in [Seconds -> Nat], NEW X \in SUBSET Seconds
  PROVE  IsFiniteSet(Numbered(f, X)) /\ Total(f, X) \in Nat
<1> DEFINE S == {{n} \X (1..f[n]) : n \in X}
           g == [n \in X |-> {n} \X (1..f[n])]
<1>1. IsFiniteSet(X)
  BY SecondsFinite
<1>2. g \in Surjection(X, S)
  BY DEF Surjection
<1>3. IsFiniteSet(S)
  BY <1>1, <1>2, FS_Surjection
<1>4. ASSUME NEW T \in S PROVE IsFiniteSet(T)
  <2>1. PICK n \in X : T = {n} \X (1..f[n])
    OBVIOUS
  <2>2. IsFiniteSet({n}) /\ f[n] \in Nat
    BY FS_Singleton
  <2>3. IsFiniteSet(1..f[n])
    BY <2>2, FS_Interval
  <2>4. QED
    BY <2>1, <2>2, <2>3, FS_Product
<1>5. IsFiniteSet(UNION S)
  BY <1>3, <1>4, FS_UNION
<1>6. QED
  BY <1>5, FS_CardinalityType DEF Numbered, Total

LEMMA TotalMore ==
  ASSUME NEW f \in [Seconds -> Nat], NEW X \in SUBSET Seconds,
         NEW g \in [Seconds -> Nat], NEW Y \in SUBSET Seconds,
         X \subseteq Y, \A n \in X : f[n] <= g[n]
  PROVE  Total(f, X) <= Total(g, Y)
<1>1. ASSUME NEW p \in Numbered(f, X) PROVE p \in Numbered(g, Y)
  <2>1. p = <<p[1], p[2]>> /\ p[1] \in X /\ p[2] \in 1..f[p[1]]
    BY NumberedPairs
  <2>2. p[1] \in Y /\ p[2] \in 1..g[p[1]]
    BY <2>1
  <2>3. <<p[1], p[2]>> \in Numbered(g, Y)
    BY ONLY <2>2, NumberedMembers
  <2>4. QED
    BY <2>1, <2>3
<1>2. QED
  BY <1>1, NumberedFinite, FS_Subset DEF Total

LEMMA TotalSplit ==
  ASSUME NEW f \in [Seconds -> Nat], NEW X \in SUBSET Seconds, NEW Y \in SUBSET Seconds,
         X \cap Y = {}
  PROVE  Total(f, X \cup Y) = Total(f, X) + Total(f, Y)
<1>1. Numbered(f, X \cup Y) = Numbered(f, X) \cup Numbered(f, Y)
  BY DEF Numbered
<1>2. Numbered(f, X) \cap Numbered(f, Y) = {}
  BY NumberedPairs
<1>3. Cardinality(Numbered(f, X) \cap Numbered(f, Y)) = 0
  BY <1>2, FS_EmptySet
<1>4. /\ IsFiniteSet(Numbered(f, X)) /\ Total(f, X) \in Nat
      /\ IsFiniteSet(Numbered(f, Y)) /\ Total(f, Y) \in Nat
  BY NumberedFinite
<1>5. Cardinality(Numbered(f, X) \cup Numbered(f, Y)) = Total(f, X) + Total(f, Y) - 0
  BY <1>3, <1>4, FS_Union DEF Total
<1>6. Total(f, X \cup Y) = Total(f, X) + Total(f, Y) - 0
  BY <1>1, <1>5 DEF Total
<1>7. QED
  BY <1>4, <1>6

LEMMA TotalOne ==
  ASSUME NEW f \in [Seconds -> Nat], NEW n \in Seconds
  PROVE  Total(f, {n}) = f[n]
<1> DEFINE g == [k \in 1..f[n] |-> <<n, k>>]
<1>0. f[n] \in Nat
  OBVIOUS
<1>1. Numbered(f, {n}) = {<<n, k>> : k \in 1..f[n]}
  BY DEF Numbered
<1>2. g \in Bijection(1..f[n], Numbered(f, {n}))
  BY <1>1 DEF Bijection, Injection, Surjection, IsInjective
<1>3. ExistsBijection(1..f[n], Numbered(f, {n}))
  BY <1>2 DEF ExistsBijection
<1>4. QED
  BY <1>0, <1>3, FS_CountingElements DEF Total

\* A set of seconds of which at most one was counted in.
LEMMA TotalAtMost ==
  ASSUME NEW f \in [Seconds -> Nat], NEW X \in SUBSET Seconds, NEW n \in Seconds,
         \A m \in X : f[m] # 0 => m = n
  PROVE  /\ Total(f, X) <= f[n]
         /\ (\A m \in X : f[m] = 0) => Total(f, X) = 0
<1>1. ASSUME NEW p \in Numbered(f, X) PROVE p \in Numbered(f, {n}) /\ f[p[1]] # 0
  <2>1. p = <<p[1], p[2]>> /\ p[1] \in X /\ p[2] \in 1..f[p[1]] /\ f[p[1]] \in Nat
    BY NumberedPairs
  <2>2. f[p[1]] # 0
    BY <2>1
  <2>3. p[1] = n
    BY <2>1, <2>2
  <2>4. <<p[1], p[2]>> \in Numbered(f, {n})
    BY <2>1, <2>3, NumberedMembers
  <2>5. QED
    BY <2>1, <2>2, <2>4
<1>2. Total(f, X) <= Total(f, {n})
  BY <1>1, NumberedFinite, FS_Subset DEF Total
<1>3. ASSUME \A m \in X : f[m] = 0 PROVE Numbered(f, X) = {}
  BY <1>1, <1>3, NumberedPairs
<1>4. QED
  BY <1>2, <1>3, TotalOne, FS_EmptySet DEF Total

LEMMA TotalNext ==
  ASSUME NEW f \in [Seconds -> Nat], NEW X \in SUBSET Seconds, NEW n \in Seconds,
         NEW g \in [Seconds -> Nat], g[n] = f[n] + 1,
         \A m \in Seconds : m # n => g[m] = f[m]
  PROVE  Total(g, X) = Total(f, X) + IF n \in X THEN 1 ELSE 0
<1>0. /\ f[n] \in Nat /\ g[n] = f[n] + 1 /\ \A m \in Seconds \ {n} : g[m] = f[m]
      /\ g \in [Seconds -> Nat]
  OBVIOUS
<1>1. CASE n \in X
  <2>1. 1..g[n] = (1..f[n]) \cup {g[n]} /\ g[n] \notin 1..f[n] /\ g[n] \in 1..g[n]
    BY <1>0
  <2>2. ASSUME NEW p PROVE p \in Numbered(g, X) <=> p \in Numbered(f, X) \cup {<<n, g[n]>>}
    <3>1. ASSUME p \in Numbered(g, X) PROVE p \in Numbered(f, X) \cup {<<n, g[n]>>}
      <4>1. p = <<p[1], p[2]>> /\ p[1] \in X /\ p[2] \in 1..g[p[1]]
        BY <3>1, NumberedPairs
      <4>2. (p[1] = n /\ p[2] = g[n]) \/ p[2] \in 1..f[p[1]]
        BY <1>0, <2>1, <4>1
      <4>3. p[2] \in 1..f[p[1]] => <<p[1], p[2]>> \in Numbered(f, X)
        BY <4>1, NumberedMembers
      <4>4. QED
        BY <4>1, <4>2, <4>3
    <3>2. ASSUME p \in Numbered(f, X) PROVE p \in Numbered(g, X)
      <4>1. p = <<p[1], p[2]>> /\ p[1] \in X /\ p[2] \in 1..f[p[1]]
        BY <3>2, NumberedPairs
      <4>2. p[2] \in 1..g[p[1]]
        BY <1>0, <2>1, <4>1
      <4>3. <<p[1], p[2]>> \in Numbered(g, X)
        <5>1. p[1] \in X /\ p[2] \in 1..g[p[1]]
          BY <4>1, <4>2
        <5> HIDE DEF Numbered
        <5>2. QED
          BY ONLY <5>1, NumberedMembers
      <4>4. QED
        BY <4>1, <4>3
    <3>3. <<n, g[n]>> \in Numbered(g, X)
      BY <1>1, <2>1, NumberedMembers
    <3>4. QED
      BY <3>1, <3>2, <3>3
  <2>3. Numbered(g, X) = Numbered(f, X) \cup {<<n, g[n]>>}
    BY <2>2
  <2>4. <<n, g[n]>> \notin Numbered(f, X)
    BY <2>1, NumberedMembers
  <2>5. QED
    BY <1>1, <2>3, <2>4, NumberedFinite, FS_AddElement DEF Total
<1>2. CASE n \notin X
  <2>1. \A m \in X : g[m] = f[m]
    BY <1>0, <1>2
  <2>2. Numbered(g, X) = Numbered(f, X)
    BY <2>1 DEF Numbered
  <2>3. QED
    BY <1>2, <2>2, NumberedFinite DEF Total
<1>3. QED
  BY <1>1, <1>2

LEMMA ThreadsFinite ==
  ASSUME NEW S \in SUBSET Thread
  PROVE  /\ IsFiniteSet(S) /\ Cardinality(S) \in Nat /\ Cardinality(Thread) \in Nat
         /\ Cardinality(S) <= Cardinality(Thread) /\ Cardinality(Thread) > 0
         /\ \A T \in SUBSET S : /\ Cardinality(T) <= Cardinality(S)
                                /\ Cardinality(S \ T) = Cardinality(S) - Cardinality(T)
<1>1. /\ IsFiniteSet(S) /\ Cardinality(S) \in Nat /\ Cardinality(S) <= Cardinality(Thread)
      /\ Cardinality(Thread) \in Nat
  BY ThreadAssumption, FS_Subset, FS_CardinalityType
<1>2. Cardinality(Thread) # 0
  BY ThreadAssumption, FS_EmptySet
<1>3. ASSUME NEW T \in SUBSET S
      PROVE  /\ Cardinality(T) <= Cardinality(S)
             /\ Cardinality(S \ T) = Cardinality(S) - Cardinality(T)
  <2> DEFINE U == S \ T
  <2>1. /\ IsFiniteSet(T) /\ IsFiniteSet(U) /\ Cardinality(T) <= Cardinality(S)
        /\ Cardinality(T) \in Nat /\ Cardinality(U) \in Nat
    BY <1>1, FS_Subset, FS_CardinalityType
  <2>2. U \cup T = S /\ U \cap T = {}
    OBVIOUS
  <2> HIDE DEF U
  <2>3. Cardinality(U \cup T) = Cardinality(U) + Cardinality(T) - Cardinality(U \cap T)
    BY <2>1, FS_Union
  <2>4. Cardinality(S) = Cardinality(U) + Cardinality(T) - 0
    BY <2>2, <2>3, FS_EmptySet
  <2>5. Cardinality(U) = Cardinality(S) - Cardinality(T)
    BY <1>1, <2>1, <2>4
  <2>6. QED
    BY <2>1, <2>5 DEF U
<1>4. QED
  BY <1>1, <1>2, <1>3

-----------------------------------------------------------------------------
(***************************************************************************)
(* The limit over a ring of calendar seconds, as an invariant.  A request  *)
(* is seen when it is in the count of a slot that was written; a thread is *)
(* open for the seconds up to n when it may still add to what is seen      *)
(* there: it has let its request through, or the slots it still has to     *)
(* read leave it below the limit, or it has counted in a slot that was     *)
(* never written and so is not looked at.  What is seen and who is open    *)
(* never come to more than the limit with one thread short of all.         *)
(***************************************************************************)
Window(n) == Seconds \cap ((n - Slots + 1)..n)
OfSlot(i) == {m \in Seconds : m % Slots = i}
Unwritten == {m \in Seconds : lastIncrementTime[m % Slots] = -1}
Ahead(n, i) == {m \in Window(n) \ Unwritten : m % Slots >= i}

Undecided(r, n) ==
    /\ job[r].at = "count" /\ SecondOf(now) <= n
    /\ job[r].sum + Total(admitted, Ahead(n, job[r].slot)) < MaxTimes

Pending(r, n) ==
    job[r].at \in {"check", "reset", "add"} /\ SecondOf(job[r].from) \in Window(n)

Hidden(r, X) == job[r].at = "write" /\ SecondOf(job[r].from) \in X \cap Unwritten

Writers(X) == {r \in Thread : Hidden(r, X)}
Open(n) == {r \in Thread : Undecided(r, n) \/ Pending(r, n) \/ Hidden(r, Window(n))}

Budget(n) ==
    Total(admitted, Window(n) \ Unwritten) + Cardinality(Open(n))
        < MaxTimes + Cardinality(Thread)

\* Every request in a slot never written is that of a thread about to write.
WritersInv ==
    \A X \in SUBSET Seconds :
        Total(admitted, X \cap Unwritten) <= Cardinality(Writers(X))

BudgetInv == \A n \in Seconds : Budget(n)

(***************************************************************************)
(* What a thread has added up is at most what was counted in the seconds   *)
(* of the slots it has read that touch the time span of count().           *)
(***************************************************************************)
Behind(r) ==
    {m \in Seconds : /\ SecondOf(job[r].from - Recent) <= m /\ m <= SecondOf(now)
                     /\ m % Slots < job[r].slot}

Summed(r) ==
    job[r].at = "count" => job[r].from <= now /\ job[r].sum <= Total(admitted, Behind(r))

SummedInv == \A r \in Thread : Summed(r)

\* What a step never takes back: the clock, the counts, the slots written.
LEMMA Grows ==
  ASSUME TypeOK, TypeOK', IInv, [Next]_vars
  PROVE  /\ now \in Nat /\ now' \in Nat /\ now <= now'
         /\ SecondOf(now) \in Nat /\ SecondOf(now') \in Nat
         /\ SecondOf(now) <= SecondOf(now')
         /\ admitted \in [Seconds -> Nat] /\ admitted' \in [Seconds -> Nat]
         /\ \A m \in Seconds : admitted[m] <= admitted'[m]
         /\ Unwritten' \subseteq Unwritten
<1>1. now \in Nat /\ now' \in Nat /\ now \in Time /\ now' \in Time
  BY TimeTypes DEF TypeOK
<1>2. now <= now'
  BY <1>1, JobStep DEF Next, Tick, vars
<1>3. \A a, b \in Nat : a <= b => a \div Second <= b \div Second
                                  /\ a \div Second \in Nat /\ b \div Second \in Nat
  BY WindowAssumption
<1>4. admitted \in [Seconds -> Nat] /\ admitted' \in [Seconds -> Nat]
  BY DEF TypeOK
<1>5. \A m \in Seconds : admitted[m] <= admitted'[m]
  <2>1. CASE admitted' = admitted
    BY <1>4, <2>1
  <2>2. ASSUME NEW r \in Thread, Add(r) PROVE \A m \in Seconds : admitted[m] <= admitted'[m]
    BY <1>4, <2>2 DEF Add
  <2>3. QED
    BY <2>1, <2>2 DEF Next, Request, Tick, vars, Arrive, Count, Limited, Stamp, Check,
                      Reset, WriteTime
<1>6. ASSUME NEW i \in Slot, lastIncrementTime[i] # -1 PROVE lastIncrementTime'[i] # -1
  <2>0. lastIncrementTime \in [Slot -> Time \cup {-1}]
    BY DEF TypeOK
  <2>1. CASE lastIncrementTime' = lastIncrementTime
    BY <1>6, <2>1
  <2>2. ASSUME NEW r \in Thread, Reset(r) \/ WriteTime(r) PROVE lastIncrementTime'[i] # -1
    <3>1. job[r].from \in Time
      BY <2>2, JobFacts DEF Reset, WriteTime
    <3>2. job[r].from # -1
      BY <3>1, TimeTypes
    <3>3. QED
      BY <1>6, <2>0, <2>2, <3>2 DEF Reset, WriteTime, slotVars
  <2>3. QED
    BY <2>1, <2>2 DEF Next, Request, Tick, vars, slotVars, Arrive, Count, Limited, Stamp,
                      Check, Add
<1>7. Unwritten' \subseteq Unwritten
  <2>1. ASSUME NEW m \in Seconds, lastIncrementTime'[m % Slots] = -1
        PROVE  lastIncrementTime[m % Slots] = -1
    BY <1>6, <2>1, SecondTypes
  <2>2. QED
    BY <2>1 DEF Unwritten
<1>8. QED
  BY <1>1, <1>2, <1>3, <1>4, <1>5, <1>7 DEF SecondOf

\* A thread that takes no part in a step is not open afterwards unless before.
LEMMA Others ==
  ASSUME TypeOK, TypeOK', IInv, [Next]_vars, NEW n \in Seconds,
         NEW q \in Thread, job'[q] = job[q], q \in Open(n)'
  PROVE  q \in Open(n)
<1>1. Unwritten' \subseteq Unwritten /\ SecondOf(now) <= SecondOf(now')
      /\ SecondOf(now) \in Nat /\ SecondOf(now') \in Nat /\ n \in Nat
  BY Grows, SecondTypes
<1>2. CASE Undecided(q, n)'
  <2>1. job[q].at = "count" /\ job[q].sum \in Nat
    BY <1>2, JobFacts DEF Undecided, CountJob
  <2> DEFINE A == Ahead(n, job[q].slot)
             B == {m \in Window(n) \ Unwritten' : m % Slots >= job[q].slot}
  <2>2. A \in SUBSET Seconds /\ B \in SUBSET Seconds /\ A \subseteq B
    BY <1>1 DEF Ahead, Window
  <2>3. job[q].sum + Total(admitted', B) < MaxTimes /\ SecondOf(now') <= n
    BY <1>2 DEF Undecided, Ahead
  <2>4. Total(admitted, A) <= Total(admitted', B)
        /\ Total(admitted, A) \in Nat /\ Total(admitted', B) \in Nat
    <3> HIDE DEF A, B
    <3>1. QED
      BY <2>2, Grows, TotalMore, NumberedFinite
  <2>5. job[q].sum + Total(admitted, A) < MaxTimes /\ SecondOf(now) <= n
    <3> HIDE DEF A, B
    <3>1. QED
      BY <1>1, <2>1, <2>3, <2>4, WindowAssumption
  <2>6. QED
    BY <2>1, <2>5 DEF Open, Undecided
<1>3. CASE Pending(q, n)'
  BY <1>3 DEF Open, Pending
<1>4. CASE Hidden(q, Window(n))'
  BY <1>1, <1>4 DEF Open, Hidden
<1>5. QED
  BY <1>2, <1>3, <1>4 DEF Open

\* What a slot holds of the seconds up to n, when it was written.
LEMMA Visible ==
  ASSUME TypeOK, IInv, NEW n \in Seconds, SecondOf(now) <= n,
         NEW m \in Window(n) \ Unwritten, admitted[m] # 0
  PROVE  /\ SecondOf(lastIncrementTime[m % Slots]) = m
         /\ lastIncrementTime[m % Slots] > now - Recent
         /\ atomicLong[m % Slots] = admitted[m]
<1> DEFINE i == m % Slots
           t == lastIncrementTime[i]
<1>1. /\ m \in Seconds /\ m \in Nat /\ i \in Slot /\ t # -1
      /\ n \in Nat /\ n <= m + Slots - 1 /\ Slots \in Nat
  BY SecondTypes, WindowAssumption DEF Window, Unwritten
<1>2. /\ t \in Time /\ t \in Nat /\ t <= now /\ SecondOf(t) \in Nat
      /\ SecondOf(t) % Slots = i
  BY <1>1, SlotTime
<1>3. m <= SecondOf(t)
  BY <1>1 DEF IInv, Accounted
<1>4. now \in Nat /\ SecondOf(now) \in Nat
  BY TimeTypes DEF TypeOK
<1>5. SecondOf(t) <= SecondOf(now)
  <2>1. \A a, b \in Nat : a <= b => a \div Second <= b \div Second
    BY WindowAssumption
  <2>2. QED
    BY <1>2, <1>4, <2>1 DEF SecondOf
<1>6. SecondOf(t) = m
  <2>1. SecondOf(t) < m + Slots /\ m < SecondOf(t) + Slots
    BY <1>1, <1>2, <1>3, <1>4, <1>5, WindowAssumption
  <2> HIDE DEF i, t
  <2>2. m % Slots = SecondOf(t) % Slots
    BY <1>2 DEF i
  <2>3. QED
    BY <1>1, <1>2, <2>1, <2>2, SameQuotient, WindowAssumption
<1>7. t > now - Recent
  <2> DEFINE p == SecondOf(now)
             q == SecondOf(t)
  <2>1. /\ now = Second * p + (now % Second) /\ t = Second * q + (t % Second)
        /\ now % Second \in 0..(Second - 1) /\ t % Second \in 0..(Second - 1)
    BY <1>2, <1>4, Division, WindowAssumption DEF SecondOf
  <2>2. q + (Slots - 1) >= p /\ Slots - 1 \in Int /\ q \in Nat /\ p \in Nat
    BY <1>1, <1>2, <1>4, <1>6
  <2> HIDE DEF p, q
  <2>3. /\ Second * (q + (Slots - 1)) >= Second * p + Second * 0
        /\ Second * (q + (Slots - 1)) \in Int /\ Second * p \in Int
    BY <2>2, Products, WindowAssumption
  <2>4. Second * (q + (Slots - 1)) = Second * q + Second * Slots - Second
        /\ Second * q \in Int /\ Second * Slots \in Int
    BY <2>2, WindowAssumption
  <2>5. Second * Slots <= Recent
    BY RecentAssumption, WindowAssumption
  <2>6. QED
    BY <1>2, <1>4, <2>1, <2>3, <2>4, <2>5, WindowAssumption
<1>8. Held(i)
  BY <1>1 DEF IInv
<1>9. QED
  BY <1>1, <1>6, <1>7, <1>8 DEF Held

\* Reading a slot takes from what is ahead no more than it adds to the sum.
LEMMA SlotRead ==
  ASSUME TypeOK, IInv, NEW n \in Seconds, SecondOf(now) <= n, NEW i \in Slot
  PROVE  Total(admitted, Ahead(n, i)) <=
            Total(admitted, Ahead(n, i + 1))
              + IF lastIncrementTime[i] > now - Recent THEN atomicLong[i] ELSE 0
<1> DEFINE A == Ahead(n, i + 1)
           B == {m \in Window(n) \ Unwritten : m % Slots = i}
           c == IF lastIncrementTime[i] > now - Recent THEN atomicLong[i] ELSE 0
<1>0. admitted \in [Seconds -> Nat] /\ i \in Int /\ c \in Nat
  BY DEF TypeOK, Slot
<1>1. A \in SUBSET Seconds /\ B \in SUBSET Seconds
  BY DEF Ahead, Window
<1>2. Ahead(n, i) = A \cup B /\ A \cap B = {}
  <2>1. \A m \in Seconds : m % Slots \in Int
    BY SecondTypes DEF Slot
  <2>2. QED
    BY <1>0, <2>1 DEF Ahead, Window
<1>3. Total(admitted, B) <= c
  <2>1. CASE \E m \in B : admitted[m] # 0
    <3>1. PICK m \in B : admitted[m] # 0
      BY <2>1
    <3>2. \A k \in B : admitted[k] # 0 => k = m
      BY <3>1, Visible
    <3>3. c = admitted[m]
      BY <3>1, Visible
    <3> HIDE DEF B, c
    <3>4. Total(admitted, B) <= admitted[m]
      BY <1>0, <1>1, <3>1, <3>2, TotalAtMost
    <3>5. QED
      BY <3>3, <3>4
  <2>2. CASE \A m \in B : admitted[m] = 0
    <3> HIDE DEF B, c
    <3>1. Total(admitted, B) = 0
      BY <1>0, <1>1, <2>2, TotalAtMost
    <3>2. QED
      BY <1>0, <3>1
  <2>3. QED
    BY <2>1, <2>2
<1> HIDE DEF A, B, c
<1>4. Total(admitted, A \cup B) = Total(admitted, A) + Total(admitted, B)
      /\ Total(admitted, A) \in Nat /\ Total(admitted, B) \in Nat
  BY <1>0, <1>1, <1>2, TotalSplit, NumberedFinite
<1>5. Total(admitted, Ahead(n, i)) <= Total(admitted, A) + c
  BY <1>0, <1>2, <1>3, <1>4
<1>6. QED
  BY <1>5 DEF A, c

-----------------------------------------------------------------------------
\* Steps that count nothing and write no slot for the first time.
LEMMA QuietBudget ==
  ASSUME TypeOK, TypeOK', NEW n \in Seconds, Budget(n),
         admitted' = admitted, Unwritten' = Unwritten, Open(n)' \subseteq Open(n)
  PROVE  Budget(n)'
<1> DEFINE W == Window(n) \ Unwritten
           P == Open(n)'
<1>1. Open(n) \in SUBSET Thread /\ P \subseteq Open(n)
  BY DEF Open
<1>2. Total(admitted, W) \in Nat
  BY NumberedFinite DEF TypeOK, Window
<1>3. Total(admitted, W) + Cardinality(Open(n)) < MaxTimes + Cardinality(Thread)
  BY DEF Budget
<1> HIDE DEF P, W
<1>4. Cardinality(P) <= Cardinality(Open(n)) /\ Cardinality(P) \in Nat
      /\ Cardinality(Open(n)) \in Nat /\ Cardinality(Thread) \in Nat
  BY <1>1, ThreadsFinite
<1>5. Total(admitted, W) + Cardinality(P) < MaxTimes + Cardinality(Thread)
  BY <1>2, <1>3, <1>4, WindowAssumption
<1>6. QED
  BY <1>5 DEF Budget, P, W

\* Everything but Add and WriteTime
LEMMA QuietStep ==
  ASSUME TypeOK, TypeOK', IInv, NEW r \in Thread, Request(r),
         Arrive(r) \/ Count(r) \/ Limited(r) \/ Stamp(r) \/ Check(r) \/ Reset(r)
  PROVE  /\ admitted' = admitted /\ Unwritten' = Unwritten /\ now' = now
         /\ job[r].at # "write" /\ job'[r].at # "write"
         /\ \A q \in Thread : q # r => job'[q] = job[q]
<1>1. admitted' = admitted /\ now' = now /\ \A q \in Thread : q # r => job'[q] = job[q]
  BY JobStep DEF Arrive, Count, Limited, Stamp, Check, Reset
<1>2. job[r].at # "write"
  BY DEF Arrive, Count, Limited, Stamp, Check, Reset, Idle, Job
<1>3. job'[r].at # "write"
  <2>1. CASE Count(r)
    <3>1. job[r] \in CountJob /\ job[r].at = "count"
      BY <2>1, JobFacts DEF Count
    <3>2. job'[r].at = job[r].at
      BY <2>1, <3>1 DEF Count, TypeOK, CountJob
    <3>3. QED
      BY <3>1, <3>2
  <2>2. CASE Check(r) \/ Reset(r)
    <3>1. job[r] \in UpdateJob
      BY <2>2, JobFacts DEF Check, Reset, Updating
    <3>2. job'[r].at \in {"reset", "add"}
      BY <2>2, <3>1 DEF Check, Reset, TypeOK, UpdateJob
    <3>3. QED
      BY <3>2
  <2>3. CASE Arrive(r) \/ Limited(r) \/ Stamp(r)
    BY <2>3 DEF Arrive, Limited, Stamp, Idle, Job, TypeOK
  <2>4. QED
    BY <2>1, <2>2, <2>3
<1>4. \A m \in Seconds : lastIncrementTime'[m % Slots] = -1 <=> lastIncrementTime[m % Slots] = -1
  <2>1. CASE lastIncrementTime' = lastIncrementTime
    BY <2>1
  <2>2. CASE Reset(r)
    <3>1. /\ job[r].at = "reset" /\ job[r].slot \in Slot /\ job[r].from # -1
          /\ lastIncrementTime \in [Slot -> Time \cup {-1}]
      BY <2>2, JobFacts, TimeTypes DEF Reset, TypeOK, Updating, UpdateJob
    <3>2. lastIncrementTime[job[r].slot] # -1
      BY <3>1 DEF IInv, InSecond
    <3>3. QED
      BY <2>2, <3>1, <3>2, SecondTypes DEF Reset, slotVars
  <2>3. QED
    BY <2>1, <2>2 DEF Arrive, Count, Limited, Stamp, Check, slotVars
<1>5. QED
  BY <1>1, <1>2, <1>3, <1>4 DEF Unwritten

LEMMA WritersQuiet ==
  ASSUME TypeOK, WritersInv, admitted' = admitted, Unwritten' = Unwritten,
         \A q \in Thread : job[q].at = "write" => job'[q] = job[q],
         TypeOK'
  PROVE  WritersInv'
<1>1. ASSUME NEW X \in SUBSET Seconds
      PROVE  Total(admitted', X \cap Unwritten') <= Cardinality(Writers(X)')
  <2> DEFINE P == Writers(X)
             Q == Writers(X)'
  <2>1. P \subseteq Q /\ Q \in SUBSET Thread
    BY DEF Writers, Hidden
  <2>2. Total(admitted, X \cap Unwritten) <= Cardinality(P)
    BY DEF WritersInv
  <2>3. Total(admitted, X \cap Unwritten) \in Nat
    BY NumberedFinite DEF TypeOK
  <2> HIDE DEF P, Q
  <2>4. Cardinality(P) <= Cardinality(Q) /\ Cardinality(P) \in Nat /\ Cardinality(Q) \in Nat
    BY <2>1, ThreadsFinite
  <2>5. Total(admitted, X \cap Unwritten) <= Cardinality(Q)
    BY <2>2, <2>3, <2>4
  <2>6. QED
    BY <2>5 DEF Q
<1>2. QED
  BY <1>1 DEF WritersInv

LEMMA BudgetTick ==
  ASSUME TypeOK, TypeOK', IInv, BudgetInv, WritersInv, Tick \/ UNCHANGED vars
  PROVE  BudgetInv' /\ WritersInv'
<1>1. admitted' = admitted /\ job' = job /\ lastIncrementTime' = lastIncrementTime
  BY DEF Tick, vars, slotVars
<1>2. Unwritten' = Unwritten
  BY <1>1 DEF Unwritten
<1>3. ASSUME NEW n \in Seconds PROVE Budget(n)'
  <2>1. Open(n)' \subseteq Open(n)
    <3>1. ASSUME NEW q \in Thread, q \in Open(n)' PROVE q \in Open(n)
      BY <1>1, <3>1, Others DEF Next
    <3>2. Open(n)' \subseteq Thread
      BY DEF Open
    <3>3. QED
      BY <3>1, <3>2
  <2>2. QED
    BY <1>1, <1>2, <2>1, QuietBudget DEF BudgetInv
<1>4. WritersInv'
  BY <1>1, <1>2, WritersQuiet
<1>5. QED
  BY <1>3, <1>4 DEF BudgetInv

LEMMA BudgetQuiet ==
  ASSUME TypeOK, TypeOK', IInv, NEW n \in Seconds, Budget(n), NEW r \in Thread, Request(r),
         Arrive(r) \/ Count(r) \/ Limited(r) \/ Stamp(r) \/ Check(r) \/ Reset(r)
  PROVE  Budget(n)'
<1>0. /\ admitted' = admitted /\ Unwritten' = Unwritten /\ now' = now
      /\ job[r].at # "write" /\ job'[r].at # "write"
      /\ \A q \in Thread : q # r => job'[q] = job[q]
      /\ admitted \in [Seconds -> Nat] /\ now \in Nat /\ SecondOf(now) \in Nat /\ n \in Nat
      /\ MaxTimes \in Nat /\ Slots \in Nat
  BY QuietStep, TimeTypes, SecondTypes, WindowAssumption DEF TypeOK
<1>1. ASSUME r \in Open(n)' => r \in Open(n) PROVE Budget(n)'
  <2>1. ASSUME NEW q \in Thread, q \in Open(n)' PROVE q \in Open(n)
    <3>1. [Next]_vars
      BY DEF Next
    <3>2. QED
      BY <1>0, <1>1, <2>1, <3>1, Others
  <2>2. Open(n)' \subseteq Open(n)
    BY <2>1 DEF Open
  <2>3. QED
    BY <1>0, <2>2, QuietBudget
<1>2. r \in Open(n)' <=> Undecided(r, n)' \/ Pending(r, n)'
  BY <1>0 DEF Open, Hidden
<1>3. CASE Arrive(r)
  <2>1. job'[r].at = "count" /\ job'[r].slot = 0 /\ job'[r].sum = 0
    BY <1>3 DEF Arrive, Job, TypeOK
  <2>2. CASE Undecided(r, n)'
    <3> DEFINE W == Window(n) \ Unwritten
               P == Open(n)'
    <3>1. {m \in W : m % Slots >= 0} = W
      <4>1. \A m \in W : m % Slots >= 0
        BY SecondTypes DEF Window, Slot
      <4> HIDE DEF W
      <4>2. QED
        BY <4>1
    <3>2. 0 + Total(admitted, W) < MaxTimes
      BY <3>1, <1>0, <2>1, <2>2 DEF Undecided, Ahead
    <3>3. Total(admitted, W) \in Nat /\ P \in SUBSET Thread
      BY <1>0, NumberedFinite DEF Window, Open
    <3> HIDE DEF W, P
    <3>4. Total(admitted, W) < MaxTimes
      BY <3>2, <3>3
    <3>5. /\ Cardinality(P) <= Cardinality(Thread) /\ Cardinality(P) \in Nat
          /\ Cardinality(Thread) \in Nat
      BY <3>3, ThreadsFinite
    <3>6. Total(admitted, W) + Cardinality(P) < MaxTimes + Cardinality(Thread)
      BY <1>0, <3>3, <3>4, <3>5
    <3>7. QED
      BY <1>0, <3>6 DEF Budget, W, P
  <2>3. CASE ~Undecided(r, n)'
    <3>1. ~Pending(r, n)'
      BY <2>1 DEF Pending
    <3>2. QED
      BY <1>1, <1>2, <2>3, <3>1
  <2>4. QED
    BY <2>2, <2>3
<1>4. CASE Count(r)
  <2> DEFINE i == job[r].slot
             c == IF lastIncrementTime[i] > now - Recent THEN atomicLong[i] ELSE 0
  <2>1. /\ job[r] \in CountJob /\ job[r].at = "count" /\ i \in Slot
        /\ job[r].sum \in Nat /\ c \in Nat
    <3>1. job[r] \in CountJob /\ job[r].at = "count" /\ i < Slots
      BY <1>4, JobFacts DEF Count
    <3>2. i \in Slot /\ job[r].sum \in Nat
      BY <1>0, <3>1 DEF CountJob, Slot
    <3>3. c \in Nat
      BY <3>2 DEF TypeOK
    <3>4. QED
      BY <3>1, <3>2, <3>3
  <2>2. job' = [job EXCEPT ![r].slot = i + 1, ![r].sum = @ + c]
    BY <1>4 DEF Count
  <2> HIDE DEF c
  <2>3. job'[r].at = "count" /\ job'[r].slot = i + 1 /\ job'[r].sum = job[r].sum + c
    BY <2>1, <2>2 DEF TypeOK, CountJob
  <2>4. ASSUME Undecided(r, n)' PROVE Undecided(r, n)
    <3> DEFINE a == Total(admitted, Ahead(n, i))
               b == Total(admitted, Ahead(n, i + 1))
    <3>1. SecondOf(now) <= n
      BY <1>0, <2>4 DEF Undecided
    <3>2. (job[r].sum + c) + b < MaxTimes
      BY <1>0, <2>3, <2>4 DEF Undecided, Ahead
    <3>3. a \in Nat /\ b \in Nat
      BY <1>0, NumberedFinite DEF Ahead, Window
    <3>4. a <= b + c
      BY <2>1, <3>1, SlotRead DEF c
    <3> HIDE DEF a, b
    <3>5. job[r].sum + a < MaxTimes
      BY <1>0, <2>1, <3>2, <3>3, <3>4
    <3>6. QED
      BY <2>1, <3>1, <3>5 DEF Undecided, a
  <2>5. ~Pending(r, n)'
    BY <2>3 DEF Pending
  <2>6. QED
    BY <1>1, <1>2, <2>4, <2>5 DEF Open
<1>5. CASE Limited(r)
  <2>1. job'[r].at = "idle"
    BY <1>5 DEF Limited, Idle, Job, TypeOK
  <2>2. QED
    BY <1>1, <1>2, <2>1 DEF Undecided, Pending
<1>6. CASE Stamp(r)
  <2>1. job'[r].at = "check" /\ job'[r].from = now /\ ~Undecided(r, n)'
    BY <1>6 DEF Stamp, Job, TypeOK, Undecided
  <2>2. ASSUME Pending(r, n)' PROVE Undecided(r, n)
    <3>1. SecondOf(now) <= n
      BY <1>0, <2>1, <2>2 DEF Pending, Window
    <3>2. Ahead(n, Slots) = {}
      BY <1>0, SecondTypes DEF Ahead, Window, Slot
    <3>3. Total(admitted, Ahead(n, Slots)) = 0
      BY <3>2, FS_EmptySet DEF Total, Numbered
    <3>4. job[r].at = "count" /\ job[r].slot = Slots /\ job[r].sum < MaxTimes
      BY <1>6 DEF Stamp
    <3>5. job[r].sum \in Nat
      BY <3>4, JobFacts DEF CountJob
    <3>6. job[r].sum + Total(admitted, Ahead(n, job[r].slot)) < MaxTimes
      BY <3>3, <3>4, <3>5
    <3>7. QED
      BY <3>1, <3>4, <3>6 DEF Undecided
  <2>3. QED
    BY <1>1, <1>2, <2>1, <2>2 DEF Open
<1>7. CASE Check(r) \/ Reset(r)
  <2>1. job[r].at \in {"check", "reset"} /\ job[r] \in UpdateJob
    BY <1>7, JobFacts DEF Check, Reset, Updating
  <2>2. job'[r].at \in {"reset", "add"} /\ job'[r].from = job[r].from
    BY <1>7, <2>1 DEF Check, Reset, TypeOK, UpdateJob
  <2>3. ~Undecided(r, n)' /\ (Pending(r, n)' => Pending(r, n))
    BY <2>1, <2>2 DEF Undecided, Pending
  <2>4. QED
    BY <1>1, <1>2, <2>3 DEF Open
<1>8. QED
  BY <1>3, <1>4, <1>5, <1>6, <1>7

LEMMA AddBudget ==
  ASSUME TypeOK, TypeOK', IInv, WritersInv, BudgetInv, NEW r \in Thread, Request(r), Add(r)
  PROVE  WritersInv' /\ BudgetInv'
<1> DEFINE s == SecondOf(job[r].from)
<1>0. /\ job[r].at = "add" /\ job[r] \in UpdateJob /\ s \in Seconds
      /\ lastIncrementTime' = lastIncrementTime /\ now' = now /\ Unwritten' = Unwritten
      /\ \A q \in Thread : q # r => job'[q] = job[q]
      /\ admitted \in [Seconds -> Nat]
      /\ admitted' \in [Seconds -> Nat] /\ admitted'[s] = admitted[s] + 1
      /\ \A m \in Seconds : m # s => admitted'[m] = admitted[m]
  BY JobFacts, JobStep, Live DEF Add, Updating, TypeOK, Unwritten
<1>1. job'[r].at = "write" /\ job'[r].from = job[r].from
  BY <1>0 DEF Add, TypeOK, UpdateJob
<1>2. ASSUME NEW X \in SUBSET Seconds
      PROVE  Total(admitted', X \cap Unwritten') <= Cardinality(Writers(X)')
  <2> DEFINE P == Writers(X)
             Q == Writers(X)'
             Y == X \cap Unwritten
  <2>1. P \in SUBSET Thread /\ Q \in SUBSET Thread /\ Y \in SUBSET Seconds
    BY DEF Writers
  <2>2. Q = IF s \in Y THEN P \cup {r} ELSE P
    <3>1. r \notin P /\ (r \in Q <=> s \in Y)
      BY <1>0, <1>1 DEF Writers, Hidden
    <3>2. \A q \in Thread : q # r => (q \in Q <=> q \in P)
      BY <1>0 DEF Writers, Hidden
    <3>3. QED
      BY <2>1, <3>1, <3>2
  <2>3. r \notin P /\ Total(admitted, Y) <= Cardinality(P)
    BY <1>0 DEF Writers, Hidden, WritersInv
  <2> HIDE DEF P, Q, Y, s
  <2>4. /\ Total(admitted', Y) = Total(admitted, Y) + IF s \in Y THEN 1 ELSE 0
        /\ Total(admitted, Y) \in Nat
    BY <1>0, <2>1, TotalNext, NumberedFinite
  <2>5. Cardinality(Q) = Cardinality(P) + (IF s \in Y THEN 1 ELSE 0) /\ Cardinality(P) \in Nat
    BY <2>1, <2>2, <2>3, ThreadsFinite, FS_AddElement
  <2>6. Total(admitted', Y) <= Cardinality(Q)
    BY <2>3, <2>4, <2>5
  <2>7. QED
    BY <1>0, <2>6 DEF Y, Q
<1>3. ASSUME NEW n \in Seconds PROVE Budget(n)'
  <2> DEFINE W == Window(n) \ Unwritten
             P == Open(n)
             Q == Open(n)'
  <2>1. P \in SUBSET Thread /\ Q \in SUBSET Thread /\ W \in SUBSET Seconds
    BY DEF Open, Window
  <2>2. \A q \in Q : q # r => q \in P
    <3>1. [Next]_vars
      BY DEF Next
    <3>2. QED
      BY <1>0, <2>1, <3>1, Others
  <2>3. r \in P <=> s \in Window(n)
    BY <1>0 DEF Open, Undecided, Pending, Hidden
  <2>4. r \in Q <=> s \in Window(n) \cap Unwritten
    BY <1>0, <1>1 DEF Open, Undecided, Pending, Hidden
  <2>5. Q \subseteq P /\ (s \in W => Q \subseteq P \ {r} /\ r \in P)
    BY <2>2, <2>3, <2>4
  <2>6. Total(admitted, W) + Cardinality(P) < MaxTimes + Cardinality(Thread)
    BY DEF BudgetInv, Budget
  <2> HIDE DEF P, Q, W, s
  <2>7. /\ Total(admitted', W) = Total(admitted, W) + IF s \in W THEN 1 ELSE 0
        /\ Total(admitted, W) \in Nat
    BY <1>0, <2>1, TotalNext, NumberedFinite
  <2>8. /\ Cardinality(P) \in Nat /\ Cardinality(Q) \in Nat /\ Cardinality(Thread) \in Nat
        /\ Cardinality(Q) <= Cardinality(P)
    BY <2>1, <2>5, ThreadsFinite
  <2>9. s \in W => Cardinality(Q) <= Cardinality(P) - 1
    <3>1. SUFFICES ASSUME s \in W PROVE Cardinality(Q) <= Cardinality(P) - 1
      OBVIOUS
    <3>2. Cardinality(P \ {r}) = Cardinality(P) - 1
      BY <2>1, <2>5, <3>1, ThreadsFinite, FS_RemoveElement
    <3>3. Cardinality(Q) <= Cardinality(P \ {r})
      BY <2>1, <2>5, <3>1, ThreadsFinite
    <3>4. QED
      BY <3>2, <3>3
  <2>10. Total(admitted', W) + Cardinality(Q) < MaxTimes + Cardinality(Thread)
    BY <2>6, <2>7, <2>8, <2>9, WindowAssumption
  <2>11. QED
    BY <1>0, <2>10 DEF Budget, W, Q
<1>4. QED
  BY <1>2, <1>3 DEF WritersInv, BudgetInv

LEMMA WriteBudget ==
  ASSUME TypeOK, TypeOK', IInv, WritersInv, BudgetInv, NEW r \in Thread, Request(r),
         WriteTime(r)
  PROVE  WritersInv' /\ BudgetInv'
<1> DEFINE i == job[r].slot
           s == SecondOf(job[r].from)
<1>0. /\ job[r].at = "write" /\ i \in Slot /\ s \in Seconds /\ s % Slots = i
      /\ job[r].from # -1 /\ now' = now /\ admitted' = admitted
      /\ \A q \in Thread : q # r => job'[q] = job[q]
      /\ admitted \in [Seconds -> Nat]
      /\ lastIncrementTime \in [Slot -> Time \cup {-1}]
  BY JobStep, Live, TimeTypes DEF WriteTime, Updating, TypeOK
<1>1. job'[r].at = "idle"
  BY DEF WriteTime, TypeOK, Idle, Job
<1>2. Unwritten' = Unwritten \ OfSlot(i)
  <2>1. /\ lastIncrementTime'[i] # -1
        /\ \A j \in Slot : j # i => lastIncrementTime'[j] = lastIncrementTime[j]
    BY <1>0 DEF WriteTime
  <2>2. \A m \in Seconds : lastIncrementTime'[m % Slots] = -1 <=>
                              lastIncrementTime[m % Slots] = -1 /\ m % Slots # i
    BY <2>1, SecondTypes
  <2>3. QED
    BY <2>2 DEF Unwritten, OfSlot
<1>3. ASSUME NEW X \in SUBSET Seconds
      PROVE  Total(admitted', X \cap Unwritten') <= Cardinality(Writers(X)')
  <2> DEFINE Y == X \ OfSlot(i)
             P == Writers(Y)
             Q == Writers(X)'
  <2>1. P \subseteq Q /\ Q \in SUBSET Thread /\ Y \in SUBSET Seconds
    <3>1. r \notin P
      BY <1>0 DEF Writers, Hidden, OfSlot
    <3>2. \A q \in P : q # r => q \in Q
      BY <1>0, <1>2 DEF Writers, Hidden
    <3>3. QED
      BY <3>1, <3>2 DEF Writers
  <2>2. Total(admitted, Y \cap Unwritten) <= Cardinality(P)
    BY <2>1 DEF WritersInv
  <2>3. X \cap Unwritten' = Y \cap Unwritten
    BY <1>2
  <2> HIDE DEF P, Q, Y
  <2>4. Total(admitted, Y \cap Unwritten) \in Nat
    BY <1>0, <2>1, NumberedFinite
  <2>5. Cardinality(P) <= Cardinality(Q) /\ Cardinality(P) \in Nat /\ Cardinality(Q) \in Nat
    BY <2>1, ThreadsFinite
  <2>6. Total(admitted, Y \cap Unwritten) <= Cardinality(Q)
    BY <2>2, <2>4, <2>5
  <2>7. QED
    BY <1>0, <2>3, <2>6 DEF Q
<1>4. ASSUME NEW n \in Seconds PROVE Budget(n)'
  <2> DEFINE W == Window(n) \ Unwritten
             Z == Window(n) \cap OfSlot(i)
             ZU == Z \cap Unwritten
             P == Open(n)
             Q == Open(n)'
             R == Writers(Z)
  <2>1. /\ P \in SUBSET Thread /\ Q \in SUBSET Thread /\ R \in SUBSET Thread
        /\ W \in SUBSET Seconds /\ Z \in SUBSET Seconds /\ ZU \in SUBSET Seconds
        /\ W \cap ZU = {}
    BY DEF Open, Writers, Window
  <2>2. Window(n) \ Unwritten' = W \cup ZU
    BY <1>2 DEF Window
  <2>3. \A q \in Q : q \in P
    <3>1. [Next]_vars
      BY DEF Next
    <3>2. r \notin Q
      BY <1>1 DEF Open, Undecided, Pending, Hidden
    <3>3. QED
      BY <1>0, <2>1, <3>1, <3>2, Others
  <2>4. R \subseteq P /\ R \cap Q = {}
    <3>1. R \subseteq P
      BY DEF Writers, Open, Hidden
    <3>2. ASSUME NEW q \in R PROVE q \notin Q
      <4>1. q \in Thread /\ job[q].at = "write" /\ SecondOf(job[q].from) \in OfSlot(i)
        BY DEF Writers, Hidden
      <4>2. CASE q = r
        BY <1>1, <4>2 DEF Open, Undecided, Pending, Hidden
      <4>3. CASE q # r
        <5>1. job'[q] = job[q] /\ SecondOf(job[q].from) \notin Unwritten'
          BY <1>0, <1>2, <4>1, <4>3
        <5>2. QED
          BY <4>1, <5>1 DEF Open, Undecided, Pending, Hidden
      <4>4. QED
        BY <4>2, <4>3
    <3>3. QED
      BY <3>1, <3>2
  <2>5. Total(admitted, W) + Cardinality(P) < MaxTimes + Cardinality(Thread)
    BY DEF BudgetInv, Budget
  <2>6. Total(admitted, ZU) <= Cardinality(R)
    BY <2>1 DEF WritersInv
  <2> HIDE DEF P, Q, R, W, Z, ZU
  <2>7. /\ Total(admitted, W \cup ZU) = Total(admitted, W) + Total(admitted, ZU)
        /\ Total(admitted, W) \in Nat /\ Total(admitted, ZU) \in Nat
    BY <1>0, <2>1, TotalSplit, NumberedFinite
  <2>8. /\ Cardinality(P) \in Nat /\ Cardinality(Q) \in Nat /\ Cardinality(R) \in Nat
        /\ Cardinality(Thread) \in Nat
        /\ Cardinality(P \ R) = Cardinality(P) - Cardinality(R)
    BY <2>1, <2>4, ThreadsFinite
  <2>9. Cardinality(Q) <= Cardinality(P \ R)
    <3>1. Q \subseteq P \ R /\ P \ R \in SUBSET Thread
      BY <2>1, <2>3, <2>4
    <3>2. QED
      BY <3>1, ThreadsFinite
  <2>10. Total(admitted, W \cup ZU) + Cardinality(Q) < MaxTimes + Cardinality(Thread)
    BY <2>5, <2>6, <2>7, <2>8, <2>9, WindowAssumption
  <2>11. QED
    BY <1>0, <2>2, <2>10 DEF Budget, W, Q
<1>5. QED
  BY <1>3, <1>4 DEF WritersInv, BudgetInv

\* The sum of a thread in isLimited.
LEMMA SummedStep ==
  ASSUME TypeOK, TypeOK', IInv, SummedInv, [Next]_vars
  PROVE  SummedInv'
<1>0. /\ now \in Nat /\ now' \in Nat /\ now <= now' /\ SecondOf(now) <= SecondOf(now')
      /\ SecondOf(now) \in Nat /\ SecondOf(now') \in Nat
      /\ admitted \in [Seconds -> Nat] /\ admitted' \in [Seconds -> Nat]
      /\ \A m \in Seconds : admitted[m] <= admitted'[m]
      /\ \A m \in Seconds : m \in Nat
  BY Grows, SecondTypes
<1>1. ASSUME NEW q \in Thread, job'[q] = job[q] PROVE Summed(q)'
  <2> SUFFICES ASSUME job[q].at = "count"
               PROVE  job[q].from <= now' /\ job[q].sum <= Total(admitted', Behind(q)')
    BY <1>1 DEF Summed
  <2> DEFINE A == Behind(q)
             B == Behind(q)'
  <2>1. A \subseteq B /\ A \in SUBSET Seconds /\ B \in SUBSET Seconds
    BY <1>0, <1>1 DEF Behind
  <2>2. job[q].from <= now /\ job[q].sum <= Total(admitted, A)
    BY DEF SummedInv, Summed
  <2>3. job[q].from \in Nat /\ job[q].sum \in Nat
    BY JobFacts, TimeTypes DEF CountJob
  <2> HIDE DEF A, B
  <2>4. /\ Total(admitted, A) <= Total(admitted', B)
        /\ Total(admitted, A) \in Nat /\ Total(admitted', B) \in Nat
    BY <1>0, <2>1, TotalMore, NumberedFinite
  <2>5. job[q].from <= now' /\ job[q].sum <= Total(admitted', B)
    BY <1>0, <2>2, <2>3, <2>4
  <2>6. QED
    BY <2>5 DEF B
<1>2. ASSUME NEW r \in Thread, Request(r) PROVE Summed(r)'
  <2>1. CASE Arrive(r)
    <3>1. job'[r].sum = 0 /\ job'[r].from = now /\ now' = now
      BY <2>1 DEF Arrive, Job, TypeOK
    <3>2. Total(admitted', Behind(r)') \in Nat
      <4>1. Behind(r)' \in SUBSET Seconds
        BY DEF Behind
      <4>2. QED
        BY <1>0, <4>1, NumberedFinite
    <3>3. QED
      BY <1>0, <3>1, <3>2 DEF Summed
  <2>2. CASE Count(r)
    <3> DEFINE i == job[r].slot
               t == lastIncrementTime[i]
               k == SecondOf(t)
               c == IF t > now - Recent THEN atomicLong[i] ELSE 0
               A == Behind(r)
               B == Behind(r)'
    <3>1. job[r] \in CountJob /\ job[r].at = "count" /\ i < Slots
      BY <2>2, JobFacts DEF Count
    <3>2. i \in Slot /\ i \in Nat /\ job[r].sum \in Nat /\ job[r].from \in Time
      BY <3>1, WindowAssumption DEF CountJob, Slot
    <3>3. c \in Nat
      BY <3>2 DEF TypeOK
    <3>4. /\ job' = [job EXCEPT ![r].slot = i + 1, ![r].sum = @ + c]
          /\ now' = now /\ admitted' = admitted
      BY <2>2 DEF Count
    <3>5. job'[r].slot = i + 1 /\ job'[r].sum = job[r].sum + c /\ job'[r].from = job[r].from
      <4> HIDE DEF c
      <4>1. QED
        BY <3>1, <3>4 DEF TypeOK, CountJob
    <3>6. job[r].from <= now /\ job[r].sum <= Total(admitted, A)
      BY <3>1 DEF SummedInv, Summed
    <3>7. \A m \in Seconds : m % Slots \in Nat
      BY SecondTypes DEF Slot
    <3>8. A \in SUBSET Seconds /\ B \in SUBSET Seconds /\ A \subseteq B
      BY <1>0, <3>2, <3>4, <3>5, <3>7 DEF Behind
    <3>9. CASE c = 0
      <4> HIDE DEF A, B, c
      <4>1. /\ Total(admitted, A) <= Total(admitted, B) /\ Total(admitted, A) \in Nat
            /\ Total(admitted, B) \in Nat
        BY <1>0, <3>8, TotalMore, NumberedFinite
      <4>2. job'[r].from <= now' /\ job'[r].sum <= Total(admitted', B)
        BY <3>2, <3>4, <3>5, <3>6, <3>9, <4>1
      <4>3. QED
        BY <4>2 DEF Summed, B
    <3>10. CASE c # 0
      <4>1. t > now - Recent /\ t # -1
        <5>1. t > now - Recent
          BY <3>10
        <5>2. now - Recent \in Nat
          <6>1. /\ now \in Nat /\ now >= Start /\ Slots * Second \in Nat /\ Recent \in Nat
                /\ Start \in Nat
            BY TimeTypes, WindowAssumption DEF TypeOK, Time
          <6>2. QED
            BY <6>1 DEF Start
        <5>3. QED
          BY <5>1, <5>2
      <4>2. /\ t \in Nat /\ t <= now /\ k \in Seconds /\ k \in Nat /\ k % Slots = i
        BY <3>2, <4>1, SlotTime
      <4>3. Held(i) /\ c = admitted[k]
        BY <3>2, <3>10, <4>1 DEF IInv, Held
      <4>4. SecondOf(job[r].from - Recent) <= k /\ k <= SecondOf(now)
        <5>1. job[r].from - Recent \in Nat /\ job[r].from - Recent <= t
          <6>1. /\ job[r].from \in Nat /\ job[r].from >= Start /\ Start \in Nat
                /\ Slots * Second \in Nat /\ Recent \in Nat
            BY <3>2, TimeTypes, WindowAssumption DEF Time
          <6>2. job[r].from - Recent \in Nat
            BY <6>1 DEF Start
          <6>3. QED
            BY <1>0, <3>6, <4>1, <4>2, <6>1, <6>2
        <5>2. \A a, b \in Nat : a <= b => a \div Second <= b \div Second
          BY WindowAssumption
        <5>3. QED
          BY <1>0, <4>2, <5>1, <5>2 DEF SecondOf
      <4>5. k \in B /\ k \notin A
        BY <3>2, <3>4, <3>5, <4>2, <4>4 DEF Behind
      <4> HIDE DEF A, B, c, k
      <4>6. /\ Total(admitted, A \cup {k}) = Total(admitted, A) + Total(admitted, {k})
            /\ Total(admitted, {k}) = admitted[k]
            /\ Total(admitted, A) \in Nat /\ Total(admitted, B) \in Nat
        <5>1. A \cap {k} = {} /\ {k} \in SUBSET Seconds
          BY <4>2, <4>5
        <5>2. QED
          BY <1>0, <3>8, <4>2, <5>1, TotalSplit, TotalOne, NumberedFinite
      <4>7. Total(admitted, A \cup {k}) <= Total(admitted, B)
        <5>1. A \cup {k} \in SUBSET Seconds /\ A \cup {k} \subseteq B
          BY <3>8, <4>2, <4>5
        <5>2. QED
          BY <1>0, <3>8, <5>1, TotalMore
      <4>8. job'[r].from <= now' /\ job'[r].sum <= Total(admitted', B)
        BY <1>0, <3>2, <3>4, <3>5, <3>6, <4>2, <4>3, <4>6, <4>7
      <4>9. QED
        BY <4>8 DEF Summed, B
    <3>11. QED
      BY <3>9, <3>10
  <2>3. CASE Limited(r) \/ Stamp(r)
    BY <2>3 DEF Limited, Stamp, Idle, Job, TypeOK, Summed
  <2>4. CASE Check(r) \/ Reset(r) \/ Add(r) \/ WriteTime(r)
    <3>1. job[r].at \in Updating
      BY <2>4 DEF Check, Reset, Add, WriteTime, Updating
    <3>2. job[r] \in UpdateJob
      BY <3>1, JobFacts
    <3>3. job'[r].at # "count"
      BY <2>4, <3>2 DEF Check, Reset, Add, WriteTime, UpdateJob, TypeOK, Idle, Job
    <3>4. QED
      BY <3>3 DEF Summed
  <2>5. QED
    BY <1>2, <2>1, <2>2, <2>3, <2>4 DEF Request
<1>3. CASE Tick \/ UNCHANGED vars
  <2>1. job' = job
    BY <1>3 DEF Tick, vars
  <2>2. QED
    BY <1>1, <2>1 DEF SummedInv
<1>4. ASSUME NEW r \in Thread, Request(r) PROVE SummedInv'
  <2>1. \A q \in Thread : q # r => job'[q] = job[q]
    BY <1>4, JobStep
  <2>2. QED
    BY <1>1, <1>2, <1>4, <2>1 DEF SummedInv
<1>5. QED
  BY <1>3, <1>4 DEF Next

LEMMA BudgetInit == Init => WritersInv /\ BudgetInv /\ SummedInv
<1> SUFFICES ASSUME Init PROVE WritersInv /\ BudgetInv /\ SummedInv
  OBVIOUS
<1>1. /\ \A r \in Thread : job[r].at = "idle"
      /\ admitted = [m \in Seconds |-> 0]
  BY DEF Init, Idle, Job
<1>2. ASSUME NEW X \in SUBSET Seconds
      PROVE  Total(admitted, X \cap Unwritten) <= Cardinality(Writers(X))
  <2>1. Total(admitted, X \cap Unwritten) = 0
    BY <1>1, FS_EmptySet DEF Total, Numbered
  <2>2. Writers(X) \in SUBSET Thread
    BY DEF Writers
  <2>3. Cardinality(Writers(X)) \in Nat
    BY <2>2, ThreadsFinite
  <2>4. QED
    BY <2>1, <2>3
<1>3. ASSUME NEW n \in Seconds PROVE Budget(n)
  <2>1. Total(admitted, Window(n) \ Unwritten) = 0
    BY <1>1, FS_EmptySet DEF Total, Numbered, Window
  <2>2. Open(n) = {}
    BY <1>1 DEF Open, Undecided, Pending, Hidden
  <2>3. Cardinality(Open(n)) = 0
    BY <2>2, FS_EmptySet
  <2>4. Cardinality(Thread) \in Nat /\ Cardinality(Thread) > 0
    BY ThreadsFinite
  <2>5. QED
    BY <2>1, <2>3, <2>4, WindowAssumption DEF Budget
<1>4. SummedInv
  BY <1>1 DEF SummedInv, Summed
<1>5. QED
  BY <1>2, <1>3, <1>4 DEF WritersInv, BudgetInv

LEMMA BudgetStep ==
  TypeOK /\ TypeOK' /\ IInv /\ WritersInv /\ BudgetInv /\ [Next]_vars => WritersInv' /\ BudgetInv'
<1> SUFFICES ASSUME TypeOK, TypeOK', IInv, WritersInv, BudgetInv, [Next]_vars
             PROVE  WritersInv' /\ BudgetInv'
  OBVIOUS
<1>1. CASE Tick \/ UNCHANGED vars
  BY <1>1, BudgetTick
<1>2. ASSUME NEW r \in Thread, Request(r) PROVE WritersInv' /\ BudgetInv'
  <2>1. CASE Arrive(r) \/ Count(r) \/ Limited(r) \/ Stamp(r) \/ Check(r) \/ Reset(r)
    <3>1. \A n \in Seconds : Budget(n)'
      BY <1>2, <2>1, BudgetQuiet DEF BudgetInv
    <3>2. /\ admitted' = admitted /\ Unwritten' = Unwritten
          /\ \A q \in Thread : job[q].at = "write" => job'[q] = job[q]
      BY <1>2, <2>1, QuietStep
    <3>3. WritersInv'
      BY <3>2, WritersQuiet
    <3>4. QED
      BY <3>1, <3>3 DEF BudgetInv
  <2>2. CASE Add(r)
    BY <1>2, <2>2, AddBudget
  <2>3. CASE WriteTime(r)
    BY <1>2, <2>3, WriteBudget
  <2>4. QED
    BY <1>2, <2>1, <2>2, <2>3 DEF Request
<1>3. QED
  BY <1>1, <1>2 DEF Next

LEMMA BudgetBound ==
  ASSUME TypeOK, WritersInv, BudgetInv
  PROVE  RateBound
<1> SUFFICES ASSUME NEW n \in Seconds
             PROVE  Admitted(n - Slots + 1, n) <= MaxTimes + Cardinality(Thread) - 1
  BY DEF RateBound
<1> DEFINE V == Window(n)
           A == V \ Unwritten
           B == V \cap Unwritten
           P == Open(n)
           Q == Writers(V)
<1>1. Admitted(n - Slots + 1, n) = Total(admitted, A \cup B)
  <2>1. A \cup B = Seconds \cap ((n - Slots + 1)..n)
    BY DEF Window
  <2> HIDE DEF A, B
  <2>2. QED
    BY <2>1 DEF Admitted, Admissions, Total, Numbered
<1>2. /\ A \in SUBSET Seconds /\ B \in SUBSET Seconds /\ A \cap B = {}
      /\ P \in SUBSET Thread /\ Q \subseteq P /\ admitted \in [Seconds -> Nat]
  BY DEF Window, Open, Writers, TypeOK
<1>3. Total(admitted, A) + Cardinality(P) < MaxTimes + Cardinality(Thread)
  BY DEF BudgetInv, Budget
<1>4. Total(admitted, B) <= Cardinality(Q)
  BY DEF WritersInv, Window
<1> HIDE DEF A, B, P, Q
<1>5. /\ Total(admitted, A \cup B) = Total(admitted, A) + Total(admitted, B)
      /\ Total(admitted, A) \in Nat /\ Total(admitted, B) \in Nat
  BY <1>2, TotalSplit, NumberedFinite
<1>6. /\ Cardinality(Q) <= Cardinality(P) /\ Cardinality(P) \in Nat
      /\ Cardinality(Q) \in Nat /\ Cardinality(Thread) \in Nat
  BY <1>2, ThreadsFinite
<1>7. QED
  BY <1>1, <1>3, <1>4, <1>5, <1>6, WindowAssumption

(***************************************************************************)
(* In as many calendar seconds as the ring has slots, at most MaxTimes     *)
(* requests and one for every other thread get past MethodIpPercent: the   *)
(* check and the increment are separate, and nothing worse comes of it.    *)
(***************************************************************************)
THEOREM RateBoundCorrect == Spec => []RateBound
<1>1. TypeOK /\ WritersInv /\ BudgetInv => RateBound
  BY BudgetBound
<1>2. QED
  BY <1>1, TypeInit, TypeStep, IInvInit, IInvStep, BudgetInit, BudgetStep, PTL DEF Spec

(***************************************************************************)
(* isLimited turns a request away only when MaxTimes requests were counted *)
(* in the seconds that touch the time span of count().                     *)
(***************************************************************************)
THEOREM LimitedCorrect == Spec => LimitedForReason
<1>1. ASSUME TypeOK, SummedInv, [Next]_vars
      PROVE  [\A r \in Thread : Limited(r) =>
                Admitted(SecondOf(job[r].from - Recent), SecondOf(now)) >= MaxTimes]_vars
  <2>1. SUFFICES ASSUME NEW r \in Thread, Limited(r)
                 PROVE  Admitted(SecondOf(job[r].from - Recent), SecondOf(now)) >= MaxTimes
    OBVIOUS
  <2> DEFINE A == Behind(r)
             B == Seconds \cap (SecondOf(job[r].from - Recent)..SecondOf(now))
  <2>2. job[r] \in CountJob /\ job[r].at = "count" /\ job[r].sum >= MaxTimes
    BY <1>1, <2>1, JobFacts DEF Limited
  <2>3. job[r].sum <= Total(admitted, A) /\ job[r].sum \in Nat
    BY <1>1, <2>2 DEF SummedInv, Summed, CountJob
  <2>4. A \subseteq B /\ A \in SUBSET Seconds /\ B \in SUBSET Seconds
    <3>1. /\ job[r].from \in Nat /\ now \in Nat /\ job[r].from >= Start
          /\ Recent \in Nat /\ Slots * Second \in Nat
      BY <1>1, <2>2, TimeTypes, WindowAssumption DEF CountJob, TypeOK, Time
    <3>2. job[r].from - Recent \in Nat
      BY <3>1 DEF Start
    <3>3. SecondOf(job[r].from - Recent) \in Nat /\ SecondOf(now) \in Nat
      BY <3>1, <3>2, Division, WindowAssumption DEF SecondOf
    <3>4. \A m \in Seconds : m \in Nat
      BY SecondTypes
    <3>5. QED
      BY <3>3, <3>4 DEF Behind
  <2>5. Admitted(SecondOf(job[r].from - Recent), SecondOf(now)) = Total(admitted, B)
    BY DEF Admitted, Admissions, Total, Numbered
  <2> HIDE DEF A, B
  <2>6. /\ Total(admitted, A) <= Total(admitted, B) /\ Total(admitted, A) \in Nat
        /\ Total(admitted, B) \in Nat
    <3>1. admitted \in [Seconds -> Nat]
      BY <1>1 DEF TypeOK
    <3>2. QED
      BY <2>4, <3>1, TotalMore, NumberedFinite
  <2>7. QED
    BY <2>2, <2>3, <2>5, <2>6, WindowAssumption
<1>2. QED
  BY <1>1, TypeInit, TypeStep, IInvInit, IInvStep, BudgetInit, SummedStep, PTL
  DEF Spec, LimitedForReason
=============================================================================
