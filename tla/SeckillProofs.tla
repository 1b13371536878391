----------------------------- MODULE SeckillProofs -----------------------------
(***************************************************************************)
(* What holds of the flash sale for any number of buyers, threads, orders  *)
(* and goods.                                                              *)
(***************************************************************************)
EXTENDS Seckill, FiniteSetTheorems, TLAPS

(***************************************************************************)
(* Every variable keeps its type: no handler writes a status, a count or a *)
(* program position outside its range.                                     *)
(***************************************************************************)
LEMMA IdleTypes ==
    /\ NoLoad \in Loader
    /\ NoExpiry \in Expiry
    /\ NoRequest.at = "idle" /\ NoTask.at = "idle" /\ NoExpiry.at = "idle"
  BY DEF NoLoad, NoExpiry, NoRequest, NoTask, Loader, Expiry

LEMMA TypeInit == Init => TypeOK
<1> SUFFICES ASSUME Init PROVE TypeOK
  OBVIOUS
<1>1. expiry \in [OrderId -> Expiry] /\ loader \in Loader
  BY IdleTypes DEF Init
<1>2. web \in [Thread -> Request \cup {NoRequest}]
  BY DEF Init
<1>3. task \in [Consumer -> Task \cup {NoTask}]
  BY DEF Init
<1>4. /\ orderStatus \in [OrderId -> {"none", "created", "cancelled"}]
      /\ buyer \in [OrderId -> User \cup {NoUser}]
      /\ retries \in [OrderId -> 0..MaxRetries]
      /\ conn \in [Thread -> {"free", "watching", "dirty"}]
      /\ restored \in [OrderId -> Nat]
  BY BoundsAssumption DEF Init
<1>5. /\ goodsCount \in Nat /\ stock \in Int /\ leaked \in Nat
      /\ requests \in 0..MaxRequests /\ crashes \in 0..MaxCrashes
      /\ errors \in 0..MaxErrors /\ stranded \subseteq OrderId
  BY BoundsAssumption DEF Init
<1>6. /\ cached \in BOOLEAN /\ up \in BOOLEAN
      /\ limitKeys \subseteq User /\ payKeys \subseteq OrderId
      /\ mq \subseteq OrderId
  BY DEF Init
<1>7. QED
  BY <1>1, <1>2, <1>3, <1>4, <1>5, <1>6 DEF TypeOK

LEMMA Finite ==
    /\ \A S : S \subseteq OrderId => IsFiniteSet(S) /\ Cardinality(S) \in Nat
    /\ \A S : S \subseteq Thread => IsFiniteSet(S) /\ Cardinality(S) \in Nat
  BY FiniteAssumption, FS_Subset, FS_CardinalityType

LEMMA TypeStep == TypeOK /\ [Next]_vars => TypeOK'
<1> SUFFICES ASSUME TypeOK, [Next]_vars PROVE TypeOK'
  OBVIOUS
<1> USE BoundsAssumption
    DEF TypeOK, dbVars, stockVars, keyVars, brokerVars, ghostVars
<1>1. CASE Start
  BY <1>1 DEF Start, NoLoad, Loader
<1>2. CASE LoadRead
  BY <1>2 DEF LoadRead, Loader
<1>3. CASE LoadSet
  BY <1>3 DEF LoadSet, TouchStock, Touched, NoLoad, Loader
<1>4. CASE Crash
  <2>1. Cardinality(Reserving) \in Nat
    BY Finite DEF Reserving
  <2>2. expiry' \in [OrderId -> Expiry] /\ loader' \in Loader
    BY <1>4, IdleTypes DEF Crash
  <2>3. web' \in [Thread -> Request \cup {NoRequest}]
    BY <1>4 DEF Crash
  <2>4. task' \in [Consumer -> Task \cup {NoTask}]
    BY <1>4 DEF Crash
  <2>5. conn' \in [Thread -> {"free", "watching", "dirty"}] /\ up' \in BOOLEAN
    BY <1>4 DEF Crash
  <2>6. crashes' \in 0..MaxCrashes /\ stranded' \subseteq OrderId
    BY <1>4 DEF Crash
  <2>7. leaked' \in Nat
    BY <1>4, <2>1 DEF Crash
  <2>8. QED
    BY <1>4, <2>2, <2>3, <2>4, <2>5, <2>6, <2>7 DEF Crash
<1>5. ASSUME NEW t \in Thread, RequestStep(t) PROVE TypeOK'
  <2>1. CASE Watch(t)
    BY <2>1 DEF Watch, Goto, Request, NoRequest
  <2>2. CASE ReadStock(t)
    <3>1. web' \in [Thread -> Request \cup {NoRequest}]
      <4>1. CASE cached /\ stock > 0
        BY <2>2, <4>1 DEF ReadStock, Goto, Request, NoRequest
      <4>2. CASE ~(cached /\ stock > 0)
        BY <2>2, <4>2 DEF ReadStock, Respond
      <4>3. QED
        BY <4>1, <4>2
    <3>2. QED
      BY <2>2, <3>1 DEF ReadStock
  <2>3. CASE ExecReserved(t)
    <3>1. web' \in [Thread -> Request \cup {NoRequest}]
      BY <2>3 DEF ExecReserved, Goto, Request, NoRequest
    <3>2. conn' \in [Thread -> {"free", "watching", "dirty"}]
      BY <2>3 DEF ExecReserved, Touched
    <3>3. QED
      BY <2>3, <3>1, <3>2 DEF ExecReserved
  <2>4. CASE ExecDiscarded(t)
    BY <2>4 DEF ExecDiscarded, Respond
  <2>5. ASSUME NEW o \in OrderId, SendOrder(t, o) PROVE TypeOK'
    BY <2>5 DEF SendOrder, Respond, Request, NoRequest
  <2>6. CASE SendFails(t)
    BY <2>6 DEF SendFails, Respond
  <2>7. CASE ReserveFails(t)
    BY <2>7 DEF ReserveFails, CallThrows, Respond
  <2>8. QED
    BY <1>5, <2>1, <2>2, <2>3, <2>4, <2>5, <2>6, <2>7 DEF RequestStep
<1>6. ASSUME NEW t \in Thread, NEW u \in User, SetLimit(t, u) PROVE TypeOK'
  BY <1>6 DEF SetLimit, Request
<1>7. ASSUME NEW c \in Consumer, ConsumerStep(c) PROVE TypeOK'
  <2>1. CASE InsertOrder(c)
    BY <2>1 DEF InsertOrder, Task, NoTask
  <2>2. CASE InsertRejected(c)
    BY <2>2 DEF InsertRejected, Redeliver, Task, NoTask
  <2>3. CASE TakeUnit(c)
    <3>1. task[c].seen \in Nat \ {0}
      BY <2>3 DEF TakeUnit, Task, NoTask
    <3>2. task' \in [Consumer -> Task \cup {NoTask}]
      BY <2>3 DEF TakeUnit, Task, NoTask
    <3>3. goodsCount' \in Nat
      BY <2>3, <3>1 DEF TakeUnit, UpdateGoodsCount
    <3>4. QED
      BY <2>3, <3>2, <3>3 DEF TakeUnit
  <2>4. CASE SetPayKey(c)
    BY <2>4 DEF SetPayKey, Task, NoTask
  <2>5. CASE Ack(c)
    BY <2>5 DEF Ack, Task, NoTask
  <2>6. QED
    BY <1>7, <2>1, <2>2, <2>3, <2>4, <2>5 DEF ConsumerStep
<1>8. ASSUME NEW c \in Consumer, NEW o \in OrderId, Deliver(c, o) PROVE TypeOK'
  BY <1>8 DEF Deliver, Task
<1>8a. ASSUME NEW c \in Consumer, NEW o \in OrderId, DeliverFails(c, o)
       PROVE  TypeOK'
  BY <1>8a DEF DeliverFails, CallThrows, Redeliver
<1>8b. ASSUME NEW c \in Consumer, TaskFails(c) PROVE TypeOK'
  <2>1. task' \in [Consumer -> Task \cup {NoTask}] /\ stranded' \subseteq OrderId
    BY <1>8b DEF TaskFails
  <2>2. retries' \in [OrderId -> 0..MaxRetries] /\ mq' \subseteq OrderId
    BY <1>8b DEF TaskFails, Redeliver, Task, NoTask
  <2>3. QED
    BY <1>8b, <2>1, <2>2 DEF TaskFails, CallThrows
<1>9. ASSUME NEW u \in User, LimitKeyExpires(u) PROVE TypeOK'
  BY <1>9 DEF LimitKeyExpires
<1>9a. ASSUME NEW o \in OrderId, ExpiryFails(o) PROVE TypeOK'
  BY <1>9a, IdleTypes DEF ExpiryFails, CallThrows
<1>10. ASSUME NEW o \in OrderId, ExpiryStep(o) PROVE TypeOK'
  <2>1. CASE PayKeyExpires(o)
    BY <2>1 DEF PayKeyExpires, Expiry
  <2>2. CASE CancelOrder(o)
    <3>1. CASE orderStatus[o] = "none"
      <4>1. expiry' \in [OrderId -> Expiry]
        BY <2>2, <3>1, IdleTypes DEF CancelOrder
      <4>2. QED
        BY <2>2, <3>1, <4>1 DEF CancelOrder
    <3>2. CASE orderStatus[o] # "none"
      <4>1. expiry' \in [OrderId -> Expiry]
        BY <2>2, <3>2 DEF CancelOrder, Expiry
      <4>2. orderStatus' = [orderStatus EXCEPT ![o] = "cancelled"]
        BY <2>2, <3>2 DEF CancelOrder
      <4>3. QED
        BY <2>2, <4>1, <4>2 DEF CancelOrder
    <3>3. QED
      BY <3>1, <3>2
  <2>3. CASE ReadGoods(o)
    BY <2>3 DEF ReadGoods, Expiry
  <2>4. CASE ReturnUnit(o)
    BY <2>4 DEF ReturnUnit, UpdateGoodsCount, Expiry
  <2>5. CASE IncrStock(o)
    BY <2>5 DEF IncrStock, TouchStock, Touched, NoExpiry, Expiry
  <2>6. QED
    BY <1>10, <2>1, <2>2, <2>3, <2>4, <2>5 DEF ExpiryStep
<1>11. CASE UNCHANGED vars
  BY <1>11 DEF vars
<1>12. QED
  BY <1>1, <1>2, <1>3, <1>4, <1>5, <1>6, <1>7, <1>8, <1>8a, <1>8b, <1>9, <1>9a,
     <1>10, <1>11 DEF Next

THEOREM TypeCorrect == Spec => []TypeOK
  BY TypeInit, TypeStep, PTL DEF Spec

-----------------------------------------------------------------------------
(***************************************************************************)
(* The inductive invariant, in the parts that need each other:             *)
(*   GateInv   a thread that may EXEC watches the key, and unless its      *)
(*             connection is marked the value it read is still there;      *)
(*   LifeInv   only numbers given out are in the broker, in a consumer or  *)
(*             in MySQL, and none is given out before the first load;      *)
(*   TokenInv  the right to cancel an order exists once: first it is the   *)
(*             consumer that inserted the row, then the key with the       *)
(*             time-to-live, then the expiration task;                     *)
(*   DbInv     every count read from MySQL and not yet written back is     *)
(*             high enough for the rows that were there when it was read.  *)
(***************************************************************************)
GateInv ==
    /\ stock >= 0
    /\ \A t \in Thread :
        /\ web[t].at \in {"get", "exec"} => conn[t] # "free"
        /\ web[t].at = "exec" /\ conn[t] = "watching" => stock > 0
        /\ web[t].at \in {"exec", "send"} => cached

LifeInv ==
    /\ \A o \in OrderId : buyer[o] # NoUser => cached
    /\ \A o \in OrderId : orderStatus[o] # "none" => buyer[o] # NoUser
    /\ \A o \in mq : buyer[o] # NoUser
    /\ \A c \in Consumer : task[c].at # "idle" => buyer[task[c].order] # NoUser

TokenInv ==
    /\ \A o \in OrderId :
        /\ orderStatus[o] = "none" =>
            o \notin payKeys /\ expiry[o].at = "idle" /\ restored[o] = 0
        /\ o \in payKeys => expiry[o].at = "idle" /\ restored[o] = 0
        /\ expiry[o].at # "idle" => restored[o] = 0
        /\ expiry[o].at \in {"read", "write", "incr"} =>
            orderStatus[o] = "cancelled"
    /\ \A o \in OrderId, c \in Consumer : Holds(c, o) =>
        /\ orderStatus[o] # "none" /\ o \notin payKeys
        /\ expiry[o].at = "idle" /\ restored[o] = 0
        /\ \A d \in Consumer : Holds(d, o) => d = c
    /\ RestoredAtMostOnce

DbInv ==
    /\ NeverSoldOutInDb
    /\ DbNeverOverdrawn
    /\ \A c \in Consumer :
        /\ task[c].at \in {"insert", "update"} /\ task[c].seen <= 1 =>
            goodsCount <= 1
        /\ task[c].at = "insert" =>
            InitStock - task[c].seen <= Cardinality(Recorded)
        /\ task[c].at = "update" =>
            InitStock - task[c].seen + 1 <= Cardinality(Recorded)
    /\ \A o \in OrderId : expiry[o].at = "write" =>
        InitStock - expiry[o].seen <= Cardinality(Recorded)

\* Before the first crash the key is loaded once, from an untouched count.
FirstRunInv ==
    crashes = 0 =>
        /\ cached => up /\ loader.at = "idle" /\ stock + Held = InitStock
        /\ ~cached => goodsCount = InitStock /\ Held = 0
        /\ loader.at # "idle" => up
        /\ loader.at = "set" => loader.seen = InitStock

-----------------------------------------------------------------------------
(***************************************************************************)
(* GateInv: a write to the key marks every watching connection, so a       *)
(* thread that is not marked still sees the value it read.                 *)
(***************************************************************************)
LEMMA GateStep == TypeOK /\ GateInv /\ [Next]_vars => GateInv'
<1> SUFFICES ASSUME TypeOK, GateInv, [Next]_vars PROVE GateInv'
  OBVIOUS
<1>0. /\ web \in [Thread -> Request \cup {NoRequest}]
      /\ conn \in [Thread -> {"free", "watching", "dirty"}]
      /\ stock \in Int
  BY DEF TypeOK
<1> USE <1>0 DEF GateInv, stockVars, Goto, Respond
<1>1. CASE UNCHANGED <<stockVars, web, conn>>
  BY <1>1
<1>2. CASE LoadSet
  <2>1. loader.seen \in Nat
    BY DEF TypeOK, Loader
  <2>2. QED
    BY <1>2, <2>1 DEF LoadSet, TouchStock, Touched
<1>3. CASE Crash
  BY <1>3, IdleTypes DEF Crash
<1>4. ASSUME NEW t \in Thread, NEW u \in User, SetLimit(t, u) PROVE GateInv'
  BY <1>4 DEF SetLimit
<1>5. ASSUME NEW t \in Thread, RequestStep(t) PROVE GateInv'
  <2>1. CASE Watch(t)
    BY <2>1 DEF Watch, Request, NoRequest
  <2>2. CASE ReadStock(t)
    <3>1. CASE cached /\ stock > 0
      BY <2>2, <3>1 DEF ReadStock, Request, NoRequest
    <3>2. CASE ~(cached /\ stock > 0)
      BY <2>2, <3>2, IdleTypes DEF ReadStock
    <3>3. QED
      BY <3>1, <3>2
  <2>3. CASE ExecReserved(t)
    BY <2>3 DEF ExecReserved, Touched, Request, NoRequest
  <2>4. CASE ExecDiscarded(t)
    BY <2>4, IdleTypes DEF ExecDiscarded
  <2>5. ASSUME NEW o \in OrderId, SendOrder(t, o) PROVE GateInv'
    BY <2>5, IdleTypes DEF SendOrder
  <2>6. CASE SendFails(t)
    BY <2>6, IdleTypes DEF SendFails
  <2>7. CASE ReserveFails(t)
    BY <2>7, IdleTypes DEF ReserveFails
  <2>8. QED
    BY <1>5, <2>1, <2>2, <2>3, <2>4, <2>5, <2>6, <2>7 DEF RequestStep
<1>6. ASSUME NEW o \in OrderId, IncrStock(o) PROVE GateInv'
  BY <1>6 DEF IncrStock, TouchStock, Touched
<1>7. QED
  <2>1. ASSUME NEW c \in Consumer, ConsumerStep(c) PROVE GateInv'
    BY <1>1, <2>1 DEF ConsumerStep, InsertOrder, InsertRejected, TakeUnit,
       SetPayKey, Ack
  <2>2. ASSUME NEW c \in Consumer, NEW o \in OrderId,
               Deliver(c, o) \/ DeliverFails(c, o)
        PROVE GateInv'
    BY <1>1, <2>2 DEF Deliver, DeliverFails
  <2>2a. ASSUME NEW c \in Consumer, TaskFails(c) PROVE GateInv'
    BY <1>1, <2>2a DEF TaskFails
  <2>2b. ASSUME NEW o \in OrderId, ExpiryFails(o) PROVE GateInv'
    BY <1>1, <2>2b DEF ExpiryFails
  <2>3. ASSUME NEW o \in OrderId, ExpiryStep(o) PROVE GateInv'
    BY <1>1, <1>6, <2>3 DEF ExpiryStep, PayKeyExpires, CancelOrder, ReadGoods,
       ReturnUnit
  <2>4. ASSUME NEW u \in User, LimitKeyExpires(u) PROVE GateInv'
    BY <1>1, <2>4 DEF LimitKeyExpires
  <2>5. CASE Start \/ LoadRead
    BY <1>1, <2>5 DEF Start, LoadRead
  <2>6. CASE UNCHANGED vars
    BY <1>1, <2>6 DEF vars
  <2>7. QED
    BY <1>2, <1>3, <1>4, <1>5, <2>1, <2>2, <2>2a, <2>2b, <2>3, <2>4, <2>5, <2>6
    DEF Next

(***************************************************************************)
(* The counter in Redis never goes below zero.                             *)
(***************************************************************************)
THEOREM StockSafe == Spec => []StockNeverNegative
<1>1. Init => GateInv
  BY IdleTypes DEF Init, GateInv
<1>2. GateInv => StockNeverNegative
  BY DEF GateInv, StockNeverNegative
<1>3. QED
  BY <1>1, <1>2, GateStep, TypeCorrect, PTL DEF Spec

-----------------------------------------------------------------------------
(***************************************************************************)
(* LifeInv: an order number exists before its message, its message before  *)
(* its row.                                                                *)
(***************************************************************************)
LEMMA LifeStep == TypeOK /\ GateInv /\ LifeInv /\ [Next]_vars => LifeInv'
<1> SUFFICES ASSUME TypeOK, GateInv, LifeInv, [Next]_vars PROVE LifeInv'
  OBVIOUS
<1>0. /\ task \in [Consumer -> Task \cup {NoTask}]
      /\ buyer \in [OrderId -> User \cup {NoUser}]
      /\ orderStatus \in [OrderId -> {"none", "created", "cancelled"}]
      /\ mq \subseteq OrderId
  BY DEF TypeOK
<1> USE <1>0 DEF LifeInv, stockVars, dbVars, brokerVars
<1>1. CASE UNCHANGED <<dbVars, cached, mq, task>>
  BY <1>1
<1>2. CASE LoadSet
  BY <1>2 DEF LoadSet
<1>3. CASE Crash
  BY <1>3, IdleTypes DEF Crash
<1>4. ASSUME NEW t \in Thread, NEW o \in OrderId, SendOrder(t, o) PROVE LifeInv'
  <2>1. web[t].user \in User
    BY <1>4, IdleTypes DEF SendOrder, TypeOK, Request
  <2>2. cached
    BY <1>4 DEF SendOrder, GateInv
  <2>3. buyer' = [buyer EXCEPT ![o] = web[t].user] /\ buyer'[o] # NoUser
    BY <1>4, <2>1, NoneAssumption DEF SendOrder
  <2>4. \A p \in OrderId : buyer[p] # NoUser => buyer'[p] # NoUser
    BY <2>3
  <2>5. UNCHANGED <<orderStatus, cached, task>> /\ mq' = mq \cup {o}
    BY <1>4 DEF SendOrder
  <2>6. \A c \in Consumer : task[c].at # "idle" => task[c].order \in OrderId
    BY IdleTypes DEF Task
  <2>7. QED
    BY <2>2, <2>3, <2>4, <2>5, <2>6
<1>5. ASSUME NEW c \in Consumer, ConsumerStep(c) PROVE LifeInv'
  <2>1. CASE InsertOrder(c)
    BY <2>1 DEF InsertOrder, Task, NoTask
  <2>2. CASE InsertRejected(c)
    BY <2>2, IdleTypes DEF InsertRejected, Redeliver
  <2>3. CASE TakeUnit(c)
    BY <2>3 DEF TakeUnit, Task, NoTask
  <2>4. CASE SetPayKey(c)
    BY <2>4 DEF SetPayKey, Task, NoTask
  <2>5. CASE Ack(c)
    BY <2>5, IdleTypes DEF Ack
  <2>6. QED
    BY <1>5, <2>1, <2>2, <2>3, <2>4, <2>5 DEF ConsumerStep
<1>6. ASSUME NEW c \in Consumer, NEW o \in OrderId, Deliver(c, o) PROVE LifeInv'
  BY <1>6 DEF Deliver
<1>6a. ASSUME NEW c \in Consumer, NEW o \in OrderId, DeliverFails(c, o)
       PROVE  LifeInv'
  BY <1>6a DEF DeliverFails, Redeliver
<1>6b. ASSUME NEW c \in Consumer, TaskFails(c) PROVE LifeInv'
  BY <1>6b, IdleTypes DEF TaskFails, Redeliver
<1>7. ASSUME NEW o \in OrderId, ExpiryStep(o) PROVE LifeInv'
  <2>1. CASE CancelOrder(o)
    BY <2>1 DEF CancelOrder
  <2>2. CASE ReturnUnit(o)
    BY <2>2 DEF ReturnUnit
  <2>3. CASE IncrStock(o)
    BY <2>3 DEF IncrStock
  <2>4. QED
    BY <1>1, <1>7, <2>1, <2>2, <2>3 DEF ExpiryStep, PayKeyExpires, ReadGoods
<1>8. QED
  <2>1. ASSUME NEW t \in Thread, RequestStep(t) PROVE LifeInv'
    BY <1>1, <1>4, <2>1 DEF RequestStep, Watch, ReadStock, ExecReserved,
       ExecDiscarded, SendFails, ReserveFails
  <2>2. ASSUME NEW t \in Thread, NEW u \in User, SetLimit(t, u) PROVE LifeInv'
    BY <1>1, <2>2 DEF SetLimit
  <2>2a. ASSUME NEW o \in OrderId, ExpiryFails(o) PROVE LifeInv'
    BY <1>1, <2>2a DEF ExpiryFails
  <2>3. ASSUME NEW u \in User, LimitKeyExpires(u) PROVE LifeInv'
    BY <1>1, <2>3 DEF LimitKeyExpires
  <2>4. CASE Start \/ LoadRead
    BY <1>1, <2>4 DEF Start, LoadRead
  <2>5. CASE UNCHANGED vars
    BY <1>1, <2>5 DEF vars
  <2>6. QED
    BY <1>2, <1>3, <1>5, <1>6, <1>6a, <1>6b, <1>7, <2>1, <2>2, <2>2a, <2>3,
       <2>4, <2>5 DEF Next

(***************************************************************************)
(* TokenInv: the right to cancel moves from the consumer to the key to the *)
(* expiration task and is never copied; a redelivered message cannot take  *)
(* it again, because the row it inserted refuses the second insert.        *)
(***************************************************************************)
LEMMA TokenStep == TypeOK /\ TokenInv /\ [Next]_vars => TokenInv'
<1> SUFFICES ASSUME TypeOK, TokenInv, [Next]_vars PROVE TokenInv'
  OBVIOUS
<1>0. /\ task \in [Consumer -> Task \cup {NoTask}]
      /\ orderStatus \in [OrderId -> {"none", "created", "cancelled"}]
      /\ expiry \in [OrderId -> Expiry]
      /\ restored \in [OrderId -> Nat]
      /\ payKeys \subseteq OrderId
  BY DEF TypeOK
<1> USE <1>0 DEF TokenInv, RestoredAtMostOnce, Holds, dbVars, keyVars, ghostVars
<1>1. CASE UNCHANGED <<orderStatus, payKeys, task, expiry, restored>>
  BY <1>1
<1>2. CASE Crash
  BY <1>2, IdleTypes DEF Crash
<1>2a. ASSUME NEW c \in Consumer, TaskFails(c) PROVE TokenInv'
  BY <1>2a, IdleTypes DEF TaskFails
<1>2b. ASSUME NEW o \in OrderId, ExpiryFails(o) PROVE TokenInv'
  BY <1>2b, IdleTypes DEF ExpiryFails
<1>3. ASSUME NEW c \in Consumer, ConsumerStep(c) PROVE TokenInv'
  <2>1. CASE InsertOrder(c)
    <3>1. task[c].order \in OrderId /\ orderStatus[task[c].order] = "none"
      BY <2>1 DEF InsertOrder, HasRow, Task, NoTask
    <3>2. \A d \in Consumer : ~Holds(d, task[c].order)
      BY <3>1
    <3>3. QED
      BY <2>1, <3>1, <3>2 DEF InsertOrder, Task, NoTask
  <2>2. CASE InsertRejected(c)
    BY <2>2, IdleTypes DEF InsertRejected
  <2>3. CASE TakeUnit(c)
    BY <2>3 DEF TakeUnit, Task, NoTask
  <2>4. CASE SetPayKey(c)
    BY <2>4 DEF SetPayKey, Task, NoTask
  <2>5. CASE Ack(c)
    BY <2>5, IdleTypes DEF Ack
  <2>6. QED
    BY <1>3, <2>1, <2>2, <2>3, <2>4, <2>5 DEF ConsumerStep
<1>4. ASSUME NEW c \in Consumer, NEW o \in OrderId, Deliver(c, o) PROVE TokenInv'
  <2>1. \A d \in Consumer, p \in OrderId : Holds(d, p)' => Holds(d, p)
    BY <1>4 DEF Deliver
  <2>2. QED
    BY <1>4, <2>1 DEF Deliver
<1>5. ASSUME NEW o \in OrderId, ExpiryStep(o) PROVE TokenInv'
  <2>1. CASE PayKeyExpires(o)
    BY <2>1 DEF PayKeyExpires, Expiry
  <2>2. CASE CancelOrder(o)
    BY <2>2, IdleTypes DEF CancelOrder, Expiry
  <2>3. CASE ReadGoods(o)
    BY <2>3 DEF ReadGoods, Expiry
  <2>4. CASE ReturnUnit(o)
    BY <2>4 DEF ReturnUnit, Expiry
  <2>5. CASE IncrStock(o)
    BY <2>5, IdleTypes DEF IncrStock
  <2>6. QED
    BY <1>5, <2>1, <2>2, <2>3, <2>4, <2>5 DEF ExpiryStep
<1>6. QED
  <2>1. ASSUME NEW t \in Thread, RequestStep(t) PROVE TokenInv'
    BY <1>1, <2>1 DEF RequestStep, Watch, ReadStock, ExecReserved,
       ExecDiscarded, SendOrder, SendFails, ReserveFails
  <2>2. ASSUME NEW t \in Thread, NEW u \in User, SetLimit(t, u) PROVE TokenInv'
    BY <1>1, <2>2 DEF SetLimit
  <2>2a. ASSUME NEW c \in Consumer, NEW o \in OrderId, DeliverFails(c, o)
         PROVE  TokenInv'
    BY <1>1, <2>2a DEF DeliverFails
  <2>3. ASSUME NEW u \in User, LimitKeyExpires(u) PROVE TokenInv'
    BY <1>1, <2>3 DEF LimitKeyExpires
  <2>4. CASE Start \/ LoadRead \/ LoadSet
    BY <1>1, <2>4 DEF Start, LoadRead, LoadSet
  <2>5. CASE UNCHANGED vars
    BY <1>1, <2>5 DEF vars
  <2>6. QED
    BY <1>2, <1>2a, <1>2b, <1>3, <1>4, <1>5, <2>1, <2>2, <2>2a, <2>3, <2>4, <2>5
    DEF Next

LEMMA TokenCorrect == Spec => []TokenInv
<1>1. Init => TokenInv
  BY IdleTypes DEF Init, TokenInv, RestoredAtMostOnce, Holds
<1>2. QED
  BY <1>1, TokenStep, TypeCorrect, PTL DEF Spec

(***************************************************************************)
(* An order gives its unit back at most once, and only when cancelled.     *)
(***************************************************************************)
THEOREM RestoreSafe == Spec => []RestoredAtMostOnce
<1>1. TokenInv => RestoredAtMostOnce
  BY DEF TokenInv
<1>2. QED
  BY <1>1, TokenCorrect, PTL

-----------------------------------------------------------------------------
(***************************************************************************)
(* StrandInv: what strands an order takes it off its way, and the token of *)
(* TokenInv cannot be taken a second time to put it back.                  *)
(***************************************************************************)
StrandInv ==
    /\ TimedOrStranded
    /\ \A o \in stranded : orderStatus[o] # "none"

LEMMA StrandStep ==
  TypeOK /\ TokenInv /\ StrandInv /\ [Next]_vars => StrandInv'
<1> SUFFICES ASSUME TypeOK, TokenInv, StrandInv, [Next]_vars PROVE StrandInv'
  OBVIOUS
<1>0. /\ task \in [Consumer -> Task \cup {NoTask}]
      /\ orderStatus \in [OrderId -> {"none", "created", "cancelled"}]
      /\ expiry \in [OrderId -> Expiry]
      /\ payKeys \subseteq OrderId
      /\ stranded \subseteq OrderId
  BY DEF TypeOK
<1> USE <1>0 DEF StrandInv, TimedOrStranded, OnItsWay, Live, Holds, TokenInv,
                 dbVars, keyVars, ghostVars
<1>1. CASE UNCHANGED <<orderStatus, payKeys, task, expiry, stranded>>
  BY <1>1
<1>2. CASE Crash
  <2>1. UNCHANGED <<orderStatus, payKeys>> /\ Live' = Live
    BY <1>2 DEF Crash
  <2>2. \A o \in OrderId :
          /\ expiry'[o].at = "idle" /\ ~\E c \in Consumer : Holds(c, o)'
          /\ o \in stranded' <=> \/ o \in stranded
                                \/ expiry[o].at = "cancel"
                                \/ \E c \in Consumer : Holds(c, o)
    BY <1>2, IdleTypes DEF Crash
  <2>3. \A o \in OrderId :
          (\E c \in Consumer : Holds(c, o)) \/ expiry[o].at = "cancel"
            => o \notin payKeys
    OBVIOUS
  <2>4. QED
    <3>1. TimedOrStranded'
      BY <2>1, <2>2, <2>3
    <3>2. \A o \in stranded' : orderStatus[o] # "none"
      BY <1>2 DEF Crash
    <3>3. QED
      BY <2>1, <3>1, <3>2
<1>3. ASSUME NEW c \in Consumer, TaskFails(c) PROVE StrandInv'
  <2>1. UNCHANGED <<orderStatus, payKeys, expiry>> /\ Live' = Live
    BY <1>3 DEF TaskFails
  <2>2. \A d \in Consumer, o \in OrderId :
          Holds(d, o)' <=> d # c /\ Holds(d, o)
    BY <1>3, IdleTypes DEF TaskFails
  <2>3. \A o \in OrderId : o \in stranded' <=> o \in stranded \/ Holds(c, o)
    BY <1>3 DEF TaskFails
  <2>4. TimedOrStranded'
    <3>1. \A o \in OrderId : Holds(c, o) =>
            o \notin payKeys /\ expiry[o].at = "idle"
                /\ \A d \in Consumer : Holds(d, o) => d = c
      OBVIOUS
    <3>2. QED
      BY <2>1, <2>2, <2>3, <3>1
  <2>5. \A o \in stranded' : orderStatus[o] # "none"
    BY <2>3, <1>3 DEF TaskFails
  <2>6. QED
    BY <2>1, <2>4, <2>5
<1>4. ASSUME NEW o \in OrderId, ExpiryFails(o) PROVE StrandInv'
  <2>1. UNCHANGED <<orderStatus, payKeys, task>> /\ Live' = Live
    BY <1>4 DEF ExpiryFails
  <2>2. \A p \in OrderId : p # o => expiry'[p] = expiry[p]
    BY <1>4 DEF ExpiryFails
  <2>3. expiry'[o].at = "idle" /\ expiry[o].at # "idle"
    BY <1>4, IdleTypes DEF ExpiryFails
  <2>4. stranded' = IF expiry[o].at = "cancel" THEN stranded \cup {o} ELSE stranded
    BY <1>4 DEF ExpiryFails
  <2>5. QED
    BY <2>1, <2>2, <2>3, <2>4
<1>5. ASSUME NEW c \in Consumer, ConsumerStep(c) PROVE StrandInv'
  <2>1. CASE InsertOrder(c)
    BY <2>1 DEF InsertOrder, HasRow, Task, NoTask
  <2>2. CASE InsertRejected(c)
    BY <2>2, IdleTypes DEF InsertRejected
  <2>3. CASE TakeUnit(c)
    BY <2>3 DEF TakeUnit, Task, NoTask
  <2>4. CASE SetPayKey(c)
    BY <2>4 DEF SetPayKey, Task, NoTask
  <2>5. CASE Ack(c)
    BY <2>5, IdleTypes DEF Ack
  <2>6. QED
    BY <1>5, <2>1, <2>2, <2>3, <2>4, <2>5 DEF ConsumerStep
<1>6. ASSUME NEW c \in Consumer, NEW o \in OrderId, Deliver(c, o)
      PROVE  StrandInv'
  <2>1. \A d \in Consumer, p \in OrderId : Holds(d, p)' <=> Holds(d, p)
    BY <1>6, IdleTypes DEF Deliver
  <2>2. QED
    BY <1>6, <2>1 DEF Deliver
<1>7. ASSUME NEW o \in OrderId, ExpiryStep(o) PROVE StrandInv'
  <2>1. CASE PayKeyExpires(o)
    BY <2>1 DEF PayKeyExpires, Expiry
  <2>2. CASE CancelOrder(o)
    BY <2>2, IdleTypes DEF CancelOrder, Expiry
  <2>3. CASE ReadGoods(o)
    BY <2>3 DEF ReadGoods, Expiry
  <2>4. CASE ReturnUnit(o)
    BY <2>4 DEF ReturnUnit, Expiry
  <2>5. CASE IncrStock(o)
    BY <2>5, IdleTypes DEF IncrStock
  <2>6. QED
    BY <1>7, <2>1, <2>2, <2>3, <2>4, <2>5 DEF ExpiryStep
<1>8. QED
  <2>1. ASSUME NEW t \in Thread, RequestStep(t) PROVE StrandInv'
    BY <1>1, <2>1 DEF RequestStep, Watch, ReadStock, ExecReserved,
       ExecDiscarded, SendOrder, SendFails, ReserveFails
  <2>2. ASSUME NEW t \in Thread, NEW u \in User, SetLimit(t, u) PROVE StrandInv'
    BY <1>1, <2>2 DEF SetLimit
  <2>3. ASSUME NEW c \in Consumer, NEW o \in OrderId, DeliverFails(c, o)
        PROVE  StrandInv'
    BY <1>1, <2>3 DEF DeliverFails
  <2>4. ASSUME NEW u \in User, LimitKeyExpires(u) PROVE StrandInv'
    BY <1>1, <2>4 DEF LimitKeyExpires
  <2>5. CASE Start \/ LoadRead \/ LoadSet
    BY <1>1, <2>5 DEF Start, LoadRead, LoadSet
  <2>6. CASE UNCHANGED vars
    BY <1>1, <2>6 DEF vars
  <2>7. QED
    BY <1>2, <1>3, <1>4, <1>5, <1>6, <1>7, <2>1, <2>2, <2>3, <2>4, <2>5, <2>6
    DEF Next

(***************************************************************************)
(* An order that awaits payment is on its way to be cancelled, or it was   *)
(* stranded by a failure and nothing puts it back.                         *)
(***************************************************************************)
THEOREM StrandSafe == Spec => []TimedOrStranded
<1>1. Init => StrandInv
  BY DEF Init, StrandInv, TimedOrStranded, Live
<1>2. StrandInv => TimedOrStranded
  BY DEF StrandInv
<1>3. QED
  BY <1>1, <1>2, StrandStep, TokenCorrect, TypeCorrect, PTL DEF Spec

-----------------------------------------------------------------------------
(***************************************************************************)
(* DbInv.  Rows are only ever added, one by InsertOrder.                   *)
(***************************************************************************)
LEMMA RecordedType == Cardinality(Recorded) \in Nat
  BY Finite DEF Recorded

LEMMA RecordedGrows ==
  ASSUME TypeOK, NEW c \in Consumer, InsertOrder(c)
  PROVE  Cardinality(Recorded') = Cardinality(Recorded) + 1
<1>1. task[c].order \in OrderId /\ orderStatus[task[c].order] = "none"
  BY IdleTypes DEF InsertOrder, HasRow, TypeOK, Task, NoTask
<1>2. Recorded' = Recorded \cup {task[c].order} /\ task[c].order \notin Recorded
  BY <1>1 DEF InsertOrder, TypeOK, Recorded
<1>3. IsFiniteSet(Recorded)
  BY Finite DEF Recorded
<1>4. QED
  BY <1>2, <1>3, FS_AddElement

LEMMA DbStep == TypeOK /\ DbInv /\ [Next]_vars => DbInv'
<1> SUFFICES ASSUME TypeOK, DbInv, [Next]_vars PROVE DbInv'
  OBVIOUS
<1>0. /\ task \in [Consumer -> Task \cup {NoTask}]
      /\ expiry \in [OrderId -> Expiry]
      /\ goodsCount \in Nat
      /\ Cardinality(Recorded) \in Nat
      /\ InitStock \in Nat
      /\ orderStatus \in [OrderId -> {"none", "created", "cancelled"}]
  BY RecordedType, BoundsAssumption DEF TypeOK
<1> USE <1>0 DEF DbInv, NeverSoldOutInDb, DbNeverOverdrawn, dbVars
<1>r. UNCHANGED orderStatus => Recorded' = Recorded
  BY DEF Recorded
<1>1. CASE UNCHANGED <<dbVars, task, expiry>>
  BY <1>1, <1>r
<1>2. CASE Crash
  BY <1>2, <1>r, IdleTypes DEF Crash
<1>2a. ASSUME NEW c \in Consumer, TaskFails(c) PROVE DbInv'
  BY <1>2a, <1>r, IdleTypes DEF TaskFails
<1>2b. ASSUME NEW o \in OrderId, ExpiryFails(o) PROVE DbInv'
  BY <1>2b, <1>r, IdleTypes DEF ExpiryFails
<1>3. ASSUME NEW c \in Consumer, ConsumerStep(c) PROVE DbInv'
  <2>1. CASE InsertOrder(c)
    <3>1. Cardinality(Recorded') = Cardinality(Recorded) + 1
      BY <2>1, RecordedGrows
    <3>2. UNCHANGED <<goodsCount, expiry>>
      BY <2>1 DEF InsertOrder
    <3>3. /\ task' = [task EXCEPT ![c].at = "update"]
          /\ task[c].at = "insert"
          /\ task[c].seen \in Nat
      BY <2>1, IdleTypes DEF InsertOrder, Task
    <3>4. \A d \in Consumer : d # c => task'[d] = task[d]
      BY <3>3
    <3>5. task'[c].at = "update" /\ task'[c].seen = task[c].seen
      BY <3>3 DEF Task, NoTask
    <3>6. \A d \in Consumer :
            task[d].at \in {"insert", "update"} => task[d].seen \in Nat
      BY DEF Task, NoTask
    <3>7. \A o \in OrderId : expiry[o].seen \in Nat
      BY DEF Expiry
    <3>8. QED
      BY <3>1, <3>2, <3>3, <3>4, <3>5, <3>6, <3>7
  <2>2. CASE InsertRejected(c)
    BY <2>2, <1>r, IdleTypes DEF InsertRejected
  <2>3. CASE TakeUnit(c)
    <3>1. /\ task[c].seen \in Nat \ {0}
          /\ goodsCount' = IF goodsCount > 1 THEN task[c].seen - 1
                                             ELSE goodsCount
      BY <2>3 DEF TakeUnit, UpdateGoodsCount, Task, NoTask
    <3>2. goodsCount > 1 => task[c].seen > 1
      BY <2>3, <3>1 DEF TakeUnit
    <3>3. UNCHANGED <<orderStatus, expiry>> /\ Recorded' = Recorded
      BY <2>3, <1>r DEF TakeUnit
    <3>4. NeverSoldOutInDb'
      BY <3>1, <3>2
    <3>5. DbNeverOverdrawn'
      BY <2>3, <3>1, <3>3 DEF TakeUnit
    <3>6. \A d \in Consumer :
            task'[d].at \in {"insert", "update"} => task'[d] = task[d]
      BY <2>3 DEF TakeUnit, Task, NoTask
    <3>7. goodsCount <= 1 => goodsCount' <= 1
      BY <3>1
    <3>8. QED
      BY <3>3, <3>4, <3>5, <3>6, <3>7
  <2>4. CASE SetPayKey(c)
    BY <2>4, <1>r DEF SetPayKey, Task, NoTask
  <2>5. CASE Ack(c)
    BY <2>5, <1>r, IdleTypes DEF Ack
  <2>6. QED
    BY <1>3, <2>1, <2>2, <2>3, <2>4, <2>5 DEF ConsumerStep
<1>4. ASSUME NEW c \in Consumer, NEW o \in OrderId, Deliver(c, o) PROVE DbInv'
  BY <1>4, <1>r DEF Deliver
<1>5. ASSUME NEW o \in OrderId, ExpiryStep(o) PROVE DbInv'
  <2>1. CASE PayKeyExpires(o)
    BY <2>1, <1>r DEF PayKeyExpires, Expiry
  <2>2. CASE CancelOrder(o)
    <3>1. Recorded' = Recorded
      BY <2>2 DEF CancelOrder, Recorded
    <3>2. QED
      BY <2>2, <3>1, IdleTypes DEF CancelOrder, Expiry
  <2>3. CASE ReadGoods(o)
    BY <2>3, <1>r DEF ReadGoods, Expiry
  <2>4. CASE ReturnUnit(o)
    BY <2>4, <1>r DEF ReturnUnit, UpdateGoodsCount, Expiry
  <2>5. CASE IncrStock(o)
    BY <2>5, <1>r, IdleTypes DEF IncrStock
  <2>6. QED
    BY <1>5, <2>1, <2>2, <2>3, <2>4, <2>5 DEF ExpiryStep
<1>6. QED
  <2>1. ASSUME NEW t \in Thread, RequestStep(t) PROVE DbInv'
    <3>1. ASSUME NEW o \in OrderId, SendOrder(t, o) PROVE DbInv'
      BY <3>1, <1>r DEF SendOrder
    <3>2. QED
      BY <1>1, <2>1, <3>1 DEF RequestStep, Watch, ReadStock, ExecReserved,
         ExecDiscarded, SendFails, ReserveFails
  <2>2. ASSUME NEW t \in Thread, NEW u \in User, SetLimit(t, u) PROVE DbInv'
    BY <1>1, <2>2 DEF SetLimit
  <2>2a. ASSUME NEW c \in Consumer, NEW o \in OrderId, DeliverFails(c, o)
         PROVE  DbInv'
    BY <1>1, <2>2a DEF DeliverFails
  <2>3. ASSUME NEW u \in User, LimitKeyExpires(u) PROVE DbInv'
    BY <1>1, <2>3 DEF LimitKeyExpires
  <2>4. CASE Start \/ LoadRead \/ LoadSet
    BY <1>1, <2>4 DEF Start, LoadRead, LoadSet
  <2>5. CASE UNCHANGED vars
    BY <1>1, <2>5 DEF vars
  <2>6. QED
    BY <1>2, <1>2a, <1>2b, <1>3, <1>4, <1>5, <2>1, <2>2, <2>2a, <2>3, <2>4, <2>5
    DEF Next

LEMMA DbCorrect == Spec => []DbInv
<1>1. Init => DbInv
  BY IdleTypes, RecordedType, BoundsAssumption
  DEF Init, DbInv, NeverSoldOutInDb, DbNeverOverdrawn
<1>2. QED
  BY <1>1, DbStep, TypeCorrect, PTL DEF Spec

(***************************************************************************)
(* MySQL's count never falls by more than the orders on record.            *)
(***************************************************************************)
THEOREM DbSafe == Spec => []DbNeverOverdrawn
<1>1. DbInv => DbNeverOverdrawn
  BY DEF DbInv
<1>2. QED
  BY <1>1, DbCorrect, PTL

(***************************************************************************)
(* The last unit never leaves MySQL's count: GoodsMapper.xml only updates  *)
(* a count that is above one.                                              *)
(***************************************************************************)
THEOREM LastUnitStays == Spec => []NeverSoldOutInDb
<1>1. DbInv => NeverSoldOutInDb
  BY DEF DbInv
<1>2. QED
  BY <1>1, DbCorrect, PTL

-----------------------------------------------------------------------------
(***************************************************************************)
(* Held, the units Redis gave out and did not get back: EXEC adds one,     *)
(* INCR takes one off, and every other step only moves units between a     *)
(* request, a lost unit and an order number.                               *)
(***************************************************************************)
LEMMA HeldParts ==
    /\ IsFiniteSet(Reserving) /\ Cardinality(Reserving) \in Nat
    /\ IsFiniteSet(Issued) /\ Cardinality(Issued) \in Nat
    /\ IsFiniteSet(Restored) /\ Cardinality(Restored) \in Nat
  BY Finite DEF Reserving, Issued, Restored

LEMMA HeldSell ==
  ASSUME TypeOK, NEW t \in Thread, ExecReserved(t)
  PROVE  Held' = Held + 1
<1>1. Reserving' = Reserving \cup {t} /\ t \notin Reserving
  BY DEF ExecReserved, Goto, TypeOK, Reserving, Request, NoRequest
<1>2. UNCHANGED <<Issued, Restored, leaked>>
  BY DEF ExecReserved, Issued, Restored, dbVars, ghostVars
<1>3. Cardinality(Reserving') = Cardinality(Reserving) + 1
  BY <1>1, HeldParts, FS_AddElement
<1>4. QED
  BY <1>2, <1>3, HeldParts DEF Held, TypeOK

LEMMA HeldRestock ==
  ASSUME TypeOK, TokenInv, NEW o \in OrderId, IncrStock(o)
  PROVE  Held' = Held - 1
<1>1. restored[o] = 0
  BY DEF IncrStock, TokenInv
<1>2. Restored' = Restored \cup {o} /\ o \notin Restored
  BY <1>1 DEF IncrStock, TypeOK, Restored
<1>3. UNCHANGED <<Issued, Reserving, leaked>>
  BY DEF IncrStock, Issued, Reserving, dbVars
<1>4. Cardinality(Restored') = Cardinality(Restored) + 1
  BY <1>2, HeldParts, FS_AddElement
<1>5. QED
  BY <1>3, <1>4, HeldParts DEF Held, TypeOK

LEMMA HeldSend ==
  ASSUME TypeOK, NEW t \in Thread, NEW o \in OrderId, SendOrder(t, o)
  PROVE  Held' = Held
<1>1. web[t].user \in User
  BY IdleTypes DEF SendOrder, TypeOK, Request
<1>2. Reserving' = Reserving \ {t} /\ t \in Reserving
  BY IdleTypes DEF SendOrder, Respond, TypeOK, Reserving
<1>3. Issued' = Issued \cup {o} /\ o \notin Issued
  BY <1>1, NoneAssumption DEF SendOrder, TypeOK, Issued
<1>4. UNCHANGED <<Restored, leaked>>
  BY DEF SendOrder, Restored, ghostVars
<1>5. Cardinality(Reserving') = Cardinality(Reserving) - 1
  BY <1>2, HeldParts, FS_RemoveElement
<1>6. Cardinality(Issued') = Cardinality(Issued) + 1
  BY <1>3, HeldParts, FS_AddElement
<1>7. QED
  BY <1>4, <1>5, <1>6, HeldParts DEF Held, TypeOK

LEMMA HeldLeak ==
  ASSUME TypeOK, NEW t \in Thread, SendFails(t)
  PROVE  Held' = Held
<1>1. Reserving' = Reserving \ {t} /\ t \in Reserving
  BY IdleTypes DEF SendFails, Respond, TypeOK, Reserving
<1>2. UNCHANGED <<Issued, Restored>> /\ leaked' = leaked + 1
  BY DEF SendFails, Issued, Restored, dbVars
<1>3. Cardinality(Reserving') = Cardinality(Reserving) - 1
  BY <1>1, HeldParts, FS_RemoveElement
<1>4. QED
  BY <1>2, <1>3, HeldParts DEF Held, TypeOK

LEMMA HeldCrash == TypeOK /\ Crash => Held' = Held
<1> SUFFICES ASSUME TypeOK, Crash PROVE Held' = Held
  OBVIOUS
<1>1. Reserving' = {}
  BY IdleTypes DEF Crash, Reserving
<1>2. /\ UNCHANGED <<Issued, Restored>>
      /\ leaked' = leaked + Cardinality(Reserving)
  BY DEF Crash, Issued, Restored, dbVars
<1>3. Cardinality(Reserving') = 0
  BY <1>1, FS_EmptySet
<1>4. QED
  BY <1>2, <1>3, HeldParts DEF Held, TypeOK

LEMMA HeldKept ==
  ASSUME TypeOK, [Next]_vars,
         \A t \in Thread : ~ExecReserved(t),
         \A o \in OrderId : ~IncrStock(o)
  PROVE  Held' = Held
<1> USE DEF Held, Issued, Restored, Reserving, dbVars, ghostVars
<1>1. CASE UNCHANGED <<buyer, restored, leaked, web>>
  BY <1>1
<1>2. ASSUME NEW t \in Thread, RequestStep(t) PROVE Held' = Held
  <2>1. CASE Watch(t)
    <3>1. Reserving' = Reserving
      BY <2>1 DEF Watch, Goto, TypeOK, Request, NoRequest
    <3>2. QED
      BY <2>1, <3>1 DEF Watch
  <2>2. CASE ReadStock(t)
    <3>1. Reserving' = Reserving
      <4>1. CASE cached /\ stock > 0
        BY <2>2, <4>1 DEF ReadStock, Goto, TypeOK, Request, NoRequest
      <4>2. CASE ~(cached /\ stock > 0)
        BY <2>2, <4>2, IdleTypes DEF ReadStock, Respond, TypeOK
      <4>3. QED
        BY <4>1, <4>2
    <3>2. QED
      BY <2>2, <3>1 DEF ReadStock
  <2>3. CASE ExecDiscarded(t)
    <3>1. Reserving' = Reserving
      BY <2>3, IdleTypes DEF ExecDiscarded, Respond, TypeOK
    <3>2. QED
      BY <2>3, <3>1 DEF ExecDiscarded
  <2>4. CASE ReserveFails(t)
    <3>1. Reserving' = Reserving
      BY <2>4, IdleTypes DEF ReserveFails, Respond, TypeOK
    <3>2. QED
      BY <2>4, <3>1 DEF ReserveFails
  <2>5. QED
    BY <1>2, <2>1, <2>2, <2>3, <2>4, HeldSend, HeldLeak DEF RequestStep
<1>3. ASSUME NEW t \in Thread, NEW u \in User, SetLimit(t, u) PROVE Held' = Held
  <2>1. Reserving' = Reserving
    BY <1>3 DEF SetLimit, TypeOK, Request, NoRequest
  <2>2. QED
    BY <1>3, <2>1 DEF SetLimit
<1>4. ASSUME NEW c \in Consumer, ConsumerStep(c) PROVE Held' = Held
  BY <1>1, <1>4 DEF ConsumerStep, InsertOrder, InsertRejected, TakeUnit,
     SetPayKey, Ack
<1>5. ASSUME NEW c \in Consumer, NEW o \in OrderId,
             Deliver(c, o) \/ DeliverFails(c, o)
      PROVE Held' = Held
  BY <1>1, <1>5 DEF Deliver, DeliverFails
<1>5a. ASSUME NEW c \in Consumer, TaskFails(c) PROVE Held' = Held
  BY <1>1, <1>5a DEF TaskFails
<1>5b. ASSUME NEW o \in OrderId, ExpiryFails(o) PROVE Held' = Held
  BY <1>1, <1>5b DEF ExpiryFails
<1>6. ASSUME NEW o \in OrderId, ExpiryStep(o) PROVE Held' = Held
  BY <1>1, <1>6 DEF ExpiryStep, PayKeyExpires, CancelOrder, ReadGoods,
     ReturnUnit
<1>7. ASSUME NEW u \in User, LimitKeyExpires(u) PROVE Held' = Held
  BY <1>1, <1>7 DEF LimitKeyExpires
<1>8. CASE Start \/ LoadRead \/ LoadSet
  BY <1>1, <1>8 DEF Start, LoadRead, LoadSet
<1>9. CASE UNCHANGED vars
  BY <1>1, <1>9 DEF vars
<1>10. QED
  BY <1>2, <1>3, <1>4, <1>5, <1>5a, <1>5b, <1>6, <1>7, <1>8, <1>9, HeldCrash
  DEF Next

\* Only numbers given out give a unit back.
LEMMA RestoredIssued ==
  ASSUME TypeOK, LifeInv, TokenInv
  PROVE  Restored \subseteq Issued
  BY DEF TypeOK, LifeInv, TokenInv, RestoredAtMostOnce, Restored, Issued

LEMMA HeldBoundsLive ==
  ASSUME TypeOK, LifeInv, TokenInv
  PROVE  Cardinality(Live) \in Nat /\ Cardinality(Live) <= Held
<1>1. Live \subseteq Issued \ Restored
  BY DEF TypeOK, LifeInv, TokenInv, RestoredAtMostOnce, Live, Restored, Issued
<1>2. Issued \cap Restored = Restored
  BY RestoredIssued
<1>3. Cardinality(Issued \ Restored)
        = Cardinality(Issued) - Cardinality(Restored)
  BY <1>2, HeldParts, FS_Difference
<1>4. IsFiniteSet(Issued \ Restored)
  BY HeldParts, FS_Subset
<1>5. /\ Cardinality(Live) \in Nat
      /\ Cardinality(Live) <= Cardinality(Issued \ Restored)
  BY <1>1, <1>4, FS_Subset, FS_CardinalityType
<1>6. QED
  BY <1>3, <1>5, HeldParts DEF Held, TypeOK

LEMMA HeldPositive ==
  ASSUME TypeOK, LifeInv, TokenInv, NEW o \in OrderId, IncrStock(o)
  PROVE  cached /\ Held > 0
<1>1. o \in Issued /\ o \notin Restored
  BY DEF IncrStock, TypeOK, LifeInv, TokenInv, Issued, Restored
<1>2. Restored \cup {o} \subseteq Issued
  BY <1>1, RestoredIssued
<1>3. Cardinality(Restored \cup {o}) = Cardinality(Restored) + 1
  BY <1>1, HeldParts, FS_AddElement
<1>4. Cardinality(Restored \cup {o}) <= Cardinality(Issued)
  BY <1>2, HeldParts, FS_Subset
<1>5. cached
  BY <1>1 DEF LifeInv, Issued
<1>6. QED
  BY <1>3, <1>4, <1>5, HeldParts DEF Held, TypeOK

LEMMA HeldType == TypeOK => Held \in Int
  BY HeldParts DEF Held, TypeOK

-----------------------------------------------------------------------------
(***************************************************************************)
(* FirstRunInv: nobody can buy before the key exists, so the first load    *)
(* finds the count of MySQL as it was, and no other load follows it.       *)
(***************************************************************************)
LEMMA FirstRunStep ==
  TypeOK /\ GateInv /\ LifeInv /\ TokenInv /\ FirstRunInv /\ [Next]_vars
    => FirstRunInv'
<1> SUFFICES ASSUME TypeOK, GateInv, LifeInv, TokenInv, FirstRunInv,
                    [Next]_vars, crashes' = 0
             PROVE  FirstRunInv'
  BY DEF FirstRunInv
<1>0. /\ InitStock \in Nat /\ stock \in Int /\ crashes \in Nat
      /\ Held \in Int
      /\ loader \in Loader
  BY HeldType, BoundsAssumption DEF TypeOK
<1> USE <1>0 DEF FirstRunInv, dbVars, stockVars, ghostVars
<1>1. ASSUME NEW t \in Thread, ExecReserved(t) PROVE FirstRunInv'
  <2>1. Held' = Held + 1
    BY <1>1, HeldSell
  <2>2. cached
    BY <1>1 DEF ExecReserved, GateInv
  <2>3. QED
    BY <1>1, <2>1, <2>2 DEF ExecReserved
<1>2. ASSUME NEW o \in OrderId, IncrStock(o) PROVE FirstRunInv'
  <2>1. Held' = Held - 1
    BY <1>2, HeldRestock
  <2>2. cached
    BY <1>2, HeldPositive
  <2>3. QED
    BY <1>2, <2>1, <2>2 DEF IncrStock
<1>3. CASE /\ \A t \in Thread : ~ExecReserved(t)
           /\ \A o \in OrderId : ~IncrStock(o)
  <2>0. Held' = Held
    BY <1>3, HeldKept
  <2>1. CASE UNCHANGED <<goodsCount, cached, stock, up, loader, crashes>>
    BY <2>0, <2>1
  <2>2. CASE Start
    BY <2>0, <2>2, IdleTypes DEF Start, NoLoad
  <2>3. CASE LoadRead
    BY <2>0, <2>3 DEF LoadRead
  <2>4. CASE LoadSet
    BY <2>0, <2>4, IdleTypes DEF LoadSet, NoLoad
  <2>5. CASE Crash
    BY <2>5 DEF Crash
  <2>6. ASSUME NEW c \in Consumer, TakeUnit(c) PROVE FirstRunInv'
    <3>1. cached
      BY <2>6, IdleTypes DEF TakeUnit, LifeInv, TypeOK, Task
    <3>2. QED
      BY <2>0, <2>6, <3>1 DEF TakeUnit
  <2>7. ASSUME NEW o \in OrderId, ReturnUnit(o) PROVE FirstRunInv'
    <3>1. cached
      BY <2>7 DEF ReturnUnit, LifeInv, TokenInv
    <3>2. QED
      BY <2>0, <2>7, <3>1 DEF ReturnUnit
  <2>8. ASSUME NEW t \in Thread, RequestStep(t) PROVE FirstRunInv'
    BY <1>3, <2>1, <2>8 DEF RequestStep, Watch, ReadStock, ExecDiscarded,
       SendOrder, SendFails, ReserveFails
  <2>9. ASSUME NEW t \in Thread, NEW u \in User, SetLimit(t, u)
        PROVE FirstRunInv'
    BY <2>1, <2>9 DEF SetLimit
  <2>10. ASSUME NEW c \in Consumer, ConsumerStep(c) PROVE FirstRunInv'
    BY <2>1, <2>6, <2>10 DEF ConsumerStep, InsertOrder, InsertRejected,
       SetPayKey, Ack
  <2>11. ASSUME NEW c \in Consumer, NEW o \in OrderId,
                Deliver(c, o) \/ DeliverFails(c, o)
         PROVE FirstRunInv'
    BY <2>1, <2>11 DEF Deliver, DeliverFails
  <2>11a. ASSUME NEW c \in Consumer, TaskFails(c) PROVE FirstRunInv'
    BY <2>1, <2>11a DEF TaskFails
  <2>11b. ASSUME NEW o \in OrderId, ExpiryFails(o) PROVE FirstRunInv'
    BY <2>1, <2>11b DEF ExpiryFails
  <2>12. ASSUME NEW o \in OrderId, ExpiryStep(o) PROVE FirstRunInv'
    BY <1>3, <2>1, <2>7, <2>12 DEF ExpiryStep, PayKeyExpires, CancelOrder,
       ReadGoods
  <2>13. ASSUME NEW u \in User, LimitKeyExpires(u) PROVE FirstRunInv'
    BY <2>1, <2>13 DEF LimitKeyExpires
  <2>14. CASE UNCHANGED vars
    BY <2>1, <2>14 DEF vars
  <2>15. QED
    BY <2>2, <2>3, <2>4, <2>5, <2>8, <2>9, <2>10, <2>11, <2>11a, <2>11b, <2>12,
       <2>13, <2>14 DEF Next
<1>4. QED
  BY <1>1, <1>2, <1>3

-----------------------------------------------------------------------------
\* The inductive invariant as a whole.
SeckillInv == TypeOK /\ GateInv /\ LifeInv /\ TokenInv /\ FirstRunInv

LEMMA SeckillInvariant == Spec => []SeckillInv
<1>1. Init => GateInv /\ LifeInv /\ TokenInv
  BY IdleTypes
  DEF Init, GateInv, LifeInv, TokenInv, RestoredAtMostOnce, Holds
<1>2. Init => FirstRunInv
  <2> SUFFICES ASSUME Init PROVE FirstRunInv
    OBVIOUS
  <2>1. Reserving = {} /\ Issued = {} /\ Restored = {}
    BY IdleTypes DEF Init, Reserving, Issued, Restored
  <2>2. Held = 0
    BY <2>1, FS_EmptySet DEF Held, Init
  <2>3. QED
    BY <2>2 DEF Init, FirstRunInv, NoLoad
<1>3. SeckillInv /\ [Next]_vars => SeckillInv'
  BY TypeStep, GateStep, LifeStep, TokenStep, FirstRunStep DEF SeckillInv
<1>4. QED
  BY <1>1, <1>2, <1>3, TypeInit, PTL DEF Spec, SeckillInv

(***************************************************************************)
(* Until the first crash every unit is accounted for.                      *)
(***************************************************************************)
THEOREM AccountSafe == Spec => []UnitsAccounted
<1>1. SeckillInv => UnitsAccounted
  BY DEF SeckillInv, FirstRunInv, UnitsAccounted
<1>2. QED
  BY <1>1, SeckillInvariant, PTL

(***************************************************************************)
(* Until the first crash the sale does not oversell: an order that awaits  *)
(* payment holds a unit, and what is held was in the counter.              *)
(***************************************************************************)
THEOREM NoOversellSafe == Spec => []NoOversell
<1>1. SeckillInv => NoOversell
  <2> SUFFICES ASSUME SeckillInv, crashes = 0
               PROVE  Cardinality(Live) <= InitStock
    BY DEF NoOversell
  <2>1. Cardinality(Live) \in Nat /\ Cardinality(Live) <= Held /\ Held \in Int
    BY HeldBoundsLive, HeldType DEF SeckillInv
  <2>2. stock >= 0 /\ stock \in Int /\ InitStock \in Nat
    BY BoundsAssumption DEF SeckillInv, GateInv, TypeOK
  <2>3. QED
    BY <2>1, <2>2 DEF SeckillInv, FirstRunInv
<1>2. QED
  BY <1>1, SeckillInvariant, PTL

-----------------------------------------------------------------------------
(***************************************************************************)
(* The conversation with Redis implements the atomic counter StockGate:    *)
(* EXEC is Sell, INCR is Restock, and only LoadSet overwrites the value.   *)
(***************************************************************************)
THEOREM GateRefinement == Spec => GateSpec
<1> USE DEF Gate!gateVars
<1>1. Init => Gate!Init
  <2> SUFFICES ASSUME Init PROVE Gate!Init
    OBVIOUS
  <2>1. Reserving = {} /\ Issued = {} /\ Restored = {}
    BY IdleTypes DEF Init, Reserving, Issued, Restored
  <2>2. Held = 0
    BY <2>1, FS_EmptySet DEF Held, Init
  <2>3. QED
    BY <2>2 DEF Init, Gate!Init, NoLoad
<1>2. SeckillInv /\ [Next]_vars => [Gate!Next]_(Gate!gateVars)
  <2> SUFFICES ASSUME SeckillInv, [Next]_vars
               PROVE  Gate!Next \/ UNCHANGED Gate!gateVars
    OBVIOUS
  <2> USE DEF Gate!Next, dbVars, stockVars, ghostVars
  <2>1. ASSUME NEW t \in Thread, ExecReserved(t)
        PROVE  Gate!Next
    <3>1. Held' = Held + 1
      BY <2>1, HeldSell DEF SeckillInv
    <3>2. cached /\ stock > 0
      BY <2>1 DEF ExecReserved, SeckillInv, GateInv, TypeOK
    <3>3. QED
      BY <2>1, <3>1, <3>2 DEF ExecReserved, Gate!Sell
  <2>2. ASSUME NEW o \in OrderId, IncrStock(o)
        PROVE  Gate!Next
    <3>1. Held' = Held - 1
      BY <2>2, HeldRestock DEF SeckillInv
    <3>2. cached /\ Held > 0
      BY <2>2, HeldPositive DEF SeckillInv
    <3>3. QED
      BY <2>2, <3>1, <3>2 DEF IncrStock, Gate!Restock
  <2>3. CASE /\ \A t \in Thread : ~ExecReserved(t)
             /\ \A o \in OrderId : ~IncrStock(o)
    <3>0. Held' = Held
      BY <2>3, HeldKept DEF SeckillInv
    <3>1. CASE UNCHANGED <<cached, stock, loader>>
      BY <3>0, <3>1
    <3>2. CASE Start
      <4>1. loader'.at = "read"
        BY <3>2 DEF Start, NoLoad
      <4>2. QED
        BY <3>0, <3>2, <4>1 DEF Start, Gate!AbandonLoad
    <3>3. CASE LoadRead
      BY <3>0, <3>3 DEF LoadRead, Gate!BeginLoad
    <3>4. CASE LoadSet
      <4>1. loader.seen \in Nat
        BY DEF SeckillInv, TypeOK, Loader
      <4>2. QED
        BY <3>0, <3>4, <4>1, IdleTypes DEF LoadSet, NoLoad, Gate!Load
    <3>5. CASE Crash
      BY <3>0, <3>5 DEF Crash, NoLoad, Gate!AbandonLoad
    <3>6. ASSUME NEW t \in Thread, RequestStep(t)
          PROVE  UNCHANGED <<cached, stock, loader>>
      BY <2>3, <3>6 DEF RequestStep, Watch, ReadStock, ExecDiscarded,
         SendOrder, SendFails, ReserveFails
    <3>7. ASSUME NEW t \in Thread, NEW u \in User, SetLimit(t, u)
          PROVE  UNCHANGED <<cached, stock, loader>>
      BY <3>7 DEF SetLimit
    <3>8. ASSUME NEW c \in Consumer, ConsumerStep(c)
          PROVE  UNCHANGED <<cached, stock, loader>>
      BY <3>8 DEF ConsumerStep, InsertOrder, InsertRejected, TakeUnit,
         SetPayKey, Ack
    <3>9. ASSUME NEW c \in Consumer, NEW o \in OrderId,
                 Deliver(c, o) \/ DeliverFails(c, o)
          PROVE  UNCHANGED <<cached, stock, loader>>
      BY <3>9 DEF Deliver, DeliverFails
    <3>9a. ASSUME NEW c \in Consumer, TaskFails(c)
           PROVE  UNCHANGED <<cached, stock, loader>>
      BY <3>9a DEF TaskFails
    <3>9b. ASSUME NEW o \in OrderId, ExpiryFails(o)
           PROVE  UNCHANGED <<cached, stock, loader>>
      BY <3>9b DEF ExpiryFails
    <3>10. ASSUME NEW o \in OrderId, ExpiryStep(o)
           PROVE  UNCHANGED <<cached, stock, loader>>
      BY <2>3, <3>10 DEF ExpiryStep, PayKeyExpires, CancelOrder, ReadGoods,
         ReturnUnit
    <3>11. ASSUME NEW u \in User, LimitKeyExpires(u)
           PROVE  UNCHANGED <<cached, stock, loader>>
      BY <3>11 DEF LimitKeyExpires
    <3>12. CASE UNCHANGED vars
      BY <3>1, <3>12 DEF vars
    <3>13. QED
      BY <3>1, <3>2, <3>3, <3>4, <3>5, <3>6, <3>7, <3>8, <3>9, <3>9a, <3>9b,
         <3>10, <3>11, <3>12 DEF Next
  <2>4. QED
    BY <2>1, <2>2, <2>3
<1>3. QED
  BY <1>1, <1>2, SeckillInvariant, PTL DEF Spec, GateSpec, Gate!Spec
=============================================================================
