---------------------------- MODULE OrderPayProofs ----------------------------
(***************************************************************************)
(* The orders with a time to pay, for any number of orders and payers.     *)
(***************************************************************************)
EXTENDS OrderPay, TLAPS

LEMMA Idle == NoTask.at = "idle" /\ NoPay.at = "idle"
  BY DEF NoTask, NoPay

LEMMA TypeInit == Init => TypeOK
  BY BoundsAssumption DEF Init, TypeOK

LEMMA TypeStep == TypeOK /\ [Next]_vars => TypeOK'
<1> SUFFICES ASSUME TypeOK, [Next]_vars PROVE TypeOK'
  OBVIOUS
<1> USE BoundsAssumption DEF TypeOK, appVars, brokerVars, ghostVars
<1>1. ASSUME NEW o \in Order, PutOrder(o) \/ Send(o) \/ SendLost(o) \/ Expire(o)
      PROVE  TypeOK'
  BY <1>1 DEF PutOrder, Send, SendLost, Expire
<1>2. ASSUME NEW p \in Payer, NEW o \in Order, FindOrder(p, o) PROVE TypeOK'
  BY <1>2 DEF FindOrder
<1>3. ASSUME NEW p \in Payer, ReadStatus(p) PROVE TypeOK'
  BY <1>3 DEF ReadStatus, NoPay
<1>4. ASSUME NEW p \in Payer, SetPaid(p) PROVE TypeOK'
  BY <1>4, Idle DEF SetPaid
<1>5. ASSUME NEW o \in Order, Deliver(o) PROVE TypeOK'
  BY <1>5 DEF Deliver
<1>6. CASE CheckStatus
  BY <1>6, Idle DEF CheckStatus
<1>7. CASE SetTimeout
  BY <1>7, Idle DEF SetTimeout
<1>8. CASE PutTimeout
  BY <1>8, Idle DEF PutTimeout
<1>9. CASE Ack
  BY <1>9 DEF Ack
<1>10. CASE Reconnect
  BY <1>10 DEF Reconnect
<1>11. CASE Crash
  BY <1>11 DEF Crash
<1>12. CASE UNCHANGED vars
  BY <1>12 DEF vars
<1>13. QED
  BY <1>1, <1>2, <1>3, <1>4, <1>5, <1>6, <1>7, <1>8, <1>9, <1>10, <1>11, <1>12
  DEF Next, Listen

(***************************************************************************)
(* Every variable keeps its type.                                          *)
(***************************************************************************)
THEOREM TypeCorrect == Spec => []TypeOK
  BY TypeInit, TypeStep, PTL DEF Spec

-----------------------------------------------------------------------------
(***************************************************************************)
(* The inductive invariant.  An order paid on time is out of the           *)
(* listener's reach: whatever is delivered for it is acknowledged only.    *)
(* Until the first crash every message belongs to an order in the map, and *)
(* the only message not acknowledged is the one being handled.             *)
(***************************************************************************)
PaidInv ==
    /\ \A o \in Order : payStatus[o] # "absent" => o \in bought
    /\ \A p \in Payer : pay[p].at # "idle" => pay[p].order \in bought
    /\ task.at # "idle" => task.order \in bought
    /\ \A o \in onTime :
        /\ payStatus[o] = "2"
        /\ o \notin timeoutOrderPayMap
        /\ ~(task.at \in {"write", "put"} /\ task.order = o)

FirstLifeInv ==
    crashes = 0 =>
        /\ \A o \in sending \cup queue \cup queueDlx \cup unacked :
            payStatus[o] # "absent"
        /\ \A o \in unacked : task # NoTask /\ task.order = o

IInv == PaidInv /\ TimeoutListed /\ FirstLifeInv

LEMMA IInvStep == TypeOK /\ IInv /\ [Next]_vars => IInv'
<1> SUFFICES ASSUME TypeOK, IInv, [Next]_vars PROVE IInv'
  OBVIOUS
<1>0. /\ payStatus \in [Order -> {"absent", "0", "1", "2"}]
      /\ timeoutOrderPayMap \subseteq Order /\ onTime \subseteq Order
      /\ pay \in [Payer -> [at : {"read", "write"}, order : Order] \cup {NoPay}]
      /\ task \in [at : {"read", "write", "put", "ack"}, order : Order]
                      \cup {NoTask}
      /\ sending \subseteq Order /\ queue \subseteq Order
      /\ queueDlx \subseteq Order /\ unacked \subseteq Order
      /\ crashes \in Nat
  BY BoundsAssumption DEF TypeOK
<1> USE <1>0, Idle DEF IInv, PaidInv, TimeoutListed, FirstLifeInv, appVars,
        brokerVars, ghostVars
<1>1. ASSUME NEW o \in Order, PutOrder(o) \/ Send(o) \/ SendLost(o) \/ Expire(o)
      PROVE  IInv'
  BY <1>1 DEF PutOrder, Send, SendLost, Expire
<1>2. ASSUME NEW p \in Payer, ReadStatus(p) \/ \E o \in Order : FindOrder(p, o)
      PROVE  IInv'
  BY <1>2 DEF ReadStatus, FindOrder
<1>3. ASSUME NEW p \in Payer, SetPaid(p) PROVE IInv'
  <2>1. pay[p].order \in Order
    BY <1>3 DEF SetPaid
  <2>2. /\ payStatus'[pay[p].order] = "2"
        /\ \A o \in Order : o # pay[p].order => payStatus'[o] = payStatus[o]
        /\ UNCHANGED <<timeoutOrderPayMap, sending, task, brokerVars, crashes>>
    BY <1>3, <2>1 DEF SetPaid
  <2>3. pay[p].order \in bought
    BY <1>3, <2>1 DEF SetPaid
  <2>4. \A o \in onTime' : o \in onTime \/ (o = pay[p].order /\ ~TimingOut(o))
    BY <1>3 DEF SetPaid
  <2>5. PaidInv'
    BY <1>3, <2>1, <2>2, <2>3, <2>4 DEF SetPaid, TimingOut
  <2>6. TimeoutListed' /\ FirstLifeInv'
    BY <2>1, <2>2
  <2>7. QED
    BY <2>5, <2>6
<1>4. ASSUME NEW o \in Order, Deliver(o) PROVE IInv'
  BY <1>4 DEF Deliver
<1>5. CASE CheckStatus
  <2>1. /\ task.order \in Order /\ task'.order = task.order
        /\ task' # NoTask
        /\ task'.at \in {"write", "ack"}
        /\ task'.at = "write" => payStatus[task.order] = "0"
        /\ UNCHANGED <<appVars, sending, pay, brokerVars, ghostVars>>
    BY <1>5 DEF CheckStatus
  <2>2. task.at = "read" /\ task # NoTask
    BY <1>5 DEF CheckStatus
  <2>3. PaidInv'
    BY <2>1, <2>2
  <2>4. TimeoutListed'
    BY <2>1, <2>2
  <2>5. FirstLifeInv'
    BY <2>1, <2>2
  <2>6. QED
    BY <2>3, <2>4, <2>5
<1>6. CASE SetTimeout
  <2>1. /\ task.order \in Order /\ task'.order = task.order
        /\ task # NoTask /\ task' # NoTask
        /\ task.at = "write" /\ task'.at = "put"
        /\ payStatus' = [payStatus EXCEPT ![task.order] = "1"]
        /\ UNCHANGED <<timeoutOrderPayMap, sending, pay, brokerVars, ghostVars>>
    BY <1>6 DEF SetTimeout
  <2>2. PaidInv'
    BY <2>1
  <2>3. TimeoutListed'
    BY <2>1
  <2>4. FirstLifeInv'
    BY <2>1
  <2>5. QED
    BY <2>2, <2>3, <2>4
<1>7. CASE PutTimeout
  BY <1>7 DEF PutTimeout
<1>8. CASE Ack
  BY <1>8 DEF Ack
<1>9. CASE Reconnect
  BY <1>9 DEF Reconnect
<1>10. CASE Crash
  BY <1>10 DEF Crash
<1>11. CASE UNCHANGED vars
  BY <1>11 DEF vars
<1>12. QED
  BY <1>1, <1>2, <1>3, <1>4, <1>5, <1>6, <1>7, <1>8, <1>9, <1>10, <1>11
  DEF Next, Listen

LEMMA Invariant == Spec => []IInv
<1>1. Init => IInv
  BY Idle DEF Init, IInv, PaidInv, TimeoutListed, FirstLifeInv
<1>2. QED
  BY <1>1, IInvStep, TypeCorrect, PTL DEF Spec

(***************************************************************************)
(* An order paid before the listener looked at it is never timed out.      *)
(***************************************************************************)
THEOREM OnTimeSafe == Spec => []OnTimeStaysPaid
<1>1. IInv => OnTimeStaysPaid
  BY DEF IInv, PaidInv, OnTimeStaysPaid
<1>2. QED
  BY <1>1, Invariant, PTL

(***************************************************************************)
(* Every order that is timed out is on the list or about to be put there.  *)
(***************************************************************************)
THEOREM TimeoutListedSafe == Spec => []TimeoutListed
<1>1. IInv => TimeoutListed
  BY DEF IInv
<1>2. QED
  BY <1>1, Invariant, PTL

(***************************************************************************)
(* Until the first crash the listener acknowledges every message.          *)
(***************************************************************************)
THEOREM AckSafe == Spec => []NothingLeftUnacked
<1>1. IInv => NothingLeftUnacked
  BY DEF IInv, FirstLifeInv, NothingLeftUnacked
<1>2. QED
  BY <1>1, Invariant, PTL
=============================================================================
