------------------------------- MODULE OrderPay -------------------------------
(***************************************************************************)
(* The orders of rabbitmq/rabbitmq_springboot and their time to pay.       *)
(* OrderController.buy keeps the order in a map of the process and sends   *)
(* its number to q.pay, where it may stay ten seconds; RabbitMQ then       *)
(* dead-letters it to q.pay.dlx, and OrderPayDlxListener times the order   *)
(* out if nobody paid.  The status is a plain field: pay and the listener  *)
(* both read it and write it later.  The queues are durable, the map is    *)
(* not.                                                                    *)
(***************************************************************************)
EXTENDS Integers, FiniteSets

CONSTANTS
    Order,          \* order numbers
    NoOrder,
    Payer,          \* request threads that serve /order/pay
    Prefetch,       \* unacknowledged messages the listener may hold
    MaxCrashes,     \* bound: crashes of the application
    MaxReconnects   \* bound: connections to RabbitMQ that break

ASSUME OrderAssumption == NoOrder \notin Order /\ IsFiniteSet(Order)
ASSUME BoundsAssumption ==
    Prefetch \in Nat \ {0} /\ MaxCrashes \in Nat /\ MaxReconnects \in Nat

VARIABLES
    payStatus,      \* status of each order in orderPayMap, or "absent"
    timeoutOrderPayMap,
    sending,        \* orders whose buy is between put and convertAndSend
    pay,            \* OrderController.pay, per thread
    task,           \* OrderPayDlxListener.doMessage; one consumer thread
    queue,          \* messages in q.pay
    queueDlx,       \* messages in q.pay.dlx, not delivered
    unacked,        \* messages the listener got and did not acknowledge
    bought,         \* order numbers in use
    onTime,         \* orders paid before the listener looked at them
    crashes, reconnects

appVars == <<payStatus, timeoutOrderPayMap>>
brokerVars == <<queue, queueDlx, unacked>>
ghostVars == <<bought, onTime, crashes, reconnects>>
vars == <<appVars, sending, pay, task, brokerVars, ghostVars>>

NoPay == [at |-> "idle", order |-> NoOrder]
NoTask == [at |-> "idle", order |-> NoOrder]

TypeOK ==
    /\ payStatus \in [Order -> {"absent", "0", "1", "2"}]
    /\ timeoutOrderPayMap \subseteq Order
    /\ sending \subseteq Order
    /\ pay \in [Payer -> [at : {"read", "write"}, order : Order] \cup {NoPay}]
    /\ task \in [at : {"read", "write", "put", "ack"}, order : Order]
                    \cup {NoTask}
    /\ queue \subseteq Order
    /\ queueDlx \subseteq Order
    /\ unacked \subseteq Order
    /\ bought \subseteq Order
    /\ onTime \subseteq Order
    /\ crashes \in 0..MaxCrashes
    /\ reconnects \in 0..MaxReconnects

Init ==
    /\ payStatus = [o \in Order |-> "absent"]
    /\ timeoutOrderPayMap = {}
    /\ sending = {}
    /\ pay = [p \in Payer |-> NoPay]
    /\ task = NoTask
    /\ queue = {} /\ queueDlx = {} /\ unacked = {}
    /\ bought = {} /\ onTime = {}
    /\ crashes = 0 /\ reconnects = 0

-----------------------------------------------------------------------------
(***************************************************************************)
(* OrderController.buy                                                     *)
(***************************************************************************)

\* Fault: the message is sent before the order is in the map.
SendBeforePut(o) ==
    /\ o \notin bought
    /\ bought' = bought \cup {o}
    /\ queue' = queue \cup {o}
    /\ sending' = sending \cup {o}
    /\ UNCHANGED <<appVars, pay, task, queueDlx, unacked, onTime, crashes,
                   reconnects>>

\* A new number from IdWorker, status "0", put into orderPayMap.
PutOrder(o) ==
    /\ o \notin bought
    /\ bought' = bought \cup {o}
    /\ payStatus' = [payStatus EXCEPT ![o] = "0"]
    /\ sending' = sending \cup {o}
    /\ UNCHANGED <<timeoutOrderPayMap, pay, task, brokerVars, onTime, crashes,
                   reconnects>>

Send(o) ==
    /\ o \in sending
    /\ sending' = sending \ {o}
    /\ queue' = queue \cup {o}
    /\ UNCHANGED <<appVars, pay, task, queueDlx, unacked, ghostVars>>

\* convertAndSend throws, or the message is lost on its way: the order stays
\* in the map and nothing will time it out.
SendLost(o) ==
    /\ o \in sending
    /\ sending' = sending \ {o}
    /\ UNCHANGED <<appVars, pay, task, brokerVars, ghostVars>>

-----------------------------------------------------------------------------
(***************************************************************************)
(* OrderController.pay                                                     *)
(***************************************************************************)

\* An unknown number is answered with an error page and changes nothing.
FindOrder(p, o) ==
    /\ pay[p] = NoPay
    /\ payStatus[o] # "absent"
    /\ pay' = [pay EXCEPT ![p] = [at |-> "read", order |-> o]]
    /\ UNCHANGED <<appVars, sending, task, brokerVars, ghostVars>>

ReadStatus(p) ==
    /\ pay[p].at = "read"
    /\ pay' = IF payStatus[pay[p].order] = "1"
                THEN [pay EXCEPT ![p] = NoPay]
                ELSE [pay EXCEPT ![p].at = "write"]
    /\ UNCHANGED <<appVars, sending, task, brokerVars, ghostVars>>

\* The listener has read the status of o as "0", or timed o out already.
TimingOut(o) ==
    \/ task.at \in {"write", "put"} /\ task.order = o
    \/ o \in timeoutOrderPayMap

SetPaid(p) ==
    /\ pay[p].at = "write"
    /\ payStatus' = [payStatus EXCEPT ![pay[p].order] = "2"]
    /\ onTime' = IF TimingOut(pay[p].order) THEN onTime
                                            ELSE onTime \cup {pay[p].order}
    /\ pay' = [pay EXCEPT ![p] = NoPay]
    /\ UNCHANGED <<timeoutOrderPayMap, sending, task, brokerVars, bought,
                   crashes, reconnects>>

-----------------------------------------------------------------------------
(***************************************************************************)
(* RabbitMQ                                                                *)
(***************************************************************************)

\* x-message-ttl and x-dead-letter-exchange of q.pay
Expire(o) ==
    /\ o \in queue
    /\ queue' = queue \ {o}
    /\ queueDlx' = queueDlx \cup {o}
    /\ UNCHANGED <<appVars, sending, pay, task, unacked, ghostVars>>

\* The connection breaks: what is not acknowledged is delivered again, by the
\* same consumer thread once its present message is done.
Reconnect ==
    /\ reconnects < MaxReconnects
    /\ reconnects' = reconnects + 1
    /\ queueDlx' = queueDlx \cup unacked
    /\ unacked' = {}
    /\ UNCHANGED <<appVars, sending, pay, task, queue, bought, onTime, crashes>>

-----------------------------------------------------------------------------
(***************************************************************************)
(* OrderPayDlxListener.doMessage                                           *)
(***************************************************************************)

\* A message whose order is not in the map is neither handled nor acknowledged.
Deliver(o) ==
    /\ task = NoTask
    /\ o \in queueDlx
    /\ Cardinality(unacked) < Prefetch
    /\ queueDlx' = queueDlx \ {o}
    /\ unacked' = unacked \cup {o}
    /\ task' = IF payStatus[o] = "absent" THEN NoTask
                                          ELSE [at |-> "read", order |-> o]
    /\ UNCHANGED <<appVars, sending, pay, queue, ghostVars>>

\* Fault: an order is timed out whatever its status is.
CheckForgotten ==
    /\ task.at = "read"
    /\ task' = [task EXCEPT !.at = "write"]
    /\ UNCHANGED <<appVars, sending, pay, brokerVars, ghostVars>>

\* Fault: only paid orders are timed out.
CheckInverted ==
    /\ task.at = "read"
    /\ task' = [task EXCEPT !.at =
                    IF payStatus[task.order] # "0" THEN "write" ELSE "ack"]
    /\ UNCHANGED <<appVars, sending, pay, brokerVars, ghostVars>>

CheckStatus ==
    /\ task.at = "read"
    /\ task' = [task EXCEPT !.at =
                    IF payStatus[task.order] = "0" THEN "write" ELSE "ack"]
    /\ UNCHANGED <<appVars, sending, pay, brokerVars, ghostVars>>

SetTimeout ==
    /\ task.at = "write"
    /\ payStatus' = [payStatus EXCEPT ![task.order] = "1"]
    /\ task' = [task EXCEPT !.at = "put"]
    /\ UNCHANGED <<timeoutOrderPayMap, sending, pay, brokerVars, ghostVars>>

\* Fault: the order is not put into timeoutOrderPayMap.
PutForgotten ==
    /\ task.at = "put"
    /\ task' = [task EXCEPT !.at = "ack"]
    /\ UNCHANGED <<appVars, sending, pay, brokerVars, ghostVars>>

PutTimeout ==
    /\ task.at = "put"
    /\ timeoutOrderPayMap' = timeoutOrderPayMap \cup {task.order}
    /\ task' = [task EXCEPT !.at = "ack"]
    /\ UNCHANGED <<payStatus, sending, pay, brokerVars, ghostVars>>

\* On a connection that broke in between, basicAck throws and settles nothing.
Ack ==
    /\ task.at = "ack"
    /\ unacked' = unacked \ {task.order}
    /\ task' = NoTask
    /\ UNCHANGED <<appVars, sending, pay, queue, queueDlx, ghostVars>>

\* The process dies and starts again: both maps are empty, the queues are not.
Crash ==
    /\ crashes < MaxCrashes
    /\ crashes' = crashes + 1
    /\ payStatus' = [o \in Order |-> "absent"]
    /\ timeoutOrderPayMap' = {}
    /\ sending' = {}
    /\ pay' = [p \in Payer |-> NoPay]
    /\ task' = NoTask
    /\ queueDlx' = queueDlx \cup unacked
    /\ unacked' = {}
    /\ onTime' = {}
    /\ UNCHANGED <<queue, bought, reconnects>>

-----------------------------------------------------------------------------
Listen ==
    \/ \E o \in Order : Deliver(o)
    \/ CheckStatus \/ SetTimeout \/ PutTimeout \/ Ack

Next ==
    \/ \E o \in Order : PutOrder(o) \/ Send(o) \/ SendLost(o) \/ Expire(o)
    \/ \E p \in Payer : ReadStatus(p) \/ SetPaid(p)
                            \/ \E o \in Order : FindOrder(p, o)
    \/ Listen
    \/ Reconnect \/ Crash

Spec == Init /\ [][Next]_vars

\* The time-to-live runs out and the listener works off its queue.  The maps
\* are the buyer's: nobody has to pay.
FairSpec == Spec /\ WF_vars(Listen) /\ \A o \in Order : WF_vars(Expire(o))

-----------------------------------------------------------------------------
(***************************************************************************)
(* An order that was paid before the listener looked at it is never timed  *)
(* out, however often its message is delivered.                            *)
(***************************************************************************)
OnTimeStaysPaid ==
    \A o \in onTime : payStatus[o] = "2" /\ o \notin timeoutOrderPayMap

(***************************************************************************)
(* Every order with the status "timed out" is on the list of timed out     *)
(* orders or about to be put there.                                        *)
(***************************************************************************)
TimeoutListed ==
    \A o \in Order : payStatus[o] = "1" =>
        o \in timeoutOrderPayMap \/ (task.at = "put" /\ task.order = o)

(***************************************************************************)
(* buy fills the map before it sends, so until the first crash the         *)
(* listener finds every order and acknowledges every message: between two  *)
(* messages it holds none (OrderPayDlxListener line 21, the return without *)
(* basicAck).                                                              *)
(***************************************************************************)
NothingLeftUnacked == crashes = 0 /\ task = NoTask => unacked = {}

(***************************************************************************)
(* Until the first crash, an order whose message was sent is paid or timed *)
(* out in the end.                                                         *)
(***************************************************************************)
OrderSettles ==
    \A o \in Order :
        o \in queue /\ payStatus[o] = "0"
            ~> (payStatus[o] # "0" \/ crashes > 0)

(***************************************************************************)
(* "2-paid, 1-timed out" (OrderPayDto) and "for unpaid orders that timed   *)
(* out" (OrderPayDlxListener): an order on the list of timed out orders is *)
(* not paid.  pay and doMessage read the status and write it later, so     *)
(* each can overwrite what the other just wrote.                           *)
(***************************************************************************)
TimedOutIsUnpaid ==
    \A o \in timeoutOrderPayMap : payStatus[o] = "1"
=============================================================================
