------------------------------- MODULE Seckill -------------------------------
(***************************************************************************)
(* The flash sale of rocketmq/seckill for one item.  Items share nothing:  *)
(* every Redis key, every row count and the unique key of the order table  *)
(* carry the goods id, so one item is the whole story.                     *)
(*                                                                         *)
(* A request thread reserves a unit in Redis (GoodsServiceImpl) and sends  *)
(* the order to RocketMQ (SecKillController); a consumer thread records it *)
(* in MySQL and sets a key that expires when the time to pay is over       *)
(* (SecKillMQListener); the expiration event cancels the order and puts    *)
(* the unit back (SecKillRedisKeyExpirationListener).  A start of the      *)
(* application copies the MySQL count to Redis (GoodsCache) while requests *)
(* and messages are already being served.  MySQL, Redis and the broker     *)
(* survive a crash of the application; its threads do not.  A call to one  *)
(* of them may also fail and throw.                                        *)
(***************************************************************************)
EXTENDS Integers, FiniteSets

CONSTANTS
    User,           \* buyers
    NoUser,         \* buyer of an order number that is not in use
    Thread,         \* request threads of the web server
    Consumer,       \* threads of the RocketMQ listener container
    OrderId,        \* order numbers IdWorker can give out
    NoOrder,        \* no order
    InitStock,      \* goods.goods_count before the sale
    MaxRequests,    \* bound: purchase requests that get past the rate limit
    MaxRetries,     \* redeliveries before the broker dead-letters a message
    MaxErrors,      \* bound: calls to MySQL and Redis that throw
    MaxCrashes      \* bound: crashes of the application

ASSUME NoneAssumption == NoUser \notin User /\ NoOrder \notin OrderId
ASSUME FiniteAssumption == IsFiniteSet(OrderId) /\ IsFiniteSet(Thread)
ASSUME BoundsAssumption ==
    /\ InitStock \in Nat
    /\ MaxRequests \in Nat
    /\ MaxRetries \in Nat
    /\ MaxErrors \in Nat
    /\ MaxCrashes \in Nat

VARIABLES
    \* MySQL
    goodsCount,     \* goods.goods_count
    orderStatus,    \* order.order_status of each order number, or "none"
    buyer,          \* the user of each order number given out
    \* Redis
    cached,         \* "goods:<id>" exists
    stock,          \* its value
    limitKeys,      \* users u with a live key "user:u goods:<id>"
    payKeys,        \* orders o with a live key "order:o"
    \* RocketMQ
    mq,             \* orders whose message is not acknowledged yet
    retries,        \* failed deliveries of each message
    \* the application
    up,
    loader,         \* GoodsCache.run
    web,            \* SecKillController.buynow, per request thread
    conn,           \* the Redis connection of each request thread
    task,           \* SecKillMQListener.onMessage, per consumer thread
    expiry,         \* SecKillRedisKeyExpirationListener.onMessage, per order
    \* bookkeeping that the code does not keep
    requests, errors, crashes,  \* counters behind the bounds
    leaked,             \* units reserved whose order was never sent
    restored,           \* how often each order gave its unit back to Redis
    stranded            \* recorded orders whose timeout was lost on the way

dbVars == <<goodsCount, orderStatus, buyer>>
stockVars == <<cached, stock>>
keyVars == <<limitKeys, payKeys>>
brokerVars == <<mq, retries>>
ghostVars == <<requests, errors, crashes, leaked, restored, stranded>>
vars == <<dbVars, stockVars, keyVars, brokerVars, up, loader, web, conn, task,
          expiry, ghostVars>>

NoLoad == [at |-> "idle", seen |-> 0]
NoRequest == [at |-> "idle", user |-> NoUser]
NoTask == [at |-> "idle", order |-> NoOrder, seen |-> 0]
NoExpiry == [at |-> "idle", seen |-> 0]

Loader == [at : {"idle", "read", "set"}, seen : Nat]
Request == [at : {"watch", "get", "exec", "send"}, user : User]
Task == [at : {"insert", "update", "key", "ack"}, order : OrderId,
         seen : Nat \ {0}]
Expiry == [at : {"idle", "cancel", "read", "write", "incr"}, seen : Nat]

TypeOK ==
    /\ goodsCount \in Nat
    /\ orderStatus \in [OrderId -> {"none", "created", "cancelled"}]
    /\ buyer \in [OrderId -> User \cup {NoUser}]
    /\ cached \in BOOLEAN
    /\ stock \in Int
    /\ limitKeys \subseteq User
    /\ payKeys \subseteq OrderId
    /\ mq \subseteq OrderId
    /\ retries \in [OrderId -> 0..MaxRetries]
    /\ up \in BOOLEAN
    /\ loader \in Loader
    /\ web \in [Thread -> Request \cup {NoRequest}]
    /\ conn \in [Thread -> {"free", "watching", "dirty"}]
    /\ task \in [Consumer -> Task \cup {NoTask}]
    /\ expiry \in [OrderId -> Expiry]
    /\ requests \in 0..MaxRequests
    /\ errors \in 0..MaxErrors
    /\ crashes \in 0..MaxCrashes
    /\ leaked \in Nat
    /\ restored \in [OrderId -> Nat]
    /\ stranded \subseteq OrderId

Init ==
    /\ goodsCount = InitStock
    /\ orderStatus = [o \in OrderId |-> "none"]
    /\ buyer = [o \in OrderId |-> NoUser]
    /\ cached = FALSE /\ stock = 0
    /\ limitKeys = {} /\ payKeys = {}
    /\ mq = {} /\ retries = [o \in OrderId |-> 0]
    /\ up = FALSE
    /\ loader = NoLoad
    /\ web = [t \in Thread |-> NoRequest]
    /\ conn = [t \in Thread |-> "free"]
    /\ task = [c \in Consumer |-> NoTask]
    /\ expiry = [o \in OrderId |-> NoExpiry]
    /\ requests = 0 /\ errors = 0 /\ crashes = 0 /\ leaked = 0
    /\ restored = [o \in OrderId |-> 0]
    /\ stranded = {}

-----------------------------------------------------------------------------
(***************************************************************************)
(* Start of the application and GoodsCache.run.  An ApplicationRunner runs *)
(* after the context is up, so the web server and both listeners already   *)
(* work between Start, LoadRead and LoadSet.                               *)
(***************************************************************************)

\* Every connection that watches the stock key is marked when it is written.
Touched(w) == IF conn[w] = "watching" THEN "dirty" ELSE conn[w]
TouchStock == conn' = [w \in Thread |-> Touched(w)]

Start ==
    /\ ~up
    /\ up' = TRUE
    /\ loader' = [NoLoad EXCEPT !.at = "read"]
    /\ UNCHANGED <<dbVars, stockVars, keyVars, brokerVars, web, conn, task,
                   expiry, ghostVars>>

LoadRead ==
    /\ loader.at = "read"
    /\ loader' = [at |-> "set", seen |-> goodsCount]
    /\ UNCHANGED <<dbVars, stockVars, keyVars, brokerVars, up, web, conn, task,
                   expiry, ghostVars>>

LoadSet ==
    /\ loader.at = "set"
    /\ cached' = TRUE
    /\ stock' = loader.seen
    /\ TouchStock
    /\ loader' = NoLoad
    /\ UNCHANGED <<dbVars, keyVars, brokerVars, up, web, task, expiry,
                   ghostVars>>

\* Requests whose unit is taken and whose order is not sent.
Reserving == {t \in Thread : web[t].at = "send"}

\* Consumer c has inserted the row of order o and not yet set its key.
Holds(c, o) == task[c].at \in {"update", "key"} /\ task[c].order = o

(***************************************************************************)
(* The process dies: its threads and connections are gone, what MySQL,     *)
(* Redis and the broker hold stays.                                        *)
(***************************************************************************)
Crash ==
    /\ up
    /\ crashes < MaxCrashes
    /\ crashes' = crashes + 1
    /\ up' = FALSE
    /\ loader' = NoLoad
    /\ web' = [t \in Thread |-> NoRequest]
    /\ conn' = [t \in Thread |-> "free"]
    /\ task' = [c \in Consumer |-> NoTask]
    /\ expiry' = [o \in OrderId |-> NoExpiry]
    /\ leaked' = leaked + Cardinality(Reserving)
    /\ stranded' = stranded \cup
            {o \in OrderId : expiry[o].at = "cancel"
                                \/ \E c \in Consumer : Holds(c, o)}
    /\ UNCHANGED <<dbVars, stockVars, keyVars, brokerVars, requests, errors,
                   restored>>

\* A call to MySQL or Redis throws.
CallThrows ==
    /\ errors < MaxErrors
    /\ errors' = errors + 1

-----------------------------------------------------------------------------
(***************************************************************************)
(* SecKillController.buynow and GoodsServiceImpl.checkGoodsCount.          *)
(*                                                                         *)
(* setEnableTransactionSupport(true) binds one Redis connection to each    *)
(* request thread and the template does not give it back, so a WATCH that  *)
(* an early return leaves behind is still pending, with its dirty mark,    *)
(* when the thread serves its next request.                                *)
(***************************************************************************)

Goto(t, at) == web' = [web EXCEPT ![t].at = at]
Respond(t) == web' = [web EXCEPT ![t] = NoRequest]

\* setIfAbsent of the 60 s key; a request it turns away changes nothing.
SetLimit(t, u) ==
    /\ up
    /\ web[t].at = "idle"
    /\ requests < MaxRequests
    /\ u \notin limitKeys
    /\ limitKeys' = limitKeys \cup {u}
    /\ requests' = requests + 1
    /\ web' = [web EXCEPT ![t] = [at |-> "watch", user |-> u]]
    /\ UNCHANGED <<dbVars, stockVars, payKeys, brokerVars, up, loader, conn,
                   task, expiry, errors, crashes, leaked, restored, stranded>>

\* Fault: the stock key is not watched.
WatchForgotten(t) ==
    /\ web[t].at = "watch"
    /\ Goto(t, "get")
    /\ UNCHANGED <<dbVars, stockVars, keyVars, brokerVars, up, loader, conn,
                   task, expiry, ghostVars>>

Watch(t) ==
    /\ web[t].at = "watch"
    /\ conn' = [conn EXCEPT ![t] = IF @ = "free" THEN "watching" ELSE @]
    /\ Goto(t, "get")
    /\ UNCHANGED <<dbVars, stockVars, keyVars, brokerVars, up, loader, task,
                   expiry, ghostVars>>

\* Fault: a request goes on when the last unit is gone.
ReadStockOffByOne(t) ==
    /\ web[t].at = "get"
    /\ IF cached /\ stock >= 0 THEN Goto(t, "exec") ELSE Respond(t)
    /\ UNCHANGED <<dbVars, stockVars, keyVars, brokerVars, up, loader, conn,
                   task, expiry, ghostVars>>

\* GET: with no unit left, or no key, the request returns and does not UNWATCH.
ReadStock(t) ==
    /\ web[t].at = "get"
    /\ IF cached /\ stock > 0 THEN Goto(t, "exec") ELSE Respond(t)
    /\ UNCHANGED <<dbVars, stockVars, keyVars, brokerVars, up, loader, conn,
                   task, expiry, ghostVars>>

\* MULTI, DECR, EXEC: Redis runs the queued DECR only if the key was not
\* written since the connection began to watch; EXEC ends the watch either way.
ExecReserved(t) ==
    /\ web[t].at = "exec"
    /\ conn[t] # "dirty"
    /\ stock' = stock - 1
    /\ conn' = [w \in Thread |-> IF w = t THEN "free" ELSE Touched(w)]
    /\ Goto(t, "send")
    /\ UNCHANGED <<dbVars, cached, keyVars, brokerVars, up, loader, task,
                   expiry, ghostVars>>

ExecDiscarded(t) ==
    /\ web[t].at = "exec"
    /\ conn[t] = "dirty"
    /\ conn' = [conn EXCEPT ![t] = "free"]
    /\ Respond(t)
    /\ UNCHANGED <<dbVars, stockVars, keyVars, brokerVars, up, loader, task,
                   expiry, ghostVars>>

\* WATCH or GET throws: buynow catches it, and nothing ends the watch.
ReserveFails(t) ==
    /\ web[t].at \in {"watch", "get"}
    /\ CallThrows
    /\ Respond(t)
    /\ UNCHANGED <<dbVars, stockVars, keyVars, brokerVars, up, loader, conn,
                   task, expiry, requests, crashes, leaked, restored, stranded>>

\* genOrderInfo and convertAndSend.  A send that times out after the broker
\* stored the message has the same effect and another answer to the buyer.
SendOrder(t, o) ==
    /\ web[t].at = "send"
    /\ buyer[o] = NoUser
    /\ buyer' = [buyer EXCEPT ![o] = web[t].user]
    /\ mq' = mq \cup {o}
    /\ Respond(t)
    /\ UNCHANGED <<goodsCount, orderStatus, stockVars, keyVars, retries, up,
                   loader, conn, task, expiry, ghostVars>>

\* convertAndSend throws: the buyer is told so, the unit stays taken.
SendFails(t) ==
    /\ web[t].at = "send"
    /\ Respond(t)
    /\ leaked' = leaked + 1
    /\ UNCHANGED <<dbVars, stockVars, keyVars, brokerVars, up, loader, conn,
                   task, expiry, requests, errors, crashes, restored, stranded>>

-----------------------------------------------------------------------------
(***************************************************************************)
(* SecKillMQListener.onMessage.  Delivery is at least once: until it is    *)
(* acknowledged a message may be handed to any consumer thread, also while *)
(* another one is still working on it.  Whatever the listener throws, the  *)
(* container asks for redelivery, and the broker gives up after MaxRetries *)
(* of them.                                                                *)
(***************************************************************************)

\* findGoodsById; with no stock in MySQL the message is consumed and dropped.
Deliver(c, o) ==
    /\ up
    /\ task[c] = NoTask
    /\ o \in mq
    /\ IF goodsCount > 0
         THEN /\ task' = [task EXCEPT ![c] =
                    [at |-> "insert", order |-> o, seen |-> goodsCount]]
              /\ UNCHANGED mq
         ELSE /\ mq' = mq \ {o}
              /\ UNCHANGED task
    /\ UNCHANGED <<dbVars, stockVars, keyVars, retries, up, loader, web, conn,
                   expiry, ghostVars>>

Redeliver(o) ==
    IF retries[o] < MaxRetries
      THEN /\ retries' = [retries EXCEPT ![o] = @ + 1]
           /\ UNCHANGED mq
      ELSE /\ mq' = mq \ {o}
           /\ UNCHANGED retries

\* findGoodsById throws.
DeliverFails(c, o) ==
    /\ up
    /\ task[c] = NoTask
    /\ o \in mq
    /\ CallThrows
    /\ Redeliver(o)
    /\ UNCHANGED <<dbVars, stockVars, keyVars, up, loader, web, conn, task,
                   expiry, requests, crashes, leaked, restored, stranded>>

\* The user of order o already has a row: unique key (user_id, goods_id).
HasRow(o) == \E p \in OrderId : orderStatus[p] # "none" /\ buyer[p] = buyer[o]

InsertOrder(c) ==
    /\ task[c].at = "insert"
    /\ ~HasRow(task[c].order)
    /\ orderStatus' = [orderStatus EXCEPT ![task[c].order] = "created"]
    /\ task' = [task EXCEPT ![c].at = "update"]
    /\ UNCHANGED <<goodsCount, buyer, stockVars, keyVars, brokerVars, up,
                   loader, web, conn, expiry, ghostVars>>

\* Fault: a duplicate row is taken for success ("insert ignore").
InsertIgnored(c) ==
    /\ task[c].at = "insert"
    /\ HasRow(task[c].order)
    /\ task' = [task EXCEPT ![c].at = "update"]
    /\ UNCHANGED <<dbVars, stockVars, keyVars, brokerVars, up, loader, web,
                   conn, expiry, ghostVars>>

\* Fault: redelivery without a limit, counted.
InsertRetriedForEver(c) ==
    /\ task[c].at = "insert"
    /\ HasRow(task[c].order)
    /\ task' = [task EXCEPT ![c] = NoTask]
    /\ retries' = [retries EXCEPT ![task[c].order] = @ + 1]
    /\ UNCHANGED <<dbVars, stockVars, keyVars, mq, up, loader, web, conn,
                   expiry, ghostVars>>

\* Fault: redelivery without a limit.
InsertNeverGivenUp(c) ==
    /\ task[c].at = "insert"
    /\ HasRow(task[c].order)
    /\ task' = [task EXCEPT ![c] = NoTask]
    /\ UNCHANGED <<dbVars, stockVars, keyVars, brokerVars, up, loader, web,
                   conn, expiry, ghostVars>>

\* The unique key refuses the row and the insert throws.
InsertRejected(c) ==
    /\ task[c].at = "insert"
    /\ HasRow(task[c].order)
    /\ task' = [task EXCEPT ![c] = NoTask]
    /\ Redeliver(task[c].order)
    /\ UNCHANGED <<dbVars, stockVars, keyVars, up, loader, web, conn, expiry,
                   ghostVars>>

\* Fault: "goods_count > 0".
UpdateToZero(n) == goodsCount' = IF goodsCount > 0 THEN n ELSE goodsCount

\* update goods set goods_count = n where id = ? and goods_count > 1
UpdateGoodsCount(n) == goodsCount' = IF goodsCount > 1 THEN n ELSE goodsCount

\* setGoodsCount(count - 1) with the count that Deliver read.
TakeUnit(c) ==
    /\ task[c].at = "update"
    /\ UpdateGoodsCount(task[c].seen - 1)
    /\ task' = [task EXCEPT ![c].at = "key"]
    /\ UNCHANGED <<orderStatus, buyer, stockVars, keyVars, brokerVars, up,
                   loader, web, conn, expiry, ghostVars>>

\* Fault: the order gets no key that expires.
PayKeyForgotten(c) ==
    /\ task[c].at = "key"
    /\ task' = [task EXCEPT ![c].at = "ack"]
    /\ UNCHANGED <<dbVars, stockVars, keyVars, brokerVars, up, loader, web,
                   conn, expiry, ghostVars>>

SetPayKey(c) ==
    /\ task[c].at = "key"
    /\ payKeys' = payKeys \cup {task[c].order}
    /\ task' = [task EXCEPT ![c].at = "ack"]
    /\ UNCHANGED <<dbVars, stockVars, limitKeys, brokerVars, up, loader, web,
                   conn, expiry, ghostVars>>

Ack(c) ==
    /\ task[c].at = "ack"
    /\ mq' = mq \ {task[c].order}
    /\ task' = [task EXCEPT ![c] = NoTask]
    /\ UNCHANGED <<dbVars, stockVars, keyVars, retries, up, loader, web, conn,
                   expiry, ghostVars>>

\* A call of the listener throws, before or after it took effect (what the next
\* step would have done is then left out).  Past the insert nothing is rolled
\* back: the redelivery meets the unique key and the order never gets its key.
TaskFails(c) ==
    /\ task[c] # NoTask
    /\ CallThrows
    /\ Redeliver(task[c].order)
    /\ stranded' = stranded \cup {o \in OrderId : Holds(c, o)}
    /\ task' = [task EXCEPT ![c] = NoTask]
    /\ UNCHANGED <<dbVars, stockVars, keyVars, up, loader, web, conn, expiry,
                   requests, crashes, leaked, restored>>

-----------------------------------------------------------------------------
(***************************************************************************)
(* Expiring keys and SecKillRedisKeyExpirationListener.onMessage.  Redis   *)
(* publishes an expiration once, to whoever listens: nobody hears it while *)
(* the application is down.  The listener container runs each event in a   *)
(* thread of its own, so tasks of different orders interleave.             *)
(***************************************************************************)

LimitKeyExpires(u) ==
    /\ u \in limitKeys
    /\ limitKeys' = limitKeys \ {u}
    /\ UNCHANGED <<dbVars, stockVars, payKeys, brokerVars, up, loader, web,
                   conn, task, expiry, ghostVars>>

\* Fault: the expiration is delivered again and again.
PayKeyExpiresTwice(o) ==
    /\ o \in payKeys
    /\ expiry' = [expiry EXCEPT ![o].at = IF up THEN "cancel" ELSE @]
    /\ UNCHANGED <<dbVars, stockVars, keyVars, brokerVars, up, loader, web,
                   conn, task, ghostVars>>

PayKeyExpires(o) ==
    /\ o \in payKeys
    /\ payKeys' = payKeys \ {o}
    /\ expiry' = [expiry EXCEPT ![o].at = IF up THEN "cancel" ELSE @]
    /\ stranded' = IF up THEN stranded ELSE stranded \cup {o}
    /\ UNCHANGED <<dbVars, stockVars, limitKeys, brokerVars, up, loader, web,
                   conn, task, requests, errors, crashes, leaked, restored>>

\* findOrderByOrderId, and updateOrderStatus(id, 2) whatever the status was.
CancelOrder(o) ==
    /\ expiry[o].at = "cancel"
    /\ IF orderStatus[o] = "none"
         THEN /\ expiry' = [expiry EXCEPT ![o] = NoExpiry]
              /\ UNCHANGED orderStatus
         ELSE /\ expiry' = [expiry EXCEPT ![o].at = "read"]
              /\ orderStatus' = [orderStatus EXCEPT ![o] = "cancelled"]
    /\ UNCHANGED <<goodsCount, buyer, stockVars, keyVars, brokerVars, up,
                   loader, web, conn, task, ghostVars>>

ReadGoods(o) ==
    /\ expiry[o].at = "read"
    /\ expiry' = [expiry EXCEPT ![o] = [at |-> "write", seen |-> goodsCount]]
    /\ UNCHANGED <<dbVars, stockVars, keyVars, brokerVars, up, loader, web,
                   conn, task, ghostVars>>

ReturnUnit(o) ==
    /\ expiry[o].at = "write"
    /\ UpdateGoodsCount(expiry[o].seen + 1)
    /\ expiry' = [expiry EXCEPT ![o].at = "incr"]
    /\ UNCHANGED <<orderStatus, buyer, stockVars, keyVars, brokerVars, up,
                   loader, web, conn, task, ghostVars>>

\* INCR creates a missing key with the value 1.
IncrStock(o) ==
    /\ expiry[o].at = "incr"
    /\ cached' = TRUE
    /\ stock' = IF cached THEN stock + 1 ELSE 1
    /\ TouchStock
    /\ restored' = [restored EXCEPT ![o] = @ + 1]
    /\ expiry' = [expiry EXCEPT ![o] = NoExpiry]
    /\ UNCHANGED <<dbVars, keyVars, brokerVars, up, loader, web, task, requests,
                   errors, crashes, leaked, stranded>>

\* A call of the listener throws.  The event is not published again: what the
\* task had still to do is never done.
ExpiryFails(o) ==
    /\ expiry[o].at # "idle"
    /\ CallThrows
    /\ stranded' = IF expiry[o].at = "cancel" THEN stranded \cup {o} ELSE stranded
    /\ expiry' = [expiry EXCEPT ![o] = NoExpiry]
    /\ UNCHANGED <<dbVars, stockVars, keyVars, brokerVars, up, loader, web, conn,
                   task, requests, crashes, leaked, restored>>

-----------------------------------------------------------------------------
RequestStep(t) ==
    \/ Watch(t) \/ ReadStock(t) \/ ExecReserved(t) \/ ExecDiscarded(t)
    \/ \E o \in OrderId : SendOrder(t, o)
    \/ ReserveFails(t) \/ SendFails(t)

ConsumerStep(c) ==
    \/ InsertOrder(c) \/ InsertRejected(c) \/ TakeUnit(c) \/ SetPayKey(c)
    \/ Ack(c)

ExpiryStep(o) ==
    \/ PayKeyExpires(o) \/ CancelOrder(o) \/ ReadGoods(o) \/ ReturnUnit(o)
    \/ IncrStock(o)

Next ==
    \/ Start \/ LoadRead \/ LoadSet \/ Crash
    \/ \E t \in Thread : RequestStep(t) \/ \E u \in User : SetLimit(t, u)
    \/ \E c \in Consumer :
        \/ ConsumerStep(c) \/ TaskFails(c)
        \/ \E o \in OrderId : Deliver(c, o) \/ DeliverFails(c, o)
    \/ \E u \in User : LimitKeyExpires(u)
    \/ \E o \in OrderId : ExpiryStep(o) \/ ExpiryFails(o)

Spec == Init /\ [][Next]_vars

(***************************************************************************)
(* A started thread keeps running while the process lives, an unfinished   *)
(* message is delivered again, a time-to-live runs out and an operator     *)
(* starts the application again.  Nobody has to buy, and nothing has to    *)
(* throw or to crash.                                                      *)
(***************************************************************************)
Fairness ==
    /\ WF_vars(Start)
    /\ \A c \in Consumer : WF_vars(ConsumerStep(c))
    /\ \A o \in OrderId : WF_vars(\E c \in Consumer : Deliver(c, o))
    /\ \A o \in OrderId : WF_vars(ExpiryStep(o))

FairSpec == Spec /\ Fairness

-----------------------------------------------------------------------------
Issued == {o \in OrderId : buyer[o] # NoUser}
Recorded == {o \in OrderId : orderStatus[o] # "none"}
Live == {o \in OrderId : orderStatus[o] = "created"}
Restored == {o \in OrderId : restored[o] > 0}

\* Units that Redis gave out and did not get back.
Held == Cardinality(Reserving) + leaked + Cardinality(Issued)
            - Cardinality(Restored)

(***************************************************************************)
(* The counter in Redis never goes below zero, however requests,           *)
(* cancellations and loads interleave between GET and EXEC                 *)
(* (GoodsServiceImpl.checkGoodsCount).                                     *)
(***************************************************************************)
StockNeverNegative == stock >= 0

(***************************************************************************)
(* Until the first crash every unit is accounted for: it is in Redis, in a *)
(* request between EXEC and the send, lost to a failed send, or in an      *)
(* order that has not given it back (SecKillController.buynow with         *)
(* SecKillRedisKeyExpirationListener.onMessage).                           *)
(***************************************************************************)
UnitsAccounted ==
    crashes = 0 /\ cached => stock + Held = InitStock

(***************************************************************************)
(* Until the first crash no more orders await payment than there were      *)
(* goods: the sale does not oversell.  (After a crash GoodsCache.run loads *)
(* the MySQL count, which does not know the messages still in the broker.) *)
(***************************************************************************)
NoOversell == crashes = 0 => Cardinality(Live) <= InitStock

(***************************************************************************)
(* MySQL's count never falls by more than the number of orders on record,  *)
(* although consumers and expiration tasks write back counts they read     *)
(* earlier and messages are delivered more than once                       *)
(* (SecKillMQListener.onMessage).                                          *)
(***************************************************************************)
DbNeverOverdrawn == InitStock - goodsCount <= Cardinality(Recorded)

(***************************************************************************)
(* "and goods_count > 1" in GoodsMapper.xml keeps the last unit in MySQL   *)
(* for ever, so the sold-out test of SecKillMQListener.onMessage never     *)
(* stops an order of an item that had stock: Redis is the only gate.       *)
(***************************************************************************)
NeverSoldOutInDb == InitStock > 0 => goodsCount > 0

(***************************************************************************)
(* An order gives its unit back at most once and only when it is           *)
(* cancelled, whatever is redelivered or crashes in between                *)
(* (SecKillRedisKeyExpirationListener.onMessage, line 57).                 *)
(***************************************************************************)
RestoredAtMostOnce ==
    \A o \in OrderId :
        /\ restored[o] <= 1
        /\ restored[o] = 1 => orderStatus[o] = "cancelled"

Gate == INSTANCE StockGate WITH
            held <- Held,
            loading <- loader.at = "set"

(***************************************************************************)
(* WATCH, GET, MULTI, DECR, EXEC are an atomic conditional decrement; only *)
(* a unit that was sold and not given back yet is put back; and the value  *)
(* in Redis jumps only at the write that ends GoodsCache.run.              *)
(***************************************************************************)
GateSpec == Gate!Spec

(***************************************************************************)
(* An order that awaits payment is on its way to be cancelled: a consumer  *)
(* is about to set its key, the key lives, or the expiration is being      *)
(* handled.  Otherwise, and only otherwise, it is stranded: no redelivery  *)
(* and no restart puts a stranded order on its way again                   *)
(* (SecKillMQListener lines 41-46, SecKillRedisKeyExpirationListener).     *)
(***************************************************************************)
OnItsWay(o) ==
    \/ o \in payKeys
    \/ expiry[o].at = "cancel"
    \/ \E c \in Consumer : Holds(c, o)

TimedOrStranded == \A o \in Live : o \in stranded <=> ~OnItsWay(o)

(***************************************************************************)
(* An unpaid order is cancelled in the end unless it is stranded: a call   *)
(* threw between its row and its key or before the expiration changed its  *)
(* status, the application crashed there, or the key expired while it was  *)
(* down (SecKillMQListener, SecKillRedisKeyExpirationListener).            *)
(***************************************************************************)
OrdersTimeOut ==
    \A o \in OrderId :
        orderStatus[o] = "created" ~>
            (orderStatus[o] = "cancelled" \/ o \in stranded)

(***************************************************************************)
(* A message the broker accepted is recorded or dead-lettered in the end,  *)
(* crashes included.                                                       *)
(***************************************************************************)
MessagesSettle == \A o \in OrderId : o \in mq ~> o \notin mq
=============================================================================
