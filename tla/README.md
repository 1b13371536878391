# Specifications for the lagou repository

The repository is a collection of some twenty-five independent Java projects.
Most of them are thin clients of an external store; about ten keep state that
several threads, messages or timers change. This directory holds TLA+ modules
for those, TLC configurations that check them on small instances, and TLAPS
proofs of what matters most for instances of every size.

Paths below are relative to `src/`. Java packages are cut to the class name.

## 1. Inventory

### Modelled

| Component | State | Operations | What is hard |
|---|---|---|---|
| **Flash sale** `rocketmq/seckill` | MySQL: `goods.goods_count`, one `order` row per (user, item). Redis: stock counter `goods:<id>`, 60 s key per (user, item), 30 s key per order. RocketMQ: orders not acknowledged. In the process: the Redis connection bound to each request thread. | `buynow` = `checkGoodsCount` (SETNX, WATCH, GET, MULTI/DECR/EXEC) then send; `SecKillMQListener.onMessage` (insert, count, key); expiration event (cancel, count, INCR); `GoodsCache.run` at start | Several round trips with other writers in between, stale counts written back, redelivery, expirations nobody hears, a load while requests are served, crashes |
| **Order numbers** `IdWorker` (in the flash sale and in the RabbitMQ project) | `lastTimestamp`, `sequence` | `nextId` (synchronized), `tilNextMillis` | Sequence used up within a millisecond, clock set back, restart, several processes |
| **Orders with a time to pay** `rabbitmq/rabbitmq_springboot` | `orderPayMap`, `timeoutOrderPayMap` (in memory), queues `q.pay` (10 s) and `q.pay.dlx` | `buy`, `pay`, `OrderPayDlxListener.doMessage` with manual acknowledgement | The status is read and written later by two threads; memory and queues do not survive alike |
| **Bank transfer** `spring/lagou-transfer` | table `account`, one connection per thread (`ThreadLocal`), Druid pool | `TransferServlet.doPost` → `ProxyFactory` → `TransferServiceImpl.transfer` | Stale reads, one of two updates failing, deadlock, connections that never go back |
| **RPC with discovery** `zookeeper/zdy_rpc` | per server a `ClientHandler` with `para`, `result` and `context`; `clientHandlerMap` and `clientHandlerMapBak`; `zkClientUtil`; ephemeral nodes under `/rpcServer` | `RpcConsumer.invoke`, `initClient`, `connect`; `ClientHandler.call`, `channelRead`; `handleChildChange`; `RpcDecoder.decode`; `ServerHandler.channelRead`; servers that start, stop or lose their session | A request field and a result field shared by all callers of a server, `wait` without a timeout, a bounded executor, maps rebuilt while callers read them, a client half set up |
| **Rate limit** `MethodIpPercent`, `IpMonitorFilter` of `springcloudali` | a ring of slots, each a counter and the time of its last increment | `isLimited` (`count` of every slot), `increment` | No common lock: check and increment apart, a slot reset by whoever comes first, a time written last by a slow thread |
| **Minicat** `tomcat/Minicat` | thread pool with a bounded queue, one `RequestProcessor` per socket, bytes of the socket | accept loop of `Bootstrap.start`, `RequestProcessor.run`, `Request` | The processor is started as a thread *and* given to the pool; one busy-waits for bytes, the other may take them; rejection ends the loop |
| **Position cache** `GuavaCache/guava-cache` | Guava cache, Redis list `hot-position`, table `position` | `index`, `flushCache`, `clearRedis`, `clearGuava`, `clearCache` of `PositionController` | Fill, flush and clear from several threads, Redis errors swallowed |

How they interact: the flash sale takes its order numbers from `IdWorker`
(`OrderServiceImpl.genOrderInfo`), as does `OrderController.buy`; both use the
numbers only as names, so `Seckill` and `OrderPay` take order numbers from a
set and `IdWorker` says when numbers are distinct. The projects are otherwise
separate programs. Within the flash sale all interaction goes through Redis,
MySQL, RocketMQ and key expiration, which is why one module holds all of it.

### Not modelled

- **Accounts, tokens, codes** (`springcloud`, `springcloudali`): registration is one
  check-then-act (`UserController` line 42) on tables whose keys are not in the
  repository; what a second registration does is decided there.
- **`IpFilter`** (the earlier gateway's limit): a map entry per client, removed by a
  timer of its own request. Nothing bounds the delay of the timer, so there is no
  limit that holds. `TokenFilter` decides per request and keeps nothing.
- **`TPMonitorFilter`**: an index past the end of a list of up to nine samples, and a
  `HashMap` changed while it is iterated over. Both are properties of library
  classes that can be read off the code; there is no protocol around them.
- **RPC without discovery** (`zdy_rpc`): the same handler with one fixed server;
  its steps are those of `RpcClient` from `TakeHandler` to `Return`.
- **Bean factory, MVC framework, IPersistence**: sequential start-up in one thread,
  then stateless dispatch.
- **Algorithm exercises, `GenericTokenParser`**: pure functions of a few lines on
  numbers and strings.
- **Elasticsearch, MongoDB, Neo4j, Solr, OSS, Redis Cluster, Sharding-JDBC, the
  ZooKeeper data source, session logins, the Spring Boot blog**: thin clients; the
  state, and what is hard about it, is in the store or the library.
- **`deadLockDemo`**: 44 lines that deadlock on purpose.
- **Scripts and style sheets**: the large JavaScript files (`amazeui.js`, `mditor.js`,
  `vuejs`, `bootstrap.js`, jQuery plug-ins, the glue of the page templates) are copies
  of libraries for the pages and carry none of the programs' logic. By lines they are
  most of the repository; none of the modules is about them.
- **Kubernetes, Docker, Kafka and Hadoop material**: configuration and notes.

`PROJECT.json` lists each with its sources, and hazards that no property covers with
the reason.

## 2. Modules

| Module | Models | Extends / instantiates |
|---|---|---|
| `Seckill` | the flash sale, one item | `Gate == INSTANCE StockGate` |
| `StockGate` | abstract: an atomic stock counter | |
| `SeckillProofs` | theorems about `Seckill` | `Seckill`, `TLAPS` |
| `IdWorker`, `IdWorkerProofs` | order numbers | |
| `OrderPay`, `OrderPayProofs` | orders with a time to pay | |
| `Transfer` | the bank transfer | `L == INSTANCE Ledger` |
| `Ledger` | abstract: atomic posting of two amounts | |
| `TransferProofs` | theorems about `Transfer` | `Transfer`, `TLAPS` |
| `RpcClient` | RPC with discovery, its decoder included | `Remote == INSTANCE RemoteCall` |
| `RemoteCall` | abstract: what the proxy promises of a call | |
| `RpcClientProofs` | theorems about `RpcClient` | `RpcClient`, `TLAPS` |
| `RateWindow`, `RateWindowProofs` | the rate limit's ring of seconds | |
| `Minicat`, `MinicatProofs` | accept loop, pool and processors | |
| `PositionCache` | the two-level cache | |
| `MC*` | instances for TLC | the module of the same name |

In each module one action is one step that other threads can see: a Redis
command, an SQL statement, a message, one read or write of a shared field. A
thread's local variables are a record (`web[t]`, `task[c]`, `tx[t]`, ...) whose
field `at` names what it does next. Operators whose comment begins with
"Fault:" are not part of any specification: each is a plausible bug of the
action it stands next to, and puts to the test that some property notices it.

### Seckill

| Code | Actions |
|---|---|
| `SeckillApplication.main`, `GoodsCache.run` | `Start`, `LoadRead`, `LoadSet` |
| `GoodsServiceImpl.checkGoodsCount` | `SetLimit`, `Watch`, `ReadStock`, `ExecReserved`, `ExecDiscarded`, `ReserveFails` |
| `SecKillController.buynow` | the above, then `SendOrder` or `SendFails` |
| `SecKillMQListener.onMessage` | `Deliver`, `InsertOrder` or `InsertRejected`, `TakeUnit`, `SetPayKey`, `Ack`; `DeliverFails`, `TaskFails` |
| `SecKillRedisKeyExpirationListener.onMessage` | `PayKeyExpires`, `CancelOrder`, `ReadGoods`, `ReturnUnit`, `IncrStock`; `ExpiryFails` |
| Redis (60 s key), the JVM | `LimitKeyExpires`, `Crash` |

- One item: every key, count and unique key carries the goods id.
- `conn[t]` is what Redis knows of the connection of thread `t`: free, watching,
  or dirty (the watched key was written). `setEnableTransactionSupport(true)`
  binds the connection to the thread, so a WATCH left behind by an early return
  outlives the request. `EXEC` on a dirty connection does nothing.
- `InsertRejected` is the unique key `(user_id, goods_id)`. The broker delivers
  again `MaxRetries` times and then dead-letters.
- Any call of Redis, MySQL or the broker may throw (`CallThrows`, at most `MaxErrors`
  times). `buynow` catches it. What `onMessage` throws makes the broker deliver again:
  after the insert that meets the unique key, and the order never gets its key. What the
  expiration throws is lost, as the event is published once. A call that throws may have
  taken effect: that is the failure before the next step. `stranded` collects the recorded orders
  whose time to pay was lost on the way, by an exception, by a crash or because nobody
  heard the event. Not modelled: an exception between `MULTI` and `EXEC`, which leaves
  the thread's connection inside a transaction; a `GoodsCache.run` that throws ends the
  start, which is a `Crash` before `LoadSet`.
- `UpdateGoodsCount` keeps the `goods_count > 1` of the mapper: the last unit is
  never written off in MySQL.
- Nothing in the code marks an order as paid, so every recorded order is
  cancelled when its key expires. The answer of `buynow` promises 30 minutes
  (`SecKillController.java:62`), the key lives 30 seconds
  (`SecKillMQListener.java:45-46`); the model has no clock and does not depend
  on either.
- A request that the 60 s key turns away, and the index page, change nothing and
  have no action. One running instance of the application is assumed: two would
  both hear every expiration.

### IdWorker

`nextId` is synchronized, so a call is one step except where it waits.
`NewMillis`, `SameMillis` and `Exhausted` are its three branches, the call that
throws changes nothing and has no action, and `TilNextMillis` is the end of the
loop that polls the clock inside the monitor. `Tick` and `SetBack` are the host's
clock, `Restart` is a new bean with `lastTimestamp = -1`; a start of the JVM takes
longer than a millisecond, so `Restart` advances the clock. `Id` packs time, node
and sequence with multiplications; the fields do not overlap, so the `|` of the
code adds them. The width of the 41-bit time field is not modelled.

### OrderPay

`PutOrder`, `Send` (or `SendLost`) are `buy`; `FindOrder`, `ReadStatus`, `SetPaid`
are `pay`; `Deliver`, `CheckStatus`, `SetTimeout`, `PutTimeout`, `Ack` are
`doMessage`; `Expire` is the dead-lettering of `q.pay`; `Reconnect` and `Crash` are
what the code must survive. The maps are `ConcurrentHashMap`s and their single
operations atomic; the status is a plain field of the shared object. `onTime`
records the orders that were paid while the listener was not timing them out.

### Transfer

`Request` is `TransferServlet.doPost`, `Begin` is `beginTransaction` (which takes a
connection the first time), `Query` is both `select`s and both `setMoney`, then
`UpdateTo`, `UpdateFrom`, `Commit`; `WaitFails` and `StatementFails` lead to
`Rollback`. The two `select`s are one step because InnoDB's default isolation
answers both from the snapshot of the first. An update locks the row until the
transaction ends and writes over the latest committed amount, which is how
updates get lost. Row locks assume an index on `cardNo`; the schema is not in the
repository. Left out: int overflow, a connection that breaks for good, and an
error of `commit` itself.

### RpcClient

| Code | Actions |
|---|---|
| `RpcConsumer.invoke` | `Invoke`, `ChooseServer` or `ChooseFails`, `TakeHandler` or `NoHandler`, `Return` |
| `RpcConsumer.initClient` | `CreateZkClient` or `NoServerList`, `InitConnect` or `InitConnectFails`, `InitClearsBak`, `InitFillsBak`, `Subscribe` |
| `ClientHandler.call` | `Send`, `SendFails` |
| `ClientHandler.channelActive`, `channelRead` | `ChannelActive`, `ChannelRead` |
| `handleChildChange` | `ListenerStarts`; for each child `ListenerLooks`, `ListenerReuses`, `ListenerConnects` or `ListenerFails`; `ListenerTurns`; for each entry of the backup `ListenerKeeps`, or `ListenerDrops` with `ListenerCloses` or `ListenerFailsToClose`, or `ListenerTorn`; `ListenerClearsBak`, `ListenerEnds` |
| `ServerHandler.channelRead`, `RpcDecoder.decode` on the server | `Answer`, `Misread` |
| `MyServerBootstrap.startServer`, the process, its ZooKeeper session | `ServerStarts`, `ServerStartsEarly`, `ServerStops`, `SessionEnds` |

- `call[c]` is a call of the proxy; its `conn` is the `ClientHandler` it holds, so
  `Users(k)` are the calls that share handler `k`. `para` is the handler's request
  field. `result` is the *set* of calls whose answers the string contains, because
  `StringDecoder` has no frames and several answers can arrive as one message.
- `call` holds the monitor from the write to the `wait`, so `Send` is one step.
- `listener[c]` is the child listener of the client that caller `c` created. Two
  callers that both see `zkClientUtil` null make two clients, with two listeners on
  the same static maps. One operation of a map (`clear`, `put`, `containsKey`, `putAll`)
  is one step, so the two listeners and the callers interleave between any two of them.
- `ListenerTorn` is the iterator of the backup that throws
  `ConcurrentModificationException`. It may happen at any entry while there are two
  clients, and may not happen at all: whether the iterator notices is not modelled.
- `zkBase` is whether `/rpcServer` exists; the first server ever makes it
  (`registeEphemeralServer`). Without it `getServerList` throws `ZkNoNodeException` after the
  field `zkClientUtil` was set: `NoServerList`.
- `faults` and `spoilt` record what has happened to the client and to a connection;
  the properties name with them exactly which misfortune they exclude.
- Creating the `ZkClient` and reading the children is one step, as is the choice by
  response time, which is left open, and as are `connect` and the `put` of its handler.
  ZooKeeper is reachable, and services do not throw. A frame that lacks more than a few
  bytes makes `decode` throw and is read again when the rest is there; `Misread`
  is the other case. Handlers that nobody refers to may be used again, so a finite
  `Conn` stands for any number of connections; that such handlers are never closed
  has no effect a caller could see.

### RateWindow

`Arrive`, `Count` (once per slot) and `Limited` or `Stamp` are `IpMonitorFilter.filter`
with `isLimited`; `Stamp`, `Check`, `Reset`, `Add`, `WriteTime` are `increment`, from the
reading of the clock to the last write. The ring is shared by all clients and paths, as
in the code, whose counters take the method name and do not use it. `Recent` is the fixed ten
seconds of `count`, whatever `calculateTimeWindow` is. `MaxDelay` bounds how long an
`increment` may take after it has read the clock: less than a round of the ring, which with
the code's ten slots is nine seconds. Without it a thread that slept for
a whole round would write into a slot of another second. `admitted` is a history
variable.

### Minicat

`Send` and `GiveUp` are the clients, `Accept`, `ExecuteOnNewWorker`, `ExecuteLater` and
`Reject` the loop of `Bootstrap.start` with the three outcomes of `execute`, `WorkerTakes`
and `WorkerLeaves` the pool. `run[s].own` and `run[s].pool` are the two runs of one
processor. `SeeInput` is the end of the busy loop on `available`, `Read` takes what is there
up to that count (the other run may have been faster), and `Serve`, `Close`,
`ServeNothing`, `ServeFails`, `SeeClosed`, `ReadEnd` are the ways on. `ServeFails` is the
servlet or the output that throws, before or after it wrote: `run` swallows the exception,
the socket stays open, and the run ends as `Failed`. Whoever touches a socket already closed
or a client that is gone ends the same way without an answer (`ServeNothing`).
What the clients send is chosen at the start from `Kinds`: a request that is one part
(`"good"`), one torn in two within the lines that are parsed, one for an unknown host or context
or without a third part in its path (`"unknown"`), one for an empty static file, for which
`outputStaticResource` spins (`Sendable`), or nothing.
Start-up ends before the first `Accept`.

### PositionCache

`FindPositionFromGuavaCache`, `FindPositionFromRedis` and `FlushGuava` are the index page;
`StartFlush`, `Query`, `Put`, `Lpush` are `flushCache`, row by row; `ClearRedis` and
`ClearGuava` the clearing pages. `LrangeFails` and `LpushFails` are the exceptions that
`RedisClientTemplate` logs. A row is its id and a version.

## 3. Runs

All bounds are constants of the modules, named `Max...`.

| Run | Instance | Checks |
|---|---|---|
| `seckill_gate` | 2 users, 2 request threads, 2 consumers, 3 order numbers, 1 unit, 3 requests, 1 redelivery, 1 call that throws, 1 crash; symmetry | `TypeOK`, `StockNeverNegative`, `UnitsAccounted`, `NoOversell`, `RestoredAtMostOnce`, `TimedOrStranded`, `NeverSoldOutInDb`, refinement `GateSpec` |
| `seckill_orders` | 2 users, 1 thread, 1 consumer, 2 orders, 3 units, 1 redelivery, 1 call that throws, 1 crash; fair, no symmetry | `DbNeverOverdrawn`, liveness `OrdersTimeOut`, `MessagesSettle` |
| `idworker` | 2 processes with different nodes, 2 sequence numbers per millisecond, 3 milliseconds, 1 set-back and 4 numbers each | `TypeOK`, `IncreasingInLife`, `IncreasingOnGoodClock`, `NodesDisjoint`, liveness `WaitEnds` |
| `order_pay` | 2 orders, 2 payers, prefetch 1, 1 crash, 1 broken connection | `OnTimeStaysPaid`, `TimeoutListed`, `NothingLeftUnacked`, liveness `OrderSettles` |
| `order_pay_race` | 1 order, 1 payer | `TimedOutIsUnpaid` is **violated** (section 5) |
| `transfer` | 2 threads, 2 accounts and 1 unknown card, 3 transfers, 1 failing statement, 1 crash | `IdleHoldsNothing`, `MoneyMoves`, refinement `LedgerSpec`, liveness `TransfersEnd` |
| `transfer_pool` | 2 threads, 1 connection | `ThreadGetsConnection` is **violated** (section 5) |
| `rpc_calls` | 2 callers, 2 calls each and 3 together, 1 server that may stop, start or lose its session once, 3 handlers, 2 executor threads; fair | `NoLostWakeup`, `OwnAnswer`, refinement `RemoteCallSpec`, liveness `CallsEnd` |
| `rpc_map` | 1 caller, 2 calls, 2 servers, 4 changes among them, 5 handlers | `MapFollowsZooKeeper`, `ListedIsOpen` |
| `rate_window` | 2 threads, a ring of 3 slots of 2 ticks each, limit 2, two rounds and more of the ring; symmetry | `TypeOK`, `SlotHoldsItsSecond`, `RateBound`, action property `LimitedForReason` |
| `minicat` | 4 sockets: a good request, one that is torn, unknown or for an empty file, two silent clients; pool of 1 to 2 workers, queue of 1; fair | `TypeOK`, `AnsweredOnce`, liveness `WholeRequestsServed`, `RunsEnd` |
| `position_cache` | 2 requests, 2 positions, 2 versions | `RefreshedRedis` is **violated** (section 5) |

What some of the properties say, and what they leave out on purpose:

- `TimedOrStranded`: an order that awaits payment is carried towards its cancellation by a
  consumer, a key or an expiration task, *or* it is stranded, never both and never neither; so
  nothing puts a stranded order on its way again. `OrdersTimeOut` is the liveness of the rest.
  Neither says that no order is stranded: that does happen (section 5).
- `GateSpec` allows that a request is turned away, so a discard by a WATCH that an earlier request
  left behind is a step that changes nothing, and it allows the jump of the counter at a start.

- `NoLostWakeup`: on a connection that is in step, as many callers wait as requests and
  answers are under way. It excludes merged answers, of which one `notify` wakes one
  caller. `OwnAnswer` excludes handlers that were ever shared: there the second request
  may be sent twice and the first never.
- `RemoteCallSpec`: on a handler of its own a call is sent, served and answered once and in
  this order; what throws was never sent, and what was lost with its connection, or by the
  decoder, never comes back, not even to the call that uses the handler next. `Phase` reads
  where a call is off the handler's fields and streams; a call that shares its handler is in
  phase `"shared"`, from which nothing is promised but that it may end. A handler whose
  fields fit no phase would make `Phase` the value `"wrong"`, which `RemoteCall` never reaches.
- `MapFollowsZooKeeper` is about one client that is done with its events; it excludes a
  connection that failed during the last rebuild, a change between `getServerList` and
  `subscribeChildChanges`, which nobody is told, and a client made before `/rpcServer` was. What
  callers see while the map is rebuilt is not its subject.
- `ListedIsOpen` is about one client too, and excludes a `close` on a handler whose
  `channelActive` has not run, after which the backup is out of date. With two clients it
  does not hold (section 5).
- `CallsEnd` lists in `CutOff` every cause that makes a call wait for ever: the connection
  went down, it lost step, its handler was shared, or the executor is full of such calls. An
  exception is an end of the call.
- `RateBound` is about calendar seconds: in as many of them as the ring has slots, the
  limit is exceeded by at most one request for every other thread. Any ten seconds that
  begin within a second can hold more than that, since a slot counts as recent by its last
  increment.
- `WholeRequestsServed` holds although the pool is full or has rejected the processor,
  because the processor is also a thread of its own. It excludes a client that gives up and a
  request whose own service threw (`Failed`); a request for an empty file is none of those
  it speaks of, but may hold workers while others are served. A torn request may be
  answered by nobody: each run takes a part. `RunsEnd` allows a second run that waits in the
  queue behind workers that spin on silent clients or empty files.

Why the bounds are enough:

- `seckill_gate`: one unit and two buyers make every sale a competition for the
  last unit, and MySQL's guarded count starts at its boundary; three requests let
  one buyer come back after the 60 s key is gone and run into the unique key; two
  threads let a stale WATCH of one meet the EXEC of the other; two consumers handle
  one message at the same time; the crash reloads the counter while a message is in
  the broker; one call that throws is enough to strand an order.
- `seckill_orders`: three units keep MySQL's count above one long enough for the
  guarded update to be taken and to be refused at one. One consumer is enough for interleaving
  with two expirations; two make the liveness check too large.
- `idworker`: a sequence of two wraps after the second number of a millisecond.
- `order_pay`: prefetch 1 makes a message that is not acknowledged block the
  listener at once.
- `rpc_calls`: two callers share a handler or use it one after the other; one change is
  enough for a connection to be lost, for an event while `initClient` runs and for a
  listener that rebuilds the map under a caller; the second call meets what the first left. Three
  calls in all leave one caller a second call beside the other's first. With two callers there are
  also two clients with two listeners; their rebuilds need no second server to interleave.
  `rpc_map`: two servers let one be dropped while another is added, four changes let a
  server leave, come back and fail within one rebuild.
- `rate_window`: two rounds of the ring make every slot be reset, three slots let a count
  see recent, half-recent and old ones, two threads race for the reset and for the limit.
- `minicat`: two silent clients keep both workers busy and the queue full, so that every
  outcome of `execute` occurs, rejection included.
- `transfer`: two transfers in opposite directions deadlock, a third one follows a
  failed one on the same connection.

Deadlock checking is off because every instance stops at its bounds. Symmetry is
used only in `seckill_gate` (users, threads, consumers, orders) and `rate_window`
(threads): the values are only compared for equality there and no liveness is checked.

### Fairness

- `Seckill`: a started consumer or expiration thread runs on while the process
  lives, RocketMQ delivers again what is not acknowledged, Redis expires keys, and
  somebody starts the application again. No fairness for requests (nobody has to
  buy) nor for crashes.
- `IdWorker`: the clock goes on and the polling thread sees it. The clock may also
  be set back, a bounded number of times.
- `OrderPay`: the time to live runs out and the listener's thread runs. Nobody has
  to pay.
- `Transfer`: a servlet thread runs on, and InnoDB fails a statement that waits too
  long. No fairness for requests, failures and crashes.
- `RpcClient`: threads of a call run on, the event loop of a connection reads what is
  there, a server answers what it was asked. Nobody has to call, nothing has to fail.
- `Minicat`: the accept loop, the workers of the pool and both runs go on. Clients need not
  send what they began.
- `RateWindow`, `PositionCache`: none; only safety is checked.

## 4. Proofs

Proved with TLAPS for every value of the constants, from the named assumptions of
each module (finite sets, bounds are natural numbers, "no such" values outside
their sets; `NodeId` within its range; amounts are integers; `MaxDelay` shorter than a
round of the ring, and the ring no longer than the time span `count()` looks back, both ten
seconds in the code; a core pool of at least one worker and no larger than the maximum).

**`SeckillProofs`**: type correctness; `StockSafe`, `RestoreSafe`, `DbSafe`,
`LastUnitStays`, `StrandSafe`, `AccountSafe`, `NoOversellSafe`; `GateRefinement`. None of the
invariants is inductive. `SeckillInv` is, and has these parts besides the types:

- `GateInv`: a thread between GET and EXEC whose connection is still clean knows
  that the counter exists and is positive. That is what makes the blind `DECR`
  safe, and it holds because every write of the counter dirties every watching
  connection.
- `LifeInv`: an order number is only issued once the counter exists, and whatever
  is recorded, in the broker or in a consumer's hands has been issued.
- `TokenInv`: at most one of "a task is between insert and key", "a key lives",
  "an expiration task runs" and "the unit was given back" is true of an order, and
  only recorded orders have any. The unique key gives out this token once;
  from it follows that no unit is given back twice.
- `StrandInv`: `TimedOrStranded`, and only recorded orders are stranded. It rests on the
  token: what strands an order spends it, and it cannot be taken again.
- `FirstRunInv`: until the first crash the load that is under way read the initial
  count, and units are conserved.
- `DbInv`, for `DbSafe`: the two properties of MySQL's count, and that a count read
  earlier by a consumer or an expiration is still within their bound when it is
  written.

`UnitsAccounted` needs cardinalities; the `Held...` lemmas say how each step
changes the number of units that are out.

**`IdWorkerProofs`**: `LifeInv` (numbers of this life increase and none is above
what the present `lastTimestamp` and `sequence` encode), `ClockInv` (while the clock
was never set back, `lastTimestamp` is not ahead of it, the numbers of earlier lives
are below the first one of the present millisecond, and all numbers increase) and
`NodeInv` (every number is `Id(w, t, n)` for some time and sequence number). The arithmetic is in the lemmas `Carry`, `Digits` and
`Id...`.

**`OrderPayProofs`**: an order paid on time is out of the listener's reach, and
until the first crash every message belongs to an order in the map.

**`TransferProofs`**: `TxInv` says what a connection has written at each point of
its transaction: nothing before the first update, the credit after it, both
amounts before the commit. From it follow `IdleSafe`, `MoneySafe` and
`LedgerRefinement`.

**`RpcClientProofs`**: three inductive invariants. `MapInv` says that a handler in either
map, or in the listener's hands, is one of the server it stands for (`PeerInv`), so what the
listener finds dropped is not what it lists; and with one client whose `close` never threw, that
a closed handler is in the backup only, and only while the listener goes through the backup
and has passed it (`OpenInv`). That there is one listener at work comes from `SyncInv`.
`ListedStaysOpen` follows. `CallInv` counts for each connection in step the callers
that wait against the requests and answers under way (`WakeupInv`) and says that the request
of an unshared handler is that of its only user, wherever it is (`AloneInv`, `ServedInv`);
`WakeupsCorrect` and `AnswersCorrect` follow, and so does `RemoteCallRefinement`:
`PhaseAlone` turns `CallInv` into "each call is in one of `RemoteCall`'s phases", and one
`Remote...` lemma per group of actions shows which call moves (`OneCall`), or that several
are lost with their connection (`CallsLost`, `RemoteCut`) or begin to share a handler
(`CallsShare`), and that the rest stays (`PhaseKept`). `SyncInv` says that with one client the servers
in the map and those the client or its listener has still to connect are the children, or a
change is waiting to be looked at (`ClientInv`, `FollowInv`), unless the client is half set up;
`MapCorrect` follows.

**`RateWindowProofs`**: the type invariant, `SlotsCorrect`, `RateBoundCorrect` and
`LimitedCorrect`. For the slots the difficulty is that a
thread between its check and its last write holds a time that others have overwritten; the
parts of `IInv` say that all threads at work on a slot are in the slot's present second
(`Stamped`, `InSecond`, `Written`, `FirstRound`, `Held`), which is where `MaxDelay` is needed, and
that the counter agrees with `admitted` for it (`Accounted`).
For the bound the difficulty is that `isLimited` reads slots that change behind its back, and
does not see what was counted in a slot whose first time is still to be written.
`BudgetInv` says, for the ring of seconds that ends in `n`, that the requests in written slots
and the threads that are `Open` come to less than `MaxTimes` and the number of threads. A thread
is open when its sum, with what is counted in the slots it has still to read, is below the
limit (`Undecided`), when its request was let through and is not counted (`Pending`), or when
it has counted it in a slot never written (`Hidden`). Counting more can only close an undecided
thread, so each step keeps the budget; `Visible` is the lemma that `count()` misses no second
of the ring, and `WritersInv` that every request out of sight belongs to a thread of its own.
`SummedInv` bounds a sum by the requests of the seconds behind the thread's position.
Requests are counted as the cardinality of a set of numbered pairs, so that the `Total...`
lemmas can do without induction.

**`MinicatProofs`**: `AnswerInv` says that each part of a request is in one place only: not
sent, in the socket, in the hands of one of the runs, or used up by the answer.
From it follows `AnswersCorrect`.

**Only model-checked**: all liveness (`OrdersTimeOut`, `MessagesSettle`, `WaitEnds`,
`OrderSettles`, `TransfersEnd`, `CallsEnd`, `WholeRequestsServed`, `RunsEnd`), which is out of
the prover's reach. Every safety property that a passing run checks is also proved.
The type invariants of `OrderPay`, `Transfer` and `RpcClient` are proved and in no run.

## 5. Findings

1. `OrderController.pay` and `OrderPayDlxListener.doMessage` race on the status
   (`order_pay_race`): the buyer sees a success page and the order is on the list
   of timed out orders, or the other way round. What does hold is `OnTimeStaysPaid`:
   a payment that is complete before the listener looks is safe.
2. `ConnectionUtils` never gives a connection back (`transfer_pool`): with more
   request threads than pooled connections the rest wait for ever. Druid's default
   pool has eight connections and no time limit, the servlet container more threads.
3. `PositionServiceImpl.flushCache` pushes every row onto `hot-position` and never trims the
   list (`position_cache`): the comments say that it refreshes Redis, but rows that were
   deleted or changed stay there, and every row is there once per flush. As the sort is
   stable and the loop of `flushGuava` puts the rows in order, the oldest version of a
   row is the one that ends in Guava.

Behaviour that the models make visible without a statement of the repository
against it:

- A unit is lost when `convertAndSend` throws after `EXEC`, and when a buyer who
  already has a row buys again (`leaked`, and issued orders that are never
  recorded, in `UnitsAccounted`).
- After a crash of the flash sale the counter is loaded from MySQL, which does not
  know the messages in the broker; `NoOversell` therefore speaks of the time before
  the first crash. An expiration that fires while the application is down is never
  handled.
- When `updateGoodsCount` or the `SET` of the key throws after the insert
  (`SecKillMQListener` lines 43 and 46), the redelivery meets the unique key and is dead-lettered:
  the order stays unpaid for ever and its unit is gone. So it is after a crash there, and after
  an expiration that nobody heard or that threw before the status was written. When the expiration
  throws after it, the order is cancelled and its unit does not come back to Redis.
- After a crash of the RabbitMQ project the messages of forgotten orders are neither
  handled nor acknowledged (`OrderPayDlxListener` line 22) and use up the prefetch
  window for as long as the connection lives.
- A transfer to an unknown card loses the amount, one from an unknown card creates
  it, one to the same card only debits, and two transfers at once lose an update;
  `Ledger` says exactly what is posted in each case.

- A handler that two callers share can send one request twice and the other never; one
  answer then wakes one of the two, whoever's it is. A call whose server dies before it
  answers waits for ever and takes a thread of the executor with it. If `connect` throws in
  `initClient`, the client never subscribes and never tries again. A known server is connected
  anew at every change of the children, and the old handler is dropped without `close`.
- A client whose first call comes before any server ever registered gets `ZkNoNodeException` from
  `getServerList`; `zkClientUtil` is set by then, so it never connects and never subscribes,
  and every later call finds no server.
- Two callers that make a client each have two listeners on the same static maps. One can
  close a handler that the other has just listed or is about to list,
  and an iterator over the backup can throw in between.
- Minicat swallows what a servlet or the output throws and leaves the socket open, so that the
  client waits until it gives up; for an empty static file it spins for ever in
  `outputStaticResource`.
- Minicat's accept loop ends with the first rejection; a silent client keeps a
  thread of its own, and a worker if it was given one, spinning.
- Registrations of all clients share one ring, and a request is turned away as soon as the
  slots stamped within ten seconds add up to the limit.

## 6. Where to go on

What is worth adding, in this order: `IpFilter` with a bounded timer delay; registration
with and without a unique key on the e-mail address.
