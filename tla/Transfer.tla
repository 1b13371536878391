------------------------------- MODULE Transfer -------------------------------
(***************************************************************************)
(* The bank transfer of spring/lagou-transfer.  Each servlet thread runs   *)
(* TransferServiceImpl.transfer inside the proxy of ProxyFactory: begin,   *)
(* read both accounts, write both, commit, or roll back and rethrow.  The  *)
(* connection is bound to the thread for ever.  The database is MySQL with *)
(* its default isolation: the first read fixes what both reads see, an     *)
(* update takes the row's lock until the transaction ends and writes over  *)
(* whatever was committed since, and a waiting update may fail.            *)
(***************************************************************************)
EXTENDS Integers, FiniteSets

CONSTANTS
    Thread,         \* servlet threads
    Card,           \* card numbers that a client may enter
    Account,        \* those with a row in table account
    Amount,         \* amounts that a client may enter
    Opening,        \* account.money at first
    PoolSize,       \* maxActive of the Druid pool
    NoCard,
    Unwritten,      \* a row the transaction has not written
    None,           \* the ledger's "no amounts to post"
    MaxTransfers,   \* bound: transfers begun
    MaxFailures,    \* bound: statements that fail without waiting
    MaxCrashes      \* bound: crashes of the application

ASSUME CardAssumption == Account \subseteq Card /\ NoCard \notin Card
ASSUME MoneyAssumption ==
    /\ Amount \subseteq Int /\ Opening \in [Account -> Int]
    /\ Unwritten \notin Int
    /\ None \notin [from : Card, fromMoney : Int, to : Card, toMoney : Int]
ASSUME BoundsAssumption ==
    /\ PoolSize \in Nat \ {0}
    /\ MaxTransfers \in Nat /\ MaxFailures \in Nat /\ MaxCrashes \in Nat

VARIABLES
    money,      \* account.money, committed
    pending,    \* per connection, what its transaction wrote: these rows are
                \* locked
    bound,      \* threads with a connection in ConnectionUtils.threadLocal
    tx,         \* TransferServlet.doPost of each thread
    transfers, failures, crashes    \* counters behind the bounds

counters == <<transfers, failures, crashes>>
vars == <<money, pending, bound, tx, counters>>

Idle == [at |-> "idle", from |-> NoCard, to |-> NoCard, amount |-> 0,
         fromMoney |-> 0, toMoney |-> 0]
Nothing == [a \in Account |-> Unwritten]

Transaction ==
    [at : {"begin", "query", "to", "from", "commit", "rollback"},
     from : Card, to : Card, amount : Amount, fromMoney : Int, toMoney : Int]

TypeOK ==
    /\ money \in [Account -> Int]
    /\ pending \in [Thread -> [Account -> Int \cup {Unwritten}]]
    /\ bound \subseteq Thread
    /\ tx \in [Thread -> Transaction \cup {Idle}]
    /\ transfers \in 0..MaxTransfers
    /\ failures \in 0..MaxFailures
    /\ crashes \in 0..MaxCrashes

Init ==
    /\ money = Opening
    /\ pending = [t \in Thread |-> Nothing]
    /\ bound = {}
    /\ tx = [t \in Thread |-> Idle]
    /\ transfers = 0 /\ failures = 0 /\ crashes = 0

-----------------------------------------------------------------------------
(***************************************************************************)
(* The database.                                                           *)
(***************************************************************************)
Locked(t, a) == \E u \in Thread \ {t} : pending[u][a] # Unwritten

\* queryAccountByCardNo: of a card without a row comes an empty Account.
Queried(card) == IF card \in Account THEN money[card] ELSE 0

\* updateAccountByCardNo: without a row it changes nothing and says nothing.
Write(t, card, amount) ==
    /\ card \in Account => ~Locked(t, card)
    /\ pending' = IF card \in Account
                    THEN [pending EXCEPT ![t][card] = amount] ELSE pending

Committed(t) ==
    [a \in Account |->
        IF pending[t][a] = Unwritten THEN money[a] ELSE pending[t][a]]

-----------------------------------------------------------------------------
(***************************************************************************)
(* TransferServlet.doPost, the proxy and TransferServiceImpl.transfer.     *)
(***************************************************************************)
Goto(t, at) == tx' = [tx EXCEPT ![t].at = at]

Request(t, from, to, amount) ==
    /\ tx[t] = Idle
    /\ transfers < MaxTransfers
    /\ transfers' = transfers + 1
    /\ tx' = [tx EXCEPT ![t] =
                [at |-> "begin", from |-> from, to |-> to, amount |-> amount,
                 fromMoney |-> 0, toMoney |-> 0]]
    /\ UNCHANGED <<money, pending, bound, failures, crashes>>

\* beginTransaction: a thread without a connection takes one, and waits while
\* the pool has none.
Begin(t) ==
    /\ tx[t].at = "begin"
    /\ t \in bound \/ Cardinality(bound) < PoolSize
    /\ bound' = bound \cup {t}
    /\ Goto(t, "query")
    /\ UNCHANGED <<money, pending, counters>>

\* Both queries and both setMoney: the second query sees what the first did.
Query(t) ==
    /\ tx[t].at = "query"
    /\ tx' = [tx EXCEPT ![t].at = "to",
                        ![t].fromMoney = Queried(tx[t].from) - tx[t].amount,
                        ![t].toMoney = Queried(tx[t].to) + tx[t].amount]
    /\ UNCHANGED <<money, pending, bound, counters>>

\* Fault: autocommit is left on, each update is committed alone.
UpdateToAutocommit(t) ==
    /\ tx[t].at = "to"
    /\ tx[t].to \in Account => ~Locked(t, tx[t].to)
    /\ money' = [a \in Account |->
                    IF a = tx[t].to THEN tx[t].toMoney ELSE money[a]]
    /\ Goto(t, "from")
    /\ UNCHANGED <<pending, bound, counters>>

UpdateTo(t) ==
    /\ tx[t].at = "to"
    /\ Write(t, tx[t].to, tx[t].toMoney)
    /\ Goto(t, "from")
    /\ UNCHANGED <<money, bound, counters>>

UpdateFrom(t) ==
    /\ tx[t].at = "from"
    /\ Write(t, tx[t].from, tx[t].fromMoney)
    /\ Goto(t, "commit")
    /\ UNCHANGED <<money, bound, counters>>

Commit(t) ==
    /\ tx[t].at = "commit"
    /\ money' = Committed(t)
    /\ pending' = [pending EXCEPT ![t] = Nothing]
    /\ tx' = [tx EXCEPT ![t] = Idle]
    /\ UNCHANGED <<bound, counters>>

\* The row an update is going to write is locked by another transaction.
Waiting(t) ==
    \/ tx[t].at = "to" /\ tx[t].to \in Account /\ Locked(t, tx[t].to)
    \/ tx[t].at = "from" /\ tx[t].from \in Account /\ Locked(t, tx[t].from)

\* Fault: an update waits for its lock without end.
WaitForEver(t) == FALSE /\ UNCHANGED vars

\* A waiting update fails: as the victim of a deadlock, which has lost its
\* transaction already, or at innodb_lock_wait_timeout, which has not.  (Only
\* the victim must wait in a circle; the model does not tell them apart.)
WaitFails(t) ==
    /\ Waiting(t)
    /\ pending' \in {pending, [pending EXCEPT ![t] = Nothing]}
    /\ Goto(t, "rollback")
    /\ UNCHANGED <<money, bound, counters>>

\* Fault: the data access object catches what an update throws.
StatementSwallowed(t) ==
    /\ tx[t].at = "to"
    /\ failures < MaxFailures
    /\ failures' = failures + 1
    /\ Goto(t, "from")
    /\ UNCHANGED <<money, pending, bound, transfers, crashes>>

\* Any other SQLException.
StatementFails(t) ==
    /\ tx[t].at \in {"query", "to", "from"}
    /\ failures < MaxFailures
    /\ failures' = failures + 1
    /\ Goto(t, "rollback")
    /\ UNCHANGED <<money, pending, bound, transfers, crashes>>

\* Fault: the catch only rethrows.
RollbackForgotten(t) ==
    /\ tx[t].at = "rollback"
    /\ tx' = [tx EXCEPT ![t] = Idle]
    /\ UNCHANGED <<money, pending, bound, counters>>

Rollback(t) ==
    /\ tx[t].at = "rollback"
    /\ pending' = [pending EXCEPT ![t] = Nothing]
    /\ tx' = [tx EXCEPT ![t] = Idle]
    /\ UNCHANGED <<money, bound, counters>>

\* The application dies; MySQL rolls its transactions back.
Crash ==
    /\ crashes < MaxCrashes
    /\ crashes' = crashes + 1
    /\ pending' = [t \in Thread |-> Nothing]
    /\ bound' = {}
    /\ tx' = [t \in Thread |-> Idle]
    /\ UNCHANGED <<money, transfers, failures>>

-----------------------------------------------------------------------------
Step(t) ==
    \/ Begin(t) \/ Query(t) \/ UpdateTo(t) \/ UpdateFrom(t) \/ Commit(t)
    \/ WaitFails(t) \/ Rollback(t)

Next ==
    \/ \E t \in Thread :
        \/ Step(t) \/ StatementFails(t)
        \/ \E from, to \in Card, amount \in Amount : Request(t, from, to, amount)
    \/ Crash

Spec == Init /\ [][Next]_vars

\* A servlet thread runs on, and no statement waits for a lock without end.
FairSpec == Spec /\ \A t \in Thread : WF_vars(Step(t))

-----------------------------------------------------------------------------
\* What t read is no longer what the accounts hold.
Raced(t) ==
    \/ tx[t].from \in Account /\ money[tx[t].from] # tx[t].fromMoney + tx[t].amount
    \/ tx[t].to \in Account /\ money[tx[t].to] # tx[t].toMoney - tx[t].amount

\* Both cards have a row, and not the same one.
Proper(t) == {tx[t].from, tx[t].to} \subseteq Account /\ tx[t].from # tx[t].to

(***************************************************************************)
(* A commit writes the two accounts of its own transfer and moves its      *)
(* amount from one to the other, if both cards exist, differ and were not  *)
(* written since they were read: no failed transfer, timeout, deadlock or  *)
(* crash leaves half of itself to a later one (ProxyFactory.invoke).       *)
(***************************************************************************)
MoneyMoves ==
    [][\A t \in Thread : Commit(t) /\ Proper(t) /\ ~Raced(t) =>
            money' = [money EXCEPT ![tx[t].from] = @ - tx[t].amount,
                                   ![tx[t].to] = @ + tx[t].amount]]_vars

(***************************************************************************)
(* Between two requests a thread's connection holds neither locks nor      *)
(* writes, however its last transfer ended: the connection stays bound to  *)
(* the thread, so the next commit would publish them.                      *)
(***************************************************************************)
IdleHoldsNothing ==
    \A t \in Thread : tx[t].at \in {"idle", "begin", "query"}
                        => pending[t] = Nothing

AtLedger == {"to", "from", "commit"}
OpenOf(t) ==
    IF tx[t].at \in AtLedger
      THEN [from |-> tx[t].from, fromMoney |-> tx[t].fromMoney,
            to |-> tx[t].to, toMoney |-> tx[t].toMoney]
      ELSE None

L == INSTANCE Ledger WITH
        Client <- Thread,
        open <- [t \in Thread |-> OpenOf(t)]

(***************************************************************************)
(* Two updates and a commit are one atomic posting of two amounts that     *)
(* were right at one earlier moment (Ledger).                              *)
(***************************************************************************)
LedgerSpec == L!Spec

(***************************************************************************)
(* A transfer that has a connection ends, although two transfers in        *)
(* opposite directions lock the two rows in opposite order.                *)
(***************************************************************************)
TransfersEnd ==
    \A t \in Thread : tx[t].at = "query" ~> tx[t].at = "idle"

(***************************************************************************)
(* "If none is bound, a connection is taken from the pool and bound to the *)
(* current thread" (ConnectionUtils, lines 20-22): a request that begins   *)
(* gets a connection.  No connection ever goes back, so with more threads  *)
(* than connections some request waits for ever.                           *)
(***************************************************************************)
ThreadGetsConnection ==
    \A t \in Thread : tx[t].at = "begin" ~> t \in bound
=============================================================================
