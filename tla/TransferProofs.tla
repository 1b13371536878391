---------------------------- MODULE TransferProofs ----------------------------
(***************************************************************************)
(* Theorems about Transfer.  What a connection has written at each point   *)
(* of its transaction (TxInv) is the inductive invariant: nothing before   *)
(* the first update, the credit after it, both amounts before the commit.  *)
(***************************************************************************)
EXTENDS Transfer, TLAPS

\* What the updates that are done have written.
Credit(t) == [a \in Account |->
                IF a = tx[t].to THEN tx[t].toMoney ELSE Unwritten]
Both(t) == [a \in Account |->
                IF a = tx[t].from THEN tx[t].fromMoney
                ELSE IF a = tx[t].to THEN tx[t].toMoney ELSE Unwritten]

TxInv ==
    \A t \in Thread :
        /\ tx[t].at \in {"idle", "begin", "query", "to"} => pending[t] = Nothing
        /\ tx[t].at = "from" => pending[t] = Credit(t)
        /\ tx[t].at = "commit" => pending[t] = Both(t)

LEMMA IdleIsNoTransaction ==
    ASSUME NEW t \in Thread, TypeOK, tx[t].at # "idle"
    PROVE  tx[t] \in Transaction
  BY DEF TypeOK, Idle

LEMMA NothingTyped == Nothing \in [Account -> Int \cup {Unwritten}]
  BY DEF Nothing

LEMMA TxMoved ==
    ASSUME TypeOK, NEW t \in Thread, tx[t] \in Transaction, NEW at,
           at \in {"begin", "query", "to", "from", "commit", "rollback"},
           Goto(t, at)
    PROVE  tx' \in [Thread -> Transaction \cup {Idle}]
<1>1. [tx[t] EXCEPT !.at = at] \in Transaction
  BY DEF Transaction
<1> QED
  BY <1>1 DEF TypeOK, Goto

LEMMA TypeInit == Init => TypeOK
  BY MoneyAssumption, BoundsAssumption, NothingTyped, SMT DEF Init, TypeOK

LEMMA TypeStep == TypeOK /\ [Next]_vars => TypeOK'
<1> SUFFICES ASSUME TypeOK, [Next]_vars PROVE TypeOK'
  OBVIOUS
<1> USE CardAssumption, MoneyAssumption, BoundsAssumption
<1>1. ASSUME NEW t \in Thread, NEW from \in Card, NEW to \in Card,
             NEW amount \in Amount, Request(t, from, to, amount)
      PROVE TypeOK'
  <2>1. [at |-> "begin", from |-> from, to |-> to, amount |-> amount,
         fromMoney |-> 0, toMoney |-> 0] \in Transaction
    BY DEF Transaction
  <2>2. transfers' \in 0..MaxTransfers
    <3>1. transfers \in 0..MaxTransfers /\ transfers < MaxTransfers
          /\ transfers' = transfers + 1
      BY <1>1 DEF TypeOK, Request
    <3> QED
      BY <3>1, SMT
  <2> QED
    BY <1>1, <2>1, <2>2 DEF TypeOK, Request
<1>2. ASSUME NEW t \in Thread, Begin(t) PROVE TypeOK'
  <2>1. tx' \in [Thread -> Transaction \cup {Idle}]
    BY <1>2, IdleIsNoTransaction, TxMoved DEF Begin
  <2> QED
    BY <1>2, <2>1 DEF TypeOK, Begin, counters
<1>3. ASSUME NEW t \in Thread, Query(t) PROVE TypeOK'
  <2>1. tx[t] \in Transaction
    BY <1>3, IdleIsNoTransaction DEF Query
  <2>2. \A c \in Card : Queried(c) \in Int
    BY DEF Queried, TypeOK
  <2>3. Queried(tx[t].from) - tx[t].amount \in Int
        /\ Queried(tx[t].to) + tx[t].amount \in Int
    <3>1. tx[t].from \in Card /\ tx[t].to \in Card /\ tx[t].amount \in Int
      BY <2>1 DEF Transaction
    <3>2. Queried(tx[t].from) \in Int /\ Queried(tx[t].to) \in Int
      BY <2>2, <3>1
    <3> QED
      BY <3>1, <3>2, SMT
  <2> DEFINE new == [tx[t] EXCEPT !.at = "to",
                        !.fromMoney = Queried(tx[t].from) - tx[t].amount,
                        !.toMoney = Queried(tx[t].to) + tx[t].amount]
  <2>4. new \in Transaction
    BY <2>1, <2>3 DEF Transaction
  <2>5. tx' = [tx EXCEPT ![t] = new]
    BY <1>3 DEF Query, TypeOK
  <2> QED
    BY <1>3, <2>4, <2>5 DEF TypeOK, Query, counters
<1>4. ASSUME NEW t \in Thread, NEW c, NEW m \in Int, Write(t, c, m)
      PROVE pending' \in [Thread -> [Account -> Int \cup {Unwritten}]]
  BY <1>4 DEF TypeOK, Write
<1>5. ASSUME NEW t \in Thread, UpdateTo(t) PROVE TypeOK'
  <2>1. tx[t] \in Transaction
    BY <1>5, IdleIsNoTransaction DEF UpdateTo
  <2>2. pending' \in [Thread -> [Account -> Int \cup {Unwritten}]]
    BY <1>4, <1>5, <2>1 DEF UpdateTo, Transaction
  <2>3. tx' \in [Thread -> Transaction \cup {Idle}]
    BY <1>5, <2>1, TxMoved DEF UpdateTo
  <2> QED
    BY <1>5, <2>2, <2>3 DEF TypeOK, UpdateTo, counters
<1>6. ASSUME NEW t \in Thread, UpdateFrom(t) PROVE TypeOK'
  <2>1. tx[t] \in Transaction
    BY <1>6, IdleIsNoTransaction DEF UpdateFrom
  <2>2. pending' \in [Thread -> [Account -> Int \cup {Unwritten}]]
    BY <1>4, <1>6, <2>1 DEF UpdateFrom, Transaction
  <2>3. tx' \in [Thread -> Transaction \cup {Idle}]
    BY <1>6, <2>1, TxMoved DEF UpdateFrom
  <2> QED
    BY <1>6, <2>2, <2>3 DEF TypeOK, UpdateFrom, counters
<1>8. ASSUME NEW t \in Thread, Commit(t) PROVE TypeOK'
  <2>1. Committed(t) \in [Account -> Int]
    BY DEF Committed, TypeOK
  <2> QED
    BY NothingTyped, <1>8, <2>1 DEF TypeOK, Commit, counters
<1>9. ASSUME NEW t \in Thread, WaitFails(t) PROVE TypeOK'
  <2>1. tx[t] \in Transaction
    BY <1>9, IdleIsNoTransaction DEF WaitFails, Waiting
  <2>2. pending' \in [Thread -> [Account -> Int \cup {Unwritten}]]
    BY NothingTyped, <1>9 DEF TypeOK, WaitFails
  <2>3. tx' \in [Thread -> Transaction \cup {Idle}]
    BY <1>9, <2>1, TxMoved DEF WaitFails
  <2> QED
    BY <1>9, <2>2, <2>3 DEF TypeOK, WaitFails, counters
<1>10. ASSUME NEW t \in Thread, StatementFails(t) PROVE TypeOK'
  <2>1. tx' \in [Thread -> Transaction \cup {Idle}]
    BY <1>10, IdleIsNoTransaction, TxMoved DEF StatementFails
  <2>2. failures' \in 0..MaxFailures
    BY <1>10, SMT DEF TypeOK, StatementFails
  <2> QED
    BY <1>10, <2>1, <2>2 DEF TypeOK, StatementFails
<1>11. ASSUME NEW t \in Thread, Rollback(t) PROVE TypeOK'
  BY NothingTyped, <1>11 DEF TypeOK, Rollback, counters
<1>12. CASE Crash
  <2>1. crashes' \in 0..MaxCrashes
    BY <1>12, SMT DEF Crash, TypeOK
  <2> QED
    BY NothingTyped, <1>12, <2>1 DEF TypeOK, Crash
<1>13. CASE UNCHANGED vars
  BY <1>13 DEF TypeOK, vars, counters
<1> QED
  BY <1>1, <1>2, <1>3, <1>5, <1>6, <1>8, <1>9, <1>10, <1>11, <1>12, <1>13
  DEF Next, Step

(***************************************************************************)
(* TransferServlet.doPost, ProxyFactory.invoke and the two DAO calls keep  *)
(* every variable within its type.                                         *)
(***************************************************************************)
THEOREM TypeCorrect == Spec => []TypeOK
  BY TypeInit, TypeStep, PTL DEF Spec

-----------------------------------------------------------------------------
LEMMA InvInit == Init => TxInv
  BY DEF Init, TxInv, Idle

\* Steps of t leave what TxInv says of the other threads.
LEMMA OthersKept ==
    ASSUME TxInv, NEW u \in Thread, tx'[u] = tx[u], pending'[u] = pending[u]
    PROVE  /\ tx'[u].at \in {"idle", "begin", "query", "to"} => pending'[u] = Nothing
           /\ tx'[u].at = "from" => pending'[u] = Credit(u)'
           /\ tx'[u].at = "commit" => pending'[u] = Both(u)'
  BY DEF TxInv, Credit, Both

LEMMA InvStep == TypeOK /\ TxInv /\ [Next]_vars => TxInv'
<1> SUFFICES ASSUME TypeOK, TxInv, [Next]_vars PROVE TxInv'
  OBVIOUS
<1> DEFINE InvOf(u) ==
            /\ tx[u].at \in {"idle", "begin", "query", "to"} => pending[u] = Nothing
            /\ tx[u].at = "from" => pending[u] = Credit(u)
            /\ tx[u].at = "commit" => pending[u] = Both(u)
<1>0. ASSUME NEW t \in Thread, InvOf(t)',
             \A u \in Thread \ {t} : tx'[u] = tx[u] /\ pending'[u] = pending[u]
      PROVE TxInv'
  BY <1>0, OthersKept DEF TxInv
<1>1. ASSUME NEW t \in Thread, NEW from \in Card, NEW to \in Card,
             NEW amount \in Amount, Request(t, from, to, amount)
      PROVE TxInv'
  <2>1. tx'[t].at = "begin" /\ pending'[t] = pending[t] /\ tx[t].at = "idle"
    BY <1>1 DEF Request, Idle, TypeOK
  <2> QED
    BY <1>0, <1>1, <2>1 DEF Request, TxInv, TypeOK
<1>2. ASSUME NEW t \in Thread, Begin(t) PROVE TxInv'
  <2>1. tx'[t].at = "query" /\ pending'[t] = pending[t]
    BY <1>2, IdleIsNoTransaction DEF Begin, Goto, TypeOK, Transaction
  <2> QED
    BY <1>0, <1>2, <2>1 DEF Begin, Goto, TxInv, TypeOK
<1>3. ASSUME NEW t \in Thread, Query(t) PROVE TxInv'
  <2>1. tx'[t].at = "to" /\ pending'[t] = pending[t]
    BY <1>3, IdleIsNoTransaction DEF Query, TypeOK, Transaction
  <2> QED
    BY <1>0, <1>3, <2>1 DEF Query, TxInv, TypeOK
<1>4. ASSUME NEW t \in Thread, UpdateTo(t) PROVE TxInv'
  <2>1. tx'[t] = [tx[t] EXCEPT !.at = "from"] /\ tx[t] \in Transaction
    BY <1>4, IdleIsNoTransaction DEF UpdateTo, Goto, TypeOK
  <2>2. tx'[t].at = "from" /\ tx'[t].to = tx[t].to
        /\ tx'[t].toMoney = tx[t].toMoney
    BY <2>1 DEF Transaction
  <2>3. pending[t] = Nothing
    BY <1>4 DEF UpdateTo, TxInv
  <2>4. pending'[t] = Credit(t)'
    BY <1>4, <2>2, <2>3 DEF UpdateTo, Write, TypeOK, Credit, Nothing
  <2>5. \A u \in Thread \ {t} : tx'[u] = tx[u] /\ pending'[u] = pending[u]
    BY <1>4 DEF UpdateTo, Goto, Write, TypeOK
  <2> QED
    BY <1>0, <2>2, <2>4, <2>5
<1>5. ASSUME NEW t \in Thread, UpdateFrom(t) PROVE TxInv'
  <2>1. tx'[t] = [tx[t] EXCEPT !.at = "commit"] /\ tx[t] \in Transaction
    BY <1>5, IdleIsNoTransaction DEF UpdateFrom, Goto, TypeOK
  <2>2. tx'[t].at = "commit" /\ tx'[t].to = tx[t].to
        /\ tx'[t].toMoney = tx[t].toMoney /\ tx'[t].from = tx[t].from
        /\ tx'[t].fromMoney = tx[t].fromMoney
    BY <2>1 DEF Transaction
  <2>3. pending[t] = Credit(t)
    BY <1>5 DEF UpdateFrom, TxInv
  <2>4. pending'[t] = Both(t)'
    BY <1>5, <2>2, <2>3 DEF UpdateFrom, Write, TypeOK, Credit, Both
  <2>5. \A u \in Thread \ {t} : tx'[u] = tx[u] /\ pending'[u] = pending[u]
    BY <1>5 DEF UpdateFrom, Goto, Write, TypeOK
  <2> QED
    BY <1>0, <2>2, <2>4, <2>5
<1>6. ASSUME NEW t \in Thread, Commit(t) \/ Rollback(t) PROVE TxInv'
  <2>1. tx'[t].at = "idle" /\ pending'[t] = Nothing
    BY <1>6 DEF Commit, Rollback, TypeOK, Idle
  <2>2. \A u \in Thread \ {t} : tx'[u] = tx[u] /\ pending'[u] = pending[u]
    BY <1>6 DEF Commit, Rollback, TypeOK
  <2> QED
    BY <1>0, <2>1, <2>2
<1>7. ASSUME NEW t \in Thread, WaitFails(t) \/ StatementFails(t) PROVE TxInv'
  <2>1. tx'[t].at = "rollback"
    BY <1>7, IdleIsNoTransaction
    DEF WaitFails, Waiting, StatementFails, Goto, TypeOK, Transaction
  <2>2. \A u \in Thread \ {t} : tx'[u] = tx[u] /\ pending'[u] = pending[u]
    BY <1>7 DEF WaitFails, StatementFails, Goto, TypeOK
  <2> QED
    BY <1>0, <2>1, <2>2
<1>8. CASE Crash
  BY <1>8 DEF Crash, TxInv, Idle
<1>9. CASE UNCHANGED vars
  BY <1>9 DEF vars, TxInv, Credit, Both
<1> QED
  BY <1>1, <1>2, <1>3, <1>4, <1>5, <1>6, <1>7, <1>8, <1>9 DEF Next, Step

LEMMA Invariance == Spec => [](TypeOK /\ TxInv)
  BY TypeInit, TypeStep, InvInit, InvStep, PTL DEF Spec

(***************************************************************************)
(* A thread between two requests holds no lock and no write, for any       *)
(* number of threads and accounts (ProxyFactory.invoke always commits or   *)
(* rolls back).                                                            *)
(***************************************************************************)
THEOREM IdleSafe == Spec => []IdleHoldsNothing
<1>1. TypeOK /\ TxInv => IdleHoldsNothing
  BY DEF TxInv, IdleHoldsNothing
<1> QED
  BY <1>1, Invariance, PTL

-----------------------------------------------------------------------------
\* What a commit makes of the accounts.
LEMMA CommitWrites ==
    ASSUME TypeOK, TxInv, NEW t \in Thread, Commit(t)
    PROVE  money' = [a \in Account |->
                        IF a = tx[t].from THEN tx[t].fromMoney
                        ELSE IF a = tx[t].to THEN tx[t].toMoney ELSE money[a]]
<1>1. tx[t] \in Transaction
  BY IdleIsNoTransaction DEF Commit
<1>2. pending[t] = Both(t)
  BY DEF Commit, TxInv
<1>3. tx[t].fromMoney # Unwritten /\ tx[t].toMoney # Unwritten
  BY <1>1, MoneyAssumption DEF Transaction
<1> QED
  BY <1>2, <1>3 DEF Commit, Committed, Both

(***************************************************************************)
(* A commit of a proper transfer whose accounts were not written in        *)
(* between moves the amount and touches nothing else.                      *)
(***************************************************************************)
THEOREM MoneySafe == Spec => MoneyMoves
<1>1. ASSUME TypeOK, TxInv, NEW t \in Thread, Commit(t), Proper(t), ~Raced(t)
      PROVE  money' = [money EXCEPT ![tx[t].from] = @ - tx[t].amount,
                                    ![tx[t].to] = @ + tx[t].amount]
  <2>1. tx[t] \in Transaction /\ money \in [Account -> Int]
    BY <1>1, IdleIsNoTransaction DEF Commit, TypeOK
  <2>2. tx[t].fromMoney \in Int /\ tx[t].toMoney \in Int /\ tx[t].amount \in Int
    BY <2>1, MoneyAssumption DEF Transaction
  <2>3. tx[t].from \in Account /\ tx[t].to \in Account /\ tx[t].from # tx[t].to
    BY <1>1 DEF Proper
  <2>4. money[tx[t].from] = tx[t].fromMoney + tx[t].amount
        /\ money[tx[t].to] = tx[t].toMoney - tx[t].amount
    BY <1>1, <2>3 DEF Raced
  <2>5. tx[t].fromMoney = money[tx[t].from] - tx[t].amount
        /\ tx[t].toMoney = money[tx[t].to] + tx[t].amount
    BY <2>2, <2>4, SMT
  <2> QED
    BY <1>1, <2>1, <2>3, <2>5, CommitWrites
<1>2. TypeOK /\ TxInv /\ [Next]_vars =>
        [\A t \in Thread : Commit(t) /\ Proper(t) /\ ~Raced(t) =>
            money' = [money EXCEPT ![tx[t].from] = @ - tx[t].amount,
                                   ![tx[t].to] = @ + tx[t].amount]]_vars
  BY <1>1
<1> QED
  BY <1>2, Invariance, PTL DEF Spec, MoneyMoves

-----------------------------------------------------------------------------
OpenRecord == [from : Card, fromMoney : Int, to : Card, toMoney : Int]

LEMMA OpenIsRecord ==
    ASSUME TypeOK, NEW t \in Thread, tx[t].at \in AtLedger
    PROVE  OpenOf(t) \in OpenRecord /\ OpenOf(t) # None
<1>1. tx[t] \in Transaction
  BY IdleIsNoTransaction DEF AtLedger
<1> QED
  BY <1>1, MoneyAssumption DEF OpenOf, OpenRecord, Transaction

(***************************************************************************)
(* The transactions implement the ledger: two updates and a commit are one *)
(* atomic posting, and every failure gives up whole.                       *)
(***************************************************************************)
THEOREM LedgerRefinement == Spec => LedgerSpec
<1> DEFINE open == [t \in Thread |-> OpenOf(t)]
<1>1. Init => L!Init
  BY DEF Init, L!Init, OpenOf, AtLedger, Idle
<1>2. ASSUME TypeOK, TypeOK', TxInv, [Next]_vars PROVE [L!Next]_(L!ledgerVars)
  <2>1. ASSUME NEW t \in Thread,
               \A u \in Thread \ {t} : tx'[u] = tx[u]
        PROVE  \A u \in Thread \ {t} : OpenOf(u)' = OpenOf(u)
    BY <2>1 DEF OpenOf
  <2>2. ASSUME NEW t \in Thread, OpenOf(t)' = OpenOf(t), UNCHANGED money,
               \A u \in Thread \ {t} : tx'[u] = tx[u]
        PROVE  UNCHANGED L!ledgerVars
    BY <2>1, <2>2 DEF L!ledgerVars
  <2>3. ASSUME NEW t \in Thread, NEW from \in Card, NEW to \in Card,
               NEW amount \in Amount, Request(t, from, to, amount)
        PROVE  UNCHANGED L!ledgerVars
    <3>1. tx[t].at = "idle" /\ tx'[t].at = "begin"
      BY <1>2, <2>3 DEF Request, TypeOK, Idle
    <3>2. OpenOf(t)' = OpenOf(t)
      BY <3>1 DEF OpenOf, AtLedger
    <3> QED
      BY <1>2, <2>2, <2>3, <3>2 DEF Request, TypeOK
  <2>4. ASSUME NEW t \in Thread, Begin(t) PROVE UNCHANGED L!ledgerVars
    <3>1. tx'[t].at = "query"
      BY <1>2, <2>4, IdleIsNoTransaction DEF Begin, Goto, TypeOK, Transaction
    <3> QED
      BY <1>2, <2>2, <2>4, <3>1 DEF Begin, Goto, OpenOf, AtLedger, TypeOK
  <2>5. ASSUME NEW t \in Thread, Query(t) PROVE L!Next
    <3>1. tx[t] \in Transaction
      BY <1>2, <2>5, IdleIsNoTransaction DEF Query
    <3>2. /\ tx'[t].at = "to"
          /\ tx'[t].from = tx[t].from /\ tx'[t].to = tx[t].to
          /\ tx'[t].fromMoney = Queried(tx[t].from) - tx[t].amount
          /\ tx'[t].toMoney = Queried(tx[t].to) + tx[t].amount
      BY <1>2, <2>5, <3>1 DEF Query, TypeOK, Transaction
    <3>3. OpenOf(t) = None
      BY <2>5 DEF Query, OpenOf, AtLedger
    <3>4. OpenOf(t)' =
            [from |-> tx[t].from,
             fromMoney |-> L!Held(tx[t].from) - tx[t].amount,
             to |-> tx[t].to, toMoney |-> L!Held(tx[t].to) + tx[t].amount]
      BY <3>2 DEF OpenOf, AtLedger, Queried, L!Held
    <3>5. \A u \in Thread \ {t} : OpenOf(u)' = OpenOf(u)
      BY <1>2, <2>1, <2>5 DEF Query, TypeOK
    <3>6. open' = [open EXCEPT ![t] =
            [from |-> tx[t].from,
             fromMoney |-> L!Held(tx[t].from) - tx[t].amount,
             to |-> tx[t].to, toMoney |-> L!Held(tx[t].to) + tx[t].amount]]
      BY <3>4, <3>5
    <3>7. L!Look(t, tx[t].from, tx[t].to, tx[t].amount)
      BY <2>5, <3>3, <3>6 DEF L!Look, Query
    <3> QED
      BY <3>1, <3>7 DEF L!Next, Transaction
  <2>6. ASSUME NEW t \in Thread, UpdateTo(t) \/ UpdateFrom(t)
        PROVE  UNCHANGED L!ledgerVars
    <3>1. tx[t] \in Transaction
      BY <1>2, <2>6, IdleIsNoTransaction DEF UpdateTo, UpdateFrom
    <3>2. /\ tx'[t].at \in {"from", "commit"} /\ tx[t].at \in {"to", "from"}
          /\ tx'[t].from = tx[t].from /\ tx'[t].to = tx[t].to
          /\ tx'[t].fromMoney = tx[t].fromMoney /\ tx'[t].toMoney = tx[t].toMoney
      BY <1>2, <2>6, <3>1 DEF UpdateTo, UpdateFrom, Goto, TypeOK, Transaction
    <3>3. OpenOf(t)' = OpenOf(t)
      BY <3>2 DEF OpenOf, AtLedger
    <3> QED
      BY <1>2, <2>2, <2>6, <3>3 DEF UpdateTo, UpdateFrom, Goto, TypeOK
  <2>7. ASSUME NEW t \in Thread, Commit(t) PROVE L!Next
    <3>1. tx[t].at = "commit" /\ tx'[t].at = "idle"
      BY <1>2, <2>7 DEF Commit, TypeOK, Idle
    <3>2. open[t] = [from |-> tx[t].from, fromMoney |-> tx[t].fromMoney,
                     to |-> tx[t].to, toMoney |-> tx[t].toMoney]
          /\ open[t] # None
      BY <1>2, <3>1, OpenIsRecord DEF OpenOf, AtLedger
    <3>3. OpenOf(t)' = None
      BY <3>1 DEF OpenOf, AtLedger
    <3>4. \A u \in Thread \ {t} : OpenOf(u)' = OpenOf(u)
      BY <1>2, <2>1, <2>7 DEF Commit, TypeOK
    <3>5. open' = [open EXCEPT ![t] = None]
      BY <3>3, <3>4
    <3>6. money' = [a \in Account |->
                        IF a = open[t].from THEN open[t].fromMoney
                        ELSE IF a = open[t].to THEN open[t].toMoney
                        ELSE money[a]]
      BY <1>2, <2>7, <3>2, CommitWrites
    <3>7. L!Post(t)
      BY <3>2, <3>5, <3>6 DEF L!Post
    <3> QED
      BY <3>7 DEF L!Next
  <2>8. ASSUME NEW t \in Thread,
               WaitFails(t) \/ StatementFails(t) \/ Rollback(t)
        PROVE  L!Next
    <3>1. tx'[t].at \in {"rollback", "idle"}
      BY <1>2, <2>8, IdleIsNoTransaction
      DEF WaitFails, Waiting, StatementFails, Rollback, Goto, TypeOK,
          Transaction, Idle
    <3>2. OpenOf(t)' = None
      BY <3>1 DEF OpenOf, AtLedger
    <3>3. \A u \in Thread \ {t} : OpenOf(u)' = OpenOf(u)
      BY <1>2, <2>1, <2>8 DEF WaitFails, StatementFails, Rollback, Goto, TypeOK
    <3>4. open' = [u \in Thread |-> IF u \in {t} THEN None ELSE open[u]]
      BY <3>2, <3>3
    <3>5. UNCHANGED money
      BY <2>8 DEF WaitFails, StatementFails, Rollback
    <3>6. L!GiveUp({t})
      BY <3>4, <3>5 DEF L!GiveUp
    <3> QED
      BY <3>6 DEF L!Next
  <2>9. CASE Crash
    <3>1. open' = [u \in Thread |-> IF u \in Thread THEN None ELSE open[u]]
      BY <2>9 DEF Crash, OpenOf, AtLedger, Idle
    <3>2. L!GiveUp(Thread)
      BY <2>9, <3>1 DEF L!GiveUp, Crash
    <3> QED
      BY <3>2 DEF L!Next
  <2>10. CASE UNCHANGED vars
    BY <2>10 DEF vars, L!ledgerVars, OpenOf
  <2> QED
    BY <1>2, <2>3, <2>4, <2>5, <2>6, <2>7, <2>8, <2>9, <2>10 DEF Next, Step
<1> QED
  BY <1>1, <1>2, Invariance, PTL DEF Spec, LedgerSpec, L!Spec
=============================================================================
