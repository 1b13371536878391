---------------------------- MODULE MinicatProofs ----------------------------
(***************************************************************************)
(* The request processors of Minicat for any number of sockets, any        *)
(* requests and any size of the pool and its queue.                        *)
(***************************************************************************)
EXTENDS Minicat, FiniteSetTheorems, SequenceTheorems, TLAPS

LEMMA PartsType == \A s \in Socket : Parts(s) \in Data
<1>1. <<>> \in Data /\ <<"whole">> \in Data /\ <<"first", "second">> \in Data
  BY DEF Data
<1>2. QED
  BY <1>1 DEF Parts

LEMMA RunTypes ==
  /\ NotYet \in RunState /\ Queued \in RunState /\ Spinning \in RunState
  /\ Over \in RunState /\ Failed \in RunState
  /\ \A n \in Nat : Run("read", n, <<>>) \in RunState
  /\ \A d \in Data : Run("serve", 0, d) \in RunState
  /\ Run("close", 0, <<>>) \in RunState
<1>1. <<>> \in Data
  BY DEF Data
<1>2. QED
  BY <1>1 DEF NotYet, Queued, Spinning, Over, Failed, Run, RunState, Working

LEMMA BusyFinite == IsFiniteSet(Busy) /\ Cardinality(Busy) \in Nat
<1>1. IsFiniteSet(Busy)
  BY SocketAssumption, FS_Subset DEF Busy
<1>2. QED
  BY <1>1, FS_CardinalityType

\* What a step does to the number of busy workers.
LEMMA BusyBounds ==
  ASSUME NEW s \in Socket
  PROVE  /\ Busy' \subseteq Busy => Cardinality(Busy') <= Cardinality(Busy)
         /\ Busy' \subseteq Busy \cup {s} => Cardinality(Busy') <= Cardinality(Busy) + 1
         /\ Cardinality(Busy') \in Nat /\ Cardinality(Busy) \in Nat
<1>1. IsFiniteSet(Busy) /\ Cardinality(Busy) \in Nat
  BY BusyFinite
<1>2. IsFiniteSet(Busy')
  <2>1. Busy' \subseteq Socket
    BY DEF Busy
  <2>2. QED
    BY <2>1, SocketAssumption, FS_Subset
<1>3. Cardinality(Busy') \in Nat
  BY <1>2, FS_CardinalityType
<1>4. Busy' \subseteq Busy => Cardinality(Busy') <= Cardinality(Busy)
  BY <1>1, FS_Subset
<1>5. IsFiniteSet(Busy \cup {s}) /\ Cardinality(Busy \cup {s}) <= Cardinality(Busy) + 1
  BY <1>1, FS_AddElement
<1>6. Busy' \subseteq Busy \cup {s} => Cardinality(Busy') <= Cardinality(Busy \cup {s})
  BY <1>5, FS_Subset
<1>7. Cardinality(Busy \cup {s}) \in Nat
  BY <1>5, FS_CardinalityType
<1>8. QED
  BY <1>1, <1>3, <1>4, <1>5, <1>6, <1>7

-----------------------------------------------------------------------------
(***************************************************************************)
(* Every variable keeps its type; in particular no more processors run in  *)
(* the pool than it has workers, and it never has more than its maximum.   *)
(***************************************************************************)
LEMMA TypeInit == Init => TypeOK
<1> SUFFICES ASSUME Init PROVE TypeOK
  OBVIOUS
<1>1. Busy = {}
  BY DEF Init, Busy, NotYet, Run, Working
<1>2. Cardinality(Busy) = 0
  BY <1>1, FS_EmptySet
<1>3. <<>> \in Data /\ <<>> \in Seq(Socket)
  BY DEF Data
<1>4. QED
  BY <1>2, <1>3, PartsType, RunTypes, PoolAssumption DEF Init, TypeOK

LEMMA GoesType ==
  ASSUME TypeOK, NEW s \in Socket, NEW r \in Role, NEW next \in RunState, Goes(s, r, next)
  PROVE  /\ run' \in [Socket -> [own : RunState, pool : RunState]]
         /\ run'[s][r] = next
         /\ \A t \in Socket, q \in Role : t # s \/ q # r => run'[t][q] = run[t][q]
<1>1. run[s] \in [own : RunState, pool : RunState] /\ r \in {"own", "pool"}
  BY DEF TypeOK, Role
<1>2. [run[s] EXCEPT ![r] = next] \in [own : RunState, pool : RunState]
  BY <1>1
<1>3. run' = [run EXCEPT ![s] = [run[s] EXCEPT ![r] = next]]
  BY DEF Goes
<1>4. QED
  BY <1>1, <1>2, <1>3 DEF TypeOK, Role

\* A run that moves on while it works, or ends, makes no worker busy.
LEMMA RunBusy ==
  ASSUME TypeOK, NEW s \in Socket, NEW r \in Role, NEW next \in RunState,
         Goes(s, r, next), run[s][r].at \in Working
  PROVE  Cardinality(Busy') <= Cardinality(Busy)
<1>1. Busy' \subseteq Busy
  BY GoesType DEF Busy, Role
<1>2. QED
  BY <1>1, BusyBounds

LEMMA PoolType ==
  ASSUME TypeOK, Cardinality(Busy') <= Cardinality(Busy), UNCHANGED poolVars
  PROVE  workQueue' \in Seq(Socket) /\ workers' \in Cardinality(Busy')..MaximumPoolSize
<1>1. IsFiniteSet(Busy')
  <2>1. Busy' \subseteq Socket
    BY DEF Busy
  <2>2. QED
    BY <2>1, SocketAssumption, FS_Subset
<1>2. Cardinality(Busy') \in Nat /\ Cardinality(Busy) \in Nat
  BY <1>1, BusyFinite, FS_CardinalityType
<1>3. QED
  BY <1>2, PoolAssumption DEF TypeOK, poolVars

LEMMA Smaller ==
  ASSUME NEW a \in Nat, NEW b \in Nat
  PROVE  Min({a, b}) \in {a, b} /\ Min({a, b}) <= b
<1>1. \E x \in {a, b} : \A y \in {a, b} : x <= y
  <2>1. CASE a <= b
    BY <2>1
  <2>2. CASE ~(a <= b)
    BY <2>2
  <2>3. QED
    BY <2>1, <2>2
<1>2. /\ Min({a, b}) \in {a, b}
      /\ \A y \in {a, b} : Min({a, b}) <= y
  BY <1>1 DEF Min
<1>3. QED
  BY <1>2

\* What a run reads is what is missing from the socket afterwards.
LEMMA ReadSplits ==
  ASSUME TypeOK, NEW s \in Socket, NEW r \in Role, Read(s, r)
  PROVE  \E d, rest \in Data :
            /\ Goes(s, r, Run("serve", 0, d))
            /\ unread' = [unread EXCEPT ![s] = rest]
            /\ d # <<>> /\ Len(d) + Len(rest) = Len(unread[s])
<1> DEFINE u == unread[s]
           n == Min({run[s][r].count, Len(u)})
           d == SubSeq(u, 1, n)
           rest == SubSeq(u, n + 1, Len(u))
<1>1. /\ u \in Data /\ Len(u) \in Nat /\ run[s][r].count \in Nat
      /\ \A i \in 1..Len(u) : u[i] \in {"whole", "first", "second"}
  <2>1. u \in Data /\ run[s][r] \in RunState
    BY DEF TypeOK, Role
  <2>2. run[s][r].count \in Nat
    BY <2>1 DEF RunState
  <2> HIDE DEF u
  <2>3. QED
    BY <2>1, <2>2 DEF Data
<1>2. n \in Nat /\ n <= Len(u)
  <2> HIDE DEF u
  <2>1. QED
    BY <1>1, Smaller
<1>3. n > 0 /\ Goes(s, r, Run("serve", 0, d)) /\ unread' = [unread EXCEPT ![s] = rest]
  BY DEF Read
<1> HIDE DEF n
<1>4. d \in Data /\ Len(d) = n
  BY <1>1, <1>2, <1>3, SubSeqProperties DEF Data
<1>5. rest \in Data /\ Len(rest) = Len(u) - n
  <2>1. \A i \in (n + 1)..Len(u) : u[i] \in {"whole", "first", "second"}
    BY <1>1, <1>2
  <2>2. /\ SubSeq(u, n + 1, Len(u)) \in Seq({"whole", "first", "second"})
        /\ Len(SubSeq(u, n + 1, Len(u))) = IF n + 1 <= Len(u) THEN Len(u) - (n + 1) + 1 ELSE 0
    <3> HIDE DEF u
    <3>1. QED
      BY <1>1, <1>2, <2>1, SubSeqProperties
  <2>3. QED
    BY <1>1, <1>2, <2>2 DEF Data
<1>6. d # <<>> /\ Len(d) + Len(rest) = Len(u)
  <2> HIDE DEF d, rest, u
  <2>1. QED
    BY <1>1, <1>2, <1>3, <1>4, <1>5
<1>7. QED
  BY <1>3, <1>4, <1>5, <1>6

LEMMA RunStepType ==
  ASSUME TypeOK, NEW s \in Socket, NEW r \in Role, RunStep(s, r)
  PROVE  TypeOK'
<1>0. /\ run[s][r] \in RunState /\ unread[s] \in Data /\ answers[s] \in Nat
      /\ Len(unread[s]) \in Nat
  BY DEF TypeOK, Role, Data
<1>1. ASSUME NEW next \in RunState, Goes(s, r, next), run[s][r].at \in Working,
             UNCHANGED <<accept, kindOf, unsent, gone, poolVars>>,
             connection' \in [Socket -> {"none", "open", "closed"}],
             unread' \in [Socket -> Data], answers' \in [Socket -> Nat]
      PROVE  TypeOK'
  <2>1. run' \in [Socket -> [own : RunState, pool : RunState]]
    BY <1>1, GoesType
  <2>2. workQueue' \in Seq(Socket) /\ workers' \in Cardinality(Busy')..MaximumPoolSize
    BY <1>1, RunBusy, PoolType
  <2>3. QED
    BY <1>1, <2>1, <2>2 DEF TypeOK
<1>2. /\ connection \in [Socket -> {"none", "open", "closed"}]
      /\ unread \in [Socket -> Data] /\ answers \in [Socket -> Nat]
  BY DEF TypeOK
<1>3. CASE SeeInput(s, r)
  <2>1. Run("read", Len(unread[s]), <<>>) \in RunState
    BY <1>0, RunTypes DEF Data
  <2>2. run[s][r].at \in Working
    BY <1>3 DEF SeeInput, Spinning, Run, Working
  <2>3. QED
    BY <1>1, <1>2, <1>3, <2>1, <2>2 DEF SeeInput, clientVars
<1>4. CASE SeeClosed(s, r) \/ ReadEnd(s, r) \/ ServeNothing(s, r)
  <2>1. run[s][r].at \in Working /\ Goes(s, r, Over)
    BY <1>4 DEF SeeClosed, ReadEnd, ServeNothing, Working
  <2>2. QED
    BY <1>1, <1>2, <1>4, <2>1, RunTypes DEF SeeClosed, ReadEnd, ServeNothing, clientVars
<1>5. CASE Read(s, r)
  <2>1. PICK d, rest \in Data : /\ Goes(s, r, Run("serve", 0, d))
                                /\ unread' = [unread EXCEPT ![s] = rest]
    BY <1>5, ReadSplits
  <2>2. unread' \in [Socket -> Data] /\ Run("serve", 0, d) \in RunState
    BY <1>2, <2>1, RunTypes
  <2>3. run[s][r].at \in Working
    BY <1>5 DEF Read, Working
  <2>4. QED
    BY <1>1, <1>2, <1>5, <2>1, <2>2, <2>3 DEF Read, clientVars
<1>6. CASE Serve(s, r)
  <2>1. run[s][r].at \in Working
    BY <1>6 DEF Serve, Working
  <2>2. answers' \in [Socket -> Nat]
    BY <1>0, <1>2, <1>6 DEF Serve
  <2>3. QED
    BY <1>1, <1>2, <1>6, <2>1, <2>2, RunTypes DEF Serve, clientVars
<1>7. CASE Close(s, r)
  <2>1. run[s][r].at \in Working
    BY <1>7 DEF Close, Working
  <2>2. connection' \in [Socket -> {"none", "open", "closed"}]
    BY <1>2, <1>7 DEF Close
  <2>3. QED
    BY <1>1, <1>2, <1>7, <2>1, <2>2, RunTypes DEF Close, clientVars
<1>8. CASE ServeFails(s, r)
  <2>1. run[s][r].at \in Working
    BY <1>8 DEF ServeFails, Working
  <2>2. answers' \in [Socket -> Nat]
    BY <1>0, <1>2, <1>8 DEF ServeFails
  <2>3. QED
    BY <1>1, <1>2, <1>8, <2>1, <2>2, RunTypes DEF ServeFails, clientVars
<1>9. QED
  BY <1>3, <1>4, <1>5, <1>6, <1>7, <1>8 DEF RunStep

\* The first run of a processor and what the pool does with the second.
LEMMA PoolStepType ==
  ASSUME TypeOK, NEW s \in Socket,
         Accept(s) \/ Execute(s)
  PROVE  TypeOK'
<1>1. /\ Cardinality(Busy) \in Nat /\ workers \in Nat /\ workers <= MaximumPoolSize
      /\ Cardinality(Busy) <= workers /\ Accepting \in {Accepting, Rejected}
  BY BusyFinite DEF TypeOK
<1>2. CASE Accept(s)
  <2>1. Goes(s, "own", Spinning)
    BY <1>2 DEF Accept, Goes
  <2>2. /\ run' \in [Socket -> [own : RunState, pool : RunState]]
        /\ \A t \in Socket : run'[t]["pool"] = run[t]["pool"]
    BY <2>1, GoesType, RunTypes DEF Role
  <2>3. Busy' = Busy
    BY <2>2 DEF Busy
  <2>4. workQueue' \in Seq(Socket) /\ workers' \in Cardinality(Busy')..MaximumPoolSize
    BY <1>2, <2>3 DEF Accept, poolVars, TypeOK
  <2>5. /\ accept' \in {Accepting, Rejected} \cup {<<t>> : t \in Socket}
        /\ connection' \in [Socket -> {"none", "open", "closed"}]
    BY <1>2 DEF Accept, TypeOK
  <2>6. QED
    BY <1>2, <2>2, <2>4, <2>5 DEF Accept, clientVars, TypeOK
<1>3. CASE ExecuteOnNewWorker(s)
  <2>1. Goes(s, "pool", Spinning)
    BY <1>3 DEF ExecuteOnNewWorker, Goes
  <2>2. /\ run' \in [Socket -> [own : RunState, pool : RunState]]
        /\ \A t \in Socket \ {s} : run'[t]["pool"] = run[t]["pool"]
    BY <2>1, GoesType, RunTypes DEF Role
  <2>3. Busy' \subseteq Busy \cup {s}
    BY <2>2 DEF Busy
  <2>4. Cardinality(Busy') <= Cardinality(Busy) + 1 /\ Cardinality(Busy') \in Nat
    BY <2>3, BusyBounds
  <2>5. workers' = workers + 1 /\ workers + 1 <= MaximumPoolSize
    BY <1>1, <1>3, PoolAssumption DEF ExecuteOnNewWorker
  <2>6. workers' \in Cardinality(Busy')..MaximumPoolSize
    BY <1>1, <2>4, <2>5, PoolAssumption
  <2>7. QED
    BY <1>1, <1>3, <2>2, <2>6 DEF ExecuteOnNewWorker, clientVars, TypeOK
<1>4. CASE ExecuteLater(s)
  <2>1. Goes(s, "pool", Queued)
    BY <1>4 DEF ExecuteLater, Goes
  <2>2. /\ run' \in [Socket -> [own : RunState, pool : RunState]]
        /\ run'[s]["pool"] = Queued
        /\ \A t \in Socket \ {s} : run'[t]["pool"] = run[t]["pool"]
    BY <2>1, GoesType, RunTypes DEF Role
  <2>3. Busy' \subseteq Busy
    BY <2>2 DEF Busy, Queued, Run, Working
  <2>4. Cardinality(Busy') <= Cardinality(Busy) /\ Cardinality(Busy') \in Nat
    BY <2>3, BusyBounds
  <2>5. workers' \in Cardinality(Busy')..MaximumPoolSize
    BY <1>1, <1>4, <2>4, PoolAssumption DEF ExecuteLater
  <2>6. Append(workQueue, s) \in Seq(Socket)
    BY DEF TypeOK
  <2>7. QED
    BY <1>1, <1>4, <2>2, <2>5, <2>6 DEF ExecuteLater, clientVars, TypeOK
<1>5. CASE Reject(s)
  <2>1. Busy' = Busy
    BY <1>5 DEF Reject, Busy
  <2>2. QED
    BY <1>5, <2>1 DEF Reject, clientVars, poolVars, TypeOK
<1>6. QED
  BY <1>2, <1>3, <1>4, <1>5 DEF Execute

LEMMA WorkerStepType ==
  ASSUME TypeOK, WorkerTakes \/ WorkerLeaves
  PROVE  TypeOK'
<1>1. /\ Cardinality(Busy) \in Nat /\ workers \in Nat /\ workers <= MaximumPoolSize
      /\ Cardinality(Busy) <= workers
  BY BusyFinite DEF TypeOK
<1>2. CASE WorkerTakes
  <2> DEFINE s == Head(workQueue)
  <2>1. s \in Socket /\ Tail(workQueue) \in Seq(Socket)
    BY <1>2 DEF WorkerTakes, TypeOK
  <2>2. Goes(s, "pool", Spinning)
    BY <1>2 DEF WorkerTakes, Goes
  <2> HIDE DEF s
  <2>3. /\ run' \in [Socket -> [own : RunState, pool : RunState]]
        /\ \A t \in Socket \ {s} : run'[t]["pool"] = run[t]["pool"]
    BY <2>1, <2>2, GoesType, RunTypes DEF Role
  <2>4. Busy' \subseteq Busy \cup {s}
    BY <2>3 DEF Busy
  <2>5. Cardinality(Busy') <= Cardinality(Busy) + 1 /\ Cardinality(Busy') \in Nat
    BY <2>1, <2>4, BusyBounds
  <2>6. workers' \in Cardinality(Busy')..MaximumPoolSize
    BY <1>1, <1>2, <2>5, PoolAssumption DEF WorkerTakes
  <2>7. QED
    BY <1>2, <2>1, <2>3, <2>6 DEF WorkerTakes, clientVars, TypeOK
<1>3. CASE WorkerLeaves
  <2>1. Busy' = Busy
    BY <1>3 DEF WorkerLeaves, Busy
  <2>2. QED
    BY <1>1, <1>3, <2>1, PoolAssumption DEF WorkerLeaves, clientVars, TypeOK
<1>4. QED
  BY <1>2, <1>3

LEMMA TypeStep == TypeOK /\ [Next]_vars => TypeOK'
<1> SUFFICES ASSUME TypeOK, [Next]_vars PROVE TypeOK'
  OBVIOUS
<1>1. ASSUME UNCHANGED <<accept, connection, kindOf, answers, run, poolVars>>,
             unsent' \in [Socket -> Data], unread' \in [Socket -> Data],
             gone' \subseteq Socket
      PROVE  TypeOK'
  <2>1. Busy' = Busy
    BY <1>1 DEF Busy
  <2>2. QED
    BY <1>1, <2>1 DEF TypeOK, poolVars
<1>2. ASSUME NEW s \in Socket, Send(s) PROVE TypeOK'
  <2>1. unsent[s] \in Data /\ unsent[s] # <<>> /\ unread[s] \in Data
    BY <1>2 DEF Send, TypeOK
  <2>2. Tail(unsent[s]) \in Data /\ Append(unread[s], Head(unsent[s])) \in Data
    BY <2>1 DEF Data
  <2>3. unsent' \in [Socket -> Data] /\ unread' \in [Socket -> Data]
    BY <1>2, <2>2 DEF Send, TypeOK
  <2>4. QED
    BY <1>1, <1>2, <2>3 DEF Send, TypeOK
<1>3. ASSUME NEW s \in Socket, GiveUp(s) PROVE TypeOK'
  BY <1>1, <1>3 DEF GiveUp, TypeOK
<1>4. CASE UNCHANGED vars
  BY <1>1, <1>4 DEF vars, clientVars, TypeOK
<1>5. QED
  BY <1>2, <1>3, <1>4, RunStepType, PoolStepType, WorkerStepType DEF Next

\* Theorem: sockets, processors and the pool keep their types; the pool stays within
\* its bounds (TypeOK).
THEOREM TypeCorrect == Spec => []TypeOK
  BY TypeInit, TypeStep, PTL DEF Spec

-----------------------------------------------------------------------------
(***************************************************************************)
(* The inductive invariant.  Each part of a request is in one place: not   *)
(* sent, not read, or read by one of the two runs.  A run that understands *)
(* a request therefore holds all of it, and leaves nothing to the other.   *)
(***************************************************************************)
Holds(s, r) == IF run[s][r].at = "serve" THEN Len(run[s][r].data) ELSE 0

Left(s) == Len(unsent[s]) + Len(unread[s]) + Holds(s, "own") + Holds(s, "pool")

AnswerInv(s) ==
    /\ answers[s] \in {0, 1}
    /\ answers[s] = 0 => Left(s) <= Len(Parts(s))
    /\ answers[s] = 1 => Left(s) = 0
    /\ \A r \in Role : /\ run[s][r].at = "serve" => run[s][r].data # <<>>
                       /\ run[s][r].at = "close" => answers[s] = 1
    /\ connection[s] = "closed" => answers[s] = 1

IInv == \A s \in Socket : AnswerInv(s)

LEMMA Sums ==
  ASSUME NEW a \in Nat, NEW b \in Nat, NEW c \in Nat, NEW d \in Nat
  PROVE  /\ a + b + c + d \in Nat
         /\ \A w, x, y, z \in Nat :
                w + x <= a + b /\ y <= c /\ z <= d => w + x + y + z <= a + b + c + d
  OBVIOUS

LEMMA Lengths ==
  ASSUME TypeOK, NEW s \in Socket
  PROVE  /\ Len(unsent[s]) \in Nat /\ Len(unread[s]) \in Nat /\ Len(Parts(s)) \in Nat
         /\ \A r \in Role : /\ run[s][r] \in RunState /\ Holds(s, r) \in Nat
                            /\ Len(run[s][r].data) \in Nat
                            /\ run[s][r].data # <<>> => Len(run[s][r].data) > 0
         /\ Holds(s, "own") \in Nat /\ Holds(s, "pool") \in Nat /\ Left(s) \in Nat
<1>1. \A d \in Data : Len(d) \in Nat /\ (d # <<>> => Len(d) > 0)
  BY DEF Data
<1>2. \A r \in Role : run[s][r] \in RunState /\ run[s][r].data \in Data
  BY DEF TypeOK, Role, RunState
<1>3. Len(unsent[s]) \in Nat /\ Len(unread[s]) \in Nat /\ Len(Parts(s)) \in Nat
  BY <1>1, PartsType DEF TypeOK
<1>4. \A r \in Role : Holds(s, r) \in Nat
  BY <1>1, <1>2 DEF Holds
<1>5. \A r \in Role : /\ Len(run[s][r].data) \in Nat
                       /\ run[s][r].data # <<>> => Len(run[s][r].data) > 0
  BY <1>1, <1>2
<1>6. Holds(s, "own") \in Nat /\ Holds(s, "pool") \in Nat
  BY <1>4 DEF Role
<1>7. Left(s) \in Nat
  BY <1>3, <1>6, Sums DEF Left
<1>8. QED
  BY <1>2, <1>3, <1>4, <1>5, <1>6, <1>7

LEMMA LeftNext ==
  ASSUME TypeOK', NEW s \in Socket
  PROVE  Left(s)' \in Nat
<1>1. \A d \in Data : Len(d) \in Nat
  BY DEF Data
<1>2. Len(unsent'[s]) \in Nat /\ Len(unread'[s]) \in Nat
  BY <1>1 DEF TypeOK
<1>3. \A r \in Role : run'[s][r].data \in Data
  BY DEF TypeOK, Role, RunState
<1>4. \A r \in Role : Holds(s, r)' \in Nat
  BY <1>1, <1>3 DEF Holds
<1>5. Holds(s, "own")' \in Nat /\ Holds(s, "pool")' \in Nat
  BY <1>4 DEF Role
<1>6. QED
  BY <1>2, <1>5, Sums DEF Left

LEMMA IInvInit == Init => IInv
<1> SUFFICES ASSUME Init, NEW s \in Socket PROVE AnswerInv(s)
  BY DEF IInv
<1>1. TypeOK
  BY TypeInit
<1>2. /\ Len(unread[s]) = 0 /\ unsent[s] = Parts(s) /\ answers[s] = 0
      /\ \A r \in Role : run[s][r].at = "none"
      /\ connection[s] = "none"
  BY DEF Init, Role, NotYet, Run
<1>3. Left(s) = Len(Parts(s))
  <2>1. Holds(s, "own") = 0 /\ Holds(s, "pool") = 0
    BY <1>2 DEF Holds, Role
  <2>2. Len(Parts(s)) \in Nat
    BY <1>1, Lengths
  <2>3. QED
    BY <1>2, <2>1, <2>2 DEF Left
<1>4. QED
  BY <1>1, <1>2, <1>3, Lengths DEF AnswerInv

\* A socket whose own state a step leaves alone, or moves between unsent and unread.
LEMMA Undisturbed ==
  ASSUME TypeOK, TypeOK', IInv, NEW s \in Socket,
         answers'[s] = answers[s], connection'[s] = "closed" => connection[s] = "closed",
         Len(unsent'[s]) + Len(unread'[s]) <= Len(unsent[s]) + Len(unread[s]),
         Left(s)' \in Nat, kindOf' = kindOf,
         \A r \in Role : run'[s][r] = run[s][r] \/ run'[s][r].at \notin {"serve", "close"}
  PROVE  AnswerInv(s)'
<1>1. AnswerInv(s) /\ Parts(s)' = Parts(s)
  BY DEF IInv, Parts
<1>2. \A r \in Role : Holds(s, r)' \in Nat /\ Holds(s, r)' <= Holds(s, r)
  <2> SUFFICES ASSUME NEW r \in Role PROVE Holds(s, r)' \in Nat /\ Holds(s, r)' <= Holds(s, r)
    OBVIOUS
  <2>1. Holds(s, r) \in Nat
    BY Lengths
  <2>2. CASE run'[s][r] = run[s][r]
    <3>1. Holds(s, r)' = Holds(s, r)
      BY <2>2 DEF Holds
    <3>2. QED
      BY <2>1, <3>1
  <2>3. CASE run'[s][r].at \notin {"serve", "close"}
    <3>1. Holds(s, r)' = 0
      BY <2>3 DEF Holds
    <3>2. QED
      BY <2>1, <3>1
  <2>4. QED
    BY <2>2, <2>3
<1>3. /\ Holds(s, "own")' \in Nat /\ Holds(s, "own")' <= Holds(s, "own")
      /\ Holds(s, "pool")' \in Nat /\ Holds(s, "pool")' <= Holds(s, "pool")
  BY <1>2 DEF Role
<1>4. Len(unsent'[s]) \in Nat /\ Len(unread'[s]) \in Nat
  <2>1. unsent'[s] \in Data /\ unread'[s] \in Data
    BY DEF TypeOK
  <2>2. QED
    BY <2>1 DEF Data
<1>5. Left(s)' = Len(unsent'[s]) + Len(unread'[s]) + Holds(s, "own")' + Holds(s, "pool")'
  BY DEF Left
<1>6. Left(s)' <= Left(s) /\ Left(s) \in Nat /\ Len(Parts(s)) \in Nat
  <2>1. /\ Left(s) = Len(unsent[s]) + Len(unread[s]) + Holds(s, "own") + Holds(s, "pool")
        /\ Len(unsent[s]) \in Nat /\ Len(unread[s]) \in Nat /\ Len(Parts(s)) \in Nat
        /\ Holds(s, "own") \in Nat /\ Holds(s, "pool") \in Nat
    BY Lengths DEF Left
  <2> DEFINE a == Len(unsent[s])   w == Len(unsent'[s])
             b == Len(unread[s])   x == Len(unread'[s])
             c == Holds(s, "own")  y == Holds(s, "own")'
             d == Holds(s, "pool") z == Holds(s, "pool")'
  <2>2. /\ a \in Nat /\ b \in Nat /\ c \in Nat /\ d \in Nat
        /\ w \in Nat /\ x \in Nat /\ y \in Nat /\ z \in Nat
        /\ w + x <= a + b /\ y <= c /\ z <= d
        /\ Left(s) = a + b + c + d /\ Left(s)' = w + x + y + z
    BY <1>3, <1>4, <1>5, <2>1
  <2> HIDE DEF a, b, c, d, w, x, y, z
  <2>3. Left(s)' <= Left(s) /\ Left(s) \in Nat
    BY <2>2, Sums
  <2>4. QED
    BY <2>1, <2>3
<1>7. \A r \in Role : /\ run'[s][r].at = "serve" => run'[s][r].data # <<>>
                      /\ run'[s][r].at = "close" => answers'[s] = 1
  BY <1>1 DEF AnswerInv
<1>8. QED
  BY <1>1, <1>6, <1>7 DEF AnswerInv

LEMMA KindKept == [Next]_vars => kindOf' = kindOf
  BY DEF Next, Send, GiveUp, Accept, Execute, ExecuteOnNewWorker, ExecuteLater, Reject,
         WorkerTakes, WorkerLeaves, RunStep, SeeInput, SeeClosed, Read, ReadEnd,
         ServeNothing, Serve, ServeFails, Close, clientVars, vars

\* A step of a run changes nothing that belongs to another socket or run.
LEMMA RunStepFrame ==
  ASSUME TypeOK, NEW s \in Socket, NEW r \in Role, RunStep(s, r)
  PROVE  /\ UNCHANGED unsent
         /\ \A t \in Socket \ {s} :
                /\ answers'[t] = answers[t] /\ connection'[t] = connection[t]
                /\ unread'[t] = unread[t] /\ \A q \in Role : run'[t][q] = run[t][q]
         /\ \A q \in Role \ {r} : run'[s][q] = run[s][q]
<1>1. \E next \in RunState : Goes(s, r, next)
  <2>1. CASE Read(s, r)
    BY <2>1, ReadSplits, RunTypes
  <2>2. CASE SeeInput(s, r)
    <3>1. Len(unread[s]) \in Nat
      BY Lengths
    <3>2. QED
      BY <2>2, <3>1, RunTypes DEF SeeInput
  <2>3. CASE ~Read(s, r) /\ ~SeeInput(s, r)
    BY <2>3, RunTypes DEF RunStep, SeeClosed, ReadEnd, ServeNothing, Serve, ServeFails,
                             Close
  <2>4. QED
    BY <2>1, <2>2, <2>3
<1>2. /\ \A t \in Socket \ {s}, q \in Role : run'[t][q] = run[t][q]
      /\ \A q \in Role \ {r} : run'[s][q] = run[s][q]
  BY <1>1, GoesType
<1>3. UNCHANGED unsent
  BY DEF RunStep, SeeInput, SeeClosed, Read, ReadEnd, ServeNothing, Serve, ServeFails,
         Close, clientVars
<1>4. \A t \in Socket \ {s} : /\ answers'[t] = answers[t] /\ connection'[t] = connection[t]
                              /\ unread'[t] = unread[t]
  BY DEF TypeOK, RunStep, SeeInput, SeeClosed, Read, ReadEnd, ServeNothing, Serve,
         ServeFails, Close
<1>5. QED
  BY <1>2, <1>3, <1>4

LEMMA RunStepInv ==
  ASSUME TypeOK, TypeOK', IInv, NEW s \in Socket, NEW r \in Role, RunStep(s, r)
  PROVE  AnswerInv(s)'
<1>0. kindOf' = kindOf
  BY KindKept DEF Next
<1>1. /\ AnswerInv(s) /\ Parts(s)' = Parts(s) /\ unsent' = unsent
      /\ \A q \in Role \ {r} : run'[s][q] = run[s][q]
      /\ Left(s)' \in Nat
  BY <1>0, LeftNext, RunStepFrame DEF IInv, Parts
<1>2. CASE SeeInput(s, r) \/ SeeClosed(s, r) \/ ReadEnd(s, r) \/ ServeNothing(s, r)
  <2>1. \E next \in RunState : Goes(s, r, next) /\ next.at \in {"read", "end"}
    <3>1. CASE SeeInput(s, r)
      <4>0. Len(unread[s]) \in Nat
        BY Lengths
      <4>1. Run("read", Len(unread[s]), <<>>) \in RunState
        BY <4>0, RunTypes
      <4>2. QED
        BY <3>1, <4>1 DEF SeeInput, Run
    <3>2. CASE ~SeeInput(s, r)
      BY <1>2, <3>2, RunTypes DEF SeeClosed, ReadEnd, ServeNothing, Over, Run
    <3>3. QED
      BY <3>1, <3>2
  <2>2. run'[s][r].at \notin {"serve", "close"}
    BY <2>1, GoesType
  <2>3. answers' = answers /\ connection' = connection /\ unread' = unread
    BY <1>2 DEF SeeInput, SeeClosed, ReadEnd, ServeNothing
  <2>4. Len(unsent'[s]) + Len(unread'[s]) <= Len(unsent[s]) + Len(unread[s])
    BY <1>1, <2>3, Lengths
  <2>5. QED
    BY <1>0, <1>1, <2>2, <2>3, <2>4, Undisturbed
<1>3. CASE Read(s, r)
  <2>1. PICK d, rest \in Data :
            /\ Goes(s, r, Run("serve", 0, d))
            /\ unread' = [unread EXCEPT ![s] = rest]
            /\ d # <<>> /\ Len(d) + Len(rest) = Len(unread[s])
    BY <1>3, ReadSplits
  <2>2. run'[s][r] = Run("serve", 0, d) /\ unread'[s] = rest
    BY <2>1, GoesType, RunTypes DEF TypeOK
  <2>3. Holds(s, r)' = Len(d) /\ Holds(s, r) = 0
    BY <1>3, <2>2 DEF Holds, Run, Read
  <2>4. \A q \in Role \ {r} : Holds(s, q)' = Holds(s, q)
    BY <1>1 DEF Holds
  <2>5. Left(s)' = Left(s)
    <3> DEFINE a == Len(unsent[s])  b == Len(unread[s])  m == Len(d)  n == Len(rest)
               c == Holds(s, "own")   y == Holds(s, "own")'
               e == Holds(s, "pool")  z == Holds(s, "pool")'
    <3>1. /\ a \in Nat /\ b \in Nat /\ c \in Nat /\ e \in Nat /\ m \in Nat /\ n \in Nat
          /\ m + n = b
      BY <2>1, Lengths DEF Data
    <3>2. Left(s) = a + b + c + e /\ Left(s)' = a + n + y + z
      BY <1>1, <2>2 DEF Left
    <3>3. (y = m /\ c = 0 /\ z = e) \/ (z = m /\ e = 0 /\ y = c)
      BY <2>3, <2>4 DEF Role
    <3> HIDE DEF a, b, c, e, m, n, y, z
    <3>4. QED
      BY <3>1, <3>2, <3>3
  <2>6. answers' = answers /\ connection' = connection
    BY <1>3 DEF Read
  <2>7. \A q \in Role : /\ run'[s][q].at = "serve" => run'[s][q].data # <<>>
                        /\ run'[s][q].at = "close" => answers'[s] = 1
    BY <1>1, <2>1, <2>2, <2>6 DEF AnswerInv, Run
  <2>8. QED
    BY <1>1, <2>5, <2>6, <2>7 DEF AnswerInv
<1>4. CASE Serve(s, r) \/ ServeFails(s, r)
  <2>1. /\ run[s][r].at = "serve" /\ run[s][r].data = Parts(s) /\ Parts(s) # <<>>
        /\ answers'[s] \in {answers[s], answers[s] + 1} /\ answers[s] \in Nat
        /\ unread' = unread /\ connection' = connection /\ connection[s] = "open"
    BY <1>1, <1>4 DEF Serve, ServeFails, Understood, AnswerInv, TypeOK
  <2>2. \/ run'[s][r].at = "close" /\ answers'[s] = answers[s] + 1
        \/ run'[s][r].at = "fail"
    <3>1. CASE Serve(s, r)
      <4>1. run'[s][r] = Run("close", 0, <<>>) /\ answers'[s] = answers[s] + 1
        BY <3>1, GoesType, RunTypes DEF Serve, TypeOK
      <4>2. QED
        BY <4>1 DEF Run
    <3>2. CASE ServeFails(s, r)
      <4>1. run'[s][r] = Failed
        BY <3>2, GoesType, RunTypes DEF ServeFails
      <4>2. QED
        BY <4>1 DEF Failed, Run
    <3>3. QED
      BY <1>4, <3>1, <3>2
  <2>3. /\ Holds(s, r) = Len(Parts(s)) /\ Holds(s, r)' = 0 /\ Len(Parts(s)) > 0
        /\ \A q \in Role \ {r} : Holds(s, q)' = Holds(s, q)
    BY <1>1, <2>1, <2>2, Lengths DEF Holds
  <2>5. Left(s) = Left(s)' + Len(Parts(s))
    <3> DEFINE a == Len(unsent[s])  b == Len(unread[s])  m == Len(Parts(s))
               c == Holds(s, "own")   y == Holds(s, "own")'
               e == Holds(s, "pool")  z == Holds(s, "pool")'
    <3>1. a \in Nat /\ b \in Nat /\ c \in Nat /\ e \in Nat /\ m \in Nat
      BY Lengths
    <3>2. Left(s) = a + b + c + e /\ Left(s)' = a + b + y + z
      BY <1>1, <2>1 DEF Left
    <3>3. (y = 0 /\ c = m /\ z = e) \/ (z = 0 /\ e = m /\ y = c)
      BY <2>3 DEF Role
    <3> HIDE DEF a, b, c, e, m, y, z
    <3>4. Left(s) = Left(s)' + m
      BY <3>1, <3>2, <3>3
    <3>5. QED
      BY <3>4 DEF m
  <2>6. answers[s] = 0 /\ Left(s)' = 0
    BY <1>1, <2>3, <2>5, Lengths DEF AnswerInv
  <2>7. \A q \in Role : /\ run'[s][q].at = "serve" => run'[s][q].data # <<>>
                        /\ run'[s][q].at = "close" => answers'[s] = 1
    BY <1>1, <2>1, <2>2, <2>6 DEF AnswerInv
  <2>8. QED
    BY <2>1, <2>6, <2>7 DEF AnswerInv
<1>5. CASE Close(s, r)
  <2>1. answers[s] = 1 /\ answers' = answers /\ unread' = unread
    BY <1>1, <1>5 DEF Close, AnswerInv
  <2>2. run'[s][r].at = "end"
    <3>1. run'[s][r] = Over
      BY <1>5, GoesType, RunTypes DEF Close
    <3>2. QED
      BY <3>1 DEF Over, Run
  <2>3. \A q \in Role : Holds(s, q)' = Holds(s, q)
    <3>1. Holds(s, r)' = 0 /\ Holds(s, r) = 0
      BY <1>5, <2>2 DEF Holds, Close
    <3>2. QED
      BY <1>1, <3>1 DEF Holds
  <2>4. Left(s)' = Left(s)
    BY <1>1, <2>1, <2>3 DEF Left, Role
  <2>5. \A q \in Role : /\ run'[s][q].at = "serve" => run'[s][q].data # <<>>
                        /\ run'[s][q].at = "close" => answers'[s] = 1
    BY <1>1, <2>1, <2>2 DEF AnswerInv
  <2>6. QED
    BY <1>1, <2>1, <2>4, <2>5 DEF AnswerInv
<1>6. QED
  BY <1>2, <1>3, <1>4, <1>5 DEF RunStep

\* A step of the clients, of the main thread or of the pool.
LEMMA OtherStepInv ==
  ASSUME TypeOK, TypeOK', IInv, NEW s \in Socket,
         \/ \E t \in Socket : Send(t) \/ GiveUp(t) \/ Accept(t) \/ Execute(t)
         \/ WorkerTakes \/ WorkerLeaves \/ UNCHANGED vars
  PROVE  AnswerInv(s)'
<1>1. answers' = answers
  BY DEF Send, GiveUp, Accept, Execute, ExecuteOnNewWorker, ExecuteLater, Reject,
         WorkerTakes, WorkerLeaves, vars
<1>2. connection'[s] = "closed" => connection[s] = "closed"
  BY DEF Send, GiveUp, Accept, Execute, ExecuteOnNewWorker, ExecuteLater, Reject,
         WorkerTakes, WorkerLeaves, vars, TypeOK
<1>3. Left(s)' \in Nat
  BY LeftNext
<1>4. Len(unsent'[s]) + Len(unread'[s]) <= Len(unsent[s]) + Len(unread[s])
  <2>0. /\ unsent[s] \in Data /\ unread[s] \in Data
        /\ Len(unsent[s]) \in Nat /\ Len(unread[s]) \in Nat
    BY Lengths DEF TypeOK
  <2>1. CASE Send(s)
    <3>1. /\ unsent'[s] = Tail(unsent[s]) /\ unsent[s] # <<>>
          /\ unread'[s] = Append(unread[s], Head(unsent[s]))
      BY <2>1 DEF Send, TypeOK
    <3>2. /\ Len(Tail(unsent[s])) = Len(unsent[s]) - 1
          /\ Len(Append(unread[s], Head(unsent[s]))) = Len(unread[s]) + 1
      BY <2>0, <3>1 DEF Data
    <3> DEFINE a == Len(unsent[s])  b == Len(unread[s])
    <3>3. Len(unsent'[s]) = a - 1 /\ Len(unread'[s]) = b + 1 /\ a \in Nat /\ b \in Nat
      BY <2>0, <3>1, <3>2
    <3> HIDE DEF a, b
    <3>4. Len(unsent'[s]) + Len(unread'[s]) <= a + b
      BY <3>3
    <3>5. QED
      BY <3>4 DEF a, b
  <2>2. CASE ~Send(s)
    <3>1. unsent'[s] = unsent[s] /\ unread'[s] = unread[s]
      BY <2>2 DEF Send, GiveUp, Accept, Execute, ExecuteOnNewWorker, ExecuteLater, Reject,
                  WorkerTakes, WorkerLeaves, vars, clientVars, TypeOK
    <3>2. QED
      BY <2>0, <3>1
  <2>3. QED
    BY <2>1, <2>2
<1>5. \A r \in Role : run'[s][r] = run[s][r] \/ run'[s][r].at \notin {"serve", "close"}
  <2>1. CASE UNCHANGED run
    BY <2>1
  <2>2. CASE ~UNCHANGED run
    <3>1. \E t \in Socket, q \in Role, next \in {Spinning, Queued} : Goes(t, q, next)
      <4>1. CASE WorkerTakes
        <5>1. Head(workQueue) \in Socket
          BY <4>1 DEF WorkerTakes, TypeOK
        <5>2. QED
          BY <4>1, <5>1 DEF WorkerTakes, Goes, Role
      <4>2. CASE ~WorkerTakes
        BY <2>2, <4>2 DEF Send, GiveUp, Accept, Execute, ExecuteOnNewWorker, ExecuteLater,
                          Reject, WorkerLeaves, vars, Goes, Role
      <4>3. QED
        BY <4>1, <4>2
    <3>2. PICK t \in Socket, q \in Role, next \in {Spinning, Queued} : Goes(t, q, next)
      BY <3>1
    <3>3. next \in RunState /\ next.at \in {"spin", "queued"}
      BY RunTypes DEF Spinning, Queued, Run
    <3>4. /\ run'[t][q] = next
          /\ \A u \in Socket, r \in Role : u # t \/ r # q => run'[u][r] = run[u][r]
      BY <3>2, <3>3, GoesType
    <3>5. QED
      BY <3>3, <3>4
  <2>3. QED
    BY <2>1, <2>2
<1>6. kindOf' = kindOf
  BY KindKept DEF Next
<1>7. QED
  BY <1>1, <1>2, <1>3, <1>4, <1>5, <1>6, Undisturbed

LEMMA IInvStep == TypeOK /\ IInv /\ [Next]_vars => IInv'
<1> SUFFICES ASSUME TypeOK, IInv, [Next]_vars, NEW s \in Socket PROVE AnswerInv(s)'
  BY DEF IInv
<1>1. TypeOK'
  BY TypeStep
<1>2. ASSUME NEW t \in Socket, NEW r \in Role, RunStep(t, r) PROVE AnswerInv(s)'
  <2>1. CASE t = s
    BY <1>1, <1>2, <2>1, RunStepInv
  <2>2. CASE t # s
    <3>1. /\ unsent'[s] = unsent[s] /\ unread'[s] = unread[s] /\ answers'[s] = answers[s]
          /\ connection'[s] = connection[s] /\ \A q \in Role : run'[s][q] = run[s][q]
      BY <1>2, <2>2, RunStepFrame
    <3>2. Left(s)' \in Nat
      BY <1>1, LeftNext
    <3>3. Len(unsent'[s]) + Len(unread'[s]) <= Len(unsent[s]) + Len(unread[s])
      BY <3>1, Lengths
    <3>4. QED
      BY <1>1, <3>1, <3>2, <3>3, KindKept, Undisturbed
  <2>3. QED
    BY <2>1, <2>2
<1>3. QED
  BY <1>1, <1>2, OtherStepInv DEF Next

(***************************************************************************)
(* Bootstrap hands every processor to two threads; still no request is     *)
(* answered twice, and no socket is closed that was not answered.          *)
(***************************************************************************)
THEOREM AnswersCorrect == Spec => []AnsweredOnce
<1>1. IInv => AnsweredOnce
  BY DEF IInv, AnswerInv, AnsweredOnce
<1>2. QED
  BY <1>1, TypeInit, TypeStep, IInvInit, IInvStep, PTL DEF Spec
=============================================================================
