------------------------------- MODULE Minicat -------------------------------
(***************************************************************************)
(* The accept loop and the request processors of tomcat/Minicat.  Each     *)
(* accepted socket gets one RequestProcessor, a thread that Bootstrap      *)
(* starts and also hands to a thread pool: its run method runs twice, on   *)
(* the same socket.  Whoever reads the request first answers it and closes *)
(* the socket; an exception is swallowed and leaves the socket open.       *)
(***************************************************************************)
EXTENDS Integers, Sequences, FiniteSets, FiniteSetsExt

\* A request to a known host and context; one that run returns from before it
\* serves (unknown host or context, a path of fewer than three parts, two lines that
\* do not parse); one for a static file without content; one whose first two lines
\* arrive in two pieces; a connection on which nothing is sent.
Kind == {"good", "unknown", "empty", "torn", "silent"}

CONSTANTS
    Socket,
    Kinds,          \* what the clients of the sockets may send
    CorePoolSize, MaximumPoolSize, QueueCapacity

ASSUME SocketAssumption == IsFiniteSet(Socket) /\ Kinds \subseteq [Socket -> Kind]

ASSUME PoolAssumption ==
    /\ CorePoolSize \in Nat \ {0} /\ MaximumPoolSize \in Nat /\ QueueCapacity \in Nat
    /\ CorePoolSize <= MaximumPoolSize

VARIABLES
    accept,         \* what the main thread does; Rejected once it has ended
    connection,     \* per socket
    kindOf,         \* what the client of each socket sends
    unsent, unread, \* parts of the request not sent, and sent but not read
    gone,           \* clients that have closed their end
    answers,        \* answers written, per socket
    run,            \* the two runs of the processor, per socket
    workQueue,
    workers         \* threads of the pool, idle ones included

clientVars == <<kindOf, unsent, gone>>
poolVars == <<workQueue, workers>>
vars == <<accept, connection, clientVars, unread, answers, run, poolVars>>

Accepting == <<>>
Rejected == <<"rejected">>

Parts(s) ==
    CASE kindOf[s] = "torn" -> <<"first", "second">>
      [] kindOf[s] = "silent" -> <<>>
      [] OTHER -> <<"whole">>

Run(at, n, data) == [at |-> at, count |-> n, data |-> data]
NotYet == Run("none", 0, <<>>)
Queued == Run("queued", 0, <<>>)
Spinning == Run("spin", 0, <<>>)
Over == Run("end", 0, <<>>)
Failed == Run("fail", 0, <<>>)
Working == {"spin", "read", "serve", "close"}
Data == Seq({"whole", "first", "second"})
RunState == [at : Working \cup {"none", "queued", "end", "fail"}, count : Nat, data : Data]

Busy == {s \in Socket : run[s].pool.at \in Working}

TypeOK ==
    /\ accept \in {Accepting, Rejected} \cup {<<s>> : s \in Socket}
    /\ connection \in [Socket -> {"none", "open", "closed"}]
    /\ kindOf \in Kinds
    /\ unsent \in [Socket -> Data] /\ unread \in [Socket -> Data]
    /\ gone \subseteq Socket
    /\ answers \in [Socket -> Nat]
    /\ run \in [Socket -> [own : RunState, pool : RunState]]
    /\ workQueue \in Seq(Socket)
    /\ workers \in Cardinality(Busy)..MaximumPoolSize

Init ==
    /\ accept = Accepting
    /\ connection = [s \in Socket |-> "none"]
    /\ kindOf \in Kinds
    /\ unsent = [s \in Socket |-> Parts(s)]
    /\ unread = [s \in Socket |-> <<>>]
    /\ gone = {}
    /\ answers = [s \in Socket |-> 0]
    /\ run = [s \in Socket |-> [own |-> NotYet, pool |-> NotYet]]
    /\ workQueue = <<>>
    /\ workers = 0

-----------------------------------------------------------------------------
(***************************************************************************)
(* Clients                                                                 *)
(***************************************************************************)

Send(s) ==
    /\ connection[s] = "open"
    /\ s \notin gone
    /\ unsent[s] # <<>>
    /\ unsent' = [unsent EXCEPT ![s] = Tail(@)]
    /\ unread' = [unread EXCEPT ![s] = Append(@, Head(unsent[s]))]
    /\ UNCHANGED <<accept, connection, kindOf, gone, answers, run, poolVars>>

\* The server cannot tell whether a silent client has left.
GiveUp(s) ==
    /\ connection[s] = "open"
    /\ kindOf[s] # "silent"
    /\ gone' = gone \cup {s}
    /\ UNCHANGED <<accept, connection, kindOf, unsent, unread, answers, run,
                   poolVars>>

-----------------------------------------------------------------------------
(***************************************************************************)
(* Bootstrap.start and its ThreadPoolExecutor                              *)
(***************************************************************************)

\* start() begins the first run.
Accept(s) ==
    /\ accept = Accepting
    /\ connection[s] = "none"
    /\ accept' = <<s>>
    /\ connection' = [connection EXCEPT ![s] = "open"]
    /\ run' = [run EXCEPT ![s].own = Spinning]
    /\ UNCHANGED <<clientVars, unread, answers, poolVars>>

\* Fault: a new worker whenever none is idle.
ExecuteBeyondCore(s) ==
    /\ accept = <<s>>
    /\ \/ workers < CorePoolSize
       \/ Cardinality(Busy) = workers
    /\ workers' = workers + 1
    /\ run' = [run EXCEPT ![s].pool = Spinning]
    /\ accept' = Accepting
    /\ UNCHANGED <<connection, clientVars, unread, answers, workQueue>>

ExecuteOnNewWorker(s) ==
    /\ accept = <<s>>
    /\ \/ workers < CorePoolSize
       \/ Len(workQueue) = QueueCapacity /\ workers < MaximumPoolSize
    /\ workers' = workers + 1
    /\ run' = [run EXCEPT ![s].pool = Spinning]
    /\ accept' = Accepting
    /\ UNCHANGED <<connection, clientVars, unread, answers, workQueue>>

ExecuteLater(s) ==
    /\ accept = <<s>>
    /\ workers >= CorePoolSize
    /\ Len(workQueue) < QueueCapacity
    /\ workQueue' = Append(workQueue, s)
    /\ run' = [run EXCEPT ![s].pool = Queued]
    /\ accept' = Accepting
    /\ UNCHANGED <<connection, clientVars, unread, answers, workers>>

\* AbortPolicy throws out of the accept loop, and out of start.
Reject(s) ==
    /\ accept = <<s>>
    /\ workers = MaximumPoolSize
    /\ Len(workQueue) = QueueCapacity
    /\ accept' = Rejected
    /\ UNCHANGED <<connection, clientVars, unread, answers, run, poolVars>>

WorkerTakes ==
    /\ workQueue # <<>>
    /\ Cardinality(Busy) < workers
    /\ run' = [run EXCEPT ![Head(workQueue)].pool = Spinning]
    /\ workQueue' = Tail(workQueue)
    /\ UNCHANGED <<accept, connection, clientVars, unread, answers, workers>>

\* keepAliveTime
WorkerLeaves ==
    /\ workers > CorePoolSize
    /\ Cardinality(Busy) < workers
    /\ workQueue = <<>>
    /\ workers' = workers - 1
    /\ UNCHANGED <<accept, connection, clientVars, unread, answers, run, workQueue>>

-----------------------------------------------------------------------------
(***************************************************************************)
(* RequestProcessor.run, once as a thread of its own and once in the pool  *)
(***************************************************************************)

Goes(s, r, next) == run' = [run EXCEPT ![s][r] = next]

\* Request asks available() until it is not zero.  At the end of the stream it
\* stays zero.
SeeInput(s, r) ==
    /\ run[s][r] = Spinning
    /\ connection[s] = "open"
    /\ unread[s] # <<>>
    /\ Goes(s, r, Run("read", Len(unread[s]), <<>>))
    /\ UNCHANGED <<accept, connection, clientVars, unread, answers, poolVars>>

\* Fault: the exception of a closed socket makes the loop try again.
SpinOnClosed(s, r) ==
    /\ run[s][r].at \in {"spin", "read"}
    /\ connection[s] = "closed"
    /\ Goes(s, r, Spinning)
    /\ UNCHANGED <<accept, connection, clientVars, unread, answers, poolVars>>

\* On a socket that was closed, available and read throw, also while read waits.
SeeClosed(s, r) ==
    /\ run[s][r].at \in {"spin", "read"}
    /\ connection[s] = "closed"
    /\ Goes(s, r, Over)
    /\ UNCHANGED <<accept, connection, clientVars, unread, answers, poolVars>>

\* Fault: the bytes are looked at and left in the stream.
Peek(s, r) ==
    /\ run[s][r].at = "read"
    /\ connection[s] = "open"
    /\ unread[s] # <<>>
    /\ Goes(s, r, Run("serve", 0, unread[s]))
    /\ UNCHANGED <<accept, connection, clientVars, unread, answers, poolVars>>

\* read takes what is there, up to the count seen.  The other run may have taken
\* it meanwhile; then read waits.
Read(s, r) ==
    LET n == Min({run[s][r].count, Len(unread[s])}) IN
    /\ run[s][r].at = "read"
    /\ connection[s] = "open"
    /\ n > 0
    /\ Goes(s, r, Run("serve", 0, SubSeq(unread[s], 1, n)))
    /\ unread' = [unread EXCEPT ![s] = SubSeq(@, n + 1, Len(@))]
    /\ UNCHANGED <<accept, connection, clientVars, answers, poolVars>>

ReadEnd(s, r) ==
    /\ run[s][r].at = "read"
    /\ unread[s] = <<>>
    /\ s \in gone
    /\ Goes(s, r, Over)
    /\ UNCHANGED <<accept, connection, clientVars, unread, answers, poolVars>>

Understood(s, data) == kindOf[s] # "unknown" /\ data = Parts(s)

\* outputStaticResource waits until the file has content: a run that serves an empty
\* one never ends, nor sees that the socket is closed.
Sendable(s) == kindOf[s] # "empty"

\* Half a request does not parse, an unknown host has no page, a socket that was
\* closed cannot be written: run ends, and the socket stays as it is.
ServeNothing(s, r) ==
    /\ run[s][r].at = "serve"
    /\ \/ ~Understood(s, run[s][r].data)
       \/ Sendable(s) /\ (s \in gone \/ connection[s] = "closed")
    /\ Goes(s, r, Over)
    /\ UNCHANGED <<accept, connection, clientVars, unread, answers, poolVars>>

\* Fault: run ends like this whatever it serves.
ServeAndLeaveOpen(s, r) ==
    /\ run[s][r].at = "serve"
    /\ Understood(s, run[s][r].data) /\ Sendable(s)
    /\ connection[s] = "open"
    /\ answers' = [answers EXCEPT ![s] = @ + 1]
    /\ Goes(s, r, Over)
    /\ UNCHANGED <<accept, connection, clientVars, unread, poolVars>>

Serve(s, r) ==
    /\ run[s][r].at = "serve"
    /\ Understood(s, run[s][r].data) /\ Sendable(s)
    /\ connection[s] = "open"
    /\ answers' = [answers EXCEPT ![s] = @ + 1]
    /\ Goes(s, r, Run("close", 0, <<>>))
    /\ UNCHANGED <<accept, connection, clientVars, unread, poolVars>>

\* The servlet or the output throws, before or after something was written.  run
\* swallows it, and the socket is left open.
ServeFails(s, r) ==
    /\ run[s][r].at = "serve"
    /\ Understood(s, run[s][r].data) /\ Sendable(s)
    /\ connection[s] = "open"
    /\ \E n \in {0, 1} : answers' = [answers EXCEPT ![s] = @ + n]
    /\ Goes(s, r, Failed)
    /\ UNCHANGED <<accept, connection, clientVars, unread, poolVars>>

Close(s, r) ==
    /\ run[s][r].at = "close"
    /\ connection' = [connection EXCEPT ![s] = "closed"]
    /\ Goes(s, r, Over)
    /\ UNCHANGED <<accept, clientVars, unread, answers, poolVars>>

Role == {"own", "pool"}

RunStep(s, r) ==
    \/ SeeInput(s, r) \/ SeeClosed(s, r) \/ Read(s, r) \/ ReadEnd(s, r)
    \/ ServeNothing(s, r) \/ Serve(s, r) \/ ServeFails(s, r) \/ Close(s, r)

Execute(s) == ExecuteOnNewWorker(s) \/ ExecuteLater(s) \/ Reject(s)

Next ==
    \/ \E s \in Socket :
        \/ Send(s) \/ GiveUp(s) \/ Accept(s) \/ Execute(s)
        \/ \E r \in Role : RunStep(s, r)
    \/ WorkerTakes \/ WorkerLeaves

Spec == Init /\ [][Next]_vars

\* Threads run.  Clients need not send what they began.
FairSpec ==
    /\ Spec
    /\ WF_vars(\E s \in Socket : Execute(s))
    /\ WF_vars(WorkerTakes)
    /\ \A s \in Socket, r \in Role : WF_vars(RunStep(s, r))

-----------------------------------------------------------------------------
\* Sockets on which a client may send a request of kind k.
MaySend(k) == {s \in Socket : \E f \in Kinds : f[s] = k}

(***************************************************************************)
(* Although every processor runs twice, a request is answered at most      *)
(* once, and the server closes a socket only after it has answered.        *)
(***************************************************************************)
AnsweredOnce ==
    \A s \in Socket :
        /\ answers[s] <= 1
        /\ connection[s] = "closed" => answers[s] = 1

(***************************************************************************)
(* A request that arrives in one piece and is for a known host and context *)
(* is answered and its socket closed once it is accepted, whatever happens *)
(* to the pool and although runs of other sockets may never end, unless    *)
(* the client gives up or serving this very request throws                 *)
(* (Bootstrap.start, RequestProcessor.run).                                *)
(***************************************************************************)
WholeRequestsServed ==
    \A s \in MaySend("good") :
        kindOf[s] = "good" /\ connection[s] = "open" /\ unsent[s] = <<>>
            ~> \/ connection[s] = "closed" \/ s \in gone
               \/ \E r \in Role : run[s][r] = Failed

(***************************************************************************)
(* When a socket has been closed, which takes a whole request or both      *)
(* parts of one, neither run of its processor stays on.                    *)
(* The one in the queue may wait: workers spin on sockets whose clients    *)
(* were not answered, or on empty files.                                   *)
(***************************************************************************)
RunsEnd ==
    \A s \in MaySend("good") \cup MaySend("torn") :
        connection[s] = "closed"
            ~> run[s].own = Over /\ run[s].pool \in {NotYet, Queued, Over}
=============================================================================
