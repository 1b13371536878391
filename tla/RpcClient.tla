------------------------------ MODULE RpcClient ------------------------------
(***************************************************************************)
(* The RPC client of zookeeper/zdy_rpc.  Callers share one proxy, and one  *)
(* ClientHandler per server.  A call puts its request into the handler,    *)
(* has the executor send it and waits on the handler's monitor until       *)
(* channelRead notifies somebody.  The servers are the children of a       *)
(* ZooKeeper node; a listener rebuilds the handler map at every change,    *)
(* while callers read it.                                                  *)
(***************************************************************************)
EXTENDS Integers, FiniteSets, Sequences

CONSTANTS
    Caller,         \* threads that call the proxy
    Server,         \* addresses host:port
    Conn,           \* ClientHandlers, each with its connection
    NoServer, NoConn,
    Threads,        \* size of the executor
    MaxCalls,       \* bound: calls of each caller
    MaxRequests,    \* bound: calls of all of them
    MaxChanges      \* bound: servers that stop, start or lose their session

ASSUME NamesAssumption ==
    NoServer \notin Server /\ NoConn \notin Conn /\ IsFiniteSet(Caller)
ASSUME RpcBoundsAssumption ==
    /\ Threads \in Nat /\ MaxCalls \in Nat
    /\ MaxRequests \in Nat /\ MaxChanges \in Nat

VARIABLES
    up,             \* servers whose process listens
    children,       \* servers with an ephemeral node
    zkBase,         \* the node /rpcServer they are children of exists
    zkClientUtil,   \* FALSE while the static field is null
    listener,       \* the child listener initClient subscribed, per caller
    event,          \* listeners with a child change they have not looked at
    handlerMap, handlerMapBak,      \* one operation on a HashMap is one step
    call,           \* a call of the proxy, per caller
    calls,          \* how many calls each caller has made
    peer, link, para, result,   \* per connection: its server, its state and
                                \* the two fields of ClientHandler
    requests, answers,          \* per connection: what is on its way
    spoilt,         \* what a connection has been through
    faults, changes

serverVars == <<up, children, zkBase>>
zkVars == <<zkClientUtil, listener, event>>
mapVars == <<handlerMap, handlerMapBak>>
callVars == <<call, calls>>
connVars == <<peer, link, para, result, requests, answers, spoilt>>
vars == <<serverVars, zkVars, mapVars, callVars, connVars, faults, changes>>

Request == Caller \X (1..MaxCalls)

Call(at, todo, s, k) == [at |-> at, todo |-> todo, server |-> s, conn |-> k]
Idle == Call("idle", {}, NoServer, NoConn)
Listen(at, todo, s, k) == Call(at, todo, s, k)
Unsubscribed == Listen("none", {}, NoServer, NoConn)
Quiet == Listen("idle", {}, NoServer, NoConn)

CallState ==
    {Idle} \cup {Call(at, {}, NoServer, NoConn) :
                        at \in {"init", "fill", "subscribe", "choose"}}
        \cup {Call("connect", todo, NoServer, NoConn) : todo \in SUBSET Server}
        \cup {Call("lookup", {}, s, NoConn) : s \in Server}
        \cup {Call(at, {}, NoServer, k) :
                    at \in {"submit", "wait", "woken"}, k \in Conn}
ListenerState ==
    {Unsubscribed, Quiet, Listen("fill", {}, NoServer, NoConn)}
        \cup {Listen(at, todo, NoServer, NoConn) :
                    at \in {"next", "check"}, todo \in SUBSET Server}
        \cup {Listen("reuse", todo, s, k) :
                    todo \in SUBSET Server, s \in Server, k \in Conn}
        \cup {Listen("connect", todo, s, NoConn) : todo \in SUBSET Server, s \in Server}
        \cup {Listen("close", todo, NoServer, k) : todo \in SUBSET Server, k \in Conn}

TypeOK ==
    /\ up \subseteq Server /\ children \subseteq Server /\ zkBase \in BOOLEAN
    /\ zkClientUtil \in BOOLEAN
    /\ listener \in [Caller -> ListenerState]
    /\ event \subseteq Caller
    /\ handlerMap \in [Server -> Conn \cup {NoConn}]
    /\ handlerMapBak \in [Server -> Conn \cup {NoConn}]
    /\ call \in [Caller -> CallState]
    /\ calls \in [Caller -> 0..MaxCalls]
    /\ peer \in [Conn -> Server \cup {NoServer}]
    /\ link \in [Conn -> {"unused", "new", "active", "lost", "closed"}]
    /\ para \in [Conn -> Request \cup {<<>>}]
    /\ result \in [Conn -> SUBSET Request]
    /\ requests \in [Conn -> Seq(Request)]
    /\ answers \in [Conn -> Seq(Request)]
    /\ spoilt \in [Conn -> SUBSET {"shared", "merged", "misread"}]
    /\ faults \subseteq {"no node", "two clients", "missed", "connect", "context"}
    /\ changes \in 0..MaxChanges

\* The static fields before the first call; some servers are already there.  The
\* first server ever makes /rpcServer.
Init ==
    /\ up \in SUBSET Server /\ children = up
    /\ zkBase \in BOOLEAN /\ (children # {} => zkBase)
    /\ zkClientUtil = FALSE
    /\ listener = [c \in Caller |-> Unsubscribed]
    /\ event = {}
    /\ handlerMap = [s \in Server |-> NoConn]
    /\ handlerMapBak = [s \in Server |-> NoConn]
    /\ call = [c \in Caller |-> Idle]
    /\ calls = [c \in Caller |-> 0]
    /\ peer = [k \in Conn |-> NoServer]
    /\ link = [k \in Conn |-> "unused"]
    /\ para = [k \in Conn |-> <<>>]
    /\ result = [k \in Conn |-> {}]
    /\ requests = [k \in Conn |-> <<>>]
    /\ answers = [k \in Conn |-> <<>>]
    /\ spoilt = [k \in Conn |-> {}]
    /\ faults = {} /\ changes = 0

Own(c) == <<c, calls[c]>>
Made == {r \in Request : r[2] <= calls[r[1]]}
Users(k) == {c \in Caller : call[c].conn = k}
Waiting(k) == {c \in Users(k) : call[c].at = "wait"}
Listed(map) == {s \in Server : map[s] # NoConn}
Listening == {c \in Caller : listener[c].at # "none"}
Initialising(c) == call[c].at \in {"connect", "fill", "subscribe"}

\* HashMap.putAll of the map into the backup
Filled == [s \in Server |-> IF handlerMap[s] = NoConn THEN handlerMapBak[s]
                                                     ELSE handlerMap[s]]
NoHandlers == [s \in Server |-> NoConn]

\* Connections that no map, no call and no listener refers to may be used again;
\* in the code they are garbage, or leaked and never heard of again.
Fresh == {k \in Conn : /\ Users(k) = {}
                       /\ \A c \in Caller : listener[c].conn # k
                       /\ \A s \in Server : k \notin {handlerMap[s], handlerMapBak[s]}}
NewConn == CHOOSE k \in Fresh : TRUE

\* RpcConsumer.connect: sync() returns once the socket is connected, which
\* may be before the event loop has run channelActive.
Connected(s) ==
    /\ Fresh # {}
    /\ peer' = [peer EXCEPT ![NewConn] = s]
    /\ link' = [link EXCEPT ![NewConn] = "new"]
    /\ para' = [para EXCEPT ![NewConn] = <<>>]
    /\ result' = [result EXCEPT ![NewConn] = {}]
    /\ requests' = [requests EXCEPT ![NewConn] = <<>>]
    /\ answers' = [answers EXCEPT ![NewConn] = <<>>]
    /\ spoilt' = [spoilt EXCEPT ![NewConn] = {}]
    /\ handlerMap' = [handlerMap EXCEPT ![s] = NewConn]

-----------------------------------------------------------------------------
(***************************************************************************)
(* A call of the proxy: RpcConsumer.invoke and initClient                  *)
(***************************************************************************)

Invoke(c) ==
    /\ call[c] = Idle
    /\ calls[c] < MaxCalls /\ Cardinality(Made) < MaxRequests
    /\ calls' = [calls EXCEPT ![c] = @ + 1]
    /\ call' = [call EXCEPT ![c] =
            Call(IF zkClientUtil THEN "choose" ELSE "init", {}, NoServer, NoConn)]
    /\ UNCHANGED <<serverVars, zkVars, mapVars, connVars, faults, changes>>

\* A second caller that saw the field null makes a second client.
Second == IF zkClientUtil THEN {"two clients"} ELSE {}

\* The field is set before anything is connected.
CreateZkClient(c) ==
    /\ call[c].at = "init"
    /\ zkBase
    /\ zkClientUtil' = TRUE
    /\ faults' = faults \cup Second
    /\ call' = [call EXCEPT ![c] = Call("connect", children, NoServer, NoConn)]
    /\ UNCHANGED <<serverVars, listener, event, mapVars, calls, connVars, changes>>

\* getServerList throws ZkNoNodeException, which only getServerList's own catch of
\* NumberFormatException meets.  The field is set: initClient will not run again.
NoServerList(c) ==
    /\ call[c].at = "init"
    /\ ~zkBase
    /\ zkClientUtil' = TRUE
    /\ faults' = faults \cup Second \cup {"no node"}
    /\ call' = [call EXCEPT ![c] = Idle]
    /\ UNCHANGED <<serverVars, listener, event, mapVars, calls, connVars, changes>>

InitConnect(c, s) ==
    /\ call[c].at = "connect"
    /\ s \in call[c].todo \cap up
    /\ Connected(s)
    /\ call' = [call EXCEPT ![c].todo = @ \ {s}]
    /\ UNCHANGED <<serverVars, zkVars, handlerMapBak, calls, faults, changes>>

\* Fault: the connection is tried again and again.
InitConnectRetried(c, s) ==
    /\ call[c].at = "connect"
    /\ s \in call[c].todo \ up
    /\ UNCHANGED vars

\* connect throws: initClient ends before it subscribes, and will not run again.
InitConnectFails(c, s) ==
    /\ call[c].at = "connect"
    /\ s \in call[c].todo \ up
    /\ call' = [call EXCEPT ![c] = Idle]
    /\ faults' = faults \cup {"connect"}
    /\ UNCHANGED <<serverVars, zkVars, mapVars, calls, connVars, changes>>

InitClearsBak(c) ==
    /\ call[c].at = "connect"
    /\ call[c].todo = {}
    /\ handlerMapBak' = NoHandlers
    /\ call' = [call EXCEPT ![c] = Call("fill", {}, NoServer, NoConn)]
    /\ UNCHANGED <<serverVars, zkVars, handlerMap, calls, connVars, faults, changes>>

InitFillsBak(c) ==
    /\ call[c].at = "fill"
    /\ handlerMapBak' = Filled
    /\ call' = [call EXCEPT ![c] = Call("subscribe", {}, NoServer, NoConn)]
    /\ UNCHANGED <<serverVars, zkVars, handlerMap, calls, connVars, faults, changes>>

\* What changed since getServerList raises no event.
Subscribe(c) ==
    /\ call[c].at = "subscribe"
    /\ listener' = [listener EXCEPT ![c] = Quiet]
    /\ call' = [call EXCEPT ![c] = Call("choose", {}, NoServer, NoConn)]
    /\ UNCHANGED <<serverVars, zkClientUtil, event, mapVars, calls, connVars,
                   faults, changes>>

\* "no server", or getServer reads a child that vanished after getChildren
ChooseFails(c) ==
    /\ call[c].at = "choose"
    /\ Listed(handlerMap) = {} \/ children # Server
    /\ call' = [call EXCEPT ![c] = Idle]
    /\ UNCHANGED <<serverVars, zkVars, mapVars, calls, connVars, faults, changes>>

\* getServer: the child that answered fastest, whichever that is
ChooseServer(c, s) ==
    /\ call[c].at = "choose"
    /\ Listed(handlerMap) # {}
    /\ s \in children
    /\ call' = [call EXCEPT ![c] = Call("lookup", {}, s, NoConn)]
    /\ UNCHANGED <<serverVars, zkVars, mapVars, calls, connVars, faults, changes>>

NoHandler(c) ==
    /\ call[c].at = "lookup"
    /\ handlerMap[call[c].server] = NoConn
    /\ call' = [call EXCEPT ![c] = Idle]
    /\ UNCHANGED <<serverVars, zkVars, mapVars, calls, connVars, faults, changes>>

\* setPara: the request is a field of the handler, whoever else uses it
TakeHandler(c) ==
    LET k == handlerMap[call[c].server] IN
    /\ call[c].at = "lookup"
    /\ k # NoConn
    /\ para' = [para EXCEPT ![k] = Own(c)]
    /\ spoilt' = IF Users(k) = {} THEN spoilt
                                  ELSE [spoilt EXCEPT ![k] = @ \cup {"shared"}]
    /\ call' = [call EXCEPT ![c] = Call("submit", {}, NoServer, k)]
    /\ UNCHANGED <<serverVars, zkVars, mapVars, calls, peer, link, result,
                   requests, answers, faults, changes>>

ThreadFree ==
    Cardinality({c \in Caller : call[c].at \in {"wait", "woken"}}) < Threads

\* Fault: call only waits while there is no result, and never clears it.
SendUnlessResult(c) ==
    LET k == call[c].conn IN
    /\ call[c].at = "submit"
    /\ ThreadFree
    /\ link[k] # "new"
    /\ requests' = IF link[k] = "active"
                     THEN [requests EXCEPT ![k] = Append(@, para[k])]
                     ELSE requests
    /\ call' = [call EXCEPT ![c].at = IF result[k] = {} THEN "wait" ELSE "woken"]
    /\ UNCHANGED <<serverVars, zkVars, mapVars, calls, peer, link, para, result,
                   answers, spoilt, faults, changes>>

\* ClientHandler.call: one hold of the monitor from the write to the wait.  On a
\* connection that is gone the write fails, and nobody looks at its future.
Send(c) ==
    LET k == call[c].conn IN
    /\ call[c].at = "submit"
    /\ ThreadFree
    /\ link[k] # "new"
    /\ requests' = IF link[k] = "active"
                     THEN [requests EXCEPT ![k] = Append(@, para[k])]
                     ELSE requests
    /\ call' = [call EXCEPT ![c].at = "wait"]
    /\ UNCHANGED <<serverVars, zkVars, mapVars, calls, peer, link, para, result,
                   answers, spoilt, faults, changes>>

\* context is still null
SendFails(c) ==
    /\ call[c].at = "submit"
    /\ ThreadFree
    /\ link[call[c].conn] = "new"
    /\ call' = [call EXCEPT ![c] = Idle]
    /\ UNCHANGED <<serverVars, zkVars, mapVars, calls, connVars, faults, changes>>

\* Fault: the wait has a time limit, and the call returns what is in the field.
ReturnAfterTimeout(c) ==
    /\ call[c].at \in {"wait", "woken"}
    /\ call' = [call EXCEPT ![c] = Idle]
    /\ UNCHANGED <<serverVars, zkVars, mapVars, calls, connVars, faults, changes>>

\* call returns the field result; writeData has no effect on other calls.
Return(c) ==
    /\ call[c].at = "woken"
    /\ call' = [call EXCEPT ![c] = Idle]
    /\ UNCHANGED <<serverVars, zkVars, mapVars, calls, connVars, faults, changes>>

-----------------------------------------------------------------------------
(***************************************************************************)
(* A connection: the event loop of the client, RpcDecoder and              *)
(* ServerHandler of the server                                             *)
(***************************************************************************)

ChannelActive(k) ==
    /\ link[k] = "new"
    /\ link' = [link EXCEPT ![k] = "active"]
    /\ UNCHANGED <<serverVars, zkVars, mapVars, callVars, peer, para, result,
                   requests, answers, spoilt, faults, changes>>

Answer(k) ==
    /\ requests[k] # <<>>
    /\ "misread" \notin spoilt[k]
    /\ answers' = [answers EXCEPT ![k] = Append(@, Head(requests[k]))]
    /\ requests' = [requests EXCEPT ![k] = Tail(@)]
    /\ UNCHANGED <<serverVars, zkVars, mapVars, callVars, peer, link, para,
                   result, spoilt, faults, changes>>

\* The last bytes of a frame arrive late: RpcDecoder resets the index, reads on
\* all the same and is out of step with the frames from then on.
Misread(k) ==
    /\ requests[k] # <<>>
    /\ "misread" \notin spoilt[k]
    /\ spoilt' = [spoilt EXCEPT ![k] = @ \cup {"misread"}]
    /\ requests' = [requests EXCEPT ![k] = Tail(@)]
    /\ UNCHANGED <<serverVars, zkVars, mapVars, callVars, peer, link, para,
                   result, answers, faults, changes>>

\* Fault: an answer that is read notifies nobody.
ReadWithoutNotify(k, n) ==
    /\ link[k] = "active"
    /\ n \in 1..Len(answers[k])
    /\ result' = [result EXCEPT ![k] = {answers[k][i] : i \in 1..n}]
    /\ answers' = [answers EXCEPT ![k] = SubSeq(@, n + 1, Len(@))]
    /\ UNCHANGED <<serverVars, zkVars, mapVars, callVars, peer, link, para,
                   requests, spoilt, faults, changes>>

\* channelRead: StringDecoder has no frames, so n answers that come together are
\* one message.  notify wakes any one of those who wait.
ChannelRead(k, n) ==
    /\ link[k] = "active"
    /\ n \in 1..Len(answers[k])
    /\ result' = [result EXCEPT ![k] = {answers[k][i] : i \in 1..n}]
    /\ answers' = [answers EXCEPT ![k] = SubSeq(@, n + 1, Len(@))]
    /\ spoilt' = IF n = 1 THEN spoilt
                          ELSE [spoilt EXCEPT ![k] = @ \cup {"merged"}]
    /\ IF Waiting(k) = {}
         THEN UNCHANGED call
         ELSE \E c \in Waiting(k) : call' = [call EXCEPT ![c].at = "woken"]
    /\ UNCHANGED <<serverVars, zkVars, mapVars, calls, peer, link, para,
                   requests, faults, changes>>

-----------------------------------------------------------------------------
(***************************************************************************)
(* handleChildChange, on the event thread of the client c made.  Two       *)
(* clients have two event threads, and the same two maps.                  *)
(***************************************************************************)

\* Fault: the map is not cleared before it is filled.
ListenerKeepsMap(c) ==
    /\ listener[c] = Quiet
    /\ c \in event
    /\ event' = event \ {c}
    /\ listener' = [listener EXCEPT ![c] = Listen("next", children, NoServer, NoConn)]
    /\ UNCHANGED <<serverVars, zkClientUtil, mapVars, callVars, connVars,
                   faults, changes>>

\* ZkClient reads the children again and then calls the listener.
ListenerStarts(c) ==
    /\ listener[c] = Quiet
    /\ c \in event
    /\ event' = event \ {c}
    /\ handlerMap' = NoHandlers
    /\ listener' = [listener EXCEPT ![c] = Listen("next", children, NoServer, NoConn)]
    /\ UNCHANGED <<serverVars, zkClientUtil, handlerMapBak, callVars, connVars,
                   faults, changes>>

\* Is there a handler for this child already?
ListenerLooks(c, s) ==
    /\ listener[c].at = "next"
    /\ s \in listener[c].todo
    /\ LET rest == listener[c].todo \ {s} IN
        listener' = [listener EXCEPT ![c] =
            IF handlerMapBak[s] = NoConn THEN Listen("connect", rest, s, NoConn)
                                         ELSE Listen("reuse", rest, s, handlerMapBak[s])]
    /\ UNCHANGED <<serverVars, zkClientUtil, event, mapVars, callVars, connVars,
                   faults, changes>>

\* It is listed, and then its server is connected anew all the same.
ListenerReuses(c) ==
    LET l == listener[c] IN
    /\ l.at = "reuse"
    /\ handlerMap' = [handlerMap EXCEPT ![l.server] = l.conn]
    /\ listener' = [listener EXCEPT ![c] = Listen("connect", l.todo, l.server, NoConn)]
    /\ UNCHANGED <<serverVars, zkClientUtil, event, handlerMapBak, callVars,
                   connVars, faults, changes>>

ListenerConnects(c) ==
    /\ listener[c].at = "connect"
    /\ listener[c].server \in up
    /\ Connected(listener[c].server)
    /\ listener' = [listener EXCEPT ![c] =
                        Listen("next", listener[c].todo, NoServer, NoConn)]
    /\ UNCHANGED <<serverVars, zkClientUtil, event, handlerMapBak, callVars,
                   faults, changes>>

\* connect throws; ZkClient logs it, and the rest of the change is not handled.
ListenerFails(c) ==
    /\ listener[c].at = "connect"
    /\ listener[c].server \notin up
    /\ listener' = [listener EXCEPT ![c] = Quiet]
    /\ faults' = faults \cup {"connect"}
    /\ UNCHANGED <<serverVars, zkClientUtil, event, mapVars, callVars, connVars,
                   changes>>

\* All children are listed: now the backup is gone through.
ListenerTurns(c) ==
    /\ listener[c].at = "next"
    /\ listener[c].todo = {}
    /\ listener' = [listener EXCEPT ![c] =
                        Listen("check", Listed(handlerMapBak), NoServer, NoConn)]
    /\ UNCHANGED <<serverVars, zkClientUtil, event, mapVars, callVars, connVars,
                   faults, changes>>

ListenerKeeps(c, s) ==
    /\ listener[c].at = "check"
    /\ s \in listener[c].todo \cap Listed(handlerMap)
    /\ listener' = [listener EXCEPT ![c] =
                        Listen("check", listener[c].todo \ {s}, NoServer, NoConn)]
    /\ UNCHANGED <<serverVars, zkClientUtil, event, mapVars, callVars, connVars,
                   faults, changes>>

ListenerDrops(c, s) ==
    /\ listener[c].at = "check"
    /\ s \in (listener[c].todo \cap Listed(handlerMapBak)) \ Listed(handlerMap)
    /\ listener' = [listener EXCEPT ![c] =
            Listen("close", listener[c].todo \ {s}, NoServer, handlerMapBak[s])]
    /\ UNCHANGED <<serverVars, zkClientUtil, event, mapVars, callVars, connVars,
                   faults, changes>>

\* The other client's thread has changed the backup meanwhile, or has it not: the
\* iterator throws ConcurrentModificationException, and ZkClient logs it.
ListenerTorn(c) ==
    /\ listener[c].at = "check"
    /\ listener[c].todo # {}
    /\ "two clients" \in faults
    /\ listener' = [listener EXCEPT ![c] = Quiet]
    /\ UNCHANGED <<serverVars, zkClientUtil, event, mapVars, callVars, connVars,
                   faults, changes>>

\* What is on its way on a connection that is closed is gone.
Closed(K) ==
    /\ link' = [k \in Conn |-> IF k \in K THEN "closed" ELSE link[k]]
    /\ requests' = [k \in Conn |-> IF k \in K THEN <<>> ELSE requests[k]]
    /\ answers' = [k \in Conn |-> IF k \in K THEN <<>> ELSE answers[k]]

\* ClientHandler.close: who waits on the handler is not woken.
ListenerCloses(c) ==
    /\ listener[c].at = "close"
    /\ link[listener[c].conn] # "new"
    /\ Closed({listener[c].conn})
    /\ listener' = [listener EXCEPT ![c] =
                        Listen("check", listener[c].todo, NoServer, NoConn)]
    /\ UNCHANGED <<serverVars, zkClientUtil, event, mapVars, callVars, peer, para,
                   result, spoilt, faults, changes>>

\* close finds a context that is still null: the backup stays as it is, with
\* handlers that are closed.
ListenerFailsToClose(c) ==
    /\ listener[c].at = "close"
    /\ link[listener[c].conn] = "new"
    /\ listener' = [listener EXCEPT ![c] = Quiet]
    /\ faults' = (faults \ {"missed", "connect"}) \cup {"context"}
    /\ UNCHANGED <<serverVars, zkClientUtil, event, mapVars, callVars, connVars,
                   changes>>

\* Fault: the backup is not cleared, and keeps the handlers that were closed.
ListenerKeepsBak(c) ==
    /\ listener[c].at = "check"
    /\ listener[c].todo = {}
    /\ listener' = [listener EXCEPT ![c] = Listen("fill", {}, NoServer, NoConn)]
    /\ UNCHANGED <<serverVars, zkClientUtil, event, mapVars, callVars, connVars,
                   faults, changes>>

ListenerClearsBak(c) ==
    /\ listener[c].at = "check"
    /\ listener[c].todo = {}
    /\ handlerMapBak' = NoHandlers
    /\ listener' = [listener EXCEPT ![c] = Listen("fill", {}, NoServer, NoConn)]
    /\ UNCHANGED <<serverVars, zkClientUtil, event, handlerMap, callVars, connVars,
                   faults, changes>>

ListenerEnds(c) ==
    /\ listener[c].at = "fill"
    /\ handlerMapBak' = Filled
    /\ listener' = [listener EXCEPT ![c] = Quiet]
    /\ faults' = faults \ {"missed", "connect"}
    /\ UNCHANGED <<serverVars, zkClientUtil, event, handlerMap, callVars, connVars,
                   changes>>

-----------------------------------------------------------------------------
(***************************************************************************)
(* Servers and ZooKeeper                                                   *)
(***************************************************************************)

\* The child list changes: every subscribed client hears of it; a client that
\* has read the list and not subscribed yet does not.
ChildChange ==
    /\ event' = event \cup Listening
    /\ faults' = IF \E c \in Caller : Initialising(c)
                   THEN faults \cup {"missed"} ELSE faults
    /\ changes < MaxChanges
    /\ changes' = changes + 1

\* startServer: bind, then registeEphemeralServer, which makes /rpcServer if it
\* is not there
ServerStarts(s) ==
    /\ s \notin up \cup children
    /\ up' = up \cup {s}
    /\ children' = children \cup {s}
    /\ zkBase' = TRUE
    /\ ChildChange
    /\ UNCHANGED <<zkClientUtil, listener, mapVars, callVars, connVars>>

\* registeEphemeralServer throws: the node of an earlier life is still there.  The
\* port is bound by then, and netty's threads keep the process alive.
ServerStartsEarly(s) ==
    /\ s \in children \ up
    /\ changes < MaxChanges
    /\ changes' = changes + 1
    /\ up' = up \cup {s}
    /\ UNCHANGED <<children, zkBase, zkVars, mapVars, callVars, connVars, faults>>

\* The process dies.  Its node lives on until its session times out.
ServerStops(s) ==
    /\ s \in up
    /\ changes < MaxChanges
    /\ changes' = changes + 1
    /\ up' = up \ {s}
    /\ LET K == {k \in Conn : peer[k] = s /\ link[k] \in {"new", "active"}} IN
        /\ link' = [k \in Conn |-> IF k \in K THEN "lost" ELSE link[k]]
        /\ requests' = [k \in Conn |-> IF k \in K THEN <<>> ELSE requests[k]]
        /\ answers' = [k \in Conn |-> IF k \in K THEN <<>> ELSE answers[k]]
    /\ UNCHANGED <<children, zkBase, zkVars, mapVars, callVars, peer, para, result,
                   spoilt, faults>>

\* The session is over, because the process is or because it was cut off; a
\* process that lives on does not register again.
SessionEnds(s) ==
    /\ s \in children
    /\ children' = children \ {s}
    /\ ChildChange
    /\ UNCHANGED <<up, zkBase, zkClientUtil, listener, mapVars, callVars, connVars>>

-----------------------------------------------------------------------------
CallStep(c) ==
    \/ CreateZkClient(c) \/ NoServerList(c)
    \/ InitClearsBak(c) \/ InitFillsBak(c) \/ Subscribe(c)
    \/ ChooseFails(c) \/ NoHandler(c)
    \/ TakeHandler(c) \/ Send(c) \/ SendFails(c) \/ Return(c)
    \/ \E s \in Server : \/ InitConnect(c, s) \/ InitConnectFails(c, s)
                         \/ ChooseServer(c, s)

Receive(k) == ChannelActive(k) \/ \E n \in 1..Len(answers[k]) : ChannelRead(k, n)

ListenerStep(c) ==
    \/ ListenerStarts(c) \/ ListenerReuses(c) \/ ListenerConnects(c)
    \/ ListenerFails(c) \/ ListenerTurns(c) \/ ListenerTorn(c)
    \/ ListenerCloses(c) \/ ListenerFailsToClose(c)
    \/ ListenerClearsBak(c) \/ ListenerEnds(c)
    \/ \E s \in Server : \/ ListenerLooks(c, s) \/ ListenerKeeps(c, s)
                         \/ ListenerDrops(c, s)

Next ==
    \/ \E c \in Caller : Invoke(c) \/ CallStep(c) \/ ListenerStep(c)
    \/ \E k \in Conn : Receive(k) \/ Answer(k) \/ Misread(k)
    \/ \E s \in Server : \/ ServerStarts(s) \/ ServerStartsEarly(s)
                         \/ ServerStops(s) \/ SessionEnds(s)

Spec == Init /\ [][Next]_vars

\* Threads run on, event loops read what is there, a server answers what it was
\* asked.  Nobody has to call, nothing has to fail.
FairSpec ==
    /\ Spec
    /\ \A c \in Caller : WF_vars(CallStep(c))
    /\ \A k \in Conn : WF_vars(Receive(k)) /\ WF_vars(Answer(k))

-----------------------------------------------------------------------------
(***************************************************************************)
(* As long as the answers of a connection come one by one and its requests *)
(* whole, each call that waits on it has its request or an answer under    *)
(* way: no notification is lost, because call holds the monitor from the   *)
(* write to the wait (ClientHandler.call, channelRead).                    *)
(***************************************************************************)
NoLostWakeup ==
    \A k \in Conn :
        link[k] = "active" /\ spoilt[k] \subseteq {"shared"} =>
            Cardinality(Waiting(k)) = Len(requests[k]) + Len(answers[k])

(***************************************************************************)
(* On a handler that never had two users at once, a call returns the       *)
(* answer to its own request, although neither para nor result says whose  *)
(* it is (RpcConsumer line 63, ClientHandler lines 27 and 38).             *)
(***************************************************************************)
OwnAnswer ==
    \A c \in Caller :
        call[c].at = "woken" /\ "shared" \notin spoilt[call[c].conn] =>
            result[call[c].conn] = {Own(c)}

(***************************************************************************)
(* With one client, once the listener has handled what it was told, there  *)
(* is a handler for exactly the servers in ZooKeeper - unless a connection *)
(* failed during the last rebuild, a server came or went between           *)
(* getServerList and subscribeChildChanges, or the client was made before  *)
(* /rpcServer was, and so has no listener and will never have a handler.   *)
(***************************************************************************)
MapFollowsZooKeeper ==
    /\ zkClientUtil /\ event = {}
    /\ \A c \in Caller : ~Initialising(c) /\ listener[c].at \in {"none", "idle"}
    /\ faults \subseteq {"context"}
    => Listed(handlerMap) = children

(***************************************************************************)
(* The listener of one client never closes a handler that callers can      *)
(* still be given, whatever connections fail - as long as it has never     *)
(* given up halfway, with clientHandlerMapBak out of date.  The listeners  *)
(* of two clients clear and fill the same maps: one closes what the other  *)
(* has just listed, or is about to list.                                   *)
(***************************************************************************)
ListedIsOpen ==
    faults \cap {"two clients", "context"} = {} =>
        \A s \in Listed(handlerMap) : link[handlerMap[s]] # "closed"

\* What keeps a call from ever returning: its connection went down or lost
\* step, it shared its handler, or all threads of the executor wait.
CutOff(c) ==
    LET k == call[c].conn IN
    /\ call[c].at \in {"submit", "wait"}
    /\ link[k] \in {"lost", "closed"} \/ spoilt[k] # {} \/ ~ThreadFree

(***************************************************************************)
(* Every other call returns or throws.                                     *)
(***************************************************************************)
CallsEnd ==
    \A c \in Caller : call[c].at # "idle" ~> call[c].at = "idle" \/ CutOff(c)

\* Where a call is, by what of its own request and answer is on its handler k
PhaseOn(c, k) ==
    CASE "shared" \in spoilt[k] -> "shared"
      [] "shared" \notin spoilt[k] /\ call[c].at = "submit" -> "called"
      [] "shared" \notin spoilt[k] /\ call[c].at = "woken" ->
            IF result[k] = {Own(c)} THEN "answered" ELSE "wrong"
      [] "shared" \notin spoilt[k] /\ call[c].at = "wait" ->
            CASE requests[k] = <<Own(c)>> /\ answers[k] = <<>> -> "sent"
              [] requests[k] = <<>> /\ answers[k] = <<Own(c)>> -> "served"
              [] requests[k] = <<>> /\ answers[k] = <<>> -> "lost"
              [] OTHER -> "wrong"

Phase(c) ==
    CASE call[c].at = "idle" -> "idle"
      [] call[c].at # "idle" /\ call[c].conn = NoConn -> "called"
      [] call[c].at # "idle" /\ call[c].conn # NoConn -> PhaseOn(c, call[c].conn)

Phases == [c \in Caller |-> Phase(c)]

Remote == INSTANCE RemoteCall WITH phase <- Phases

(***************************************************************************)
(* On a handler of its own a call is sent, served and answered once and in *)
(* this order (RemoteCall): what throws was never sent, what was lost does *)
(* not come back, and no answer is left for the call that comes next.      *)
(***************************************************************************)
RemoteCallSpec == Remote!Spec
=============================================================================
