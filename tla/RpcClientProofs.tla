---------------------------- MODULE RpcClientProofs ----------------------------
(***************************************************************************)
(* The RPC client for any number of callers, servers and connections, any  *)
(* size of its executor and any number of calls and changes.               *)
(***************************************************************************)
EXTENDS RpcClient, FiniteSetTheorems, SequenceTheorems, TLAPS

\* Where a call is before it has a handler
Before == {"init", "choose", "connect", "fill", "subscribe", "lookup"}

LEMMA CallTypes ==
  /\ Idle \in CallState
  /\ \A at \in {"init", "fill", "subscribe", "choose"} :
        Call(at, {}, NoServer, NoConn) \in CallState
  /\ \A todo \in SUBSET Server : Call("connect", todo, NoServer, NoConn) \in CallState
  /\ \A s \in Server : Call("lookup", {}, s, NoConn) \in CallState
  /\ \A k \in Conn, at \in {"submit", "wait", "woken"} :
        Call(at, {}, NoServer, k) \in CallState
BY DEF CallState

\* What a call is is decided by where it is.
LEMMA CallForms ==
  ASSUME NEW x \in CallState
  PROVE  /\ x.at \in {"idle", "submit", "wait", "woken"} \cup Before
         /\ x.at = "idle" => x = Idle
         /\ x.at \in {"idle"} \cup Before => x.conn = NoConn
         /\ x.at \in {"fill", "subscribe"} => x.todo = {}
         /\ x.at = "connect" =>
                x.todo \subseteq Server /\ x = Call("connect", x.todo, NoServer, NoConn)
         /\ x.at = "lookup" => x.server \in Server
         /\ x.at \in {"submit", "wait", "woken"} =>
                x.conn \in Conn /\ x = Call(x.at, {}, NoServer, x.conn)
BY DEF CallState, Idle, Call, Before

LEMMA ListenerTypes ==
  /\ Unsubscribed \in ListenerState /\ Quiet \in ListenerState
  /\ Listen("fill", {}, NoServer, NoConn) \in ListenerState
  /\ \A todo \in SUBSET Server :
        /\ Listen("next", todo, NoServer, NoConn) \in ListenerState
        /\ Listen("check", todo, NoServer, NoConn) \in ListenerState
        /\ \A s \in Server : Listen("connect", todo, s, NoConn) \in ListenerState
        /\ \A s \in Server, k \in Conn : Listen("reuse", todo, s, k) \in ListenerState
        /\ \A k \in Conn : Listen("close", todo, NoServer, k) \in ListenerState
BY DEF ListenerState

LEMMA ListenerForms ==
  ASSUME NEW x \in ListenerState
  PROVE  /\ x.at \in {"none", "idle", "next", "reuse", "connect", "check", "close", "fill"}
         /\ x.at = "none" => x = Unsubscribed
         /\ x.at = "idle" => x = Quiet
         /\ x.todo \subseteq Server
         /\ x.at \in {"reuse", "connect"} => x.server \in Server
         /\ x.at \in {"reuse", "close"} => x.conn \in Conn
BY DEF ListenerState, Unsubscribed, Quiet, Listen, Call

LEMMA Listens ==
  ASSUME NEW at, NEW todo, NEW s, NEW k
  PROVE  LET x == Listen(at, todo, s, k)
         IN  x.at = at /\ x.todo = todo /\ x.server = s /\ x.conn = k
BY DEF Listen, Call

LEMMA Fields ==
  Quiet.at = "idle" /\ Idle.at = "idle"
BY DEF Listen, Quiet, Idle, Call

LEMMA NewConnFresh ==
  ASSUME Fresh # {}
  PROVE  NewConn \in Fresh /\ NewConn \in Conn
<1>1. \E k \in Fresh : TRUE
  OBVIOUS
<1>2. NewConn \in Fresh
  BY <1>1 DEF NewConn
<1>3. QED
  BY <1>2 DEF Fresh

-----------------------------------------------------------------------------
(***************************************************************************)
(* Every variable keeps its type.                                          *)
(***************************************************************************)
ServerType == up \subseteq Server /\ children \subseteq Server /\ zkBase \in BOOLEAN
ZkType ==
    /\ zkClientUtil \in BOOLEAN
    /\ listener \in [Caller -> ListenerState]
    /\ event \subseteq Caller
MapType ==
    /\ handlerMap \in [Server -> Conn \cup {NoConn}]
    /\ handlerMapBak \in [Server -> Conn \cup {NoConn}]
CallType == call \in [Caller -> CallState] /\ calls \in [Caller -> 0..MaxCalls]
ConnType ==
    /\ peer \in [Conn -> Server \cup {NoServer}]
    /\ link \in [Conn -> {"unused", "new", "active", "lost", "closed"}]
    /\ para \in [Conn -> Request \cup {<<>>}]
    /\ result \in [Conn -> SUBSET Request]
    /\ requests \in [Conn -> Seq(Request)]
    /\ answers \in [Conn -> Seq(Request)]
    /\ spoilt \in [Conn -> SUBSET {"shared", "merged", "misread"}]
CountType ==
    /\ faults \subseteq {"no node", "two clients", "missed", "connect", "context"}
    /\ changes \in 0..MaxChanges

LEMMA TypeParts ==
  TypeOK <=> ServerType /\ ZkType /\ MapType /\ CallType /\ ConnType /\ CountType
BY DEF TypeOK, ServerType, ZkType, MapType, CallType, ConnType, CountType

LEMMA TypeInit == Init => TypeOK
<1> SUFFICES ASSUME Init PROVE TypeOK
  OBVIOUS
<1>1. <<>> \in Seq(Request)
  OBVIOUS
<1>2. ServerType /\ MapType /\ CountType
  BY RpcBoundsAssumption DEF Init, ServerType, MapType, CountType
<1>3. Idle \in CallState /\ Unsubscribed \in ListenerState
  BY CallTypes, ListenerTypes
<1>4. ZkType
  BY <1>3 DEF Init, ZkType
<1>5. CallType
  BY <1>3, RpcBoundsAssumption DEF Init, CallType
<1>6. ConnType
  BY <1>1 DEF Init, ConnType
<1>7. QED
  BY <1>2, <1>4, <1>5, <1>6, TypeParts

LEMMA TypePartsNext ==
  TypeOK' <=> ServerType' /\ ZkType' /\ MapType' /\ CallType' /\ ConnType' /\ CountType'
BY DEF TypeOK, ServerType, ZkType, MapType, CallType, ConnType, CountType

LEMMA TypeUnchanged ==
  ASSUME TypeOK
  PROVE  /\ UNCHANGED serverVars => ServerType'
         /\ UNCHANGED zkVars => ZkType'
         /\ UNCHANGED mapVars => MapType'
         /\ UNCHANGED callVars => CallType'
         /\ UNCHANGED connVars => ConnType'
         /\ UNCHANGED <<faults, changes>> => CountType'
BY DEF TypeOK, ServerType, ZkType, MapType, CallType, ConnType, CountType,
       serverVars, zkVars, mapVars, callVars, connVars

\* A call that moves on, while all the rest keeps its type.
LEMMA CallTypeNext ==
  ASSUME TypeOK, NEW c \in Caller, NEW x \in CallState,
         call' = [call EXCEPT ![c] = x], UNCHANGED calls
  PROVE  CallType'
BY DEF TypeOK, CallType

LEMMA ListenerTypeNext ==
  ASSUME TypeOK, NEW c \in Caller, NEW x \in ListenerState,
         listener' = [listener EXCEPT ![c] = x], event' \subseteq Caller,
         zkClientUtil' \in BOOLEAN
  PROVE  ZkType'
BY DEF TypeOK, ZkType

LEMMA MapTypes ==
  ASSUME TypeOK
  PROVE  /\ \A s \in Server : /\ handlerMap[s] # NoConn => handlerMap[s] \in Conn
                              /\ handlerMapBak[s] # NoConn => handlerMapBak[s] \in Conn
         /\ \A c \in Caller : listener[c].at \in {"reuse", "close"} => listener[c].conn \in Conn
BY ListenerForms DEF TypeOK

LEMMA ConnectedType ==
  ASSUME TypeOK, NEW s \in Server, Connected(s), UNCHANGED handlerMapBak
  PROVE  ConnType' /\ MapType'
<1>1. NewConn \in Conn
  BY NewConnFresh DEF Connected
<1>2. <<>> \in Seq(Request)
  OBVIOUS
<1>3. QED
  BY <1>1, <1>2 DEF Connected, TypeOK, ConnType, MapType

LEMMA ClosedType ==
  ASSUME TypeOK, NEW K, Closed(K), UNCHANGED <<peer, para, result, spoilt>>
  PROVE  ConnType'
<1>1. <<>> \in Seq(Request)
  OBVIOUS
<1>2. /\ link' \in [Conn -> {"unused", "new", "active", "lost", "closed"}]
      /\ requests' \in [Conn -> Seq(Request)]
      /\ answers' \in [Conn -> Seq(Request)]
  BY <1>1 DEF Closed, TypeOK
<1>3. QED
  BY <1>2 DEF TypeOK, ConnType

\* Who is calling has a number, and its handler a request.
Started ==
    \A c \in Caller :
        /\ call[c].at # "idle" => calls[c] # 0
        /\ call[c].conn # NoConn => para[call[c].conn] \in Request

LEMMA StartedOwn ==
  ASSUME TypeOK, Started, NEW c \in Caller, call[c].at # "idle"
  PROVE  Own(c) \in Request
<1>1. calls[c] \in 0..MaxCalls /\ calls[c] # 0
  BY DEF TypeOK, Started
<1>2. calls[c] \in 1..MaxCalls
  BY <1>1, RpcBoundsAssumption
<1>3. QED
  BY <1>2 DEF Own, Request

\* The steps that change a field of a call make a call again.
LEMMA InitConnectForm ==
  ASSUME TypeOK, NEW c \in Caller, NEW s \in Server, InitConnect(c, s)
  PROVE  LET x == Call("connect", call[c].todo \ {s}, NoServer, NoConn)
         IN  x \in CallState /\ call' = [call EXCEPT ![c] = x]
<1> DEFINE todo == call[c].todo
           x == Call("connect", todo \ {s}, NoServer, NoConn)
<1>1. call[c] \in CallState /\ call[c].at = "connect"
  BY DEF TypeOK, InitConnect
<1>2. call[c] = Call("connect", todo, NoServer, NoConn) /\ todo \subseteq Server
  BY <1>1, CallForms
<1>3. [call[c] EXCEPT !.todo = todo \ {s}] = x
  BY <1>2 DEF Call
<1>4. call' = [call EXCEPT ![c] = [call[c] EXCEPT !.todo = todo \ {s}]]
  BY DEF InitConnect
<1>5. x \in CallState
  BY <1>2, CallTypes
<1>6. QED
  BY <1>3, <1>4, <1>5

LEMMA AtForm ==
  ASSUME TypeOK, NEW c \in Caller, call[c].at \in {"submit", "wait"},
         NEW at \in {"wait", "woken"}, call' = [call EXCEPT ![c].at = at]
  PROVE  LET x == Call(at, {}, NoServer, call[c].conn)
         IN  x \in CallState /\ call' = [call EXCEPT ![c] = x]
<1> DEFINE k == call[c].conn
           x == Call(at, {}, NoServer, k)
<1>1. call[c] \in CallState
  BY DEF TypeOK
<1>2. call[c] = Call(call[c].at, {}, NoServer, k) /\ k \in Conn
  BY <1>1, CallForms
<1>3. [call[c] EXCEPT !.at = at] = x
  BY <1>2 DEF Call
<1>4. x \in CallState
  BY <1>2, CallTypes
<1>5. QED
  BY <1>3, <1>4

\* Steps of a call that touch nothing but the call.
LEMMA CallStepTypes ==
  ASSUME TypeOK, NEW c \in Caller, NEW x \in CallState,
         call' = [call EXCEPT ![c] = x],
         UNCHANGED <<serverVars, zkVars, mapVars, calls, connVars, changes>>,
         faults' \subseteq faults \cup {"connect"}
  PROVE  TypeOK'
<1>1. CallType'
  BY CallTypeNext
<1>2. CountType'
  BY DEF TypeOK, CountType
<1>3. QED
  BY <1>1, <1>2, TypeUnchanged, TypePartsNext

\* The steps of a call that has no handler yet, or leaves it.
LEMMA CallKeepsType ==
  ASSUME TypeOK, NEW c \in Caller,
         \/ Invoke(c) \/ CreateZkClient(c) \/ NoServerList(c)
         \/ InitClearsBak(c) \/ InitFillsBak(c) \/ Subscribe(c)
         \/ ChooseFails(c) \/ NoHandler(c) \/ SendFails(c) \/ Return(c)
         \/ \E s \in Server : \/ InitConnect(c, s) \/ InitConnectFails(c, s)
                              \/ ChooseServer(c, s)
  PROVE  TypeOK'
<1>1. CASE Invoke(c)
  <2>1. CallType'
    <3>1. calls' \in [Caller -> 0..MaxCalls]
      <4>1. calls[c] \in 0..MaxCalls /\ calls[c] < MaxCalls
        BY <1>1 DEF TypeOK, Invoke
      <4>2. calls[c] + 1 \in 0..MaxCalls
        BY <4>1, RpcBoundsAssumption
      <4>3. QED
        BY <1>1, <4>2 DEF TypeOK, Invoke
    <3>2. Call(IF zkClientUtil THEN "choose" ELSE "init", {}, NoServer, NoConn) \in CallState
      BY CallTypes
    <3>3. call' \in [Caller -> CallState]
      BY <1>1, <3>2 DEF TypeOK, Invoke
    <3>4. QED
      BY <3>1, <3>3 DEF CallType
  <2>2. QED
    BY <1>1, <2>1, TypeUnchanged, TypePartsNext DEF Invoke
<1>2. CASE CreateZkClient(c)
  <2>1. Call("connect", children, NoServer, NoConn) \in CallState
    BY CallTypes DEF TypeOK
  <2>2. CallType'
    BY <1>2, <2>1, CallTypeNext DEF CreateZkClient
  <2>3. CountType' /\ ZkType'
    BY <1>2 DEF CreateZkClient, Second, TypeOK, CountType, ZkType
  <2>4. QED
    BY <1>2, <2>2, <2>3, TypeUnchanged, TypePartsNext DEF CreateZkClient
<1>3. ASSUME NEW s \in Server, InitConnect(c, s) PROVE TypeOK'
  <2>1. /\ Call("connect", call[c].todo \ {s}, NoServer, NoConn) \in CallState
        /\ call' = [call EXCEPT ![c] = Call("connect", call[c].todo \ {s}, NoServer, NoConn)]
    BY <1>3, InitConnectForm
  <2>2. CallType'
    BY <1>3, <2>1, CallTypeNext DEF InitConnect
  <2>3. ConnType' /\ MapType'
    BY <1>3, ConnectedType DEF InitConnect
  <2>4. QED
    BY <1>3, <2>2, <2>3, TypeUnchanged, TypePartsNext DEF InitConnect
<1>4. CASE Subscribe(c)
  <2>1. CallType'
    BY <1>4, CallTypes, CallTypeNext DEF Subscribe
  <2>2. ZkType'
    BY <1>4, ListenerTypes, ListenerTypeNext DEF Subscribe, TypeOK
  <2>3. QED
    BY <1>4, <2>1, <2>2, TypeUnchanged, TypePartsNext DEF Subscribe
<1>5. CASE ChooseFails(c)
  BY <1>5, CallTypes, CallStepTypes DEF ChooseFails
<1>6. CASE NoHandler(c)
  BY <1>6, CallTypes, CallStepTypes DEF NoHandler
<1>7. CASE SendFails(c)
  BY <1>7, CallTypes, CallStepTypes DEF SendFails
<1>8. CASE Return(c)
  BY <1>8, CallTypes, CallStepTypes DEF Return
<1>9. ASSUME NEW s \in Server, InitConnectFails(c, s) PROVE TypeOK'
  BY <1>9, CallTypes, CallStepTypes DEF InitConnectFails
<1>10. ASSUME NEW s \in Server, ChooseServer(c, s) PROVE TypeOK'
  <2>1. Call("lookup", {}, s, NoConn) \in CallState
    BY CallTypes
  <2>2. QED
    BY <1>10, <2>1, CallStepTypes DEF ChooseServer
<1>11. CASE NoServerList(c)
  <2>1. CallType'
    BY <1>11, CallTypes, CallTypeNext DEF NoServerList
  <2>2. CountType' /\ ZkType'
    BY <1>11 DEF NoServerList, Second, TypeOK, CountType, ZkType
  <2>3. QED
    BY <1>11, <2>1, <2>2, TypeUnchanged, TypePartsNext DEF NoServerList
<1>12. CASE InitClearsBak(c) \/ InitFillsBak(c)
  <2>1. CallType'
    BY <1>12, CallTypes, CallTypeNext DEF InitClearsBak, InitFillsBak
  <2>2. MapType'
    BY <1>12 DEF InitClearsBak, InitFillsBak, NoHandlers, Filled, TypeOK, MapType
  <2>3. QED
    BY <1>12, <2>1, <2>2, TypeUnchanged, TypePartsNext DEF InitClearsBak, InitFillsBak
<1>13. QED
  BY <1>1, <1>2, <1>3, <1>4, <1>5, <1>6, <1>7, <1>8, <1>9, <1>10, <1>11, <1>12

LEMMA ConnectionKeepsType ==
  ASSUME TypeOK, NEW k \in Conn,
         \/ ChannelActive(k) \/ Answer(k) \/ Misread(k)
         \/ \E n \in 1..Len(answers[k]) : ChannelRead(k, n)
  PROVE  TypeOK'
<1>1. requests[k] \in Seq(Request) /\ answers[k] \in Seq(Request)
  BY DEF TypeOK
<1>2. CASE ChannelActive(k)
  <2>1. ConnType'
    BY <1>2 DEF ChannelActive, TypeOK, ConnType
  <2>2. QED
    BY <1>2, <2>1, TypeUnchanged, TypePartsNext DEF ChannelActive
<1>3. CASE Answer(k)
  <2>1. /\ Append(answers[k], Head(requests[k])) \in Seq(Request)
        /\ Tail(requests[k]) \in Seq(Request)
    BY <1>1, <1>3 DEF Answer
  <2>2. ConnType'
    BY <1>3, <2>1 DEF Answer, TypeOK, ConnType
  <2>3. QED
    BY <1>3, <2>2, TypeUnchanged, TypePartsNext DEF Answer
<1>4. CASE Misread(k)
  <2>1. Tail(requests[k]) \in Seq(Request)
    BY <1>1, <1>4 DEF Misread
  <2>2. spoilt[k] \cup {"misread"} \in SUBSET {"shared", "merged", "misread"}
    BY DEF TypeOK
  <2>3. ConnType'
    BY <1>4, <2>1, <2>2 DEF Misread, TypeOK, ConnType
  <2>4. QED
    BY <1>4, <2>3, TypeUnchanged, TypePartsNext DEF Misread
<1>5. ASSUME NEW n \in 1..Len(answers[k]), ChannelRead(k, n) PROVE TypeOK'
  <2>1. /\ SubSeq(answers[k], n + 1, Len(answers[k])) \in Seq(Request)
        /\ {answers[k][i] : i \in 1..n} \subseteq Request
    BY <1>1, <1>5
  <2>2. spoilt[k] \cup {"merged"} \in SUBSET {"shared", "merged", "misread"}
    BY DEF TypeOK
  <2>3. ConnType'
    BY <1>5, <2>1, <2>2 DEF ChannelRead, TypeOK, ConnType
  <2>4. CallType'
    <3>1. CASE UNCHANGED call
      BY <1>5, <3>1 DEF ChannelRead, TypeOK, CallType
    <3>2. ASSUME NEW c \in Waiting(k), call' = [call EXCEPT ![c].at = "woken"]
          PROVE  CallType'
      <4>1. c \in Caller /\ call[c].at = "wait"
        BY <3>2 DEF Waiting, Users
      <4>2. /\ Call("woken", {}, NoServer, call[c].conn) \in CallState
            /\ call' = [call EXCEPT ![c] = Call("woken", {}, NoServer, call[c].conn)]
        BY <3>2, <4>1, AtForm
      <4>3. QED
        BY <1>5, <4>1, <4>2, CallTypeNext DEF ChannelRead
    <3>3. QED
      BY <1>5, <3>1, <3>2 DEF ChannelRead
  <2>5. QED
    BY <1>5, <2>3, <2>4, TypeUnchanged, TypePartsNext DEF ChannelRead
<1>6. QED
  BY <1>2, <1>3, <1>4, <1>5

LEMMA HandlerKeepsType ==
  ASSUME TypeOK, Started, NEW c \in Caller, TakeHandler(c) \/ Send(c)
  PROVE  TypeOK'
<1>1. call[c] \in CallState
  BY DEF TypeOK
<1>2. CASE TakeHandler(c)
  <2> DEFINE k == handlerMap[call[c].server]
  <2>1. k \in Conn
    <3>1. call[c].at = "lookup" /\ k # NoConn
      BY <1>2 DEF TakeHandler
    <3>2. call[c].server \in Server
      BY <1>1, <3>1, CallForms
    <3>3. QED
      BY <3>1, <3>2 DEF TypeOK
  <2>2. Call("submit", {}, NoServer, k) \in CallState
    BY <2>1, CallTypes
  <2>3. CallType'
    BY <1>2, <2>2, CallTypeNext DEF TakeHandler
  <2>4. Own(c) \in Request
    BY <1>2, StartedOwn DEF TakeHandler
  <2>5. spoilt[k] \cup {"shared"} \in SUBSET {"shared", "merged", "misread"}
    BY <2>1 DEF TypeOK
  <2>6. ConnType'
    BY <1>2, <2>1, <2>4, <2>5 DEF TakeHandler, TypeOK, ConnType
  <2>7. QED
    BY <1>2, <2>3, <2>6, TypeUnchanged, TypePartsNext DEF TakeHandler
<1>3. CASE Send(c)
  <2> DEFINE k == call[c].conn
  <2>1. call[c].at = "submit" /\ call[c].at # "idle"
    BY <1>3 DEF Send
  <2>2. k \in Conn
    BY <1>1, <2>1, CallForms
  <2>3. CallType'
    <3>1. /\ Call("wait", {}, NoServer, k) \in CallState
          /\ call' = [call EXCEPT ![c] = Call("wait", {}, NoServer, k)]
      BY <1>3, <2>1, AtForm DEF Send
    <3>2. QED
      BY <1>3, <3>1, CallTypeNext DEF Send
  <2>4. para[k] \in Request /\ requests[k] \in Seq(Request)
    BY <2>1, <2>2, NamesAssumption DEF TypeOK, Started
  <2>5. Append(requests[k], para[k]) \in Seq(Request)
    BY <2>4
  <2>6. ConnType'
    BY <1>3, <2>2, <2>5 DEF Send, TypeOK, ConnType
  <2>7. QED
    BY <1>3, <2>3, <2>6, TypeUnchanged, TypePartsNext DEF Send
<1>4. QED
  BY <1>2, <1>3

LEMMA ListenerKeepsType ==
  ASSUME TypeOK, NEW c \in Caller, ListenerStep(c)
  PROVE  TypeOK'
<1> DEFINE l == listener[c]
<1>1. /\ l \in ListenerState /\ l.todo \subseteq Server /\ event \subseteq Caller
      /\ l.at \in {"reuse", "connect"} => l.server \in Server
      /\ l.at \in {"reuse", "close"} => l.conn \in Conn
  BY ListenerForms DEF TypeOK
<1>2. ASSUME NEW x \in ListenerState, listener' = [listener EXCEPT ![c] = x],
             event' \subseteq event, UNCHANGED <<serverVars, zkClientUtil, callVars>>,
             MapType', ConnType', CountType'
      PROVE  TypeOK'
  <2>1. event' \subseteq Caller /\ zkClientUtil' \in BOOLEAN
    BY <1>1, <1>2 DEF TypeOK
  <2>2. ZkType'
    BY <1>2, <2>1, ListenerTypeNext
  <2>3. QED
    BY <1>2, <2>2, TypeUnchanged, TypePartsNext
<1>3. CASE ListenerStarts(c)
  <2>1. Listen("next", children, NoServer, NoConn) \in ListenerState
    BY ListenerTypes DEF TypeOK
  <2>2. MapType'
    BY <1>3 DEF ListenerStarts, NoHandlers, TypeOK, MapType
  <2>3. QED
    BY <1>2, <1>3, <2>1, <2>2, TypeUnchanged DEF ListenerStarts
<1>4. ASSUME NEW s \in Server, ListenerLooks(c, s) PROVE TypeOK'
  <2> DEFINE rest == l.todo \ {s}
             x == IF handlerMapBak[s] = NoConn
                    THEN Listen("connect", rest, s, NoConn)
                    ELSE Listen("reuse", rest, s, handlerMapBak[s])
  <2>1. handlerMapBak[s] # NoConn => handlerMapBak[s] \in Conn
    BY DEF TypeOK
  <2>2. x \in ListenerState
    BY <1>1, <2>1, ListenerTypes
  <2>3. listener' = [listener EXCEPT ![c] = x]
    BY <1>4 DEF ListenerLooks
  <2> HIDE DEF x
  <2>4. QED
    BY <1>2, <1>4, <2>2, <2>3, TypeUnchanged DEF ListenerLooks
<1>5. CASE ListenerReuses(c)
  <2>1. Listen("connect", l.todo, l.server, NoConn) \in ListenerState
    BY <1>1, <1>5, ListenerTypes DEF ListenerReuses
  <2>2. MapType'
    BY <1>1, <1>5 DEF ListenerReuses, TypeOK, MapType
  <2>3. QED
    BY <1>2, <1>5, <2>1, <2>2, TypeUnchanged DEF ListenerReuses
<1>6. CASE ListenerConnects(c)
  <2>1. Listen("next", l.todo, NoServer, NoConn) \in ListenerState
    BY <1>1, ListenerTypes
  <2>2. ConnType' /\ MapType'
    BY <1>1, <1>6, ConnectedType DEF ListenerConnects
  <2>3. QED
    BY <1>2, <1>6, <2>1, <2>2, TypeUnchanged DEF ListenerConnects
<1>7. CASE ListenerFails(c) \/ ListenerFailsToClose(c)
  <2>1. CountType'
    BY <1>7 DEF ListenerFails, ListenerFailsToClose, TypeOK, CountType
  <2>2. QED
    BY <1>2, <1>7, <2>1, ListenerTypes, TypeUnchanged DEF ListenerFails, ListenerFailsToClose
<1>8. CASE ListenerTurns(c)
  <2>1. Listen("check", Listed(handlerMapBak), NoServer, NoConn) \in ListenerState
    BY ListenerTypes DEF Listed
  <2>2. QED
    BY <1>2, <1>8, <2>1, TypeUnchanged DEF ListenerTurns
<1>9. ASSUME NEW s \in Server, ListenerKeeps(c, s) PROVE TypeOK'
  <2>1. Listen("check", l.todo \ {s}, NoServer, NoConn) \in ListenerState
    BY <1>1, ListenerTypes
  <2>2. QED
    BY <1>2, <1>9, <2>1, TypeUnchanged DEF ListenerKeeps
<1>10. ASSUME NEW s \in Server, ListenerDrops(c, s) PROVE TypeOK'
  <2>1. handlerMapBak[s] \in Conn
    BY <1>10 DEF ListenerDrops, Listed, TypeOK
  <2>2. Listen("close", l.todo \ {s}, NoServer, handlerMapBak[s]) \in ListenerState
    BY <1>1, <2>1, ListenerTypes
  <2>3. QED
    BY <1>2, <1>10, <2>2, TypeUnchanged DEF ListenerDrops
<1>11. CASE ListenerTorn(c)
  BY <1>2, <1>11, ListenerTypes, TypeUnchanged DEF ListenerTorn
<1>12. CASE ListenerCloses(c)
  <2>1. Listen("check", l.todo, NoServer, NoConn) \in ListenerState
    BY <1>1, ListenerTypes
  <2>2. ConnType'
    BY <1>12, ClosedType DEF ListenerCloses
  <2>3. QED
    BY <1>2, <1>12, <2>1, <2>2, TypeUnchanged DEF ListenerCloses
<1>13. CASE ListenerClearsBak(c)
  <2>1. MapType'
    BY <1>13 DEF ListenerClearsBak, NoHandlers, TypeOK, MapType
  <2>2. QED
    BY <1>2, <1>13, <2>1, ListenerTypes, TypeUnchanged DEF ListenerClearsBak
<1>14. CASE ListenerEnds(c)
  <2>1. MapType' /\ CountType'
    BY <1>14 DEF ListenerEnds, Filled, TypeOK, MapType, CountType
  <2>2. QED
    BY <1>2, <1>14, <2>1, ListenerTypes, TypeUnchanged DEF ListenerEnds
<1>15. QED
  BY <1>3, <1>4, <1>5, <1>6, <1>7, <1>8, <1>9, <1>10, <1>11, <1>12, <1>13, <1>14
  DEF ListenerStep

LEMMA ServerKeepsType ==
  ASSUME TypeOK, NEW s \in Server,
         \/ ServerStarts(s) \/ ServerStartsEarly(s)
         \/ ServerStops(s) \/ SessionEnds(s)
  PROVE  TypeOK'
<1>0. changes \in 0..MaxChanges
  BY DEF TypeOK
<1>1. changes < MaxChanges /\ changes' = changes + 1 => changes' \in 0..MaxChanges
  BY <1>0, RpcBoundsAssumption
<1>2. ChildChange => CountType' /\ event' \subseteq Caller
  BY <1>1 DEF ChildChange, Listening, TypeOK, CountType
<1>3. CASE ServerStarts(s)
  <2>1. ServerType' /\ ZkType' /\ CountType'
    BY <1>2, <1>3 DEF ServerStarts, TypeOK, ServerType, ZkType
  <2>2. QED
    BY <1>3, <2>1, TypeUnchanged, TypePartsNext DEF ServerStarts
<1>4. CASE ServerStartsEarly(s)
  <2>1. ServerType' /\ CountType'
    BY <1>1, <1>4 DEF ServerStartsEarly, TypeOK, ServerType, CountType
  <2>2. QED
    BY <1>4, <2>1, TypeUnchanged, TypePartsNext DEF ServerStartsEarly
<1>5. CASE ServerStops(s)
  <2>1. ServerType' /\ CountType'
    BY <1>1, <1>5 DEF ServerStops, TypeOK, ServerType, CountType
  <2>2. <<>> \in Seq(Request)
    OBVIOUS
  <2>3. /\ link' \in [Conn -> {"unused", "new", "active", "lost", "closed"}]
        /\ requests' \in [Conn -> Seq(Request)]
        /\ answers' \in [Conn -> Seq(Request)]
    BY <1>5, <2>2 DEF ServerStops, TypeOK
  <2>4. ConnType'
    BY <1>5, <2>3 DEF ServerStops, TypeOK, ConnType
  <2>5. QED
    BY <1>5, <2>1, <2>4, TypeUnchanged, TypePartsNext DEF ServerStops
<1>6. CASE SessionEnds(s)
  <2>1. ServerType' /\ ZkType' /\ CountType'
    BY <1>2, <1>6 DEF SessionEnds, TypeOK, ServerType, ZkType
  <2>2. QED
    BY <1>6, <2>1, TypeUnchanged, TypePartsNext DEF SessionEnds
<1>7. QED
  BY <1>3, <1>4, <1>5, <1>6

LEMMA TypeStep == TypeOK /\ Started /\ [Next]_vars => TypeOK'
<1> SUFFICES ASSUME TypeOK, Started, [Next]_vars PROVE TypeOK'
  OBVIOUS
<1>1. CASE UNCHANGED vars
  BY <1>1, TypeUnchanged, TypePartsNext DEF vars, callVars
<1>2. ASSUME NEW c \in Caller, Invoke(c) \/ CallStep(c) PROVE TypeOK'
  BY <1>2, CallKeepsType, HandlerKeepsType DEF CallStep
<1>3. ASSUME NEW c \in Caller, ListenerStep(c) PROVE TypeOK'
  BY <1>3, ListenerKeepsType
<1>4. ASSUME NEW k \in Conn, Receive(k) \/ Answer(k) \/ Misread(k) PROVE TypeOK'
  BY <1>4, ConnectionKeepsType DEF Receive
<1>5. ASSUME NEW s \in Server,
             \/ ServerStarts(s) \/ ServerStartsEarly(s)
             \/ ServerStops(s) \/ SessionEnds(s)
      PROVE  TypeOK'
  BY <1>5, ServerKeepsType
<1>6. QED
  BY <1>1, <1>2, <1>3, <1>4, <1>5 DEF Next

LEMMA Moved ==
  ASSUME TypeOK, NEW c \in Caller, NEW x, call' = [call EXCEPT ![c] = x]
  PROVE  call'[c] = x /\ \A d \in Caller : d # c => call'[d] = call[d]
BY DEF TypeOK

\* A new connection takes the request of nobody.
LEMMA ConnectedPara ==
  ASSUME TypeOK, NEW s \in Server, Connected(s), NEW d \in Caller, call[d].conn # NoConn
  PROVE  para'[call[d].conn] = para[call[d].conn]
<1>1. NewConn \in Fresh
  BY NewConnFresh DEF Connected
<1>2. call[d].conn # NewConn
  BY <1>1 DEF Fresh, Users
<1>3. call[d].conn \in Conn
  BY CallForms DEF TypeOK
<1>4. QED
  BY <1>2, <1>3 DEF Connected, TypeOK

LEMMA StartedStep == TypeOK /\ Started /\ [Next]_vars => Started'
<1> SUFFICES ASSUME TypeOK, Started, [Next]_vars PROVE Started'
  OBVIOUS
<1>0. \A d \in Caller : calls[d] \in Nat
  <2>1. \A d \in Caller : calls[d] \in 0..MaxCalls
    BY DEF TypeOK
  <2>2. QED
    BY <2>1, RpcBoundsAssumption
<1>1. ASSUME UNCHANGED <<callVars, para>> PROVE Started'
  BY <1>1 DEF Started, callVars
<1>2. ASSUME NEW c \in Caller, NEW x, x.conn = NoConn, call[c].at # "idle",
             call' = [call EXCEPT ![c] = x], UNCHANGED <<calls, para>>
      PROVE  Started'
  BY <1>2, Moved DEF Started
<1>3. ASSUME NEW c \in Caller, NEW at, call[c].at # "idle",
             call' = [call EXCEPT ![c] = Call(at, {}, NoServer, call[c].conn)],
             UNCHANGED <<calls, para>>
      PROVE  Started'
  <2>1. call'[c].conn = call[c].conn
    BY <1>3, Moved DEF Call
  <2>2. QED
    BY <1>3, <2>1, Moved DEF Started
<1>4. ASSUME NEW c \in Caller, Invoke(c) PROVE Started'
  <2>1. /\ call'[c].conn = NoConn
        /\ \A d \in Caller : d # c => call'[d] = call[d]
    <3> DEFINE x == Call(IF zkClientUtil THEN "choose" ELSE "init", {}, NoServer, NoConn)
    <3>1. call' = [call EXCEPT ![c] = x]
      BY <1>4 DEF Invoke
    <3>2. x.conn = NoConn
      BY DEF Call
    <3> HIDE DEF x
    <3>3. QED
      BY <3>1, <3>2, Moved
  <2>2. /\ calls'[c] = calls[c] + 1
        /\ \A d \in Caller : d # c => calls'[d] = calls[d]
    BY <1>4 DEF Invoke, TypeOK
  <2>3. calls'[c] # 0
    BY <1>0, <2>2
  <2>4. QED
    BY <1>4, <2>1, <2>2, <2>3 DEF Started, Invoke, connVars
<1>5. ASSUME NEW c \in Caller, NEW s \in Server, InitConnect(c, s) PROVE Started'
  <2>1. call'[c].conn = NoConn /\ \A d \in Caller : d # c => call'[d] = call[d]
    <3> DEFINE x == Call("connect", call[c].todo \ {s}, NoServer, NoConn)
    <3>1. call' = [call EXCEPT ![c] = x]
      BY <1>5, InitConnectForm
    <3>2. x.conn = NoConn
      BY DEF Call
    <3> HIDE DEF x
    <3>3. QED
      BY <3>1, <3>2, Moved
  <2>2. call[c].at # "idle" /\ calls' = calls /\ Connected(s)
    BY <1>5 DEF InitConnect
  <2>3. QED
    BY <2>1, <2>2, ConnectedPara DEF Started
<1>6. ASSUME NEW c \in Caller, ListenerConnects(c) PROVE Started'
  <2>1. listener[c].server \in Server
    BY <1>6, ListenerForms DEF TypeOK, ListenerConnects
  <2>2. UNCHANGED callVars /\ Connected(listener[c].server)
    BY <1>6 DEF ListenerConnects
  <2>3. QED
    BY <2>1, <2>2, ConnectedPara DEF Started, callVars
<1>7. ASSUME NEW c \in Caller, TakeHandler(c) PROVE Started'
  <2> DEFINE k == handlerMap[call[c].server]
  <2>1. call'[c].conn = k /\ \A d \in Caller : d # c => call'[d] = call[d]
    <3> DEFINE x == Call("submit", {}, NoServer, k)
    <3>1. call' = [call EXCEPT ![c] = x]
      BY <1>7 DEF TakeHandler
    <3>2. x.conn = k
      BY DEF Call
    <3> HIDE DEF x
    <3>3. QED
      BY <3>1, <3>2, Moved
  <2>2. Own(c) \in Request
    <3>1. call[c].at # "idle"
      BY <1>7 DEF TakeHandler
    <3>2. QED
      BY <3>1, StartedOwn
  <2>3. para' = [para EXCEPT ![k] = Own(c)] /\ calls' = calls /\ call[c].at # "idle"
    BY <1>7 DEF TakeHandler
  <2>4. \A d \in Caller : call[d].conn # NoConn => call[d].conn \in Conn
    BY CallForms DEF TypeOK
  <2>5. \A j \in Conn : para'[j] \in {para[j], Own(c)}
    BY <2>3 DEF TypeOK
  <2>6. k # NoConn => para'[k] = Own(c)
    <3>1. call[c].at = "lookup"
      BY <1>7 DEF TakeHandler
    <3>2. call[c].server \in Server
      BY <3>1, CallForms DEF TypeOK
    <3>3. k # NoConn => k \in Conn
      BY <3>2 DEF TypeOK
    <3>4. QED
      BY <2>3, <3>3 DEF TypeOK
  <2>7. QED
    BY <2>1, <2>2, <2>3, <2>4, <2>5, <2>6 DEF Started
<1>8. ASSUME NEW c \in Caller, CallStep(c) PROVE Started'
  <2>1. CASE CreateZkClient(c) \/ NoServerList(c) \/ InitClearsBak(c) \/ InitFillsBak(c)
               \/ Subscribe(c) \/ ChooseFails(c) \/ NoHandler(c) \/ SendFails(c) \/ Return(c)
    BY <1>2, <2>1 DEF CreateZkClient, NoServerList, InitClearsBak, InitFillsBak, Subscribe,
                      ChooseFails, NoHandler, SendFails, Return, Call, Idle, connVars
  <2>2. ASSUME NEW s \in Server, InitConnectFails(c, s) \/ ChooseServer(c, s)
        PROVE  Started'
    BY <1>2, <2>2 DEF InitConnectFails, ChooseServer, Call, Idle, connVars
  <2>3. CASE Send(c)
    BY <1>3, <2>3, AtForm DEF Send
  <2>4. QED
    BY <1>5, <1>7, <1>8, <2>1, <2>2, <2>3 DEF CallStep
<1>9. ASSUME NEW k \in Conn, NEW n \in 1..Len(answers[k]), ChannelRead(k, n)
      PROVE  Started'
  <2>1. CASE UNCHANGED call
    BY <1>1, <1>9, <2>1 DEF ChannelRead, callVars
  <2>2. ASSUME NEW c \in Waiting(k), call' = [call EXCEPT ![c].at = "woken"]
        PROVE  Started'
    <3>1. c \in Caller /\ call[c].at = "wait"
      BY <2>2 DEF Waiting, Users
    <3>2. call' = [call EXCEPT ![c] = Call("woken", {}, NoServer, call[c].conn)]
      BY <2>2, <3>1, AtForm
    <3>3. QED
      BY <1>3, <1>9, <3>1, <3>2 DEF ChannelRead
  <2>3. QED
    BY <1>9, <2>1, <2>2 DEF ChannelRead
<1>10. ASSUME NEW k \in Conn, ChannelActive(k) \/ Answer(k) \/ Misread(k) PROVE Started'
  BY <1>1, <1>10 DEF ChannelActive, Answer, Misread
<1>11. ASSUME NEW c \in Caller, ListenerStep(c) PROVE Started'
  BY <1>1, <1>6, <1>11 DEF ListenerStep, ListenerStarts, ListenerLooks, ListenerReuses,
                           ListenerFails, ListenerTurns, ListenerKeeps, ListenerDrops,
                           ListenerTorn, ListenerCloses, ListenerFailsToClose,
                           ListenerClearsBak, ListenerEnds, connVars
<1>12. ASSUME NEW s \in Server,
              \/ ServerStarts(s) \/ ServerStartsEarly(s)
              \/ ServerStops(s) \/ SessionEnds(s)
       PROVE  Started'
  BY <1>1, <1>12 DEF ServerStarts, ServerStartsEarly, ServerStops, SessionEnds, connVars
<1>13. CASE UNCHANGED vars
  BY <1>1, <1>13 DEF vars, connVars
<1>14. QED
  BY <1>4, <1>8, <1>9, <1>10, <1>11, <1>12, <1>13 DEF Next, Receive

\* Theorem: every field of the consumer and of its handlers keeps its type (TypeOK).
THEOREM TypeCorrect == Spec => []TypeOK
<1>1. Init => TypeOK /\ Started
  BY TypeInit DEF Init, Started, Idle, Call
<1>2. TypeOK /\ Started /\ [Next]_vars => TypeOK' /\ Started'
  BY TypeStep, StartedStep
<1>3. QED
  BY <1>1, <1>2, PTL DEF Spec

-----------------------------------------------------------------------------
(***************************************************************************)
(* What waits on a connection is on its way, nothing waits on a new one,   *)
(* and a handler that was never shared serves one call after the other.    *)
(***************************************************************************)
Whole(k) == link[k] = "active" /\ spoilt[k] \subseteq {"shared"}

WakeupInv(k) ==
    /\ link[k] = "new" => Waiting(k) = {} /\ requests[k] = <<>> /\ answers[k] = <<>>
    /\ Whole(k) => Cardinality(Waiting(k)) = Len(requests[k]) + Len(answers[k])

ServedInv(c, k) ==
    /\ call[c].at = "submit" =>
            para[k] = Own(c) /\ requests[k] = <<>> /\ answers[k] = <<>>
    /\ call[c].at = "wait" =>
            \/ requests[k] = <<Own(c)>> /\ answers[k] = <<>>
            \/ requests[k] = <<>> /\ answers[k] \in {<<>>, <<Own(c)>>}
    /\ call[c].at = "woken" =>
            result[k] = {Own(c)} /\ requests[k] = <<>> /\ answers[k] = <<>>

AloneInv(k) ==
    "shared" \notin spoilt[k] =>
        /\ \A c, d \in Users(k) : c = d
        /\ Users(k) = {} => requests[k] = <<>> /\ answers[k] = <<>>
        /\ \A c \in Users(k) : ServedInv(c, k)

CallInv == \A k \in Conn : WakeupInv(k) /\ AloneInv(k)

LEMMA WaitingFinite == \A k \in Conn : IsFiniteSet(Waiting(k)) /\ Cardinality(Waiting(k)) \in Nat
<1>1. \A k \in Conn : Waiting(k) \subseteq Caller
  BY DEF Waiting, Users
<1>2. \A k \in Conn : IsFiniteSet(Waiting(k))
  BY <1>1, NamesAssumption, FS_Subset
<1>3. QED
  BY <1>2, FS_CardinalityType

SameConn(k) ==
    /\ link'[k] = link[k] /\ para'[k] = para[k] /\ result'[k] = result[k]
    /\ requests'[k] = requests[k] /\ answers'[k] = answers[k] /\ spoilt'[k] = spoilt[k]

SameCall(d) == call'[d] = call[d] /\ calls'[d] = calls[d]

\* The connection k is as it was, and so is who uses it.
LEMMA CallInvKept ==
  ASSUME NEW k \in Conn, WakeupInv(k), AloneInv(k), SameConn(k),
         \A d \in Caller : SameCall(d) \/ (call[d].conn # k /\ call'[d].conn # k)
  PROVE  WakeupInv(k)' /\ AloneInv(k)'
<1>1. Users(k)' = Users(k) /\ \A d \in Users(k) : SameCall(d)
  BY DEF Users, SameCall
<1>2. Waiting(k)' = Waiting(k)
  BY <1>1 DEF Waiting, SameCall
<1>3. WakeupInv(k)'
  BY <1>2 DEF WakeupInv, Whole, SameConn
<1>4. ASSUME NEW d \in Users(k) PROVE ServedInv(d, k)' <=> ServedInv(d, k)
  BY <1>1, <1>4 DEF ServedInv, SameConn, SameCall, Own
<1>5. AloneInv(k)'
  BY <1>1, <1>4 DEF AloneInv, SameConn
<1>6. QED
  BY <1>3, <1>5

\* Whatever was on its way on k is gone.
LEMMA CallInvCut ==
  ASSUME NEW k \in Conn, WakeupInv(k), AloneInv(k), UNCHANGED callVars,
         link'[k] \in {"closed", "lost"}, requests'[k] = <<>>, answers'[k] = <<>>,
         para'[k] = para[k], result'[k] = result[k], spoilt'[k] = spoilt[k]
  PROVE  WakeupInv(k)' /\ AloneInv(k)'
<1>1. Users(k)' = Users(k)
  BY DEF Users, callVars
<1>2. WakeupInv(k)'
  BY DEF WakeupInv, Whole
<1>3. ASSUME NEW d \in Users(k), ServedInv(d, k) PROVE ServedInv(d, k)'
  BY <1>3 DEF ServedInv, callVars, Own
<1>4. AloneInv(k)'
  BY <1>1, <1>3 DEF AloneInv
<1>5. QED
  BY <1>2, <1>4

LEMMA CallInvConnected ==
  ASSUME TypeOK, CallInv, NEW s \in Server, Connected(s), UNCHANGED calls,
         \A d \in Caller : \/ call'[d] = call[d]
                           \/ call[d].conn = NoConn /\ call'[d].conn = NoConn
  PROVE  CallInv'
<1>0. NewConn \in Fresh /\ NewConn \in Conn
  BY NewConnFresh DEF Connected
<1>1. PICK n \in Conn : n = NewConn /\ n \in Fresh
  BY <1>0
<1>2. ASSUME NEW k \in Conn, k # n PROVE WakeupInv(k)' /\ AloneInv(k)'
  <2>1. SameConn(k)
    BY <1>1, <1>2 DEF Connected, SameConn, TypeOK
  <2>2. k # NoConn
    BY NamesAssumption
  <2>3. QED
    BY <2>1, <2>2, CallInvKept DEF CallInv, SameCall
<1>3. WakeupInv(n)' /\ AloneInv(n)'
  <2>1. \A d \in Caller : call'[d].conn # n
    BY <1>1, NamesAssumption DEF Fresh, Users
  <2>2. Users(n)' = {} /\ Waiting(n)' = {}
    BY <2>1 DEF Users, Waiting
  <2>3. /\ link'[n] = "new" /\ requests'[n] = <<>> /\ answers'[n] = <<>>
    BY <1>1 DEF Connected, TypeOK
  <2>4. WakeupInv(n)'
    BY <2>2, <2>3 DEF WakeupInv, Whole
  <2>5. AloneInv(n)'
    BY <2>2, <2>3 DEF AloneInv
  <2>6. QED
    BY <2>4, <2>5
<1>4. QED
  BY <1>2, <1>3 DEF CallInv

LEMMA CallInvTakes ==
  ASSUME TypeOK, CallInv, NEW c \in Caller, TakeHandler(c)
  PROVE  CallInv'
<1>1. call[c].at = "lookup" /\ call[c].conn = NoConn /\ call[c].server \in Server
  BY CallForms DEF TypeOK, TakeHandler
<1>2. PICK h \in Conn : h = handlerMap[call[c].server]
  BY <1>1, MapTypes DEF TakeHandler
<1>3. /\ call'[c] = Call("submit", {}, NoServer, h) /\ calls' = calls
      /\ \A d \in Caller : d # c => call'[d] = call[d]
  BY <1>2, Moved DEF TakeHandler
<1>4. call'[c].conn = h /\ call'[c].at = "submit"
  BY <1>3 DEF Call
<1>5. /\ UNCHANGED <<link, result, requests, answers>>
      /\ para'[h] = Own(c) /\ \A k \in Conn : k # h => para'[k] = para[k] /\ spoilt'[k] = spoilt[k]
      /\ IF Users(h) = {} THEN spoilt' = spoilt ELSE "shared" \in spoilt'[h]
      /\ spoilt'[h] \subseteq {"shared"} => spoilt[h] \subseteq {"shared"}
  BY <1>2 DEF TakeHandler, TypeOK
<1>6. ASSUME NEW k \in Conn, k # h PROVE WakeupInv(k)' /\ AloneInv(k)'
  <2>1. SameConn(k)
    BY <1>5, <1>6 DEF SameConn
  <2>2. call[c].conn # k /\ call'[c].conn # k
    BY <1>1, <1>4, <1>6, NamesAssumption
  <2>3. QED
    BY <1>3, <2>1, <2>2, CallInvKept DEF CallInv, SameCall
<1>7. c \notin Users(h)
  BY <1>1, NamesAssumption DEF Users
<1>8. Users(h)' = Users(h) \cup {c}
  BY <1>3, <1>4 DEF Users
<1>9. Waiting(h)' = Waiting(h)
  BY <1>1, <1>3, <1>4 DEF Waiting, Users
<1>10. WakeupInv(h)'
  BY <1>5, <1>9 DEF CallInv, WakeupInv, Whole
<1>11. AloneInv(h)'
  <2>1. SUFFICES ASSUME "shared" \notin spoilt'[h]
                 PROVE  /\ \A a, d \in Users(h)' : a = d
                        /\ Users(h)' = {} => requests'[h] = <<>> /\ answers'[h] = <<>>
                        /\ \A d \in Users(h)' : ServedInv(d, h)'
    BY DEF AloneInv
  <2>2. Users(h) = {} /\ spoilt' = spoilt
    BY <1>5, <2>1
  <2>3. requests[h] = <<>> /\ answers[h] = <<>> /\ Users(h)' = {c}
    BY <1>8, <2>1, <2>2 DEF CallInv, AloneInv
  <2>4. ServedInv(c, h)'
    BY <1>3, <1>4, <1>5, <2>3 DEF ServedInv, Own
  <2>5. QED
    BY <2>3, <2>4
<1>12. QED
  BY <1>6, <1>10, <1>11 DEF CallInv

LEMMA CallInvSends ==
  ASSUME TypeOK, CallInv, NEW c \in Caller, Send(c)
  PROVE  CallInv'
<1>1. call[c].at = "submit"
  BY DEF Send
<1>2. PICK h \in Conn : h = call[c].conn
  BY <1>1, CallForms DEF TypeOK
<1>3. /\ call'[c] = Call("wait", {}, NoServer, h) /\ calls' = calls
      /\ \A d \in Caller : d # c => call'[d] = call[d]
  <2>1. /\ call' = [call EXCEPT ![c] = Call("wait", {}, NoServer, h)]
        /\ Call("wait", {}, NoServer, h) \in CallState
    BY <1>1, <1>2, AtForm DEF Send
  <2>2. QED
    BY <2>1, Moved DEF Send
<1>4. call'[c].conn = h /\ call'[c].at = "wait"
  BY <1>3 DEF Call
<1>5. /\ UNCHANGED <<link, para, result, answers, spoilt>> /\ link[h] # "new"
      /\ \A k \in Conn : k # h => requests'[k] = requests[k]
      /\ requests'[h] = IF link[h] = "active" THEN Append(requests[h], para[h]) ELSE requests[h]
  BY <1>2 DEF Send, TypeOK
<1>6. ASSUME NEW k \in Conn, k # h PROVE WakeupInv(k)' /\ AloneInv(k)'
  <2>1. SameConn(k)
    BY <1>5, <1>6 DEF SameConn
  <2>2. QED
    BY <1>2, <1>3, <1>4, <1>6, <2>1, CallInvKept DEF CallInv, SameCall
<1>7. Users(h)' = Users(h) /\ c \in Users(h)
  BY <1>2, <1>3, <1>4 DEF Users
<1>8. Waiting(h)' = Waiting(h) \cup {c} /\ c \notin Waiting(h)
  BY <1>1, <1>2, <1>3, <1>4 DEF Waiting, Users
<1>9. WakeupInv(h)'
  <2>1. ASSUME Whole(h)'
        PROVE  Cardinality(Waiting(h)') = Len(requests'[h]) + Len(answers'[h])
    <3>1. Whole(h) /\ requests'[h] = Append(requests[h], para[h]) /\ answers'[h] = answers[h]
      BY <1>5, <2>1 DEF Whole
    <3>2. Cardinality(Waiting(h)') = Cardinality(Waiting(h)) + 1
      BY <1>8, WaitingFinite, FS_AddElement
    <3>3. requests[h] \in Seq(Request) /\ answers[h] \in Seq(Request)
      BY DEF TypeOK
    <3>4. Len(requests'[h]) = Len(requests[h]) + 1 /\ Len(answers[h]) \in Nat
      BY <3>1, <3>3
    <3>5. Cardinality(Waiting(h)) = Len(requests[h]) + Len(answers[h])
      BY <3>1 DEF CallInv, WakeupInv
    <3>6. Len(requests[h]) \in Nat /\ Len(answers'[h]) = Len(answers[h])
      BY <3>1, <3>3
    <3>7. QED
      <4> DEFINE w == Cardinality(Waiting(h))
                 w1 == Cardinality(Waiting(h)')
                 r == Len(requests[h])
                 r1 == Len(requests'[h])
                 a == Len(answers[h])
                 a1 == Len(answers'[h])
      <4>1. w1 = w + 1 /\ r1 = r + 1 /\ a1 = a /\ w = r + a /\ r \in Nat /\ a \in Nat
        BY <3>2, <3>4, <3>5, <3>6
      <4> HIDE DEF w, w1, r, r1, a, a1
      <4>2. w1 = r1 + a1
        BY <4>1
      <4>3. QED
        BY <4>2 DEF w1, r1, a1
  <2>2. QED
    BY <1>5, <2>1 DEF WakeupInv
<1>10. AloneInv(h)'
  <2>1. SUFFICES ASSUME "shared" \notin spoilt[h]
                 PROVE  /\ \A a, d \in Users(h) : a = d
                        /\ Users(h) = {} => requests'[h] = <<>> /\ answers'[h] = <<>>
                        /\ \A d \in Users(h) : ServedInv(d, h)'
    BY <1>5, <1>7 DEF AloneInv
  <2>2. /\ \A a, d \in Users(h) : a = d
        /\ para[h] = Own(c) /\ requests[h] = <<>> /\ answers[h] = <<>>
    BY <1>1, <1>7, <2>1 DEF CallInv, AloneInv, ServedInv
  <2>3. requests'[h] \in {<<>>, <<Own(c)>>} /\ answers'[h] = <<>>
    BY <1>5, <2>2
  <2>4. ServedInv(c, h)'
    BY <1>3, <1>4, <2>3 DEF ServedInv, Own
  <2>5. QED
    BY <1>7, <2>2, <2>4
<1>11. QED
  BY <1>6, <1>9, <1>10 DEF CallInv

\* A call that never waited, or was woken, leaves its handler.
LEMMA CallInvLeaves ==
  ASSUME TypeOK, CallInv, NEW c \in Caller, SendFails(c) \/ Return(c)
  PROVE  CallInv'
<1>1. call[c].at \in {"submit", "woken"} /\ calls' = calls /\ UNCHANGED connVars
  BY DEF SendFails, Return
<1>2. /\ call'[c] = Idle
      /\ \A d \in Caller : d # c => call'[d] = call[d]
  BY Moved DEF SendFails, Return
<1>3. call'[c].conn = NoConn
  BY <1>2 DEF Idle, Call
<1>4. PICK h \in Conn : h = call[c].conn
  BY <1>1, CallForms DEF TypeOK
<1>5. ASSUME NEW k \in Conn PROVE SameConn(k)
  BY <1>1 DEF SameConn, connVars
<1>6. ASSUME NEW k \in Conn, k # h PROVE WakeupInv(k)' /\ AloneInv(k)'
  BY <1>1, <1>2, <1>3, <1>4, <1>5, <1>6, CallInvKept, NamesAssumption DEF CallInv, SameCall
<1>7. Users(h)' = Users(h) \ {c} /\ c \in Users(h)
  BY <1>2, <1>3, <1>4, NamesAssumption DEF Users
<1>8. Waiting(h)' = Waiting(h)
  BY <1>1, <1>2, <1>3, NamesAssumption DEF Waiting, Users
<1>9. WakeupInv(h)'
  BY <1>5, <1>8 DEF CallInv, WakeupInv, Whole, SameConn
<1>10. AloneInv(h)'
  <2>1. SUFFICES ASSUME "shared" \notin spoilt[h]
                 PROVE  Users(h)' = {} /\ requests[h] = <<>> /\ answers[h] = <<>>
    BY <1>5 DEF AloneInv, SameConn
  <2>2. (\A d \in Users(h) : d = c) /\ ServedInv(c, h)
    BY <1>7, <2>1 DEF CallInv, AloneInv
  <2>3. QED
    BY <1>1, <1>7, <2>2 DEF ServedInv
<1>11. QED
  BY <1>6, <1>9, <1>10 DEF CallInv

LEMMA OneWaits ==
  ASSUME TypeOK, CallInv, NEW h \in Conn, "shared" \notin spoilt[h],
         requests[h] # <<>> \/ answers[h] # <<>>
  PROVE  \E c \in Users(h) : /\ call[c].at = "wait" /\ ServedInv(c, h)
                             /\ \A d \in Users(h) : d = c
<1>1. PICK c \in Users(h) : ServedInv(c, h) /\ \A d \in Users(h) : d = c
  BY DEF CallInv, AloneInv
<1>2. call[c] \in CallState /\ call[c].conn # NoConn
  BY NamesAssumption DEF Users, TypeOK
<1>3. call[c].at \in {"submit", "wait", "woken"}
  BY <1>2, CallForms
<1>4. call[c].at = "wait"
  BY <1>1, <1>3 DEF ServedInv
<1>5. QED
  BY <1>1, <1>4

\* What a server does to the bytes on their way leaves the calls alone.
LEMMA CallInvAnswers ==
  ASSUME TypeOK, CallInv, NEW h \in Conn, Answer(h) \/ Misread(h)
  PROVE  CallInv'
<1>1. /\ requests[h] # <<>> /\ UNCHANGED <<callVars, link, para, result>>
      /\ requests'[h] = Tail(requests[h])
      /\ \A k \in Conn : k # h => SameConn(k)
  BY DEF Answer, Misread, TypeOK, SameConn
<1>2. requests[h] \in Seq(Request) /\ answers[h] \in Seq(Request)
  BY DEF TypeOK
<1>3. ASSUME NEW k \in Conn, k # h PROVE WakeupInv(k)' /\ AloneInv(k)'
  BY <1>1, <1>3, CallInvKept DEF CallInv, SameCall, callVars
<1>4. Users(h)' = Users(h) /\ Waiting(h)' = Waiting(h)
  BY <1>1 DEF Users, Waiting, callVars
<1>5. link[h] # "new"
  BY <1>1 DEF CallInv, WakeupInv
<1>6. ASSUME "shared" \notin spoilt[h]
      PROVE  \E c \in Users(h) :
                /\ call[c].at = "wait" /\ requests[h] = <<Own(c)>> /\ answers[h] = <<>>
                /\ \A d \in Users(h) : d = c
  BY <1>1, <1>6, OneWaits DEF ServedInv
<1>7. CASE Answer(h)
  <2>1. answers'[h] = Append(answers[h], Head(requests[h])) /\ spoilt' = spoilt
    BY <1>7 DEF Answer, TypeOK
  <2>2. Len(requests'[h]) + Len(answers'[h]) = Len(requests[h]) + Len(answers[h])
    <3>1. Head(requests[h]) \in Request
      BY <1>1, <1>2
    <3>2. Len(answers'[h]) = Len(answers[h]) + 1 /\ Len(answers[h]) \in Nat
      BY <1>2, <2>1, <3>1
    <3>3. Len(requests'[h]) = Len(requests[h]) - 1 /\ Len(requests[h]) \in Nat
      BY <1>1, <1>2
    <3> DEFINE r == Len(requests[h])
               r1 == Len(requests'[h])
               a == Len(answers[h])
               a1 == Len(answers'[h])
    <3>4. r1 = r - 1 /\ a1 = a + 1 /\ r \in Nat /\ a \in Nat
      BY <3>2, <3>3
    <3> HIDE DEF r, r1, a, a1
    <3>5. r1 + a1 = r + a
      BY <3>4
    <3>6. QED
      BY <3>5 DEF r, r1, a, a1
  <2>3. WakeupInv(h)'
    BY <1>1, <1>4, <1>5, <2>1, <2>2 DEF CallInv, WakeupInv, Whole
  <2>4. ASSUME "shared" \notin spoilt[h]
        PROVE  /\ Users(h) # {} /\ \A a, d \in Users(h) : a = d
               /\ \A d \in Users(h) : ServedInv(d, h)'
    <3>1. PICK c \in Users(h) :
            /\ call[c].at = "wait" /\ requests[h] = <<Own(c)>> /\ answers[h] = <<>>
            /\ \A d \in Users(h) : d = c
      BY <1>6, <2>4
    <3>2. requests'[h] = <<>> /\ answers'[h] = <<Own(c)>>
      BY <1>1, <2>1, <3>1
    <3>3. QED
      BY <1>1, <3>1, <3>2 DEF ServedInv, Own, callVars
  <2>5. AloneInv(h)'
    BY <1>4, <2>1, <2>4 DEF AloneInv
  <2>6. QED
    BY <1>3, <2>3, <2>5 DEF CallInv
<1>8. CASE Misread(h)
  <2>1. answers' = answers /\ spoilt'[h] = spoilt[h] \cup {"misread"}
    BY <1>8 DEF Misread, TypeOK
  <2>2. WakeupInv(h)'
    BY <1>1, <1>5, <2>1 DEF WakeupInv, Whole
  <2>3. ASSUME "shared" \notin spoilt[h]
        PROVE  /\ Users(h) # {} /\ \A a, d \in Users(h) : a = d
               /\ \A d \in Users(h) : ServedInv(d, h)'
    <3>1. PICK c \in Users(h) :
            /\ call[c].at = "wait" /\ requests[h] = <<Own(c)>> /\ answers[h] = <<>>
            /\ \A d \in Users(h) : d = c
      BY <1>6, <2>3
    <3>2. requests'[h] = <<>> /\ answers'[h] = <<>>
      BY <1>1, <2>1, <3>1
    <3>3. QED
      BY <1>1, <3>1, <3>2 DEF ServedInv, Own, callVars
  <2>4. AloneInv(h)'
    BY <1>4, <2>1, <2>3 DEF AloneInv
  <2>5. QED
    BY <1>3, <2>2, <2>4 DEF CallInv
<1>9. QED
  BY <1>7, <1>8

\* channelRead: the one who is woken is no longer waited for, as is its answer.
LEMMA CallInvReads ==
  ASSUME TypeOK, CallInv, NEW h \in Conn, NEW n \in 1..Len(answers[h]), ChannelRead(h, n)
  PROVE  CallInv'
<1>1. /\ link[h] = "active" /\ UNCHANGED <<calls, link, para, requests>>
      /\ result'[h] = {answers[h][i] : i \in 1..n}
      /\ answers'[h] = SubSeq(answers[h], n + 1, Len(answers[h]))
      /\ IF n = 1 THEN spoilt' = spoilt ELSE "merged" \in spoilt'[h]
      /\ "shared" \in spoilt[h] => "shared" \in spoilt'[h]
      /\ \A k \in Conn : k # h => SameConn(k)
  BY DEF ChannelRead, TypeOK, SameConn
<1>2. /\ answers[h] \in Seq(Request) /\ Len(answers[h]) \in Nat
      /\ Len(requests[h]) \in Nat /\ n \in Nat /\ 1 <= n /\ n <= Len(answers[h])
  <2>1. answers[h] \in Seq(Request) /\ requests[h] \in Seq(Request)
    BY DEF TypeOK
  <2>2. QED
    BY <2>1
<1>3. answers[h] # <<>>
  BY <1>2
<1>4. CASE Waiting(h) = {}
  <2>1. call' = call
    BY <1>4 DEF ChannelRead
  <2>2. \A d \in Caller : SameCall(d)
    BY <1>1, <2>1 DEF SameCall
  <2>3. "shared" \in spoilt[h]
    BY <1>3, <1>4, OneWaits DEF Waiting
  <2>4. ~Whole(h)
    <3>1. ASSUME Whole(h) PROVE FALSE
      <4>1. Cardinality(Waiting(h)) = 0
        BY <1>4, FS_EmptySet
      <4>2. Cardinality(Waiting(h)) = Len(requests[h]) + Len(answers[h])
        BY <3>1 DEF CallInv, WakeupInv
      <4> DEFINE r == Len(requests[h])
                 a == Len(answers[h])
      <4>3. 0 = r + a /\ r \in Nat /\ a \in Nat /\ n \in Nat /\ 1 <= n /\ n <= a
        BY <1>2, <4>1, <4>2
      <4> HIDE DEF r, a
      <4>4. QED
        BY <4>3
    <3>2. QED
      BY <3>1
  <2>5. WakeupInv(h)' /\ AloneInv(h)'
    <3>1. ~Whole(h)'
      BY <1>1, <2>4 DEF Whole
    <3>2. WakeupInv(h)'
      BY <1>1, <3>1 DEF WakeupInv
    <3>3. AloneInv(h)'
      BY <1>1, <2>3 DEF AloneInv
    <3>4. QED
      BY <3>2, <3>3
  <2>6. QED
    BY <1>1, <2>2, <2>5, CallInvKept DEF CallInv
<1>5. ASSUME NEW c \in Waiting(h), call' = [call EXCEPT ![c].at = "woken"]
      PROVE  CallInv'
  <2>1. c \in Caller /\ call[c].at = "wait" /\ call[c].conn = h /\ c \in Users(h)
    BY <1>5 DEF Waiting, Users
  <2>2. call' = [call EXCEPT ![c] = Call("woken", {}, NoServer, h)]
    BY <1>5, <2>1, AtForm
  <2>3. /\ call'[c] = Call("woken", {}, NoServer, h)
        /\ \A d \in Caller : d # c => call'[d] = call[d]
    BY <2>1, <2>2, Moved
  <2>4. call'[c].conn = h /\ call'[c].at = "woken"
    BY <2>3 DEF Call
  <2>5. ASSUME NEW k \in Conn, k # h PROVE WakeupInv(k)' /\ AloneInv(k)'
    BY <1>1, <2>1, <2>3, <2>4, <2>5, CallInvKept DEF CallInv, SameCall
  <2>6. Users(h)' = Users(h) /\ Waiting(h)' = Waiting(h) \ {c}
    BY <2>1, <2>3, <2>4 DEF Users, Waiting
  <2>7. WakeupInv(h)'
    <3>1. ASSUME Whole(h)'
          PROVE  Cardinality(Waiting(h)') = Len(requests'[h]) + Len(answers'[h])
      <4>1. n = 1 /\ Whole(h)
        BY <1>1, <3>1 DEF Whole
      <4>2. Cardinality(Waiting(h)') = Cardinality(Waiting(h)) - 1
        BY <1>5, <2>6, WaitingFinite, FS_RemoveElement
      <4>3. Cardinality(Waiting(h)) = Len(requests[h]) + Len(answers[h])
        BY <4>1 DEF CallInv, WakeupInv
      <4>4. Len(answers'[h]) = Len(answers[h]) - 1
        BY <1>1, <1>2, <4>1
      <4>5. requests'[h] = requests[h]
        BY <1>1
      <4> DEFINE w == Cardinality(Waiting(h))
                 w1 == Cardinality(Waiting(h)')
                 r == Len(requests[h])
                 r1 == Len(requests'[h])
                 a == Len(answers[h])
                 a1 == Len(answers'[h])
      <4>6. w1 = w - 1 /\ r1 = r /\ a1 = a - 1 /\ w = r + a /\ r \in Nat /\ a \in Nat
        BY <1>2, <4>2, <4>3, <4>4, <4>5
      <4> HIDE DEF w, w1, r, r1, a, a1
      <4>7. w1 = r1 + a1
        BY <4>6
      <4>8. QED
        BY <4>7 DEF w1, r1, a1
    <3>2. QED
      BY <1>1, <3>1 DEF WakeupInv
  <2>8. AloneInv(h)'
    <3>1. SUFFICES ASSUME "shared" \notin spoilt[h]
                   PROVE  /\ Users(h) # {} /\ \A b, d \in Users(h) : b = d
                          /\ \A d \in Users(h) : ServedInv(d, h)'
      BY <1>1, <2>6 DEF AloneInv
    <3>2. \A d \in Users(h) : d = c
      BY <2>1, <3>1, OneWaits, <1>3
    <3>3. requests[h] = <<>> /\ answers[h] = <<Own(c)>>
      <4>1. ServedInv(c, h)
        BY <2>1, <3>1 DEF CallInv, AloneInv
      <4>2. QED
        BY <1>3, <2>1, <4>1 DEF ServedInv
    <3>4. n = 1 /\ result'[h] = {Own(c)} /\ answers'[h] = <<>>
      <4>1. Len(answers[h]) = 1 /\ answers[h][1] = Own(c)
        BY <3>3
      <4>2. n = 1
        BY <1>2, <4>1
      <4>3. \A i \in 1..1 : i = 1
        OBVIOUS
      <4>4. result'[h] = {Own(c)}
        BY <1>1, <4>1, <4>2, <4>3
      <4>5. answers'[h] = <<>>
        BY <1>1, <1>2, <4>1, <4>2
      <4>6. QED
        BY <4>2, <4>4, <4>5
    <3>5. ServedInv(c, h)'
      BY <1>1, <2>4, <3>3, <3>4 DEF ServedInv, Own
    <3>6. QED
      BY <2>1, <3>2, <3>5
  <2>9. QED
    BY <2>5, <2>7, <2>8 DEF CallInv
<1>6. QED
  BY <1>4, <1>5 DEF ChannelRead

LEMMA CallInvClosed ==
  ASSUME CallInv, NEW K, Closed(K), UNCHANGED <<callVars, para, result, spoilt>>
  PROVE  CallInv'
<1>1. ASSUME NEW k \in Conn PROVE WakeupInv(k)' /\ AloneInv(k)'
  <2>1. CASE k \in K
    <3>1. link'[k] = "closed" /\ requests'[k] = <<>> /\ answers'[k] = <<>>
      BY <2>1 DEF Closed
    <3>2. QED
      BY <3>1, CallInvCut DEF CallInv
  <2>2. CASE k \notin K
    <3>1. SameConn(k) /\ \A d \in Caller : SameCall(d)
      BY <2>2 DEF Closed, SameConn, SameCall, callVars
    <3>2. QED
      BY <3>1, CallInvKept DEF CallInv
  <2>3. QED
    BY <2>1, <2>2
<1>2. QED
  BY <1>1 DEF CallInv

LEMMA CallInvStep == TypeOK /\ CallInv /\ [Next]_vars => CallInv'
<1> SUFFICES ASSUME TypeOK, CallInv, [Next]_vars PROVE CallInv'
  OBVIOUS
<1>1. ASSUME UNCHANGED connVars,
             \A d \in Caller : \/ SameCall(d)
                               \/ call[d].conn = NoConn /\ call'[d].conn = NoConn
      PROVE  CallInv'
  <2>1. \A k \in Conn : SameConn(k) /\ k # NoConn
    BY <1>1, NamesAssumption DEF SameConn, connVars
  <2>2. QED
    BY <1>1, <2>1, CallInvKept DEF CallInv
<1>2. ASSUME UNCHANGED <<callVars, connVars>> PROVE CallInv'
  BY <1>1, <1>2 DEF SameCall, callVars
<1>3. \A c \in Caller : call[c].at \in {"idle"} \cup Before => call[c].conn = NoConn
  BY CallForms DEF TypeOK
<1>4. ASSUME NEW c \in Caller, NEW x, x.conn = NoConn, call[c].conn = NoConn,
             call' = [call EXCEPT ![c] = x], \A d \in Caller : d # c => calls'[d] = calls[d]
      PROVE  \A d \in Caller : \/ SameCall(d)
                               \/ call[d].conn = NoConn /\ call'[d].conn = NoConn
  BY <1>4, Moved DEF SameCall
<1>5. ASSUME NEW c \in Caller, Invoke(c) PROVE CallInv'
  <2> DEFINE x == Call(IF zkClientUtil THEN "choose" ELSE "init", {}, NoServer, NoConn)
  <2>1. x.conn = NoConn
    BY DEF Call
  <2>2. /\ call' = [call EXCEPT ![c] = x] /\ UNCHANGED connVars
        /\ \A d \in Caller : d # c => calls'[d] = calls[d]
    BY <1>5 DEF Invoke, TypeOK
  <2>3. call[c].conn = NoConn
    BY <1>5 DEF Invoke, Idle, Call
  <2>4. QED
    BY <1>1, <1>4, <2>1, <2>2, <2>3
<1>6. ASSUME NEW c \in Caller, CallStep(c) PROVE CallInv'
  <2>1. CASE CreateZkClient(c) \/ NoServerList(c) \/ InitClearsBak(c) \/ InitFillsBak(c)
               \/ Subscribe(c) \/ ChooseFails(c) \/ NoHandler(c)
    <3>1. /\ call[c].conn = NoConn /\ UNCHANGED <<calls, connVars>>
          /\ \E x : x.conn = NoConn /\ call' = [call EXCEPT ![c] = x]
      BY <1>3, <2>1 DEF CreateZkClient, NoServerList, InitClearsBak, InitFillsBak, Subscribe,
                        ChooseFails, NoHandler, Call, Idle, Before
    <3>2. QED
      BY <1>1, <1>4, <3>1
  <2>2. ASSUME NEW s \in Server, InitConnectFails(c, s) \/ ChooseServer(c, s)
        PROVE  CallInv'
    <3>1. /\ call[c].conn = NoConn /\ UNCHANGED <<calls, connVars>>
          /\ \E x : x.conn = NoConn /\ call' = [call EXCEPT ![c] = x]
      BY <1>3, <2>2 DEF InitConnectFails, ChooseServer, Call, Idle, Before
    <3>2. QED
      BY <1>1, <1>4, <3>1
  <2>3. ASSUME NEW s \in Server, InitConnect(c, s) PROVE CallInv'
    <3> DEFINE x == Call("connect", call[c].todo \ {s}, NoServer, NoConn)
    <3>1. call' = [call EXCEPT ![c] = x] /\ x.conn = NoConn
      BY <2>3, InitConnectForm DEF Call
    <3>2. Connected(s) /\ UNCHANGED calls /\ call[c].conn = NoConn
      BY <1>3, <2>3 DEF InitConnect, Before
    <3>3. QED
      BY <1>4, <3>1, <3>2, CallInvConnected DEF SameCall
  <2>4. QED
    BY <1>6, <2>1, <2>2, <2>3, CallInvTakes, CallInvSends, CallInvLeaves DEF CallStep
<1>7. ASSUME NEW c \in Caller, ListenerStep(c) PROVE CallInv'
  <2>1. CASE ~ListenerConnects(c) /\ ~ListenerCloses(c)
    BY <1>2, <1>7, <2>1
    DEF ListenerStep, ListenerStarts, ListenerLooks, ListenerReuses, ListenerFails,
        ListenerTurns, ListenerKeeps, ListenerDrops, ListenerTorn, ListenerFailsToClose,
        ListenerClearsBak, ListenerEnds
  <2>2. CASE ListenerConnects(c)
    <3>1. listener[c].server \in Server
      BY <2>2, ListenerForms DEF TypeOK, ListenerConnects
    <3>2. QED
      BY <2>2, <3>1, CallInvConnected DEF ListenerConnects, callVars
  <2>3. CASE ListenerCloses(c)
    BY <2>3, CallInvClosed DEF ListenerCloses
  <2>4. QED
    BY <2>1, <2>2, <2>3
<1>8. ASSUME NEW k \in Conn, ChannelActive(k) PROVE CallInv'
  <2>1. /\ link[k] = "new" /\ UNCHANGED callVars
        /\ link'[k] = "active" /\ UNCHANGED <<para, result, requests, answers, spoilt>>
        /\ \A j \in Conn : j # k => SameConn(j)
    BY <1>8 DEF ChannelActive, TypeOK, SameConn
  <2>2. ASSUME NEW j \in Conn, j # k PROVE WakeupInv(j)' /\ AloneInv(j)'
    BY <2>1, <2>2, CallInvKept DEF CallInv, SameCall, callVars
  <2>3. Users(k)' = Users(k) /\ Waiting(k)' = Waiting(k)
    BY <2>1 DEF Users, Waiting, callVars
  <2>4. WakeupInv(k)'
    <3>1. Waiting(k) = {} /\ requests[k] = <<>> /\ answers[k] = <<>>
      BY <2>1 DEF CallInv, WakeupInv
    <3>2. Cardinality(Waiting(k)') = 0
      BY <2>3, <3>1, FS_EmptySet
    <3>3. Len(requests'[k]) = 0 /\ Len(answers'[k]) = 0
      BY <2>1, <3>1
    <3>4. QED
      BY <2>1, <3>2, <3>3 DEF WakeupInv
  <2>5. AloneInv(k)'
    <3>1. \A d \in Users(k) : ServedInv(d, k)' <=> ServedInv(d, k)
      BY <2>1 DEF ServedInv, Own, callVars
    <3>2. QED
      BY <2>1, <2>3, <3>1 DEF CallInv, AloneInv
  <2>6. QED
    BY <2>2, <2>4, <2>5 DEF CallInv
<1>9. ASSUME NEW k \in Conn, Receive(k) \/ Answer(k) \/ Misread(k) PROVE CallInv'
  BY <1>8, <1>9, CallInvAnswers, CallInvReads DEF Receive
<1>10. ASSUME NEW s \in Server,
              \/ ServerStarts(s) \/ ServerStartsEarly(s)
              \/ ServerStops(s) \/ SessionEnds(s)
       PROVE  CallInv'
  <2>1. CASE ServerStarts(s) \/ ServerStartsEarly(s) \/ SessionEnds(s)
    BY <1>2, <2>1 DEF ServerStarts, ServerStartsEarly, SessionEnds
  <2>2. CASE ServerStops(s)
    <3> DEFINE K == {k \in Conn : peer[k] = s /\ link[k] \in {"new", "active"}}
    <3>1. ASSUME NEW k \in Conn PROVE WakeupInv(k)' /\ AloneInv(k)'
      <4>1. CASE k \in K
        <5>1. link'[k] = "lost" /\ requests'[k] = <<>> /\ answers'[k] = <<>>
          BY <2>2, <4>1 DEF ServerStops
        <5>2. UNCHANGED <<callVars, para, result, spoilt>>
          BY <2>2 DEF ServerStops
        <5>3. QED
          BY <5>1, <5>2, CallInvCut DEF CallInv
      <4>2. CASE k \notin K
        <5>1. SameConn(k) /\ \A d \in Caller : SameCall(d)
          BY <2>2, <4>2 DEF ServerStops, SameConn, SameCall, callVars
        <5>2. QED
          BY <5>1, CallInvKept DEF CallInv
      <4>3. QED
        BY <4>1, <4>2
    <3>2. QED
      BY <3>1 DEF CallInv
  <2>3. QED
    BY <1>10, <2>1, <2>2
<1>11. CASE UNCHANGED vars
  BY <1>2, <1>11 DEF vars
<1>12. QED
  BY <1>5, <1>6, <1>7, <1>9, <1>10, <1>11 DEF Next

LEMMA CallInvInit == Init => CallInv
<1> SUFFICES ASSUME Init, NEW k \in Conn PROVE WakeupInv(k) /\ AloneInv(k)
  BY DEF CallInv
<1>1. Users(k) = {}
  BY NamesAssumption DEF Init, Users, Idle, Call
<1>2. QED
  BY <1>1 DEF Init, WakeupInv, Whole, AloneInv

LEMMA CallsCorrect == Spec => [](TypeOK /\ CallInv)
<1>1. Init => TypeOK /\ Started /\ CallInv
  BY TypeInit, CallInvInit DEF Init, Started, Idle, Call
<1>2. TypeOK /\ Started /\ CallInv /\ [Next]_vars => TypeOK' /\ Started' /\ CallInv'
  BY TypeStep, StartedStep, CallInvStep
<1>3. QED
  BY <1>1, <1>2, PTL DEF Spec

\* Theorem: as many calls wait on a connection as requests and answers are under
\* way, so the executor's notify is never missed (NoLostWakeup).
THEOREM WakeupsCorrect == Spec => []NoLostWakeup
<1>1. CallInv => NoLostWakeup
  BY DEF CallInv, WakeupInv, Whole, NoLostWakeup
<1>2. QED
  BY <1>1, CallsCorrect, PTL

\* Theorem: a handler that was never shared gives each call its own answer
\* (OwnAnswer).
THEOREM AnswersCorrect == Spec => []OwnAnswer
<1>1. TypeOK /\ CallInv => OwnAnswer
  <2> SUFFICES ASSUME TypeOK, CallInv, NEW c \in Caller, call[c].at = "woken",
                      "shared" \notin spoilt[call[c].conn]
               PROVE  result[call[c].conn] = {Own(c)}
    BY DEF OwnAnswer
  <2>1. call[c].conn \in Conn /\ c \in Users(call[c].conn)
    BY CallForms DEF TypeOK, Users
  <2>2. QED
    BY <2>1 DEF CallInv, AloneInv, ServedInv
<1>2. QED
  BY <1>1, CallsCorrect, PTL

-----------------------------------------------------------------------------
(***************************************************************************)
(* With one client, what is in the map and what the client has still to    *)
(* connect are together the children of the node, unless it was or will be *)
(* told otherwise.                                                         *)
(***************************************************************************)
Active(c) == Initialising(c) \/ listener[c].at # "none"

\* What the listener of c has still to list
Toward(c) ==
    IF listener[c].at = "next" THEN listener[c].todo
    ELSE IF listener[c].at \in {"reuse", "connect"}
           THEN listener[c].todo \cup {listener[c].server}
           ELSE {}

ClientInv ==
    /\ event \subseteq Listening
    /\ \A c, d \in Caller : Active(c) /\ Active(d) => c = d
    /\ \A c \in Caller : Initialising(c) => listener[c].at = "none"
    /\ ~zkClientUtil => Listed(handlerMap) = {} /\ \A c \in Caller : ~Active(c)
    /\ zkClientUtil /\ faults \cap {"connect", "no node"} = {} => \E c \in Caller : Active(c)

FollowInv(c) ==
    /\ Initialising(c) /\ "missed" \notin faults =>
            Listed(handlerMap) \cup call[c].todo = children
    /\ /\ listener[c].at # "none" /\ c \notin event
       /\ listener[c].at = "idle" => faults \cap {"missed", "connect"} = {}
       => Listed(handlerMap) \cup Toward(c) = children

SyncInv == "two clients" \notin faults => ClientInv /\ \A c \in Caller : FollowInv(c)

\* Neither the client nor ZooKeeper takes a step.
LEMMA SyncKept ==
  ASSUME SyncInv, UNCHANGED <<children, zkVars, faults>>,
         Listed(handlerMap)' = Listed(handlerMap),
         \A d \in Caller : /\ Initialising(d)' <=> Initialising(d)
                           /\ Initialising(d) => call'[d].todo = call[d].todo
  PROVE  SyncInv'
<1>1. listener' = listener /\ event' = event /\ Listening' = Listening
      /\ zkClientUtil' = zkClientUtil
  BY DEF zkVars, Listening
<1>2. \A d \in Caller : (Active(d)' <=> Active(d)) /\ Toward(d)' = Toward(d)
  BY <1>1 DEF Active, Toward
<1>3. ClientInv => ClientInv'
  BY <1>1, <1>2 DEF ClientInv
<1>4. ASSUME NEW d \in Caller, FollowInv(d) PROVE FollowInv(d)'
  BY <1>1, <1>2, <1>4 DEF FollowInv
<1>5. QED
  BY <1>3, <1>4 DEF SyncInv

LEMMA ListedConnected ==
  ASSUME TypeOK, NEW s \in Server, Connected(s)
  PROVE  Listed(handlerMap)' = Listed(handlerMap) \cup {s}
<1>1. NewConn \in Conn /\ NewConn # NoConn
  BY NewConnFresh, NamesAssumption DEF Connected
<1>2. \A t \in Server : handlerMap'[t] = IF t = s THEN NewConn ELSE handlerMap[t]
  BY DEF Connected, TypeOK
<1>3. QED
  BY <1>1, <1>2 DEF Listed

LEMMA SyncCreates ==
  ASSUME TypeOK, SyncInv, NEW c \in Caller, CreateZkClient(c)
  PROVE  SyncInv'
<1> DEFINE x == Call("connect", children, NoServer, NoConn)
<1> SUFFICES ASSUME "two clients" \notin faults'
             PROVE  ClientInv' /\ \A d \in Caller : FollowInv(d)'
  BY DEF SyncInv
<1>1. ~zkClientUtil /\ "two clients" \notin faults /\ faults' = faults
  BY DEF CreateZkClient, Second
<1>2. /\ event = {} /\ Listed(handlerMap) = {} /\ \A d \in Caller : ~Active(d)
  BY <1>1 DEF SyncInv, ClientInv, Listening, Active
<1>3. /\ call'[c] = x /\ \A d \in Caller : d # c => call'[d] = call[d]
      /\ UNCHANGED <<listener, event, handlerMap, children>> /\ zkClientUtil'
  <2>1. call' = [call EXCEPT ![c] = x]
    BY DEF CreateZkClient
  <2> HIDE DEF x
  <2>2. QED
    BY <2>1, Moved DEF CreateZkClient, mapVars, serverVars
<1>4. x.at = "connect" /\ x.todo = children
  BY DEF Call
<1>5. \A d \in Caller : /\ listener'[d].at = "none" /\ (Initialising(d)' <=> d = c)
                        /\ Active(d)' <=> d = c
  BY <1>2, <1>3, <1>4 DEF Active, Initialising
<1>6. Listed(handlerMap)' = {}
  BY <1>2, <1>3 DEF Listed
<1>7. ClientInv'
  BY <1>2, <1>3, <1>5 DEF ClientInv
<1>8. ASSUME NEW d \in Caller PROVE FollowInv(d)'
  BY <1>3, <1>4, <1>5, <1>6 DEF FollowInv
<1>9. QED
  BY <1>7, <1>8

\* Nothing is initialised and nothing will listen: "no node" says so.
LEMMA SyncNoList ==
  ASSUME TypeOK, SyncInv, NEW c \in Caller, NoServerList(c)
  PROVE  SyncInv'
<1> SUFFICES ASSUME "two clients" \notin faults'
             PROVE  ClientInv' /\ \A d \in Caller : FollowInv(d)'
  BY DEF SyncInv
<1>1. ~zkClientUtil /\ "two clients" \notin faults /\ "no node" \in faults'
  BY DEF NoServerList, Second
<1>2. /\ event = {} /\ Listed(handlerMap) = {} /\ \A d \in Caller : ~Active(d)
  BY <1>1 DEF SyncInv, ClientInv, Listening, Active
<1>3. /\ call'[c] = Idle /\ \A d \in Caller : d # c => call'[d] = call[d]
      /\ UNCHANGED <<listener, event, handlerMap>> /\ zkClientUtil'
  BY Moved DEF NoServerList, mapVars
<1>4. \A d \in Caller : ~Initialising(d)' /\ ~Active(d)' /\ listener'[d].at = "none"
  BY <1>2, <1>3, Fields DEF Active, Initialising
<1>5. ClientInv'
  BY <1>1, <1>2, <1>3, <1>4 DEF ClientInv
<1>6. \A d \in Caller : FollowInv(d)'
  BY <1>4 DEF FollowInv
<1>7. QED
  BY <1>5, <1>6

LEMMA SyncConnects ==
  ASSUME TypeOK, SyncInv, NEW c \in Caller, NEW s \in Server, InitConnect(c, s)
  PROVE  SyncInv'
<1> DEFINE x == Call("connect", call[c].todo \ {s}, NoServer, NoConn)
<1> SUFFICES ASSUME "two clients" \notin faults
             PROVE  ClientInv' /\ \A d \in Caller : FollowInv(d)'
  BY DEF SyncInv, InitConnect
<1>1. /\ call'[c] = x /\ \A d \in Caller : d # c => call'[d] = call[d]
      /\ UNCHANGED <<listener, event, zkClientUtil, children, faults>>
      /\ s \in call[c].todo /\ Initialising(c)
  <2>1. call' = [call EXCEPT ![c] = x]
    BY InitConnectForm
  <2> HIDE DEF x
  <2>2. QED
    BY <2>1, Moved DEF InitConnect, zkVars, serverVars, Initialising
<1>2. x.at = "connect" /\ x.todo = call[c].todo \ {s}
  BY DEF Call
<1>3. Listed(handlerMap)' = Listed(handlerMap) \cup {s}
  BY ListedConnected DEF InitConnect
<1>4. ClientInv /\ \A d \in Caller : FollowInv(d)
  BY DEF SyncInv
<1>5. zkClientUtil /\ listener[c].at = "none" /\ \A d \in Caller : Active(d) => d = c
  BY <1>1, <1>4 DEF ClientInv, Active
<1>6. \A d \in Caller : (Initialising(d)' <=> Initialising(d)) /\ (Active(d)' <=> Active(d))
  BY <1>1, <1>2 DEF Active, Initialising
<1>7. ClientInv'
  <2>1. Listening' = Listening
    BY <1>1 DEF Listening
  <2>2. QED
    BY <1>1, <1>4, <1>5, <1>6, <2>1 DEF ClientInv
<1>8. \A d \in Caller : listener[d].at = "none"
  BY <1>5 DEF Active
<1>9. ASSUME NEW d \in Caller PROVE FollowInv(d)'
  <2>1. Initialising(d) => d = c
    BY <1>5 DEF Active
  <2>2. CASE d = c
    <3>1. "missed" \notin faults => Listed(handlerMap) \cup call[c].todo = children
      BY <1>1, <1>4 DEF FollowInv
    <3>2. call'[c].todo = call[c].todo \ {s} /\ s \in call[c].todo
      BY <1>1, <1>2
    <3>3. "missed" \notin faults => Listed(handlerMap)' \cup call'[c].todo = children
      BY <1>3, <3>1, <3>2
    <3>4. QED
      BY <1>1, <1>8, <2>2, <3>3 DEF FollowInv
  <2>3. CASE d # c
    BY <1>1, <1>6, <1>8, <2>1, <2>3 DEF FollowInv
  <2>4. QED
    BY <2>2, <2>3
<1>10. QED
  BY <1>7, <1>9

LEMMA SyncSubscribes ==
  ASSUME TypeOK, SyncInv, NEW c \in Caller, Subscribe(c)
  PROVE  SyncInv'
<1> SUFFICES ASSUME "two clients" \notin faults
             PROVE  ClientInv' /\ \A d \in Caller : FollowInv(d)'
  BY DEF SyncInv, Subscribe
<1>1. /\ call[c].at = "subscribe" /\ call[c].todo = {} /\ call'[c].at = "choose"
      /\ \A d \in Caller : d # c => call'[d] = call[d]
      /\ UNCHANGED <<event, zkClientUtil, children, faults, handlerMap>>
  <2> DEFINE x == Call("choose", {}, NoServer, NoConn)
  <2>1. x.at = "choose" /\ call' = [call EXCEPT ![c] = x]
    BY DEF Subscribe, Call
  <2>2. call'[c] = x /\ \A d \in Caller : d # c => call'[d] = call[d]
    BY <2>1, Moved
  <2>3. call[c].at = "subscribe" /\ call[c].todo = {}
    BY CallForms DEF Subscribe, TypeOK
  <2>4. QED
    BY <2>1, <2>2, <2>3 DEF Subscribe, serverVars, mapVars
<1>2. listener'[c].at = "idle" /\ \A d \in Caller : d # c => listener'[d] = listener[d]
  BY DEF Subscribe, TypeOK, Quiet, Listen, Call
<1>3. ClientInv /\ \A d \in Caller : FollowInv(d)
  BY DEF SyncInv
<1>4. zkClientUtil /\ listener[c].at = "none" /\ \A d \in Caller : Active(d) => d = c
  BY <1>1, <1>3 DEF ClientInv, Active, Initialising
<1>5. \A d \in Caller : ~Initialising(d)' /\ (Active(d)' <=> d = c)
  BY <1>1, <1>2, <1>4 DEF Active, Initialising
<1>6. event = {}
  BY <1>3, <1>4 DEF ClientInv, Listening, Active
<1>7. ClientInv'
  BY <1>1, <1>4, <1>5, <1>6 DEF ClientInv
<1>8. Listed(handlerMap)' = Listed(handlerMap)
  BY <1>1 DEF Listed
<1>9. ASSUME NEW d \in Caller PROVE FollowInv(d)'
  <2>1. CASE d = c
    BY <1>1, <1>2, <1>3, <1>5, <1>8, <2>1 DEF FollowInv, Initialising, Toward
  <2>2. CASE d # c
    BY <1>2, <1>4, <1>5, <2>2 DEF FollowInv, Active
  <2>3. QED
    BY <2>1, <2>2
<1>10. QED
  BY <1>7, <1>9

\* A step of the listener of c: who is active does not change, and only what c
\* follows has to be looked at.
LEMMA SyncListener ==
  ASSUME TypeOK, NEW c \in Caller, ClientInv, \A d \in Caller : FollowInv(d),
         listener[c].at # "none", listener'[c].at # "none",
         \A d \in Caller : d # c => listener'[d] = listener[d],
         UNCHANGED <<zkClientUtil, callVars, children>>, event' \subseteq event,
         FollowInv(c)'
  PROVE  ClientInv' /\ \A d \in Caller : FollowInv(d)'
<1>1. zkClientUtil /\ ~Initialising(c) /\ \A d \in Caller : Active(d) => d = c
  BY DEF ClientInv, Active
<1>2. \A d \in Caller : /\ Initialising(d)' <=> Initialising(d)
                        /\ Active(d)' <=> Active(d)
  BY DEF Active, Initialising, callVars
<1>3. Listening' = Listening
  BY DEF Listening
<1>4. ClientInv'
  BY <1>1, <1>2, <1>3 DEF ClientInv, Active
<1>5. ASSUME NEW d \in Caller, d # c PROVE FollowInv(d)'
  BY <1>1, <1>2, <1>5 DEF FollowInv, Active
<1>6. QED
  BY <1>4, <1>5

LEMMA ListenerMoves ==
  ASSUME TypeOK, NEW c \in Caller, NEW at, NEW todo, NEW s, NEW k,
         listener' = [listener EXCEPT ![c] = Listen(at, todo, s, k)]
  PROVE  /\ listener'[c] = Listen(at, todo, s, k)
         /\ listener'[c].at = at /\ listener'[c].todo = todo
         /\ listener'[c].server = s /\ listener'[c].conn = k
         /\ Toward(c)' = IF at = "next" THEN todo
                         ELSE IF at \in {"reuse", "connect"} THEN todo \cup {s} ELSE {}
         /\ \A d \in Caller : d # c => listener'[d] = listener[d]
<1> DEFINE x == Listen(at, todo, s, k)
<1>1. x.at = at /\ x.todo = todo /\ x.server = s /\ x.conn = k
  BY Listens
<1>2. listener' = [listener EXCEPT ![c] = x]
  OBVIOUS
<1> HIDE DEF x
<1>3. listener'[c] = x /\ \A d \in Caller : d # c => listener'[d] = listener[d]
  BY <1>2 DEF TypeOK
<1>4. QED
  BY <1>1, <1>3 DEF Toward, x

LEMMA ListenerTurnsTo ==
  ASSUME NEW c \in Caller, NEW todo, NEW s, NEW k,
         \/ listener'[c] = Listen("reuse", todo, s, k)
         \/ listener'[c] = Listen("connect", todo, s, k)
  PROVE  listener'[c].at \in {"reuse", "connect"} /\ Toward(c)' = todo \cup {s}
<1>1. /\ listener'[c].at \in {"reuse", "connect"}
      /\ listener'[c].todo = todo /\ listener'[c].server = s
  BY Listens
<1>2. QED
  BY <1>1 DEF Toward

LEMMA ListenerActive ==
  ASSUME TypeOK, NEW c \in Caller, ListenerStep(c)
  PROVE  /\ listener[c].at # "none"
         /\ \A d \in Caller : d # c => listener'[d] = listener[d]
<1> USE DEF ListenerStep, ListenerLooks, ListenerReuses, ListenerConnects, ListenerFails,
            ListenerTurns, ListenerKeeps, ListenerDrops, ListenerTorn, ListenerCloses,
            ListenerFailsToClose, ListenerClearsBak, ListenerEnds
<1>1. CASE ListenerStarts(c)
  BY <1>1, Fields DEF ListenerStarts, TypeOK
<1>2. CASE ~ListenerStarts(c)
  <2>1. listener[c].at # "none"
    BY <1>2
  <2>2. \E x : listener' = [listener EXCEPT ![c] = x]
    BY <1>2
  <2>3. QED
    BY <2>1, <2>2 DEF TypeOK
<1>3. QED
  BY <1>1, <1>2

LEMMA SyncListens ==
  ASSUME TypeOK, SyncInv, NEW c \in Caller, ListenerStep(c)
  PROVE  SyncInv'
<1> DEFINE l == listener[c]
<1> SUFFICES ASSUME "two clients" \notin faults
             PROVE  ClientInv' /\ \A d \in Caller : FollowInv(d)'
  BY DEF SyncInv, ListenerStep, ListenerStarts, ListenerLooks, ListenerReuses,
         ListenerConnects, ListenerFails, ListenerTurns, ListenerKeeps, ListenerDrops,
         ListenerTorn, ListenerCloses, ListenerFailsToClose, ListenerClearsBak, ListenerEnds
<1>1. ClientInv /\ (\A d \in Caller : FollowInv(d)) /\ l \in ListenerState
  BY DEF SyncInv, TypeOK
<1>2. l.at # "none" /\ \A d \in Caller : d # c => listener'[d] = listener[d]
  BY ListenerActive
<1>3. ~Initialising(c)
  BY <1>1, <1>2 DEF ClientInv
<1>4. c \notin event /\ l.at # "idle" => Listed(handlerMap) \cup Toward(c) = children
  BY <1>1, <1>2 DEF FollowInv
<1>5. ASSUME UNCHANGED <<serverVars, zkClientUtil, callVars>>, event' \subseteq event,
             listener'[c].at # "none",
             \/ c \in event'
             \/ listener'[c].at = "idle" /\ "connect" \in faults'
             \/ Listed(handlerMap)' \cup Toward(c)' = children
      PROVE  ClientInv' /\ \A d \in Caller : FollowInv(d)'
  <2>1. UNCHANGED children
    BY <1>5 DEF serverVars
  <2>2. ~Initialising(c)'
    BY <1>3, <1>5 DEF Initialising, callVars
  <2>3. FollowInv(c)'
    BY <1>5, <2>1, <2>2 DEF FollowInv
  <2>4. QED
    BY <1>1, <1>2, <1>5, <2>1, <2>3, SyncListener
<1>6. CASE ListenerStarts(c)
  <2>1. listener'[c].at = "next" /\ Toward(c)' = children
    BY <1>6, ListenerMoves DEF ListenerStarts
  <2>2. Listed(handlerMap)' = {}
    BY <1>6 DEF Listed, ListenerStarts, NoHandlers
  <2>3. QED
    BY <1>5, <1>6, <2>1, <2>2 DEF ListenerStarts
<1>7. ASSUME NEW s \in Server, ListenerLooks(c, s)
      PROVE  ClientInv' /\ \A d \in Caller : FollowInv(d)'
  <2> DEFINE rest == l.todo \ {s}
  <2>1. \/ listener' = [listener EXCEPT ![c] = Listen("connect", rest, s, NoConn)]
        \/ listener' = [listener EXCEPT ![c] = Listen("reuse", rest, s, handlerMapBak[s])]
    BY <1>7 DEF ListenerLooks
  <2>2. listener'[c].at \in {"reuse", "connect"} /\ Toward(c)' = rest \cup {s}
    <3>1. \/ listener'[c] = Listen("connect", rest, s, NoConn)
          \/ listener'[c] = Listen("reuse", rest, s, handlerMapBak[s])
      BY <2>1 DEF TypeOK
    <3>2. CASE listener'[c] = Listen("connect", rest, s, NoConn)
      BY <3>2, ListenerTurnsTo
    <3>3. CASE listener'[c] = Listen("reuse", rest, s, handlerMapBak[s])
      BY <3>3, ListenerTurnsTo
    <3>4. QED
      BY <3>1, <3>2, <3>3
  <2>3. l.at = "next" /\ s \in l.todo /\ UNCHANGED <<handlerMap, event>>
    BY <1>7 DEF ListenerLooks, mapVars
  <2>4. Toward(c) = Toward(c)' /\ Listed(handlerMap)' = Listed(handlerMap)
    BY <2>2, <2>3 DEF Toward, Listed
  <2>5. QED
    BY <1>4, <1>5, <1>7, <2>2, <2>3, <2>4 DEF ListenerLooks
<1>8. CASE ListenerReuses(c)
  <2>1. l.at = "reuse" /\ l.server \in Server /\ l.conn \in Conn
    BY <1>1, <1>8, ListenerForms DEF ListenerReuses
  <2>2. listener'[c].at \in {"reuse", "connect"} /\ Toward(c)' = l.todo \cup {l.server}
    <3> DEFINE todo == l.todo
               t == l.server
    <3>1. listener' = [listener EXCEPT ![c] = Listen("connect", todo, t, NoConn)]
      BY <1>8 DEF ListenerReuses
    <3>2. listener'[c] = Listen("connect", todo, t, NoConn)
      BY <3>1 DEF TypeOK
    <3> HIDE DEF todo, t
    <3>3. listener'[c].at \in {"reuse", "connect"} /\ Toward(c)' = todo \cup {t}
      BY <3>2, ListenerTurnsTo
    <3>4. QED
      BY <3>3 DEF todo, t
  <2>3. Listed(handlerMap)' = Listed(handlerMap) \cup {l.server}
    BY <1>8, <2>1, NamesAssumption DEF ListenerReuses, Listed, TypeOK
  <2>4. Listed(handlerMap)' \cup Toward(c)' = Listed(handlerMap) \cup Toward(c)
    BY <2>1, <2>2, <2>3 DEF Toward
  <2>5. QED
    BY <1>4, <1>5, <1>8, <2>1, <2>2, <2>4 DEF ListenerReuses
<1>9. CASE ListenerConnects(c)
  <2>1. l.at = "connect" /\ l.server \in Server
    BY <1>1, <1>9, ListenerForms DEF ListenerConnects
  <2>2. listener'[c].at = "next" /\ Toward(c)' = l.todo
    BY <1>9, ListenerMoves DEF ListenerConnects
  <2>3. Listed(handlerMap)' = Listed(handlerMap) \cup {l.server}
    BY <1>9, <2>1, ListedConnected DEF ListenerConnects
  <2>4. Listed(handlerMap)' \cup Toward(c)' = Listed(handlerMap) \cup Toward(c)
    BY <2>1, <2>2, <2>3 DEF Toward
  <2>5. QED
    BY <1>4, <1>5, <1>9, <2>1, <2>2, <2>4 DEF ListenerConnects
<1>10. CASE ListenerFails(c)
  <2>1. listener'[c].at = "idle"
    BY <1>10, ListenerMoves DEF ListenerFails, Quiet
  <2>2. QED
    BY <1>5, <1>10, <2>1 DEF ListenerFails
\* Everything is listed from ListenerTurns on.
<1>11. ASSUME NEW at \in {"idle", "check", "close", "fill"}, NEW todo, NEW k,
              listener' = [listener EXCEPT ![c] = Listen(at, todo, NoServer, k)],
              l.at \in {"check", "close", "fill"} \/ (l.at = "next" /\ l.todo = {}),
              UNCHANGED <<serverVars, zkClientUtil, callVars, event, handlerMap>>
       PROVE  ClientInv' /\ \A d \in Caller : FollowInv(d)'
  <2>1. listener'[c].at = at /\ Toward(c)' = {}
    BY <1>11, ListenerMoves
  <2>2. Toward(c) = {} /\ Listed(handlerMap)' = Listed(handlerMap) /\ l.at # "idle"
    BY <1>11 DEF Toward, Listed
  <2>3. QED
    BY <1>4, <1>5, <1>11, <2>1, <2>2
<1>12. CASE ListenerTurns(c)
  BY <1>11, <1>12 DEF ListenerTurns, mapVars
<1>13. ASSUME NEW s \in Server, ListenerKeeps(c, s) \/ ListenerDrops(c, s)
       PROVE  ClientInv' /\ \A d \in Caller : FollowInv(d)'
  BY <1>11, <1>13 DEF ListenerKeeps, ListenerDrops, mapVars
<1>14. CASE ListenerCloses(c) \/ ListenerFailsToClose(c)
  BY <1>11, <1>14 DEF ListenerCloses, ListenerFailsToClose, Quiet, mapVars
<1>15. CASE ListenerClearsBak(c) \/ ListenerEnds(c)
  BY <1>11, <1>15 DEF ListenerClearsBak, ListenerEnds, Quiet
<1>16. ~ListenerTorn(c)
  BY DEF ListenerTorn
<1>17. QED
  BY <1>6, <1>7, <1>8, <1>9, <1>10, <1>12, <1>13, <1>14, <1>15, <1>16 DEF ListenerStep

LEMMA SyncChanges ==
  ASSUME SyncInv, ChildChange,
         UNCHANGED <<zkClientUtil, listener, mapVars, callVars>>
  PROVE  SyncInv'
<1>1. /\ event' = event \cup Listening
      /\ faults' = IF \E c \in Caller : Initialising(c) THEN faults \cup {"missed"} ELSE faults
      /\ Listening' = Listening /\ Listed(handlerMap)' = Listed(handlerMap)
  BY DEF ChildChange, Listening, Listed, mapVars
<1>2. \A d \in Caller : /\ Initialising(d)' <=> Initialising(d)
                        /\ Active(d)' <=> Active(d)
  BY DEF Active, Initialising, callVars
<1>3. ClientInv => ClientInv'
  BY <1>1, <1>2 DEF ClientInv
<1>4. ASSUME NEW d \in Caller PROVE FollowInv(d)'
  BY <1>1, <1>2 DEF FollowInv, Listening
<1>5. QED
  BY <1>1, <1>3, <1>4 DEF SyncInv

Early == {"connect", "fill", "subscribe"}

LEMMA SyncStep == TypeOK /\ SyncInv /\ [Next]_vars => SyncInv'
<1> SUFFICES ASSUME TypeOK, SyncInv, [Next]_vars PROVE SyncInv'
  OBVIOUS
<1>1. ASSUME UNCHANGED <<children, zkVars, faults, call, handlerMap>> PROVE SyncInv'
  BY <1>1, SyncKept DEF Listed, Initialising
<1>2. ASSUME NEW c \in Caller, NEW x, x.at \notin Early, ~Initialising(c),
             call' = [call EXCEPT ![c] = x],
             UNCHANGED <<children, zkVars, faults, handlerMap>>
      PROVE  SyncInv'
  <2>1. \A d \in Caller : /\ Initialising(d)' <=> Initialising(d)
                          /\ Initialising(d) => call'[d].todo = call[d].todo
    BY <1>2, Moved DEF Initialising, Early
  <2>2. Listed(handlerMap)' = Listed(handlerMap)
    BY <1>2 DEF Listed
  <2>3. QED
    BY <1>2, <2>1, <2>2, SyncKept
<1>3. ASSUME NEW c \in Caller, Invoke(c) PROVE SyncInv'
  <2> DEFINE x == Call(IF zkClientUtil THEN "choose" ELSE "init", {}, NoServer, NoConn)
  <2>1. x.at \notin Early /\ ~Initialising(c) /\ call' = [call EXCEPT ![c] = x]
    BY <1>3 DEF Invoke, Call, Idle, Initialising, Early
  <2>2. QED
    BY <1>2, <1>3, <2>1 DEF Invoke, serverVars, mapVars
<1>4. ASSUME NEW c \in Caller, CallStep(c) PROVE SyncInv'
  <2>1. CASE ChooseFails(c) \/ NoHandler(c) \/ SendFails(c) \/ Return(c)
    BY <1>2, <2>1 DEF ChooseFails, NoHandler, SendFails, Return, Idle, Call, Initialising, Early,
                      serverVars, mapVars
  <2>2. CASE TakeHandler(c)
    <3> DEFINE x == Call("submit", {}, NoServer, handlerMap[call[c].server])
    <3>1. x.at \notin Early /\ ~Initialising(c) /\ call' = [call EXCEPT ![c] = x]
      BY <2>2 DEF TakeHandler, Call, Initialising, Early
    <3>2. QED
      BY <1>2, <2>2, <3>1 DEF TakeHandler, serverVars, mapVars
  <2>3. CASE Send(c)
    <3> DEFINE x == Call("wait", {}, NoServer, call[c].conn)
    <3>1. x.at \notin Early /\ ~Initialising(c) /\ call' = [call EXCEPT ![c] = x]
      BY <2>3, AtForm DEF Send, Call, Initialising, Early
    <3>2. QED
      BY <1>2, <2>3, <3>1 DEF Send, serverVars, mapVars
  <2>4. ASSUME NEW s \in Server, ChooseServer(c, s) PROVE SyncInv'
    <3> DEFINE x == Call("lookup", {}, s, NoConn)
    <3>1. x.at \notin Early /\ ~Initialising(c) /\ call' = [call EXCEPT ![c] = x]
      BY <2>4 DEF ChooseServer, Call, Initialising, Early
    <3>2. QED
      BY <1>2, <2>4, <3>1 DEF ChooseServer, serverVars, mapVars
  <2>5. ASSUME NEW s \in Server, InitConnectFails(c, s) PROVE SyncInv'
    <3> SUFFICES ASSUME "two clients" \notin faults'
                 PROVE  ClientInv' /\ \A d \in Caller : FollowInv(d)'
      BY DEF SyncInv
    <3>1. /\ Initialising(c) /\ faults' = faults \cup {"connect"}
          /\ UNCHANGED <<listener, event, zkClientUtil, children, handlerMap>>
      BY <2>5 DEF InitConnectFails, Initialising, Early, zkVars, serverVars, mapVars
    <3>2. /\ ~Initialising(c)' /\ \A d \in Caller : d # c => call'[d] = call[d]
      <4>1. call'[c] = Idle /\ \A d \in Caller : d # c => call'[d] = call[d]
        BY <2>5, Moved DEF InitConnectFails
      <4>2. QED
        BY <4>1, Fields DEF Initialising
    <3>3. ClientInv
      BY <3>1 DEF SyncInv
    <3>4. zkClientUtil /\ listener[c].at = "none" /\ \A d \in Caller : Active(d) => d = c
      BY <3>1, <3>3 DEF ClientInv, Active
    <3>5. \A d \in Caller : ~Active(d)' /\ ~Initialising(d)' /\ listener'[d].at = "none"
      BY <3>1, <3>2, <3>4 DEF Active, Initialising, Early
    <3>6. ClientInv'
      BY <3>1, <3>3, <3>4, <3>5 DEF ClientInv, Listening
    <3>7. \A d \in Caller : FollowInv(d)'
      BY <3>5 DEF FollowInv
    <3>8. QED
      BY <3>6, <3>7
  <2>6. ASSUME NEW at \in Early, call[c].at \in Early, call[c].todo = {},
               call' = [call EXCEPT ![c] = Call(at, {}, NoServer, NoConn)],
               UNCHANGED <<children, zkVars, faults, handlerMap>>
        PROVE  SyncInv'
    <3>1. call'[c].at = at /\ call'[c].todo = {} /\ \A d \in Caller : d # c => call'[d] = call[d]
      <4> DEFINE x == Call(at, {}, NoServer, NoConn)
      <4>1. x.at = at /\ x.todo = {} /\ call' = [call EXCEPT ![c] = x]
        BY <2>6 DEF Call
      <4> HIDE DEF x
      <4>2. QED
        BY <4>1, Moved
    <3>2. \A d \in Caller : /\ Initialising(d)' <=> Initialising(d)
                            /\ Initialising(d) => call'[d].todo = call[d].todo
      BY <2>6, <3>1 DEF Initialising, Early
    <3>3. Listed(handlerMap)' = Listed(handlerMap)
      BY <2>6 DEF Listed
    <3>4. QED
      BY <2>6, <3>2, <3>3, SyncKept
  <2>7. CASE InitClearsBak(c) \/ InitFillsBak(c)
    <3>1. call[c].todo = {}
      BY <2>7, CallForms DEF InitClearsBak, InitFillsBak, TypeOK
    <3>2. QED
      BY <2>6, <2>7, <3>1 DEF InitClearsBak, InitFillsBak, Early, serverVars
  <2>8. QED
    BY <1>4, <2>1, <2>2, <2>3, <2>4, <2>5, <2>7, SyncCreates, SyncNoList, SyncConnects,
       SyncSubscribes DEF CallStep
<1>5. ASSUME NEW k \in Conn, Receive(k) \/ Answer(k) \/ Misread(k) PROVE SyncInv'
  <2>1. CASE ChannelActive(k) \/ Answer(k) \/ Misread(k)
    BY <1>1, <2>1 DEF ChannelActive, Answer, Misread, serverVars, mapVars, callVars
  <2>2. ASSUME NEW n \in 1..Len(answers[k]), ChannelRead(k, n) PROVE SyncInv'
    <3>1. UNCHANGED <<children, zkVars, faults, handlerMap>>
      BY <2>2 DEF ChannelRead, serverVars, mapVars
    <3>2. CASE UNCHANGED call
      BY <1>1, <3>1, <3>2
    <3>3. ASSUME NEW c \in Waiting(k), call' = [call EXCEPT ![c].at = "woken"]
          PROVE  SyncInv'
      <4> DEFINE x == Call("woken", {}, NoServer, call[c].conn)
      <4>1. c \in Caller /\ call[c].at = "wait"
        BY <3>3 DEF Waiting, Users
      <4>2. x.at \notin Early /\ ~Initialising(c) /\ call' = [call EXCEPT ![c] = x]
        BY <3>3, <4>1, AtForm DEF Call, Initialising, Early
      <4>3. QED
        BY <1>2, <3>1, <4>1, <4>2
    <3>4. QED
      BY <2>2, <3>2, <3>3 DEF ChannelRead
  <2>3. QED
    BY <1>5, <2>1, <2>2 DEF Receive
<1>6. ASSUME NEW s \in Server,
             \/ ServerStarts(s) \/ ServerStartsEarly(s)
             \/ ServerStops(s) \/ SessionEnds(s)
      PROVE  SyncInv'
  <2>1. CASE ServerStarts(s) \/ SessionEnds(s)
    BY <2>1, SyncChanges DEF ServerStarts, SessionEnds
  <2>2. CASE ServerStartsEarly(s) \/ ServerStops(s)
    BY <1>1, <2>2 DEF ServerStartsEarly, ServerStops, mapVars, callVars
  <2>3. QED
    BY <1>6, <2>1, <2>2
<1>7. CASE UNCHANGED vars
  BY <1>1, <1>7 DEF vars, serverVars, mapVars, callVars
<1>8. QED
  BY <1>3, <1>4, <1>5, <1>6, <1>7, SyncListens DEF Next

LEMMA SyncInit == Init => SyncInv
<1> SUFFICES ASSUME Init PROVE ClientInv /\ \A d \in Caller : FollowInv(d)
  BY DEF SyncInv
<1>1. /\ Listed(handlerMap) = {}
      /\ \A d \in Caller : ~Initialising(d) /\ listener[d].at = "none"
  BY DEF Init, Listed, Initialising, Idle, Call, Unsubscribed, Listen
<1>2. ClientInv
  BY <1>1 DEF Init, ClientInv, Active
<1>3. QED
  BY <1>1, <1>2 DEF FollowInv

\* Theorem: once the one listener is at rest, there is a handler for exactly the
\* servers in ZooKeeper, unless a fault came in between (MapFollowsZooKeeper).
THEOREM MapCorrect == Spec => []MapFollowsZooKeeper
<1>1. Init => TypeOK /\ Started /\ SyncInv
  BY TypeInit, SyncInit DEF Init, Started, Idle, Call
<1>2. TypeOK /\ Started /\ SyncInv /\ [Next]_vars => TypeOK' /\ Started' /\ SyncInv'
  BY TypeStep, StartedStep, SyncStep
<1>3. TypeOK /\ SyncInv => MapFollowsZooKeeper
  <2> SUFFICES ASSUME TypeOK, SyncInv, zkClientUtil, event = {}, faults \subseteq {"context"},
                      \A c \in Caller : ~Initialising(c) /\ listener[c].at \in {"none", "idle"}
               PROVE  Listed(handlerMap) = children
    BY DEF MapFollowsZooKeeper
  <2>1. ClientInv /\ \A c \in Caller : FollowInv(c)
    BY DEF SyncInv
  <2>2. PICK c \in Caller : Active(c)
    BY <2>1 DEF ClientInv
  <2>3. listener[c].at = "idle"
    BY <2>2 DEF Active, Initialising
  <2>4. QED
    BY <2>1, <2>3 DEF FollowInv, Toward
<1>4. QED
  BY <1>1, <1>2, <1>3, PTL DEF Spec

-----------------------------------------------------------------------------
(***************************************************************************)
(* Each map leads to connections with the right server.  No connection is  *)
(* in a map under two servers then, so what the one listener closes - in   *)
(* the backup and not in the map - is not in the map.  While it goes       *)
(* through the backup, and only then, closed handlers are still there.     *)
(***************************************************************************)
OneClient == faults \cap {"two clients", "context"} = {}
Sweeping(c) == listener[c].at \in {"check", "close"}

PeerInv ==
    /\ \A s \in Server :
        /\ handlerMap[s] # NoConn => peer[handlerMap[s]] = s
        /\ handlerMapBak[s] # NoConn => peer[handlerMapBak[s]] = s
    /\ \A c \in Caller :
        listener[c].at = "reuse" => peer[listener[c].conn] = listener[c].server

OpenInv ==
    /\ \A s \in Server :
        /\ handlerMap[s] # NoConn => link[handlerMap[s]] # "closed"
        /\ handlerMapBak[s] # NoConn /\ link[handlerMapBak[s]] = "closed" =>
            /\ handlerMap[s] = NoConn
            /\ \E c \in Caller : Sweeping(c) /\ s \notin listener[c].todo
    /\ \A c \in Caller :
        /\ listener[c].at = "reuse" => link[listener[c].conn] # "closed"
        /\ listener[c].at = "close" =>
            \E s \in Server : /\ peer[listener[c].conn] = s /\ handlerMap[s] = NoConn
                              /\ s \notin listener[c].todo

MapInv == PeerInv /\ (OneClient => OpenInv)

\* The one who is active is the only one.
LEMMA OnlyOne ==
  ASSUME SyncInv, OneClient, NEW c \in Caller, Active(c)
  PROVE  \A d \in Caller : d # c => listener[d].at = "none"
BY DEF SyncInv, ClientInv, OneClient, Active

LEMMA MapConnected ==
  ASSUME TypeOK, MapInv, NEW s \in Server, Connected(s), UNCHANGED <<handlerMapBak, faults>>,
         \A d \in Caller : listener'[d] = listener[d] \/ listener'[d].at = "next",
         OneClient => \A d \in Caller : ~Sweeping(d)
  PROVE  MapInv'
<1>1. NewConn \in Fresh /\ NewConn \in Conn
  BY NewConnFresh DEF Connected
<1>2. /\ peer'[NewConn] = s /\ link'[NewConn] = "new"
      /\ \A k \in Conn : k # NewConn => peer'[k] = peer[k] /\ link'[k] = link[k]
  BY <1>1 DEF Connected, TypeOK
<1>3. /\ handlerMap'[s] = NewConn
      /\ \A t \in Server : t # s => handlerMap'[t] = handlerMap[t]
  BY DEF Connected, TypeOK
<1>4. /\ \A t \in Server : handlerMap[t] # NewConn /\ handlerMapBak[t] # NewConn
      /\ \A d \in Caller : listener[d].conn # NewConn
  BY <1>1 DEF Fresh
<1>5. PeerInv'
  BY <1>2, <1>3, <1>4, MapTypes DEF MapInv, PeerInv
<1>6. ASSUME OneClient PROVE OpenInv'
  BY <1>2, <1>3, <1>4, <1>6, MapTypes DEF MapInv, OpenInv, Sweeping
<1>7. QED
  BY <1>5, <1>6 DEF MapInv, OneClient

\* No connection is closed, and none changes its server.
LEMMA MapKept ==
  ASSUME TypeOK, MapInv, UNCHANGED <<peer, mapVars, listener>>, faults \subseteq faults',
         \A k \in Conn : link'[k] = "closed" => link[k] = "closed"
  PROVE  MapInv'
<1>1. PeerInv'
  BY DEF MapInv, PeerInv, mapVars
<1>2. ASSUME OneClient PROVE OpenInv'
  BY <1>2, MapTypes DEF MapInv, OpenInv, Sweeping, mapVars
<1>3. QED
  BY <1>1, <1>2 DEF MapInv, OneClient

\* The listener starts over, lists what it lists and goes through the backup.
LEMMA MapListens ==
  ASSUME TypeOK, SyncInv, MapInv, NEW c \in Caller, ListenerStep(c)
  PROVE  MapInv'
<1> DEFINE l == listener[c]
<1>1. /\ l.at # "none" /\ \A d \in Caller : d # c => listener'[d] = listener[d]
      /\ l \in ListenerState
  BY ListenerActive DEF TypeOK
<1>2. OneClient => \A d \in Caller : d # c => listener[d].at = "none"
  BY <1>1, OnlyOne DEF Active
<1>3. OneClient /\ ~Sweeping(c) =>
            \A s \in Server : handlerMapBak[s] # NoConn => link[handlerMapBak[s]] # "closed"
  BY <1>2 DEF MapInv, OpenInv, Sweeping
<1>4. CASE ListenerStarts(c)
  <2>1. listener'[c].at = "next" /\ l.at = "idle"
    BY <1>4, ListenerMoves, Fields DEF ListenerStarts
  <2>2. /\ \A s \in Server : handlerMap'[s] = NoConn
        /\ UNCHANGED <<handlerMapBak, peer, link, faults>>
    BY <1>4 DEF ListenerStarts, NoHandlers, connVars
  <2>3. PeerInv'
    BY <1>1, <2>1, <2>2 DEF MapInv, PeerInv
  <2>4. ASSUME OneClient PROVE OpenInv'
    BY <1>1, <1>2, <1>3, <2>1, <2>2, <2>4 DEF OpenInv, Sweeping
  <2>5. QED
    BY <2>2, <2>3, <2>4 DEF MapInv, OneClient
<1>5. ASSUME NEW s \in Server, ListenerLooks(c, s) PROVE MapInv'
  <2>1. \/ listener'[c].at = "connect"
        \/ /\ listener'[c].at = "reuse" /\ listener'[c].server = s
           /\ listener'[c].conn = handlerMapBak[s] /\ handlerMapBak[s] # NoConn
    <3> DEFINE rest == l.todo \ {s}
    <3>1. CASE handlerMapBak[s] = NoConn
      <4>1. listener' = [listener EXCEPT ![c] = Listen("connect", rest, s, NoConn)]
        BY <1>5, <3>1 DEF ListenerLooks
      <4>2. listener'[c] = Listen("connect", rest, s, NoConn)
        BY <4>1 DEF TypeOK
      <4>3. QED
        BY <4>2, Listens
    <3>2. CASE handlerMapBak[s] # NoConn
      <4>1. listener' = [listener EXCEPT ![c] =
                                Listen("reuse", rest, s, handlerMapBak[s])]
        BY <1>5, <3>2 DEF ListenerLooks
      <4>2. listener'[c] = Listen("reuse", rest, s, handlerMapBak[s])
        BY <4>1 DEF TypeOK
      <4>3. QED
        BY <3>2, <4>2, Listens
    <3>3. QED
      BY <3>1, <3>2
  <2>2. l.at = "next" /\ UNCHANGED <<mapVars, peer, link, faults>>
    BY <1>5 DEF ListenerLooks, connVars
  <2>3. PeerInv'
    BY <1>1, <2>1, <2>2 DEF MapInv, PeerInv, mapVars
  <2>4. ASSUME OneClient PROVE OpenInv'
    <3>1. \A d \in Caller : listener'[d].at # "close"
      BY <1>1, <1>2, <2>1, <2>4
    <3>2. QED
      BY <1>1, <1>2, <1>3, <2>1, <2>2, <2>4, <3>1 DEF MapInv, OpenInv, Sweeping, mapVars
  <2>5. QED
    BY <2>2, <2>3, <2>4 DEF MapInv, OneClient
<1>6. CASE ListenerReuses(c)
  <2>1. listener'[c].at = "connect" /\ l.at = "reuse" /\ l.server \in Server /\ l.conn \in Conn
    BY <1>1, <1>6, ListenerMoves, ListenerForms DEF ListenerReuses
  <2>2. /\ handlerMap'[l.server] = l.conn
        /\ \A t \in Server : t # l.server => handlerMap'[t] = handlerMap[t]
        /\ UNCHANGED <<handlerMapBak, peer, link, faults>>
    BY <1>6, <2>1 DEF ListenerReuses, TypeOK, connVars
  <2>3. PeerInv'
    BY <1>1, <2>1, <2>2 DEF MapInv, PeerInv
  <2>4. ASSUME OneClient PROVE OpenInv'
    <3>1. \A d \in Caller : listener'[d].at \notin {"reuse", "close"}
      BY <1>1, <1>2, <2>1, <2>4
    <3>2. QED
      BY <1>1, <1>3, <2>1, <2>2, <2>4, <3>1 DEF MapInv, OpenInv, Sweeping
  <2>5. QED
    BY <2>2, <2>3, <2>4 DEF MapInv, OneClient
<1>7. CASE ListenerConnects(c)
  <2>1. l.server \in Server /\ l.at = "connect"
    BY <1>1, <1>7, ListenerForms DEF ListenerConnects
  <2>2. listener'[c].at = "next"
    BY <1>7, ListenerMoves DEF ListenerConnects
  <2>3. OneClient => \A d \in Caller : ~Sweeping(d)
    BY <1>2, <2>1 DEF Sweeping
  <2>4. QED
    BY <1>1, <1>7, <2>1, <2>2, <2>3, MapConnected DEF ListenerConnects
\* Nothing changes but where the listener is.
<1>8. CASE ListenerFails(c) \/ ListenerTurns(c)
  <2>1. listener'[c].at \in {"idle", "check"} /\ l.at \in {"next", "connect"}
    BY <1>8, ListenerMoves DEF ListenerFails, ListenerTurns, Quiet
  <2>2. UNCHANGED <<mapVars, peer, link>> /\ faults \subseteq faults'
    BY <1>8 DEF ListenerFails, ListenerTurns, connVars
  <2>3. PeerInv'
    BY <1>1, <2>1, <2>2 DEF MapInv, PeerInv, mapVars
  <2>4. ASSUME OneClient PROVE OpenInv'
    <3>1. \A d \in Caller : listener'[d].at \notin {"reuse", "close"}
      BY <1>1, <1>2, <2>1, <2>4
    <3>2. QED
      BY <1>3, <2>1, <2>2, <2>4, <3>1 DEF MapInv, OpenInv, Sweeping, mapVars
  <2>5. QED
    BY <2>2, <2>3, <2>4 DEF MapInv, OneClient
<1>9. ASSUME NEW s \in Server, ListenerKeeps(c, s) \/ ListenerDrops(c, s) PROVE MapInv'
  <2>1. /\ listener'[c].at \in {"check", "close"} /\ listener'[c].todo = l.todo \ {s}
        /\ listener'[c].at = "close" =>
                /\ listener'[c].conn = handlerMapBak[s] /\ handlerMapBak[s] # NoConn
                /\ handlerMap[s] = NoConn
    <3> DEFINE rest == l.todo \ {s}
    <3>1. CASE ListenerKeeps(c, s)
      <4>1. listener' = [listener EXCEPT ![c] = Listen("check", rest, NoServer, NoConn)]
        BY <3>1 DEF ListenerKeeps
      <4>2. listener'[c] = Listen("check", rest, NoServer, NoConn)
        BY <4>1 DEF TypeOK
      <4>3. QED
        BY <4>2, Listens
    <3>2. CASE ListenerDrops(c, s)
      <4>1. listener' = [listener EXCEPT ![c] =
                                Listen("close", rest, NoServer, handlerMapBak[s])]
        BY <3>2 DEF ListenerDrops
      <4>2. handlerMapBak[s] # NoConn /\ handlerMap[s] = NoConn
        BY <3>2 DEF ListenerDrops, Listed
      <4>3. listener'[c] = Listen("close", rest, NoServer, handlerMapBak[s])
        BY <4>1 DEF TypeOK
      <4>4. QED
        BY <4>2, <4>3, Listens
    <3>3. QED
      BY <1>9, <3>1, <3>2
  <2>2. l.at = "check" /\ UNCHANGED <<mapVars, peer, link, faults>>
    BY <1>9 DEF ListenerKeeps, ListenerDrops, connVars
  <2>3. PeerInv'
    BY <1>1, <2>1, <2>2 DEF MapInv, PeerInv, mapVars
  <2>4. ASSUME OneClient PROVE OpenInv'
    <3>1. \A d \in Caller : d # c => listener'[d].at = "none"
      BY <1>1, <1>2, <2>4
    <3>2. OpenInv /\ UNCHANGED <<handlerMap, handlerMapBak>>
      BY <2>2, <2>4 DEF MapInv, mapVars
    <3>3. \A t \in Server :
            handlerMapBak[t] # NoConn /\ link[handlerMapBak[t]] = "closed" =>
                handlerMap[t] = NoConn /\ t \notin l.todo
      BY <1>2, <2>4, <3>2 DEF OpenInv, Sweeping
    <3>4. listener'[c].at = "close" => peer[listener'[c].conn] = s
      BY <2>1 DEF MapInv, PeerInv
    <3>5. QED
      BY <2>1, <2>2, <3>1, <3>2, <3>3, <3>4 DEF OpenInv, Sweeping
  <2>5. QED
    BY <2>2, <2>3, <2>4 DEF MapInv, OneClient
<1>10. CASE ListenerTorn(c) \/ ListenerFailsToClose(c)
  <2>1. listener'[c].at = "idle" /\ UNCHANGED <<mapVars, peer>> /\ ~OneClient'
    <3>1. listener' = [listener EXCEPT ![c] = Listen("idle", {}, NoServer, NoConn)]
      BY <1>10 DEF ListenerTorn, ListenerFailsToClose, Quiet
    <3>2. UNCHANGED <<mapVars, peer>> /\ ~OneClient'
      BY <1>10 DEF ListenerTorn, ListenerFailsToClose, OneClient, connVars
    <3>3. QED
      BY <3>1, <3>2, ListenerMoves
  <2>2. PeerInv'
    BY <1>1, <2>1 DEF MapInv, PeerInv, mapVars
  <2>3. QED
    BY <2>1, <2>2 DEF MapInv
<1>11. CASE ListenerCloses(c)
  <2> DEFINE k == l.conn
  <2>1. /\ l.at = "close" /\ k \in Conn /\ UNCHANGED <<mapVars, peer, faults>>
        /\ listener'[c].at = "check" /\ listener'[c].todo = l.todo
    <3>1. /\ listener' = [listener EXCEPT ![c] = Listen("check", l.todo, NoServer, NoConn)]
          /\ l.at = "close" /\ UNCHANGED <<mapVars, peer, faults>>
      BY <1>11 DEF ListenerCloses
    <3>2. listener'[c] = Listen("check", l.todo, NoServer, NoConn)
      BY <3>1 DEF TypeOK
    <3>3. k \in Conn
      BY <1>1, <3>1, ListenerForms
    <3>4. QED
      BY <3>1, <3>2, <3>3, Listens
  <2>2. \A j \in Conn : j # k => link'[j] = link[j]
    BY <1>11 DEF ListenerCloses, Closed
  <2>3. PeerInv'
    BY <1>1, <2>1 DEF MapInv, PeerInv, mapVars
  <2>4. ASSUME OneClient PROVE OpenInv'
    <3>1. PICK s \in Server : peer[k] = s /\ handlerMap[s] = NoConn /\ s \notin l.todo
      BY <2>1, <2>4 DEF MapInv, OpenInv
    <3>2. \A t \in Server : handlerMap[t] # NoConn => handlerMap[t] # k
      BY <3>1 DEF MapInv, PeerInv
    <3>3. \A t \in Server : handlerMapBak[t] # NoConn /\ handlerMapBak[t] = k => t = s
      BY <3>1 DEF MapInv, PeerInv
    <3>4. \A d \in Caller : listener'[d].at \notin {"reuse", "close"}
      BY <1>1, <1>2, <2>1, <2>4
    <3>5. \A t \in Server :
            handlerMapBak[t] # NoConn /\ link[handlerMapBak[t]] = "closed" =>
                handlerMap[t] = NoConn /\ t \notin l.todo
      BY <1>2, <2>4 DEF MapInv, OpenInv, Sweeping
    <3>6. \A t \in Server : handlerMap[t] # NoConn => link'[handlerMap[t]] # "closed"
      BY <2>2, <2>4, <3>2, MapTypes DEF MapInv, OpenInv
    <3>7. \A t \in Server :
            handlerMapBak[t] # NoConn /\ link'[handlerMapBak[t]] = "closed" =>
                handlerMap[t] = NoConn /\ t \notin l.todo
      BY <2>2, <3>1, <3>3, <3>5, MapTypes
    <3>8. QED
      BY <2>1, <3>4, <3>6, <3>7 DEF OpenInv, Sweeping, mapVars
  <2>5. QED
    BY <2>1, <2>3, <2>4 DEF MapInv, OneClient
<1>12. CASE ListenerClearsBak(c)
  <2>1. /\ listener'[c].at = "fill" /\ l.at = "check"
        /\ \A s \in Server : handlerMapBak'[s] = NoConn
        /\ UNCHANGED <<handlerMap, peer, link, faults>>
    BY <1>12, ListenerMoves DEF ListenerClearsBak, NoHandlers, connVars
  <2>2. PeerInv'
    BY <1>1, <2>1 DEF MapInv, PeerInv
  <2>3. ASSUME OneClient PROVE OpenInv'
    BY <1>1, <1>2, <2>1, <2>3 DEF MapInv, OpenInv
  <2>4. QED
    BY <2>1, <2>2, <2>3 DEF MapInv, OneClient
<1>13. CASE ListenerEnds(c)
  <2>1. /\ listener'[c].at = "idle" /\ l.at = "fill"
        /\ \A s \in Server : handlerMapBak'[s] \in {handlerMap[s], handlerMapBak[s]}
        /\ UNCHANGED <<handlerMap, peer, link>> /\ (OneClient' => OneClient)
    BY <1>13, ListenerMoves DEF ListenerEnds, Filled, Quiet, OneClient, connVars
  <2>2. PeerInv'
    BY <1>1, <2>1 DEF MapInv, PeerInv
  <2>3. ASSUME OneClient PROVE OpenInv'
    <3>1. \A d \in Caller : listener'[d].at \notin {"reuse", "close"}
      BY <1>1, <1>2, <2>1, <2>3
    <3>2. QED
      BY <1>3, <2>1, <2>3, <3>1 DEF MapInv, OpenInv, Sweeping
  <2>4. QED
    BY <2>1, <2>2, <2>3 DEF MapInv
<1>14. QED
  BY <1>4, <1>5, <1>6, <1>7, <1>8, <1>9, <1>10, <1>11, <1>12, <1>13 DEF ListenerStep

LEMMA MapStep == TypeOK /\ SyncInv /\ MapInv /\ [Next]_vars => MapInv'
<1> SUFFICES ASSUME TypeOK, SyncInv, MapInv, [Next]_vars PROVE MapInv'
  OBVIOUS
<1>1. ASSUME UNCHANGED <<mapVars, listener, peer, link>>, faults \subseteq faults'
      PROVE  MapInv'
  BY <1>1, MapKept
\* initClient, whose listener does not run yet
<1>2. ASSUME NEW c \in Caller, Initialising(c), OneClient
      PROVE  \A d \in Caller : listener[d].at = "none"
  BY <1>2, OnlyOne DEF SyncInv, ClientInv, OneClient, Active
<1>3. ASSUME NEW c \in Caller, Invoke(c) \/ CallStep(c) PROVE MapInv'
  <2>1. CASE \/ Invoke(c) \/ CreateZkClient(c) \/ NoServerList(c) \/ ChooseFails(c)
             \/ NoHandler(c) \/ TakeHandler(c) \/ Send(c) \/ SendFails(c) \/ Return(c)
             \/ \E s \in Server : InitConnectFails(c, s) \/ ChooseServer(c, s)
    BY <1>1, <2>1 DEF Invoke, CreateZkClient, NoServerList, ChooseFails, NoHandler,
                      TakeHandler, Send, SendFails, Return, InitConnectFails, ChooseServer,
                      connVars, zkVars
  <2>2. CASE InitClearsBak(c) \/ InitFillsBak(c)
    <3>1. /\ Initialising(c) /\ UNCHANGED <<handlerMap, listener, peer, link, faults>>
          /\ \A s \in Server : handlerMapBak'[s] \in {NoConn, handlerMap[s], handlerMapBak[s]}
      BY <2>2 DEF InitClearsBak, InitFillsBak, Initialising, NoHandlers, Filled, connVars, zkVars
    <3>2. PeerInv'
      BY <3>1 DEF MapInv, PeerInv
    <3>3. ASSUME OneClient PROVE OpenInv'
      BY <1>2, <3>1, <3>3 DEF MapInv, OpenInv, Sweeping
    <3>4. QED
      BY <3>1, <3>2, <3>3 DEF MapInv, OneClient
  <2>3. CASE Subscribe(c)
    <3>1. listener'[c].at = "idle" /\ \A d \in Caller : d # c => listener'[d] = listener[d]
      BY <2>3, ListenerMoves DEF Subscribe, Quiet
    <3>2. Initialising(c) /\ UNCHANGED <<mapVars, peer, link, faults>>
      BY <2>3 DEF Subscribe, Initialising, connVars
    <3>3. PeerInv'
      BY <3>1, <3>2 DEF MapInv, PeerInv, mapVars
    <3>4. ASSUME OneClient PROVE OpenInv'
      BY <1>2, <3>1, <3>2, <3>4 DEF MapInv, OpenInv, Sweeping, mapVars
    <3>5. QED
      BY <3>2, <3>3, <3>4 DEF MapInv, OneClient
  <2>4. ASSUME NEW s \in Server, InitConnect(c, s) PROVE MapInv'
    <3>1. Initialising(c) /\ UNCHANGED <<handlerMapBak, faults, listener>> /\ Connected(s)
      BY <2>4 DEF InitConnect, Initialising, zkVars
    <3>2. OneClient => \A d \in Caller : ~Sweeping(d)
      BY <1>2, <3>1 DEF Sweeping
    <3>3. QED
      BY <3>1, <3>2, MapConnected
  <2>5. QED
    BY <1>3, <2>1, <2>2, <2>3, <2>4 DEF CallStep
<1>4. ASSUME NEW k \in Conn, Receive(k) \/ Answer(k) \/ Misread(k) PROVE MapInv'
  <2>1. CASE ChannelActive(k)
    BY <2>1, MapKept DEF ChannelActive, TypeOK, zkVars
  <2>2. CASE Answer(k) \/ Misread(k)
    BY <1>1, <2>2 DEF Answer, Misread, zkVars
  <2>3. ASSUME NEW n \in 1..Len(answers[k]), ChannelRead(k, n) PROVE MapInv'
    BY <1>1, <2>3 DEF ChannelRead, zkVars
  <2>4. QED
    BY <1>4, <2>1, <2>2, <2>3 DEF Receive
<1>5. ASSUME NEW s \in Server,
             \/ ServerStarts(s) \/ ServerStartsEarly(s)
             \/ ServerStops(s) \/ SessionEnds(s)
      PROVE  MapInv'
  <2>1. CASE ServerStarts(s) \/ ServerStartsEarly(s) \/ SessionEnds(s)
    BY <1>1, <2>1 DEF ServerStarts, ServerStartsEarly, SessionEnds, ChildChange, connVars, zkVars
  <2>2. CASE ServerStops(s)
    BY <2>2, MapKept DEF ServerStops, zkVars
  <2>3. QED
    BY <1>5, <2>1, <2>2
<1>6. CASE UNCHANGED vars
  BY <1>1, <1>6 DEF vars, connVars, zkVars
<1>7. QED
  BY <1>3, <1>4, <1>5, <1>6, MapListens DEF Next

\* Theorem: as long as there is one client and its listener has not given up
\* halfway, a handler that callers can be given is never closed, whatever
\* connections fail and wherever in the rebuild the callers are (ListedIsOpen).
THEOREM ListedStaysOpen == Spec => []ListedIsOpen
<1>1. Init => TypeOK /\ Started /\ SyncInv /\ MapInv
  <2>1. Init => PeerInv /\ OpenInv
    BY DEF Init, PeerInv, OpenInv, Unsubscribed, Listen, Call
  <2>2. QED
    BY <2>1, TypeInit, SyncInit DEF Init, Started, Idle, Call, MapInv
<1>2. TypeOK /\ Started /\ SyncInv /\ MapInv /\ [Next]_vars
        => TypeOK' /\ Started' /\ SyncInv' /\ MapInv'
  BY TypeStep, StartedStep, SyncStep, MapStep
<1>3. MapInv => ListedIsOpen
  BY DEF MapInv, OneClient, OpenInv, ListedIsOpen, Listed
<1>4. QED
  BY <1>1, <1>2, <1>3, PTL DEF Spec

-----------------------------------------------------------------------------
(***************************************************************************)
(* The handlers implement RemoteCall.  CallInv leaves each call on a       *)
(* handler of its own in one of the phases; a step moves one call on, or   *)
(* takes several to "lost" or "shared" at once, or moves none.             *)
(***************************************************************************)
SameMail(k) ==
    /\ result'[k] = result[k] /\ requests'[k] = requests[k] /\ answers'[k] = answers[k]
    /\ spoilt'[k] = spoilt[k]

LEMMA PhaseBefore ==
  ASSUME TypeOK, NEW c \in Caller
  PROVE  /\ call[c].at = "idle" => Phase(c) = "idle" /\ call[c].conn = NoConn
         /\ call[c].at \in Before => Phase(c) = "called" /\ call[c].conn = NoConn
         /\ call[c].at \in {"submit", "wait", "woken"} =>
                Phase(c) = PhaseOn(c, call[c].conn) /\ call[c].conn \in Conn
<1>1. call[c] \in CallState
  BY DEF TypeOK
<1>2. /\ call[c].at \in {"idle"} \cup Before => call[c].conn = NoConn
      /\ call[c].at \in {"submit", "wait", "woken"} => call[c].conn \in Conn
  BY <1>1, CallForms
<1>3. call[c].conn \in Conn => call[c].conn # NoConn
  BY NamesAssumption
<1>4. QED
  BY <1>2, <1>3 DEF Phase, Before

LEMMA PhaseAfter ==
  ASSUME TypeOK', NEW c \in Caller
  PROVE  /\ call'[c].at = "idle" => Phase(c)' = "idle"
         /\ call'[c].at \in Before => Phase(c)' = "called"
         /\ call'[c].at \in {"submit", "wait", "woken"} =>
                Phase(c)' = PhaseOn(c, call[c].conn)' /\ call'[c].conn \in Conn
<1>1. call'[c] \in CallState
  BY DEF TypeOK
<1>2. /\ call'[c].at \in {"idle"} \cup Before => call'[c].conn = NoConn
      /\ call'[c].at \in {"submit", "wait", "woken"} => call'[c].conn \in Conn
  BY <1>1, CallForms
<1>3. call'[c].conn \in Conn => call'[c].conn # NoConn
  BY NamesAssumption
<1>4. QED
  BY <1>2, <1>3 DEF Phase, Before

\* On a handler of its own a call is where CallInv says.
LEMMA PhaseAlone ==
  ASSUME TypeOK, CallInv, NEW c \in Caller, NEW k \in Conn, call[c].conn = k
  PROVE  /\ Phase(c) = PhaseOn(c, k)
         /\ "shared" \in spoilt[k] => PhaseOn(c, k) = "shared"
         /\ "shared" \notin spoilt[k] /\ call[c].at = "submit" => PhaseOn(c, k) = "called"
         /\ "shared" \notin spoilt[k] /\ call[c].at = "woken" => PhaseOn(c, k) = "answered"
         /\ "shared" \notin spoilt[k] /\ call[c].at = "wait" =>
                \/ /\ PhaseOn(c, k) = "sent"
                   /\ requests[k] = <<Own(c)>> /\ answers[k] = <<>>
                \/ /\ PhaseOn(c, k) = "served"
                   /\ requests[k] = <<>> /\ answers[k] = <<Own(c)>>
                \/ /\ PhaseOn(c, k) = "lost"
                   /\ requests[k] = <<>> /\ answers[k] = <<>>
         /\ call[c].at \in {"submit", "wait", "woken"}
<1>1. call[c].at \in {"submit", "wait", "woken"}
  BY CallForms, NamesAssumption DEF TypeOK
<1>2. Phase(c) = PhaseOn(c, k)
  BY <1>1, PhaseBefore
<1>3. "shared" \notin spoilt[k] => ServedInv(c, k)
  BY DEF CallInv, AloneInv, Users
<1>4. <<Own(c)>> # <<>>
  OBVIOUS
<1>5. "shared" \notin spoilt[k] /\ call[c].at = "woken" => PhaseOn(c, k) = "answered"
  BY <1>3 DEF ServedInv, PhaseOn
<1>6. "shared" \notin spoilt[k] /\ call[c].at = "wait" =>
                \/ /\ PhaseOn(c, k) = "sent"
                   /\ requests[k] = <<Own(c)>> /\ answers[k] = <<>>
                \/ /\ PhaseOn(c, k) = "served"
                   /\ requests[k] = <<>> /\ answers[k] = <<Own(c)>>
                \/ /\ PhaseOn(c, k) = "lost"
                   /\ requests[k] = <<>> /\ answers[k] = <<>>
  <2> SUFFICES ASSUME "shared" \notin spoilt[k], call[c].at = "wait"
               PROVE  \/ /\ PhaseOn(c, k) = "sent"
                         /\ requests[k] = <<Own(c)>> /\ answers[k] = <<>>
                      \/ /\ PhaseOn(c, k) = "served"
                         /\ requests[k] = <<>> /\ answers[k] = <<Own(c)>>
                      \/ /\ PhaseOn(c, k) = "lost"
                         /\ requests[k] = <<>> /\ answers[k] = <<>>
    OBVIOUS
  <2>1. CASE requests[k] = <<Own(c)>> /\ answers[k] = <<>>
    BY <1>4, <2>1 DEF PhaseOn
  <2>2. CASE requests[k] = <<>> /\ answers[k] = <<Own(c)>>
    BY <1>4, <2>2 DEF PhaseOn
  <2>3. CASE requests[k] = <<>> /\ answers[k] = <<>>
    BY <1>4, <2>3 DEF PhaseOn
  <2>4. QED
    BY <1>3, <2>1, <2>2, <2>3 DEF ServedInv
<1>7. QED
  BY <1>1, <1>2, <1>5, <1>6 DEF PhaseOn

\* Calls that do not move
LEMMA PhaseKept ==
  ASSUME TypeOK, NEW d \in Caller, SameCall(d),
         call[d].conn = NoConn \/ SameMail(call[d].conn)
  PROVE  Phase(d)' = Phase(d)
  BY DEF Phase, PhaseOn, SameCall, SameMail, Own

LEMMA NoneMoves ==
  ASSUME \A d \in Caller : Phase(d)' = Phase(d)
  PROVE  Phases' = Phases
  BY DEF Phases

LEMMA OneMoves ==
  ASSUME NEW c \in Caller, NEW from, NEW to, Phase(c) \in from, Phase(c)' = to,
         \A d \in Caller : d # c => Phase(d)' = Phase(d)
  PROVE  Remote!Step(c, from, to)
<1>1. Phases[c] \in from
  BY DEF Phases
<1>2. Phases' = [Phases EXCEPT ![c] = to]
  BY DEF Phases
<1>3. QED
  BY <1>1, <1>2 DEF Remote!Step

LEMMA SeveralMove ==
  ASSUME NEW C \in SUBSET Caller, NEW to, \A d \in C : Phase(d)' = to,
         \A d \in Caller \ C : Phase(d)' = Phase(d)
  PROVE  Remote!Move(C, to)
  BY DEF Phases, Remote!Move

\* What RemoteCall lets one call do, by the phases before and after.
LEMMA OneCall ==
  ASSUME NEW c \in Caller, \A d \in Caller : d # c => Phase(d)' = Phase(d),
         \/ Phase(c)' = Phase(c)
         \/ Phase(c) = "idle" /\ Phase(c)' = "called"
         \/ Phase(c) = "called" /\ Phase(c)' \in {"idle", "sent", "lost"}
         \/ Phase(c) = "sent" /\ Phase(c)' = "served"
         \/ Phase(c) = "served" /\ Phase(c)' = "answered"
         \/ Phase(c) \in {"answered", "shared"} /\ Phase(c)' = "idle"
  PROVE  [Remote!Next]_Phases
<1>1. CASE Phase(c)' = Phase(c)
  BY <1>1, NoneMoves
<1>2. ASSUME NEW from, NEW to, Phase(c) = from, Phase(c)' = to
      PROVE  Remote!Step(c, {from}, to)
  BY <1>2, OneMoves
<1>3. CASE Phase(c) = "idle" /\ Phase(c)' = "called"
  BY <1>2, <1>3 DEF Remote!Next, Remote!Begin
<1>4. CASE Phase(c) = "called" /\ Phase(c)' = "idle"
  BY <1>2, <1>4 DEF Remote!Next, Remote!Throw
<1>5. CASE Phase(c) = "called" /\ Phase(c)' \in {"sent", "lost"}
  BY <1>2, <1>5 DEF Remote!Next, Remote!Transmit
<1>6. CASE Phase(c) = "sent" /\ Phase(c)' = "served"
  BY <1>2, <1>6 DEF Remote!Next, Remote!Serve
<1>7. CASE Phase(c) = "served" /\ Phase(c)' = "answered"
  BY <1>2, <1>7 DEF Remote!Next, Remote!Deliver
<1>8. CASE Phase(c) = "answered" /\ Phase(c)' = "idle"
  BY <1>2, <1>8 DEF Remote!Next, Remote!Return
<1>9. CASE Phase(c) = "shared" /\ Phase(c)' = "idle"
  BY <1>2, <1>9 DEF Remote!Next, Remote!LeaveShared
<1>10. QED
  BY <1>1, <1>3, <1>4, <1>5, <1>6, <1>7, <1>8, <1>9

LEMMA CallsLost ==
  ASSUME NEW C \in SUBSET Caller,
         \A d \in C : Phase(d) \in {"sent", "served"} /\ Phase(d)' = "lost",
         \A d \in Caller \ C : Phase(d)' = Phase(d)
  PROVE  [Remote!Next]_Phases
<1>1. Remote!Move(C, "lost")
  BY SeveralMove
<1>2. C \in SUBSET {d \in Caller : Phases[d] \in {"sent", "served"}}
  BY DEF Phases
<1>3. Remote!Lose
  BY <1>1, <1>2 DEF Remote!Lose
<1>4. QED
  BY <1>3 DEF Remote!Next

LEMMA CallsShare ==
  ASSUME NEW C \in SUBSET Caller,
         \A d \in C : Phase(d) # "idle" /\ Phase(d)' = "shared",
         \A d \in Caller \ C : Phase(d)' = Phase(d)
  PROVE  [Remote!Next]_Phases
<1>1. Remote!Move(C, "shared")
  BY SeveralMove
<1>2. C \in SUBSET {d \in Caller : Phases[d] # "idle"}
  BY DEF Phases
<1>3. Remote!Share
  BY <1>1, <1>2 DEF Remote!Share
<1>4. QED
  BY <1>3 DEF Remote!Next

\* Who is elsewhere stays where it is.
LEMMA PhaseElsewhere ==
  ASSUME TypeOK, NEW d \in Caller, SameCall(d), NEW h, call[d].conn # h,
         \A k \in Conn : k # h => SameMail(k)
  PROVE  Phase(d)' = Phase(d)
<1>1. call[d].conn \in Conn \cup {NoConn}
  BY CallForms DEF TypeOK
<1>2. QED
  BY <1>1, PhaseKept

LEMMA OthersStay ==
  ASSUME TypeOK, NEW c \in Caller, NEW x, call' = [call EXCEPT ![c] = x],
         \A d \in Caller : d # c => calls'[d] = calls[d], UNCHANGED connVars
  PROVE  /\ call'[c] = x
         /\ \A d \in Caller : d # c => Phase(d)' = Phase(d)
<1>1. call'[c] = x /\ \A d \in Caller : d # c => SameCall(d)
  BY Moved DEF SameCall
<1>2. \A k : SameMail(k)
  BY DEF SameMail, connVars
<1>3. QED
  BY <1>1, <1>2, PhaseKept

\* The connections of K go down, with what is on its way on them.
LEMMA RemoteCut ==
  ASSUME TypeOK, TypeOK', CallInv, UNCHANGED <<callVars, result, spoilt>>, NEW K,
         \A k \in Conn : k \notin K => SameMail(k),
         \A k \in Conn : k \in K => requests'[k] = <<>> /\ answers'[k] = <<>>
  PROVE  [Remote!Next]_Phases
<1> DEFINE C == {d \in Caller : call[d].conn \in K /\ Phase(d) \in {"sent", "served"}}
<1>1. \A d \in Caller : SameCall(d) /\ call[d].conn \in Conn \cup {NoConn} /\ Own(d)' = Own(d)
  BY CallForms DEF TypeOK, SameCall, callVars, Own
<1>2. ASSUME NEW d \in Caller, call[d].conn \notin K \/ call[d].conn = NoConn
      PROVE  Phase(d)' = Phase(d) /\ (call[d].conn = NoConn => d \notin C)
  <2>1. Phase(d)' = Phase(d)
    BY <1>1, <1>2, PhaseKept
  <2>2. call[d].conn = NoConn => Phase(d) \in {"idle", "called"}
    BY DEF Phase
  <2>3. QED
    BY <2>1, <2>2
<1>3. ASSUME NEW d \in Caller, call[d].conn \in K, call[d].conn # NoConn
      PROVE  IF d \in C THEN Phase(d)' = "lost" ELSE Phase(d)' = Phase(d)
  <2>1. PICK k \in Conn : k = call[d].conn
    BY <1>1, <1>3
  <2>2. /\ requests'[k] = <<>> /\ answers'[k] = <<>>
        /\ result'[k] = result[k] /\ spoilt'[k] = spoilt[k]
        /\ call'[d] = call[d] /\ Own(d)' = Own(d) /\ k \in K
    BY <1>1, <1>3, <2>1 DEF SameCall
  <2>3. /\ Phase(d) = PhaseOn(d, k)
        /\ call[d].at \in {"submit", "wait", "woken"}
    BY <2>1, PhaseAlone
  <2>4. Phase(d)' = PhaseOn(d, k)'
    <3>1. Phase(d)' = PhaseOn(d, call[d].conn)'
      BY <2>2, <2>3, PhaseAfter
    <3>2. QED
      BY <2>1, <2>2, <3>1 DEF PhaseOn
  <2>5. CASE "shared" \in spoilt[k]
    <3>1. PhaseOn(d, k) = "shared" /\ PhaseOn(d, k)' = "shared"
      BY <2>2, <2>5 DEF PhaseOn
    <3>2. QED
      BY <2>3, <2>4, <3>1
  <2>6. CASE "shared" \notin spoilt[k] /\ call[d].at # "wait"
    <3>1. PhaseOn(d, k)' = PhaseOn(d, k)
      BY <2>2, <2>3, <2>6 DEF PhaseOn
    <3>2. PhaseOn(d, k) \in {"called", "answered"}
      BY <2>1, <2>3, <2>6, PhaseAlone
    <3>3. QED
      BY <2>3, <2>4, <3>1, <3>2
  <2>7. CASE "shared" \notin spoilt[k] /\ call[d].at = "wait"
    <3>1. PhaseOn(d, k)' = "lost"
      <4>1. requests'[k] # <<Own(d)'>> /\ answers'[k] # <<Own(d)'>>
        BY <2>2
      <4>2. QED
        BY <2>2, <2>7, <4>1 DEF PhaseOn
    <3>2. PhaseOn(d, k) \in {"sent", "served", "lost"}
      BY <2>1, <2>7, PhaseAlone
    <3>3. QED
      BY <1>3, <2>3, <2>4, <3>1, <3>2
  <2>8. QED
    BY <2>5, <2>6, <2>7
<1>4. \A d \in C : Phase(d) \in {"sent", "served"} /\ Phase(d)' = "lost"
  BY <1>2, <1>3
<1>5. \A d \in Caller \ C : Phase(d)' = Phase(d)
  BY <1>2, <1>3
<1> HIDE DEF C
<1>6. C \in SUBSET Caller
  BY DEF C
<1>7. QED
  BY <1>4, <1>5, <1>6, CallsLost

\* A call that has no handler goes its way, or gives up.
LEMMA RemoteCalls ==
  ASSUME TypeOK, TypeOK', NEW c \in Caller,
         \/ Invoke(c) \/ CreateZkClient(c) \/ NoServerList(c)
         \/ InitClearsBak(c) \/ InitFillsBak(c) \/ Subscribe(c)
         \/ ChooseFails(c) \/ NoHandler(c)
         \/ \E s \in Server : InitConnectFails(c, s) \/ ChooseServer(c, s)
  PROVE  [Remote!Next]_Phases
<1>1. CASE Invoke(c)
  <2> DEFINE x == Call(IF zkClientUtil THEN "choose" ELSE "init", {}, NoServer, NoConn)
  <2>1. /\ call' = [call EXCEPT ![c] = x] /\ UNCHANGED connVars
        /\ \A d \in Caller : d # c => calls'[d] = calls[d]
    BY <1>1 DEF Invoke, TypeOK
  <2>2. call'[c] = x /\ \A d \in Caller : d # c => Phase(d)' = Phase(d)
    BY <2>1, OthersStay
  <2>3. call[c].at = "idle" /\ x.at \in {"init", "choose"}
    BY <1>1 DEF Invoke, Idle, Call
  <2>4. Phase(c) = "idle" /\ Phase(c)' = "called"
    BY <2>2, <2>3, PhaseBefore, PhaseAfter DEF Before
  <2>5. QED
    BY <2>2, <2>4, OneCall
<1>2. ASSUME NEW x, call' = [call EXCEPT ![c] = x], UNCHANGED <<calls, connVars>>,
             call[c].at \in Before, x.at \in {"idle"} \cup Before
      PROVE  [Remote!Next]_Phases
  <2>1. call'[c] = x /\ \A d \in Caller : d # c => Phase(d)' = Phase(d)
    BY <1>2, OthersStay
  <2>2. Phase(c) = "called" /\ Phase(c)' \in {"idle", "called"}
    BY <1>2, <2>1, PhaseBefore, PhaseAfter
  <2>3. QED
    BY <2>1, <2>2, OneCall
<1>3. CASE CreateZkClient(c) \/ InitClearsBak(c) \/ InitFillsBak(c) \/ Subscribe(c)
  <2>1. /\ Call("connect", children, NoServer, NoConn).at = "connect"
        /\ \A at \in {"fill", "subscribe", "choose"} : Call(at, {}, NoServer, NoConn).at = at
    BY DEF Call
  <2>2. QED
    BY <1>2, <1>3, <2>1 DEF CreateZkClient, InitClearsBak, InitFillsBak, Subscribe, Before
<1>4. CASE NoServerList(c) \/ ChooseFails(c) \/ NoHandler(c)
             \/ \E s \in Server : InitConnectFails(c, s)
  BY <1>2, <1>4, Fields DEF NoServerList, ChooseFails, NoHandler, InitConnectFails, Before
<1>5. ASSUME NEW s \in Server, ChooseServer(c, s) PROVE [Remote!Next]_Phases
  <2>1. Call("lookup", {}, s, NoConn).at = "lookup"
    BY DEF Call
  <2>2. QED
    BY <1>2, <1>5, <2>1 DEF ChooseServer, Before
<1>6. QED
  BY <1>1, <1>3, <1>4, <1>5

\* A new connection is nobody's.
LEMMA RemoteConnects ==
  ASSUME TypeOK, NEW s \in Server, Connected(s), NEW d \in Caller, SameCall(d)
  PROVE  Phase(d)' = Phase(d)
<1>1. NewConn \in Fresh
  BY NewConnFresh DEF Connected
<1>2. call[d].conn # NewConn
  BY <1>1 DEF Fresh, Users
<1>3. \A k \in Conn : k # NewConn => SameMail(k)
  BY DEF Connected, SameMail, TypeOK
<1>4. QED
  BY <1>2, <1>3, PhaseElsewhere

LEMMA RemoteInitConnects ==
  ASSUME TypeOK, TypeOK', NEW c \in Caller, NEW s \in Server, InitConnect(c, s)
  PROVE  [Remote!Next]_Phases
<1> DEFINE x == Call("connect", call[c].todo \ {s}, NoServer, NoConn)
<1>1. call' = [call EXCEPT ![c] = x] /\ x.at = "connect"
  BY InitConnectForm DEF Call
<1>2. /\ call'[c] = x /\ call[c].at = "connect" /\ calls' = calls
      /\ \A d \in Caller : d # c => call'[d] = call[d]
  BY <1>1, Moved DEF InitConnect
<1>3. \A d \in Caller : d # c => Phase(d)' = Phase(d)
  BY <1>2, RemoteConnects DEF InitConnect, SameCall
<1>4. Phase(c)' = Phase(c)
  BY <1>1, <1>2, PhaseBefore, PhaseAfter DEF Before
<1>5. QED
  BY <1>3, <1>4, OneCall

\* setPara on a handler nobody uses goes unseen; on a used one, all share it.
LEMMA RemoteTakes ==
  ASSUME TypeOK, TypeOK', CallInv, NEW c \in Caller, TakeHandler(c)
  PROVE  [Remote!Next]_Phases
<1>1. call[c].at = "lookup" /\ call[c].conn = NoConn /\ call[c].server \in Server
  BY CallForms DEF TypeOK, TakeHandler
<1>2. PICK h \in Conn : h = handlerMap[call[c].server]
  BY <1>1, MapTypes DEF TakeHandler
<1>3. /\ call'[c] = Call("submit", {}, NoServer, h) /\ calls' = calls
      /\ \A d \in Caller : d # c => SameCall(d)
  BY <1>2, Moved DEF TakeHandler, SameCall
<1>4. call'[c].conn = h /\ call'[c].at = "submit"
  BY <1>3 DEF Call
<1>5. /\ UNCHANGED <<result, requests, answers>>
      /\ \A k \in Conn : k # h => SameMail(k)
      /\ IF Users(h) = {} THEN spoilt' = spoilt ELSE "shared" \in spoilt'[h]
  BY <1>2 DEF TakeHandler, TypeOK, SameMail
<1>6. Phase(c) = "called" /\ Phase(c)' = PhaseOn(c, h)'
  <2>1. Phase(c)' = PhaseOn(c, call[c].conn)'
    BY <1>4, PhaseAfter
  <2>2. call[c].at \in Before
    BY <1>1 DEF Before
  <2>3. QED
    BY <1>4, <2>1, <2>2, PhaseBefore DEF PhaseOn
<1>7. \A d \in Caller : d # c /\ call[d].conn # h => Phase(d)' = Phase(d)
  BY <1>3, <1>5, PhaseElsewhere
<1>8. CASE Users(h) = {} /\ "shared" \notin spoilt[h]
  <2>1. \A d \in Caller : d # c => Phase(d)' = Phase(d)
    BY <1>7, <1>8 DEF Users
  <2>2. Phase(c)' = "called"
    BY <1>4, <1>5, <1>6, <1>8 DEF PhaseOn
  <2>3. QED
    BY <1>6, <2>1, <2>2, OneCall
<1>9. CASE Users(h) # {} \/ "shared" \in spoilt[h]
  <2>1. "shared" \in spoilt'[h]
    BY <1>5, <1>9
  <2> DEFINE C == Users(h) \cup {c}
  <2>2. ASSUME NEW d \in C PROVE Phase(d) # "idle" /\ Phase(d)' = "shared"
    <3>1. CASE d = c
      BY <1>6, <2>1, <3>1 DEF PhaseOn
    <3>2. CASE d # c
      <4>1. d \in Caller /\ call[d].conn = h /\ SameCall(d)
        BY <1>3, <2>2, <3>2 DEF Users
      <4>2. call[d].at \in {"submit", "wait", "woken"}
        BY <4>1, PhaseAlone
      <4>3. Phase(d) = PhaseOn(d, h) /\ PhaseOn(d, h) # "idle"
        BY <4>1, <4>2, PhaseAlone DEF PhaseOn
      <4>4. Phase(d)' = PhaseOn(d, call[d].conn)'
        BY <4>1, <4>2, PhaseAfter DEF SameCall
      <4>5. QED
        BY <2>1, <4>1, <4>3, <4>4 DEF PhaseOn, SameCall
    <3>3. QED
      BY <3>1, <3>2
  <2>3. \A d \in Caller \ C : Phase(d)' = Phase(d)
    BY <1>7 DEF Users
  <2> HIDE DEF C
  <2>4. C \in SUBSET Caller
    BY DEF C, Users
  <2>5. QED
    BY <2>2, <2>3, <2>4, CallsShare
<1>10. QED
  BY <1>8, <1>9

LEMMA RemoteSends ==
  ASSUME TypeOK, TypeOK', CallInv, NEW c \in Caller, Send(c)
  PROVE  [Remote!Next]_Phases
<1>1. call[c].at = "submit"
  BY DEF Send
<1>2. PICK h \in Conn : h = call[c].conn
  BY <1>1, CallForms DEF TypeOK
<1>3. /\ call'[c] = Call("wait", {}, NoServer, h) /\ calls' = calls
      /\ \A d \in Caller : d # c => SameCall(d)
  <2>1. /\ call' = [call EXCEPT ![c] = Call("wait", {}, NoServer, h)]
        /\ Call("wait", {}, NoServer, h) \in CallState
    BY <1>1, <1>2, AtForm DEF Send
  <2>2. QED
    BY <2>1, Moved DEF Send, SameCall
<1>4. call'[c].conn = h /\ call'[c].at = "wait" /\ Own(c)' = Own(c)
  BY <1>3 DEF Call, Own
<1>5. /\ UNCHANGED <<link, para, result, answers, spoilt>>
      /\ \A k \in Conn : k # h => SameMail(k)
      /\ requests'[h] = IF link[h] = "active" THEN Append(requests[h], para[h]) ELSE requests[h]
  BY <1>2 DEF Send, TypeOK, SameMail
<1>6. Phase(c) = PhaseOn(c, h) /\ Phase(c)' = PhaseOn(c, h)'
  <2>1. Phase(c)' = PhaseOn(c, call[c].conn)'
    BY <1>4, PhaseAfter
  <2>2. QED
    BY <1>2, <1>4, <2>1, PhaseAlone DEF PhaseOn
<1>7. \A d \in Caller : d # c /\ call[d].conn # h => Phase(d)' = Phase(d)
  BY <1>3, <1>5, PhaseElsewhere
<1>8. CASE "shared" \in spoilt[h]
  <2>1. ASSUME NEW d \in Caller, call[d].conn = h, d # c PROVE Phase(d)' = Phase(d)
    <3>1. SameCall(d) /\ call[d].at \in {"submit", "wait", "woken"} /\ Phase(d) = "shared"
      BY <1>3, <1>8, <2>1, PhaseAlone
    <3>2. Phase(d)' = PhaseOn(d, call[d].conn)'
      BY <3>1, PhaseAfter DEF SameCall
    <3>3. QED
      BY <1>5, <1>8, <2>1, <3>1, <3>2 DEF PhaseOn, SameCall
  <2>2. Phase(c)' = Phase(c)
    BY <1>5, <1>6, <1>8 DEF PhaseOn
  <2>3. \A d \in Caller : d # c => Phase(d)' = Phase(d)
    BY <1>7, <2>1
  <2>4. QED
    BY <2>2, <2>3, OneCall
<1>9. CASE "shared" \notin spoilt[h]
  <2>1. c \in Users(h) /\ \A d \in Users(h) : d = c
    BY <1>2, <1>9 DEF CallInv, AloneInv, Users
  <2>2. \A d \in Caller : d # c => Phase(d)' = Phase(d)
    BY <1>7, <2>1 DEF Users
  <2>3. para[h] = Own(c) /\ requests[h] = <<>> /\ answers[h] = <<>>
    BY <1>1, <1>9, <2>1 DEF CallInv, AloneInv, ServedInv
  <2>4. PhaseOn(c, h) = "called"
    BY <1>1, <1>9 DEF PhaseOn
  <2>5. CASE link[h] = "active"
    <3>1. requests'[h] = <<Own(c)'>> /\ answers'[h] = <<>>
      BY <1>4, <1>5, <2>3, <2>5
    <3>2. PhaseOn(c, h)' = "sent"
      <4>1. <<>> # <<Own(c)'>>
        OBVIOUS
      <4>2. QED
        BY <1>4, <1>5, <1>9, <3>1, <4>1 DEF PhaseOn
    <3>3. QED
      BY <1>6, <2>2, <2>4, <3>2, OneCall
  <2>6. CASE link[h] # "active"
    <3>1. requests'[h] = <<>> /\ answers'[h] = <<>> /\ <<>> # <<Own(c)>>
      BY <1>5, <2>3, <2>6
    <3>2. PhaseOn(c, h)' = "lost"
      BY <1>4, <1>5, <1>9, <3>1 DEF PhaseOn
    <3>3. QED
      BY <1>6, <2>2, <2>4, <3>2, OneCall
  <2>7. QED
    BY <2>5, <2>6
<1>10. QED
  BY <1>8, <1>9

LEMMA RemoteLeaves ==
  ASSUME TypeOK, TypeOK', CallInv, NEW c \in Caller, SendFails(c) \/ Return(c)
  PROVE  [Remote!Next]_Phases
<1>1. call[c].at \in {"submit", "woken"} /\ call' = [call EXCEPT ![c] = Idle]
  BY DEF SendFails, Return
<1>2. /\ call'[c] = Idle /\ \A d \in Caller : d # c => Phase(d)' = Phase(d)
  BY <1>1, OthersStay DEF SendFails, Return
<1>3. Phase(c)' = "idle"
  BY <1>2, Fields, PhaseAfter
<1>4. PICK h \in Conn : h = call[c].conn
  BY <1>1, CallForms DEF TypeOK
<1>5. Phase(c) \in {"called", "answered", "shared"}
  BY <1>1, <1>4, PhaseAlone
<1>6. QED
  BY <1>2, <1>3, <1>5, OneCall

LEMMA StaysShared ==
  ASSUME TypeOK, TypeOK', CallInv, NEW h \in Conn, "shared" \in spoilt[h], "shared" \in spoilt'[h],
         NEW d \in Caller, call[d].conn = h, call'[d].conn = h,
         call'[d].at \in {"submit", "wait", "woken"}
  PROVE  Phase(d)' = Phase(d)
<1>1. Phase(d) = "shared"
  BY PhaseAlone
<1>2. Phase(d)' = PhaseOn(d, call[d].conn)'
  BY PhaseAfter
<1>3. QED
  BY <1>1, <1>2 DEF PhaseOn

\* A server serves the one call of a handler, or its decoder loses it.
LEMMA RemoteAnswers ==
  ASSUME TypeOK, TypeOK', CallInv, NEW h \in Conn, Answer(h) \/ Misread(h)
  PROVE  [Remote!Next]_Phases
<1>1. /\ requests[h] # <<>> /\ UNCHANGED <<callVars, result>>
      /\ requests'[h] = Tail(requests[h])
      /\ \A k \in Conn : k # h => SameMail(k)
  BY DEF Answer, Misread, TypeOK, SameMail
<1>2. ASSUME Answer(h)
       PROVE  spoilt'[h] = spoilt[h] /\ answers'[h] = Append(answers[h], Head(requests[h]))
  BY <1>2 DEF Answer, TypeOK
<1>3. ASSUME ~Answer(h)
       PROVE  spoilt'[h] = spoilt[h] \cup {"misread"} /\ answers'[h] = answers[h]
  BY <1>3 DEF Misread, TypeOK
<1>4. /\ "shared" \in spoilt'[h] <=> "shared" \in spoilt[h]
      /\ Answer(h) => answers'[h] = Append(answers[h], Head(requests[h]))
      /\ ~Answer(h) => answers'[h] = answers[h]
  BY <1>2, <1>3
<1>5. \A d \in Caller : SameCall(d) /\ Own(d)' = Own(d)
  BY <1>1, <1>4 DEF SameCall, Own, callVars
<1>6. \A d \in Caller : call[d].conn # h => Phase(d)' = Phase(d)
  BY <1>1, <1>4, <1>5, PhaseElsewhere
<1>7. CASE "shared" \in spoilt[h]
  <2>1. ASSUME NEW d \in Caller, call[d].conn = h PROVE Phase(d)' = Phase(d)
    <3>1. call[d].at \in {"submit", "wait", "woken"} /\ call'[d] = call[d]
      BY <1>5, <2>1, PhaseAlone DEF SameCall
    <3>2. QED
      BY <1>1, <1>4, <1>7, <2>1, <3>1, StaysShared
  <2>2. QED
    BY <1>6, <2>1, NoneMoves
<1>8. CASE "shared" \notin spoilt[h]
  <2>1. PICK c \in Users(h) : /\ call[c].at = "wait" /\ ServedInv(c, h)
                              /\ \A d \in Users(h) : d = c
    BY <1>1, <1>4, <1>8, OneWaits
  <2>2. c \in Caller /\ call[c].conn = h /\ requests[h] = <<Own(c)>> /\ answers[h] = <<>>
    BY <1>1, <1>4, <2>1 DEF ServedInv, Users
  <2>3. Phase(c) = "sent"
    BY <1>8, <2>1, <2>2, PhaseAlone
  <2>4. Phase(c)' = PhaseOn(c, h)'
    <3>1. Phase(c)' = PhaseOn(c, call[c].conn)'
      BY <1>5, <2>1, <2>2, PhaseAfter DEF SameCall
    <3>2. QED
      BY <1>5, <2>2, <3>1 DEF PhaseOn, SameCall
  <2>5. \A d \in Caller : d # c => Phase(d)' = Phase(d)
    BY <1>6, <2>1 DEF Users
  <2>6. requests'[h] = <<>> /\ call'[c].at = "wait" /\ <<>> # <<Own(c)'>>
    BY <1>1, <1>4, <1>5, <2>1, <2>2 DEF SameCall
  <2>7. CASE Answer(h)
    <3>1. answers'[h] = <<Own(c)'>>
      BY <1>1, <1>4, <1>5, <2>2, <2>7
    <3>2. PhaseOn(c, h)' = "served"
      BY <1>1, <1>4, <1>8, <2>6, <3>1 DEF PhaseOn
    <3>3. QED
      BY <2>2, <2>3, <2>4, <2>5, <3>2, OneCall
  <2>8. CASE ~Answer(h)
    <3>1. answers'[h] = <<>>
      BY <1>1, <1>4, <2>2, <2>8
    <3>2. PhaseOn(c, h)' = "lost"
      BY <1>1, <1>4, <1>8, <2>6, <3>1 DEF PhaseOn
    <3> DEFINE C == {c}
    <3>3. /\ \A d \in C : Phase(d) \in {"sent", "served"} /\ Phase(d)' = "lost"
          /\ \A d \in Caller \ C : Phase(d)' = Phase(d)
          /\ C \in SUBSET Caller
      BY <2>2, <2>3, <2>4, <2>5, <3>2
    <3> HIDE DEF C
    <3>4. QED
      BY <3>3, CallsLost
  <2>9. QED
    BY <2>7, <2>8
<1>9. QED
  BY <1>7, <1>8

LEMMA RemoteReads ==
  ASSUME TypeOK, TypeOK', CallInv, NEW h \in Conn, NEW n \in 1..Len(answers[h]),
         ChannelRead(h, n)
  PROVE  [Remote!Next]_Phases
<1>1. /\ UNCHANGED calls
      /\ answers'[h] = SubSeq(answers[h], n + 1, Len(answers[h]))
      /\ result'[h] = {answers[h][i] : i \in 1..n}
      /\ "shared" \in spoilt'[h] <=> "shared" \in spoilt[h]
      /\ \A k \in Conn : k # h => SameMail(k)
  BY DEF ChannelRead, TypeOK, SameMail
<1>2. /\ answers[h] # <<>> /\ n \in Nat /\ 1 <= n /\ n <= Len(answers[h])
  <2>1. answers[h] \in Seq(Request)
    BY DEF TypeOK
  <2>2. Len(answers[h]) \in Nat
    BY <2>1
  <2>3. QED
    BY <2>2
<1>3. CASE Waiting(h) = {}
  <2>1. call' = call /\ \A d \in Caller : SameCall(d)
    BY <1>1, <1>3 DEF ChannelRead, SameCall
  <2>2. "shared" \in spoilt[h]
    BY <1>2, <1>3, OneWaits DEF Waiting
  <2>3. ASSUME NEW d \in Caller, call[d].conn = h PROVE Phase(d)' = Phase(d)
    <3>1. call[d].at \in {"submit", "wait", "woken"}
      BY <2>3, PhaseAlone
    <3>2. QED
      BY <1>1, <2>1, <2>2, <2>3, <3>1, StaysShared
  <2>4. QED
    BY <1>1, <2>1, <2>3, PhaseElsewhere, NoneMoves
<1>4. ASSUME NEW c \in Waiting(h), call' = [call EXCEPT ![c].at = "woken"]
      PROVE  [Remote!Next]_Phases
  <2>1. c \in Caller /\ call[c].at = "wait" /\ call[c].conn = h /\ c \in Users(h)
    BY <1>4 DEF Waiting, Users
  <2>2. call' = [call EXCEPT ![c] = Call("woken", {}, NoServer, h)]
    BY <1>4, <2>1, AtForm
  <2>3. /\ call'[c] = Call("woken", {}, NoServer, h)
        /\ \A d \in Caller : d # c => SameCall(d)
    BY <1>1, <2>1, <2>2, Moved DEF SameCall
  <2>4. call'[c].conn = h /\ call'[c].at = "woken" /\ Own(c)' = Own(c)
    BY <1>1, <2>3 DEF Call, Own
  <2>5. \A d \in Caller : call[d].conn # h => Phase(d)' = Phase(d)
    BY <1>1, <2>1, <2>3, PhaseElsewhere
  <2>6. CASE "shared" \in spoilt[h]
    <3>1. ASSUME NEW d \in Caller, call[d].conn = h PROVE Phase(d)' = Phase(d)
      <4>1. call[d].at \in {"submit", "wait", "woken"}
        BY <3>1, PhaseAlone
      <4>2. call'[d].conn = h /\ call'[d].at \in {"submit", "wait", "woken"}
        BY <2>3, <2>4, <3>1, <4>1 DEF SameCall
      <4>3. QED
        BY <1>1, <2>6, <3>1, <4>2, StaysShared
    <3>2. QED
      BY <2>5, <3>1, NoneMoves
  <2>7. CASE "shared" \notin spoilt[h]
    <3>1. (\A d \in Users(h) : d = c) /\ ServedInv(c, h)
      BY <2>1, <2>7 DEF CallInv, AloneInv
    <3>2. requests[h] = <<>> /\ answers[h] = <<Own(c)>>
      BY <1>2, <2>1, <3>1 DEF ServedInv
    <3>3. Phase(c) = "served"
      <4>1. <<Own(c)>> # <<>>
        OBVIOUS
      <4>2. QED
        BY <2>1, <2>7, <3>2, <4>1, PhaseAlone
    <3>4. result'[h] = {Own(c)'}
      <4>1. Len(answers[h]) = 1 /\ answers[h][1] = Own(c)
        BY <3>2
      <4>2. n = 1
        BY <1>2, <4>1
      <4>3. \A i \in 1..1 : i = 1
        OBVIOUS
      <4>4. QED
        BY <1>1, <2>4, <4>1, <4>2, <4>3
    <3>5. Phase(c)' = PhaseOn(c, h)'
      <4>1. Phase(c)' = PhaseOn(c, call[c].conn)'
        BY <2>1, <2>4, PhaseAfter
      <4>2. QED
        BY <2>4, <4>1 DEF PhaseOn
    <3>6. PhaseOn(c, h)' = "answered"
      BY <1>1, <2>4, <2>7, <3>4 DEF PhaseOn
    <3>7. \A d \in Caller : d # c => Phase(d)' = Phase(d)
      BY <2>5, <3>1 DEF Users
    <3>8. QED
      BY <2>1, <3>3, <3>5, <3>6, <3>7, OneCall
  <2>8. QED
    BY <2>6, <2>7
<1>5. QED
  BY <1>3, <1>4 DEF ChannelRead

LEMMA RemoteStep ==
  TypeOK /\ TypeOK' /\ CallInv /\ [Next]_vars => [Remote!Next]_Phases
<1> SUFFICES ASSUME TypeOK, TypeOK', CallInv, [Next]_vars PROVE [Remote!Next]_Phases
  OBVIOUS
<1>1. ASSUME UNCHANGED <<callVars, result, requests, answers, spoilt>>
      PROVE  [Remote!Next]_Phases
  BY <1>1, PhaseKept, NoneMoves DEF SameCall, SameMail, callVars
<1>2. ASSUME NEW c \in Caller, Invoke(c) \/ CallStep(c) PROVE [Remote!Next]_Phases
  BY <1>2, RemoteCalls, RemoteInitConnects, RemoteTakes, RemoteSends, RemoteLeaves
  DEF CallStep
<1>3. ASSUME NEW K, Closed(K), UNCHANGED <<callVars, result, spoilt>>
      PROVE  [Remote!Next]_Phases
  <2>1. /\ \A k \in Conn : k \notin K => SameMail(k)
        /\ \A k \in Conn : k \in K => requests'[k] = <<>> /\ answers'[k] = <<>>
    BY <1>3 DEF Closed, SameMail
  <2>2. QED
    BY <1>3, <2>1, RemoteCut
<1>4. ASSUME NEW c \in Caller, ListenerStep(c) PROVE [Remote!Next]_Phases
  <2>1. CASE ~ListenerConnects(c) /\ ~ListenerCloses(c)
    BY <1>1, <1>4, <2>1
    DEF ListenerStep, ListenerStarts, ListenerLooks, ListenerReuses, ListenerFails,
        ListenerTurns, ListenerKeeps, ListenerDrops, ListenerTorn, ListenerFailsToClose,
        ListenerClearsBak, ListenerEnds, connVars
  <2>2. CASE ListenerConnects(c)
    <3>1. listener[c].server \in Server
      BY <2>2, ListenerForms DEF TypeOK, ListenerConnects
    <3>2. \A d \in Caller : Phase(d)' = Phase(d)
      BY <2>2, <3>1, RemoteConnects DEF ListenerConnects, SameCall, callVars
    <3>3. QED
      BY <3>2, NoneMoves
  <2>3. CASE ListenerCloses(c)
    BY <1>3, <2>3 DEF ListenerCloses
  <2>4. QED
    BY <2>1, <2>2, <2>3
<1>5. ASSUME NEW k \in Conn, Receive(k) \/ Answer(k) \/ Misread(k)
      PROVE  [Remote!Next]_Phases
  <2>1. CASE ChannelActive(k)
    BY <1>1, <2>1 DEF ChannelActive
  <2>2. QED
    BY <1>5, <2>1, RemoteAnswers, RemoteReads DEF Receive
<1>6. ASSUME NEW s \in Server,
             \/ ServerStarts(s) \/ ServerStartsEarly(s)
             \/ ServerStops(s) \/ SessionEnds(s)
      PROVE  [Remote!Next]_Phases
  <2>1. CASE ServerStarts(s) \/ ServerStartsEarly(s) \/ SessionEnds(s)
    BY <1>1, <2>1 DEF ServerStarts, ServerStartsEarly, SessionEnds, connVars
  <2>2. CASE ServerStops(s)
    <3> DEFINE K == {k \in Conn : peer[k] = s /\ link[k] \in {"new", "active"}}
    <3>1. /\ \A k \in Conn : k \notin K => SameMail(k)
          /\ \A k \in Conn : k \in K => requests'[k] = <<>> /\ answers'[k] = <<>>
          /\ UNCHANGED <<callVars, result, spoilt>>
      BY <2>2 DEF ServerStops, SameMail
    <3> HIDE DEF K
    <3>2. QED
      BY <3>1, RemoteCut
  <2>3. QED
    BY <1>6, <2>1, <2>2
<1>7. CASE UNCHANGED vars
  BY <1>1, <1>7 DEF vars, connVars
<1>8. QED
  BY <1>2, <1>4, <1>5, <1>6, <1>7 DEF Next

\* Theorem: ClientHandler's fields, its monitor and two streams of bytes implement
\* calls that are sent, served and answered once and in this order, as long as
\* nobody shares a handler (RemoteCallSpec).
THEOREM RemoteCallRefinement == Spec => RemoteCallSpec
<1>1. Init => Remote!Init
  <2> SUFFICES ASSUME Init PROVE Phases = [c \in Caller |-> "idle"]
    BY DEF Remote!Init
  <2>1. \A c \in Caller : Phase(c) = "idle"
    BY DEF Init, Phase, Idle, Call
  <2>2. QED
    BY <2>1 DEF Phases
<1>2. TypeOK /\ TypeOK' /\ CallInv /\ [Next]_vars => [Remote!Next]_Phases
  BY RemoteStep
<1>3. QED
  BY <1>1, <1>2, CallsCorrect, PTL DEF Spec, RemoteCallSpec, Remote!Spec
=============================================================================
