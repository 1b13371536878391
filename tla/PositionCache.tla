---------------------------- MODULE PositionCache ----------------------------
(***************************************************************************)
(* The two-level cache of positions of GuavaCache/guava-cache: a Guava     *)
(* cache keyed by id in front of a Redis list, both in front of the        *)
(* position table.  The requests of PositionController run concurrently;   *)
(* a Redis call that throws is logged and forgotten.                       *)
(***************************************************************************)
EXTENDS Integers, SequencesExt

CONSTANTS
    Request,        \* threads that serve requests
    LastId,         \* ids of the table are 1..LastId
    LastVersion     \* bound: a position is changed so often

VARIABLES
    table,          \* per id the version of its row; 0: no such row
    guava,          \* per id the version cached; 0: none
    redis,          \* the list hot-position, head first
    request,        \* what each thread is doing
    refreshed       \* history: the table was read by a flush and not changed since

vars == <<table, guava, redis, request, refreshed>>

Id == 1..LastId
Row == [id : Id, version : 1..LastVersion]
RowsOf(f) == {[id |-> i, version |-> f[i]] : i \in {j \in Id : f[j] # 0}}

At(place, rows) == [at |-> place, rows |-> rows]
Idle == At("idle", <<>>)
Goes(r, next) == request' = [request EXCEPT ![r] = next]

\* The loops of flushGuava and flushCache end with their last row.
Continue(place, rows) == IF rows = <<>> THEN Idle ELSE At(place, rows)

Init ==
    /\ table \in [Id -> 0..1]
    /\ guava = table        \* GuavaCacheConfig loads it at start
    /\ redis = <<>>
    /\ request = [r \in Request |-> Idle]
    /\ refreshed = FALSE

-----------------------------------------------------------------------------
(***************************************************************************)
(* /position/index                                                         *)
(***************************************************************************)

FindPositionFromGuavaCache(r) ==
    /\ request[r] = Idle
    /\ RowsOf(guava) = {}       \* otherwise the page is made of them
    /\ Goes(r, At("redis", <<>>))
    /\ UNCHANGED <<table, guava, redis, refreshed>>

\* The sort is stable: of the rows of one id the one pushed last comes first.
SortPositions(rows) ==
    FlattenSeq([i \in Id |-> SelectSeq(rows, LAMBDA row : row.id = i)])

\* An empty answer sends findPositions to the table.
FindPositionFromRedis(r) ==
    /\ request[r].at = "redis"
    /\ Goes(r, IF redis = <<>> THEN At("query", <<>>) ELSE At("fill", SortPositions(redis)))
    /\ UNCHANGED <<table, guava, redis, refreshed>>

LrangeFails(r) ==
    /\ request[r].at = "redis"
    /\ Goes(r, At("query", <<>>))
    /\ UNCHANGED <<table, guava, redis, refreshed>>

PutHead(r) == guava' = [guava EXCEPT ![Head(request[r].rows).id] = Head(request[r].rows).version]

FlushGuava(r) ==
    /\ request[r].at = "fill"
    /\ PutHead(r)
    /\ Goes(r, Continue("fill", Tail(request[r].rows)))
    /\ UNCHANGED <<table, redis, refreshed>>

-----------------------------------------------------------------------------
(***************************************************************************)
(* /position/flushCache, which findPositions also ends in                  *)
(***************************************************************************)

StartFlush(r) ==
    /\ request[r] = Idle
    /\ Goes(r, At("query", <<>>))
    /\ UNCHANGED <<table, guava, redis, refreshed>>

Query(r) ==
    /\ request[r].at = "query"
    /\ Goes(r, Continue("put", SetToSeq(RowsOf(table))))
    /\ refreshed' = TRUE
    /\ UNCHANGED <<table, guava, redis>>

Put(r) ==
    /\ request[r].at = "put"
    /\ PutHead(r)
    /\ Goes(r, [request[r] EXCEPT !.at = "push"])
    /\ UNCHANGED <<table, redis, refreshed>>

Lpush(r) ==
    /\ request[r].at = "push"
    /\ redis' = <<Head(request[r].rows)>> \o redis
    /\ Goes(r, Continue("put", Tail(request[r].rows)))
    /\ UNCHANGED <<table, guava, refreshed>>

LpushFails(r) ==
    /\ request[r].at = "push"
    /\ Goes(r, Continue("put", Tail(request[r].rows)))
    /\ UNCHANGED <<table, guava, redis, refreshed>>

-----------------------------------------------------------------------------
(***************************************************************************)
(* /position/clearRedis, /position/clearGuava and, of both, clearCache     *)
(***************************************************************************)

ClearRedis(r) ==
    /\ request[r] = Idle
    /\ redis' \in {<<>>, redis}         \* redis: LTRIM failed
    /\ request' \in {request, [request EXCEPT ![r] = At("clear", <<>>)]}
    /\ UNCHANGED <<table, guava, refreshed>>

ClearGuava(r) ==
    /\ request[r].at \in {"idle", "clear"}
    /\ guava' = [i \in Id |-> 0]
    /\ Goes(r, Idle)
    /\ UNCHANGED <<table, redis, refreshed>>

\* Somebody changes the table; the caches are not told.
Change(i) ==
    /\ table' \in {[table EXCEPT ![i] = v] : v \in {0} \cup (table[i] + 1)..LastVersion}
    /\ table' # table
    /\ refreshed' = FALSE
    /\ UNCHANGED <<guava, redis, request>>

Next ==
    \/ \E r \in Request :
        \/ FindPositionFromGuavaCache(r) \/ FindPositionFromRedis(r) \/ LrangeFails(r)
        \/ FlushGuava(r)
        \/ StartFlush(r) \/ Query(r) \/ Put(r) \/ Lpush(r) \/ LpushFails(r)
        \/ ClearRedis(r) \/ ClearGuava(r)
    \/ \E i \in Id : Change(i)

Spec == Init /\ [][Next]_vars

-----------------------------------------------------------------------------
(***************************************************************************)
(* What PositionController says of flushCache: the data of the table are   *)
(* refreshed in Redis and in Guava.  When a flush has read the table, and  *)
(* it has not changed since, and nobody is at work, the Redis list has     *)
(* nothing but rows of the table, each at most once (a push may fail).     *)
(***************************************************************************)
RefreshedRedis ==
    refreshed /\ (\A r \in Request : request[r] = Idle)
        => /\ ToSet(redis) \subseteq RowsOf(table)
           /\ IsInjective(redis)
=============================================================================
