------------------------------- MODULE IdWorker -------------------------------
(***************************************************************************)
(* The order numbers of rocketmq/seckill (the same class serves            *)
(* rabbitmq/rabbitmq_springboot): milliseconds, the node and a sequence    *)
(* within the millisecond, packed into one number.  nextId is synchronized *)
(* and waits for the next millisecond inside the monitor when the sequence *)
(* is used up; the host's clock may be set back at any time, and a restart *)
(* forgets the last millisecond.                                           *)
(***************************************************************************)
EXTENDS Integers, Sequences

CONSTANTS
    Worker,         \* processes that hold an IdWorker bean
    NodeId,         \* datacenterId * 32 + workerId of each
    NodeSize,       \* 2^(datacenterIdBits + workerIdBits)
    SeqSize,        \* 2^sequenceBits
    MaxClock,       \* bound: the last millisecond
    MaxSetBacks,    \* bound: times a host's clock is set back
    MaxCalls        \* bound: numbers given out per process

ASSUME SizeAssumption == SeqSize \in Nat \ {0} /\ NodeSize \in Nat \ {0}
ASSUME NodeAssumption == NodeId \in [Worker -> 0..(NodeSize - 1)]

VARIABLES
    clock,          \* System.currentTimeMillis() - twepoch, per host
    lastTimestamp,
    sequence,
    waiting,        \* inside tilNextMillis, holding the monitor
    ids,            \* the numbers each process gave out, oldest first
    born,           \* how many of them before its last start
    setBacks        \* how often the host's clock was set back

vars == <<clock, lastTimestamp, sequence, waiting, ids, born, setBacks>>

TypeOK ==
    /\ clock \in [Worker -> Nat]
    /\ lastTimestamp \in [Worker -> Nat \cup {-1}]
    /\ sequence \in [Worker -> 0..(SeqSize - 1)]
    /\ waiting \in [Worker -> BOOLEAN]
    /\ ids \in [Worker -> Seq(Nat)]
    /\ born \in [Worker -> Nat]
    /\ setBacks \in [Worker -> Nat]

Init ==
    /\ clock = [w \in Worker |-> 0]
    /\ lastTimestamp = [w \in Worker |-> -1]
    /\ sequence = [w \in Worker |-> 0]
    /\ waiting = [w \in Worker |-> FALSE]
    /\ ids = [w \in Worker |-> <<>>]
    /\ born = [w \in Worker |-> 0]
    /\ setBacks = [w \in Worker |-> 0]

-----------------------------------------------------------------------------
\* The fields do not overlap, so "|" adds them.
Id(w, timestamp, n) == (timestamp * NodeSize + NodeId[w]) * SeqSize + n

\* nextId returns with this time and sequence number.
Give(w, timestamp, n) ==
    /\ lastTimestamp' = [lastTimestamp EXCEPT ![w] = timestamp]
    /\ sequence' = [sequence EXCEPT ![w] = n]
    /\ ids' = [ids EXCEPT ![w] = Append(@, Id(w, timestamp, n))]

Tick(w) ==
    /\ clock[w] < MaxClock
    /\ clock' = [clock EXCEPT ![w] = @ + 1]
    /\ UNCHANGED <<lastTimestamp, sequence, waiting, ids, born, setBacks>>

SetBack(w) ==
    /\ setBacks[w] < MaxSetBacks
    /\ \E t \in 0..(clock[w] - 1) : clock' = [clock EXCEPT ![w] = t]
    /\ setBacks' = [setBacks EXCEPT ![w] = @ + 1]
    /\ UNCHANGED <<lastTimestamp, sequence, waiting, ids, born>>

\* A start of the process takes longer than a millisecond.
Restart(w) ==
    /\ clock[w] < MaxClock
    /\ clock' = [clock EXCEPT ![w] = @ + 1]
    /\ lastTimestamp' = [lastTimestamp EXCEPT ![w] = -1]
    /\ sequence' = [sequence EXCEPT ![w] = 0]
    /\ waiting' = [waiting EXCEPT ![w] = FALSE]
    /\ born' = [born EXCEPT ![w] = Len(ids[w])]
    /\ UNCHANGED <<ids, setBacks>>

Callable(w) == ~waiting[w] /\ Len(ids[w]) < MaxCalls

\* Fault: the check of the clock is gone, only an equal time counts.
NewMillisUnchecked(w) ==
    /\ Callable(w)
    /\ clock[w] # lastTimestamp[w]
    /\ Give(w, clock[w], 0)
    /\ UNCHANGED <<clock, waiting, born, setBacks>>

\* With the clock behind lastTimestamp nextId throws and changes nothing.
NewMillis(w) ==
    /\ Callable(w)
    /\ clock[w] > lastTimestamp[w]
    /\ Give(w, clock[w], 0)
    /\ UNCHANGED <<clock, waiting, born, setBacks>>

\* Fault: the sequence is not masked.
SameMillisUnmasked(w) ==
    /\ Callable(w)
    /\ clock[w] = lastTimestamp[w]
    /\ Give(w, clock[w], sequence[w] + 1)
    /\ UNCHANGED <<clock, waiting, born, setBacks>>

SameMillis(w) ==
    /\ Callable(w)
    /\ clock[w] = lastTimestamp[w]
    /\ sequence[w] + 1 < SeqSize
    /\ Give(w, clock[w], sequence[w] + 1)
    /\ UNCHANGED <<clock, waiting, born, setBacks>>

\* The sequence wraps to 0: the call waits for the next millisecond.
Exhausted(w) ==
    /\ Callable(w)
    /\ clock[w] = lastTimestamp[w]
    /\ sequence[w] + 1 = SeqSize
    /\ sequence' = [sequence EXCEPT ![w] = 0]
    /\ waiting' = [waiting EXCEPT ![w] = TRUE]
    /\ UNCHANGED <<clock, lastTimestamp, ids, born, setBacks>>

\* Fault: "while (timestamp < lastTimestamp)".
TilSameMillis(w) ==
    /\ waiting[w]
    /\ clock[w] >= lastTimestamp[w]
    /\ Give(w, clock[w], 0)
    /\ waiting' = [waiting EXCEPT ![w] = FALSE]
    /\ UNCHANGED <<clock, born, setBacks>>

\* Fault: the loop does not read the clock again.
TilNeverReread(w) == FALSE /\ UNCHANGED vars

TilNextMillis(w) ==
    /\ waiting[w]
    /\ clock[w] > lastTimestamp[w]
    /\ Give(w, clock[w], 0)
    /\ waiting' = [waiting EXCEPT ![w] = FALSE]
    /\ UNCHANGED <<clock, born, setBacks>>

NextId(w) == NewMillis(w) \/ SameMillis(w) \/ Exhausted(w) \/ TilNextMillis(w)

Next ==
    \E w \in Worker : Tick(w) \/ SetBack(w) \/ Restart(w) \/ NextId(w)

Spec == Init /\ [][Next]_vars

\* The clock goes on, and a thread that polls it sees it.
FairSpec ==
    Spec /\ \A w \in Worker : WF_vars(Tick(w)) /\ WF_vars(TilNextMillis(w))

-----------------------------------------------------------------------------
(***************************************************************************)
(* A process gives out increasing numbers for as long as it lives, also    *)
(* when its clock is set back or a millisecond's sequence is used up       *)
(* (IdWorker.nextId).                                                      *)
(***************************************************************************)
IncreasingInLife ==
    \A w \in Worker : \A i, j \in (born[w] + 1)..Len(ids[w]) :
        i < j => ids[w][i] < ids[w][j]

(***************************************************************************)
(* A restart forgets lastTimestamp, so across restarts the numbers keep    *)
(* increasing only on a host whose clock was never set back.               *)
(***************************************************************************)
IncreasingOnGoodClock ==
    \A w \in Worker : setBacks[w] = 0 =>
        \A i, j \in 1..Len(ids[w]) : i < j => ids[w][i] < ids[w][j]

(***************************************************************************)
(* Processes with different node ids never give out the same number.       *)
(***************************************************************************)
NodesDisjoint ==
    \A v, w \in Worker : NodeId[v] # NodeId[w] =>
        \A i \in 1..Len(ids[v]), j \in 1..Len(ids[w]) : ids[v][i] # ids[w][j]

(***************************************************************************)
(* A call that waits for the next millisecond returns, although the clock  *)
(* may be set back while it waits (IdWorker.tilNextMillis); MaxClock is    *)
(* where the model's time ends.                                            *)
(***************************************************************************)
WaitEnds ==
    \A w \in Worker :
        waiting[w] /\ lastTimestamp[w] < MaxClock ~> ~waiting[w]
=============================================================================
