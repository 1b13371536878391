------------------------------ MODULE RateWindow ------------------------------
(***************************************************************************)
(* The limit on registrations in the gateway of springcloudali:            *)
(* IpMonitorFilter asks MethodIpPercent.isLimited and, if not, increments. *)
(* The counter is a ring with one slot for each second.  A slot that comes *)
(* round again is reset by whoever increments it first, checked twice; the *)
(* request threads read and write the slots without a common lock.         *)
(***************************************************************************)
EXTENDS Integers, FiniteSets

CONSTANTS
    Thread,         \* request threads of the gateway
    Second,         \* ticks of the clock in a second
    Slots,          \* calculateTimeWindow
    Recent,         \* the ten seconds of count(), in ticks
    MaxTimes,
    MaxDelay,       \* bound: ticks from reading the clock to the end of increment
    MaxTime         \* bound: the clock

ASSUME ThreadAssumption == IsFiniteSet(Thread) /\ Thread # {}
ASSUME WindowAssumption ==
    /\ Second \in Nat \ {0} /\ Slots \in Nat \ {0, 1} /\ Recent \in Nat
    /\ MaxTimes \in Nat /\ MaxTime \in Nat
\* count() looks ten seconds back, and the ring of IpMonitorFilter has ten slots.
ASSUME RecentAssumption == Slots * Second <= Recent
ASSUME DelayAssumption == MaxDelay \in 0..((Slots - 1) * Second)

VARIABLES
    now,
    atomicLong, lastIncrementTime,  \* per slot
    job,            \* a request, per thread
    admitted        \* requests counted, by the second of their increment

slotVars == <<atomicLong, lastIncrementTime>>
vars == <<now, slotVars, job, admitted>>

\* The clock is a long way from zero when the gateway starts.
Start == Recent + Slots * Second
Time == Start..MaxTime
Slot == 0..(Slots - 1)
SecondOf(t) == t \div Second
SlotOf(t) == SecondOf(t) % Slots
Seconds == SecondOf(Start)..SecondOf(MaxTime)

\* from: when the request came, or the time its increment goes by
Job(at, slot, sum, from) == [at |-> at, slot |-> slot, sum |-> sum, from |-> from]
Idle == Job("idle", 0, 0, 0)
Updating == {"check", "reset", "add", "write"}

TypeOK ==
    /\ now \in Time
    /\ atomicLong \in [Slot -> Nat]
    /\ lastIncrementTime \in [Slot -> Time \cup {-1}]
    /\ job \in [Thread -> {Idle}
                    \cup [at : {"count"}, slot : 0..Slots, sum : Nat, from : Time]
                    \cup [at : Updating, slot : Slot, sum : {0}, from : Time]]
    /\ admitted \in [Seconds -> Nat]

Init ==
    /\ now \in Start..(Start + Second - 1) \cap Time
    /\ atomicLong = [i \in Slot |-> 0]
    /\ lastIncrementTime = [i \in Slot |-> -1]
    /\ job = [r \in Thread |-> Idle]
    /\ admitted = [n \in Seconds |-> 0]

-----------------------------------------------------------------------------
\* A thread that has read the clock is done MaxDelay later.
Tick ==
    /\ now < MaxTime
    /\ \A r \in Thread : job[r].at \in Updating => now - job[r].from < MaxDelay
    /\ now' = now + 1
    /\ UNCHANGED <<slotVars, job, admitted>>

Arrive(r) ==
    /\ job[r] = Idle
    /\ job' = [job EXCEPT ![r] = Job("count", 0, 0, now)]
    /\ UNCHANGED <<now, slotVars, admitted>>

\* Fault: a slot is counted however old it is.
CountAll(r) ==
    LET i == job[r].slot IN
    /\ job[r].at = "count"
    /\ i < Slots
    /\ job' = [job EXCEPT ![r].slot = i + 1, ![r].sum = @ + atomicLong[i]]
    /\ UNCHANGED <<now, slotVars, admitted>>

\* isLimited adds up the slots one after the other.  The two reads of a slot are
\* one step: between them the slot can only become newer.
Count(r) ==
    LET i == job[r].slot IN
    /\ job[r].at = "count"
    /\ i < Slots
    /\ job' = [job EXCEPT ![r].slot = i + 1,
                          ![r].sum = @ + IF lastIncrementTime[i] > now - Recent
                                           THEN atomicLong[i] ELSE 0]
    /\ UNCHANGED <<now, slotVars, admitted>>

Limited(r) ==
    /\ job[r].at = "count"
    /\ job[r].slot = Slots
    /\ job[r].sum >= MaxTimes
    /\ job' = [job EXCEPT ![r] = Idle]
    /\ UNCHANGED <<now, slotVars, admitted>>

\* Fault: the limit itself is let through.
StampAtLimit(r) ==
    /\ job[r].at = "count"
    /\ job[r].slot = Slots
    /\ job[r].sum <= MaxTimes
    /\ job' = [job EXCEPT ![r] = Job("check", SlotOf(now), 0, now)]
    /\ UNCHANGED <<now, slotVars, admitted>>

\* Fault: the slot is not taken modulo the length of the ring.
StampUnwrapped(r) ==
    /\ job[r].at = "count"
    /\ job[r].slot = Slots
    /\ job[r].sum < MaxTimes
    /\ job' = [job EXCEPT ![r] = Job("check", SecondOf(now), 0, now)]
    /\ UNCHANGED <<now, slotVars, admitted>>

\* The request is let through; increment reads the clock and picks the slot.
Stamp(r) ==
    /\ job[r].at = "count"
    /\ job[r].slot = Slots
    /\ job[r].sum < MaxTimes
    /\ job' = [job EXCEPT ![r] = Job("check", SlotOf(now), 0, now)]
    /\ UNCHANGED <<now, slotVars, admitted>>

Stale(r) == job[r].from - lastIncrementTime[job[r].slot] > Second

Check(r) ==
    /\ job[r].at = "check"
    /\ job' = [job EXCEPT ![r].at =
                    IF lastIncrementTime[job[r].slot] > 0 /\ Stale(r)
                      THEN "reset" ELSE "add"]
    /\ UNCHANGED <<now, slotVars, admitted>>

\* Fault: the monitor is taken and nothing checked again.
ResetUnchecked(r) ==
    /\ job[r].at = "reset"
    /\ job' = [job EXCEPT ![r].at = "add"]
    /\ atomicLong' = [atomicLong EXCEPT ![job[r].slot] = 0]
    /\ lastIncrementTime' =
            [lastIncrementTime EXCEPT ![job[r].slot] = job[r].from]
    /\ UNCHANGED <<now, admitted>>

\* The synchronized block checks a second time.
Reset(r) ==
    /\ job[r].at = "reset"
    /\ job' = [job EXCEPT ![r].at = "add"]
    /\ IF Stale(r)
         THEN /\ atomicLong' = [atomicLong EXCEPT ![job[r].slot] = 0]
              /\ lastIncrementTime' =
                    [lastIncrementTime EXCEPT ![job[r].slot] = job[r].from]
         ELSE UNCHANGED slotVars
    /\ UNCHANGED <<now, admitted>>

Add(r) ==
    /\ job[r].at = "add"
    /\ atomicLong' = [atomicLong EXCEPT ![job[r].slot] = @ + 1]
    /\ admitted' = [admitted EXCEPT ![SecondOf(job[r].from)] = @ + 1]
    /\ job' = [job EXCEPT ![r].at = "write"]
    /\ UNCHANGED <<now, lastIncrementTime>>

\* The last write is nobody's latest: it may set the time back.
WriteTime(r) ==
    /\ job[r].at = "write"
    /\ lastIncrementTime' = [lastIncrementTime EXCEPT ![job[r].slot] = job[r].from]
    /\ job' = [job EXCEPT ![r] = Idle]
    /\ UNCHANGED <<now, atomicLong, admitted>>

Request(r) ==
    \/ Arrive(r) \/ Count(r) \/ Limited(r) \/ Stamp(r) \/ Check(r) \/ Reset(r)
    \/ Add(r) \/ WriteTime(r)

Next == Tick \/ \E r \in Thread : Request(r)

Spec == Init /\ [][Next]_vars

-----------------------------------------------------------------------------
\* The requests counted in the seconds of X, numbered within each second
Admissions(X) == UNION {{n} \X (1..admitted[n]) : n \in X}

\* How many requests were counted in the seconds from m to n
Admitted(m, n) == Cardinality(Admissions(Seconds \cap (m..n)))

(***************************************************************************)
(* A slot holds the number of requests counted in the second it was last   *)
(* written for: no increment is lost to a reset of another thread, and     *)
(* none is left from an earlier round (the double check of increment).     *)
(***************************************************************************)
SlotHoldsItsSecond ==
    \A i \in Slot :
        lastIncrementTime[i] # -1 =>
            atomicLong[i] = admitted[SecondOf(lastIncrementTime[i])]

(***************************************************************************)
(* isLimited and increment are separate, so each other thread may be       *)
(* between the two: in as many calendar seconds as the ring has slots, at  *)
(* most MaxTimes requests and one for every other thread get through.      *)
(***************************************************************************)
RateBound ==
    \A n \in Seconds :
        Admitted(n - Slots + 1, n) <= MaxTimes + Cardinality(Thread) - 1

(***************************************************************************)
(* A request is only turned away when the limit was reached in the seconds *)
(* that touch the time span of count(): nothing older is held against it.  *)
(***************************************************************************)
LimitedForReason ==
    [][\A r \in Thread : Limited(r) =>
            Admitted(SecondOf(job[r].from - Recent), SecondOf(now)) >= MaxTimes]_vars
=============================================================================
