----------------------------- MODULE RemoteCall ------------------------------
(***************************************************************************)
(* What the proxy of RpcConsumer promises to its callers: a call is sent,  *)
(* served and answered once and in this order.  A call that throws was     *)
(* never sent, and one that was cut off never comes back.  Nothing is      *)
(* promised once callers share a handler.  RpcClient shows that fields     *)
(* para and result, a monitor and two streams of bytes implement this.     *)
(***************************************************************************)
CONSTANT Caller

VARIABLE phase      \* per caller

Phases == {"idle", "called", "sent", "served", "answered", "lost", "shared"}

Init == phase = [c \in Caller |-> "idle"]

Step(c, from, to) ==
    /\ phase[c] \in from
    /\ phase' = [phase EXCEPT ![c] = to]

Begin(c) == Step(c, {"idle"}, "called")

Throw(c) == Step(c, {"called"}, "idle")

\* On a connection that is gone the call waits for nothing.
Transmit(c) == Step(c, {"called"}, "sent") \/ Step(c, {"called"}, "lost")

Serve(c) == Step(c, {"sent"}, "served")

Deliver(c) == Step(c, {"served"}, "answered")

Return(c) == Step(c, {"answered"}, "idle")

Move(C, to) == phase' = [c \in Caller |-> IF c \in C THEN to ELSE phase[c]]

\* A connection goes down, or loses step, with what is under way.
Lose ==
    \E C \in SUBSET {c \in Caller : phase[c] \in {"sent", "served"}} : Move(C, "lost")

Share ==
    \E C \in SUBSET {c \in Caller : phase[c] # "idle"} : Move(C, "shared")

LeaveShared(c) == Step(c, {"shared"}, "idle")

Next ==
    \/ \E c \in Caller :
        \/ Begin(c) \/ Throw(c) \/ Transmit(c) \/ Serve(c) \/ Deliver(c) \/ Return(c)
        \/ LeaveShared(c)
    \/ Lose \/ Share

Spec == Init /\ [][Next]_phase
=============================================================================
