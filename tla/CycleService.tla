---------------------------- MODULE CycleService ----------------------------
(***************************************************************************)
(* What the application promises the bridge about workspace cycles,        *)
(* whatever timers, results, questions and requests come in between: one   *)
(* at a time, begun only while the bridge is served, and none left when    *)
(* it is taken down.  BridgeController, which counts cycles among the work *)
(* in flight, and WorkspaceScheduler, which says whose cycle it is, both   *)
(* implement this specification.                                           *)
(***************************************************************************)

CONSTANT Cycles

VARIABLES
    stage,      \* "open" to cycles, "closed" to new ones, or taken "down"
    inFlight    \* the cycle a worker is running, as a set

vars == <<stage, inFlight>>

Init == stage \in {"closed", "down"} /\ inFlight = {}

\* The first cycle of a pass, or the next one as the last one ends.
Begin ==
    /\ stage = "open"
    /\ \E c \in Cycles : inFlight' = {c}
    /\ UNCHANGED stage

End ==
    /\ inFlight' = {}
    /\ UNCHANGED stage

Open ==
    /\ stage' = "open"
    /\ UNCHANGED inFlight

\* What is in flight may go on.
Close ==
    /\ stage' = "closed"
    /\ UNCHANGED inFlight

TakeDown ==
    /\ inFlight = {}
    /\ stage' = "down"
    /\ UNCHANGED inFlight

\* The application ends, and with it what it knows of its workers.
Abandon ==
    /\ stage' = "closed"
    /\ inFlight' = {}

Next == Begin \/ End \/ Open \/ Close \/ TakeDown \/ Abandon

Spec == Init /\ [][Next]_vars

=============================================================================
