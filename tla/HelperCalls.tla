----------------------------- MODULE HelperCalls -----------------------------
(***************************************************************************)
(* The power helper as its callers see it: processes that wait for the     *)
(* lock, work one at a time, and end with an answer.  What an answer says  *)
(* of the bridge is Results, of HelperResults: BridgeController lets a     *)
(* helper end in no other way, and the script, in PowerHelper, implements  *)
(* this specification, so it does not either.                              *)
(***************************************************************************)
EXTENDS HelperResults

CONSTANT Callers

VARIABLES
    bridge,     \* what the helper has made of marker, automounts, mounts and timer
    calls,      \* what each caller's process does
    answers     \* the last answer each of them got

vars == <<bridge, calls, answers>>

NoCall == [stage |-> "none", want |-> "none"]
Call(stage, want) == [stage |-> stage, want |-> want]

Init ==
    /\ bridge \in States
    /\ calls = [p \in Callers |-> NoCall]
    /\ answers = [p \in Callers |-> "none"]

Ask(p) ==
    /\ calls[p] = NoCall
    /\ \E want \in Verbs : calls' = [calls EXCEPT ![p] = Call("waiting", want)]
    /\ answers' = [answers EXCEPT ![p] = "none"]
    /\ UNCHANGED bridge

\* The lock is free.
Lock(p) ==
    /\ calls[p].stage = "waiting"
    /\ \A q \in Callers : calls[q].stage # "working"
    /\ calls' = [calls EXCEPT ![p] = Call("working", calls[p].want)]
    /\ UNCHANGED <<bridge, answers>>

\* The wait for the lock is over.
Unserved(p) ==
    /\ calls[p].stage = "waiting"
    /\ calls' = [calls EXCEPT ![p] = NoCall]
    /\ answers' = [answers EXCEPT ![p] = "unserved"]
    /\ UNCHANGED bridge

Work(p) ==
    /\ calls[p].stage = "working"
    /\ \E r \in Results(calls[p].want, bridge) : bridge' = r.bridge
    /\ UNCHANGED <<calls, answers>>

\* It ends by itself, or is killed.
End(p) ==
    /\ calls[p].stage = "working"
    /\ \E r \in Results(calls[p].want, bridge) :
          /\ bridge' = r.bridge
          /\ answers' = [answers EXCEPT ![p] = r.answer]
    /\ calls' = [calls EXCEPT ![p] = NoCall]

\* The host goes down, with every process on it: what is on stays on, and what
\* is off stays off.
Restart ==
    /\ bridge' \in IF bridge = "partial" THEN States ELSE {bridge}
    /\ calls' = [p \in Callers |-> NoCall]
    /\ answers' = [p \in Callers |-> IF calls[p] = NoCall THEN answers[p] ELSE "broken"]

Next ==
    \/ \E p \in Callers : Ask(p) \/ Lock(p) \/ Unserved(p) \/ Work(p) \/ End(p)
    \/ Restart

Spec == Init /\ [][Next]_vars

=============================================================================
