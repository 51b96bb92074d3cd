---------------------------- MODULE BridgeSwitch ----------------------------
(***************************************************************************)
(* What the power helper promises, without how it does it: the bridge is a *)
(* switch.  A transition first records the desired-off marker, may then    *)
(* attach or detach shares and start or stop the VM, and ends, if it       *)
(* answers at all, with an answer that fits the state.  Shares are only    *)
(* ever attached while the marker is absent, and a transition powers the   *)
(* VM off only with the marker recorded and nothing mounted.               *)
(*                                                                         *)
(* PowerHelper implements this specification (HelperImplementsSwitch in PowerHelper_proofs).      *)
(***************************************************************************)
EXTENDS FiniteSets

CONSTANT Shares

VARIABLES
    marker,     \* /var/lib/icloud-bridge/powered-off exists
    mounted,    \* the shares that are mounted on the host
    vm,         \* the container: "absent", "stopped" or "running"
    cause,      \* who last changed vm: "helper" or "world"
    settled     \* the answer the last transition gave: "on", "off" or "none"

vars == <<marker, mounted, vm, cause, settled>>

VmStates == {"absent", "stopped", "running"}

Init ==
    /\ marker \in BOOLEAN
    /\ mounted = {}
    /\ vm \in VmStates
    /\ cause = "world"
    /\ settled = "none"

\* A transition begins, or gives up half way: the bridge is to stay off.
Record ==
    /\ marker' = TRUE
    /\ settled' = "none"
    /\ UNCHANGED <<mounted, vm, cause>>

\* A transition under way, and only such a one, lets shares be attached again.
Withdraw ==
    /\ settled = "none"
    /\ marker' = FALSE
    /\ UNCHANGED <<mounted, vm, cause, settled>>

Attach ==
    /\ ~marker
    /\ mounted' \in SUBSET Shares
    /\ mounted \subseteq mounted'
    /\ UNCHANGED <<marker, vm, cause, settled>>

Detach ==
    /\ settled = "none"
    /\ mounted' \in SUBSET mounted
    /\ UNCHANGED <<marker, vm, cause, settled>>

PowerOff ==
    /\ settled = "none"
    /\ marker
    /\ mounted = {}
    /\ vm' # "running"
    /\ vm' \in VmStates
    /\ cause' = "helper"
    /\ UNCHANGED <<marker, mounted, settled>>

PowerOn ==
    /\ settled = "none"
    /\ marker
    /\ vm' = "running"
    /\ cause' = "helper"
    /\ UNCHANGED <<marker, mounted, settled>>

AnswerOff ==
    /\ marker
    /\ mounted = {}
    /\ vm # "running"
    /\ settled' = "off"
    /\ UNCHANGED <<marker, mounted, vm, cause>>

AnswerOn ==
    /\ ~marker
    /\ mounted = Shares
    /\ settled' = "on"
    /\ UNCHANGED <<marker, mounted, vm, cause>>

\* Somebody starts, stops, creates or removes the VM behind the helper's back.
World ==
    /\ vm' \in VmStates
    /\ cause' = "world"
    /\ UNCHANGED <<marker, mounted, settled>>

\* The host goes down: mounts do not survive it, the marker does.
Reboot ==
    /\ mounted' = {}
    /\ UNCHANGED <<marker, vm, cause, settled>>

Next ==
    \/ Record
    \/ Withdraw
    \/ Attach
    \/ Detach
    \/ PowerOff
    \/ PowerOn
    \/ AnswerOff
    \/ AnswerOn
    \/ World
    \/ Reboot

Spec == Init /\ [][Next]_vars

=============================================================================
