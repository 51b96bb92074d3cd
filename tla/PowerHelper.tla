---------------------------- MODULE PowerHelper -----------------------------
(***************************************************************************)
(* host/icloud-bridge-power, the root helper that turns the bridge on and  *)
(* off as one transaction, with what it drives: the desired-off marker,    *)
(* the systemd automount, mount and health units, and the Docker container.*)
(*                                                                         *)
(* One step is one command of the script.  The script can be killed, and   *)
(* the host can go down, between any two of them; users, the health timer  *)
(* and the guest act in between.  A command fails, and the world outside   *)
(* misbehaves, only while ~calm: once calm, nothing goes wrong any more,   *)
(* which is what the liveness properties start from.                       *)
(***************************************************************************)
EXTENDS Naturals, FiniteSets

CONSTANTS
    NShares,        \* the number of units in MOUNTS
    Procs,          \* invocations of the helper that may overlap
    NoProc,         \* nobody holds the flock
    MaxAttempts     \* readiness attempts that fit into READY_DEADLINE

ASSUME NSharesAssumption == NShares \in Nat \ {0}
ASSUME NoProcAssumption == NoProc \notin Procs
ASSUME MaxAttemptsAssumption == MaxAttempts \in Nat

VARIABLES
    marker,     \* MARKER exists: "host bridge services must remain disarmed"
    armed,      \* shares whose automount unit is active
    mounted,    \* shares whose mount unit is active (and a mount point)
    busy,       \* mounted shares some process has files open on
    timer,      \* icloud-health.timer is active
    health,     \* an icloud-health.service run is in flight
    vm,         \* the container: "absent", "stopped" or "running"
    smb,        \* the guest in the running container answers SMB
    cause,      \* who last changed vm: "helper" or "world" (history)
    lock,       \* the invocation that holds LOCKFILE, or NoProc
    pc,         \* the command each invocation runs next
    loc,        \* the local variables of each invocation
    exit,       \* exit status, or the one the rollback will report
    settled,    \* the answer the last transition gave: "none", "off", "on" (history)
    calm        \* nothing fails from here on

host == <<marker, armed, mounted, busy, timer, health, vm, smb, cause>>
proc == <<lock, pc, loc, exit>>
vars == <<marker, armed, mounted, busy, timer, health, vm, smb, cause,
          lock, pc, loc, exit, settled, calm>>

Shares == 1 .. NShares

\* icloud-health.sh writes its canary on /mnt/icloud, the first share.
CanaryShare == 1

OffPcs == {"off_marker", "off_health", "off_autos", "off_unmount", "off_inspect",
           "off_stop", "off_reinspect", "off_confirm"}
RollbackPcs == {"rb_marker", "rb_autos", "rb_timer"}
OnPcs == {"on_inspect", "on_marker", "on_health", "on_start", "on_attempt",
          "on_clear", "on_arm", "on_access", "on_verify", "on_rearm",
          "on_teardown", "on_expired", "on_giveup", "on_timer", "on_confirm"}
WaitPcs == {"off_wait", "on_wait"}
CritPcs == OffPcs \cup RollbackPcs \cup OnPcs

ExitCodes == {"none", "ok", "busy", "container", "readiness", "unit", "lock",
              "state", "aborted", "killed"}

\* pre: marker_pre_existed of do_off; idx: the share a loop is at;
\* ok: `accessible` of do_on; attempts: rounds of its readiness loop.
Locals == [pre : BOOLEAN, idx : 1 .. NShares + 1, ok : BOOLEAN, attempts : 0 .. MaxAttempts]
Fresh == [pre |-> FALSE, idx |-> 1, ok |-> FALSE, attempts |-> 0]

Init ==
    /\ marker \in BOOLEAN
    /\ armed = IF marker THEN {} ELSE Shares
    /\ mounted = {}
    /\ busy = {}
    /\ timer = ~marker
    /\ health = FALSE
    /\ vm \in {"absent", "stopped", "running"}
    /\ smb = FALSE
    /\ cause = "world"
    /\ lock = NoProc
    /\ pc = [p \in Procs |-> "idle"]
    /\ loc = [p \in Procs |-> Fresh]
    /\ exit = [p \in Procs |-> "none"]
    /\ settled = "none"
    /\ calm = FALSE

-----------------------------------------------------------------------------
(* What the script's helpers observe and how it moves on.                  *)

\* container_state: the truth, or `error:` when the daemon does not answer.
ContainerState == {vm} \cup (IF calm THEN {} ELSE {"error"})

\* A share answers a directory read: the VM runs and its SMB server is up.
Live == vm = "running" /\ smb

\* Mounts with files open, the health script's own canary write included.
InUse == busy \cup (IF health THEN {CanaryShare} ELSE {})

GotoWith(p, label, locals) ==
    /\ pc' = [pc EXCEPT ![p] = label]
    /\ loc' = [loc EXCEPT ![p] = locals]
    /\ UNCHANGED <<lock, exit>>

Goto(p, label) == GotoWith(p, label, loc[p])

\* The process ends, and with it its variables and its hold on the lock file.
Exit(p, code) ==
    /\ pc' = [pc EXCEPT ![p] = "idle"]
    /\ loc' = [loc EXCEPT ![p] = Fresh]
    /\ exit' = [exit EXCEPT ![p] = code]
    /\ lock' = NoProc

\* rollback_to_on, then die with this status.
RollBack(p, code) ==
    /\ pc' = [pc EXCEPT ![p] = "rb_marker"]
    /\ exit' = [exit EXCEPT ![p] = code]
    /\ UNCHANGED <<lock, loc>>

\* create_marker or remove_marker fails, and `set -e` ends the script there with
\* the status of that command: the marker stays what it was.
Aborts(p) ==
    /\ ~calm
    /\ marker' = marker
    /\ Exit(p, "aborted")

\* create_marker once more, then die.
RecordAndDie(p, code) ==
    \/ marker' = TRUE /\ Exit(p, code)
    \/ Aborts(p)

\* What most actions leave alone, by group.
KeepUnits == UNCHANGED <<armed, mounted, busy, timer, health>>
KeepVm == UNCHANGED <<vm, smb, cause>>

-----------------------------------------------------------------------------
(* main: the arguments, then the bounded flock.                            *)

Request(p, verb) ==
    /\ pc[p] = "idle"
    /\ pc' = [pc EXCEPT ![p] = IF verb = "off" THEN "off_wait" ELSE "on_wait"]
    /\ exit' = [exit EXCEPT ![p] = "none"]
    /\ UNCHANGED <<host, lock, loc, settled, calm>>

AcquireUnserialized(p) == TRUE
AcquireGuard(p) == lock = NoProc

Acquire(p) ==
    /\ pc[p] \in WaitPcs
    /\ AcquireGuard(p)
    /\ lock' = p
    /\ pc' = [pc EXCEPT ![p] = IF @ = "off_wait" THEN "off_marker" ELSE "on_inspect"]
    /\ UNCHANGED <<host, loc, exit, settled, calm>>

\* LOCK_WAIT runs out while another transition is still going.
WaitIsOver(p) == lock # NoProc

LockTimeout(p) ==
    /\ pc[p] \in WaitPcs
    /\ WaitIsOver(p)
    /\ pc' = [pc EXCEPT ![p] = "idle"]
    /\ exit' = [exit EXCEPT ![p] = "lock"]
    /\ UNCHANGED <<host, lock, loc, settled, calm>>

-----------------------------------------------------------------------------
(* do_off                                                                  *)

OffRecord(p) ==
    /\ pc[p] = "off_marker"
    /\ marker' = TRUE
    /\ settled' = "none"
    /\ GotoWith(p, "off_health", [loc[p] EXCEPT !.pre = marker])
    /\ KeepUnits /\ KeepVm
    /\ UNCHANGED calm

OffStopHealth(p) ==
    /\ pc[p] = "off_health"
    /\ \/ /\ timer' = FALSE
          /\ health' = FALSE
          /\ Goto(p, "off_autos")
       \/ /\ ~calm                          \* a stop fails or times out
          /\ timer' \in {timer, FALSE}
          /\ health' \in {health, FALSE}
          /\ RollBack(p, "unit")
    /\ KeepVm
    /\ UNCHANGED <<marker, armed, mounted, busy, settled, calm>>

OffStopAutomounts(p) ==
    /\ pc[p] = "off_autos"
    /\ \/ /\ armed' = {}
          /\ GotoWith(p, "off_unmount", [loc[p] EXCEPT !.idx = 1])
       \/ /\ ~calm
          /\ armed' \in SUBSET armed
          /\ RollBack(p, "unit")
    /\ KeepVm
    /\ UNCHANGED <<marker, mounted, busy, timer, health, settled, calm>>

\* A plain unmount: it takes a share nobody uses and refuses a busy one.
StopMount(s) ==
    \/ mounted' = mounted \ ({s} \ InUse)
    \/ ~calm /\ mounted' = mounted

\* The unmount loop checks the unit and the mount point after every stop.
StillMountedUnchecked(s) == FALSE
StillMounted(s) == s \in mounted'

OffUnmount(p) ==
    /\ pc[p] = "off_unmount"
    /\ LET s == loc[p].idx IN
         /\ StopMount(s)
         /\ \/ StillMounted(s) /\ RollBack(p, "busy")
            \/ /\ ~StillMounted(s)
               /\ GotoWith(p, IF s = NShares THEN "off_inspect" ELSE "off_unmount",
                           [loc[p] EXCEPT !.idx = s + 1])
    /\ KeepVm
    /\ UNCHANGED <<marker, armed, busy, timer, health, settled, calm>>

OffInspect(p) ==
    /\ pc[p] = "off_inspect"
    /\ \E state \in ContainerState :
          \/ state \in {"absent", "stopped"} /\ Goto(p, "off_confirm")
          \/ state = "error" /\ Exit(p, "container")      \* no rollback
          \/ state = "running" /\ Goto(p, "off_stop")
    /\ KeepUnits /\ KeepVm
    /\ UNCHANGED <<marker, settled, calm>>

\* docker stop: done, or failed with the VM stopped, gone or still running.
OffStop(p) ==
    /\ pc[p] = "off_stop"
    /\ \/ /\ vm' = IF vm = "running" THEN "stopped" ELSE vm
          /\ Goto(p, "off_confirm")
       \/ /\ vm' \in IF calm THEN {vm} \ {"running"} ELSE {vm, "stopped", "absent"}
          /\ Goto(p, "off_reinspect")
    /\ smb' = (smb /\ vm' = "running")
    /\ cause' = IF vm' = vm THEN cause ELSE "helper"
    /\ KeepUnits
    /\ UNCHANGED <<marker, settled, calm>>

OffReinspect(p) ==
    /\ pc[p] = "off_reinspect"
    /\ \E state \in ContainerState :
          \/ state \in {"absent", "stopped"} /\ Goto(p, "off_confirm")
          \/ state = "running" /\ RollBack(p, "container")
          \/ state = "error" /\ Exit(p, "state")   \* marker and mounts stay disarmed
    /\ KeepUnits /\ KeepVm
    /\ UNCHANGED <<marker, settled, calm>>

OffConfirm(p) ==
    /\ pc[p] = "off_confirm"
    /\ \/ /\ mounted = {} /\ armed = {} /\ ~timer
          /\ vm \in {"absent", "stopped"}
          /\ Exit(p, "ok")
          /\ settled' = "off"
       \/ /\ \/ mounted # {} \/ armed # {} \/ timer
             \/ \E state \in ContainerState : state \in {"running", "error"}
          /\ Exit(p, "state")
          /\ settled' = settled
    /\ KeepUnits /\ KeepVm
    /\ UNCHANGED <<marker, calm>>

\* Only a marker this very call created is withdrawn again.
RollsBackAlways(p) == TRUE
RollsBack(p) == ~loc[p].pre

RbMarker(p) ==
    /\ pc[p] = "rb_marker"
    /\ \/ RollsBack(p) /\ marker' = FALSE /\ Goto(p, "rb_autos")
       \/ ~RollsBack(p) /\ marker' = marker /\ Exit(p, exit[p])
    /\ KeepUnits /\ KeepVm
    /\ UNCHANGED <<settled, calm>>

\* systemctl start of the automounts.  systemd refuses to arm a directory
\* that is a mount point already, and any start may fail.
StartAutomounts ==
    /\ armed' \in SUBSET Shares
    /\ armed \subseteq armed'
    /\ calm => (Shares \ mounted) \subseteq armed'

RbAutomounts(p) ==
    /\ pc[p] = "rb_autos"
    /\ StartAutomounts
    /\ Goto(p, "rb_timer")
    /\ KeepVm
    /\ UNCHANGED <<marker, mounted, busy, timer, health, settled, calm>>

RbTimer(p) ==
    /\ pc[p] = "rb_timer"
    /\ timer' \in {TRUE} \cup (IF calm THEN {} ELSE {timer})
    /\ Exit(p, exit[p])
    /\ KeepVm
    /\ UNCHANGED <<marker, armed, mounted, busy, health, settled, calm>>

-----------------------------------------------------------------------------
(* do_on                                                                   *)

OnInspect(p) ==
    /\ pc[p] = "on_inspect"
    /\ \E state \in ContainerState :
          \/ state \in {"absent", "error"} /\ Exit(p, "container")
          \/ state \in {"stopped", "running"} /\ Goto(p, "on_marker")
    /\ KeepUnits /\ KeepVm
    /\ UNCHANGED <<marker, settled, calm>>

OnRecord(p) ==
    /\ pc[p] = "on_marker"
    /\ marker' = TRUE
    /\ settled' = "none"
    /\ Goto(p, "on_health")
    /\ KeepUnits /\ KeepVm
    /\ UNCHANGED calm

\* The result of this stop is ignored.
OnStopHealth(p) ==
    /\ pc[p] = "on_health"
    /\ \/ timer' = FALSE /\ health' = FALSE
       \/ ~calm /\ timer' \in {timer, FALSE} /\ health' \in {health, FALSE}
    /\ Goto(p, "on_start")
    /\ KeepVm
    /\ UNCHANGED <<marker, armed, mounted, busy, settled, calm>>

\* A VM that is not seen running is started; docker start may fail.
OnStart(p) ==
    /\ pc[p] = "on_start"
    /\ \/ /\ vm # "absent"
          /\ vm' = "running"
          /\ marker' = marker
          /\ GotoWith(p, "on_attempt", [loc[p] EXCEPT !.attempts = 0])
       \/ /\ vm = "absent" \/ ~calm     \* a timed-out start may still take
          /\ vm' \in {vm} \cup (IF vm = "absent" THEN {} ELSE {"running"})
          /\ RecordAndDie(p, "container")
    /\ smb' = (smb /\ vm = vm')
    /\ cause' = IF vm' = vm THEN cause ELSE "helper"
    /\ KeepUnits
    /\ UNCHANGED <<settled, calm>>

\* The head of the readiness loop: the deadline, then the container.
OnAttempt(p) ==
    /\ pc[p] = "on_attempt"
    /\ \/ /\ loc[p].attempts = MaxAttempts
          /\ Goto(p, "on_expired")
          /\ marker' = marker
       \/ /\ loc[p].attempts < MaxAttempts
          /\ \E state \in ContainerState :
                \/ /\ state = "running"
                   /\ GotoWith(p, "on_clear", [loc[p] EXCEPT !.attempts = @ + 1])
                   /\ marker' = marker
                \/ state # "running" /\ RecordAndDie(p, "container")
    /\ KeepUnits /\ KeepVm
    /\ UNCHANGED <<settled, calm>>

\* Drop the marker just long enough for the unit conditions to pass.
WithdrawNothing == marker' = marker
WithdrawMarker == marker' = FALSE

OnClear(p) ==
    /\ pc[p] = "on_clear"
    /\ WithdrawMarker
    /\ Goto(p, "on_arm")
    /\ KeepUnits /\ KeepVm
    /\ UNCHANGED <<settled, calm>>

AllArmed == armed' = Shares

OnArm(p) ==
    /\ pc[p] = "on_arm"
    /\ StartAutomounts
    /\ \/ AllArmed /\ GotoWith(p, "on_access", [loc[p] EXCEPT !.idx = 1, !.ok = TRUE])
       \/ (~AllArmed \/ ~calm) /\ Goto(p, "on_rearm")
    /\ KeepVm
    /\ UNCHANGED <<marker, mounted, busy, timer, health, settled, calm>>

\* An access to an armed share mounts it when the unit condition and the
\* guest allow it.
AutomountTriggers(s) == s \in armed /\ ~marker /\ Live

\* `ls -A` of one share: a real round trip that triggers the automount.
OnAccess(p) ==
    /\ pc[p] = "on_access"
    /\ LET s == loc[p].idx IN
         /\ mounted' = IF AutomountTriggers(s) THEN mounted \cup {s} ELSE mounted
         /\ \E answered \in BOOLEAN :
               /\ answered => s \in mounted' /\ Live
               /\ calm => (answered <=> s \in mounted' /\ Live)
               /\ GotoWith(p, IF s = NShares THEN "on_verify" ELSE "on_access",
                           [loc[p] EXCEPT !.idx = s + 1, !.ok = @ /\ answered])
    /\ KeepVm
    /\ UNCHANGED <<marker, armed, busy, timer, health, settled, calm>>

\* Every access succeeded and every mount unit is active.
VerifiedByAnyMount(p) == mounted # {}
Verified(p) == loc[p].ok /\ mounted = Shares

OnVerify(p) ==
    /\ pc[p] = "on_verify"
    /\ \/ Verified(p) /\ Goto(p, "on_timer")
       \/ (~Verified(p) \/ ~calm) /\ Goto(p, "on_rearm")
    /\ KeepUnits /\ KeepVm
    /\ UNCHANGED <<marker, settled, calm>>

\* Not ready: the marker again, then the partial attempt is torn down.
RecordNothing == marker' = marker
RecordAgain == marker' = TRUE

OnRearm(p) ==
    /\ pc[p] = "on_rearm"
    /\ RecordAgain
    /\ Goto(p, "on_teardown")
    /\ KeepUnits /\ KeepVm
    /\ UNCHANGED <<settled, calm>>

\* systemctl stop of every mount and automount, result ignored.
StopMountsAndAutomounts ==
    \/ mounted' = mounted \cap InUse /\ armed' = {}
    \/ /\ ~calm
       /\ mounted' \in SUBSET mounted
       /\ (mounted \cap InUse) \subseteq mounted'
       /\ armed' \in SUBSET armed

KeepClock(p) == loc[p]

OnTeardown(p) ==
    /\ pc[p] = "on_teardown"
    /\ StopMountsAndAutomounts
    /\ GotoWith(p, "on_attempt", KeepClock(p))
    /\ KeepVm
    /\ UNCHANGED <<marker, busy, timer, health, settled, calm>>

OnExpired(p) ==
    /\ pc[p] = "on_expired"
    /\ marker' = TRUE
    /\ Goto(p, "on_giveup")
    /\ KeepUnits /\ KeepVm
    /\ UNCHANGED <<settled, calm>>

OnGiveUp(p) ==
    /\ pc[p] = "on_giveup"
    /\ StopMountsAndAutomounts
    /\ Exit(p, "readiness")
    /\ KeepVm
    /\ UNCHANGED <<marker, busy, timer, health, settled, calm>>

OnStartTimer(p) ==
    /\ pc[p] = "on_timer"
    /\ \/ timer' = TRUE /\ Goto(p, "on_confirm")
       \/ ~calm /\ timer' = timer /\ Exit(p, "unit")
    /\ KeepVm
    /\ UNCHANGED <<marker, armed, mounted, busy, health, settled, calm>>

OnConfirm(p) ==
    /\ pc[p] = "on_confirm"
    /\ \/ mounted = Shares /\ timer /\ ~marker /\ Exit(p, "ok") /\ settled' = "on"
       \/ /\ mounted # Shares \/ ~timer \/ marker \/ ~calm
          /\ Exit(p, "state")
          /\ settled' = settled
    /\ KeepUnits /\ KeepVm
    /\ UNCHANGED <<marker, calm>>

\* The commands that do nothing but change the marker.
ChangesMarker(p) ==
    \/ pc[p] \in {"off_marker", "on_marker", "on_clear", "on_rearm", "on_expired"}
    \/ pc[p] = "rb_marker" /\ RollsBack(p)

MarkerFails(p) ==
    /\ ChangesMarker(p)
    /\ Aborts(p)
    /\ KeepUnits /\ KeepVm
    /\ UNCHANGED <<settled, calm>>

-----------------------------------------------------------------------------
(* The rest of the host: users, the health timer, the guest, the daemon.   *)

UserAccess(s) ==
    /\ AutomountTriggers(s)
    /\ mounted' = mounted \cup {s}
    /\ UNCHANGED <<marker, armed, busy, timer, health, vm, smb, cause, proc, settled, calm>>

UserOpens(s) ==
    /\ s \in mounted
    /\ busy' = busy \cup {s}
    /\ UNCHANGED <<marker, armed, mounted, timer, health, vm, smb, cause, proc, settled, calm>>

UserCloses(s) ==
    /\ s \in busy
    /\ busy' = busy \ {s}
    /\ UNCHANGED <<marker, armed, mounted, timer, health, vm, smb, cause, proc, settled, calm>>

\* The timer elapses.  The service has the same condition as the mounts,
\* and its canary write goes through the automount.
HealthTick ==
    /\ timer
    /\ ~health
    /\ ~marker
    /\ health' = TRUE
    /\ mounted' = IF AutomountTriggers(CanaryShare) THEN mounted \cup {CanaryShare} ELSE mounted
    /\ UNCHANGED <<marker, armed, busy, timer, vm, smb, cause, proc, settled, calm>>

HealthDone ==
    /\ health
    /\ health' = FALSE
    /\ UNCHANGED <<marker, armed, mounted, busy, timer, vm, smb, cause, proc, settled, calm>>

\* Windows finishes booting, or its SMB server goes away.
GuestAnswers ==
    /\ vm = "running"
    /\ smb' \in BOOLEAN
    /\ calm => smb'
    /\ UNCHANGED <<marker, armed, mounted, busy, timer, health, vm, cause, proc, settled, calm>>

\* The VM is stopped, started, created or removed by hand, or dies.
ByHand ==
    /\ ~calm
    /\ vm' \in {"absent", "stopped", "running"} \ {vm}
    /\ smb' = FALSE
    /\ cause' = "world"
    /\ UNCHANGED <<marker, armed, mounted, busy, timer, health, proc, settled, calm>>

\* The helper is killed between two of its commands.
Kill(p) ==
    /\ ~calm
    /\ pc[p] \in CritPcs
    /\ Exit(p, "killed")
    /\ UNCHANGED <<host, settled, calm>>

\* ConditionPathExists=!MARKER of the two enabled automounts.
BootUnconditioned == Shares
BootArms == IF marker THEN {} ELSE Shares

\* The host goes down.  The marker is on disk, the container restarts when
\* it was running, and the enabled units start if their condition holds.
Reboot ==
    /\ ~calm
    /\ armed' = BootArms
    /\ mounted' = {}
    /\ busy' = {}
    /\ timer' = ~marker
    /\ health' = FALSE
    /\ smb' = FALSE
    /\ lock' = NoProc
    /\ pc' = [p \in Procs |-> "idle"]
    /\ loc' = [p \in Procs |-> Fresh]
    /\ exit' = [p \in Procs |-> IF pc[p] = "idle" THEN exit[p] ELSE "killed"]
    /\ UNCHANGED <<marker, vm, cause, settled, calm>>

CalmDown ==
    /\ ~calm
    /\ calm' = TRUE
    /\ UNCHANGED <<host, proc, settled>>

-----------------------------------------------------------------------------

OffStep(p) ==
    \/ OffRecord(p)
    \/ OffStopHealth(p)
    \/ OffStopAutomounts(p)
    \/ OffUnmount(p)
    \/ OffInspect(p)
    \/ OffStop(p)
    \/ OffReinspect(p)
    \/ OffConfirm(p)

RollbackStep(p) ==
    \/ RbMarker(p)
    \/ RbAutomounts(p)
    \/ RbTimer(p)

OnStep(p) ==
    \/ OnInspect(p)
    \/ OnRecord(p)
    \/ OnStopHealth(p)
    \/ OnStart(p)
    \/ OnAttempt(p)
    \/ OnClear(p)
    \/ OnArm(p)
    \/ OnAccess(p)
    \/ OnVerify(p)
    \/ OnRearm(p)
    \/ OnTeardown(p)
    \/ OnExpired(p)
    \/ OnGiveUp(p)
    \/ OnStartTimer(p)
    \/ OnConfirm(p)

HelperStep(p) == OffStep(p) \/ RollbackStep(p) \/ OnStep(p)

Environment ==
    \/ \E s \in Shares : UserAccess(s) \/ UserOpens(s) \/ UserCloses(s)
    \/ HealthTick
    \/ HealthDone
    \/ GuestAnswers
    \/ ByHand
    \/ Reboot
    \/ CalmDown

Next ==
    \/ \E p \in Procs :
          \/ Request(p, "off")
          \/ Request(p, "on")
          \/ Acquire(p)
          \/ LockTimeout(p)
          \/ HelperStep(p)
          \/ MarkerFails(p)
          \/ Kill(p)
    \/ Environment

Spec == Init /\ [][Next]_vars

\* A started helper keeps running, and flock hands the lock on or times out.
\* Nobody promises that a user asks for anything, or that Windows boots.
Fairness == \A p \in Procs : WF_vars(HelperStep(p)) /\ WF_vars(Acquire(p) \/ LockTimeout(p))

FairSpec == Spec /\ Fairness
-----------------------------------------------------------------------------
(* Properties                                                              *)

\* The values the variables take.
TypeOK ==
    /\ marker \in BOOLEAN
    /\ armed \in SUBSET Shares
    /\ mounted \in SUBSET Shares
    /\ busy \in SUBSET mounted
    /\ timer \in BOOLEAN
    /\ health \in BOOLEAN
    /\ vm \in {"absent", "stopped", "running"}
    /\ smb \in BOOLEAN
    /\ cause \in {"helper", "world"}
    /\ lock \in Procs \cup {NoProc}
    /\ pc \in [Procs -> {"idle"} \cup WaitPcs \cup CritPcs]
    /\ loc \in [Procs -> Locals]
    /\ exit \in [Procs -> ExitCodes]
    /\ settled \in {"none", "on", "off"}
    /\ calm \in BOOLEAN

\* D29, "never a lazy or forced unmount": whenever `off` is about to call
\* docker stop, the desired-off marker is recorded, no share is mounted or
\* armed, and no health run is using one.  It holds whatever users, the timer,
\* a reboot or an overlapping invocation do between the unmount and the stop.
GracefulStop ==
    \A p \in Procs : pc[p] = "off_stop" =>
        marker /\ mounted = {} /\ armed = {} /\ ~timer /\ ~health

\* Once `off` has answered success, nothing but a later transition re-arms the
\* bridge: no access, timer tick, reboot or hand-started VM mounts a share.
OffStaysOff ==
    settled = "off" =>
        marker /\ armed = {} /\ mounted = {} /\ busy = {} /\ ~timer /\ ~health

\* Once `on` has answered success, the bridge stays armed, across reboots too,
\* until a later transition touches it.
OnStaysOn == settled = "on" => ~marker /\ armed = Shares /\ timer

\* The types, and what a call has answered stays true until a later call.
Durable == TypeOK /\ OffStaysOff /\ OnStaysOn

\* The health timer is started by `on` only over mounts it has verified, with
\* the marker gone ("Health checks were not armed against an unverified mount").
TimerOverLiveMounts ==
    \A p \in Procs : pc[p] \in {"on_timer", "on_confirm"} =>
        mounted = Shares /\ armed = Shares /\ ~marker

\* The marker as an `off` found it.
Found(p) == IF pc[p] = "off_marker" THEN marker ELSE loc[p].pre

\* However `off` ends short of being killed, it leaves no half-way state it
\* does not own up to: the marker is as the call found it, or everything is
\* disarmed, or its rollback could not remove the marker, which then stays and
\* keeps the next boot disarmed.  A refusal (busy share, failed unit) is always
\* the first, so a bridge that was already off is never switched on by a
\* failing `off`.
OffEnds(p) ==
    (pc[p] \in OffPcs \cup RollbackPcs /\ pc'[p] = "idle" /\ exit'[p] # "killed") =>
        \/ marker' = Found(p)
        \/ /\ exit'[p] \notin {"busy", "unit"}
           /\ marker' /\ armed' = {} /\ mounted' = {} /\ ~timer'
        \/ pc[p] = "rb_marker" /\ exit'[p] = "aborted" /\ marker'

OffEndsWhole == [][\A p \in Procs : OffEnds(p)]_vars

\* However `on` ends short of being killed, shares stay armed only if it has
\* verified them: the marker is absent only over live mounts (exit ok, unit or
\* state), or when `on` refused before touching anything.  There is one
\* exception: create_marker fails at line 383, after a failed attempt for which
\* the marker had been removed, and `set -e` ends the script half-way.
OnEnds(p) ==
    (pc[p] \in OnPcs /\ pc'[p] = "idle" /\ exit'[p] # "killed") =>
        \/ marker'
        \/ mounted' = Shares
        \/ pc[p] \in {"on_inspect", "on_marker"} /\ UNCHANGED host
        \/ pc[p] = "on_rearm" /\ exit'[p] = "aborted"

OnEndsSafe == [][\A p \in Procs : OnEnds(p)]_vars

\* "If the process is killed mid-transition the marker deliberately remains",
\* icloud-bridge-power lines 25-27: true of a kill, and of a host that goes
\* down, outside the window in which `on` drops the marker to try the mounts,
\* and outside the rollback; there the next boot arms nothing.
MarkerOutsideWindow ==
    \A p \in Procs :
        pc[p] \in (OffPcs \cup OnPcs) \ {"off_marker", "on_inspect", "on_marker", "on_arm",
                   "on_access", "on_verify", "on_rearm", "on_timer", "on_confirm"} => marker

\* Nothing an interruption leaves behind mounts a share that nobody verified.
SafeWhenInterrupted == TimerOverLiveMounts /\ MarkerOutsideWindow

\* "Repeated on/off reconcile toward the same state": an `off` that starts from
\* any partial state, and from then on meets no failure, ends, and ends with
\* the bridge off unless a share is in use.
OffReconciles ==
    \A p \in Procs : (calm /\ pc[p] = "off_marker") ~>
        (pc[p] = "idle" /\ (exit[p] = "busy" \/ (exit[p] = "ok" /\ settled = "off")))

\* An `on` that starts with the guest answering SMB, and no share mounted
\* behind an inactive automount, ends with the bridge on once nothing fails.
OnReconciles ==
    \A p \in Procs :
        (calm /\ pc[p] = "on_marker" /\ Live /\ mounted \subseteq armed /\ MaxAttempts > 0) ~>
            (pc[p] = "idle" /\ exit[p] = "ok" /\ settled = "on")

\* No invocation runs forever: every loop and every wait of the script ends.
EveryCallEnds == \A p \in Procs : (pc[p] # "idle") ~> (pc[p] = "idle")

\* Every call ends, and one that meets no further failure ends as asked,
\* whatever partial state it starts from.
Reconciles == EveryCallEnds /\ OffReconciles /\ OnReconciles

\* The helper implements the switch: what it records, mounts, stops and answers
\* is what BridgeSwitch allows, whatever is killed, fails or overlaps.
Switch == INSTANCE BridgeSwitch
              WITH Shares <- Shares, marker <- marker, mounted <- mounted,
                   vm <- vm, cause <- cause, settled <- settled
ImplementsSwitch == Switch!Spec

\* What the bridge is without the VM, which others start and stop as well.
HostState ==
    CASE marker /\ armed = {} /\ mounted = {} /\ ~timer -> "off"
      [] ~marker /\ armed = Shares /\ timer -> "on"
      [] OTHER -> "partial"

\* An `off` that may still roll back to on.
Revocable(p) == pc[p] \in (OffPcs \cup RollbackPcs) \ {"off_marker"} /\ ~loc[p].pre

Verb(p) == IF pc[p] \in OnPcs \cup {"on_wait"} THEN "on" ELSE "off"

Answer(p) ==
    CASE pc[p] # "idle" \/ exit[p] = "none" -> "none"
      [] pc[p] = "idle" /\ exit[p] = "ok" -> "ok"
      [] pc[p] = "idle" /\ exit[p] = "lock" -> "unserved"
      [] OTHER -> "broken"

\* What the callers see: the bridge, the processes and their answers.
Bridge == IF \E p \in Procs : Revocable(p) THEN "partial" ELSE HostState

Process(p) ==
    [stage |-> IF pc[p] = "idle" THEN "none" ELSE IF pc[p] \in WaitPcs THEN "waiting" ELSE "working",
     want |-> IF pc[p] = "idle" THEN "none" ELSE Verb(p)]

Processes == [p \in Procs |-> Process(p)]
GivenAnswers == [p \in Procs |-> Answer(p)]

Calls == INSTANCE HelperCalls
             WITH Callers <- Procs, bridge <- Bridge, calls <- Processes, answers <- GivenAnswers

\* The helper is what its callers take it for: one process at a time works, "ok"
\* is the state asked for, an `off` that fails leaves an off bridge off, and
\* nothing but a helper or a restart of the host changes what is off, or on.
ServesCalls == Calls!Spec

=============================================================================
