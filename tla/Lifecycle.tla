----------------------------- MODULE Lifecycle -----------------------------
(***************************************************************************)
(* gui/icloud_bridge_gui/lifecycle.py: the pure reducer of the GUI.  A     *)
(* model and an event give the next model and the effects the controller   *)
(* has to carry out.  The reducer keeps a token that every valid           *)
(* transition increments; here a reaction says whether it is valid, and    *)
(* the controller invalidates every outstanding token when it is.          *)
(*                                                                         *)
(* Effects that only paint (banners, tray, tabs, notifications) are left   *)
(* out.  The effects of one reaction that are kept touch different parts   *)
(* of the controller, except BEGIN_DRAIN, which is always the last one, so *)
(* a reaction carries them as a set.                                       *)
(***************************************************************************)

Phases == {"starting", "running", "start_failed", "powered_off",
           "shutting_down", "setup", "provisioning", "transition_unknown"}

NoCifsPhases == Phases \ {"running"}

Events == {"STARTUP_POWER_ON", "STARTUP_ALREADY_ON", "STARTUP_PROVISION_NEEDED",
           "STARTUP_INSPECT_FAILED", "STARTUP_RESUME_PROVISIONING",
           "USER_START_BRIDGE", "USER_RETRY_START", "POWER_ON_SUCCEEDED",
           "POWER_ON_FAILED", "USER_POWER_OFF_CONFIRMED",
           "QUIT_CONFIRMED_POWER_OFF", "QUIT_CONFIRMED_GUI_ONLY",
           "DRAIN_COMPLETED", "DRAIN_TIMED_OUT", "POWER_OFF_SUCCEEDED",
           "POWER_OFF_FAILED", "POWER_TRANSITION_UNKNOWN",
           "USER_RETRY_TRANSITION", "VM_CREATED", "CONNECT_READY",
           "PROVISION_BEGIN_FIRST_RUN", "PROVISION_BEGIN_REPROVISION",
           "PROVISION_SUCCEEDED", "PROVISION_FAILED", "PROVISION_CONNECT_FAILED"}

Effects == {"STOP_POLLING", "START_POLLING", "FORCE_REFRESH", "QUIESCE_IO",
            "PAUSE_IO", "RESUME_IO", "RELOAD_SELECTIVE_SYNC",
            "MARK_CONTAINER_UNKNOWN", "MARK_CONTAINER_RUNNING",
            "MARK_CONTAINER_STOPPED", "RUN_SETUP_CHECKS", "RUN_POWER_ON",
            "RUN_POWER_OFF", "BEGIN_DRAIN", "STOP_DRAIN", "INVALIDATE_CACHES",
            "EXIT_APP"}

\* Effects that touch CIFS or schedule something that will.
CifsEffects == {"START_POLLING", "FORCE_REFRESH", "RESUME_IO", "RELOAD_SELECTIVE_SYNC"}

Model == [phase: Phases, exitAfterPowerOff: BOOLEAN,
          desiredAction: {"on", "off"}, mode: {"first-run", "reprovision"}]

FirstModel == [phase |-> "starting", exitAfterPowerOff |-> TRUE,
               desiredAction |-> "on", mode |-> "first-run"]

-----------------------------------------------------------------------------
(* What entering a phase makes the controller do.                          *)

BeginStartup == {"STOP_POLLING", "QUIESCE_IO", "RUN_POWER_ON"}

EnterMonitoring == {"RESUME_IO", "RELOAD_SELECTIVE_SYNC", "START_POLLING", "FORCE_REFRESH"}

EnterRunning == EnterMonitoring \union {"MARK_CONTAINER_RUNNING"}

EnterStartFailed == {"STOP_POLLING", "PAUSE_IO"}

EnterSetup == {"STOP_POLLING", "QUIESCE_IO", "RUN_SETUP_CHECKS"}

EnterProvisioning == {"MARK_CONTAINER_RUNNING", "STOP_POLLING", "QUIESCE_IO"}

\* Mutant: the timers go on during a re-provisioning.
BeginReprovisioningPolling == {"MARK_CONTAINER_RUNNING", "QUIESCE_IO", "INVALIDATE_CACHES"}

BeginReprovisioning == EnterProvisioning \union {"INVALIDATE_CACHES"}

ReprovisionSucceeded == EnterMonitoring \union {"INVALIDATE_CACHES"}

BeginPowerOff == {"STOP_POLLING", "QUIESCE_IO", "BEGIN_DRAIN"}

EnterPoweredOff == {"MARK_CONTAINER_STOPPED", "STOP_POLLING"}

\* Mutant: an aborted shutdown forgets the fresh look.
AbortUnrefreshed == {"RESUME_IO", "START_POLLING"}

AbortShutdown == {"RESUME_IO", "START_POLLING", "FORCE_REFRESH"}

EnterTransitionUnknown == {"STOP_POLLING", "STOP_DRAIN", "QUIESCE_IO",
                           "INVALIDATE_CACHES", "MARK_CONTAINER_UNKNOWN"}

-----------------------------------------------------------------------------
(* The transition table, one operator per phase as in the source.          *)

Invalid(m) == [model |-> m, effects |-> {}, valid |-> FALSE]

Go(m, phase, effects) ==
    [model |-> [m EXCEPT !.phase = phase], effects |-> effects, valid |-> TRUE]

GoOff(m, exit) == Go([m EXCEPT !.exitAfterPowerOff = exit], "shutting_down", BeginPowerOff)

GoUnknown(m, action) ==
    Go([m EXCEPT !.desiredAction = action], "transition_unknown", EnterTransitionUnknown)

GoProvision(m, mode, effects) == Go([m EXCEPT !.mode = mode], "provisioning", effects)

GoFirstRun(m) == GoProvision(m, "first-run", EnterProvisioning)

Exit(m) == Go(m, m.phase, {"EXIT_APP"})

Starting(m, e) ==
    CASE e = "STARTUP_POWER_ON" -> Go(m, "starting", BeginStartup)
      [] e = "STARTUP_ALREADY_ON" -> Go(m, "running", EnterMonitoring)
      [] e \in {"STARTUP_PROVISION_NEEDED", "STARTUP_INSPECT_FAILED"} ->
           Go(m, "setup", EnterSetup)
      [] e \in {"STARTUP_RESUME_PROVISIONING", "PROVISION_CONNECT_FAILED"} ->
           Go(m, "provisioning", EnterProvisioning)
      [] e = "POWER_ON_SUCCEEDED" -> Go(m, "running", EnterRunning)
      [] e = "POWER_ON_FAILED" -> Go(m, "start_failed", EnterStartFailed)
      [] e = "POWER_TRANSITION_UNKNOWN" -> GoUnknown(m, "on")
      [] e = "QUIT_CONFIRMED_POWER_OFF" -> GoOff(m, TRUE)
      [] e = "QUIT_CONFIRMED_GUI_ONLY" -> Exit(m)
      [] OTHER -> Invalid(m)

Running(m, e) ==
    CASE e = "PROVISION_BEGIN_FIRST_RUN" -> GoFirstRun(m)
      [] e = "PROVISION_BEGIN_REPROVISION" -> GoProvision(m, "reprovision", BeginReprovisioning)
      [] e = "USER_POWER_OFF_CONFIRMED" -> GoOff(m, FALSE)
      [] e = "QUIT_CONFIRMED_POWER_OFF" -> GoOff(m, TRUE)
      [] e = "QUIT_CONFIRMED_GUI_ONLY" -> Exit(m)
      [] e = "USER_START_BRIDGE" -> Go(m, "starting", BeginStartup)
      [] OTHER -> Invalid(m)

StartFailed(m, e) ==
    CASE e = "PROVISION_BEGIN_FIRST_RUN" -> GoFirstRun(m)
      [] e \in {"USER_RETRY_START", "USER_START_BRIDGE"} -> Go(m, "starting", BeginStartup)
      [] e = "QUIT_CONFIRMED_POWER_OFF" -> GoOff(m, TRUE)
      [] e = "QUIT_CONFIRMED_GUI_ONLY" -> Exit(m)
      [] OTHER -> Invalid(m)

PoweredOff(m, e) ==
    CASE e = "USER_START_BRIDGE" -> Go(m, "starting", BeginStartup)
      [] e = "QUIT_CONFIRMED_GUI_ONLY" -> Exit(m)
      [] OTHER -> Invalid(m)

ShuttingDown(m, e) ==
    CASE e = "DRAIN_COMPLETED" -> Go(m, "shutting_down", {"STOP_DRAIN", "RUN_POWER_OFF"})
      [] e = "DRAIN_TIMED_OUT" -> Go(m, "running", {"STOP_DRAIN"} \union AbortShutdown)
      [] e = "POWER_OFF_SUCCEEDED" ->
           Go(m, "powered_off", IF m.exitAfterPowerOff THEN {"EXIT_APP"} ELSE EnterPoweredOff)
      [] e = "POWER_OFF_FAILED" -> Go(m, "running", AbortShutdown)
      [] e = "POWER_TRANSITION_UNKNOWN" -> GoUnknown(m, "off")
      [] OTHER -> Invalid(m)

Setup(m, e) ==
    CASE e \in {"VM_CREATED", "PROVISION_BEGIN_FIRST_RUN"} -> GoFirstRun(m)
      [] e = "CONNECT_READY" -> Go(m, "starting", BeginStartup)
      [] e = "QUIT_CONFIRMED_GUI_ONLY" -> Exit(m)
      [] OTHER -> Invalid(m)

Provisioning(m, e) ==
    CASE e = "PROVISION_BEGIN_FIRST_RUN" -> GoFirstRun(m)
      [] e = "PROVISION_BEGIN_REPROVISION" -> GoProvision(m, "reprovision", EnterProvisioning)
      [] e = "PROVISION_FAILED" -> Go(m, "provisioning", {})
      [] e = "PROVISION_SUCCEEDED" ->
           IF m.mode = "reprovision" THEN Go(m, "running", ReprovisionSucceeded)
                                     ELSE Go(m, "provisioning", {})
      [] e = "CONNECT_READY" -> Go(m, "starting", BeginStartup)
      [] e = "QUIT_CONFIRMED_GUI_ONLY" -> Exit(m)
      [] OTHER -> Invalid(m)

TransitionUnknown(m, e) ==
    CASE e = "USER_RETRY_TRANSITION" ->
           IF m.desiredAction = "off" THEN Go(m, "shutting_down", BeginPowerOff)
                                      ELSE Go(m, "starting", BeginStartup)
      [] e = "QUIT_CONFIRMED_GUI_ONLY" -> Exit(m)
      [] OTHER -> Invalid(m)

Reduce(m, e) ==
    CASE m.phase = "starting" -> Starting(m, e)
      [] m.phase = "running" -> Running(m, e)
      [] m.phase = "start_failed" -> StartFailed(m, e)
      [] m.phase = "powered_off" -> PoweredOff(m, e)
      [] m.phase = "shutting_down" -> ShuttingDown(m, e)
      [] m.phase = "setup" -> Setup(m, e)
      [] m.phase = "provisioning" -> Provisioning(m, e)
      [] m.phase = "transition_unknown" -> TransitionUnknown(m, e)

-----------------------------------------------------------------------------
(* What the operator is offered (power.available_action) and asked         *)
(* (lifecycle.quit_kind).                                                  *)

AvailableAction(phase, container) ==
    CASE phase = "powered_off" -> "start"
      [] phase = "start_failed" -> "retry"
      [] phase = "transition_unknown" -> "retry_transition"
      [] phase \in {"setup", "provisioning"} /\ container = "absent" -> "setup"
      [] phase = "running" /\ container = "running" -> "power_off"
      [] phase = "running" /\ container = "stopped" -> "start"
      [] OTHER -> "none"

QuitKind(phase) ==
    CASE phase = "shutting_down" -> "ignore"
      [] phase \in {"powered_off", "transition_unknown", "setup", "provisioning"} -> "simple"
      [] OTHER -> "three_way"

=============================================================================
