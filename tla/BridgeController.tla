-------------------------- MODULE BridgeController --------------------------
(***************************************************************************)
(* gui/icloud_bridge_gui/__main__.py: the controller around the lifecycle  *)
(* reducer.  One GUI thread runs handlers to completion; worker threads    *)
(* run tasks whose completions come back as handlers, in any order; a      *)
(* confirmation runs a nested event loop, so handlers run while it is      *)
(* open; and behind a power task there is a root process that outlives the *)
(* task when the 600-second limit kills the unprivileged sudo.             *)
(*                                                                         *)
(* Every handler is one action: it runs its own code, the reduction of the *)
(* event it dispatches and the effects of that reduction.                  *)
(*                                                                         *)
(* The reducer's token is only ever compared with the current one, so      *)
(* instead of a number a piece of work remembers whether its token is      *)
(* still current: a valid reduction makes every outstanding token stale.   *)
(***************************************************************************)
EXTENDS Integers, Sequences, FiniteSets, Lifecycle, HelperResults

CONSTANTS
    Requests,       \* which of the operator's requests this instance explores
    DrainTicks,     \* SHUTDOWN_DRAIN_TIMEOUT_MS \div DRAIN_POLL_MS
    TrayWhileAsking,\* whether the tray's menu answers while a confirmation is open
    MaxTasks,       \* bound: tasks in flight before the operator asks for more
    MaxDialogs,     \* bound: confirmations open inside one another
    MaxCalls        \* bound: helper processes alive before the operator asks for more

ASSUME ControllerAssumption ==
    /\ Requests \subseteq {"power", "setup", "provision", "window", "restore"}
    /\ DrainTicks \in Nat /\ DrainTicks > 1
    /\ TrayWhileAsking \in BOOLEAN
    /\ MaxTasks \in Nat /\ MaxDialogs \in Nat /\ MaxCalls \in Nat \ {0}

\* Work that reports with the token it captured.  "connect" captures none; its
\* entry only records whether anything else has happened since it began.
TokenKinds == {"inspect", "prepare", "poll", "connect"}

\* Tasks that touch the mounts, and those a timer or a button starts without
\* asking for a confirmation first.
ScheduledCifs == {"gather", "cycle", "read"}
CifsKinds == ScheduledCifs \union {"write"}

\* Docker and local files only.
LocalKinds == {"inspect", "check", "connect", "create", "classify", "restore",
               "prepare", "poll", "cleanup"}

Kinds == LocalKinds \union CifsKinds

Questions == {"off", "quit3", "quit1", "provision", "recover", "reprovision",
              "newRun", "create", "apply", "restore"}

\* The questions the window asks: one of them is open at a time, because it
\* blocks the window it came from.
TrayQuestions == {"off", "quit3", "quit1", "recover", "reprovision"}

AnswerCodes == {"none", "ok", "broken", "unserved"}

VARIABLES
    up,             \* the process is running
    model,          \* _model, without its token
    tasks,          \* the tasks in flight, counted by kind (_active counts them)
    live,           \* of these, how many hold the current token
    calls,          \* the power helper's processes
    bridge,         \* marker, automounts, mounts and timer together
    overtaken,      \* history: an `on` that the app no longer owns has got the lock
                    \* in this session, and no helper of the app's has since
    polling,        \* _timer and _workspace_timer run
    ioPaused,       \* the window's gate on new bridge I/O
    forcePending,   \* a forced refresh waits for the gather in flight
    drain,          \* _drain_ticks_left while the drain timer runs, else 0
    container,      \* _container_state, the last classification
    applyWriting,   \* the window believes a write of the selection is in flight
    dialogs,        \* the confirmations that are open, the innermost last
    run,            \* _prov_run_id and _prov_timer: "none", "held" or "watching"
    probing,        \* _prov_probe_timer
    verifying,      \* _prov_verify_pending
    gatherFrom,     \* when the gather in flight began: in this monitoring spell or before
    seen            \* a gather of this monitoring spell has reached the window

vars == <<up, model, tasks, live, calls, bridge, overtaken, polling, ioPaused,
          forcePending, drain, container, applyWriting, dialogs, run, probing, verifying,
          gatherFrom, seen>>

\* What Perform settles; every handler says what happens to the rest.
performed == <<up, model, tasks, live, calls, polling, ioPaused, forcePending,
               drain, gatherFrom, seen>>
provisioning == <<run, probing, verifying>>

\* One process of the helper; `before` is the bridge it found when it got the lock.
Call == [id: Nat, want: {"on", "off"},
         stage: {"waiting", "working", "answered"}, answer: AnswerCodes,
         live: BOOLEAN, owned: BOOLEAN, before: {"on", "off", "partial"}]

-----------------------------------------------------------------------------
(* Work in flight.                                                         *)

NoTasks == [k \in Kinds |-> 0]
NoneLive == [k \in TokenKinds |-> 0]

InFlight == [tasks |-> tasks, live |-> live, calls |-> calls]

\* The work left once a task of kind k has landed.
Landed(k) == [InFlight EXCEPT !.tasks[k] = @ - 1]

LandedLive(k) == [Landed(k) EXCEPT !.live[k] = @ - 1]

HasStale(k) == tasks[k] > live[k]

SetupBusy(t) == t["check"] + t["connect"] + t["create"] > 0

\* Mutant: the workspace cycles are not counted.
ActiveButCycles(w) ==
    (\E k \in Kinds \ {"cycle"} : w.tasks[k] > 0) \/ (\E c \in w.calls : c.owned)

\* _active, with the power tasks: their processes are owned by the controller.
Active(w) ==
    (\E k \in Kinds : w.tasks[k] > 0) \/ (\E c \in w.calls : c.owned)

TasksInFlight == Cardinality({k \in Kinds : tasks[k] > 0}) +
                 Cardinality({c \in calls : c.owned})

\* Room for one more request of the operator, which may start a helper.
Room == /\ TasksInFlight < MaxTasks
        /\ \A k \in Kinds : tasks[k] < 2
        /\ Cardinality(calls) < MaxCalls

FreeId(cs) == CHOOSE i \in 1 .. Cardinality(cs) + 1 : \A c \in cs : c.id # i

NewCall(cs, want) ==
    [id |-> FreeId(cs), want |-> want, stage |-> "waiting", answer |-> "none",
     live |-> TRUE, owned |-> TRUE, before |-> "partial"]

-----------------------------------------------------------------------------
(* Dispatching: reduce, then carry out the effects.                        *)

\* A second event dispatched by the same handler.
Then(r, e) ==
    LET n == Reduce(r.model, e)
    IN [model |-> n.model, effects |-> r.effects \union n.effects,
        valid |-> r.valid \/ n.valid]

\* BEGIN_DRAIN checks once at once, and reduces again if nothing is in flight.
React(e, w, writing) ==
    LET r == Reduce(model, e)
    IN IF "BEGIN_DRAIN" \in r.effects /\ ~Active(w) /\ ~writing
       THEN Then(r, "DRAIN_COMPLETED")
       ELSE r

ExpireToken(w) == [w EXCEPT !.live = NoneLive,
                            !.calls = {[c EXCEPT !.live = FALSE] : c \in @}]

\* The tasks the effects themselves begin.
BegunByEffects(E, w) ==
    {k \in {"check", "gather", "read"} :
        \/ k = "check" /\ "RUN_SETUP_CHECKS" \in E /\ ~SetupBusy(w.tasks)
        \/ k = "gather" /\ "FORCE_REFRESH" \in E /\ w.tasks["gather"] = 0
        \/ k = "read" /\ "RELOAD_SELECTIVE_SYNC" \in E}

CallsBegun(E, cs) ==
    CASE "RUN_POWER_ON" \in E -> {NewCall(cs, "on")}
      [] "RUN_POWER_OFF" \in E -> {NewCall(cs, "off")}
      [] OTHER -> {}

\* The process ends; what its helpers do, they go on doing.
ExitNow ==
    /\ up' = FALSE
    /\ tasks' = NoTasks
    /\ live' = NoneLive
    /\ calls' = {[c EXCEPT !.owned = FALSE, !.live = FALSE] :
                    c \in {d \in calls : d.stage # "answered"}}
    /\ polling' = FALSE
    /\ ioPaused' = TRUE
    /\ forcePending' = FALSE
    /\ drain' = 0
    /\ gatherFrom' = "before" /\ seen' = FALSE

Carry(E, w, begun) ==
    LET started == begun \union BegunByEffects(E, w)
        monitoring == "START_POLLING" \in E
    IN /\ up' = TRUE
       /\ tasks' = [k \in Kinds |-> w.tasks[k] + (IF k \in started THEN 1 ELSE 0)]
       /\ live' = [k \in TokenKinds |-> w.live[k] + (IF k \in started THEN 1 ELSE 0)]
       /\ calls' = w.calls \union CallsBegun(E, w.calls)
       /\ polling' = (monitoring \/ (polling /\ "STOP_POLLING" \notin E))
       /\ ioPaused' = (("RESUME_IO" \notin E) /\
                       (ioPaused \/ E \intersect {"QUIESCE_IO", "PAUSE_IO"} # {}))
       /\ forcePending' = (forcePending \/
                           ("FORCE_REFRESH" \in E /\ w.tasks["gather"] > 0))
       /\ drain' = IF "STOP_DRAIN" \in E THEN 0
                   ELSE IF "BEGIN_DRAIN" \in E THEN DrainTicks - 1 ELSE drain
       /\ gatherFrom' = IF "gather" \in started THEN "now"
                        ELSE IF monitoring THEN "before" ELSE gatherFrom
       /\ seen' = (seen /\ ~monitoring /\ "STOP_POLLING" \notin E)

\* r is a reaction, w the work in flight when the handler was called, begun
\* the tasks the handler begins itself after dispatching.
Perform(r, w, begun) ==
    /\ model' = r.model
    /\ IF "EXIT_APP" \in r.effects THEN ExitNow
       ELSE Carry(r.effects, IF r.valid THEN ExpireToken(w) ELSE w, begun)

\* What the effects leave in _container_state; c is what the handler itself
\* has just learned.
ContainerAfter(E, c) ==
    CASE "MARK_CONTAINER_UNKNOWN" \in E -> "unknown"
      [] "MARK_CONTAINER_RUNNING" \in E -> "running"
      [] "MARK_CONTAINER_STOPPED" \in E -> "stopped"
      [] OTHER -> c

Dispatch(e, w, begun, c) ==
    LET r == React(e, w, applyWriting)
    IN /\ Perform(r, w, begun)
       /\ container' = ContainerAfter(r.effects, c)

\* A handler that dispatches nothing.
Quietly(w, begun) ==
    /\ Carry({}, w, begun)
    /\ UNCHANGED model

-----------------------------------------------------------------------------
(* Asking the operator.                                                    *)

\* The window takes a request when nothing blocks it, the tray perhaps always.
MayAsk(q) ==
    /\ Room
    /\ Len(dialogs) < MaxDialogs
    /\ dialogs = <<>> \/ (TrayWhileAsking /\ q \in TrayQuestions)

MayPress == Room /\ (dialogs = <<>> \/ TrayWhileAsking)

Ask(q) ==
    /\ MayAsk(q)
    /\ dialogs' = Append(dialogs, q)
    /\ UNCHANGED <<performed, container, bridge, overtaken, applyWriting, provisioning>>

\* Only the innermost confirmation can be answered.
Asked(q) == dialogs # <<>> /\ dialogs[Len(dialogs)] = q

Closed == SubSeq(dialogs, 1, Len(dialogs) - 1)

Dismiss ==
    /\ up
    /\ dialogs # <<>>
    /\ dialogs' = Closed
    /\ UNCHANGED <<performed, container, bridge, overtaken, applyWriting, provisioning>>

-----------------------------------------------------------------------------
(* Startup.                                                                *)

\* What the inspection can find: with the marker gone and the VM running the
\* bridge is taken to be on already, which a powered-off bridge never is.
Plans == {"STARTUP_POWER_ON", "STARTUP_PROVISION_NEEDED", "STARTUP_INSPECT_FAILED"}
         \union (IF bridge = "off" THEN {} ELSE {"STARTUP_ALREADY_ON"})

Classified(plan) ==
    CASE plan = "STARTUP_POWER_ON" -> {"stopped", "running"}
      [] plan = "STARTUP_ALREADY_ON" -> {"running"}
      [] plan = "STARTUP_PROVISION_NEEDED" -> {"absent"}
      [] OTHER -> {"error"}

InspectLands ==
    /\ up
    /\ live["inspect"] > 0
    /\ \E plan \in Plans :
         /\ "setup" \in Requests \/ plan \in {"STARTUP_POWER_ON", "STARTUP_ALREADY_ON"}
         /\ \E c \in Classified(plan) : Dispatch(plan, LandedLive("inspect"), {}, c)
    /\ UNCHANGED <<bridge, overtaken, applyWriting, dialogs, provisioning>>

\* A provisioning record matches the container: back into the interrupted
\* state, and when the record names a run, back to watching, re-staging or
\* reporting that run in the record's own mode.
InspectResumes ==
    /\ up
    /\ "provision" \in Requests
    /\ live["inspect"] > 0
    /\ \/ /\ Dispatch("STARTUP_RESUME_PROVISIONING", LandedLive("inspect"), {}, container)
          /\ UNCHANGED run
       \/ \E begin \in {"PROVISION_BEGIN_FIRST_RUN", "PROVISION_BEGIN_REPROVISION"},
             resumed \in {"poll", "prepare", "nothing"} :
            LET r == Then(Reduce(model, "STARTUP_RESUME_PROVISIONING"), begin)
            IN /\ Perform(r, LandedLive("inspect"), {resumed} \ {"nothing"})
               /\ container' = ContainerAfter(r.effects, container)
               /\ run' = IF resumed = "poll" THEN "watching" ELSE "held"
    /\ UNCHANGED <<bridge, overtaken, applyWriting, dialogs, probing, verifying>>

\* A completion whose token is stale is dropped before it is reduced.
StaleLands ==
    /\ up
    /\ \E k \in TokenKinds \ {"connect"} : HasStale(k) /\ Quietly(Landed(k), {})
    /\ UNCHANGED <<container, bridge, overtaken, applyWriting, dialogs, provisioning>>

-----------------------------------------------------------------------------
(* Health polling.                                                         *)

\* The timer, or the Refresh button with force.
Refresh(force) ==
    /\ up
    /\ model.phase \notin NoCifsPhases
    /\ IF tasks["gather"] > 0
       THEN /\ force
            /\ forcePending' = TRUE
            /\ UNCHANGED <<up, model, tasks, live, calls, polling, ioPaused, drain,
                           gatherFrom, seen>>
       ELSE Quietly(InFlight, {"gather"})
    /\ UNCHANGED <<container, bridge, overtaken, applyWriting, dialogs, provisioning>>

TimerRefreshes == polling /\ Refresh(FALSE)

OperatorRefreshes == "window" \in Requests /\ MayPress /\ Refresh(TRUE)

\* A gather is dropped, and with it the forced pass it was holding back.
DropGather ==
    /\ tasks' = [tasks EXCEPT !["gather"] = 0]
    /\ gatherFrom' = "before"
    /\ forcePending' = FALSE

\* It lands while a transition owns the state, which does its own forced pass.
SnapshotIgnored ==
    /\ up
    /\ tasks["gather"] > 0
    /\ model.phase \in NoCifsPhases
    /\ DropGather
    /\ UNCHANGED <<up, model, live, calls, polling, ioPaused, drain, seen,
                   container, bridge, overtaken, applyWriting, dialogs, provisioning>>

\* A snapshot reaches the window.  Anything but green makes the controller ask
\* Docker; a forced pass that was held back begins.  `known` says that the
\* snapshot carries a status document, which settles a re-provisioning.
SnapshotApplied ==
    /\ up
    /\ tasks["gather"] > 0
    /\ model.phase \notin NoCifsPhases
    /\ \E green, known \in BOOLEAN :
         /\ green => known
         /\ tasks' = [tasks EXCEPT
                        !["gather"] = IF forcePending THEN 1 ELSE 0,
                        !["classify"] = IF green \/ @ > 0 THEN @ ELSE 1]
         /\ container' = IF green THEN "running" ELSE container
         /\ verifying' = (verifying /\ ~known)
    /\ seen' = (seen \/ gatherFrom = "now")
    /\ gatherFrom' = IF forcePending THEN "now" ELSE "before"
    /\ forcePending' = FALSE
    /\ UNCHANGED <<up, model, live, calls, polling, ioPaused, drain, bridge, overtaken,
                   applyWriting, dialogs, run, probing>>

ClassifyLands ==
    /\ up
    /\ tasks["classify"] > 0
    /\ Quietly(Landed("classify"), {})
    /\ container' \in {"running", "stopped", "absent", "error"}
    /\ UNCHANGED <<bridge, overtaken, applyWriting, dialogs, provisioning>>

\* Mutant: a pass is begun without asking whether workspaces may synchronize.
CycleBeginsUnasked ==
    /\ up /\ "window" \in Requests /\ tasks["cycle"] = 0
    /\ Quietly(InFlight, {"cycle"})
    /\ UNCHANGED <<container, bridge, overtaken, applyWriting, dialogs, provisioning>>

\* Safe Workspace cycles: the timer begins one, and a cycle that lands begins
\* the next of its pass (WorkspaceScheduler has the queue).
CycleBegins ==
    /\ up
    /\ "window" \in Requests
    /\ polling
    /\ model.phase \notin NoCifsPhases
    /\ tasks["cycle"] = 0
    /\ Quietly(InFlight, {"cycle"})
    /\ UNCHANGED <<container, bridge, overtaken, applyWriting, dialogs, provisioning>>

CycleLands ==
    /\ up
    /\ tasks["cycle"] > 0
    /\ \/ Quietly(Landed("cycle"), {})
       \/ /\ polling
          /\ model.phase \notin NoCifsPhases
          /\ Quietly(Landed("cycle"), {"cycle"})
    /\ UNCHANGED <<container, bridge, overtaken, applyWriting, dialogs, provisioning>>

-----------------------------------------------------------------------------
(* The window's own bridge I/O.                                            *)

\* Listing requests, response polls, Reload: refused while I/O is paused.
ReadBegins ==
    /\ up
    /\ "window" \in Requests
    /\ MayPress
    /\ ~ioPaused
    /\ Quietly(InFlight, {"read"})
    /\ UNCHANGED <<container, bridge, overtaken, applyWriting, dialogs, provisioning>>

ReadLands ==
    /\ up
    /\ tasks["read"] > 0
    /\ Quietly(Landed("read"), {})
    /\ UNCHANGED <<container, bridge, overtaken, applyWriting, dialogs, provisioning>>

AskApply == up /\ "window" \in Requests /\ ~ioPaused /\ Ask("apply")

\* Restore first loads the saved copy from the local disk.
RestoreBegins ==
    /\ up
    /\ "restore" \in Requests
    /\ dialogs = <<>>
    /\ Room
    /\ ~ioPaused /\ ~applyWriting
    /\ Quietly(InFlight, {"restore"})
    /\ UNCHANGED <<container, bridge, overtaken, applyWriting, dialogs, provisioning>>

\* The completion asks, inside whatever else is being asked.
RestoreLands ==
    /\ up
    /\ tasks["restore"] > 0
    /\ Quietly(Landed("restore"), {})
    /\ dialogs' \in {dialogs} \union
                    (IF Len(dialogs) < MaxDialogs THEN {Append(dialogs, "restore")} ELSE {})
    /\ UNCHANGED <<container, bridge, overtaken, applyWriting, provisioning>>

\* Confirmed: the write starts at once, whatever has happened since it was asked.
WriteBegins ==
    /\ up
    /\ Asked("apply") \/ Asked("restore")
    /\ dialogs' = Closed
    /\ applyWriting' = TRUE
    /\ Quietly(InFlight, {"write"})
    /\ UNCHANGED <<container, bridge, overtaken, provisioning>>

\* A failed write reloads the selection, if I/O is allowed.
WriteLands ==
    /\ up
    /\ tasks["write"] > 0
    /\ applyWriting' = FALSE
    /\ \/ Quietly(Landed("write"), {})
       \/ ~ioPaused /\ Quietly(Landed("write"), {"read"})
    /\ UNCHANGED <<container, bridge, overtaken, dialogs, provisioning>>

-----------------------------------------------------------------------------
(* Power requests and Quit.                                                *)

AskPowerOff == up /\ "power" \in Requests /\ model.phase = "running" /\ Ask("off")

AskQuit ==
    /\ up
    /\ "power" \in Requests
    /\ CASE QuitKind(model.phase) = "simple" -> Ask("quit1")
         [] QuitKind(model.phase) = "three_way" -> Ask("quit3")
         [] OTHER -> FALSE

\* The answers: which event each confirmation ends in.
Confirms == {<<"off", "USER_POWER_OFF_CONFIRMED">>,
             <<"quit3", "QUIT_CONFIRMED_POWER_OFF">>,
             <<"quit3", "QUIT_CONFIRMED_GUI_ONLY">>,
             <<"quit1", "QUIT_CONFIRMED_GUI_ONLY">>}

\* The exit takes the other confirmations with it.
Confirm ==
    /\ up
    /\ \E answer \in Confirms :
         /\ Asked(answer[1])
         /\ Dispatch(answer[2], InFlight, {}, container)
    /\ dialogs' = IF up' THEN Closed ELSE <<>>
    /\ UNCHANGED <<bridge, overtaken, applyWriting, provisioning>>

StartRequested ==
    /\ up
    /\ "power" \in Requests
    /\ MayPress
    /\ AvailableAction(model.phase, container) = "start"
    /\ Dispatch("USER_START_BRIDGE", InFlight, {}, container)
    /\ UNCHANGED <<bridge, overtaken, applyWriting, dialogs, provisioning>>

RetryRequested ==
    /\ up
    /\ MayPress
    /\ AvailableAction(model.phase, container) \in {"retry", "retry_transition"}
    /\ Dispatch(IF model.phase = "transition_unknown" THEN "USER_RETRY_TRANSITION"
                ELSE "USER_RETRY_START", InFlight, {}, container)
    /\ UNCHANGED <<bridge, overtaken, applyWriting, dialogs, provisioning>>

\* Mutant: a tick that finds work in flight is not counted.
TickUncounted == drain

TicksLeft == drain - 1

\* The drain timer, every DRAIN_POLL_MS.
DrainTick ==
    /\ up
    /\ drain > 0
    /\ IF ~Active(InFlight) /\ ~applyWriting
       THEN Dispatch("DRAIN_COMPLETED", InFlight, {}, container)
       ELSE IF drain > 1
       THEN /\ drain' = TicksLeft
            /\ UNCHANGED <<up, model, tasks, live, calls, polling, ioPaused,
                           forcePending, gatherFrom, seen, container>>
       ELSE Dispatch("DRAIN_TIMED_OUT", InFlight, {}, container)
    /\ UNCHANGED <<bridge, overtaken, applyWriting, dialogs, provisioning>>

-----------------------------------------------------------------------------
(* The first-run assistant: Docker and local files only.                   *)

CheckBegins ==
    /\ up
    /\ "setup" \in Requests
    /\ MayPress
    /\ model.phase \in {"setup", "provisioning"}
    /\ ~SetupBusy(tasks)
    /\ Quietly(InFlight, {"check"})
    /\ UNCHANGED <<container, bridge, overtaken, applyWriting, dialogs, provisioning>>

CheckLands ==
    /\ up
    /\ tasks["check"] > 0
    /\ Quietly(Landed("check"), {})
    /\ container' \in {container, "running", "stopped", "absent", "error"}
    /\ UNCHANGED <<bridge, overtaken, applyWriting, dialogs, provisioning>>

AskCreate ==
    /\ up
    /\ "setup" \in Requests
    /\ model.phase = "setup"
    /\ ~SetupBusy(tasks)
    /\ container = "absent"
    /\ Ask("create")

CreateBegins ==
    /\ up
    /\ Asked("create")
    /\ dialogs' = Closed
    /\ Quietly(InFlight, {"create"})
    /\ UNCHANGED <<container, bridge, overtaken, applyWriting, provisioning>>

\* Check setup and connect.
ConnectBegins ==
    /\ up
    /\ "setup" \in Requests
    /\ MayPress
    /\ model.phase \in {"setup", "provisioning"}
    /\ ~SetupBusy(tasks)
    /\ Quietly(InFlight, {"connect"})
    /\ UNCHANGED <<container, bridge, overtaken, applyWriting, dialogs, provisioning>>

\* Its completion carries no token: what it dispatches is reduced whatever has
\* happened since it began.
ConnectDispatches(w) ==
    \E c \in {"running", "stopped"} : Dispatch("CONNECT_READY", w, {}, c)

ConnectLands ==
    /\ up
    /\ tasks["connect"] > 0
    /\ LET w == IF live["connect"] > 0 THEN LandedLive("connect") ELSE Landed("connect")
       IN \/ ConnectDispatches(w)
          \/ /\ Quietly(w, {})
             /\ container' \in {container, "running", "stopped", "absent", "error"}
    /\ UNCHANGED <<bridge, overtaken, applyWriting, dialogs, provisioning>>

-----------------------------------------------------------------------------
(* Guest provisioning, as far as it moves the lifecycle.                   *)

\* _begin_provisioning_run, after the dispatch r of a PROVISION_BEGIN event:
\* the run starts over and its intent is recorded by a worker.
BeginRun(r, w, begun) ==
    /\ Perform(r, w, begun \union {"prepare"})
    /\ container' = ContainerAfter(r.effects, container)
    /\ run' = "none"
    /\ probing' = FALSE
    /\ verifying' = FALSE

\* A VM that has just been created goes straight into its first run.
CreateLands ==
    /\ up
    /\ tasks["create"] > 0
    /\ \/ BeginRun(Then(Reduce(model, "VM_CREATED"), "PROVISION_BEGIN_FIRST_RUN"),
                 Landed("create"), {})
       \/ Quietly(Landed("create"), {}) /\ UNCHANGED <<container, provisioning>>
    /\ UNCHANGED <<bridge, overtaken, applyWriting, dialogs>>

ProvBusy == tasks["prepare"] > 0

AskProvision ==
    /\ up
    /\ "provision" \in Requests
    /\ model.phase = "provisioning"
    /\ container = "running" /\ ~ProvBusy /\ run = "none"
    /\ Ask("provision")

\* Shares the guest never created: a first run repairs them.
AskRecover ==
    /\ up
    /\ "provision" \in Requests
    /\ model.phase \in {"start_failed", "running"}
    /\ model.phase = "running" => container = "running"
    /\ ~ProvBusy
    /\ Ask("recover")

AskReprovision ==
    /\ up
    /\ "provision" \in Requests
    /\ model.phase = "running"
    /\ container = "running" /\ ~ProvBusy
    /\ Ask("reprovision")

AskNewRun ==
    /\ up
    /\ "provision" \in Requests
    /\ model.phase = "provisioning"
    /\ ~ProvBusy /\ run # "none"
    /\ Ask("newRun")

Begins == {<<"provision", "PROVISION_BEGIN_FIRST_RUN">>,
           <<"recover", "PROVISION_BEGIN_FIRST_RUN">>,
           <<"reprovision", "PROVISION_BEGIN_REPROVISION">>,
           <<"newRun", "PROVISION_BEGIN_FIRST_RUN">>,
           <<"newRun", "PROVISION_BEGIN_REPROVISION">>}

\* The confirmed run begins whether or not the event was valid; a new run
\* first sweeps away what an old one has staged.
RunConfirmed ==
    /\ up
    /\ \E answer \in Begins :
         /\ Asked(answer[1])
         /\ BeginRun(Reduce(model, answer[2]), InFlight,
                     IF answer[1] = "newRun" /\ run # "none" THEN {"cleanup"} ELSE {})
    /\ dialogs' = Closed
    /\ UNCHANGED <<bridge, overtaken, applyWriting>>

CleanupLands ==
    /\ up
    /\ tasks["cleanup"] > 0
    /\ Quietly(Landed("cleanup"), {})
    /\ UNCHANGED <<container, bridge, overtaken, applyWriting, dialogs, provisioning>>

\* Intent recorded, Windows probed, run staged: three tasks in a row, each
\* with the same token, told apart only by where they can stop.
PrepareLands ==
    /\ up
    /\ live["prepare"] > 0
    /\ LET w == LandedLive("prepare")
       IN \/ \* staged: the status is polled from now on, at once for the first time
             /\ run' = "watching"
             /\ Quietly(w, IF model.phase = "provisioning" /\ tasks["poll"] = 0
                           THEN {"poll"} ELSE {})
             /\ UNCHANGED <<container, probing>>
          \/ \* Windows is not up yet: probe again later
             /\ probing' = TRUE
             /\ Quietly(w, {})
             /\ container' \in {"running", "stopped"}
             /\ UNCHANGED run
          \/ \* a step failed, before or after the run had its name
             /\ Dispatch("PROVISION_FAILED", w, {}, container)
             /\ run' \in {run, "held"}
             /\ UNCHANGED probing
    /\ UNCHANGED <<bridge, overtaken, applyWriting, dialogs, verifying>>

ProbeAgain ==
    /\ up
    /\ probing
    /\ probing' = FALSE
    /\ IF model.phase = "provisioning" /\ ~ProvBusy
       THEN Quietly(InFlight, {"prepare"})
       ELSE UNCHANGED performed
    /\ UNCHANGED <<container, bridge, overtaken, applyWriting, dialogs, run, verifying>>

PollTick ==
    /\ up
    /\ run = "watching"
    /\ tasks["poll"] = 0
    /\ IF model.phase # "provisioning"
       THEN run' = "held" /\ UNCHANGED performed
       ELSE Quietly(InFlight, {"poll"}) /\ UNCHANGED run
    /\ UNCHANGED <<container, bridge, overtaken, applyWriting, dialogs, probing, verifying>>

\* A status document: progress, failure, or done.
PollLands ==
    /\ up
    /\ live["poll"] > 0
    /\ LET w == LandedLive("poll")
           done == Reduce(model, "PROVISION_SUCCEEDED")
       IN \/ Quietly(w, {}) /\ UNCHANGED <<container, run, probing, verifying>>
          \/ /\ Dispatch("PROVISION_FAILED", w, {"cleanup"}, container)
             /\ run' = "held"
             /\ UNCHANGED <<probing, verifying>>
          \/ /\ Perform(done, w, {"cleanup"})
             /\ container' = ContainerAfter(done.effects, container)
             /\ verifying' = (verifying \/ model.mode = "reprovision")
             /\ run' = IF model'.phase = "provisioning" THEN "held" ELSE "none"
             /\ probing' = (probing /\ model'.phase = "provisioning")
    /\ UNCHANGED <<bridge, overtaken, applyWriting, dialogs>>

-----------------------------------------------------------------------------
(* The power helper's processes, as HelperCalls has them.                   *)

Becomes(c, d) == calls' = (calls \ {c}) \union {d}

Beyond == <<up, model, tasks, live, polling, ioPaused, forcePending, drain, container,
            applyWriting, dialogs, run, probing, verifying, gatherFrom, seen>>

\* The lock is free.  From here to its end the bridge is in between, except that
\* an `off` leaves a bridge that is off as it is.
HelperLocks ==
    /\ \E c \in calls :
         /\ c.stage = "waiting"
         /\ \A d \in calls : d.stage # "working"
         /\ Becomes(c, [c EXCEPT !.stage = "working", !.before = bridge])
         /\ bridge' = IF c.want = "off" /\ bridge = "off" THEN "off" ELSE "partial"
         /\ overtaken' = (~c.owned /\ (overtaken \/ c.want = "on"))
    /\ UNCHANGED Beyond

\* A helper that the app no longer owns has nobody left to answer to.
Answers(c, answer) ==
    IF c.owned THEN Becomes(c, [c EXCEPT !.stage = "answered", !.answer = answer, !.before = "partial"])
               ELSE calls' = calls \ {c}

\* LOCK_WAIT is over, or the helper could not be run at all.
HelperUnserved ==
    /\ \E c \in calls : c.stage = "waiting" /\ Answers(c, "unserved")
    /\ UNCHANGED <<bridge, overtaken, Beyond>>

\* By itself, or killed: with what HelperCalls promises of its answer.
HelperEnds ==
    /\ \E c \in calls : \E r \in Results(c.want, c.before) :
         /\ c.stage = "working"
         /\ bridge' = r.bridge
         /\ Answers(c, r.answer)
    /\ UNCHANGED <<overtaken, Beyond>>

WithoutCall(c) == [InFlight EXCEPT !.calls = @ \ {c}]

\* A current result of `on`.  Success forgets the provisioning run; a rejected
\* credential after a converged run goes back to provisioning.
OnEvents(c) ==
    IF c.answer = "ok" THEN {"POWER_ON_SUCCEEDED"}
    ELSE {"POWER_ON_FAILED"} \union
         (IF c.answer = "broken" /\ run = "held" THEN {"PROVISION_CONNECT_FAILED"} ELSE {})

OnResult ==
    /\ up
    /\ \E c \in calls :
         /\ c.owned /\ c.live /\ c.want = "on" /\ c.stage = "answered"
         /\ \E e \in OnEvents(c) : Dispatch(e, WithoutCall(c), {}, container)
         /\ run' = IF c.answer = "ok" THEN "none" ELSE run
         /\ probing' = (probing /\ c.answer # "ok")
    /\ UNCHANGED <<bridge, overtaken, applyWriting, dialogs, verifying>>

\* Mutant: a helper that never got the lock is taken to have succeeded.
OffEventUnserved(c) ==
    IF c.answer \in {"ok", "unserved"} THEN "POWER_OFF_SUCCEEDED" ELSE "POWER_OFF_FAILED"

OffEvent(c) ==
    IF c.answer = "ok" THEN "POWER_OFF_SUCCEEDED" ELSE "POWER_OFF_FAILED"

OffResult ==
    /\ up
    /\ \E c \in calls :
         /\ c.owned /\ c.live /\ c.want = "off" /\ c.stage = "answered"
         /\ Dispatch(OffEvent(c), WithoutCall(c), {}, container)
    /\ dialogs' = IF up' THEN dialogs ELSE <<>>
    /\ UNCHANGED <<bridge, overtaken, applyWriting, provisioning>>

StaleResult ==
    /\ up
    /\ \E c \in calls :
         /\ c.owned /\ ~c.live /\ c.stage = "answered"
         /\ Quietly(WithoutCall(c), {})
    /\ UNCHANGED <<container, bridge, overtaken, applyWriting, dialogs, provisioning>>

\* POWER_TIMEOUT_SECONDS: sudo is killed, the root process is not.
CallTimesOut ==
    /\ up
    /\ \E c \in calls :
         /\ c.owned /\ c.stage = "working"
         /\ LET orphan == [c EXCEPT !.owned = FALSE, !.live = FALSE]
                w == [InFlight EXCEPT !.calls = (@ \ {c}) \union {orphan}]
            IN IF c.live
               THEN Dispatch("POWER_TRANSITION_UNKNOWN", w, {}, container)
               ELSE Quietly(w, {}) /\ UNCHANGED container
    /\ UNCHANGED <<bridge, overtaken, applyWriting, dialogs, provisioning>>

-----------------------------------------------------------------------------
FirstTasks == [NoTasks EXCEPT !["inspect"] = 1]
FirstLive == [NoneLive EXCEPT !["inspect"] = 1]

\* A new process starts with I/O paused and the inspection in flight.
Fresh ==
    /\ model = FirstModel
    /\ tasks = FirstTasks
    /\ live = FirstLive
    /\ polling = FALSE /\ ioPaused = TRUE /\ forcePending = FALSE
    /\ drain = 0 /\ container = "unknown" /\ applyWriting = FALSE
    /\ dialogs = <<>> /\ run = "none" /\ probing = FALSE /\ verifying = FALSE
    /\ gatherFrom = "before" /\ seen = FALSE

Init ==
    /\ up = TRUE
    /\ Fresh
    /\ calls = {}
    /\ bridge \in {"on", "off", "partial"}
    /\ overtaken = FALSE

\* The operator starts the app again: the last session has only to have closed
\* its socket.  Its helpers may still be at work, or wait for the lock.
Launch ==
    /\ ~up
    /\ up' = TRUE
    /\ model' = FirstModel
    /\ tasks' = FirstTasks
    /\ live' = FirstLive
    /\ polling' = FALSE /\ ioPaused' = TRUE /\ forcePending' = FALSE
    /\ drain' = 0 /\ container' = "unknown" /\ applyWriting' = FALSE
    /\ dialogs' = <<>> /\ run' = "none" /\ probing' = FALSE /\ verifying' = FALSE
    /\ gatherFrom' = "before" /\ seen' = FALSE
    /\ overtaken' = FALSE
    /\ UNCHANGED <<calls, bridge>>

Operator ==
    \/ OperatorRefreshes \/ ReadBegins \/ AskApply \/ RestoreBegins \/ WriteBegins
    \/ AskPowerOff \/ AskQuit \/ Confirm \/ StartRequested \/ RetryRequested \/ Dismiss
    \/ CheckBegins \/ AskCreate \/ CreateBegins \/ ConnectBegins
    \/ AskProvision \/ AskRecover \/ AskReprovision \/ AskNewRun \/ RunConfirmed
    \/ Launch

Completion ==
    \/ InspectLands \/ InspectResumes \/ StaleLands \/ SnapshotIgnored \/ SnapshotApplied
    \/ ClassifyLands \/ CycleLands \/ ReadLands \/ RestoreLands \/ WriteLands
    \/ CheckLands \/ ConnectLands \/ CreateLands \/ CleanupLands \/ PrepareLands
    \/ PollLands \/ OnResult \/ OffResult \/ StaleResult

Helper == HelperLocks \/ HelperUnserved \/ HelperEnds

Timer == TimerRefreshes \/ CycleBegins \/ DrainTick \/ ProbeAgain \/ PollTick \/ CallTimesOut

Next == Operator \/ Completion \/ Helper \/ Timer

Spec == Init /\ [][Next]_vars

-----------------------------------------------------------------------------
(* Properties.                                                             *)

\* Every variable keeps its type.
TypeOK ==
    /\ up \in BOOLEAN
    /\ model \in Model
    /\ tasks \in [Kinds -> Nat]
    /\ live \in [TokenKinds -> Nat]
    /\ \A k \in TokenKinds : live[k] <= tasks[k]
    /\ calls \subseteq Call
    /\ bridge \in {"on", "off", "partial"} /\ overtaken \in BOOLEAN
    /\ polling \in BOOLEAN /\ ioPaused \in BOOLEAN /\ forcePending \in BOOLEAN
    /\ drain \in 0..DrainTicks
    /\ container \in {"unknown", "running", "stopped", "absent", "error"}
    /\ applyWriting \in BOOLEAN
    /\ dialogs \in Seq(Questions)
    /\ run \in {"none", "held", "watching"}
    /\ probing \in BOOLEAN /\ verifying \in BOOLEAN
    /\ gatherFrom \in {"now", "before"}
    /\ seen \in BOOLEAN

\* Whatever path led into a phase, its timers and its gate fit it: in normal
\* monitoring the timers run and bridge I/O is allowed, in every other phase
\* neither.  One effect missing from one row of the reducer's table would let
\* the five-second timer read mounts a transition is taking apart.
IoFollowsPhase ==
    up => /\ polling <=> model.phase \notin NoCifsPhases
          /\ ioPaused <=> model.phase \in NoCifsPhases

CurrentCalls == {c \in calls : c.owned /\ c.live}

\* A phase that offers the operator no way out always has a current operation
\* that will end it, exactly one, and of the right direction; and no current
\* operation is left behind in another phase, where its result would be taken
\* for an answer to a question nobody asked.
TransitionHasDriver ==
    up => /\ model.phase = "starting" =>
                \/ live["inspect"] = 1 /\ CurrentCalls = {}
                \/ live["inspect"] = 0 /\ \E c \in calls : CurrentCalls = {c} /\ c.want = "on"
          /\ model.phase = "shutting_down" =>
                \/ drain > 0 /\ CurrentCalls = {}
                \/ drain = 0 /\ \E c \in calls : CurrentCalls = {c} /\ c.want = "off"
          /\ model.phase \notin {"starting", "shutting_down"} =>
                drain = 0 /\ CurrentCalls = {} /\ live["inspect"] = 0

\* While the helper this app asked to power off is at work, nothing of this
\* app's that a timer or a button starts is touching a mount, and no other
\* helper of this app is running: the drain waited for all of it, and nothing
\* has been let in since.
DrainedWhileOff ==
    \A c \in CurrentCalls : c.want = "off" =>
        /\ \A k \in ScheduledCifs : tasks[k] = 0
        /\ \A d \in calls : d.owned => d = c

\* The app says the bridge is powered off, and Quit and power off exits, only
\* when it is: also when an earlier call timed out and its root process was
\* still at work when the operator retried, and when an earlier session has left
\* a helper behind.  Excepted is the one way the code leaves open: the app was
\* quit while its `on` waited for the lock, and started again, and that `on` has
\* got the lock behind this session's `off` (README, differences).
PoweredOffIsOff == model.phase = "powered_off" /\ ~overtaken => bridge = "off"

\* The shares are being taken apart, or are gone.
Down == model.phase = "powered_off" \/ \E c \in CurrentCalls : c.want = "off"

Stage == IF up /\ polling THEN "open" ELSE IF up /\ Down THEN "down" ELSE "closed"

Service == INSTANCE CycleService
    WITH Cycles <- {"cycle"}, stage <- Stage, inFlight <- {k \in {"cycle"} : tasks[k] > 0}

\* However requests, results and time limits interleave with the cycles: one
\* begins only while the timers run, and none is in flight from the moment the
\* helper is asked to power off until the bridge is served again.
CyclesKeepService == Service!Spec

\* A forced refresh that waits for the gather in flight has one to wait for:
\* it is not lost to a transition that takes the state in between, and it never
\* waits for a gather that nobody will dispatch.
ForcedPassHasCarrier == up /\ forcePending => tasks["gather"] > 0

\* In every phase the app is served as the phase needs it.
PhaseIsServed == TypeOK /\ IoFollowsPhase /\ TransitionHasDriver /\ ForcedPassHasCarrier

\* A power transition ends: whatever lands late, times out or hangs on a mount,
\* the app does not stay in a phase in which nothing can be asked of it.
TransitionsEnd ==
    []<>(up => model.phase \notin {"starting", "shutting_down"})

\* After every entry into monitoring the window is shown a gather that began
\* after it, unless monitoring ends again first.
FreshView ==
    (up /\ model.phase = "running") ~> (seen \/ ~up \/ model.phase # "running")

\* Completions that must arrive: the startup inspection and the gathers run
\* bounded subprocesses and soft-mounted reads, the power tasks have a 600 s
\* limit, the lock wait a 60 s one, and the drain timer keeps ticking.
Fairness ==
    /\ WF_vars(InspectLands)
    /\ WF_vars(DrainTick)
    /\ WF_vars(HelperUnserved)
    /\ WF_vars(CallTimesOut)
    /\ WF_vars(OnResult)
    /\ WF_vars(OffResult)
    /\ WF_vars(SnapshotIgnored)
    /\ WF_vars(SnapshotApplied)

FairSpec == Spec /\ Fairness

=============================================================================
