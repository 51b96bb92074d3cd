------------------------- MODULE WorkspaceScheduler -------------------------
(***************************************************************************)
(* gui/icloud_bridge_gui/__main__.py: which Safe Workspace gets a cycle,   *)
(* and when.  A timer and Sync now ask for passes, a pass queues the       *)
(* enabled workspaces, a worker runs one cycle at a time (SafeWorkspace    *)
(* has what a cycle does), the tab and other programs change               *)
(* workspaces.json, and the lifecycle stops and starts it all.  The        *)
(* offer to open Obsidian is a modal dialog inside the handling of a       *)
(* result: everything else goes on while it is open.                       *)
(*                                                                         *)
(* Workspaces are queued in the order of their ids, so the queue is a set  *)
(* whose least member is next.                                             *)
(***************************************************************************)
EXTENDS Naturals, FiniteSets

CONSTANTS
    Workspaces,     \* ids
    DrainTicks,     \* SHUTDOWN_DRAIN_TIMEOUT_MS, in ticks of the clock
    CycleTicks,     \* TIMEOUT_SECONDS of a cycle, in the same ticks
    MaxEvents       \* bound: edits of the configuration, and power offs

ASSUME SchedulerAssumption ==
    /\ Workspaces \subseteq Nat /\ IsFiniteSet(Workspaces)
    /\ DrainTicks \in Nat /\ CycleTicks \in Nat \ {0} /\ MaxEvents \in Nat

VARIABLES
    phase,      \* "monitoring", "draining" for a power off, or "off"
    timer,      \* _workspace_timer is active
    enabled,    \* workspaces.json: the enabled ones
    readable,   \* workspaces.json can be validated
    loaded,     \* _workspace_config: the enabled ones
    queue,      \* _workspace_queue
    active,     \* _workspace_active
    running,    \* the cycles that workers are running
    pending,    \* _workspace_pending
    seeding,    \* _awaiting_seed: added, and not yet synchronized once
    offers,     \* open offers, each with the rest of a result's handling
    age,        \* how long the cycle has been running
    drain,      \* what is left of the drain's patience
    barred,     \* history: paused or forgotten in the tab, and not taken back
    events

config == <<enabled, readable, seeding, barred>>
pass == <<loaded, queue, active, running, pending, age>>
power == <<phase, timer, drain>>
vars == <<config, pass, power, offers, events>>

Readable == IF readable THEN enabled ELSE {}
Least(some) == CHOOSE w \in some : \A other \in some : w <= other

-----------------------------------------------------------------------------
(* Passes.                                                                 *)

Allowed == timer /\ phase = "monitoring"

Launch(from, flying) ==
    /\ queue' = from \ {Least(from)}
    /\ active' = TRUE
    /\ running' = flying \cup {Least(from)}
    /\ age' = 0

Rest(from, busy, flying) ==
    /\ queue' = from
    /\ active' = busy
    /\ running' = flying
    /\ age' = IF flying = {} THEN 0 ELSE age

\* _finish_workspace_pass: the configuration again, and the pass that waits.
Finish(flying, again) ==
    /\ loaded' = Readable
    /\ pending' = FALSE
    /\ IF again /\ Readable # {} THEN Launch(Readable, flying) ELSE Rest({}, FALSE, flying)

\* Mutant: nobody asks whether a cycle is in flight.
AdvanceBlindly(from, busy, flying, again, known) ==
    \/ /\ ~Allowed
       /\ Rest({}, busy, flying) /\ pending' = FALSE /\ loaded' = known
    \/ /\ Allowed /\ from # {}
       /\ Launch(from, flying) /\ pending' = again /\ loaded' = known
    \/ /\ Allowed /\ from = {}
       /\ Finish(flying, again)

\* _advance_workspaces, with the queue, the in-flight flag, the workers, the
\* pending flag and the configuration as they stand by then.
Advance(from, busy, flying, again, known) ==
    \/ /\ busy
       /\ Rest(from, busy, flying) /\ pending' = again /\ loaded' = known
    \/ /\ ~busy /\ ~Allowed
       /\ Rest({}, busy, flying) /\ pending' = FALSE /\ loaded' = known
    \/ /\ ~busy /\ Allowed /\ from # {}
       /\ Launch(from, flying) /\ pending' = again /\ loaded' = known
    \/ /\ ~busy /\ Allowed /\ from = {}
       /\ Finish(flying, again)

\* _tick_workspaces and _begin_workspace_pass, under a configuration that may
\* have been read just now.
Tick(from, known) ==
    IF active \/ from # {}
    THEN Rest(from, active, running) /\ pending' = TRUE /\ loaded' = known
    ELSE Advance(known, active, running, pending, known)

TimerTick ==
    /\ timer
    /\ Tick(queue, loaded)
    /\ UNCHANGED <<config, power, offers, events>>

\* The button is there while bridge I/O is not paused.
SyncNow ==
    /\ phase = "monitoring" /\ loaded # {}
    /\ Tick(queue, loaded)
    /\ UNCHANGED <<config, power, offers, events>>

\* _on_workspace_cycle: the worker is done with w and the pass goes on.
CycleReturns(w) ==
    /\ w \in running
    /\ Advance(queue, FALSE, running \ {w}, pending, loaded)
    /\ UNCHANGED <<config, power, offers, events>>

\* The same, for the first clean run of a workspace that was added here: the
\* tab asks a question before the pass goes on.
SeedReturns(w) ==
    /\ w \in running \cap seeding \cap loaded
    /\ Rest(queue, FALSE, running \ {w})
    /\ seeding' = seeding \ {w}
    /\ offers' = offers + 1
    /\ UNCHANGED <<enabled, readable, barred, loaded, pending, power, events>>

\* The innermost question is answered.
OfferCloses ==
    /\ offers > 0
    /\ offers' = offers - 1
    /\ Advance(queue, active, running, pending, loaded)
    /\ UNCHANGED <<config, power, events>>

\* Mutant: an unexpected failure leaves the flag behind.
CycleErrorsBusy(w) ==
    /\ w \in running
    /\ Advance(queue, active, running \ {w}, pending, loaded)
    /\ UNCHANGED <<config, power, offers, events>>

\* _on_workspace_cycle_error: a worker that failed rather than returned.
CycleErrors(w) ==
    /\ w \in running
    /\ Advance(queue, FALSE, running \ {w}, pending, loaded)
    /\ UNCHANGED <<config, power, offers, events>>

-----------------------------------------------------------------------------
(* The configuration.                                                      *)

Happens == events < MaxEvents /\ events' = events + 1

\* Mutant: the pass in flight keeps its queue.
FilteredNot(known) == queue

\* reload_workspaces: the queue of the pass in flight is filtered too.
Filtered(known) == queue \cap known

\* Pause and Forget in the tab: saved, then read again.
Bar(w) ==
    /\ Happens
    /\ readable /\ w \in enabled
    /\ enabled' = enabled \ {w}
    /\ barred' = barred \cup {w}
    /\ \E forgotten \in {{}, {w}} : seeding' = seeding \ forgotten
    /\ Rest(Filtered(enabled'), active, running)
    /\ loaded' = enabled'
    /\ UNCHANGED <<readable, pending, power, offers>>

\* Resume.
Resume(w) ==
    /\ Happens
    /\ readable /\ w \notin enabled
    /\ enabled' = enabled \cup {w}
    /\ barred' = barred \ {w}
    /\ Rest(Filtered(enabled'), active, running)
    /\ loaded' = enabled'
    /\ UNCHANGED <<readable, seeding, pending, power, offers>>

\* A workspace is added, and a pass asked for, in whatever phase the
\* confirmation was left in.
Add(w) ==
    /\ Happens
    /\ readable /\ w \notin enabled
    /\ enabled' = enabled \cup {w}
    /\ barred' = barred \ {w}
    /\ seeding' = seeding \cup {w}
    /\ Tick(Filtered(enabled'), enabled')
    /\ UNCHANGED <<readable, power, offers>>

\* Another program writes workspaces.json, well or badly.  Nobody is told.
FileChanges ==
    /\ Happens
    /\ readable' \in BOOLEAN
    /\ enabled' \in SUBSET Workspaces
    /\ barred' = barred \ enabled'
    /\ UNCHANGED <<seeding, pass, power, offers>>

-----------------------------------------------------------------------------
(* The lifecycle.                                                          *)

\* _stop_workspace_sync; the cycle in flight is left alone.
Stop ==
    /\ timer' = FALSE
    /\ Rest({}, active, running)
    /\ pending' = FALSE
    /\ UNCHANGED loaded

\* _fx_start_polling.
Start ==
    /\ timer' = TRUE
    /\ loaded' = Readable
    /\ Rest(Filtered(Readable), active, running)
    /\ UNCHANGED pending

PowerOff ==
    /\ Happens
    /\ phase = "monitoring"
    /\ phase' = "draining"
    /\ drain' = DrainTicks
    /\ Stop
    /\ UNCHANGED <<config, offers>>

\* Mutant: a drain that gives up takes the bridge down all the same.
DrainedOrNot ==
    /\ phase = "draining" /\ (running = {} \/ drain = 0)
    /\ phase' = "off"
    /\ drain' = 0
    /\ UNCHANGED <<timer, config, pass, offers, events>>

\* Nothing is in flight: the bridge is taken down.
Drained ==
    /\ phase = "draining" /\ running = {}
    /\ phase' = "off"
    /\ drain' = 0
    /\ UNCHANGED <<timer, config, pass, offers, events>>

\* The drain has waited long enough: monitoring goes on.
DrainGivesUp ==
    /\ phase = "draining" /\ running # {} /\ drain = 0
    /\ phase' = "monitoring"
    /\ Start
    /\ UNCHANGED <<drain, config, offers, events>>

PowerOn ==
    /\ phase = "off"
    /\ phase' = "monitoring"
    /\ Start
    /\ UNCHANGED <<drain, config, offers, events>>

\* Time passes; a cycle does not outlast its limit, nor a drain its own.
Clock ==
    /\ running # {} /\ age < CycleTicks
    /\ phase = "draining" => drain > 0
    /\ age' = age + 1
    /\ drain' = IF phase = "draining" THEN drain - 1 ELSE drain
    /\ UNCHANGED <<phase, timer, config, loaded, queue, active, running, pending,
                   offers, events>>

-----------------------------------------------------------------------------
Init ==
    /\ phase = "off" /\ timer = FALSE /\ drain = 0
    /\ enabled \in SUBSET Workspaces /\ readable \in BOOLEAN
    /\ loaded = Readable
    /\ queue = {} /\ active = FALSE /\ running = {} /\ pending = FALSE
    /\ seeding = {} /\ offers = 0 /\ age = 0 /\ barred = {} /\ events = 0

Returns(w) == CycleReturns(w) \/ SeedReturns(w) \/ CycleErrors(w)

Edits ==
    \/ \E w \in Workspaces : Bar(w) \/ Resume(w) \/ Add(w)
    \/ FileChanges

Next ==
    \/ TimerTick \/ SyncNow
    \/ \E w \in Workspaces : Returns(w)
    \/ OfferCloses
    \/ Edits
    \/ PowerOff \/ Drained \/ DrainGivesUp \/ PowerOn \/ Clock

Spec == Init /\ [][Next]_vars

\* The timer fires, cycles end within their limit, users answer what they
\* are asked, and the drain polls.
Fairness ==
    /\ WF_vars(TimerTick)
    /\ \A w \in Workspaces : WF_vars(Returns(w))
    /\ WF_vars(OfferCloses)
    /\ WF_vars(Drained) /\ WF_vars(DrainGivesUp)

FairSpec == Spec /\ Fairness

-----------------------------------------------------------------------------
\* The types, and a flag that agrees with the workers.
TypeOK ==
    /\ phase \in {"monitoring", "draining", "off"}
    /\ timer \in BOOLEAN /\ readable \in BOOLEAN
    /\ enabled \subseteq Workspaces /\ loaded \subseteq Workspaces
    /\ queue \subseteq Workspaces /\ running \subseteq Workspaces
    /\ seeding \subseteq Workspaces /\ barred \subseteq Workspaces
    /\ active \in BOOLEAN /\ pending \in BOOLEAN
    /\ offers \in Nat /\ age \in 0 .. CycleTicks /\ drain \in 0 .. DrainTicks
    /\ events \in 0 .. MaxEvents
    /\ active <=> running # {}

\* At most one cycle is in flight, and the flag says so exactly while it is,
\* whatever mixture of ticks, questions, restarts and late results there has been.
SingleFlight == TypeOK /\ Cardinality(running) <= 1

\* A workspace that the tab has paused or forgotten does not begin another
\* cycle, from this pass's queue or from the pass that waits behind it.
BarredNeverBegins == [][(running' \ running) \cap barred' = {}]_vars

\* Once the lifecycle has stopped polling nothing begins, although results of
\* earlier cycles, answers and added workspaces still arrive.
NothingBeginsStopped == [][running' \ running # {} => phase' = "monitoring" /\ timer']_vars

\* Cycles begin for whom, and when, they may.
BeginsOnlyAllowed == BarredNeverBegins /\ NothingBeginsStopped

Stage ==
    CASE phase = "monitoring" -> "open"
      [] phase = "draining" -> "closed"
      [] phase = "off" -> "down"

Service == INSTANCE CycleService WITH Cycles <- Workspaces, stage <- Stage, inFlight <- running

\* The passes keep what the bridge is promised: a cycle replaces no other one
\* in flight, begins only while polling goes on, and none is left when the
\* bridge is taken down.
PassesKeepService == Service!Spec

\* Every workspace that stays enabled while the bridge is on is served again
\* and again: no failure, edit, question or drain leaves the scheduler stuck.
Served ==
    \A w \in Workspaces : []<>(running = {w} \/ w \notin enabled \/ ~readable \/ phase = "off")

=============================================================================
