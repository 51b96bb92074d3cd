# icloud-vm-for-linux: a TLA+ verification of the bridge

The program keeps iCloud Drive usable on Linux: a Windows guest in a container
runs Apple's client, the host mounts two of its SMB shares, and a Qt application
starts, watches, configures and stops all of it. This directory models the parts
in which order, failure and concurrency decide whether the program is correct,
checks them with TLC on small instances, and proves the most important ones with
TLAPS for every instance.

Paths below are relative to the repository (`src/` in `PROJECT.json`).

## 1. The system

| Component | State it keeps | Operations | Talks to |
|---|---|---|---|
| **Power helper** `host/icloud-bridge-power` | marker file, `flock`; acts on systemd units, mounts, the container | `on`, `off`, run as root | systemd, docker, the guest's SMB |
| **Lifecycle reducer** `gui/.../lifecycle.py` | phase, token, quit flag, scope, resume flag | one pure function from model and event to model and effects | the controller |
| **Controller** `gui/.../__main__.py` | timers, worker count, pending refresh, drain, provisioning run, caches, workspace queue | startup, snapshots, power, drain, provisioning, passes | reducer, window, power runner, workers |
| **Window** `gui/.../window.py` | I/O gate, apply in flight, dialogs, workspace rows | apply, restore, list requests, workspace edits | controller, bridge protocol |
| **Power runner** `gui/.../power.py` | none | inspection, `on`/`off` through sudo with a time limit | power helper |
| **Workspace cycles** `gui/.../workspace_sync.py` | snapshot, baseline, status, lock, the engine's archive and backups | one cycle: scan, decide, run Unison | local disk, the mount, Unison |
| **Workspace configuration** `gui/.../workspaces.py` | `workspaces.json` | load, save, add, pause, forget | window, scheduler |
| **Guest agent** `guest-agent/agent.ps1` | private state (roots, guarded parents, cursor), deny entries, `status.json`, `tree.json` | enforcement, reclamation sweep, full scan, list requests | bridge share, the iCloud folder |
| **Bridge protocol** `gui/.../bridge.py`, `backup.py`, `listing.py` | `exclusions.json`, requests and responses, the backup | publish a revision, ask for a folder, restore | agent |
| **Provisioning** `gui/.../guestprov.py`, `firstrun.py`, `provision/*.ps1` | run record, inbox (payload, trigger, secret), status, the watcher's accepted run | begin, stage, follow, deliver the secret, resume, abandon, connect, clean up | docker exec, guest |
| **Health, presentation, tools** | none that others read | classification, texts, reports | — |

What makes it hard:

* The helper is a shell script that changes six things outside itself, one
  command at a time; it can be killed between any two, the host can reboot, a
  user can open a file on the share, the health timer can fire, and a second
  invocation can be waiting.
* The GUI's operations finish in any order and late: results of superseded work
  land in a phase that expects the same event of newer work. Time limits kill
  `sudo`, not the root process behind it. Modal dialogs run an event loop in the
  middle of a handler.
* A workspace cycle looks at two folders at two moments, decides, and starts an
  engine that looks again later, while users edit both folders, the share
  vanishes, the app dies and the engine does not.
* The agent edits access lists one object at a time and records what it did
  afterwards, in a tree that users and the iCloud client change; it can stop
  anywhere, lose its records, and run out of time half way through a walk.
* `exclusions.json` is one file that the app, the operator, a provisioning run
  and other tools replace without a lock. The app's reads, writes and backups of
  it are workers that overlap, while a question about one of them is on screen.
* A request for a listing is a file that the agent may answer late, twice in
  effect (after a retry), badly or never, while the tree it is for is rebuilt.
* A provisioning run is a record on the host, a trigger in an inbox that a
  restart of the container empties, a mark in the guest and a status file. Each is
  written by itself, and the app, the guest or the container can end in between.

What makes each part correct is stated as the properties of section 3.

## 2. The modules

```
BridgeSwitch            what power on and off promise (abstract)
HelperCalls             what a call may answer and leave behind (abstract)
   ^ both implemented by
PowerHelper             the script, command by command      PowerHelper_proofs

HelperResults           the answers of HelperCalls, and all that is assumed of a helper by
Lifecycle  <- BridgeController   the reducer, and the application around it
                                                            BridgeController_proofs

CycleService            when a workspace cycle may be in flight (abstract)
   ^ implemented by BridgeController, and by
WorkspaceScheduler      which workspace gets a cycle, and when
                                                            WorkspaceScheduler_proofs
   each of which is one of
SafeWorkspace           scans, guard, engine and records of one workspace
                                                            SafeWorkspace_proofs

GuestSelection          what the guest promises about selections (abstract)
   ^ implemented by
ExclusionsFile          reads, applies, restores, backups   ExclusionsFile_proofs
   and, in the guest, by
AgentEnforcement        access lists, private state, full scans
                                                            AgentEnforcement_proofs
   the same agent answers
ListRequests            requests, polls and pages of the tree
                                                            ListRequests_proofs

SetupRuns               what host and guest promise about setup runs (abstract)
   ^ implemented by
GuestProvisioning       the runs inside the "provisioning" phase of BridgeController
                                                            GuestProvisioning_proofs
```

Each `MC*` module holds the instances TLC checks; `PROJECT.json` maps every
definition to the lines it models.

Modules are not composed into one state space: what one of them assumes of another
is written down as an abstract specification, which the other one implements, or
which both of them do. `HelperCalls` stands between script and application,
`CycleService` between the application and its scheduler, `GuestSelection` between
those who write selections and the agent that enforces them.

### PowerHelper, BridgeSwitch and HelperCalls

State: the marker, the armed automounts, the mounted and busy shares, the health
timer and a health run, the container, whether the guest answers SMB, the lock,
and for each invocation its next command (`pc`), its locals and its exit code.
Each action is one command of `off`, of its rollback, or of `on`, with the
outcomes that command can have. `Kill` ends an invocation before any command;
`Reboot` loses everything but the disk (arming follows the units' conditions).
The environment is external and unconstrained: users open and close files and so
trigger automounts, the timer runs health checks, somebody drives docker by hand,
the guest answers or does not. `calm` turns true once, when no command fails any
more: the liveness properties start there.

`BridgeSwitch` is the promise: what is recorded, what is mounted, and which
answers may be given in which state. `ImplementsSwitch` states that every step
of the script is one of its steps or a stutter.

`HelperCalls` is the helper as its callers see it: a process waits for the lock,
works, and ends with an answer, or is turned away or killed. `Results` (in
`HelperResults`, which the controller extends too) says what an answer means: "ok"
is the state asked for, and an `off` leaves a bridge that is off as it is, however
it ends. The bridge a caller sees is the marker, the automounts, the mounts and the
timer together: `on`, `off`, or `partial` in between, also while an `off` may still
roll back. A restart of the host settles only what is in between. `ServesCalls`
states that the script implements this, for overlapping invocations, under users,
health checks and kills: none of these takes an off bridge out of that state.

A command that changes the marker can fail too, and `set -e` ends the script
there (`MarkerFails`, `Aborts`), before the next command and with the marker as it
was. What that means is stated openly: a rollback that cannot remove the marker
leaves it (`OffEndsWhole`), and an `on` that cannot write it back at line 383 ends
half-way (`OnEndsSafe`, and the differences of section 3).

Left out: the wording of messages. A `docker start` that fails may or may not have
taken. Writing the marker is one step (`install` replaces one that is there, in two
system calls), and a marker that has been written outlives a reboot (the script
does not fsync it).

### Lifecycle and BridgeController

`Lifecycle` translates `reduce`: for each phase and event the next phase, token,
flags and the effects in order. `BridgeController` runs those effects and adds
everything that happens around them: tasks in workers by kind, of which some
carry the current token (`live`) and some an old one; helper calls with their
stage, owner and answer, which outlive the app and end by themselves; the drain; the modal dialogs,
innermost last; snapshots and the forced refresh that waits for a running
gather; provisioning as a held or watched run with its probe and polls.

Tokens are compared only for equality with the current one, so a task is either
current or stale. Painting, notification and tray texts are no state. A helper
call ends with any of `Results`, and so leaves the bridge `on`, `off` or `partial`
as `HelperCalls` allows; changes nobody in this app causes are in `PowerHelper` and
not repeated here.
A provisioning chain is one `prepare` task per stage; what happens in it is
`GuestProvisioning`. `Launch` waits for nothing, as `main` does not: helpers of
earlier sessions may be at work, or within their 60 s of waiting for the lock.
`overtaken` is a history variable: an `on` that nobody owns any more has got the
lock in this session, and no helper of the session's own has since.

### WorkspaceScheduler and CycleService

The timer, the queue of a pass, the in-flight flag, the pending pass, the
configuration on disk and as loaded, and the offer to open Obsidian, whose modal
dialog stands between the end of a cycle and the continuation of its pass. The
queue is ordered by id, so it is a set whose least member is next. The lifecycle
is reduced to monitoring, draining and off. The offer is also made by a reload of
the rows (`window.py:1768`); here it comes with the end of a first copy only. Time
passes in ticks of 20 s: only
the drain's patience and a cycle's age use it.

`CycleService` is what scheduler and controller both promise the bridge: cycles
begin while it is served (`open`), one at a time; a stop keeps new ones out
(`closed`), and "the drain gate is what waits for" the one in flight
(`_stop_workspace_sync`, `__main__.py`) before it is taken `down`. The scheduler
says whose cycle it is (`PassesKeepService`); the controller only counts them, so
the next cycle of a pass is a stutter there (`CyclesKeepService`), but it has the
requests, late results and helper calls around them.

### SafeWorkspace

A folder maps paths to versions (what `scan` records of an entry). A cycle scans
the remote folder, then the local one, then decides: first-run refusals,
stability against the pair of an earlier poll, the guard against the baseline,
and the engine. Unison is external and modelled by what the options in
`build_argv` make it do: it looks at both roots itself, aborts on a replica that
is gone or emptied when it has an archive (`-confirmbigdel` with `-batch`), brings
over paths changed on one side, skips those changed on both, saves what it
replaces (`-backup "Name *"`), checks a file again before it replaces it, and
writes its archive last. A run can be killed by its time limit, or be orphaned by
a crash of the app and go on, or die. Users edit and delete on both sides, several
paths at once when a guest does not show them; the share goes away and comes back.

Assumptions about Unison that the repository does not state: a killed run leaves
no lock that blocks the next one, its check-then-replace of one file is atomic,
and the ten versions kept per path (`-maxbackups`) are not exhausted. Left out:
free space, the version probe and status files (`CycleFails` stands for any
error before the engine).

### AgentEnforcement

An item is its place in the order of the walk, which puts a folder before what it
holds; 0 is the sync root. Of an access list only the agent's own two entries
matter: the deny on a target, which hides what is below it too, and the guard on
a parent. `config` is `exclusions.json`, `saved` is `applied.json`, `mem` the
private state in memory, `wantedRoots` what scans go by. A pass is a sequence of
actions, one per entry added or removed, from `BeginPass` (or `ConfigRejected`)
to `Persist`; a scan goes from `BeginScan` over `Visit` or `PassBy` for each item
to `EndScan`. `due` holds the timers that have run out, and the dirty tree.

Between any two of these: the agent dies, with or without its state file
(`Crash`); a selection is published, readable or not, with a new or a reused
revision (`Publish`); items appear, disappear, or are moved by the client with
their access list; an access list becomes uneditable and editable again (`Lock`);
a save fails; a folder cannot be listed. `MaxEvents` bounds these. `Slow` says
whether the budget of a scan can be used up before its first read: it starts with
the walk, so passing by what lies before the cursor uses it as well.

`SavedOnlyForward` states that the agent implements `GuestSelection`: `enforced` is
what `applied.json` has recorded, `pending` what a pass or the memory carries and
has not yet saved. Between publishing and recording lie the walk of a pass, saves
that fail, scans that save what a pass could not, and deaths at any of these.

Left out: dehydration and its verification, the sweep, the tree and status files,
and entries that a moved item has inherited (the agent reads explicit ones only).

### ExclusionsFile and GuestSelection

State: the file, the backup on the host, what the agent has recorded (`applied`),
what it goes by and could not record yet (`held`), what it has read (`taken`), what
the window has loaded and staged, the highest numbers seen, the open questions
(innermost last), and what each worker of the pool is doing. Each read ends in
`Look` and `Replace`, the two halves of `backup.save`; a write is `Reread`,
`Publish` and the same two. Between `Reread` and `Publish` anybody else may
replace the file. `Confirm` takes the expected revision after the answer, as
`window.py` does. Around it the agent reads, records, fails to record or restarts
(`AgentReads`, `AgentRecords`, `AgentStops`), other writers publish or put back
an old document, the file is spoiled, the backup is lost or cannot be read
(`BackupSpoiled`: the next read replaces it), the VM is rebuilt, the gate closes and
opens, and the app restarts. What the agent reports is what it has recorded, which
lags behind what it goes by while a save fails.

A document is a number and a set of paths; whether a path lies in another is a
constant. Validation is one test (`Nothing` stands for missing or malformed). The
questions' wording, and the D35 checks that only withhold a button, are left out.

`GuestSelection` is the promise: the guest enforces only what was proposed, goes
from one selection to the next by a higher number alone, and begins again only
when it is new or has lost its state. Reading (`Take`) and enforcing (`Enforce`)
are two steps, so something else may be proposed in between. `GuestOnlyForward`
states that `ExclusionsFile`, with its agent in three actions, implements it;
`AgentEnforcement` implements it with the agent in full.

### ListRequests

State: `FolderRequests` (generation, states of the folders, requests with the tag
they are recorded under), polls in flight, the poll timer, the gate, the rows of
the tree, and what lies on the share for each request. `Expand` and `Activate`
claim a folder or a "Load more" row; `Write`, `Dispatched` and `Refused` are the
worker and its two results; `Tick` is a tick of the timer with any set of expired
requests; `PollReads` and `PollReturns` are the poll; `Answer` is the agent.
`Rebuild`, `Quiesce` and `Resume` are the reload, the power off and the way back.

Request ids are random and never repeat, so they are numbers in order of use.
A page's content is its number. A deadline may pass at any tick.
`spoiled` records that something was done to a tree on behalf of an older one
(a claim given back, an answer shown, the books reset under the rows): the
properties about rows are stated while it is empty, see section 4.

### GuestProvisioning and SetupRuns

State: the container with its boot and inbox, the watcher's accepted run, the run
that executes, the status file; the app's record, phase and followed run, and what
it has once read of Docker (`absent`, `gone`); one staging job command by command
(`job.next`), one poll, cleanups in flight. `forgotten` is a history variable: the
note of a VM was discarded while the VM was there or on its way.
A first run goes from the record over `docker compose up` to the stage; a
re-provisioning starts from an intent; both go on with channel, check, reset of
the inbox, payload, trigger. `Starts` is the decision of a starting app from
record, probe and status. `AppEnds`, `Reboots` (Windows, or the container with
its `/run`) and `CommandFails` may fall between any two commands, and a command
that timed out may have been executed. `docker compose up` may fail and have made
the container all the same, or outlive the app (`orphan`, `OrphanComposes`); other
commands of an app that ends are cut off where they are. `AskCreate` and `Discard`
go by what the app has read: the container state of the last readiness checks
(`Rechecks`), and the classification of the record when the app was started. A
record that cannot be written or removed, or a mark the watcher cannot write, is a
failed command (`CreationFails`, `Discard`, `MarkFails`).

One timing is assumed: the watcher does not read the inbox between the two
commands of a cleanup (`WatcherReads`). It looks every 30 s; a command is given
20 s, and normally takes a fraction of one.

`SetupRuns` is the promise of host and guest together: runs are drawn by the app
and settled by the guest in the same order, each started at most once and one at a
time; a run sets the password that was left for it; and what the operator is told
is done has ended well, for as long as it is said. `KeepsRuns` states that
`GuestProvisioning` implements it: `settled` are the runs up to the watcher's mark,
so a staging that fails, or one the guest never sees, is passed over.

Left out: the candidate disk and the Compose file, the validation matrix of a
status document (a document acknowledges a run or does not), heartbeat texts, and
what `guest-setup.ps1` installs: a run works, may ask for the secret, and ends.
The mark, the start and the first status of a run are one step (`RunStarts`): a
guest that stops between them, or a script that throws before its first status
(`guest-setup.ps1:333-348`), leaves a run that is accepted and never heard of. A
record that cannot be removed when a connect has succeeded stays.

## 3. What the runs check

`PROJECT.json` lists each run with its properties; a mutant of the model, a
plausible bug in the mapped code, violates each property of a passing run.

| Run | Instance | Shows |
|---|---|---|
| `power_safety` | 1 invocation, 2 shares, 2 attempts, fair | answered `off` and `on` are durable, also with marker writes that fail; a kill or reboot leaves the timer over verified mounts only, and the marker with no guest stopped outside its window; both commands end whole, with the one exception stated in `OnEndsSafe`; every step is a step of `BridgeSwitch`; every call ends, and from every partial state a transition that meets no further failure ends as asked |
| `power_overlap` | 2 invocations, 1 share | with overlapping callers: nothing is mounted when the guest stops, which is what the lock is for, and the helper is what its callers take it for (`HelperCalls`); the other properties hold there by the proofs |
| `app_all` | every request, 1 other task in flight | every door into and out of a phase leaves timers, gate and work fitting it; nothing scheduled overlaps the helper; every step is one of `CycleService` |
| `app_power` | power requests, 2 tasks, tray during dialogs, fair | "powered off" is true when it is said, with orphans of timed-out calls and of earlier sessions about, but for an `on` that waited for the lock across a restart of the app; transitions end; monitoring shows a fresh gather |
| `ws_cycles` | 3 paths, threshold 2, 3 versions, 2 outside events, fair | no version lost, no only copy replaced, an empty side empties nothing; what vanishes together from a quiet, known workspace is not deleted elsewhere; a workspace left alone settles |
| `ws_unguarded` | the same, 2 versions | a mass deletion that the guard does not see |
| `sched_passes` | 3 workspaces, 3 events, fair | one cycle at a time, none for a paused workspace, none once stopped; every step is one of `CycleService`; every enabled workspace keeps being served |
| `agent_safety` | a folder, a file in it, a file beside it; any selection at first; 2 events | a refused configuration takes nothing off; what stays excluded stays hidden while protections change; the licence to skip a walk's reads is right about all it has read; what is recorded only goes forward (`GuestSelection`) |
| `agent_liveness` | a folder and a file in it, 2 events, fair | in a calm world what is selected ends up protected and the rest reachable |
| `excl_safety` | a folder and an item in it, 2 workers, revisions to 3, 5 events | the guest refuses a document only after somebody replaced the file unseen or put back an old one; the backup of a lost VM outlives every automatic read, as long as it can be read itself; the guest only goes forward (`GuestSelection`) |
| `list_requests` | 1 folder, 2 pages, 3 requests, 1 reload or power off, fair | every claim is held by a request that will end it, the timer runs exactly while there is something to poll for, no page is shown twice, and no folder stays "loading" whether or not the agent answers |
| `prov_safety` | 2 runs, 2 interruptions of different kinds, fair | no run is executed twice, takes another's password or is called done that is not; a half-made VM stays known unless its note is discarded on a reading of Docker that is out of date; every step is one of `SetupRuns`; a followed run ends where nothing restarts |

Some properties are conjunctions of named parts, each checked as a whole:
`Durable` (`OffStaysOff`, `OnStaysOn`), `SafeWhenInterrupted`
(`TimerOverLiveMounts`, `MarkerOutsideWindow`), `Reconciles` (`EveryCallEnds`,
`OffReconciles`, `OnReconciles`), `PhaseIsServed` (`IoFollowsPhase`,
`TransitionHasDriver`, `ForcedPassHasCarrier`), `BeginsOnlyAllowed`
(`BarredNeverBegins`, `NothingBeginsStopped`), `Converges` (`GetsProtected`,
`GetsReleased`). `TypeOK` of each module is the first conjunct of one of its
invariants: `Durable`, `PhaseIsServed`, `SingleFlight`, `NoVersionLost`,
`LicenceIsHonest`, `RefusedOnlyByRace`, `ClaimsAreHeld`, `VmIsRemembered`.

**Bounds.** Two shares are enough for "one share is unmounted, the other is
not", two invocations for the lock, two attempts for an attempt that fails before
one that works. Two tasks of a kind are enough for a stale and a current one; a
third behaves as the second. Two helper calls cover an orphan, of this
session or of one before, beside its retry.
`app_all` allows one task besides the
operator's next request, `app_power` two, and the helper calls of both are two.
Three paths with a threshold of two separate below, at and above the threshold,
and leave a path over, without which the engine's own check would hide the
guard's; three versions give an old one and one new one on each side. Two
outside events suffice for the schedules the code is written against, an edit or
deletion on each side, an edit and a crash, a deletion and an unmount; with three
events and two versions the safety properties were explored once more (2.0 million
states) and hold. In the scheduler a tick is 20 s, so a drain waits for 2 and a cycle may
take 6; in the controller the drain's ticks only need "not yet" and "given up".
Three workspaces give a queue that still holds one when another is paused.
Symmetry is used where a run has no liveness property and its values are
interchangeable (`ws_unguarded`, the workers of `excl_safety`). For the agent a folder with a file and
a sibling give nested and disjoint selections, guards on the root and on an item,
and a cursor with something on either side; since the first selection is
arbitrary, two events are a change of selection and one failure in it. For the
exclusions file two workers are two overlapping saves or a write beside a read;
revision 3 is reached by a write over the document of another writer, and five
events are an edit, its Apply, another writer, a rebuilt VM and one more; what
the operator does and what interferes share the bound. A folder's requests do not
depend on another folder's, so one folder with two pages has the first page, a
continuation, and a third request for a retry or an old tree; two folders were
explored once and hold as well. Two provisioning runs are a run and the one whose
leftovers, late polls or cleanups it meets; of the interruptions each kind (app,
guest, command) happens at most once per behaviour, two in all.

**Fairness.** Helper: a started script keeps running, and `flock -w` either
hands the lock on or times out; nobody promises that a user acts or that Windows
boots. Controller: tasks with a time limit land (inspection, gathers, helper
results), the drain timer ticks, a lock wait ends. No fairness on timers that
merely refresh, on operators or on reads that may hang on a mount: the drain has
to cope with those. Workspace: the five-second timer calls for cycles, a running
engine proceeds, and an unmounted share comes back (`Settles` is about a
workspace whose share is there; while it is not, cycles only wait). Scheduler:
the timer fires, cycles end within their limit, the drain polls, and a user
answers the question the app asks; until then the queue waits, and no other
workspace of that pass is served. Agent: its loop goes on, each of its timers
runs out again and again, and a scan gets at least one entry further
(`Slow = FALSE`): a library whose walk up to the cursor takes the whole budget is
never reconciled behind it. List requests: workers end and deliver, and a
running timer fires until the deadline of each request has passed; the agent owes
no answer and nobody owes a resume. Provisioning: the app polls, the operator
selects the file when asked, and what runs in the guest gets on; nobody has to
restart what was interrupted. The exclusions file has no liveness property:
nothing happens to it unless somebody acts.

**Deadlock** is checked, except in `list_requests` and `prov_safety`, where all
requests or runs that the bound allows may have been used and everybody is at rest.

### Where documents and code disagree

`ws_unguarded` violates the sentence it quotes (`findings` has the details): a mass
deletion always goes `guarded`; but the baseline is what was scanned before the
last clean run, so the paths which that run created are not covered until the next.

The models also have these behaviours, which no run is about; each contradicts
the sentence it names.

Power and lifecycle:

* A killed transition leaves the marker, "fail safe = off"
  (`host/icloud-bridge-power:25-27`): `on` removes the marker before it tries the
  mounts; killed there, the bridge is armed at the next boot. `MarkerOutsideWindow`
  states what holds. The same window is left open without a kill where
  `create_marker` fails after a failed attempt (`host/icloud-bridge-power:383`):
  `set -e` ends `on` with no marker, armed automounts and perhaps one share mounted.
  Elsewhere a marker that cannot be written or removed stops the script before it
  has changed anything else, or leaves the marker, which is the safe side; a
  rollback that ends so (line 216) does not restart the automounts and the timer.
* "Already off, durably: the marker and the stopped VM outlive this process"
  (`__main__.py:2132-2133`), so a Quit there calls no helper: `main` (lines 2721-2725)
  closes its socket and waits for no helper. An `on` that waits for the lock (60 s)
  when its app is quit turns the bridge on after a new session's `off` has answered,
  and that session goes on saying "powered off". `PoweredOffIsOff` excepts it.
* No CIFS access before the helper says the shares are live (`lifecycle.py:4-6`):
  Quit or power off during startup whose drain times out (40 s against the
  helper's 300 s) resumes I/O and polling while `on` runs (`lifecycle.py:541`).
* A timed-out power off never resumes polling (`__main__.py:2282`): its retry fails
  on the lock of the orphan, and that failure resumes polling.
* A power off that fails after the unmount, without rolling back
  (`host/icloud-bridge-power:269-302`), takes the abort path of which
  `lifecycle.py:421` says that nothing was torn down (`POWER_OFF_FAILED`).
* "A *fresh* gather" settles a re-provisioning (`__main__.py:2359`): one begun
  before it does too (`SnapshotApplied` while `verifying`).
* Callbacks carry the token of their dispatch (`lifecycle.py:19`): that of
  *Check setup and connect* carries none (`__main__.py:1008`).
* A run "must follow a `PROVISION_BEGIN_*` event" (`__main__.py:1127`): it begins
  also when the reducer has refused the event.
* The 120-second limit of a cycle "guarantees" that the drain releases
  (`docs/plan-safe-local-workspaces.md:616`): the drain gives up after 40 s.

Workspaces:

* Interrupted runs are repeated and need no action (`README.md:488`): an interrupted
  first copy is refused as a populated folder until the user empties it.
* A cycle stopped by its limit reports that both folders were left as they are
  (`workspace_sync.py:948`): the engine is killed wherever it was.

Agent:

* After a complete, clean pass no orphan deny can exist
  (`docs/plan-gui-selective-sync.md:761-763`): a walk that resumed behind a cursor
  counts as complete (`agent.ps1:1877`), and what lies before it is not looked at
  again. `LicenceIsHonest` states what the licence does stand for.
* Every new deny is applied before an obsolete one is removed
  (`docs/plan-gui-selective-sync.md:211`, D22 (e)): when a new one cannot be
  applied, the old ones are removed all the same. `StaysHidden` is about passes
  that report no error.
* An unwritable private state at the end of a pass leaves the old roots in force
  for scans, and the next full scan takes the new denies off until the next pass.
* Reconciliation covers the full tree (`docs/plan-gui-selective-sync.md:751`): a
  guard on the sync root itself is never looked at, a folder that cannot be listed
  counts as empty, and an error in the first part of an interrupted walk is
  forgotten by the part that completes it.

Selection and listings:

* The gate holds back new bridge I/O (`window.py:2226`): Apply and Restore look at
  it before their question and not after (`window.py:3009`), so one confirmed after
  a pause still starts its write.
* Apply expects the revision the operator saw (plan `:1534-1536`): it takes
  `_loaded_revision` after the question (`window.py:3129`), so a reload that ends
  under the question changes the expectation, and one that fails removes it.
* Edits staged while a reload is in flight are gone when it ends (`ReadDone`).
* A revision is above everything the guest has seen (`bridge.py` counts from the
  file and the report): the report is of what was saved, and the guard against old
  revisions goes by the memory (`agent.ps1:1486-1489`, `agent.ps1:2016`). Where the
  file has been spoiled and a save failed, a writer reuses a number that the agent
  already goes by, and is ignored. `RefusedOnlyByRace` excepts a write over an
  unreadable file.
* Two saves of the backup that overlap can leave the older document in it
  (`Replace` in `ExclusionsFile`; `raced`).
* "Apply" in flight disables Restore: when two writes overlap, the first to end
  clears the flag (`window.py:3159`).
* A request of an old tree is inert (`listing.py:17-18`): it is tagged when its
  write returns, with the generation of then (`listing.py:98`), so one begun before
  a reload releases or fills a folder of the new tree. What is pending has always
  the tag of now: the comparison of generations in `take` and `fail` never differs.
* A power off resets the requests and leaves the rows (`window.py:2238-2245`): a
  folder expanded before it can be expanded again and shows its page twice, and a
  row that was "Loading…" stays disabled until the next reload.

Provisioning:

* An accepted run survives a reboot (`firstrun.py:822`, `test_firstrun.py:786`): the
  watcher comes back and never starts an accepted run again. Its status says
  "working" for ever, the app follows it for ever, and every new staging is refused
  because of it (`guestprov.py:556`). `UndisturbedRunEnds` states what holds.
* The record names the run in the inbox (`firstrun.py:638`): a re-provisioning's
  intent replaces it before the trigger of that run is removed (`__main__.py:1162`).
* "Forget a record Docker has disproved. Deletes nothing else (D39)."
  (`__main__.py:786`): *Discard* goes by the classification of the record when the
  app was started (`_record_state`, line 787), and neither *Create VM* nor its
  failure (lines 939-942) renews it. After a Compose that failed and had made the
  container, or one that outlived an earlier app, the note of a half-made VM is
  discarded, and the next start takes the VM for a finished one. `VmIsRemembered`
  excepts this case by `forgotten`.
* A restart between that intent and the record of its staging resumes as a first
  run, which resets the share password.
* "Abandon…" and *Check setup and connect* are offered while a healthy run goes on:
  the one lets the next staging be refused, the other clears the record of a live
  run.
* A cleanup reads the trigger and removes it in two commands
  (`guestprov.py:892-917`): a staging in between loses its trigger and its payload,
  and nothing repeats it before the app starts again.
* A run that waits for a secret and that nobody follows blocks every other; an
  unreadable status blocks none.

## 4. What is proved

`PowerHelper_proofs` proves, for any number of shares, invocations and attempts:
`StopsGracefully`, `AnswersAreDurable`, `InterruptionFailsSafe` (invariants),
`OffEndsCleanly`, `OnEndsCleanly` (action properties, with the marker writes that
fail), `HelperImplementsSwitch` and `HelperServesCalls` (refinements). The assumptions are those
on the constants declared in `PowerHelper`; the environment is arbitrary.

The argument: that nothing is mounted at `docker stop` is not inductive, because
it was established several commands earlier and because other processes run in
between. `IInv` therefore holds four things: types; `Mutex`, an invocation is
inside a transition exactly while it holds the lock; `At(p)`, which says for each
command what the commands before it have established (marker recorded, timer
quiet, automounts disarmed, shares below the loop index unmounted, ...); and the
durability of answers. `At` survives the environment because nothing but the
helper arms an automount while the marker is there, and an access mounts only
what is armed; it survives the other invocations by `Mutex`. There is one lemma
per command, per kind of environment step and for kills, and two lemmas for the
ways a step moves its invocation (`GotoLemma`, `ExitLemma`). Refinement maps each
command to the step of `BridgeSwitch` it is, using `IInv` for its precondition.

For `HelperServesCalls` the invariant needs one more part: a rollback ends with the
failure that began it (`Owes`), so it never answers "ok". Inside the lock only its
holder moves (`GotoAlone`, `RollBackAlone`, `ExitAlone`), which makes each command
the `Work` of one process, or its `End`. What is left to show of it is that it gives
one of the `Results`: `OkIsTrue`, since the last command of either verb has seen what
it answers, and `OffKept`, since an `off` that found the bridge off found the marker
and never removes it. A bridge that is off stays off under users, timer and kills
(`OffSeen`), because nothing is armed and the timer is quiet.

`BridgeController_proofs` proves of the reducer, for every model and event: it stays
in its vocabulary (`ReducerTyped`), a row that ends outside monitoring asks for no
effect that touches the mounts and one that leaves monitoring stops the timers
and closes the gate (`ClosedOutsideMonitoring`), and a row that enters monitoring
opens them and forces a refresh (`OpenInMonitoring`). Of the controller it proves,
for any requests, drain, and number of tasks, dialogs and helper calls, from
`ControllerAssumption`: `PhaseServed` (`PhaseIsServed`), `DrainedForOff`
(`DrainedWhileOff`), `OffIsTrue` (`PoweredOffIsOff`) and the refinement
`CyclesServe` (`CyclesKeepService`).

That "powered off" is true when it is said is not inductive: the helper answered
some time ago, and an orphan of an earlier call may work on. `IInv` adds that an
answer "ok" of a current `off` still holds when it is handled (`OffStands`): its
phase was drained, so no other helper is the app's own (`DrainedWhileOff`), and of
the helpers that an app has left behind an `off` leaves an off bridge as it is
(`Harmless`, by `HelperResults`), while an `on` that gets the lock makes the session
`overtaken`; one is at work at a time (`OneWorking`). That the drain and the token of the
inspection belong to one phase each is `Apart`. The handlers differ in three things
only: the reaction they perform, the work they say is in flight, and the tasks they
begin. `Fits` is what every row promises (one or two rows, by `RowFits` and
`ReactFits`), `Legal` what the work allows a row to ask for, `WorkLess` and `Same`
what a handler may have taken from the work; `PerformKeeps` and `QuietKeeps` conclude
for all handlers, and each action only shows that it hands over such work. A valid
reaction replaces the driver of the phase (`ValidKeeps`), an invalid one or none
leaves it in flight. A helper ends only by `Results`, so these theorems rest on
nothing of the script but what `HelperServesCalls` proves of it.

`CyclesServe` adds to `IInv` that no cycle is in flight while the bridge is powered
off (`Rested`). Every handler either leaves the cycles alone and enters "powered
off" only without one, or ends the app (`Spared`); the few that begin or end a cycle
are `Begin` and `End`. Whatever else moves the stage opens, closes or takes down,
and while it is down no cycle is in flight, by `DrainedWhileOff` and `Rested`.

`WorkspaceScheduler_proofs` proves for any finite set of workspaces and any
limits, from `SchedulerAssumption`: `OneAtATime` (`SingleFlight`),
`OnlyAllowedBegin` and the refinement `PassesServe` (`PassesKeepService`). That one
cycle is in flight is not inductive: a second one is kept out by the in-flight flag,
so the flag has to agree with the workers (`TypeOK`, which `SingleFlight` contains),
and that a paused workspace does not begin needs that
nothing barred is left in the configuration, as stored or as loaded, or in the
queue (`Unbarred`). All handlers that begin a cycle go through `Advance`, so
`AdvanceKeeps` carries most of the proof and the handlers only supply what it is
given. In the refinement a step changes either the stage or the cycles, never both
(`OneOrTheOther`), and takes the bridge down only with none in flight.

`SafeWorkspace_proofs` proves for any finite set of paths, any thresholds of the
guard (`GuardAssumption`) and any number of versions and events: `VersionsKept`
(`NoVersionLost`), `EngineSparesOnlyCopies` (`OnlyCopyKept`), `EmptySideHarmless`
(`EmptyNeverSpreads`) and `MassDeletionStopped` (`MassLossHalts`). What both folders
hold, what the engine has found equal and what it is going to record as common has
been in both folders (`Meeting`); a fresh version is nowhere (`Fresh`), so two users
cannot write the same one. A path is carried over only onto what the archive says
(`CarriedOver`), which is why nothing that exists once is replaced, and what is
replaced is saved. An engine with an archive that finds a side empty does not start
to copy (`Emptied`). The guard is the longest argument: from the moment paths vanish
from a quiet workspace until a user writes one of them there, no engine runs, no
baseline is written, and every scan of that side is one that lacks them (`OnHold`),
so each cycle that decides is guarded (`HoldGuards`); a second deletion in that time
is not one of a quiet workspace. `FolderSteps` and `EngineSteps` say once which steps
touch the folders and the engine's books. All of it rests on what the model says of
Unison (section 3).

`AgentEnforcement_proofs` proves for any tree of items (`TreeAssumption`) and any
number of outside events: `ConfigFailsClosed`, `ExclusionsStayHidden`,
`LicenceHonest` and the refinement `AgentImplementsGuest` (`SavedOnlyForward`). None
is inductive, and each needs more than the last. `Base` has
the types, that access lists belong to things that are there and a folder goes
with what it holds (`Structure`), that the configuration is refused only between
passes (`Refused`), and that what came during a pass came with all below it
(`NewBelow`). `Asserted` says, for each step of a pass that has reported no error,
which part of the selection is denied by now: before the first removal, all of
it. An item that both selections exclude is hidden by a root of the new one then,
and that root is never among those to remove. `Licensed` says what the licence
stands for while it lasts; `Walking` is the loop invariant of the walk that may
give it: an agent entry is ahead of the walk, or in one of the histories, or the
walk will not count as clean. The facts about paths they rest on
(`PathIsUpward`, `PathOfPath`, `WithoutSubtree`, `WithoutLeaf`) follow from
`PathOf` being the least set that has with an item its folder. The type invariant
is part of `LicenceIsHonest`; its one part with a reason is that each copy of the selection is
an antichain. A start takes what was denied for what is wanted, so `Chains` adds
that what a pass has denied, or a state says was denied, is part of what it wants. The refinement rests on `Numbers`: what a pass
applies is ahead of what is in memory, and that of what is on disk, by its revision,
or is the same document. So a save takes the disk forward or not at all; and what is
carried and not yet saved (`Carried`) only shrinks, except where a pass begins, which
is a `Take` of what is published then.

`ExclusionsFile_proofs` proves for any paths, any number of workers and any
number of events: `GuestIsNotStuck` (`RefusedOnlyByRace`),
`BackupSurvives` (`KeptThroughRebuild`) and the refinement `ImplementsGuest`. The
two invariants are about what is on disk; what makes them inductive is what each
worker knows of the number it is about to write (`TaskOK`): the new document's
revision is above the one it has read again and above its floor, and a read that
is about to replace the backup is above the backup it has seen. If nothing came
in between, the number is above all that the guest has recorded, goes by or has
read (`NumberedAbove`); if something did, `Publish` and `Replace` say so in `raced`.
The refinement needs that these three follow one another (`GuestOrdered`). `HighestOfTwo` and `NextIsHigher` carry
the arithmetic.

`ListRequests_proofs` proves for any folders, pages, requests, reloads and power
offs: `ClaimsHeld` (`ClaimsAreHeld`) and `PagesShownOnce` (`PagesOnce`). That every
claim has its request is not inductive alone: a request that ends gives back what
it names, so what it gives back must be its own. `IInv` adds the other direction
(`Claimed`), that no two current requests are of one folder (`Alone`), and that
the pages shown all come before the one a continuation asks for (`InOrder`), as
long as the tree is not `spoiled`. `SameBooks` does the steps that leave the books
alone, `GivesBack` all the ways in which claims end.

`GuestProvisioning_proofs` proves for any number of runs, restarts, crashes and
failures: `HalfMadeVmIsKnown` (`VmIsRemembered`), `NoRunTwice` (`RunsOnce`),
`SecretIsItsOwn` (`OwnSecret`), `DoneIsDone` (`ConcludesOwnRun`) and the refinement
`RunsAreKept` (`KeepsRuns`). That a half-made VM is known needs that whatever is on
its way is known as well (`Switches`, `Remembered`): a Compose that is about to run,
or runs on after its app, has a record or a note that was discarded. Four facts carry it. The host only ever deals with the newest run (`Newest`): there is one
worker, and it is the one that draws ids. What the guest has accepted only grows,
and a trigger is never older than it (`Accepted`), so a run that is being copied in
is newer than all that ever ran. A secret is for the accepted run, or was left by a
run before it with no trigger written since, because staging empties the inbox
first (`Secrets`). A worker or poll that is still listened to fits what the app is
doing (`Workers`), so what it reads is of the run the app follows. `Frames` does the
parts an action leaves alone; `InIs` to `AppliesIs` say what the operators make of
the records. `RunsAreKept` adds that what the operator reads as done is done (`Told`),
also when a later run is begun: `ReportMoves` says what a step may do to the report,
`Settles` which steps move the watcher's mark, each by one run that was drawn.

Only model-checked: liveness (`Reconciles`, `TransitionsEnd`, `FreshView`,
`Settles` twice, `Served`, `Converges`, `UndisturbedRunEnds`), which needs ENABLED
and fairness. Every invariant, action property and refinement of the runs has a
theorem.

## 5. Plan

Done, in this order: the power helper and its promise, with proofs; the reducer
and the controller, with proofs; the workspaces, from the outside in, with proofs; the agent's access lists;
the exclusions file and its promise, with proofs; the list requests, with proofs;
provisioning, with proofs; the specifications between the modules (`HelperCalls`,
`CycleService`, `GuestSelection` on both sides, `SetupRuns`), with proofs. What would
come next:

1. `ReclamationSweep`: dehydration requests, verification episodes and the
   two-stage sweep of the agent, against users and budgets.
2. Pure algorithms: `evaluate_guard` at its thresholds, the order in which a scan
   resumes.

## 6. Not modelled, and why

* Presentation (tray, theme, filters, sizes, reports, UI state) has no state other
  parts read. Health is a pure classification of one snapshot, and wording.
* The guest's setup scripts, host set-up, packaging and developer tools are
  sequential and run once; `GuestProvisioning` has that a run works and ends.
* Path and name validation, and the schema checks of the exchanged files, are
  string processing without interleavings: a document is valid or it is not.
* The agent's sweep, dehydration and verification interact with the iCloud client
  through file attributes whose meaning the repository does not define; they are
  the next step of the plan, and their hazard is listed in `PROJECT.json`.
* Output streaming of the privileged runner, logs and status texts of workspace
  cycles: nothing reads them.
