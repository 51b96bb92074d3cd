--------------------------- MODULE SafeWorkspace ---------------------------
(***************************************************************************)
(* gui/icloud_bridge_gui/workspace_sync.py: the synchronization cycles of  *)
(* one Safe Workspace, between a local folder and a folder of the mounted  *)
(* iCloud share.  A cycle looks at both folders one after the other,       *)
(* decides from what it has on disk (the previous pair of snapshots, the   *)
(* baseline of the last clean cycle, the engine's archive), and may run    *)
(* Unison once.  Users edit both folders at any time, the share goes away  *)
(* and comes back, the app dies, the engine is killed by its time limit.   *)
(*                                                                         *)
(* A folder maps every path to the version it holds; a version stands for  *)
(* the kind, size and mtime a snapshot records.  Unison is external: it is *)
(* modelled by what the options in build_argv make it do.                  *)
(***************************************************************************)
EXTENDS Naturals, FiniteSets

CONSTANTS
    Paths,          \* the paths below the workspace's two roots
    MinMissing,     \* GUARD_MIN_MISSING
    Percent,        \* GUARD_MISSING_FRACTION, in percent
    MaxVersion,     \* bound: versions users may write
    MaxEvents       \* bound: things that users and the world do

ASSUME GuardAssumption ==
    /\ IsFiniteSet(Paths)
    /\ MinMissing \in Nat \ {0} /\ Percent \in Nat
    /\ MaxVersion \in Nat \ {0} /\ MaxEvents \in Nat

Absent == 0
Contents == {Absent} \cup 1 .. MaxVersion
Empty == [p \in Paths |-> Absent]
PathsOf(content) == {p \in Paths : content[p] # Absent}

Sides == {"local", "remote"}
Other(side) == IF side = "local" THEN "remote" ELSE "local"
Copies == Paths \X (1 .. MaxVersion)

VARIABLES
    folder,     \* what the two folders hold
    mounted,    \* no marker, /mnt/icloud mounted, the remote folder is there
    pc,         \* the cycle: "idle", "local", "decide", "engine" or "record"
    seen,       \* what this cycle has scanned
    observed,   \* snapshot.json: the pair an earlier poll has scanned
    baseline,   \* baseline.json: the path sets of the last clean cycle
    archive,    \* Unison's record of the last common state
    archived,   \* there is one
    outcome,    \* of the last cycle that reported
    engine,     \* Unison: "none", "starting" or "copying"
    found,      \* what it has found on the two sides
    todo,       \* the paths it has still to look at
    agreed,     \* the archive it is going to write
    spoiled,    \* what its exit code will say: "no", "conflict" or "failed"
    backups,    \* copies in the backup directory
    next,       \* the next version to be written
    events,     \* how much the world has done
    live,       \* history: copies written and not since discarded by a user
    shared,     \* history: copies that both folders have held at once
    applied,    \* history: <<side, path>> this engine run has changed
    vanished    \* history: what a mass deletion has taken from a quiet workspace

disk == <<observed, baseline, archive, archived>>
cycle == <<pc, seen, outcome>>
run == <<engine, found, todo, agreed, spoiled, applied>>
world == <<mounted, next, events, vanished>>
vars == <<folder, cycle, disk, run, world, backups, live, shared>>

NoScan == [local |-> Empty, remote |-> Empty]
NoPair == [known |-> FALSE, pair |-> NoScan]
NoBaseline == [known |-> FALSE, local |-> {}, remote |-> {}]

-----------------------------------------------------------------------------
(* The guard, evaluate_guard and _guard.                                   *)

\* Mutant: one path too late.
BulkLate(lost, known) ==
    /\ Cardinality(lost) > MinMissing
    /\ Cardinality(lost) * 100 >= Percent * Cardinality(known)

\* Enough paths, and a large enough share of them.
Bulk(lost, known) ==
    /\ Cardinality(lost) >= MinMissing
    /\ Cardinality(lost) * 100 >= Percent * Cardinality(known)

Tripped(known, present) ==
    known # {} /\ (present = {} \/ Bulk(known \ present, known))

Guarded ==
    baseline.known /\ \E side \in Sides : Tripped(baseline[side], PathsOf(seen[side]))

-----------------------------------------------------------------------------
(* A cycle: run_cycle and _run_locked.  The lock file makes it the only    *)
(* one, and goes with the process.                                         *)

Report(result) ==
    /\ outcome' = result
    /\ pc' = "idle"
    /\ seen' = NoScan

\* Marker, mount point and remote folder, then the scan of the remote folder.
CycleBegins ==
    /\ pc = "idle"
    /\ IF mounted
       THEN /\ pc' = "local"
            /\ seen' = [NoScan EXCEPT !.remote = folder.remote]
            /\ UNCHANGED outcome
       ELSE Report("waiting")
    /\ UNCHANGED <<folder, disk, run, world, backups, live, shared>>

ScanLocal ==
    /\ pc = "local"
    /\ seen' = [seen EXCEPT !.local = folder.local]
    /\ pc' = "decide"
    /\ UNCHANGED <<outcome, folder, disk, run, world, backups, live, shared>>

FirstRun == ~baseline.known /\ ~archived

\* _check_first_run.  The local folder is listed once more, as it is now.
Refusal ==
    IF seen.remote = Empty THEN "empty"
    ELSE IF folder.local # Empty THEN "occupied" ELSE "none"

Refused == FirstRun /\ Refusal # "none"
Stable == observed.known /\ observed.pair = seen

\* Mutant: a changed pair is not written back.
StabilizesForgetting ==
    /\ pc = "decide" /\ ~Refused /\ ~Stable
    /\ Report("stabilizing")
    /\ UNCHANGED <<folder, disk, run, world, backups, live, shared>>

Refuses ==
    /\ pc = "decide" /\ Refused
    /\ Report(Refusal)
    /\ UNCHANGED <<folder, disk, run, world, backups, live, shared>>

\* The pair is not the one of the previous poll: it is kept for the next.
Stabilizes ==
    /\ pc = "decide" /\ ~Refused /\ ~Stable
    /\ observed' = [known |-> TRUE, pair |-> seen]
    /\ Report("stabilizing")
    /\ UNCHANGED <<folder, baseline, archive, archived, run, world, backups, live, shared>>

Halts ==
    /\ pc = "decide" /\ ~Refused /\ Stable /\ Guarded
    /\ Report("guarded")
    /\ UNCHANGED <<folder, disk, run, world, backups, live, shared>>

\* Unison is started; its own lock refuses a second run on the same archive.
Invokes ==
    /\ pc = "decide" /\ ~Refused /\ Stable /\ ~Guarded
    /\ IF engine = "none"
       THEN /\ engine' = "starting"
            /\ pc' = "engine"
            /\ UNCHANGED <<seen, outcome, found, todo, agreed, spoiled, applied>>
       ELSE Report("fatal") /\ UNCHANGED run
    /\ UNCHANGED <<folder, disk, world, backups, live, shared>>

\* Exit 0: the baseline becomes what was scanned before the run.
Records ==
    /\ pc = "record"
    /\ baseline' = [known |-> TRUE, local |-> PathsOf(seen.local),
                    remote |-> PathsOf(seen.remote)]
    /\ Report("synchronized")
    /\ UNCHANGED <<folder, observed, archive, archived, run, world, backups, live, shared>>

-----------------------------------------------------------------------------
(* Unison, as _invoke runs it.                                             *)

\* Nothing of a run is left but what it has done.
Gone ==
    /\ engine' = "none"
    /\ found' = NoScan
    /\ todo' = {}
    /\ agreed' = Empty
    /\ spoiled' = "no"
    /\ applied' = {}

\* The cycle that waits for this run goes on, if it is still there.
Answer(result) ==
    IF pc = "engine"
    THEN IF result = "synchronized"
         THEN pc' = "record" /\ UNCHANGED <<seen, outcome>>
         ELSE Report(result)
    ELSE UNCHANGED cycle

\* The remote root of a share that has gone is a replica that has gone.
Root(side) == IF side = "remote" /\ ~mounted THEN Empty ELSE folder[side]

\* Mutant: -confirmbigdel is not passed.
BigDeleteUnconfirmed == FALSE

\* -confirmbigdel in batch mode: a replica that has gone, or was emptied,
\* aborts the run.
BigDelete == archive # Empty /\ \E side \in Sides : Root(side) = Empty

\* It takes its own look at both roots, later than the cycle did.
EngineStarts ==
    /\ engine = "starting"
    /\ IF BigDelete
       THEN Gone /\ Answer("fatal")
       ELSE /\ engine' = "copying"
            /\ found' = [side \in Sides |-> Root(side)]
            /\ todo' = Paths
            /\ agreed' = archive
            /\ UNCHANGED <<spoiled, applied, cycle>>
    /\ UNCHANGED <<folder, disk, world, backups, live, shared>>

Changed(side, p) == found[side][p] # archive[p]

\* Mutant: an option that lets the local side win.
ContestedNever(p) == FALSE

\* Both sides have moved, apart: no option passed picks a winner.
Contested(p) == Changed("local", p) /\ Changed("remote", p)

\* Mutant: -backup is not passed.
SavedNothing(side, p) == {}

\* -backup "Name *": what is overwritten or deleted is saved first.
Saved(side, p) ==
    IF folder[side][p] = Absent THEN {} ELSE {<<p, folder[side][p]>>}

\* Unison looks again before it replaces a file, on both sides.
Untouched(p) == mounted /\ \A side \in Sides : folder[side][p] = found[side][p]

\* p goes from one side to the other.
Propagate(side, p) ==
    LET version == folder[side][p]
    IN /\ folder' = [folder EXCEPT ![Other(side)][p] = version]
       /\ backups' = backups \cup Saved(Other(side), p)
       /\ agreed' = [agreed EXCEPT ![p] = version]
       /\ applied' = applied \cup {<<Other(side), p>>}
       /\ shared' = IF version = Absent THEN shared ELSE shared \cup {<<p, version>>}
       /\ UNCHANGED spoiled

Skip(why) ==
    /\ spoiled' = IF spoiled = "failed" THEN spoiled ELSE why
    /\ UNCHANGED <<folder, backups, agreed, applied, shared>>

\* One path: the same on both sides, moved on one side, moved on both, or
\* not to be brought over.  A path may fail for reasons of its own, too.
EngineCopies(p) ==
    /\ engine = "copying"
    /\ p \in todo
    /\ todo' = todo \ {p}
    /\ \/ /\ found.local[p] = found.remote[p]
          /\ agreed' = [agreed EXCEPT ![p] = found.local[p]]
          /\ UNCHANGED <<folder, backups, applied, shared, spoiled>>
       \/ /\ found.local[p] # found.remote[p] /\ Contested(p)
          /\ Skip("conflict")
       \/ /\ found.local[p] # found.remote[p] /\ ~Contested(p) /\ Untouched(p)
          /\ Propagate(IF Changed("local", p) THEN "local" ELSE "remote", p)
       \/ /\ found.local[p] # found.remote[p] /\ ~Contested(p) /\ ~Untouched(p)
          /\ Skip("failed")
    /\ UNCHANGED <<cycle, disk, world, live, engine, found>>

Exit == CASE spoiled = "no" -> "synchronized"
          [] spoiled = "conflict" -> "conflict"
          [] spoiled = "failed" -> "failed"

\* It writes its archive last, and exits 0, 1 or 2.
EngineEnds ==
    /\ engine = "copying" /\ todo = {}
    /\ archive' = agreed
    /\ archived' = TRUE
    /\ Answer(Exit)
    /\ Gone
    /\ UNCHANGED <<folder, observed, baseline, world, backups, live, shared>>

-----------------------------------------------------------------------------
(* Everyone else.                                                          *)

Happens == events < MaxEvents /\ events' = events + 1

\* The other folder still has this copy, or the user has given it up.
GivenUp(side, p) ==
    IF folder[side][p] \in {Absent, folder[Other(side)][p]} THEN {}
    ELSE {<<p, folder[side][p]>>}

\* A user writes a path, here or on another device.
Edit(side, p) ==
    /\ Happens
    /\ next <= MaxVersion
    /\ folder' = [folder EXCEPT ![side][p] = next]
    /\ next' = next + 1
    /\ live' = (live \ GivenUp(side, p)) \cup {<<p, next>>}
    /\ vanished' = IF \E v \in vanished : v.side = side /\ v.path = p
                   THEN {v \in vanished : v.side # side} ELSE vanished
    /\ UNCHANGED <<mounted, cycle, disk, run, backups, shared>>

\* No cycle, no engine, and both folders as the engine has recorded them.
Quiet == pc = "idle" /\ engine = "none" /\ archived
         /\ folder.local = archive /\ folder.remote = archive

\* What the documents call a mass deletion.
Massive(lost, all) ==
    Cardinality(lost) >= MinMissing /\ Cardinality(lost) * 100 >= Percent * Cardinality(all)

\* The last clean cycle knew exactly what is there.
Armed == \A side \in Sides : baseline[side] = PathsOf(folder[side])

\* Paths disappear from a folder together: deleted, or not shown by a guest
\* that is not ready.
Delete(side, lost) ==
    /\ Happens
    /\ lost # {} /\ lost \subseteq PathsOf(folder[side])
    /\ folder' = [folder EXCEPT ![side] =
                     [p \in Paths |-> IF p \in lost THEN Absent ELSE @[p]]]
    /\ live' = live \ UNION {GivenUp(side, p) : p \in lost}
    /\ vanished' = IF Quiet /\ Massive(lost, PathsOf(folder[side]))
                   THEN vanished \cup
                        [side : {side}, path : lost, armed : {Armed}]
                   ELSE vanished
    /\ UNCHANGED <<mounted, next, cycle, disk, run, backups, shared>>

Unmount ==
    /\ Happens /\ mounted
    /\ mounted' = FALSE
    /\ UNCHANGED <<folder, next, vanished, cycle, disk, run, backups, live, shared>>

Mount ==
    /\ ~mounted
    /\ mounted' = TRUE
    /\ UNCHANGED <<folder, next, events, vanished, cycle, disk, run, backups, live, shared>>

\* The app goes away; its engine does not go with it.
Crash ==
    /\ Happens /\ pc # "idle"
    /\ pc' = "idle"
    /\ seen' = NoScan
    /\ UNCHANGED <<outcome, folder, mounted, next, vanished, disk, run, backups, live, shared>>

\* TIMEOUT_SECONDS: the cycle kills its engine.
EngineTimesOut ==
    /\ Happens /\ pc = "engine"
    /\ Gone
    /\ Report("timeout")
    /\ UNCHANGED <<folder, mounted, next, vanished, disk, backups, live, shared>>

\* An engine whose app has gone, with the session or on a closed pipe.
EngineDies ==
    /\ Happens /\ engine # "none" /\ pc # "engine"
    /\ Gone
    /\ UNCHANGED <<folder, mounted, next, vanished, cycle, disk, backups, live, shared>>

\* A folder that cannot be scanned: WorkspaceError.
CycleFails ==
    /\ Happens /\ pc \in {"local", "decide"}
    /\ Report("error")
    /\ UNCHANGED <<folder, mounted, next, vanished, disk, run, backups, live, shared>>

-----------------------------------------------------------------------------
\* A workspace that has been added: nothing here yet, something over there.
Init ==
    /\ \E some \in SUBSET Paths :
          folder = [local |-> Empty,
                    remote |-> [p \in Paths |-> IF p \in some THEN 1 ELSE Absent]]
    /\ mounted = TRUE
    /\ pc = "idle" /\ seen = NoScan /\ outcome = "none"
    /\ observed = NoPair /\ baseline = NoBaseline
    /\ archive = Empty /\ archived = FALSE
    /\ engine = "none" /\ found = NoScan /\ todo = {} /\ agreed = Empty
    /\ spoiled = "no" /\ applied = {}
    /\ backups = {} /\ shared = {} /\ vanished = {}
    /\ live = {<<p, 1>> : p \in PathsOf(folder.remote)}
    /\ next = 2 /\ events = 0

Cycle == CycleBegins \/ ScanLocal \/ Refuses \/ Stabilizes \/ Halts \/ Invokes \/ Records
Engine == EngineStarts \/ (\E p \in Paths : EngineCopies(p)) \/ EngineEnds
World ==
    \/ \E side \in Sides, p \in Paths : Edit(side, p)
    \/ \E side \in Sides : \E lost \in SUBSET PathsOf(folder[side]) : Delete(side, lost)
    \/ Unmount \/ Mount \/ Crash \/ EngineTimesOut \/ EngineDies \/ CycleFails

Next == Cycle \/ Engine \/ World

Spec == Init /\ [][Next]_vars

\* The timer calls for cycles, a process that runs goes on, the share comes
\* back.
Fairness == WF_vars(Cycle) /\ WF_vars(Engine) /\ WF_vars(Mount)

FairSpec == Spec /\ Fairness

-----------------------------------------------------------------------------
\* The types of the state, and an engine that a cycle waits for.
TypeOK ==
    /\ folder \in [Sides -> [Paths -> Contents]]
    /\ mounted \in BOOLEAN
    /\ pc \in {"idle", "local", "decide", "engine", "record"}
    /\ seen \in [Sides -> [Paths -> Contents]]
    /\ observed \in [known : BOOLEAN, pair : [Sides -> [Paths -> Contents]]]
    /\ baseline \in [known : BOOLEAN, local : SUBSET Paths, remote : SUBSET Paths]
    /\ archive \in [Paths -> Contents] /\ archived \in BOOLEAN
    /\ outcome \in {"none", "waiting", "empty", "occupied", "stabilizing", "guarded",
                    "synchronized", "conflict", "failed", "fatal", "timeout", "error"}
    /\ engine \in {"none", "starting", "copying"}
    /\ found \in [Sides -> [Paths -> Contents]]
    /\ todo \subseteq Paths /\ agreed \in [Paths -> Contents]
    /\ spoiled \in {"no", "conflict", "failed"}
    /\ applied \subseteq Sides \X Paths
    /\ backups \subseteq Copies /\ live \subseteq Copies /\ shared \subseteq Copies
    /\ next \in 2 .. MaxVersion + 1 /\ events \in 0 .. MaxEvents
    /\ vanished \subseteq [side : Sides, path : Paths, armed : BOOLEAN]
    /\ pc = "engine" => engine # "none"

\* Whatever users, crashes, time limits and the share do, a version nobody has
\* discarded is in one of the folders or among the backups.
NoVersionLost ==
    /\ TypeOK
    /\ \A copy \in live :
          \/ \E side \in Sides : folder[side][copy[1]] = copy[2]
          \/ copy \in backups

\* What one folder holds and the other never has is never replaced or
\* deleted by the engine: only users take away what exists once, even when an
\* earlier run was killed before it could write its archive.
OnlyCopyKept ==
    [][\A side \in Sides, p \in Paths :
          /\ events' = events
          /\ folder[side][p] # Absent
          /\ folder'[side][p] # folder[side][p]
          => <<p, folder[side][p]>> \in shared]_vars

Removed(side) == {p \in Paths : <<side, p>> \in applied /\ found[Other(side)][p] = Absent}

\* A side that the engine has found empty, its share gone or its folder
\* emptied after the cycle had looked, empties nothing on the other side.
EmptyNeverSpreads ==
    \A side \in Sides : found[side] = Empty => Removed(Other(side)) = {}

\* Paths that vanish together from a workspace at rest, with a baseline that
\* knows them, are never deleted from the other folder, however the polls,
\* crashes and edits of other paths fall.
MassLossHalts ==
    \A v \in vanished : v.armed => v.path \notin Removed(Other(v.side))

Attention == {"empty", "occupied", "guarded", "conflict", "fatal"}

\* Once everyone leaves it alone, a workspace comes to rest with equal folders
\* or with something for the user to look at.
Settles == <>[](folder.local = folder.remote \/ outcome \in Attention)

-----------------------------------------------------------------------------
(* What the program's documents and messages say.                          *)

\* README.md:472-474: a mass deletion never reaches the other side.
GuardCoversEveryRun ==
    \A v \in vanished : v.path \notin Removed(Other(v.side))

=============================================================================
