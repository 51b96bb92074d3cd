-------------------------- MODULE AgentEnforcement --------------------------
(***************************************************************************)
(* guest-agent/agent.ps1: how the agent in the guest keeps excluded items  *)
(* hidden from the share.  An enforcement pass compares exclusions.json    *)
(* with the agent's private state and edits the access lists of items and  *)
(* of their parents, one object at a time; a full scan walks the library   *)
(* and removes entries that nothing accounts for, within a time budget.    *)
(* Between any two of these steps the agent can die, files come, go and    *)
(* move with their access lists, and the configuration changes.            *)
(*                                                                         *)
(* An item is its place in the walk's order, which puts a folder before    *)
(* what it holds; 0 is the sync root.  Of an access list only the agent's  *)
(* two entries matter: the deny on a target, which what lies below it      *)
(* inherits, and the guard on a parent.                                    *)
(***************************************************************************)
EXTENDS Integers, Sequences, FiniteSets

CONSTANTS
    Parent,         \* the folder that each item is in, as a sequence
    Slow,           \* the budget of a scan can run out before the first read
    MaxEvents       \* bound: what users, other programs and failures do

Items == DOMAIN Parent
Root == 0
Folders == {Root} \cup {Parent[i] : i \in Items}

ASSUME TreeAssumption ==
    /\ Parent \in Seq(Nat) /\ Parent # <<>>
    /\ \A i \in Items : Parent[i] < i
    /\ Slow \in BOOLEAN
    /\ MaxEvents \in Nat

VARIABLES
    exists,     \* the items there are
    locked,     \* objects whose access list the agent may not edit
    deny,       \* items with the agent's target deny
    guard,      \* folders with the agent's parent guard
    config,     \* exclusions.json
    saved,      \* applied.json
    mem,        \* $script:State: the private state in memory
    wantedRoots,\* $script:WantedRoots
    configBad,  \* $script:Errors holds "config"
    trouble,    \* the last pass reported an error, for an item or as a whole
    due,        \* the timers that have run out, and the tree that is dirty
    pc,         \* the agent's next step
    work,       \* the locals of a pass
    scan,       \* the locals of a full scan
    newcomers,  \* history: items that appeared since the pass began
    arrivals,   \* history: items that appeared during the walk
    unread,     \* history: items whose entries the last walk could not look at
    skippedOver,\* history: items before the cursor of the last walk
    calm,       \* nothing happens any more
    events

world == <<exists, locked, config>>
acls == <<deny, guard>>
history == <<newcomers, arrivals, unread, skippedOver>>
private == <<saved, mem>>
agent == <<wantedRoots, configBad, trouble, due, pc, work, scan>>
vars == <<world, acls, private, agent, history, calm, events>>

Default == [roots |-> {}, guards |-> {}, rev |-> -1, wanted |-> {}, cursor |-> 0,
            clean |-> FALSE]
NoWork == [rev |-> 0, wanted |-> {}, todo |-> {}, roots |-> {}, guards |-> {},
           changed |-> FALSE]
NoScan == [valid |-> FALSE, skipped |-> FALSE, empty |-> FALSE, pos |-> 0, last |-> 0,
           unlisted |-> {}, late |-> FALSE, done |-> TRUE, errored |-> FALSE,
           removed |-> FALSE]

-----------------------------------------------------------------------------
(* Paths.                                                                  *)

\* With an item, the folder it is in.
Upward(some) == \A i \in some : Parent[i] \in {Root} \cup some

\* An item and the folders above it, up to the sync root.
PathOf == [i \in Items |-> {j \in Items : \A some \in SUBSET Items :
                                i \in some /\ Upward(some) => j \in some}]

\* Test-IsUnderAny.
Covered(roots) == {i \in Items : PathOf[i] \cap roots # {}}

\* Get-AntichainPaths: what no other entry covers.
Antichain(some) == {i \in some : PathOf[i] \cap some = {i}}

Parents(some) == {Parent[i] : i \in some}

\* The paths of a list are taken in their order.
Least(some) == CHOOSE i \in some : \A j \in some : i <= j

Hidden(i) == PathOf[i] \cap deny # {}

-----------------------------------------------------------------------------
(* The private state.                                                      *)

Happens == ~calm /\ events < MaxEvents /\ events' = events + 1

\* Write-PrivateState puts the whole file in place, or throws.
Saves(state) == saved' = state /\ UNCHANGED events
SaveFails == Happens /\ UNCHANGED saved

-----------------------------------------------------------------------------
(* Invoke-EnforcementPass.                                                 *)

PassDue == pc = "idle" /\ "enforce" \in due

\* Mutant: an older document is as good as a newer one.
RejectedReused ==
    \/ ~config.readable
    \/ config.rev = mem.rev /\ Antichain(config.raw) # mem.wanted

Rejected ==
    \/ ~config.readable
    \/ config.rev < mem.rev
    \/ config.rev = mem.rev /\ Antichain(config.raw) # mem.wanted

\* Read-WantedConfig fails, or the revision guard does: all stays as it is.
ConfigRejected ==
    /\ PassDue
    /\ Rejected
    /\ configBad' = TRUE
    /\ due' = due \ {"enforce"}
    /\ UNCHANGED <<world, acls, private, wantedRoots, trouble, pc, work, scan, history,
                   calm, events>>

\* Mutant: the licence outlives the first entry written.
BeginPassArmed ==
    /\ PassDue
    /\ ~Rejected
    /\ configBad' = FALSE
    /\ trouble' = FALSE
    /\ due' = due \ {"enforce"}
    /\ work' = [NoWork EXCEPT !.rev = config.rev, !.wanted = Antichain(config.raw)]
    /\ pc' = "preflight"
    /\ newcomers' = {}
    /\ UNCHANGED <<world, acls, private, wantedRoots, scan, arrivals, unread, skippedOver,
                   calm, events>>

BeginPass ==
    /\ PassDue
    /\ ~Rejected
    /\ configBad' = FALSE
    /\ trouble' = FALSE
    /\ due' = due \ {"enforce"}
    /\ work' = [NoWork EXCEPT !.rev = config.rev, !.wanted = Antichain(config.raw)]
    /\ pc' = IF mem.clean /\ config.raw # {} THEN "disarm" ELSE "preflight"
    /\ newcomers' = {}
    /\ UNCHANGED <<world, acls, private, wantedRoots, scan, arrivals, unread, skippedOver,
                   calm, events>>

\* What the caller catches: the pass is over where it stands.
PassThrows ==
    /\ trouble' = TRUE
    /\ pc' = "idle"
    /\ work' = NoWork
    /\ UNCHANGED <<wantedRoots, due>>

\* The licence to skip the walk's reads goes before the first entry is written.
Disarm ==
    /\ pc = "disarm"
    /\ mem' = [mem EXCEPT !.clean = FALSE]
    /\ \/ /\ Saves(mem')
          /\ pc' = "preflight"
          /\ UNCHANGED <<work, wantedRoots, trouble, due>>
       \/ SaveFails /\ PassThrows
    /\ UNCHANGED <<world, acls, configBad, scan, history, calm>>

Preflight ==
    /\ pc = "preflight"
    /\ LET denied == {i \in work.wanted \cap exists : {i, Parent[i]} \cap locked # {}}
       IN /\ work' = [work EXCEPT !.guards = Parents(denied),
                                  !.todo = work.wanted \ denied]
          /\ trouble' = (denied # {})
    /\ pc' = "guard"
    /\ UNCHANGED <<world, acls, private, wantedRoots, configBad, due, scan, history,
                   calm, events>>

\* One path of a loop is done; after the last one the next loop begins.
Passed(i, w) == [w EXCEPT !.todo = @ \ {i}]
ObsoleteRoots(w) == [w EXCEPT !.todo = mem.roots \ w.wanted]
ObsoleteGuards(w) == [w EXCEPT !.todo = mem.guards \ w.guards]

\* "cannot protect": the guard stays claimed, and the loop goes on.
CannotProtect(i) ==
    /\ trouble' = TRUE
    /\ work' = [Passed(i, work) EXCEPT !.guards = @ \cup {Parent[i]}]
    /\ pc' = "guard"
    /\ UNCHANGED acls

AddGuard ==
    /\ pc = "guard" /\ work.todo # {}
    /\ LET i == Least(work.todo)
       IN \/ /\ i \notin exists
             /\ work' = Passed(i, work)
             /\ UNCHANGED <<acls, trouble, pc>>
          \/ /\ i \in exists /\ Parent[i] \in locked \ guard
             /\ CannotProtect(i)
          \/ /\ i \in exists /\ Parent[i] \notin locked \ guard
             /\ guard' = guard \cup {Parent[i]}
             /\ work' = [work EXCEPT !.changed = @ \/ Parent[i] \notin guard]
             /\ pc' = "deny"
             /\ UNCHANGED <<deny, trouble>>
    /\ UNCHANGED <<world, private, wantedRoots, configBad, due, scan, history, calm,
                   events>>

AddDeny ==
    /\ pc = "deny"
    /\ LET i == Least(work.todo)
       IN \/ /\ i \notin exists \/ i \in locked \ deny
             /\ CannotProtect(i)
          \/ /\ i \in exists /\ i \notin locked \ deny
             /\ deny' = deny \cup {i}
             /\ work' = [Passed(i, work) EXCEPT !.guards = @ \cup {Parent[i]},
                                                !.roots = @ \cup {i},
                                                !.changed = @ \/ i \notin deny]
             /\ pc' = "guard"
             /\ UNCHANGED <<guard, trouble>>
    /\ UNCHANGED <<world, private, wantedRoots, configBad, due, scan, history, calm,
                   events>>

\* Mutant: the old protections go before all the new ones are there.
BeginRemovalEarly ==
    /\ pc = "guard"
    /\ work' = ObsoleteRoots(work)
    /\ pc' = "undeny"
    /\ UNCHANGED <<world, acls, private, wantedRoots, configBad, trouble, due, scan,
                   history, calm, events>>

BeginRemoval ==
    /\ pc = "guard" /\ work.todo = {}
    /\ work' = ObsoleteRoots(work)
    /\ pc' = "undeny"
    /\ UNCHANGED <<world, acls, private, wantedRoots, configBad, trouble, due, scan,
                   history, calm, events>>

RemoveDeny ==
    /\ pc = "undeny" /\ work.todo # {}
    /\ LET i == Least(work.todo)
       IN /\ deny' = IF i \in exists \ locked THEN deny \ {i} ELSE deny
          /\ trouble' = (trouble \/ i \in exists \cap locked \cap deny)
          /\ work' = [Passed(i, work) EXCEPT !.changed = @ \/ deny' # deny]
    /\ UNCHANGED <<world, guard, private, wantedRoots, configBad, due, pc, scan,
                   history, calm, events>>

BeginUnguarding ==
    /\ pc = "undeny" /\ work.todo = {}
    /\ work' = ObsoleteGuards(work)
    /\ pc' = "unguard"
    /\ UNCHANGED <<world, acls, private, wantedRoots, configBad, trouble, due, scan,
                   history, calm, events>>

RemoveGuard ==
    /\ pc = "unguard" /\ work.todo # {}
    /\ LET i == Least(work.todo)
           there == i \in {Root} \cup exists
       IN /\ guard' = IF there /\ i \notin locked THEN guard \ {i} ELSE guard
          /\ trouble' = (trouble \/ (there /\ i \in locked \cap guard))
          /\ work' = [Passed(i, work) EXCEPT !.changed = @ \/ guard' # guard]
    /\ UNCHANGED <<world, deny, private, wantedRoots, configBad, due, pc, scan, history,
                   calm, events>>

\* The private state, and only after it what the scan goes by.
Persist ==
    /\ pc = "unguard" /\ work.todo = {}
    /\ mem' = [mem EXCEPT !.roots = work.roots, !.guards = work.guards,
                          !.rev = work.rev, !.wanted = work.wanted]
    /\ \/ /\ Saves(mem')
          /\ wantedRoots' = work.wanted
          /\ due' = IF work.changed THEN due \cup {"tree"} ELSE due
          /\ pc' = "idle" /\ work' = NoWork
          /\ UNCHANGED trouble
       \/ SaveFails /\ PassThrows
    /\ UNCHANGED <<world, acls, configBad, scan, history, calm>>

-----------------------------------------------------------------------------
(* Invoke-FullScan: what it does about access lists.  The tree it reports  *)
(* is left out.                                                            *)

ScanDue == pc = "idle" /\ "enforce" \notin due /\ "tree" \in due

\* Nothing excluded, nothing recorded.
EmptyState == wantedRoots = {} /\ mem.roots = {} /\ mem.guards = {}

\* Mutant: a scan while the configuration is refused removes entries too.
BeginScanInvalid ==
    /\ ScanDue
    /\ scan' = [NoScan EXCEPT !.valid = TRUE, !.empty = EmptyState,
                              !.skipped = EmptyState /\ mem.clean /\ mem.cursor = 0]
    /\ pc' = IF scan'.valid /\ ~scan'.skipped THEN "walk" ELSE "walked"
    /\ skippedOver' = IF pc' = "walk" THEN 1 .. mem.cursor ELSE skippedOver
    /\ arrivals' = {}
    /\ UNCHANGED <<world, acls, private, wantedRoots, configBad, trouble, due, work,
                   newcomers, unread, calm, events>>

BeginScan ==
    /\ ScanDue
    /\ scan' = [NoScan EXCEPT !.valid = ~configBad, !.empty = EmptyState,
                              !.skipped = /\ ~configBad /\ EmptyState
                                          /\ mem.clean /\ mem.cursor = 0]
    /\ pc' = IF scan'.valid /\ ~scan'.skipped THEN "walk" ELSE "walked"
    /\ skippedOver' = IF pc' = "walk" THEN 1 .. mem.cursor ELSE skippedOver
    /\ arrivals' = {}
    /\ UNCHANGED <<world, acls, private, wantedRoots, configBad, trouble, due, work,
                   newcomers, unread, calm, events>>

\* Mutant: only what the private state owns up to is an orphan.
OrphanByRecord(i) == i \in deny /\ i \in mem.roots \ wantedRoots

OrphanDeny(i) == i \in deny /\ i \notin Covered(wantedRoots)
OrphanGuard(i) == i \in guard /\ i \notin Parents(wantedRoots)

\* A scan that ran out of time goes on behind the last path it looked at.
Resumed(i) == i > mem.cursor

Walked(sc) == [sc EXCEPT !.pos = @ + 1]

Listed(i) == Root \notin scan.unlisted /\ (PathOf[i] \ {i}) \cap scan.unlisted = {}

\* Get-Entries throws, and the folder counts as empty.
CannotList ==
    /\ pc = "walk"
    /\ Happens
    /\ LET f == scan.pos
       IN /\ f \in ({Root} \cup exists) \ scan.unlisted
          /\ scan' = [scan EXCEPT !.unlisted = @ \cup {f}]
          /\ unread' = unread \cup {i \in Items : ~Listed(i)'}
    /\ UNCHANGED <<world, acls, private, wantedRoots, configBad, trouble, due, pc, work,
                   newcomers, arrivals, skippedOver, calm>>

\* An entry whose access list is looked at.
Visit ==
    /\ pc = "walk" /\ scan.pos < Len(Parent)
    /\ LET i == scan.pos + 1
           seen == [Walked(scan) EXCEPT !.last = i]
           orphan == OrphanDeny(i) \/ OrphanGuard(i)
       IN /\ i \in exists /\ Listed(i) /\ Resumed(i) /\ ~scan.late
          /\ \/ /\ orphan /\ i \in locked
                /\ scan' = [seen EXCEPT !.errored = TRUE]
                /\ unread' = unread \cup {i}
                /\ UNCHANGED acls
             \/ /\ ~(orphan /\ i \in locked)
                /\ deny' = IF OrphanDeny(i) THEN deny \ {i} ELSE deny
                /\ guard' = IF OrphanGuard(i) THEN guard \ {i} ELSE guard
                /\ scan' = [seen EXCEPT !.removed = @ \/ orphan]
                /\ unread' = unread \ {i}
    /\ UNCHANGED <<world, private, wantedRoots, configBad, trouble, due, pc, work,
                   newcomers, arrivals, skippedOver, calm, events>>

\* An entry that is not: not listed, gone, there only after its folder was
\* listed, before the cursor, or after the budget.  One that went after its
\* folder was listed cannot be read.
PassBy ==
    /\ pc = "walk" /\ scan.pos < Len(Parent)
    /\ LET i == scan.pos + 1
       IN \/ /\ i \notin exists \/ i \in arrivals \/ ~Listed(i)
             /\ scan' = Walked(scan)
          \/ /\ i \notin exists /\ Listed(i)
             /\ scan' = [Walked(scan) EXCEPT !.errored = TRUE]
          \/ /\ i \in exists /\ Listed(i) /\ scan.late
             /\ scan' = [Walked(scan) EXCEPT !.done = FALSE]
          \/ /\ i \in exists /\ Listed(i) /\ ~scan.late /\ ~Resumed(i)
             /\ scan' = Walked(scan)
    /\ UNCHANGED <<world, acls, private, wantedRoots, configBad, trouble, due, pc, work,
                   history, calm, events>>

\* The budget starts with the walk, so that what is passed by uses it too.
OutOfTime ==
    /\ pc = "walk" /\ ~scan.late
    /\ Slow \/ scan.last # 0
    /\ scan' = [scan EXCEPT !.late = TRUE]
    /\ UNCHANGED <<world, acls, private, wantedRoots, configBad, trouble, due, pc, work,
                   history, calm, events>>

EndWalk ==
    /\ pc = "walk" /\ scan.pos = Len(Parent)
    /\ pc' = "walked"
    /\ UNCHANGED <<world, acls, private, wantedRoots, configBad, trouble, due, work,
                   scan, history, calm, events>>

Licence == scan.empty /\ (scan.skipped \/ (scan.done /\ ~scan.errored /\ ~scan.removed))

EndScan ==
    /\ pc = "walked"
    /\ \/ /\ ~scan.valid
          /\ UNCHANGED <<private, events>>
       \/ /\ scan.valid
          /\ mem' = [mem EXCEPT !.cursor = IF scan.done THEN 0 ELSE scan.last,
                                !.clean = Licence]
          /\ Saves(mem') \/ SaveFails
    /\ due' = due \ {"tree"}
    /\ pc' = "idle"
    /\ scan' = NoScan
    /\ UNCHANGED <<world, acls, wantedRoots, configBad, trouble, work, history, calm>>

-----------------------------------------------------------------------------
(* The loop, and the process.                                              *)

Timers == (SUBSET {"enforce", "tree"}) \ {{}}

\* A minute goes by, or ten since the last scan.
Sleep(timers) ==
    /\ pc = "idle" /\ due = {}
    /\ due' = timers
    /\ UNCHANGED <<world, acls, private, wantedRoots, configBad, trouble, pc, work,
                   scan, history, calm, events>>

\* The agent or the guest goes down; applied.json may be lost with it.
Crash ==
    /\ Happens /\ pc # "down"
    /\ pc' = "down"
    /\ saved' \in {saved, Default}
    /\ mem' = Default /\ wantedRoots' = {} /\ configBad' = FALSE /\ trouble' = FALSE
    /\ due' = {} /\ work' = NoWork /\ scan' = NoScan
    /\ UNCHANGED <<world, acls, history, calm>>

\* Initialize-Agent.
Start ==
    /\ pc = "down"
    /\ mem' = [saved EXCEPT !.clean = FALSE]
    /\ wantedRoots' = saved.roots
    /\ due' = {"enforce", "tree"}
    /\ pc' = "idle"
    /\ UNCHANGED <<world, acls, saved, configBad, trouble, work, scan, history, calm,
                   events>>

-----------------------------------------------------------------------------
(* The world.                                                              *)

\* The app publishes a selection, or another program writes the file, under the
\* next number or one that has been used.
Publish ==
    /\ Happens
    /\ \E raw \in SUBSET Items, rev \in 0 .. config.rev + 1, readable \in BOOLEAN :
          config' = [rev |-> rev, raw |-> raw, readable |-> readable]
    /\ UNCHANGED <<exists, locked, acls, private, agent, history, calm>>

Comes(i) ==
    /\ newcomers' = newcomers \cup {i}
    /\ arrivals' = IF pc = "walk" THEN arrivals \cup {i} ELSE arrivals

Appears(i) ==
    /\ Happens
    /\ i \notin exists /\ Parent[i] \in {Root} \cup exists
    /\ exists' = exists \cup {i}
    /\ Comes(i)
    /\ UNCHANGED <<locked, config, acls, private, agent, unread, skippedOver, calm>>

Disappears(i) ==
    /\ Happens
    /\ i \in exists
    /\ LET gone == Covered({i})
       IN /\ exists' = exists \ gone
          /\ deny' = deny \ gone
          /\ guard' = guard \ gone
    /\ UNCHANGED <<locked, config, private, agent, history, calm>>

\* The client carries an item elsewhere, and its access list with it.
Moves(i, j) ==
    /\ Happens
    /\ i \in exists /\ i \notin Parents(exists)
    /\ j \notin exists /\ Parent[j] \in {Root} \cup (exists \ {i})
    /\ exists' = (exists \ {i}) \cup {j}
    /\ deny' = IF i \in deny THEN (deny \ {i}) \cup {j} ELSE deny
    /\ guard' = IF i \in guard THEN (guard \ {i}) \cup {j} ELSE guard
    /\ Comes(j)
    /\ unread' = unread \cup {j}
    /\ UNCHANGED <<locked, config, private, agent, skippedOver, calm>>

\* Somebody takes the right to edit an access list, or gives it back.
Lock ==
    /\ Happens
    /\ \E i \in {Root} \cup Items : locked' \in {locked \cup {i}, locked \ {i}}
    /\ UNCHANGED <<exists, config, acls, private, agent, history, calm>>

\* From here on the world is still, and nothing is in the agent's way.
Calm ==
    /\ ~calm
    /\ calm' = TRUE
    /\ locked' = {}
    /\ UNCHANGED <<exists, config, acls, private, agent, history, events>>

-----------------------------------------------------------------------------
Init ==
    /\ exists = Items /\ locked = {} /\ deny = {} /\ guard = {}
    /\ config \in [rev : {0}, raw : SUBSET Items, readable : {TRUE}]
    /\ saved = Default /\ mem = Default /\ wantedRoots = {}
    /\ configBad = FALSE /\ trouble = FALSE /\ due = {} /\ pc = "down"
    /\ work = NoWork /\ scan = NoScan
    /\ newcomers = {} /\ arrivals = {} /\ unread = {} /\ skippedOver = {}
    /\ calm = FALSE /\ events = 0

Works ==
    \/ ConfigRejected \/ BeginPass \/ Disarm \/ Preflight \/ AddGuard \/ AddDeny
    \/ BeginRemoval \/ RemoveDeny \/ BeginUnguarding \/ RemoveGuard \/ Persist
    \/ BeginScan \/ Visit \/ PassBy \/ EndWalk \/ EndScan \/ Start

Agent == Works \/ CannotList \/ OutOfTime \/ \E timers \in Timers : Sleep(timers)

World ==
    \/ Crash \/ Publish \/ Lock \/ Calm
    \/ \E i \in Items : Appears(i) \/ Disappears(i) \/ \E j \in Items : Moves(i, j)

Next == Agent \/ World

Spec == Init /\ [][Next]_vars

\* The agent's loop goes on, both of its timers run out again and again, and
\* one day nothing disturbs it any more.
Fairness ==
    /\ WF_vars(Works)
    /\ \A timer \in {"enforce", "tree"} :
          SF_vars(\E timers \in Timers : timer \in timers /\ Sleep(timers))
    /\ WF_vars(Calm)

FairSpec == Spec /\ Fairness

-----------------------------------------------------------------------------
States == [roots: SUBSET Items, guards: SUBSET Folders, rev: Int, wanted: SUBSET Items,
           cursor: {0} \cup Items, clean: BOOLEAN]

\* The types; what is excluded is an antichain wherever it is kept, and the
\* access lists belong to things that are there.
TypeOK ==
    /\ exists \subseteq Items /\ Parents(exists) \subseteq {Root} \cup exists
    /\ locked \subseteq {Root} \cup Items
    /\ deny \subseteq exists /\ guard \subseteq {Root} \cup exists
    /\ saved \in States /\ mem \in States
    /\ \A some \in {wantedRoots, work.wanted, mem.wanted, saved.wanted} :
          Antichain(some) = some
    /\ configBad \in BOOLEAN /\ trouble \in BOOLEAN /\ calm \in BOOLEAN
    /\ due \subseteq {"enforce", "tree"}
    /\ pc \in {"down", "idle", "disarm", "preflight", "guard", "deny", "undeny",
               "unguard", "walk", "walked"}
    /\ work.todo \subseteq Items \cup Folders
    /\ scan.pos \in 0 .. Len(Parent) /\ scan.last \in 0 .. scan.pos
    /\ newcomers \cup arrivals \cup unread \cup skippedOver \subseteq Items

\* Read-WantedConfig "fails closed": while the configuration is refused, no
\* deny and no guard is taken off anything that stays where it is.
FailsClosed ==
    [][configBad /\ configBad' /\ UNCHANGED exists
          => deny \subseteq deny' /\ guard \subseteq guard']_vars

\* What both the selection in force and the one being applied exclude.
Kept ==
    IF pc \in {"idle", "down", "walk", "walked"} THEN Covered(wantedRoots)
    ELSE Covered(wantedRoots) \cap Covered(work.wanted)

\* D22 (e): what stays excluded is never reachable in between, while passes
\* report no error, for what was there when the pass began.
StaysHidden ==
    [][\A i \in (Kept \cap exists' \cap exists) \ newcomers :
          Hidden(i) /\ ~trouble' => Hidden(i)']_vars

\* The licence to skip the reads of the walk is right about everything that
\* the walk which gave it has read.
LicenceIsHonest ==
    /\ TypeOK
    /\ mem.clean => (deny \cup guard) \ {Root} \subseteq unread \cup skippedOver

\* What the agent has read, or holds in memory, and has not saved.
InPass == pc \in {"disarm", "preflight", "guard", "deny", "undeny", "unguard"}
Document(rev, selection) == [rev |-> rev, sel |-> selection]
Unsaved ==
    {doc \in {Document(mem.rev, mem.wanted), Document(work.rev, work.wanted)} :
        /\ doc.rev > saved.rev
        /\ InPass \/ doc = Document(mem.rev, mem.wanted)}

\* applied.json is an implementation of GuestSelection: through passes that fail
\* or are cut off, saves that do and do not succeed, scans that save what a pass
\* could not, and restarts, the recorded selection is one that was published, and
\* only a higher number replaces it.
Guest == INSTANCE GuestSelection
         WITH Selections <- SUBSET Items,
              proposed <- Document(config.rev, Antichain(config.raw)),
              pending <- Unsaved,
              enforced <- Document(saved.rev, saved.wanted)
SavedOnlyForward == Guest!Spec

Protected ==
    \A i \in exists \cap Antichain(config.raw) : i \in deny /\ Parent[i] \in guard

\* In the end what is selected is protected.
GetsProtected == <>[](configBad \/ Protected)

\* In the end what is not selected is reachable again, where the licence does
\* not leave out a look at it.
GetsReleased ==
    <>[](configBad \/ deny \ (unread \cup skippedOver) \subseteq Covered(config.raw))

\* From wherever failures have left the access lists, they come to fit the
\* selection.
Converges == GetsProtected /\ GetsReleased

=============================================================================
