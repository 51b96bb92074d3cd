----------------------- MODULE AgentEnforcement_proofs -----------------------
(***************************************************************************)
(* Proofs about the agent's access lists, for any tree of items and any    *)
(* number of outside events.                                               *)
(*                                                                         *)
(* Three layers, each over the ones before it: Base holds the types, how   *)
(* the access lists stand to the tree, and when the configuration can be   *)
(* refused; Asserted says what a pass without an error knows to be denied  *)
(* at each of its steps; Licensed and Walking say what the licence stands  *)
(* for, and what a walk that may give it has left behind it.               *)
(***************************************************************************)
EXTENDS AgentEnforcement, TLAPS, WellFoundedInduction

-----------------------------------------------------------------------------
(* The tree.                                                               *)

LEMMA ItemsAreNumbers ==
    /\ Items = 1 .. Len(Parent) /\ Len(Parent) \in Nat
    /\ Items \subseteq Nat /\ Root \notin Items
    /\ \A i \in Items : Parent[i] \in {Root} \cup Items
<1>1. Items = 1 .. Len(Parent) /\ Len(Parent) \in Nat
  BY TreeAssumption DEF Items
<1>2. \A i \in Items : Parent[i] \in Nat /\ Parent[i] < i
  BY TreeAssumption, <1>1 DEF Items
<1> QED
  BY <1>1, <1>2 DEF Root

LEMMA PathHasItem ==
    \A i \in Items : i \in PathOf[i]
BY DEF PathOf

LEMMA PathIsUpward ==
    ASSUME NEW some \in SUBSET Items, Upward(some), NEW i \in some
    PROVE  PathOf[i] \subseteq some
BY DEF PathOf

LEMMA FolderOnPath ==
    ASSUME NEW i \in Items, Parent[i] \in Items
    PROVE  Parent[i] \in PathOf[i]
<1>1. SUFFICES ASSUME NEW some \in SUBSET Items, i \in some, Upward(some)
               PROVE  Parent[i] \in some
  BY DEF PathOf
<1> QED
  BY <1>1, ItemsAreNumbers DEF Upward

LEMMA PathOfPath ==
    ASSUME NEW k \in Items, NEW i \in PathOf[k]
    PROVE  i \in Items /\ PathOf[i] \subseteq PathOf[k]
<1>1. i \in Items
  BY DEF PathOf
<1>2. SUFFICES ASSUME NEW j \in PathOf[i], NEW some \in SUBSET Items, k \in some, Upward(some)
               PROVE  j \in some
  BY <1>1 DEF PathOf
<1>3. i \in some
  BY <1>2 DEF PathOf
<1> QED
  BY <1>1, <1>2, <1>3 DEF PathOf

\* What is left when an item goes with all that it holds.
LEMMA WithoutSubtree ==
    ASSUME NEW some \in SUBSET Items, Upward(some), NEW i \in Items
    PROVE  Upward(some \ Covered({i}))
<1>1. SUFFICES ASSUME NEW k \in some \ Covered({i}), Parent[k] \in Covered({i})
               PROVE  FALSE
  BY DEF Upward
<1>2. k \in Items /\ Parent[k] \in Items /\ i \in PathOf[Parent[k]]
  BY <1>1 DEF Covered
<1>3. i \in PathOf[k]
  BY <1>2, FolderOnPath, PathOfPath
<1> QED
  BY <1>1, <1>2, <1>3 DEF Covered

\* What is left when an item goes that holds nothing.
LEMMA WithoutLeaf ==
    ASSUME NEW some \in SUBSET Items, Upward(some), NEW i \in Items, i \notin Parents(some)
    PROVE  Upward(some \ {i})
BY DEF Upward, Parents

\* The paths of a list are taken in their order, and there is a first one.
LEMMA LeastIsMember ==
    ASSUME NEW some \in SUBSET ({Root} \cup Items), some # {}
    PROVE  Least(some) \in some
<1> DEFINE Less == {pair \in Nat \X Nat : pair[1] < pair[2]}
<1>1. IsWellFoundedOn(Less, Nat)
  BY NatLessThanWellFounded DEF OpToRel
<1>2. some \subseteq Nat
  BY ItemsAreNumbers DEF Root
<1>3. PICK least \in some : \A other \in some : ~(<<other, least>> \in Less)
  <2> HIDE DEF Less
  <2> QED
    BY <1>1, <1>2, WFMin
<1>4. ASSUME NEW other \in some PROVE least <= other
  <2>1. least \in Nat /\ other \in Nat
    BY <1>2, <1>3
  <2>2. other < least => <<other, least>> \in Less
    BY <2>1
  <2> QED
    BY <1>3, <2>1, <2>2
<1> QED
  BY <1>4 DEF Least

LEMMA AntichainIsPart ==
    \A some : Antichain(some) \subseteq some
BY DEF Antichain

-----------------------------------------------------------------------------
(* The steps of a pass, those of a scan, and the others.                   *)

PassSteps ==
    \/ ConfigRejected \/ BeginPass \/ Disarm \/ Preflight \/ AddGuard \/ AddDeny
    \/ BeginRemoval \/ RemoveDeny \/ BeginUnguarding \/ RemoveGuard \/ Persist

ScanSteps == BeginScan \/ CannotList \/ Visit \/ PassBy \/ OutOfTime \/ EndWalk \/ EndScan

OtherSteps == Start \/ World \/ UNCHANGED vars \/ \E timers \in Timers : Sleep(timers)

LEMMA EveryStep ==
    [Next]_vars => PassSteps \/ ScanSteps \/ OtherSteps
BY DEF Next, Agent, Works, PassSteps, ScanSteps, OtherSteps

-----------------------------------------------------------------------------
(* Types, and how the access lists stand to the tree.                      *)

Places == {Root} \cup Items

Passes == [rev : Int, wanted : SUBSET Items, todo : SUBSET Places, roots : SUBSET Items,
           guards : SUBSET Folders, changed : BOOLEAN]

Scans == [valid : BOOLEAN, skipped : BOOLEAN, empty : BOOLEAN, pos : 0 .. Len(Parent),
          last : 0 .. Len(Parent), unlisted : SUBSET Places, late : BOOLEAN,
          done : BOOLEAN, errored : BOOLEAN, removed : BOOLEAN]

Typed ==
    /\ mem \in States /\ saved \in States /\ config.rev \in Int /\ config.raw \subseteq Items
    /\ work \in Passes /\ scan \in Scans
    /\ wantedRoots \subseteq Items

Structure ==
    /\ exists \subseteq Items /\ Upward(exists)
    /\ deny \subseteq exists /\ guard \subseteq {Root} \cup exists
    /\ pc \in {"guard", "deny"} => work.todo \subseteq work.wanted
    /\ pc = "deny" => work.todo # {}
    /\ pc = "undeny" => work.todo \subseteq mem.roots \ work.wanted

LEMMA FoldersArePlaces ==
    Folders \subseteq Places /\ \A i \in Items : Parent[i] \in Folders
BY ItemsAreNumbers DEF Folders, Places

LEMMA Constants ==
    /\ Default \in States /\ NoWork \in Passes /\ NoScan \in Scans
BY ItemsAreNumbers DEF Default, States, NoWork, Passes, NoScan, Scans, Folders, Places

\* What the loops over a selection are at.
LEMMA NextWanted ==
    ASSUME Typed, Structure, pc \in {"guard", "deny"}, work.todo # {}
    PROVE  /\ Least(work.todo) \in work.todo /\ Least(work.todo) \in work.wanted
           /\ Least(work.todo) \in Items /\ Parent[Least(work.todo)] \in Folders
BY LeastIsMember, ItemsAreNumbers, FoldersArePlaces DEF Typed, Structure, Passes, Places

LEMMA PassedTyped ==
    ASSUME Typed, NEW i
    PROVE  Passed(i, work) \in Passes
BY DEF Typed, Passed, Passes

LEMMA CannotProtectTyped ==
    ASSUME Typed, NEW i \in Items, CannotProtect(i)
    PROVE  work' \in Passes
<1>1. Parent[i] \in Folders
  BY FoldersArePlaces
<1> QED
  BY <1>1 DEF CannotProtect, Typed, Passed, Passes

LEMMA PassTyped ==
    ASSUME Typed, Structure,
           PassSteps
    PROVE  Typed'
<1>1. CASE ConfigRejected
  BY <1>1 DEF Typed, ConfigRejected, world, private
<1>2. CASE BeginPass
  BY <1>2, Constants, AntichainIsPart DEF Typed, BeginPass, world, private, Passes
<1>3. CASE Disarm
  BY <1>3, Constants DEF Typed, Disarm, Saves, SaveFails, PassThrows, world, States
<1>4. CASE Preflight
  <2> DEFINE denied == {i \in work.wanted \cap exists : {i, Parent[i]} \cap locked # {}}
  <2>1. denied \subseteq Items /\ Parents(denied) \subseteq Folders
    BY FoldersArePlaces DEF Typed, Passes, Parents
  <2>2. work.wanted \ denied \subseteq Places
    BY DEF Typed, Passes, Places
  <2>3. work' = [work EXCEPT !.guards = Parents(denied), !.todo = work.wanted \ denied]
    BY <1>4 DEF Preflight
  <2> HIDE DEF denied
  <2>4. work' \in Passes
    BY <2>1, <2>2, <2>3 DEF Typed, Passes
  <2> QED
    BY <1>4, <2>4 DEF Typed, Preflight, world, private
<1>5. CASE AddGuard
  <2> DEFINE i == Least(work.todo)
  <2>1. i \in Items
    BY <1>5, NextWanted DEF AddGuard
  <2> HIDE DEF i
  <2>2. CASE work' = Passed(i, work) \/ CannotProtect(i)
    BY <1>5, <2>1, <2>2, PassedTyped, CannotProtectTyped DEF Typed, AddGuard, world, private
  <2>3. CASE work' = [work EXCEPT !.changed = @ \/ Parent[i] \notin guard]
    BY <1>5, <2>3 DEF Typed, AddGuard, world, private, Passes
  <2> QED
    BY <1>5, <2>2, <2>3 DEF AddGuard, i
<1>6. CASE AddDeny
  <2> DEFINE i == Least(work.todo)
  <2>1. i \in Items /\ Parent[i] \in Folders
    BY <1>6, NextWanted DEF AddDeny, Structure
  <2> HIDE DEF i
  <2>2. CASE CannotProtect(i)
    BY <1>6, <2>1, <2>2, CannotProtectTyped DEF Typed, AddDeny, world, private
  <2>3. CASE work' = [Passed(i, work) EXCEPT !.guards = @ \cup {Parent[i]},
                                             !.roots = @ \cup {i},
                                             !.changed = @ \/ i \notin deny]
    <3>1. Passed(i, work) \in Passes
      BY PassedTyped
    <3>2. work' \in Passes
      BY <2>1, <2>3, <3>1 DEF Passes
    <3> QED
      BY <1>6, <3>2 DEF Typed, AddDeny, world, private
  <2> QED
    BY <1>6, <2>2, <2>3 DEF AddDeny, i
<1>7. CASE BeginRemoval
  <2>1. mem.roots \ work.wanted \subseteq Places
    BY DEF Typed, States, Places
  <2> QED
    BY <1>7, <2>1 DEF Typed, BeginRemoval, ObsoleteRoots, world, private, Passes
<1>8. CASE RemoveDeny
  <2>1. Passed(Least(work.todo), work) \in Passes
    BY PassedTyped
  <2>2. work' \in Passes
    BY <1>8, <2>1 DEF RemoveDeny, Passes
  <2> QED
    BY <1>8, <2>2 DEF Typed, RemoveDeny, world, private
<1>9. CASE BeginUnguarding
  <2>1. mem.guards \ work.guards \subseteq Places
    BY FoldersArePlaces DEF Typed, States
  <2> QED
    BY <1>9, <2>1 DEF Typed, BeginUnguarding, ObsoleteGuards, world, private, Passes
<1>10. CASE RemoveGuard
  <2>1. Passed(Least(work.todo), work) \in Passes
    BY PassedTyped
  <2>2. work' \in Passes
    BY <1>10, <2>1 DEF RemoveGuard, Passes
  <2> QED
    BY <1>10, <2>2 DEF Typed, RemoveGuard, world, private
<1>11. CASE Persist
  BY <1>11, Constants DEF Typed, Persist, Saves, SaveFails, PassThrows, world, States, Passes
<1> QED
  BY <1>1, <1>2, <1>3, <1>4, <1>5, <1>6, <1>7, <1>8, <1>9, <1>10, <1>11 DEF PassSteps

LEMMA ScanTyped ==
    ASSUME Typed,
           ScanSteps
    PROVE  Typed'
<1>1. CASE BeginScan
  <2> DEFINE valid == ~configBad
             empty == EmptyState
             skipped == ~configBad /\ EmptyState /\ mem.clean /\ mem.cursor = 0
  <2>1. valid \in BOOLEAN /\ empty \in BOOLEAN /\ skipped \in BOOLEAN
    BY Zenon DEF EmptyState
  <2>2. scan' = [NoScan EXCEPT !.valid = valid, !.empty = empty, !.skipped = skipped]
    BY <1>1 DEF BeginScan
  <2> HIDE DEF valid, empty, skipped
  <2>3. scan' \in Scans
    BY <2>1, <2>2, Constants DEF Scans
  <2> QED
    BY <1>1, <2>3 DEF Typed, BeginScan, world, private
<1>2. CASE CannotList
  <2>1. scan.pos \in 0 .. Len(Parent) => scan.pos \in Places
    BY ItemsAreNumbers DEF Places, Root
  <2>2. scan' \in Scans
    BY <1>2, <2>1 DEF CannotList, Typed, Scans
  <2> QED
    BY <1>2, <2>2 DEF Typed, CannotList, world, private
<1>3. CASE Visit
  <2>1. scan.pos \in 0 .. Len(Parent) /\ scan.pos < Len(Parent) /\ Len(Parent) \in Nat
    BY <1>3, ItemsAreNumbers DEF Visit, Typed, Scans
  <2>2. scan.pos + 1 \in 0 .. Len(Parent)
    BY <2>1
  <2>3. [Walked(scan) EXCEPT !.last = scan.pos + 1] \in Scans
    BY <2>2 DEF Typed, Walked, Scans
  <2> DEFINE seen == [Walked(scan) EXCEPT !.last = scan.pos + 1]
             orphan == OrphanDeny(scan.pos + 1) \/ OrphanGuard(scan.pos + 1)
  <2>4. \/ scan' = [seen EXCEPT !.errored = TRUE]
        \/ scan' = [seen EXCEPT !.removed = @ \/ orphan]
    BY <1>3 DEF Visit
  <2>5. seen \in Scans
    BY <2>3
  <2> HIDE DEF seen, orphan
  <2>6. scan' \in Scans
    BY <2>4, <2>5 DEF Scans
  <2> QED
    BY <1>3, <2>6 DEF Typed, Visit, world, private
<1>4. CASE PassBy
  <2>1. scan.pos \in 0 .. Len(Parent) /\ scan.pos < Len(Parent) /\ Len(Parent) \in Nat
    BY <1>4, ItemsAreNumbers DEF PassBy, Typed, Scans
  <2>2. scan.pos + 1 \in 0 .. Len(Parent)
    BY <2>1
  <2>3. Walked(scan) \in Scans
    BY <2>2 DEF Typed, Walked, Scans
  <2>4. scan' \in Scans
    BY <1>4, <2>3 DEF PassBy, Scans
  <2> QED
    BY <1>4, <2>4 DEF Typed, PassBy, world, private, history
<1>5. CASE OutOfTime
  BY <1>5 DEF Typed, OutOfTime, world, private, Scans
<1>6. CASE EndWalk
  BY <1>6 DEF Typed, EndWalk, world, private
<1>7. CASE EndScan
  <2>1. ASSUME scan.valid PROVE Licence \in BOOLEAN
    BY DEF Typed, Scans, Licence
  <2>2. (IF scan.done THEN 0 ELSE scan.last) \in {0} \cup Items
    BY ItemsAreNumbers DEF Typed, Scans
  <2>3. mem' \in States /\ saved' \in States
    <3>1. CASE ~scan.valid
      BY <1>7, <3>1 DEF Typed, EndScan, private
    <3>2. CASE scan.valid
      <4>1. mem' \in States
        BY <1>7, <2>1, <2>2, <3>2 DEF Typed, EndScan, States
      <4> QED
        BY <1>7, <3>2, <4>1 DEF Typed, EndScan, Saves, SaveFails
    <3> QED
      BY <3>1, <3>2
  <2> QED
    BY <1>7, <2>3, Constants DEF Typed, EndScan, world
<1> QED
  BY <1>1, <1>2, <1>3, <1>4, <1>5, <1>6, <1>7 DEF ScanSteps

LEMMA OtherTyped ==
    ASSUME Typed,
           OtherSteps
    PROVE  Typed'
<1>1. CASE Start
  BY <1>1 DEF Typed, Start, world, States
<1>2. CASE Crash
  BY <1>2, Constants DEF Typed, Crash, world
<1>3. CASE Publish
  BY <1>3 DEF Typed, Publish, private, agent
<1>4. CASE \E i \in Items : Appears(i) \/ Disappears(i) \/ \E j \in Items : Moves(i, j)
  BY <1>4 DEF Typed, Appears, Disappears, Moves, private, agent
<1>5. CASE Lock \/ Calm \/ UNCHANGED vars \/ \E timers \in Timers : Sleep(timers)
  BY <1>5 DEF Typed, Lock, Calm, vars, Sleep, world, private, agent
<1> QED
  BY <1>1, <1>2, <1>3, <1>4, <1>5 DEF OtherSteps, World

-----------------------------------------------------------------------------
(* The structure.                                                          *)

LEMMA PassStructured ==
    ASSUME Typed, Structure,
           PassSteps
    PROVE  Structure'
<1>1. CASE ConfigRejected
  BY <1>1 DEF Structure, ConfigRejected, PassDue, world, acls, private
<1>2. CASE BeginPass
  BY <1>2 DEF Structure, BeginPass, world, acls
<1>3. CASE Disarm
  BY <1>3 DEF Structure, Disarm, PassThrows, world, acls
<1>4. CASE Preflight
  BY <1>4 DEF Typed, Passes, Structure, Preflight, world, acls
<1>5. CASE AddGuard
  <2> DEFINE i == Least(work.todo)
  <2>1. i \in Items /\ work.todo \subseteq work.wanted /\ work.todo # {} /\ pc = "guard"
    BY <1>5, NextWanted DEF AddGuard, Structure
  <2> HIDE DEF i
  <2>2. CASE i \notin exists /\ work' = Passed(i, work) /\ UNCHANGED <<acls, trouble, pc>>
    BY <1>5, <2>1, <2>2 DEF Typed, Passes, Structure, AddGuard, Passed, acls, world
  <2>3. CASE CannotProtect(i)
    BY <1>5, <2>1, <2>3 DEF Typed, Passes, Structure, AddGuard, CannotProtect, Passed,
                            acls, world
  <2>4. CASE /\ i \in exists
             /\ guard' = guard \cup {Parent[i]}
             /\ work' = [work EXCEPT !.changed = @ \/ Parent[i] \notin guard]
             /\ pc' = "deny"
             /\ UNCHANGED <<deny, trouble>>
    BY <1>5, <2>1, <2>4 DEF Typed, Passes, Structure, AddGuard, Upward, world
  <2> QED
    BY <1>5, <2>2, <2>3, <2>4 DEF AddGuard, i
<1>6. CASE AddDeny
  <2> DEFINE i == Least(work.todo)
  <2>1. i \in Items /\ work.todo \subseteq work.wanted /\ work.todo # {} /\ pc = "deny"
    BY <1>6, NextWanted DEF AddDeny, Structure
  <2> HIDE DEF i
  <2>2. CASE CannotProtect(i)
    BY <1>6, <2>1, <2>2 DEF Typed, Passes, Structure, AddDeny, CannotProtect, Passed,
                            acls, world
  <2>3. CASE /\ i \in exists
             /\ deny' = deny \cup {i}
             /\ work' = [Passed(i, work) EXCEPT !.guards = @ \cup {Parent[i]},
                                                !.roots = @ \cup {i},
                                                !.changed = @ \/ i \notin deny]
             /\ pc' = "guard"
             /\ UNCHANGED <<guard, trouble>>
    BY <1>6, <2>1, <2>3 DEF Typed, Passes, Structure, AddDeny, Passed, world
  <2> QED
    BY <1>6, <2>2, <2>3 DEF AddDeny, i
<1>7. CASE BeginRemoval
  BY <1>7 DEF Typed, Passes, Structure, BeginRemoval, ObsoleteRoots, world, acls, private
<1>8. CASE RemoveDeny
  BY <1>8 DEF Typed, Passes, Structure, RemoveDeny, Passed, world, private
<1>9. CASE BeginUnguarding
  BY <1>9 DEF Structure, BeginUnguarding, world, acls
<1>10. CASE RemoveGuard
  BY <1>10 DEF Structure, RemoveGuard, world
<1>11. CASE Persist
  BY <1>11 DEF Structure, Persist, PassThrows, world, acls
<1> QED
  BY <1>1, <1>2, <1>3, <1>4, <1>5, <1>6, <1>7, <1>8, <1>9, <1>10, <1>11 DEF PassSteps

LEMMA ScanStructured ==
    ASSUME Typed, Structure,
           ScanSteps
    PROVE  Structure'
<1>1. CASE Visit
  BY <1>1 DEF Structure, Visit, world, acls, private
<1>2. CASE BeginScan \/ CannotList \/ PassBy \/ OutOfTime \/ EndWalk \/ EndScan
  BY <1>2 DEF Structure, BeginScan, CannotList, PassBy, OutOfTime, EndWalk, EndScan,
              world, acls, private
<1> QED
  BY <1>1, <1>2 DEF ScanSteps

LEMMA OtherStructured ==
    ASSUME Typed, Structure,
           OtherSteps
    PROVE  Structure'
<1>1. CASE Start \/ Crash
  BY <1>1 DEF Structure, Start, Crash, world, acls
<1>2. ASSUME NEW i \in Items, Appears(i) PROVE Structure'
  BY <1>2 DEF Structure, Upward, Appears, acls, private, agent
<1>3. ASSUME NEW i \in Items, Disappears(i) PROVE Structure'
  <2> DEFINE gone == Covered({i})
  <2>1. exists' \subseteq Items /\ deny' \subseteq exists'
    BY <1>3 DEF Disappears, Structure
  <2>2. Upward(exists \ gone)
    BY WithoutSubtree DEF Structure
  <2>3. Root \notin gone
    BY ItemsAreNumbers DEF Covered
  <2> HIDE DEF gone
  <2>4. guard' \subseteq {Root} \cup exists'
    BY <1>3 DEF Disappears, Structure, gone
  <2>5. Upward(exists')
    BY <1>3, <2>2 DEF Disappears, gone
  <2> QED
    BY <1>3, <2>1, <2>4, <2>5 DEF Structure, Disappears, private, agent
<1>4. ASSUME NEW i \in Items, NEW j \in Items, Moves(i, j) PROVE Structure'
  <2>1. Upward(exists \ {i})
    BY <1>4, WithoutLeaf DEF Structure, Moves
  <2>2. Upward(exists')
    BY <1>4, <2>1 DEF Moves, Upward
  <2>3. exists' \subseteq Items /\ deny' \subseteq exists'
    BY <1>4 DEF Moves, Structure
  <2>4. guard' \subseteq {Root} \cup exists'
    BY <1>4, ItemsAreNumbers DEF Moves, Structure
  <2> QED
    BY <1>4, <2>2, <2>3, <2>4 DEF Structure, Moves, private, agent
<1>5. CASE Publish \/ Lock \/ Calm \/ UNCHANGED vars \/ \E timers \in Timers : Sleep(timers)
  BY <1>5 DEF Structure, Publish, Lock, Calm, Sleep, vars, world, acls, private, agent
<1> QED
  BY <1>1, <1>2, <1>3, <1>4, <1>5 DEF OtherSteps, World

-----------------------------------------------------------------------------
(* While the configuration is refused there is no pass, and a scan does    *)
(* not walk.  What came since a pass began came with all that it holds.    *)

Refused == configBad => pc \in {"idle", "walked", "down"}

NewBelow == \A w \in newcomers, k \in exists : w \in PathOf[k] => k \in newcomers

Base == Typed /\ Structure /\ Refused /\ NewBelow

LEMMA RefusedKept ==
    ASSUME Refused, PassSteps \/ ScanSteps \/ OtherSteps
    PROVE  Refused'
<1>1. CASE PassSteps
  <2>1. CASE ConfigRejected \/ BeginPass
    BY <2>1 DEF Refused, ConfigRejected, BeginPass, PassDue
  <2>2. CASE Disarm \/ Preflight \/ BeginRemoval \/ RemoveDeny \/ BeginUnguarding
    BY <2>2 DEF Refused, Disarm, Preflight, BeginRemoval, RemoveDeny, BeginUnguarding
  <2>3. CASE AddGuard \/ AddDeny \/ RemoveGuard \/ Persist
    BY <2>3 DEF Refused, AddGuard, AddDeny, RemoveGuard, Persist
  <2> QED
    BY <1>1, <2>1, <2>2, <2>3 DEF PassSteps
<1>2. CASE ScanSteps
  <2>1. CASE BeginScan
    <3>1. CASE configBad
      <4>1. ~scan'.valid
        BY <2>1, <3>1 DEF BeginScan, NoScan
      <4> QED
        BY <2>1, <4>1 DEF Refused, BeginScan
    <3> QED
      BY <2>1, <3>1 DEF Refused, BeginScan
  <2>2. CASE CannotList \/ Visit \/ PassBy \/ OutOfTime \/ EndWalk \/ EndScan
    BY <2>2 DEF Refused, CannotList, Visit, PassBy, OutOfTime, EndWalk, EndScan
  <2> QED
    BY <1>2, <2>1, <2>2 DEF ScanSteps
<1>3. CASE OtherSteps
  <2>1. CASE Start \/ Crash
    BY <2>1 DEF Refused, Start, Crash
  <2>2. CASE \/ Publish \/ Lock \/ Calm
             \/ \E i \in Items : Appears(i) \/ Disappears(i) \/ \E j \in Items : Moves(i, j)
    BY <2>2 DEF Refused, Publish, Lock, Calm, Appears, Disappears, Moves, agent
  <2>3. CASE UNCHANGED vars \/ \E timers \in Timers : Sleep(timers)
    BY <2>3 DEF Refused, vars, agent, Sleep
  <2> QED
    BY <1>3, <2>1, <2>2, <2>3 DEF OtherSteps, World
<1> QED
  BY <1>1, <1>2, <1>3

\* Of an item that is there, all folders are there.
LEMMA PathExists ==
    ASSUME Structure, NEW k \in exists
    PROVE  k \in Items /\ PathOf[k] \subseteq exists
BY PathIsUpward DEF Structure

LEMMA NewBelowKept ==
    ASSUME Structure, NewBelow, PassSteps \/ ScanSteps \/ OtherSteps
    PROVE  NewBelow'
<1>1. CASE newcomers' = {} \/ UNCHANGED <<newcomers, exists>>
  BY <1>1 DEF NewBelow
<1>2. ASSUME NEW i \in Items, Appears(i) PROVE NewBelow'
  <2>1. SUFFICES ASSUME NEW w \in newcomers \cup {i}, NEW k \in exists, w \in PathOf[k]
                 PROVE  k \in newcomers
    BY <1>2 DEF NewBelow, Appears, Comes
  <2>2. w # i
    BY <1>2, <2>1, PathExists DEF Appears
  <2> QED
    BY <2>1, <2>2 DEF NewBelow
<1>3. ASSUME NEW i \in Items, Disappears(i) PROVE NewBelow'
  BY <1>3 DEF NewBelow, Disappears, history
<1>4. ASSUME NEW i \in Items, NEW j \in Items, Moves(i, j) PROVE NewBelow'
  <2>1. SUFFICES ASSUME NEW w \in newcomers \cup {j}, NEW k \in exists, w \in PathOf[k]
                 PROVE  k \in newcomers
    BY <1>4 DEF NewBelow, Moves, Comes
  <2>2. w # j
    BY <1>4, <2>1, PathExists DEF Moves
  <2> QED
    BY <2>1, <2>2 DEF NewBelow
<1>5. CASE PassSteps
  <2>1. CASE BeginPass
    BY <1>1, <2>1 DEF BeginPass
  <2>2. CASE ConfigRejected \/ Disarm \/ Preflight \/ AddGuard \/ AddDeny
    BY <1>1, <2>2 DEF ConfigRejected, Disarm, Preflight, AddGuard, AddDeny, world, history
  <2>3. CASE BeginRemoval \/ RemoveDeny \/ BeginUnguarding \/ RemoveGuard \/ Persist
    BY <1>1, <2>3 DEF BeginRemoval, RemoveDeny, BeginUnguarding, RemoveGuard, Persist,
                      world, history
  <2> QED
    BY <1>5, <2>1, <2>2, <2>3 DEF PassSteps
<1>6. CASE ScanSteps
  BY <1>1, <1>6 DEF ScanSteps, BeginScan, CannotList, Visit, PassBy, OutOfTime, EndWalk,
                    EndScan, world, history
<1>7. CASE Start \/ Crash \/ Publish \/ Lock \/ Calm
  BY <1>1, <1>7 DEF Start, Crash, Publish, Lock, Calm, world, history
<1>8. CASE UNCHANGED vars \/ \E timers \in Timers : Sleep(timers)
  BY <1>1, <1>8 DEF Sleep, vars, world, history
<1> QED
  BY <1>2, <1>3, <1>4, <1>5, <1>6, <1>7, <1>8 DEF OtherSteps, World

LEMMA BaseInit == Init => Base
<1> SUFFICES ASSUME Init PROVE Base
  OBVIOUS
<1>0. config.rev \in Int /\ config.raw \subseteq Items
  <2>1. PICK start \in [rev : {0}, raw : SUBSET Items, readable : {TRUE}] : config = start
    BY DEF Init
  <2> QED
    BY <2>1
<1>1. Typed
  BY <1>0, Constants DEF Init, Typed
<1>2. Structure
  BY ItemsAreNumbers DEF Init, Structure, Upward
<1> QED
  BY <1>1, <1>2 DEF Init, Base, Refused, NewBelow

LEMMA BaseStep ==
    ASSUME Base, [Next]_vars
    PROVE  Base'
BY EveryStep, PassTyped, ScanTyped, OtherTyped, PassStructured, ScanStructured,
   OtherStructured, RefusedKept, NewBelowKept DEF Base

LEMMA BaseHolds == Spec => []Base
BY BaseInit, BaseStep, PTL DEF Spec

-----------------------------------------------------------------------------
(* Which steps take an entry off an access list.                           *)

LEMMA DenyTaken ==
    ASSUME Typed, [Next]_vars,
           ~RemoveDeny, ~Visit,
           ~ \E i \in Items : Disappears(i) \/ \E j \in Items : Moves(i, j)
    PROVE  deny \subseteq deny'
<1>1. CASE PassSteps
  BY <1>1 DEF PassSteps, ConfigRejected, BeginPass, Disarm, Preflight, AddGuard, AddDeny,
              CannotProtect, BeginRemoval, BeginUnguarding, RemoveGuard, Persist, acls
<1>2. CASE ScanSteps
  BY <1>2 DEF ScanSteps, BeginScan, CannotList, PassBy, OutOfTime, EndWalk, EndScan, acls
<1>3. CASE OtherSteps
  BY <1>3 DEF OtherSteps, Start, World, Crash, Publish, Lock, Calm, Appears, Sleep, vars, acls
<1> QED
  BY <1>1, <1>2, <1>3, EveryStep

LEMMA GuardTaken ==
    ASSUME Typed, [Next]_vars,
           ~RemoveGuard, ~Visit,
           ~ \E i \in Items : Disappears(i) \/ \E j \in Items : Moves(i, j)
    PROVE  guard \subseteq guard'
<1>1. CASE PassSteps
  BY <1>1 DEF PassSteps, ConfigRejected, BeginPass, Disarm, Preflight, AddGuard, AddDeny,
              CannotProtect, BeginRemoval, BeginUnguarding, RemoveDeny, Persist, acls
<1>2. CASE ScanSteps
  BY <1>2 DEF ScanSteps, BeginScan, CannotList, PassBy, OutOfTime, EndWalk, EndScan, acls
<1>3. CASE OtherSteps
  BY <1>3 DEF OtherSteps, Start, World, Crash, Publish, Lock, Calm, Appears, Sleep, vars, acls
<1> QED
  BY <1>1, <1>2, <1>3, EveryStep

\* Fail closed: of whatever stays where it is, a refused configuration takes
\* neither a deny nor a guard.
THEOREM ConfigFailsClosed == Spec => FailsClosed
<1>1. ASSUME Base, [Next]_vars, configBad, configBad', UNCHANGED exists
      PROVE  deny \subseteq deny' /\ guard \subseteq guard'
  <2>1. ~RemoveDeny /\ ~RemoveGuard /\ ~Visit
    BY <1>1 DEF Base, Refused, RemoveDeny, RemoveGuard, Visit
  <2>2. ASSUME NEW i \in Items, Disappears(i) PROVE FALSE
    BY <1>1, <2>2, PathHasItem DEF Disappears, Covered
  <2>3. ASSUME NEW i \in Items, NEW j \in Items, Moves(i, j) PROVE FALSE
    BY <1>1, <2>3 DEF Moves
  <2> QED
    BY <1>1, <2>1, <2>2, <2>3, DenyTaken, GuardTaken DEF Base
<1> QED
  BY <1>1, BaseHolds, PTL DEF Spec, FailsClosed

-----------------------------------------------------------------------------
(* What a pass that reports no error has asserted is there.                *)

Covers(roots) == (roots \cap exists) \ newcomers \subseteq deny

Asserted ==
    ~trouble =>
      /\ pc \in {"guard", "deny"} => Covers(work.wanted \ work.todo)
      /\ pc \in {"undeny", "unguard"} => Covers(work.wanted)
      /\ pc \in {"walk", "walked"} /\ ~configBad => Covers(wantedRoots)
      /\ pc = "idle" /\ "enforce" \notin due /\ ~configBad => Covers(wantedRoots)

LEMMA PassAsserted ==
    ASSUME Base, Asserted, PassSteps
    PROVE  Asserted'
<1> USE DEF Base
<1>1. CASE ConfigRejected \/ BeginPass \/ Disarm
  <2>1. CASE ConfigRejected
    BY <2>1 DEF Asserted, ConfigRejected, PassDue
  <2>2. CASE BeginPass
    BY <2>2 DEF Asserted, BeginPass
  <2>3. CASE Disarm
    BY <2>3 DEF Asserted, Disarm, PassThrows
  <2> QED
    BY <1>1, <2>1, <2>2, <2>3
<1>2. CASE Preflight
  <2>1. SUFFICES ASSUME ~trouble' PROVE Covers(work.wanted \ work.todo)'
    BY <1>2 DEF Asserted, Preflight
  <2>2. work'.todo = work.wanted /\ work'.wanted = work.wanted
    BY <1>2, <2>1 DEF Preflight, Typed, Passes
  <2> QED
    BY <2>2 DEF Covers
<1>3. CASE AddGuard
  <2> DEFINE i == Least(work.todo)
  <2>1. pc = "guard"
    BY <1>3 DEF AddGuard
  <2> HIDE DEF i
  <2>2. CASE i \notin exists /\ work' = Passed(i, work) /\ UNCHANGED <<acls, trouble, pc>>
    <3>1. work'.wanted = work.wanted /\ work'.todo = work.todo \ {i}
      BY <2>2 DEF Typed, Passes, Passed
    <3> QED
      BY <1>3, <2>1, <2>2, <3>1 DEF Asserted, Covers, AddGuard, acls, world, history
  <2>3. CASE CannotProtect(i)
    BY <2>3 DEF Asserted, CannotProtect
  <2>4. CASE /\ work' = [work EXCEPT !.changed = @ \/ Parent[i] \notin guard]
             /\ pc' = "deny"
             /\ UNCHANGED <<deny, trouble>>
    <3>1. work'.wanted = work.wanted /\ work'.todo = work.todo
      BY <2>4 DEF Typed, Passes
    <3> QED
      BY <1>3, <2>1, <2>4, <3>1 DEF Asserted, Covers, AddGuard, world, history
  <2> QED
    BY <1>3, <2>2, <2>3, <2>4 DEF AddGuard, i
<1>4. CASE AddDeny
  <2> DEFINE i == Least(work.todo)
  <2>1. pc = "deny"
    BY <1>4 DEF AddDeny
  <2> HIDE DEF i
  <2>2. CASE CannotProtect(i)
    BY <2>2 DEF Asserted, CannotProtect
  <2>3. CASE /\ deny' = deny \cup {i}
             /\ work' = [Passed(i, work) EXCEPT !.guards = @ \cup {Parent[i]},
                                                !.roots = @ \cup {i},
                                                !.changed = @ \/ i \notin deny]
             /\ pc' = "guard"
             /\ UNCHANGED <<guard, trouble>>
    <3>1. work'.wanted = work.wanted /\ work'.todo = work.todo \ {i}
      BY <2>3 DEF Typed, Passes, Passed
    <3> QED
      BY <1>4, <2>1, <2>3, <3>1 DEF Asserted, Covers, AddDeny, world, history
  <2> QED
    BY <1>4, <2>2, <2>3 DEF AddDeny, i
<1>5. CASE BeginRemoval
  <2>1. work'.wanted = work.wanted
    BY <1>5 DEF BeginRemoval, ObsoleteRoots, Typed, Passes
  <2> QED
    BY <1>5, <2>1 DEF Asserted, Covers, BeginRemoval, world, acls, history
<1>6. CASE RemoveDeny
  <2> DEFINE i == Least(work.todo)
  <2>1. work.todo # {} /\ work.todo \subseteq mem.roots \ work.wanted /\ pc = "undeny"
    BY <1>6 DEF RemoveDeny, Structure
  <2>2. i \notin work.wanted
    BY <2>1, LeastIsMember DEF Typed, States
  <2> HIDE DEF i
  <2>3. deny \ {i} \subseteq deny' /\ (trouble => trouble')
    BY <1>6 DEF RemoveDeny, i
  <2>4. work'.wanted = work.wanted
    BY <1>6 DEF RemoveDeny, Passed, Typed, Passes
  <2> QED
    BY <1>6, <2>1, <2>2, <2>3, <2>4 DEF Asserted, Covers, RemoveDeny, world, history
<1>7. CASE BeginUnguarding
  <2>1. work'.wanted = work.wanted
    BY <1>7 DEF BeginUnguarding, ObsoleteGuards, Typed, Passes
  <2> QED
    BY <1>7, <2>1 DEF Asserted, Covers, BeginUnguarding, world, acls, history
<1>8. CASE RemoveGuard
  <2>1. work'.wanted = work.wanted
    BY <1>8 DEF RemoveGuard, Passed, Typed, Passes
  <2>2. trouble => trouble'
    BY <1>8 DEF RemoveGuard
  <2> QED
    BY <1>8, <2>1, <2>2 DEF Asserted, Covers, RemoveGuard, world, history
<1>9. CASE Persist
  BY <1>9 DEF Asserted, Covers, Persist, PassThrows, world, acls, history
<1> QED
  BY <1>1, <1>2, <1>3, <1>4, <1>5, <1>6, <1>7, <1>8, <1>9 DEF PassSteps

LEMMA ScanAsserted ==
    ASSUME Base, Asserted, ScanSteps
    PROVE  Asserted'
<1>1. CASE Visit
  <2> DEFINE i == scan.pos + 1
  <2>1. i \in exists /\ (deny' # deny => i \notin Covered(wantedRoots))
        /\ deny \ {i} \subseteq deny'
    BY <1>1 DEF Visit, OrphanDeny, acls
  <2>2. deny' # deny => i \notin wantedRoots
    BY <2>1, PathHasItem DEF Covered, Base, Structure
  <2> HIDE DEF i
  <2>3. UNCHANGED <<pc, trouble, configBad, wantedRoots, exists, newcomers>> /\ pc = "walk"
    BY <1>1 DEF Visit, world
  <2> QED
    BY <2>1, <2>2, <2>3 DEF Asserted, Covers
<1>2. CASE BeginScan
  BY <1>2 DEF Asserted, Covers, BeginScan, ScanDue, world, acls
<1>3. CASE CannotList \/ PassBy \/ OutOfTime \/ EndWalk
  BY <1>3 DEF Asserted, Covers, CannotList, PassBy, OutOfTime, EndWalk, world, acls, history
<1>4. CASE EndScan
  BY <1>4 DEF Asserted, Covers, EndScan, world, acls, history
<1> QED
  BY <1>1, <1>2, <1>3, <1>4 DEF ScanSteps

LEMMA OtherAsserted ==
    ASSUME Base, Asserted, OtherSteps
    PROVE  Asserted'
<1>1. CASE Start \/ Crash
  BY <1>1 DEF Asserted, Start, Crash
<1>2. CASE Publish \/ Lock \/ Calm \/ UNCHANGED vars \/ \E timers \in Timers : Sleep(timers)
  BY <1>2 DEF Asserted, Covers, Publish, Lock, Calm, Sleep, vars, world, acls, agent, history
<1>3. ASSUME NEW i \in Items,
             \/ Appears(i)
             \/ Disappears(i)
             \/ \E j \in Items : Moves(i, j)
      PROVE  Asserted'
  <2>1. UNCHANGED agent
    BY <1>3 DEF Appears, Disappears, Moves
  <2>2. \A roots : Covers(roots) => Covers(roots)'
    BY <1>3 DEF Covers, Appears, Disappears, Moves, Comes, acls, history
  <2>3. \A roots : Covers(roots) => (roots \cap exists') \ newcomers' \subseteq deny'
    BY <2>2 DEF Covers
  <2> QED
    BY <2>1, <2>3 DEF Asserted, Covers, agent
<1> QED
  BY <1>1, <1>2, <1>3 DEF OtherSteps, World

LEMMA AssertedHolds == Spec => []Asserted
<1>1. Init => Asserted
  BY DEF Init, Asserted
<1>2. ASSUME Base, Asserted, [Next]_vars PROVE Asserted'
  BY <1>2, EveryStep, PassAsserted, ScanAsserted, OtherAsserted
<1> QED
  BY <1>1, <1>2, BaseHolds, PTL DEF Spec

LEMMA StepHides ==
    ASSUME Base, Asserted, [Next]_vars,
           NEW k \in (Kept \cap exists' \cap exists) \ newcomers, Hidden(k), ~trouble'
    PROVE  Hidden(k)'
<1> USE DEF Base
<1>1. SUFFICES PathOf[k] \cap deny' # {}
  BY DEF Hidden
<1>2. PICK v \in PathOf[k] : v \in deny
  BY DEF Hidden
<1>3. k \in Items /\ PathOf[k] \subseteq exists
  BY PathExists
<1>4. \A w \in PathOf[k] : w \in exists \ newcomers
  BY <1>3 DEF NewBelow
<1>5. CASE RemoveDeny
  <2>1. pc = "undeny" /\ ~trouble
    BY <1>5 DEF RemoveDeny
  <2>2. PICK w \in PathOf[k] : w \in work.wanted
    BY <2>1 DEF Kept, Covered
  <2>3. w \in deny
    BY <1>4, <2>1, <2>2 DEF Asserted, Covers
  <2>4. work.todo # {} /\ work.todo \subseteq mem.roots \ work.wanted
    BY <1>5, <2>1 DEF RemoveDeny, Structure
  <2>5. w # Least(work.todo)
    BY <2>2, <2>4, LeastIsMember DEF Typed, States
  <2> QED
    BY <1>5, <2>3, <2>5 DEF RemoveDeny
<1>6. CASE Visit
  <2>1. pc = "walk" /\ ~trouble /\ ~configBad
    BY <1>6 DEF Visit, Refused
  <2>2. PICK w \in PathOf[k] : w \in wantedRoots
    BY <2>1 DEF Kept, Covered
  <2>3. w \in deny
    BY <1>4, <2>1, <2>2 DEF Asserted, Covers
  <2>4. w \in Covered(wantedRoots)
    BY <1>3, <2>2, PathHasItem DEF Covered, Structure
  <2> QED
    BY <1>6, <2>3, <2>4 DEF Visit, OrphanDeny, acls
<1>7. ASSUME NEW i \in Items, Disappears(i) PROVE v \in deny'
  <2>1. i \notin PathOf[k]
    BY <1>3, <1>7 DEF Disappears, Covered
  <2>2. v \notin Covered({i})
    BY <1>2, <1>3, <2>1, PathOfPath DEF Covered
  <2> QED
    BY <1>2, <1>7, <2>2 DEF Disappears
<1>8. ASSUME NEW i \in Items, NEW j \in Items, Moves(i, j) PROVE v \in deny'
  <2>1. k \in exists \ {i} /\ Upward(exists \ {i})
    BY <1>8, WithoutLeaf DEF Moves, Structure
  <2>2. v # i
    BY <1>2, <2>1, PathIsUpward DEF Structure
  <2> QED
    BY <1>2, <1>8, <2>2 DEF Moves
<1> QED
  BY <1>2, <1>5, <1>6, <1>7, <1>8, DenyTaken

\* What stays excluded is reachable in no step between two selections, while
\* passes report no error.
THEOREM ExclusionsStayHidden == Spec => StaysHidden
<1>1. ASSUME Base, Asserted, [Next]_vars
      PROVE  \A i \in (Kept \cap exists' \cap exists) \ newcomers :
                Hidden(i) /\ ~trouble' => Hidden(i)'
  BY <1>1, StepHides
<1> QED
  BY <1>1, BaseHolds, AssertedHolds, PTL DEF Spec, StaysHidden

-----------------------------------------------------------------------------
(* The licence, and the walk that gives it.                                *)

Entries == (deny \cup guard) \ {Root}

Licensed ==
    mem.clean =>
      /\ EmptyState /\ mem.cursor = 0 /\ pc # "walk"
      /\ Entries \subseteq unread \cup skippedOver
      /\ pc \in {"preflight", "guard", "deny", "undeny", "unguard"} =>
            work.wanted = {} /\ work.roots = {} /\ work.guards = {}

WalkPcs ==
    /\ pc = "walk" => scan.valid /\ ~scan.skipped
    /\ pc = "walked" /\ scan.valid /\ ~scan.skipped => scan.pos = Len(Parent)
    /\ pc = "walked" /\ scan.skipped => mem.clean /\ scan.done
    /\ pc \in {"walk", "walked"} /\ scan.empty => EmptyState

\* What the walk has passed and not read: so far, no entry is there that the
\* histories do not name.
WalkReads ==
    pc \in {"walk", "walked"} /\ scan.valid /\ ~scan.skipped =>
      /\ skippedOver = 1 .. mem.cursor
      /\ \A i \in Items : ~Listed(i) => i \in unread
      /\ scan.empty => arrivals \cap Entries \subseteq unread
      /\ scan.empty /\ scan.done /\ ~scan.errored /\ ~scan.removed =>
            \A i \in Entries : i > scan.pos \/ i \in unread \cup skippedOver

Walking == WalkPcs /\ WalkReads

LEMMA EntriesAreItems ==
    ASSUME Structure PROVE Entries \subseteq Items
BY DEF Structure, Entries

LEMMA PassLicensed ==
    ASSUME Base, Licensed, PassSteps
    PROVE  Licensed'
<1> USE DEF Base
<1>1. CASE ~mem.clean'
  BY <1>1 DEF Licensed
<1>2. SUFFICES ASSUME mem.clean' PROVE Licensed'
  BY <1>1
<1>3. CASE ConfigRejected
  BY <1>3 DEF Licensed, EmptyState, Entries, ConfigRejected, PassDue, private, acls, history
<1>4. CASE BeginPass
  <2>1. mem.clean
    BY <1>2, <1>4 DEF BeginPass, private
  <2>2. pc' \in {"preflight", "guard", "deny", "undeny", "unguard"} => config.raw = {}
    BY <1>4, <2>1 DEF BeginPass
  <2>3. config.raw = {} => work'.wanted = {} /\ work'.roots = {} /\ work'.guards = {}
    BY <1>4, AntichainIsPart DEF BeginPass, NoWork
  <2> QED
    BY <1>4, <2>1, <2>2, <2>3 DEF Licensed, EmptyState, Entries, BeginPass, private, acls
<1>5. CASE Disarm
  BY <1>2, <1>5 DEF Disarm, Typed, States
<1>6. CASE Preflight
  <2>1. mem.clean /\ work.wanted = {} /\ work.roots = {}
    BY <1>2, <1>6 DEF Licensed, Preflight, private
  <2>2. work' = [work EXCEPT !.guards = {}, !.todo = {}]
    BY <1>6, <2>1 DEF Preflight, Parents
  <2> QED
    BY <1>6, <2>1, <2>2 DEF Licensed, EmptyState, Entries, Preflight, private, acls, history,
                            Typed, Passes
<1>7. CASE AddGuard \/ AddDeny
  BY <1>2, <1>7 DEF Licensed, Structure, AddGuard, AddDeny, private
<1>8. CASE BeginRemoval
  BY <1>8 DEF Licensed, EmptyState, Entries, BeginRemoval, ObsoleteRoots, private, acls,
              history, Typed, Passes
<1>9. CASE RemoveDeny
  BY <1>2, <1>9 DEF Licensed, EmptyState, Structure, RemoveDeny, private
<1>10. CASE BeginUnguarding
  BY <1>10 DEF Licensed, EmptyState, Entries, BeginUnguarding, ObsoleteGuards, private, acls,
               history, Typed, Passes
<1>11. CASE RemoveGuard
  <2>1. /\ work'.wanted = work.wanted /\ work'.roots = work.roots
        /\ work'.guards = work.guards
    BY <1>11 DEF RemoveGuard, Passed, Typed, Passes
  <2>2. Entries' \subseteq Entries
    BY <1>11 DEF Entries, RemoveGuard
  <2> QED
    BY <1>11, <2>1, <2>2 DEF Licensed, EmptyState, RemoveGuard, private, history
<1>12. CASE Persist
  <2>1. mem'.clean = mem.clean /\ mem'.cursor = mem.cursor
        /\ mem'.roots = work.roots /\ mem'.guards = work.guards
    BY <1>12 DEF Persist, Typed, States
  <2>2. work.wanted = {} /\ work.roots = {} /\ work.guards = {} /\ wantedRoots = {}
    BY <1>2, <1>12, <2>1 DEF Licensed, EmptyState, Persist
  <2>3. wantedRoots' = {} /\ pc' = "idle" /\ UNCHANGED <<acls, history>>
    BY <1>12, <2>2 DEF Persist, PassThrows
  <2> QED
    BY <1>2, <2>1, <2>2, <2>3 DEF Licensed, EmptyState, Entries, acls, history
<1> QED
  BY <1>3, <1>4, <1>5, <1>6, <1>7, <1>8, <1>9, <1>10, <1>11, <1>12 DEF PassSteps

LEMMA PassWalking ==
    ASSUME PassSteps
    PROVE  Walking'
<1>1. pc' \notin {"walk", "walked"}
  <2>1. CASE ConfigRejected \/ BeginPass \/ Disarm \/ Preflight \/ AddGuard \/ AddDeny
    BY <2>1 DEF ConfigRejected, PassDue, BeginPass, Disarm, PassThrows, Preflight, AddGuard,
                AddDeny, CannotProtect
  <2>2. CASE BeginRemoval \/ RemoveDeny \/ BeginUnguarding \/ RemoveGuard \/ Persist
    BY <2>2 DEF BeginRemoval, RemoveDeny, BeginUnguarding, RemoveGuard, Persist, PassThrows
  <2> QED
    BY <2>1, <2>2 DEF PassSteps
<1> QED
  BY <1>1 DEF Walking, WalkPcs, WalkReads

LEMMA ScanLicensed ==
    ASSUME Base, Licensed, Walking, ScanSteps
    PROVE  Licensed'
<1> USE DEF Base
<1>1. CASE ~mem.clean'
  BY <1>1 DEF Licensed
<1>2. SUFFICES ASSUME mem.clean' PROVE Licensed'
  BY <1>1
<1>3. CASE BeginScan
  <2>1. mem.clean
    BY <1>2, <1>3 DEF BeginScan, private
  <2>2. EmptyState /\ mem.cursor = 0
    BY <2>1 DEF Licensed
  <2>3. scan'.valid => scan'.skipped
    BY <1>3, <2>1, <2>2 DEF BeginScan, NoScan
  <2>4. pc' = "walked" /\ UNCHANGED skippedOver
    BY <1>3, <2>3 DEF BeginScan
  <2> QED
    BY <1>3, <2>1, <2>4 DEF Licensed, EmptyState, Entries, BeginScan, private, acls
<1>4. CASE CannotList \/ Visit \/ PassBy \/ OutOfTime \/ EndWalk
  BY <1>2, <1>4 DEF Licensed, CannotList, Visit, PassBy, OutOfTime, EndWalk, private
<1>5. CASE EndScan
  <2>1. /\ UNCHANGED <<acls, wantedRoots, history>> /\ pc' = "idle"
        /\ pc = "walked"
    BY <1>5 DEF EndScan
  <2>2. CASE ~scan.valid
    BY <1>2, <1>5, <2>1, <2>2 DEF EndScan, Licensed, EmptyState, Entries, private, acls,
                                  history
  <2>3. CASE scan.valid
    <3>1. /\ mem'.cursor = (IF scan.done THEN 0 ELSE scan.last) /\ mem'.clean = Licence
          /\ mem'.roots = mem.roots /\ mem'.guards = mem.guards
      BY <1>5, <2>3 DEF EndScan, Typed, States
    <3>2. scan.empty /\ (scan.skipped \/ (scan.done /\ ~scan.errored /\ ~scan.removed))
      BY <1>2, <3>1 DEF Licence
    <3>3. CASE scan.skipped
      <4>1. mem.clean /\ scan.done
        BY <2>1, <3>3 DEF Walking, WalkPcs
      <4> QED
        BY <2>1, <3>1, <4>1 DEF Licensed, EmptyState, Entries, acls, history
    <3>4. CASE ~scan.skipped
      <4>1. EmptyState /\ scan.pos = Len(Parent) /\ scan.done
        BY <2>1, <2>3, <3>2, <3>4 DEF Walking, WalkPcs
      <4>2. \A i \in Entries : i > scan.pos \/ i \in unread \cup skippedOver
        BY <2>1, <2>3, <3>2, <3>4 DEF Walking, WalkReads
      <4>3. \A i \in Entries : ~(i > scan.pos)
        BY <4>1, EntriesAreItems, ItemsAreNumbers
      <4> QED
        BY <2>1, <3>1, <4>1, <4>2, <4>3 DEF Licensed, EmptyState, Entries, acls, history
    <3> QED
      BY <3>3, <3>4
  <2> QED
    BY <2>2, <2>3
<1> QED
  BY <1>3, <1>4, <1>5 DEF ScanSteps

LEMMA OtherLicensed ==
    ASSUME Base, Licensed, OtherSteps
    PROVE  Licensed'
<1> USE DEF Base
<1>1. CASE Start \/ Crash
  BY <1>1 DEF Licensed, Start, Crash, Default, Typed, States
<1>2. CASE \/ Publish \/ Lock \/ Calm \/ UNCHANGED vars
           \/ \E timers \in Timers : Sleep(timers)
           \/ \E i \in Items : Appears(i)
  BY <1>2 DEF Licensed, EmptyState, Entries, Publish, Lock, Calm, vars, Sleep, Appears, Comes,
              private, acls, agent, history
<1>3. ASSUME NEW i \in Items, Disappears(i) PROVE Licensed'
  <2>1. Entries' \subseteq Entries
    BY <1>3 DEF Disappears, Entries
  <2> QED
    BY <1>3, <2>1 DEF Licensed, EmptyState, Disappears, private, agent, history
<1>4. ASSUME NEW i \in Items, NEW j \in Items, Moves(i, j) PROVE Licensed'
  <2>1. Entries' \subseteq Entries \cup {j}
    BY <1>4 DEF Moves, Entries
  <2> QED
    BY <1>4, <2>1 DEF Licensed, EmptyState, Moves, private, agent
<1> QED
  BY <1>1, <1>2, <1>3, <1>4 DEF OtherSteps, World

LEMMA ScanWalkPcs ==
    ASSUME Base, Licensed, WalkPcs, ScanSteps
    PROVE  WalkPcs'
<1> USE DEF Base
<1>1. CASE BeginScan
  <2>1. /\ UNCHANGED <<mem, wantedRoots>>
        /\ scan'.done /\ scan'.valid = ~configBad
        /\ pc' = IF scan'.valid /\ ~scan'.skipped THEN "walk" ELSE "walked"
    BY <1>1 DEF BeginScan, NoScan, private
  <2>2. scan'.empty = EmptyState
        /\ scan'.skipped = (~configBad /\ EmptyState /\ mem.clean /\ mem.cursor = 0)
    BY <1>1 DEF BeginScan, NoScan
  <2> QED
    BY <2>1, <2>2 DEF WalkPcs, EmptyState
<1>2. CASE CannotList
  BY <1>2 DEF WalkPcs, EmptyState, CannotList, private, Typed, Scans
<1>3. CASE Visit
  <2>1. scan'.valid = scan.valid /\ scan'.skipped = scan.skipped /\ scan'.empty = scan.empty
    BY <1>3 DEF Visit, Walked, Typed, Scans
  <2> QED
    BY <1>3, <2>1 DEF WalkPcs, EmptyState, Visit, private
<1>4. CASE PassBy
  <2>1. scan'.valid = scan.valid /\ scan'.skipped = scan.skipped /\ scan'.empty = scan.empty
    BY <1>4 DEF PassBy, Walked, Typed, Scans
  <2> QED
    BY <1>4, <2>1 DEF WalkPcs, EmptyState, PassBy, private
<1>5. CASE OutOfTime
  BY <1>5 DEF WalkPcs, EmptyState, OutOfTime, private, Typed, Scans
<1>6. CASE EndWalk
  BY <1>6 DEF WalkPcs, EmptyState, EndWalk, private
<1>7. CASE EndScan
  BY <1>7 DEF WalkPcs, EndScan
<1> QED
  BY <1>1, <1>2, <1>3, <1>4, <1>5, <1>6, <1>7 DEF ScanSteps

LEMMA ScanWalkReads ==
    ASSUME Base, WalkPcs, WalkReads, ScanSteps
    PROVE  WalkReads'
<1> USE DEF Base
<1>1. CASE BeginScan
  <2>1. SUFFICES ASSUME pc' = "walk" PROVE WalkReads'
    BY <1>1 DEF WalkReads, BeginScan
  <2>2. /\ skippedOver' = 1 .. mem.cursor /\ UNCHANGED <<mem, acls>> /\ arrivals' = {}
        /\ scan'.unlisted = {} /\ scan'.pos = 0
    BY <1>1, <2>1 DEF BeginScan, NoScan, private
  <2>3. \A i \in Items : Listed(i)'
    BY <2>2 DEF Listed
  <2>4. \A i \in Entries' : i > scan'.pos
    BY <2>2, EntriesAreItems, ItemsAreNumbers DEF Entries, acls
  <2> QED
    BY <2>2, <2>3, <2>4 DEF WalkReads
<1>2. CASE ~BeginScan /\ ~EndScan
  <2>1. pc = "walk" \/ EndWalk
    BY <1>2 DEF ScanSteps, CannotList, Visit, PassBy, OutOfTime
  <2>2. pc = "walk" /\ scan.valid /\ ~scan.skipped
    BY <2>1 DEF EndWalk, WalkPcs
  <2>3. /\ skippedOver = 1 .. mem.cursor
        /\ \A i \in Items : ~Listed(i) => i \in unread
        /\ scan.empty => arrivals \cap Entries \subseteq unread
        /\ scan.empty /\ scan.done /\ ~scan.errored /\ ~scan.removed =>
              \A i \in Entries : i > scan.pos \/ i \in unread \cup skippedOver
    BY <2>2 DEF WalkReads
  <2>4. CASE CannotList
    <3>1. /\ UNCHANGED <<mem, acls, arrivals, skippedOver>>
          /\ unread' = unread \cup {i \in Items : ~Listed(i)'}
          /\ scan'.empty = scan.empty /\ scan'.done = scan.done /\ scan'.pos = scan.pos
          /\ scan'.errored = scan.errored /\ scan'.removed = scan.removed
      BY <2>4 DEF CannotList, private, Typed, Scans
    <3> QED
      BY <2>3, <3>1 DEF WalkReads, Entries, acls
  <2>5. CASE Visit
    <3> DEFINE i == scan.pos + 1
               seen == [Walked(scan) EXCEPT !.last = i]
               orphan == OrphanDeny(i) \/ OrphanGuard(i)
    <3>1. /\ i \in Items /\ Listed(i) /\ UNCHANGED <<mem, arrivals, skippedOver>>
          /\ \A k \in Items : k > scan.pos => k = i \/ k > i
      BY <2>5, ItemsAreNumbers DEF Visit, Structure, private, Typed, Scans
    <3>2. /\ scan'.empty = scan.empty /\ scan'.done = scan.done /\ scan'.pos = i
          /\ scan'.unlisted = scan.unlisted
      BY <2>5 DEF Visit, Walked, Typed, Scans
    <3>3. \A k \in Items : Listed(k)' <=> Listed(k)
      BY <3>2 DEF Listed
    <3>4. CASE /\ scan' = [seen EXCEPT !.errored = TRUE]
               /\ unread' = unread \cup {i}
               /\ UNCHANGED acls
      <4>1. scan'.errored
        BY <3>4 DEF Walked, Typed, Scans
      <4> HIDE DEF i
      <4> QED
        BY <2>3, <3>1, <3>2, <3>3, <3>4, <4>1 DEF WalkReads, Entries, acls
    <3>5. CASE /\ deny' = IF OrphanDeny(i) THEN deny \ {i} ELSE deny
               /\ guard' = IF OrphanGuard(i) THEN guard \ {i} ELSE guard
               /\ scan' = [seen EXCEPT !.removed = @ \/ orphan]
               /\ unread' = unread \ {i}
      <4>1. scan'.errored = scan.errored
        BY <3>5 DEF Walked, Typed, Scans
      <4>2. scan.removed => scan'.removed
        <5>1. seen.removed = scan.removed /\ "removed" \in DOMAIN seen
          BY DEF Walked, Typed, Scans
        <5>2. scan' = [seen EXCEPT !.removed = @ \/ orphan]
          BY <3>5
        <5> HIDE DEF seen, orphan
        <5>3. scan'.removed = (seen.removed \/ orphan)
          BY <5>1, <5>2
        <5> QED
          BY <5>1, <5>3
      <4>3. Entries' \subseteq Entries
        BY <3>5 DEF Entries
      <4>4. scan.empty => i \notin Entries'
        <5>1. scan.empty => wantedRoots = {}
          BY <2>2 DEF WalkPcs, EmptyState
        <5> HIDE DEF i
        <5> QED
          BY <3>5, <5>1 DEF Entries, OrphanDeny, OrphanGuard, Covered, Parents
      <4>5. Entries' \subseteq Items
        BY <4>3, EntriesAreItems
      <4> HIDE DEF i
      <4> QED
        BY <2>3, <3>1, <3>2, <3>3, <3>5, <4>1, <4>2, <4>3, <4>4, <4>5 DEF WalkReads
    <3> QED
      BY <2>5, <3>4, <3>5 DEF Visit
  <2>6. CASE PassBy
    <3> DEFINE i == scan.pos + 1
    <3>1. /\ UNCHANGED <<mem, acls, history>>
          /\ \A k \in Items : k > scan.pos => k = i \/ k > i
      BY <2>6, ItemsAreNumbers DEF PassBy, private, Typed, Scans
    <3>2. /\ scan'.empty = scan.empty /\ scan'.removed = scan.removed /\ scan'.pos = i
          /\ scan'.unlisted = scan.unlisted
          /\ (scan'.done => scan.done) /\ (scan.errored => scan'.errored)
      BY <2>6 DEF PassBy, Walked, Typed, Scans
    <3>3. \A k \in Items : Listed(k)' <=> Listed(k)
      BY <3>2 DEF Listed
    <3>4. ASSUME scan'.empty, scan'.done, i \in Entries
          PROVE  i \in unread \cup skippedOver
      <4>1. i \in exists /\ i \in Items
        BY <3>4 DEF Entries, Structure
      <4>2. CASE i \in arrivals \/ ~Listed(i)
        BY <2>3, <3>2, <3>4, <4>1, <4>2
      <4>3. CASE scan' = [Walked(scan) EXCEPT !.done = FALSE]
        BY <3>4, <4>3 DEF Walked, Typed, Scans
      <4>4. CASE ~Resumed(i)
        BY <2>3, <4>1, <4>4, ItemsAreNumbers DEF Resumed, Typed, States
      <4> QED
        BY <2>6, <4>1, <4>2, <4>3, <4>4 DEF PassBy
    <3> HIDE DEF i
    <3> QED
      BY <2>3, <3>1, <3>2, <3>3, <3>4, EntriesAreItems DEF WalkReads, Entries, acls, history
  <2>7. CASE OutOfTime \/ EndWalk
    <3>1. /\ UNCHANGED <<mem, acls, history>>
          /\ scan'.empty = scan.empty /\ scan'.done = scan.done /\ scan'.pos = scan.pos
          /\ scan'.errored = scan.errored /\ scan'.removed = scan.removed
          /\ scan'.unlisted = scan.unlisted
      BY <2>7 DEF OutOfTime, EndWalk, private, Typed, Scans
    <3>2. \A k \in Items : Listed(k)' <=> Listed(k)
      BY <3>1 DEF Listed
    <3> QED
      BY <2>3, <3>1, <3>2 DEF WalkReads, Entries, acls, history
  <2> QED
    BY <1>2, <2>4, <2>5, <2>6, <2>7 DEF ScanSteps
<1>3. CASE EndScan
  BY <1>3 DEF WalkReads, EndScan
<1> QED
  BY <1>1, <1>2, <1>3

LEMMA OtherWalking ==
    ASSUME Base, Walking, OtherSteps
    PROVE  Walking'
<1> USE DEF Base
<1>1. CASE Start \/ Crash \/ \E timers \in Timers : Sleep(timers)
  <2>1. pc' \in {"idle", "down"}
    BY <1>1 DEF Start, Crash, Sleep
  <2> QED
    BY <2>1 DEF Walking, WalkPcs, WalkReads
<1>2. ASSUME UNCHANGED <<pc, scan, mem, wantedRoots, skippedOver>>,
             unread \subseteq unread',
             Entries' \subseteq Entries \cup unread',
             (arrivals' \cap Entries) \ unread' \subseteq arrivals
      PROVE  Walking'
  <2>1. WalkPcs'
    BY <1>2 DEF Walking, WalkPcs, EmptyState
  <2>2. \A k \in Items : Listed(k)' <=> Listed(k)
    BY <1>2 DEF Listed
  <2>3. WalkReads'
    BY <1>2, <2>2 DEF Walking, WalkReads
  <2> QED
    BY <2>1, <2>3 DEF Walking
<1>3. CASE Publish \/ Lock \/ Calm \/ UNCHANGED vars
  BY <1>2, <1>3 DEF Publish, Lock, Calm, vars, Entries, private, acls, agent, history
<1>4. ASSUME NEW i \in Items, Appears(i) PROVE Walking'
  <2>1. i \notin Entries
    BY <1>4, ItemsAreNumbers DEF Appears, Entries, Structure
  <2> QED
    BY <1>2, <1>4, <2>1 DEF Appears, Comes, Entries, private, acls, agent
<1>5. ASSUME NEW i \in Items, Disappears(i) PROVE Walking'
  BY <1>2, <1>5 DEF Disappears, Entries, private, agent, history
<1>6. ASSUME NEW i \in Items, NEW j \in Items, Moves(i, j) PROVE Walking'
  <2>1. Entries' \subseteq Entries \cup {j}
    BY <1>6 DEF Moves, Entries
  <2> QED
    BY <1>2, <1>6, <2>1 DEF Moves, Comes, private, agent
<1> QED
  BY <1>1, <1>3, <1>4, <1>5, <1>6 DEF OtherSteps, World

-----------------------------------------------------------------------------
(* The types: what is excluded is an antichain wherever it is kept.        *)

\* A pass denies part of what it wants, and the next start takes what was
\* denied for what is wanted.
Chains ==
    /\ Antichain(wantedRoots) = wantedRoots
    /\ Antichain(work.wanted) = work.wanted
    /\ Antichain(mem.wanted) = mem.wanted
    /\ Antichain(saved.wanted) = saved.wanted
    /\ work.roots \subseteq work.wanted
    /\ mem.roots \subseteq mem.wanted
    /\ saved.roots \subseteq saved.wanted

LEMMA PartOfAntichain ==
    ASSUME NEW some, Antichain(some) = some, NEW part \in SUBSET some
    PROVE  Antichain(part) = part
<1>1. ASSUME NEW i \in part PROVE i \in Antichain(part)
  <2>1. i \in Antichain(some)
    BY <1>1
  <2>2. PathOf[i] \cap some = {i}
    BY <2>1 DEF Antichain
  <2> QED
    BY <1>1, <2>2 DEF Antichain
<1> QED
  BY <1>1, AntichainIsPart

LEMMA AntichainTwice ==
    \A some : Antichain(Antichain(some)) = Antichain(some)
<1>1. SUFFICES ASSUME NEW some, NEW i \in Antichain(some)
               PROVE  i \in Antichain(Antichain(some))
  BY AntichainIsPart
<1>2. PathOf[i] \cap some = {i}
  BY <1>1 DEF Antichain
<1>3. PathOf[i] \cap Antichain(some) = {i}
  BY <1>1, <1>2, AntichainIsPart
<1> QED
  BY <1>1, <1>3 DEF Antichain

LEMMA NothingIsAntichain == Antichain({}) = {}
BY DEF Antichain

LEMMA PassChains ==
    ASSUME Base, Chains, PassSteps
    PROVE  Chains'
<1> USE DEF Base
<1>1. CASE ConfigRejected
  BY <1>1 DEF Chains, ConfigRejected, private
<1>2. CASE BeginPass
  <2>1. work'.wanted = Antichain(config.raw) /\ work'.roots = {}
    BY <1>2 DEF BeginPass, NoWork
  <2> QED
    BY <1>2, <2>1, AntichainTwice DEF Chains, BeginPass, private
<1>3. CASE Disarm
  <2>1. mem'.roots = mem.roots /\ mem'.wanted = mem.wanted
    BY <1>3 DEF Disarm, Typed, States
  <2>2. \/ saved' = mem' /\ UNCHANGED <<work, wantedRoots>>
        \/ UNCHANGED <<saved, wantedRoots>> /\ work' = NoWork
    BY <1>3 DEF Disarm, Saves, SaveFails, PassThrows
  <2> QED
    BY <2>1, <2>2, NothingIsAntichain DEF Chains, NoWork
<1>4. CASE Preflight
  <2>1. work'.wanted = work.wanted /\ work'.roots = work.roots
    BY <1>4 DEF Preflight, Typed, Passes
  <2> QED
    BY <1>4, <2>1 DEF Chains, Preflight, private
<1>5. CASE AddGuard
  <2>1. work'.wanted = work.wanted /\ work'.roots = work.roots
    BY <1>5 DEF AddGuard, CannotProtect, Passed, Typed, Passes
  <2> QED
    BY <1>5, <2>1 DEF Chains, AddGuard, private
<1>6. CASE AddDeny
  <2>1. Least(work.todo) \in work.wanted
    BY <1>6, NextWanted DEF AddDeny, Structure
  <2>2. /\ work'.wanted = work.wanted
        /\ work'.roots \subseteq work.roots \cup {Least(work.todo)}
    BY <1>6 DEF AddDeny, CannotProtect, Passed, Typed, Passes
  <2> QED
    BY <1>6, <2>1, <2>2 DEF Chains, AddDeny, private
<1>7. CASE BeginRemoval \/ RemoveDeny \/ BeginUnguarding \/ RemoveGuard
  <2>1. work'.wanted = work.wanted /\ work'.roots = work.roots
    BY <1>7 DEF BeginRemoval, RemoveDeny, BeginUnguarding, RemoveGuard, ObsoleteRoots,
                ObsoleteGuards, Passed, Typed, Passes
  <2> QED
    BY <1>7, <2>1 DEF Chains, BeginRemoval, RemoveDeny, BeginUnguarding, RemoveGuard, private
<1>8. CASE Persist
  <2>1. mem'.roots = work.roots /\ mem'.wanted = work.wanted
    BY <1>8 DEF Persist, Typed, States
  <2>2. /\ work'.wanted = {} /\ work'.roots = {}
        /\ saved' \in {saved, mem'} /\ wantedRoots' \in {wantedRoots, work.wanted}
    BY <1>8 DEF Persist, Saves, SaveFails, PassThrows, NoWork
  <2> QED
    BY <2>1, <2>2, NothingIsAntichain DEF Chains
<1> QED
  BY <1>1, <1>2, <1>3, <1>4, <1>5, <1>6, <1>7, <1>8 DEF PassSteps

LEMMA ScanChains ==
    ASSUME Base, Chains, ScanSteps
    PROVE  Chains'
<1>1. CASE ~EndScan
  BY <1>1 DEF Chains, ScanSteps, BeginScan, CannotList, Visit, PassBy, OutOfTime, EndWalk,
              private
<1>2. CASE EndScan
  <2>1. mem'.roots = mem.roots /\ mem'.wanted = mem.wanted
    BY <1>2 DEF EndScan, private, Base, Typed, States
  <2>2. saved' \in {saved, mem'} /\ UNCHANGED <<work, wantedRoots>>
    BY <1>2 DEF EndScan, private, Saves, SaveFails
  <2> QED
    BY <2>1, <2>2 DEF Chains
<1> QED
  BY <1>1, <1>2

LEMMA OtherChains ==
    ASSUME Base, Chains, OtherSteps
    PROVE  Chains'
<1>1. CASE Start
  <2>1. mem'.roots = saved.roots /\ mem'.wanted = saved.wanted
    BY <1>1 DEF Start, Base, Typed, States
  <2>2. Antichain(saved.roots) = saved.roots
    BY PartOfAntichain DEF Chains
  <2> QED
    BY <1>1, <2>1, <2>2 DEF Chains, Start
<1>2. CASE Crash
  BY <1>2, NothingIsAntichain DEF Chains, Crash, Default, NoWork
<1>3. CASE ~Start /\ ~Crash
  BY <1>3 DEF Chains, OtherSteps, World, Publish, Lock, Calm, Appears, Disappears, Moves,
              Sleep, vars, private, agent
<1> QED
  BY <1>1, <1>2, <1>3

\* What nothing else depends on.
Steps == {"down", "idle", "disarm", "preflight", "guard", "deny", "undeny", "unguard",
          "walk", "walked"}

Plain ==
    /\ locked \subseteq Places
    /\ due \subseteq {"enforce", "tree"}
    /\ pc \in Steps
    /\ scan.last <= scan.pos
    /\ newcomers \cup arrivals \cup unread \cup skippedOver \subseteq Items

Flags == configBad \in BOOLEAN /\ trouble \in BOOLEAN /\ calm \in BOOLEAN

LEMMA PassPlain ==
    ASSUME Base, Plain, PassSteps
    PROVE  Plain'
<1>1. CASE ConfigRejected \/ BeginPass \/ Disarm \/ Preflight \/ AddGuard \/ AddDeny
  BY <1>1 DEF Plain, Steps, Places, ConfigRejected, BeginPass, Disarm, PassThrows, Preflight,
              AddGuard, AddDeny, CannotProtect, world, history
<1>2. CASE BeginRemoval \/ RemoveDeny \/ BeginUnguarding \/ RemoveGuard \/ Persist
  BY <1>2 DEF Plain, Steps, Places, BeginRemoval, RemoveDeny, BeginUnguarding, RemoveGuard,
              Persist, PassThrows, world, history
<1> QED
  BY <1>1, <1>2 DEF PassSteps

LEMMA ScanPlain ==
    ASSUME Base, Plain, ScanSteps
    PROVE  Plain'
<1> USE DEF Base
<1>1. CASE BeginScan
  <2>1. 1 .. mem.cursor \subseteq Items
    BY ItemsAreNumbers DEF Typed, States
  <2>2. scan'.last = 0 /\ scan'.pos = 0
    BY <1>1 DEF BeginScan, NoScan
  <2> QED
    BY <1>1, <2>1, <2>2 DEF Plain, Steps, Places, BeginScan, world
<1>2. CASE CannotList
  <2>1. scan'.last = scan.last /\ scan'.pos = scan.pos
    BY <1>2 DEF CannotList, Typed, Scans
  <2> QED
    BY <1>2, <2>1 DEF Plain, Places, CannotList, world
<1>3. CASE Visit
  <2>1. scan'.last = scan.pos + 1 /\ scan'.pos = scan.pos + 1 /\ scan.pos + 1 \in Items
    BY <1>3 DEF Visit, Walked, Typed, Scans, Structure
  <2> QED
    BY <1>3, <2>1 DEF Plain, Places, Visit, Typed, Scans, world
<1>4. CASE PassBy
  <2>1. scan'.last = scan.last /\ scan'.pos = scan.pos + 1
    BY <1>4 DEF PassBy, Walked, Typed, Scans
  <2> QED
    BY <1>4, <2>1, ItemsAreNumbers DEF Plain, Places, PassBy, Typed, Scans, world, history
<1>5. CASE OutOfTime
  <2>1. scan'.last = scan.last /\ scan'.pos = scan.pos
    BY <1>5 DEF OutOfTime, Typed, Scans
  <2> QED
    BY <1>5, <2>1 DEF Plain, Places, OutOfTime, world, history
<1>6. CASE EndWalk
  BY <1>6 DEF Plain, Steps, Places, EndWalk, world, history
<1>7. CASE EndScan
  BY <1>7 DEF Plain, Steps, Places, EndScan, NoScan, world, history
<1> QED
  BY <1>1, <1>2, <1>3, <1>4, <1>5, <1>6, <1>7 DEF ScanSteps

LEMMA OtherPlain ==
    ASSUME Base, Plain, OtherSteps
    PROVE  Plain'
<1>1. CASE Start \/ Crash
  BY <1>1 DEF Plain, Steps, Places, Start, Crash, NoScan, world, history
<1>2. CASE Publish \/ Lock \/ Calm \/ UNCHANGED vars
  BY <1>2 DEF Plain, Steps, Places, Publish, Lock, Calm, vars, world, agent, history
<1>3. ASSUME NEW timers \in Timers, Sleep(timers) PROVE Plain'
  BY <1>3 DEF Plain, Steps, Places, Timers, Sleep, world, history
<1>4. ASSUME NEW i \in Items, Appears(i) \/ Disappears(i) \/ \E j \in Items : Moves(i, j)
      PROVE  Plain'
  BY <1>4 DEF Plain, Steps, Places, Appears, Disappears, Moves, Comes, agent, history
<1> QED
  BY <1>1, <1>2, <1>3, <1>4 DEF OtherSteps, World

LEMMA FlagsKept ==
    ASSUME Base, Flags, PassSteps \/ ScanSteps \/ OtherSteps
    PROVE  Flags'
<1>1. CASE PassSteps
  <2>1. CASE ConfigRejected \/ BeginPass \/ Disarm
    BY <1>1, <2>1, Zenon DEF Flags, ConfigRejected, BeginPass, Disarm, PassThrows
  <2>2. CASE Preflight
    BY <2>2, Zenon DEF Flags, Preflight
  <2>3. CASE AddGuard \/ AddDeny
    BY <2>3, Zenon DEF Flags, AddGuard, AddDeny, CannotProtect
  <2>4. CASE BeginRemoval \/ BeginUnguarding \/ Persist
    BY <2>4, Zenon DEF Flags, BeginRemoval, BeginUnguarding, Persist, PassThrows
  <2>5. CASE RemoveDeny
    BY <2>5, Zenon DEF Flags, RemoveDeny
  <2>6. CASE RemoveGuard
    BY <2>6, Zenon DEF Flags, RemoveGuard
  <2> QED
    BY <1>1, <2>1, <2>2, <2>3, <2>4, <2>5, <2>6 DEF PassSteps
<1>2. CASE ScanSteps
  BY <1>2, Zenon DEF Flags, ScanSteps, BeginScan, CannotList, Visit, PassBy, OutOfTime,
                     EndWalk, EndScan
<1>3. CASE Start \/ World
  BY <1>3, Zenon DEF Flags, Start, World, Crash, Publish, Lock, Calm, Appears, Disappears,
                     Moves, agent
<1>4. CASE UNCHANGED vars \/ \E timers \in Timers : Sleep(timers)
  BY <1>4, Zenon DEF Flags, vars, agent, Sleep
<1> QED
  BY <1>1, <1>2, <1>3, <1>4 DEF OtherSteps

\* The variables keep their types, what is excluded is an antichain wherever
\* it is kept, and the access lists belong to things that are there.
LEMMA AgentTyped == Spec => []TypeOK
<1>1. Init => Chains /\ Plain /\ Flags
  <2> SUFFICES ASSUME Init PROVE Chains /\ Plain /\ Flags
    OBVIOUS
  <2>1. Chains
    BY NothingIsAntichain DEF Init, Chains, Default, NoWork
  <2>2. Plain
    BY DEF Init, Plain, Steps, NoScan
  <2>3. Flags
    BY DEF Init, Flags
  <2> QED
    BY <2>1, <2>2, <2>3
<1>2. ASSUME Base, Chains /\ Plain /\ Flags, [Next]_vars PROVE (Chains /\ Plain /\ Flags)'
  <2>1. Chains'
    BY <1>2, EveryStep, PassChains, ScanChains, OtherChains
  <2>2. Plain'
    BY <1>2, EveryStep, PassPlain, ScanPlain, OtherPlain
  <2>3. Flags'
    BY <1>2, EveryStep, FlagsKept
  <2> QED
    BY <2>1, <2>2, <2>3
<1>3. Base /\ Chains /\ Plain /\ Flags => TypeOK
  <2> SUFFICES ASSUME Base, Chains, Plain, Flags PROVE TypeOK
    OBVIOUS
  <2> USE DEF Base
  <2>1. exists \subseteq Items /\ Parents(exists) \subseteq {Root} \cup exists
    BY DEF Structure, Upward, Parents
  <2>2. \A some \in {wantedRoots, work.wanted, mem.wanted, saved.wanted} :
           Antichain(some) = some
    BY DEF Chains
  <2>3. work.todo \subseteq Items \cup Folders
    BY DEF Typed, Passes, Places, Folders
  <2>4. scan.pos \in 0 .. Len(Parent) /\ scan.last \in 0 .. scan.pos
    BY ItemsAreNumbers DEF Typed, Scans, Plain
  <2>5. deny \subseteq exists /\ guard \subseteq {Root} \cup exists
    BY DEF Structure
  <2>6. configBad \in BOOLEAN /\ trouble \in BOOLEAN /\ calm \in BOOLEAN
    BY DEF Flags
  <2> QED
    BY <2>1, <2>2, <2>3, <2>4, <2>5, <2>6 DEF TypeOK, Typed, Plain, Steps, Places
<1> QED
  BY <1>1, <1>2, <1>3, BaseHolds, PTL DEF Spec

\* The licence to skip the reads of the walk is right about everything that
\* the walk which gave it has read.
THEOREM LicenceHonest == Spec => []LicenceIsHonest
<1>1. Init => Licensed /\ Walking
  BY DEF Init, Licensed, Walking, WalkPcs, WalkReads, Default
<1>2. ASSUME Base, Licensed /\ Walking, [Next]_vars PROVE (Licensed /\ Walking)'
  <2>1. Licensed'
    BY <1>2, EveryStep, PassLicensed, ScanLicensed, OtherLicensed
  <2>2. Walking'
    BY <1>2, EveryStep, PassWalking, ScanWalkPcs, ScanWalkReads, OtherWalking DEF Walking
  <2> QED
    BY <2>1, <2>2
<1>3. Licensed /\ TypeOK => LicenceIsHonest
  BY DEF Licensed, LicenceIsHonest, Entries
<1> QED
  BY <1>1, <1>2, <1>3, BaseHolds, AgentTyped, PTL DEF Spec

-----------------------------------------------------------------------------
(* What is recorded implements GuestSelection.                             *)

Held == Document(mem.rev, mem.wanted)
AtWork == Document(work.rev, work.wanted)
Recorded == Document(saved.rev, saved.wanted)
Selected == Document(config.rev, Antichain(config.raw))

Follows(doc, old) == doc.rev > old.rev \/ doc = old

\* The pass is ahead of the memory, and the memory, while the agent is up, of
\* the disk: by the revision, or not at all.
Numbers ==
    /\ config.rev >= 0 /\ saved.rev >= -1
    /\ pc = "down" => mem.rev = -1
    /\ pc # "down" => Follows(Held, Recorded)
    /\ InPass => Follows(AtWork, Held) /\ work.rev >= 0

\* What a step can leave alone: the documents, and where the agent is.
Quiet ==
    /\ UNCHANGED <<config, Held, Recorded, AtWork>>
    /\ InPass' => InPass
    /\ (pc = "down") = (pc' = "down")

LEMMA DocumentFields ==
    \A rev, selection : /\ Document(rev, selection).rev = rev
                        /\ Document(rev, selection).sel = selection
BY DEF Document

LEMMA DocumentsDiffer ==
    \A r1, s1, r2, s2 : Document(r1, s1) = Document(r2, s2) <=> r1 = r2 /\ s1 = s2
BY DEF Document

LEMMA QuietRevisions ==
    ASSUME Quiet
    PROVE  mem'.rev = mem.rev /\ saved'.rev = saved.rev /\ work'.rev = work.rev
BY DocumentsDiffer DEF Quiet, Held, Recorded, AtWork

LEMMA QuietKeeps ==
    ASSUME Numbers, Quiet
    PROVE  Numbers'
<1>1. Follows(Held, Recorded)' = Follows(Held, Recorded)
  BY DEF Quiet, Follows
<1>2. Follows(AtWork, Held)' = Follows(AtWork, Held)
  BY DEF Quiet, Follows
<1> QED
  BY <1>1, <1>2, QuietRevisions DEF Numbers, Quiet

LEMMA QuietPass ==
    ASSUME Base, PassSteps, ~BeginPass, ~Disarm, ~Persist
    PROVE  Quiet
<1> USE DEF Base
<1>1. CASE ConfigRejected
  BY <1>1 DEF Quiet, ConfigRejected, PassDue, InPass, Held, Recorded, AtWork, world, private
<1>2. CASE Preflight \/ AddGuard \/ AddDeny
  <2>1. work'.rev = work.rev /\ work'.wanted = work.wanted
    BY <1>2 DEF Preflight, AddGuard, AddDeny, CannotProtect, Passed, Typed, Passes
  <2> QED
    BY <1>2, <2>1 DEF Quiet, Preflight, AddGuard, AddDeny, CannotProtect, InPass, Held,
                      Recorded, AtWork, world, private
<1>3. CASE BeginRemoval \/ RemoveDeny \/ BeginUnguarding \/ RemoveGuard
  <2>1. work'.rev = work.rev /\ work'.wanted = work.wanted
    BY <1>3 DEF BeginRemoval, RemoveDeny, BeginUnguarding, RemoveGuard, ObsoleteRoots,
                ObsoleteGuards, Passed, Typed, Passes
  <2> QED
    BY <1>3, <2>1 DEF Quiet, BeginRemoval, RemoveDeny, BeginUnguarding, RemoveGuard, InPass,
                      Held, Recorded, AtWork, world, private
<1> QED
  BY <1>1, <1>2, <1>3 DEF PassSteps

LEMMA QuietScan ==
    ASSUME ScanSteps, ~EndScan
    PROVE  Quiet
BY DEF Quiet, ScanSteps, BeginScan, ScanDue, CannotList, Visit, PassBy, OutOfTime, EndWalk,
       InPass, Held, Recorded, AtWork, world, private

LEMMA QuietOther ==
    ASSUME OtherSteps, ~Start, ~Crash, ~Publish
    PROVE  Quiet
BY DEF Quiet, OtherSteps, World, Lock, Calm, Appears, Disappears, Moves, Sleep, vars, agent,
       InPass, Held, Recorded, AtWork, world, private

\* What a pass or a scan may save: what it holds, or has just taken over.
Carried == {Held} \cup (IF InPass THEN {AtWork} ELSE {})

LEMMA UnsavedIsCarried ==
    Unsaved = {doc \in Carried : doc.rev > saved.rev}
BY DEF Unsaved, Carried, Held, AtWork

\* A step that takes over no document, and records, if any, one it carries.
LEMMA Records ==
    ASSUME Base, Numbers, pc # "down", UNCHANGED config,
           Carried' \subseteq Carried,
           Recorded' \in {Recorded} \cup Carried, saved'.rev >= saved.rev
    PROVE  [Guest!Next]_(Guest!vars)
<1>1. /\ mem.rev \in Int /\ saved.rev \in Int /\ work.rev \in Int
      /\ \A doc \in Carried : doc.rev \in Int /\ Follows(doc, Recorded)
  BY DocumentFields DEF Base, Typed, States, Passes, Carried, Held, AtWork, Recorded, Numbers, Follows
<1>2. Recorded.rev = saved.rev /\ Recorded'.rev = saved'.rev
  BY DocumentFields DEF Recorded
<1>3. saved'.rev \in Int
  BY <1>1, <1>2
<1>4. Unsaved' = {doc \in Carried' : doc.rev > saved'.rev}
  BY DEF Unsaved, Carried, Held, AtWork
<1>5. Unsaved' \subseteq Unsaved
  BY <1>1, <1>3, <1>4, UnsavedIsCarried
<1>6. CASE Recorded' = Recorded
  BY <1>5, <1>6 DEF Guest!Next, Guest!Take, Recorded
<1>7. CASE Recorded' # Recorded
  <2>1. Recorded' \in Carried /\ Recorded'.rev > Recorded.rev
    BY <1>1, <1>2, <1>7 DEF Follows
  <2>2. Recorded' \in Unsaved
    BY <1>2, <2>1, UnsavedIsCarried
  <2> QED
    BY <1>5, <2>1, <2>2 DEF Guest!Next, Guest!Enforce, Recorded
<1> QED
  BY <1>6, <1>7

LEMMA QuietStep ==
    ASSUME Quiet
    PROVE  [Guest!Next]_(Guest!vars)
<1>1. Unsaved' = {doc \in Carried' : doc.rev > saved'.rev}
  BY DEF Unsaved, Carried, Held, AtWork
<1>2. Carried' \subseteq Carried
  BY DEF Quiet, Carried
<1>3. Unsaved' \subseteq Unsaved
  BY <1>1, <1>2, UnsavedIsCarried, QuietRevisions
<1> QED
  BY <1>3 DEF Quiet, Recorded, Guest!Next, Guest!Take

\* A step that keeps the numbers and does, for GuestSelection, what it may.
Good == Numbers' /\ [Guest!Next]_(Guest!vars)

LEMMA BeginPassGood ==
    ASSUME Base, Numbers, BeginPass
    PROVE  Good
<1>1. /\ UNCHANGED <<config, saved, mem>> /\ AtWork' = Selected
      /\ work'.rev = config.rev /\ work'.wanted = Antichain(config.raw)
      /\ pc = "idle" /\ pc' \in {"disarm", "preflight"}
      /\ ~(config.rev < mem.rev)
      /\ config.rev = mem.rev => Antichain(config.raw) = mem.wanted
  BY DEF BeginPass, PassDue, Rejected, NoWork, AtWork, Selected, world, private
<1>2. mem.rev \in Int /\ config.rev \in Int
  BY DEF Base, Typed, States
<1>3. Follows(AtWork', Held)
  BY <1>1, <1>2, DocumentFields DEF Follows, Selected, Held
<1>4. Numbers'
  BY <1>1, <1>3 DEF Numbers, InPass, Follows, Held, Recorded
<1>5. Unsaved' \subseteq Unsaved \cup {Selected}
  <2>1. Unsaved' = {doc \in Carried' : doc.rev > saved'.rev}
    BY DEF Unsaved, Carried, Held, AtWork
  <2>2. Carried' \subseteq Carried \cup {Selected}
    BY <1>1 DEF Carried, Held
  <2> QED
    BY <1>1, <2>1, <2>2, UnsavedIsCarried
<1> QED
  BY <1>1, <1>4, <1>5 DEF Good, Guest!Next, Guest!Take, Selected

\* A write of the private state: it holds a document that is carried, and the
\* disk has it, or what it had.
LEMMA WriteGood ==
    ASSUME Base, Base', Numbers, pc # "down", pc' # "down", UNCHANGED config,
           Held' \in Carried, Follows(Held', Held), Carried' \subseteq Carried,
           Recorded' \in {Recorded, Held'},
           InPass' => AtWork' = AtWork /\ Held' = Held /\ InPass
    PROVE  Good
<1>1. /\ mem.rev \in Int /\ saved.rev \in Int /\ mem'.rev \in Int /\ saved'.rev \in Int
  BY DEF Base, Typed, States
<1>2. /\ Held.rev = mem.rev /\ Held'.rev = mem'.rev
      /\ Recorded.rev = saved.rev /\ Recorded'.rev = saved'.rev
  BY DocumentFields DEF Held, Recorded
<1>3. Follows(Held, Recorded)
  BY DEF Numbers
<1>4. Follows(Held', Recorded) /\ Follows(Held', Recorded')
  BY <1>1, <1>2, <1>3 DEF Follows
<1>5. saved'.rev >= saved.rev
  BY <1>1, <1>2, <1>4 DEF Follows
<1>6. (Follows(AtWork, Held)' /\ work'.rev >= 0) \/ ~InPass'
  <2>1. InPass' => work'.rev = work.rev
    BY DocumentFields DEF AtWork
  <2> QED
    BY <2>1 DEF Numbers, Follows
<1>7. Numbers'
  BY <1>1, <1>4, <1>5, <1>6 DEF Numbers, Follows
<1>8. [Guest!Next]_(Guest!vars)
  BY <1>5, Records
<1> QED
  BY <1>7, <1>8 DEF Good

LEMMA DisarmGood ==
    ASSUME Base, Base', Numbers, Disarm
    PROVE  Good
<1>1. mem'.rev = mem.rev /\ mem'.wanted = mem.wanted
  BY DEF Disarm, Base, Typed, States
<1>2. Held' = Held /\ UNCHANGED config /\ pc = "disarm"
  BY <1>1 DEF Disarm, Held, world
<1>3. \/ saved' = mem' /\ pc' = "preflight" /\ work' = work
      \/ saved' = saved /\ pc' = "idle"
  BY DEF Disarm, Saves, SaveFails, PassThrows
<1>4. Recorded' \in {Recorded, Held'}
  BY <1>3 DEF Recorded, Held
<1>5. Carried' \subseteq Carried /\ (InPass' => AtWork' = AtWork)
  BY <1>2, <1>3 DEF Carried, InPass, AtWork
<1>6. Follows(Held', Held) /\ Held' \in Carried /\ InPass
  BY <1>2 DEF Follows, Carried, InPass
<1>7. pc # "down" /\ pc' # "down"
  BY <1>2, <1>3
<1> QED
  BY <1>2, <1>4, <1>5, <1>6, <1>7, WriteGood

LEMMA PersistGood ==
    ASSUME Base, Base', Numbers, Persist
    PROVE  Good
<1>1. mem'.rev = work.rev /\ mem'.wanted = work.wanted
  BY DEF Persist, Base, Typed, States
<1>2. Held' = AtWork /\ UNCHANGED config /\ pc = "unguard"
  BY <1>1 DEF Persist, Held, AtWork, world
<1>3. saved' \in {saved, mem'} /\ pc' = "idle"
  BY DEF Persist, Saves, SaveFails, PassThrows
<1>4. Recorded' \in {Recorded, Held'}
  BY <1>3 DEF Recorded, Held
<1>5. InPass /\ ~InPass'
  BY <1>2, <1>3 DEF InPass
<1>6. Held' \in Carried /\ Carried' \subseteq Carried
  BY <1>2, <1>5 DEF Carried
<1>7. Follows(Held', Held)
  BY <1>2, <1>5 DEF Numbers
<1>8. pc # "down" /\ pc' # "down"
  BY <1>2, <1>3
<1> QED
  BY <1>2, <1>4, <1>5, <1>6, <1>7, <1>8, WriteGood

LEMMA EndScanGood ==
    ASSUME Base, Base', Numbers, EndScan
    PROVE  Good
<1>1. mem'.rev = mem.rev /\ mem'.wanted = mem.wanted
  BY DEF EndScan, private, Base, Typed, States
<1>2. Held' = Held /\ UNCHANGED config /\ pc = "walked" /\ pc' = "idle"
  BY <1>1 DEF EndScan, Held, world
<1>3. saved' \in {saved, mem'}
  BY DEF EndScan, Saves, SaveFails, private
<1>4. Recorded' \in {Recorded, Held'}
  BY <1>3 DEF Recorded, Held
<1>5. ~InPass /\ ~InPass'
  BY <1>2 DEF InPass
<1>6. Held' \in Carried /\ Carried' \subseteq Carried /\ Follows(Held', Held)
  BY <1>2, <1>5 DEF Carried, Follows
<1>7. pc # "down" /\ pc' # "down"
  BY <1>2
<1> QED
  BY <1>2, <1>4, <1>5, <1>6, <1>7, WriteGood

\* Down, and until it has read its state again, the agent carries nothing.
LEMMA NothingCarried ==
    ASSUME saved.rev >= mem.rev, mem.rev \in Int, saved.rev \in Int, ~InPass
    PROVE  Unsaved = {}
<1>1. Carried = {Held} /\ Held.rev = mem.rev
  BY DocumentFields DEF Carried, Held
<1> QED
  BY <1>1, UnsavedIsCarried

LEMMA StartGood ==
    ASSUME Base, Base', Numbers, Start
    PROVE  Good
<1>1. mem'.rev = saved.rev /\ mem'.wanted = saved.wanted
  BY DEF Start, Base, Typed, States
<1>2. /\ Held' = Recorded /\ UNCHANGED <<config, saved>>
      /\ pc = "down" /\ pc' = "idle" /\ Recorded' = Recorded
  BY <1>1 DEF Start, Held, Recorded, world
<1>3. ~InPass /\ ~InPass'
  BY <1>2 DEF InPass
<1>4. Numbers'
  BY <1>2, <1>3 DEF Numbers, Follows
<1>5. mem'.rev \in Int /\ saved'.rev \in Int
  BY DEF Base, Typed, States
<1>6. Unsaved' = {}
  BY <1>1, <1>2, <1>3, <1>5, DocumentFields DEF Unsaved
<1> QED
  BY <1>2, <1>4, <1>6 DEF Good, Recorded, Guest!Next, Guest!Take

LEMMA CrashGood ==
    ASSUME Base, Base', Numbers, Crash
    PROVE  Good
<1>1. /\ mem' = Default /\ saved' \in {saved, Default} /\ UNCHANGED config
      /\ pc' = "down" /\ ~InPass'
  BY DEF Crash, world, InPass
<1>2. Default.rev = -1 /\ Default.wanted = {}
  BY DEF Default
<1>3. /\ mem'.rev = -1 /\ saved'.rev >= -1 /\ saved'.rev \in Int
  BY <1>1, <1>2 DEF Numbers, Base, Typed, States
<1>4. Numbers'
  BY <1>1, <1>3 DEF Numbers
<1>5. Unsaved' = {}
  BY <1>1, <1>3, DocumentFields DEF Unsaved
<1>6. CASE saved' = saved
  BY <1>1, <1>4, <1>5, <1>6 DEF Good, Guest!Next, Guest!Take
<1>7. CASE saved' = Default
  <2>1. Document(saved'.rev, saved'.wanted) \in Guest!Beginnings
    BY <1>2, <1>7 DEF Document, Guest!Beginnings, Guest!Documents, Guest!NoRevision
  <2> QED
    BY <1>1, <1>4, <1>5, <2>1 DEF Good, Guest!Next, Guest!Forget
<1> QED
  BY <1>1, <1>6, <1>7

LEMMA PublishGood ==
    ASSUME Base, Base', Numbers, Publish
    PROVE  Good
<1>1. UNCHANGED <<saved, mem, work, pc>> /\ config'.rev \in 0 .. config.rev + 1
  BY DEF Publish, private, agent
<1>2. config.rev \in Int /\ config'.rev \in Int /\ config'.rev >= 0
  BY <1>1 DEF Base, Typed, Numbers
<1>3. Numbers'
  BY <1>1, <1>2 DEF Numbers, InPass, Follows, Held, Recorded, AtWork
<1>4. Unsaved' = Unsaved
  BY <1>1 DEF Unsaved, InPass
<1>5. Document(config'.rev, Antichain(config'.raw)) \in Guest!Documents
  BY <1>2, AntichainIsPart DEF Base, Typed, Document, Guest!Documents
<1> QED
  BY <1>1, <1>3, <1>4, <1>5 DEF Good, Guest!Next, Guest!Propose

\* What the agent records was published, and only a higher number replaces it:
\* through passes that throw or are cut off, writes of the state that fail and
\* later ones that succeed, and restarts, with or without the state.
THEOREM AgentImplementsGuest == Spec => SavedOnlyForward
<1>1. Init => Numbers /\ Guest!Init
  <2> SUFFICES ASSUME Init PROVE Numbers /\ Guest!Init
    OBVIOUS
  <2>1. Default.rev = -1 /\ Default.wanted = {} /\ saved = Default /\ mem = Default
    BY DEF Init, Default
  <2>2. config.rev = 0 /\ config.raw \subseteq Items /\ pc = "down" /\ ~InPass
    <3>1. PICK start \in [rev : {0}, raw : SUBSET Items, readable : {TRUE}] : config = start
      BY DEF Init
    <3> QED
      BY <3>1 DEF Init, InPass
  <2>3. Numbers
    BY <2>1, <2>2 DEF Numbers
  <2>4. Unsaved = {}
    BY <2>1, <2>2, NothingCarried
  <2>5. /\ Document(config.rev, Antichain(config.raw)) \in Guest!Documents
        /\ Document(saved.rev, saved.wanted) \in Guest!Beginnings
    BY <2>1, <2>2, AntichainIsPart
    DEF Document, Guest!Documents, Guest!Beginnings, Guest!NoRevision
  <2> QED
    BY <2>3, <2>4, <2>5 DEF Guest!Init
<1>2. Base /\ Base' /\ Numbers /\ [Next]_vars => Good
  <2> SUFFICES ASSUME Base, Base', Numbers, [Next]_vars PROVE Good
    OBVIOUS
  <2>1. CASE Quiet
    BY <2>1, QuietKeeps, QuietStep DEF Good
  <2>2. BeginPass \/ Disarm \/ Persist \/ EndScan \/ Start \/ Crash \/ Publish => Good
    BY BeginPassGood, DisarmGood, PersistGood, EndScanGood, StartGood, CrashGood, PublishGood
  <2> QED
    BY <2>1, <2>2, EveryStep, QuietPass, QuietScan, QuietOther
<1>3. Good => Numbers' /\ [Guest!Next]_(Guest!vars)
  BY DEF Good
<1> QED
  BY <1>1, <1>2, <1>3, BaseHolds, PTL DEF Spec, SavedOnlyForward, Guest!Spec

=============================================================================
