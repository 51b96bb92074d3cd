----------------------- MODULE SafeWorkspace_proofs -----------------------
(***************************************************************************)
(* What holds of a Safe Workspace for every set of paths, every threshold  *)
(* of the guard and every bound: no version is lost, what exists once is   *)
(* only taken away by a user, an empty side empties nothing, and a mass    *)
(* deletion that the baseline knows stays where it is.                     *)
(***************************************************************************)
EXTENDS SafeWorkspace, FiniteSetTheorems, TLAPS

(* The inductive invariant.                                                *)

\* A version that has not been written is nowhere.
Fresh == \A s \in Sides, p \in Paths : folder[s][p] < next

\* What both folders hold, or the engine takes for common, both have held.
Meeting ==
    /\ \A p \in Paths : folder["local"][p] # Absent /\ folder["remote"][p] = folder["local"][p]
                           => <<p, folder["local"][p]>> \in shared
    /\ \A p \in Paths : found["local"][p] # Absent /\ found["remote"][p] = found["local"][p]
                           => <<p, found["local"][p]>> \in shared
    /\ \A p \in Paths : archive[p] # Absent => <<p, archive[p]>> \in shared
    /\ \A p \in Paths : agreed[p] # Absent => <<p, agreed[p]>> \in shared

\* An engine that does not copy has found and changed nothing.
Parked == engine # "copying" => found = NoScan /\ applied = {}

\* One that has found a side empty had an empty archive.
Emptied ==
    \A s \in Sides : found[s] = Empty =>
        /\ engine = "copying" => archive = Empty
        /\ \A p \in Paths : <<Other(s), p>> \notin applied

Known(s) == IF s = "local" THEN baseline.local ELSE baseline.remote

Unlearned == baseline.known \/ \A s \in Sides : Known(s) = {}

\* What has vanished from a side whose baseline knew it.
Pending(s) == {p \in Paths : [side |-> s, path |-> p, armed |-> TRUE] \in vanished}

\* It stays away from that side, and every cycle that looks finds so.
HoldsOn(s) ==
    /\ engine = "none" /\ pc \in {"idle", "local", "decide"}
    /\ baseline.known
    /\ Pending(s) \subseteq Known(s)
    /\ Cardinality(Pending(s)) >= MinMissing
    /\ Cardinality(Pending(s)) * 100 >= Percent * Cardinality(Known(s))
    /\ \A p \in Pending(s) :
          /\ archive[p] # Absent /\ folder[s][p] = Absent
          /\ pc = "decide" \/ (pc = "local" /\ s = "remote") => seen[s][p] = Absent

OnHold == \A s \in Sides : Pending(s) # {} => HoldsOn(s)

\* What NoVersionLost says besides the types.
Kept ==
    \A copy \in live :
       \/ \E side \in Sides : folder[side][copy[1]] = copy[2]
       \/ copy \in backups

IInv == TypeOK /\ Kept /\ Fresh /\ Meeting /\ Parked /\ Emptied /\ Unlearned /\ OnHold

Folders == [Sides -> [Paths -> Contents]]

-----------------------------------------------------------------------------
(* What the steps do to the folders, path by path.                         *)

LEMMA OtherSide ==
    ASSUME NEW s \in Sides
    PROVE  Other(s) \in Sides /\ Other(s) # s /\ Other(Other(s)) = s
  BY DEF Sides, Other

LEMMA EmptyTyped == Empty \in [Paths -> Contents] /\ NoScan \in Folders
<1>1. Empty \in [Paths -> Contents]
  BY DEF Empty, Contents
<1>2. \A s \in Sides : NoScan[s] \in [Paths -> Contents]
  BY <1>1 DEF NoScan, Sides
<1> QED
  BY <1>1, <1>2 DEF NoScan, Sides, Folders

\* The root of a side is its folder, or an empty one.
LEMMA RootTyped ==
    ASSUME TypeOK, NEW s \in Sides
    PROVE  Root(s) \in [Paths -> Contents] /\ Root(s) \in {folder[s], Empty}
  BY EmptyTyped DEF TypeOK, Root

LEMMA EditEffect ==
    ASSUME TypeOK, NEW s \in Sides, NEW p \in Paths, Edit(s, p)
    PROVE  /\ folder' \in Folders
           /\ \A t \in Sides, q \in Paths :
                 folder'[t][q] = IF t = s /\ q = p THEN next ELSE folder[t][q]
<1>1. next \in Contents
  BY DEF Edit, TypeOK, Contents
<1> QED
  BY <1>1 DEF Edit, TypeOK, Folders

LEMMA DeleteEffect ==
    ASSUME TypeOK, NEW s \in Sides, NEW lost, Delete(s, lost)
    PROVE  /\ folder' \in Folders
           /\ \A t \in Sides, q \in Paths :
                 folder'[t][q] = IF t = s /\ q \in lost THEN Absent ELSE folder[t][q]
<1> DEFINE left == [p \in Paths |-> IF p \in lost THEN Absent ELSE folder[s][p]]
<1>1. folder' = [folder EXCEPT ![s] = left]
  BY DEF Delete, TypeOK
<1>2. left \in [Paths -> Contents]
  BY DEF TypeOK, Contents, Absent
<1>3. \A q \in Paths : left[q] = IF q \in lost THEN Absent ELSE folder[s][q]
  OBVIOUS
<1> HIDE DEF left
<1> QED
  BY <1>1, <1>2, <1>3 DEF TypeOK, Folders

LEMMA PropagateEffect ==
    ASSUME TypeOK, NEW s \in Sides, NEW p \in Paths, Propagate(s, p)
    PROVE  /\ folder' \in Folders
           /\ \A t \in Sides, q \in Paths :
                 folder'[t][q] = IF t = Other(s) /\ q = p THEN folder[s][p] ELSE folder[t][q]
  BY OtherSide DEF Propagate, TypeOK, Folders

-----------------------------------------------------------------------------
(* Types.                                                                  *)

LEMMA TypeInit == Init => TypeOK
<1> SUFFICES ASSUME Init PROVE TypeOK
  OBVIOUS
<1>1. PICK some \in SUBSET Paths :
         folder = [local |-> Empty,
                   remote |-> [p \in Paths |-> IF p \in some THEN 1 ELSE Absent]]
  BY DEF Init
<1>2. Empty \in [Paths -> Contents] /\ NoScan \in [Sides -> [Paths -> Contents]]
  BY EmptyTyped DEF Folders
<1>3. 1 \in Contents /\ Absent \in Contents
  BY GuardAssumption DEF Contents, Absent
<1>4. folder \in [Sides -> [Paths -> Contents]]
  <2> DEFINE there == [p \in Paths |-> IF p \in some THEN 1 ELSE Absent]
  <2>1. there \in [Paths -> Contents]
    BY <1>3
  <2>2. folder = [local |-> Empty, remote |-> there]
    BY <1>1
  <2> HIDE DEF there
  <2> QED
    BY <1>2, <2>1, <2>2 DEF Sides
<1>5. live \subseteq Copies
  BY GuardAssumption DEF Init, Copies, PathsOf
<1>6. observed \in [known : BOOLEAN, pair : [Sides -> [Paths -> Contents]]]
  <2>1. observed = [known |-> FALSE, pair |-> NoScan]
    BY DEF Init, NoPair
  <2> QED
    BY <1>2, <2>1
<1>7. baseline \in [known : BOOLEAN, local : SUBSET Paths, remote : SUBSET Paths]
  BY DEF Init, NoBaseline
<1>8. next \in 2 .. MaxVersion + 1 /\ events \in 0 .. MaxEvents
  BY GuardAssumption DEF Init
<1> QED
  BY <1>2, <1>4, <1>5, <1>6, <1>7, <1>8 DEF Init, TypeOK

LEMMA TypeCycle ==
    ASSUME TypeOK, Cycle
    PROVE  TypeOK'
<1> USE DEF cycle, disk, run, world, Report
<1>1. CASE CycleBegins
  BY <1>1, EmptyTyped DEF CycleBegins, TypeOK, Folders, Sides
<1>2. CASE ScanLocal
  BY <1>2 DEF ScanLocal, TypeOK, Sides
<1>3. CASE Refuses
  BY <1>3, EmptyTyped DEF Refuses, Refusal, TypeOK, Folders
<1>4. CASE Stabilizes
  <2>1. observed' \in [known : BOOLEAN, pair : [Sides -> [Paths -> Contents]]]
    BY <1>4 DEF Stabilizes, TypeOK
  <2> QED
    BY <1>4, <2>1, EmptyTyped DEF Stabilizes, TypeOK, Folders
<1>5. CASE Halts
  BY <1>5, EmptyTyped DEF Halts, TypeOK, Folders
<1>6. CASE Invokes
  BY <1>6, EmptyTyped DEF Invokes, TypeOK, Folders
<1>7. CASE Records
  <2>1. baseline' \in [known : BOOLEAN, local : SUBSET Paths, remote : SUBSET Paths]
    BY <1>7 DEF Records, PathsOf
  <2> QED
    BY <1>7, <2>1, EmptyTyped DEF Records, TypeOK, Folders
<1> QED
  BY <1>1, <1>2, <1>3, <1>4, <1>5, <1>6, <1>7 DEF Cycle

LEMMA TypeEngine ==
    ASSUME TypeOK, Engine
    PROVE  TypeOK'
<1> USE DEF cycle, disk, run, world, Report
<1>1. CASE EngineStarts
  <2>1. CASE BigDelete
    BY <1>1, <2>1, EmptyTyped DEF EngineStarts, Gone, Answer, TypeOK, Folders
  <2>2. CASE ~BigDelete
    <3>1. found' = [side \in Sides |-> Root(side)]
      BY <1>1, <2>2 DEF EngineStarts
    <3>2. found' \in [Sides -> [Paths -> Contents]]
      BY <3>1, RootTyped
    <3> QED
      BY <1>1, <2>2, <3>2 DEF EngineStarts, TypeOK
  <2> QED
    BY <2>1, <2>2
<1>2. ASSUME NEW p \in Paths, EngineCopies(p) PROVE TypeOK'
  <2>1. CASE \E s \in Sides : Propagate(s, p)
    <3>1. PICK s \in Sides : Propagate(s, p)
      BY <2>1
    <3>2. folder' \in [Sides -> [Paths -> Contents]]
      BY <3>1, PropagateEffect DEF Folders
    <3>3. folder[s][p] \in Contents /\ folder[Other(s)][p] \in Contents
      BY OtherSide DEF TypeOK
    <3>4. agreed' \in [Paths -> Contents]
      BY <3>1, <3>3 DEF Propagate, TypeOK
    <3>5. applied' \subseteq Sides \X Paths
      BY <3>1, OtherSide DEF Propagate, TypeOK
    <3>6. backups' \subseteq Copies /\ shared' \subseteq Copies
      <4>1. folder[s][p] # Absent => <<p, folder[s][p]>> \in Copies
        BY <3>3 DEF Copies, Contents, Absent
      <4>2. folder[Other(s)][p] # Absent => <<p, folder[Other(s)][p]>> \in Copies
        BY <3>3 DEF Copies, Contents, Absent
      <4> QED
        BY <3>1, <4>1, <4>2 DEF Propagate, Saved, TypeOK
    <3> QED
      BY <1>2, <3>1, <3>2, <3>4, <3>5, <3>6 DEF EngineCopies, Propagate, TypeOK
  <2>2. CASE UNCHANGED folder /\ UNCHANGED <<backups, applied, shared>>
    <3>1. agreed' \in [Paths -> Contents]
      BY <1>2, <2>2 DEF EngineCopies, Skip, Propagate, TypeOK, Sides
    <3>2. spoiled' \in {"no", "conflict", "failed"}
      BY <1>2 DEF EngineCopies, Skip, Propagate, TypeOK
    <3> QED
      BY <1>2, <2>2, <3>1, <3>2 DEF EngineCopies, TypeOK
  <2> QED
    BY <1>2, <2>1, <2>2 DEF EngineCopies, Skip, Sides
<1>3. CASE EngineEnds
  BY <1>3, EmptyTyped DEF EngineEnds, Gone, Answer, Exit, TypeOK, Folders
<1> QED
  BY <1>1, <1>2, <1>3 DEF Engine

LEMMA TypeWorld ==
    ASSUME TypeOK, World
    PROVE  TypeOK'
<1> USE DEF cycle, disk, run, world, Report, Happens
<1>0. events \in 0 .. MaxEvents /\ (events < MaxEvents => events + 1 \in 0 .. MaxEvents)
  BY GuardAssumption DEF TypeOK
<1>1. ASSUME NEW s \in Sides, NEW p \in Paths, Edit(s, p) PROVE TypeOK'
  <2>1. folder' \in [Sides -> [Paths -> Contents]]
    BY <1>1, EditEffect DEF Folders
  <2>2. live' \subseteq Copies
    BY <1>1, GuardAssumption DEF Edit, TypeOK, Copies
  <2>3. next' \in 2 .. MaxVersion + 1
    BY <1>1, GuardAssumption DEF Edit, TypeOK
  <2>4. vanished' \subseteq vanished
    BY <1>1 DEF Edit
  <2> QED
    BY <1>0, <1>1, <2>1, <2>2, <2>3, <2>4 DEF Edit, TypeOK
<1>2. ASSUME NEW s \in Sides, NEW lost \in SUBSET PathsOf(folder[s]), Delete(s, lost)
      PROVE  TypeOK'
  <2>1. folder' \in [Sides -> [Paths -> Contents]]
    BY <1>2, DeleteEffect DEF Folders
  <2>2. live' \subseteq live
    BY <1>2 DEF Delete
  <2>3. vanished' \subseteq [side : Sides, path : Paths, armed : BOOLEAN]
    <3>1. lost \subseteq Paths
      BY DEF PathsOf
    <3>2. [side : {s}, path : lost, armed : {Armed}]
             \subseteq [side : Sides, path : Paths, armed : BOOLEAN]
      <4>1. Armed \in BOOLEAN
        BY DEF Armed
      <4> QED
        BY <3>1, <4>1
    <3> QED
      BY <1>2, <3>2 DEF Delete, TypeOK
  <2> QED
    BY <1>0, <1>2, <2>1, <2>2, <2>3 DEF Delete, TypeOK
<1>3. CASE Unmount
  <2>1. mounted' \in BOOLEAN
    BY <1>3 DEF Unmount
  <2>2. UNCHANGED <<folder, next, vanished, cycle, disk, run, backups, live, shared>>
    BY <1>3 DEF Unmount
  <2>3. events' \in 0 .. MaxEvents
    BY <1>0, <1>3 DEF Unmount
  <2> QED
    BY <2>1, <2>2, <2>3 DEF TypeOK
<1>4. CASE Mount
  BY <1>4 DEF Mount, TypeOK
<1>5. CASE Crash
  BY <1>0, <1>5, EmptyTyped DEF Crash, TypeOK, Folders
<1>6. CASE EngineTimesOut
  BY <1>0, <1>6, EmptyTyped DEF EngineTimesOut, Gone, TypeOK, Folders
<1>7. CASE EngineDies
  BY <1>0, <1>7, EmptyTyped DEF EngineDies, Gone, TypeOK, Folders
<1>8. CASE CycleFails
  BY <1>0, <1>8, EmptyTyped DEF CycleFails, TypeOK, Folders
<1> QED
  BY <1>1, <1>2, <1>3, <1>4, <1>5, <1>6, <1>7, <1>8 DEF World

LEMMA TypeStep == TypeOK /\ [Next]_vars => TypeOK'
<1>1. CASE UNCHANGED vars
  BY <1>1 DEF vars, cycle, disk, run, world, TypeOK
<1> QED
  BY <1>1, TypeCycle, TypeEngine, TypeWorld DEF Next

-----------------------------------------------------------------------------
(* Which steps touch the folders, and which the engine's books.            *)

\* p is carried over by a running engine, and the side it comes from.
Carries(s, p) ==
    /\ engine = "copying" /\ p \in todo
    /\ found["local"][p] # found["remote"][p] /\ ~Contested(p) /\ Untouched(p)
    /\ s = IF Changed("local", p) THEN "local" ELSE "remote"
    /\ Propagate(s, p)
    /\ UNCHANGED <<cycle, disk, world, live, engine, found>>

LEMMA FolderSteps ==
    ASSUME [Next]_vars
    PROVE  \/ UNCHANGED <<folder, backups, live, shared, next>> /\ vanished' = vanished
           \/ \E s \in Sides, p \in Paths : Edit(s, p)
           \/ \E s \in Sides : \E lost \in SUBSET PathsOf(folder[s]) : Delete(s, lost)
           \/ \E s \in Sides, p \in Paths : Carries(s, p)
<1> USE DEF world
<1>1. CASE Cycle
  BY <1>1 DEF Cycle, CycleBegins, ScanLocal, Refuses, Stabilizes, Halts, Invokes, Records
<1>2. CASE EngineStarts \/ EngineEnds
  BY <1>2 DEF EngineStarts, EngineEnds
<1>3. ASSUME NEW p \in Paths, EngineCopies(p)
      PROVE  \/ UNCHANGED <<folder, backups, live, shared, next>> /\ vanished' = vanished
             \/ \E s \in Sides : Carries(s, p)
  BY <1>3 DEF EngineCopies, Skip, Carries, Sides
<1>4. CASE Unmount \/ Mount \/ Crash \/ EngineTimesOut \/ EngineDies \/ CycleFails
  BY <1>4 DEF Unmount, Mount, Crash, EngineTimesOut, EngineDies, CycleFails
<1>5. CASE UNCHANGED vars
  BY <1>5 DEF vars
<1> QED
  BY <1>1, <1>2, <1>3, <1>4, <1>5 DEF Next, Engine, World

LEMMA EngineSteps ==
    ASSUME [Next]_vars
    PROVE  \/ UNCHANGED <<engine, found, agreed, applied, archive>>
           \/ /\ engine' # "copying" /\ Gone
              /\ UNCHANGED archive \/ (engine = "copying" /\ archive' = agreed)
           \/ engine' = "starting" /\ UNCHANGED <<found, agreed, applied, archive>>
                /\ engine = "none"
           \/ EngineStarts /\ ~BigDelete
           \/ /\ engine = "copying"
              /\ UNCHANGED <<engine, found, applied, archive>>
              /\ \E p \in Paths :
                    /\ agreed' = [agreed EXCEPT ![p] = found["local"][p]]
                    /\ found["local"][p] = found["remote"][p]
           \/ \E s \in Sides, p \in Paths : Carries(s, p)
<1> USE DEF world, run, disk
<1>1. CASE CycleBegins \/ ScanLocal \/ Refuses \/ Stabilizes \/ Halts \/ Records
  BY <1>1 DEF CycleBegins, ScanLocal, Refuses, Stabilizes, Halts, Records
<1>2. CASE Invokes
  BY <1>2 DEF Invokes
<1>3. CASE EngineStarts
  BY <1>3 DEF EngineStarts, Gone
<1>4. ASSUME NEW p \in Paths, EngineCopies(p)
      PROVE  \/ UNCHANGED <<engine, found, agreed, applied, archive>>
             \/ /\ engine = "copying"
                /\ UNCHANGED <<engine, found, applied, archive>>
                /\ agreed' = [agreed EXCEPT ![p] = found["local"][p]]
                /\ found["local"][p] = found["remote"][p]
             \/ \E s \in Sides : Carries(s, p)
  BY <1>4 DEF EngineCopies, Skip, Carries, Sides
<1>5. CASE EngineEnds
  BY <1>5 DEF EngineEnds, Gone
<1>6. ASSUME NEW s \in Sides, NEW p \in Paths, Edit(s, p)
      PROVE  UNCHANGED <<engine, found, agreed, applied, archive>>
  BY <1>6 DEF Edit
<1>7. ASSUME NEW s \in Sides, NEW lost, Delete(s, lost)
      PROVE  UNCHANGED <<engine, found, agreed, applied, archive>>
  BY <1>7 DEF Delete
<1>8. CASE Unmount \/ Mount \/ Crash \/ CycleFails
  BY <1>8 DEF Unmount, Mount, Crash, CycleFails
<1>9. CASE EngineTimesOut \/ EngineDies
  BY <1>9 DEF EngineTimesOut, EngineDies, Gone
<1>10. CASE UNCHANGED vars
  BY <1>10 DEF vars
<1> QED
  BY <1>1, <1>2, <1>3, <1>4, <1>5, <1>6, <1>7, <1>8, <1>9, <1>10
     DEF Next, Cycle, Engine, World

-----------------------------------------------------------------------------
(* No version is lost.                                                     *)

LEMMA CopyTyped ==
    ASSUME TypeOK, NEW copy \in live
    PROVE  copy = <<copy[1], copy[2]>> /\ copy[1] \in Paths /\ copy[2] \in 1 .. MaxVersion
  BY DEF TypeOK, Copies

LEMMA KeptStep ==
    ASSUME TypeOK, Kept, [Next]_vars
    PROVE  Kept'
<1>1. CASE UNCHANGED <<folder, backups, live>>
  BY <1>1 DEF Kept
<1>2. ASSUME NEW s \in Sides, NEW p \in Paths, Edit(s, p)
      PROVE  Kept'
  <2> SUFFICES ASSUME NEW copy \in live', copy \notin backups'
               PROVE  \E side \in Sides : folder'[side][copy[1]] = copy[2]
    BY DEF Kept
  <2>1. CASE copy = <<p, next>>
    BY <1>2, <2>1, EditEffect
  <2>2. CASE copy # <<p, next>>
    <3>1. copy \in live /\ copy \notin GivenUp(s, p) /\ copy \notin backups
      BY <1>2, <2>2 DEF Edit
    <3>2. PICK side \in Sides : folder[side][copy[1]] = copy[2]
      BY <3>1 DEF Kept
    <3>3. copy = <<copy[1], copy[2]>> /\ copy[1] \in Paths /\ copy[2] # Absent
      BY <3>1, CopyTyped DEF Absent
    <3>4. CASE side = s /\ copy[1] = p
      <4>1. folder[Other(s)][p] = copy[2]
        BY <3>1, <3>2, <3>3, <3>4 DEF GivenUp
      <4> QED
        BY <1>2, <3>4, <4>1, EditEffect, OtherSide
    <3>5. CASE ~(side = s /\ copy[1] = p)
      BY <1>2, <3>2, <3>3, <3>5, EditEffect
    <3> QED
      BY <3>4, <3>5
  <2> QED
    BY <2>1, <2>2
<1>3. ASSUME NEW s \in Sides, NEW lost \in SUBSET PathsOf(folder[s]), Delete(s, lost)
      PROVE  Kept'
  <2> SUFFICES ASSUME NEW copy \in live', copy \notin backups'
               PROVE  \E side \in Sides : folder'[side][copy[1]] = copy[2]
    BY DEF Kept
  <2>1. copy \in live /\ copy \notin backups /\ \A p \in lost : copy \notin GivenUp(s, p)
    BY <1>3 DEF Delete
  <2>2. PICK side \in Sides : folder[side][copy[1]] = copy[2]
    BY <2>1 DEF Kept
  <2>3. copy = <<copy[1], copy[2]>> /\ copy[1] \in Paths /\ copy[2] # Absent
    BY <2>1, CopyTyped DEF Absent
  <2>4. CASE side = s /\ copy[1] \in lost
    <3>1. folder[Other(s)][copy[1]] = copy[2]
      BY <2>1, <2>2, <2>3, <2>4 DEF GivenUp
    <3> QED
      BY <1>3, <2>3, <3>1, DeleteEffect, OtherSide
  <2>5. CASE ~(side = s /\ copy[1] \in lost)
    BY <1>3, <2>2, <2>3, <2>5, DeleteEffect
  <2> QED
    BY <2>4, <2>5
<1>4. ASSUME NEW s \in Sides, NEW p \in Paths, Carries(s, p)
      PROVE  Kept'
  <2> SUFFICES ASSUME NEW copy \in live', copy \notin backups'
               PROVE  \E side \in Sides : folder'[side][copy[1]] = copy[2]
    BY DEF Kept
  <2>1. Propagate(s, p) /\ live' = live
    BY <1>4 DEF Carries
  <2>2. copy \in live /\ copy \notin backups /\ copy \notin Saved(Other(s), p)
    BY <2>1 DEF Propagate
  <2>3. PICK side \in Sides : folder[side][copy[1]] = copy[2]
    BY <2>2 DEF Kept
  <2>4. copy = <<copy[1], copy[2]>> /\ copy[1] \in Paths /\ copy[2] # Absent
    BY <2>2, CopyTyped DEF Absent
  <2>5. ~(side = Other(s) /\ copy[1] = p)
    BY <2>2, <2>3, <2>4 DEF Saved
  <2> QED
    BY <2>1, <2>3, <2>4, <2>5, PropagateEffect
<1> QED
  BY <1>1, <1>2, <1>3, <1>4, FolderSteps

-----------------------------------------------------------------------------
(* What exists once.                                                       *)

LEMMA FreshStep ==
    ASSUME TypeOK, Fresh, [Next]_vars
    PROVE  Fresh'
<1>0. next \in Nat /\ Absent < next
  BY DEF TypeOK, Absent
<1>1. CASE UNCHANGED <<folder, next>>
  BY <1>1 DEF Fresh
<1>2. ASSUME NEW s \in Sides, NEW p \in Paths, Edit(s, p)
      PROVE  Fresh'
  <2>1. next' = next + 1
    BY <1>2 DEF Edit
  <2>2. \A t \in Sides, q \in Paths : folder[t][q] \in Nat
    BY DEF TypeOK, Contents, Absent
  <2> QED
    BY <1>0, <1>2, <2>1, <2>2, EditEffect DEF Fresh
<1>3. ASSUME NEW s \in Sides, NEW lost \in SUBSET PathsOf(folder[s]), Delete(s, lost)
      PROVE  Fresh'
  <2>1. next' = next
    BY <1>3 DEF Delete
  <2> QED
    BY <1>0, <1>3, <2>1, DeleteEffect DEF Fresh
<1>4. ASSUME NEW s \in Sides, NEW p \in Paths, Carries(s, p)
      PROVE  Fresh'
  <2>1. Propagate(s, p) /\ next' = next
    BY <1>4 DEF Carries, world
  <2> QED
    BY <2>1, PropagateEffect DEF Fresh
<1> QED
  BY <1>1, <1>2, <1>3, <1>4, FolderSteps

\* What a carried path holds on the side it is carried to is what the engine
\* had recorded, and so is what it has found there.
LEMMA CarriedOver ==
    ASSUME TypeOK, NEW s \in Sides, NEW p \in Paths, Carries(s, p)
    PROVE  /\ folder[Other(s)][p] = archive[p] /\ found[Other(s)][p] = archive[p]
           /\ folder[s][p] = found[s][p] /\ found[s][p] # archive[p]
<1>1. ~Changed(Other(s), p) /\ Changed(s, p)
  BY DEF Carries, Contested, Changed, Other, Sides
<1>2. \A t \in Sides : folder[t][p] = found[t][p]
  BY DEF Carries, Untouched
<1> QED
  BY <1>1, <1>2, OtherSide DEF Changed

LEMMA SharedGrows == ASSUME [Next]_vars PROVE shared \subseteq shared'
<1>1. ASSUME NEW s \in Sides, NEW p \in Paths, Edit(s, p) PROVE shared' = shared
  BY <1>1 DEF Edit
<1>2. ASSUME NEW s \in Sides, NEW lost, Delete(s, lost) PROVE shared' = shared
  BY <1>2 DEF Delete
<1>3. ASSUME NEW s \in Sides, NEW p \in Paths, Carries(s, p) PROVE shared \subseteq shared'
  BY <1>3 DEF Carries, Propagate
<1> QED
  BY <1>1, <1>2, <1>3, FolderSteps

LEMMA FoldersMeet ==
    ASSUME TypeOK, Fresh, Meeting, [Next]_vars, NEW p \in Paths,
           folder'["local"][p] # Absent, folder'["remote"][p] = folder'["local"][p]
    PROVE  <<p, folder'["local"][p]>> \in shared'
<1> USE DEF Sides
<1>0. shared \subseteq shared'
  BY SharedGrows
<1>1. CASE UNCHANGED folder
  BY <1>0, <1>1 DEF Meeting
<1>2. ASSUME NEW s \in Sides, NEW q \in Paths, Edit(s, q)
      PROVE  <<p, folder'["local"][p]>> \in shared'
  <2>1. p # q
    <3>1. folder[Other(s)][q] < next /\ next \in Nat
      BY OtherSide DEF Fresh, TypeOK
    <3>2. folder'[s][q] = next /\ folder'[Other(s)][q] = folder[Other(s)][q]
      BY <1>2, EditEffect, OtherSide
    <3> QED
      BY <3>1, <3>2 DEF Other
  <2> QED
    BY <1>0, <1>2, <2>1, EditEffect DEF Meeting
<1>3. ASSUME NEW s \in Sides, NEW lost \in SUBSET PathsOf(folder[s]), Delete(s, lost)
      PROVE  <<p, folder'["local"][p]>> \in shared'
  <2>1. /\ folder'["local"][p] = folder["local"][p]
        /\ folder'["remote"][p] = folder["remote"][p]
    BY <1>3, DeleteEffect
  <2> QED
    BY <1>0, <2>1 DEF Meeting
<1>4. ASSUME NEW s \in Sides, NEW q \in Paths, Carries(s, q)
      PROVE  <<p, folder'["local"][p]>> \in shared'
  <2>0. Propagate(s, q)
    BY <1>4 DEF Carries
  <2>1. CASE p = q
    <3>1. folder'["local"][p] = folder[s][p]
      BY <2>0, <2>1, PropagateEffect DEF Other
    <3>2. shared' = shared \cup {<<p, folder[s][p]>>}
      BY <2>0, <2>1, <3>1 DEF Propagate
    <3> QED
      BY <3>1, <3>2
  <2>2. CASE p # q
    BY <1>0, <2>0, <2>2, PropagateEffect DEF Meeting
  <2> QED
    BY <2>1, <2>2
<1> QED
  BY <1>1, <1>2, <1>3, <1>4, FolderSteps

LEMMA MeetingStep ==
    ASSUME TypeOK, Fresh, Meeting, [Next]_vars
    PROVE  Meeting'
<1>0. shared \subseteq shared'
  BY SharedGrows
<1>1. \A p \in Paths : folder'["local"][p] # Absent /\ folder'["remote"][p] = folder'["local"][p]
                          => <<p, folder'["local"][p]>> \in shared'
  BY FoldersMeet
<1>2. CASE UNCHANGED <<found, agreed, archive>>
  BY <1>0, <1>1, <1>2 DEF Meeting
<1>3. CASE Gone /\ (UNCHANGED archive \/ archive' = agreed)
  <2>1. \A p \in Paths : agreed'[p] = Absent /\ found'["local"][p] = Absent
    BY <1>3 DEF Gone, Empty, NoScan
  <2>2. \A p \in Paths : archive'[p] # Absent => <<p, archive'[p]>> \in shared'
    BY <1>0, <1>3 DEF Meeting
  <2> QED
    BY <1>1, <1>3, <2>1, <2>2 DEF Meeting
<1>4. CASE EngineStarts /\ ~BigDelete
  <2>1. agreed' = archive /\ archive' = archive /\ found' = [side \in Sides |-> Root(side)]
    BY <1>4 DEF EngineStarts, disk
  <2>2. ASSUME NEW p \in Paths, found'["local"][p] # Absent,
               found'["remote"][p] = found'["local"][p]
        PROVE  <<p, found'["local"][p]>> \in shared'
    <3>1. found'["local"] = Root("local") /\ found'["remote"] = Root("remote")
      BY <2>1 DEF Sides
    <3>2. Root("local") = folder["local"]
      BY DEF Root
    <3>3. Root("remote")[p] = folder["remote"][p]
      <4>1. Empty[p] = Absent
        BY DEF Empty
      <4> QED
        BY <2>2, <3>1, <4>1 DEF Root
    <3> QED
      BY <1>0, <2>2, <3>1, <3>2, <3>3 DEF Meeting
  <2> QED
    BY <1>0, <1>1, <2>1, <2>2 DEF Meeting
<1>5. ASSUME NEW p \in Paths, agreed' = [agreed EXCEPT ![p] = found["local"][p]],
             found["local"][p] = found["remote"][p], UNCHANGED <<found, archive>>
      PROVE  Meeting'
  <2>1. \A q \in Paths : agreed'[q] = IF q = p THEN found["local"][p] ELSE agreed[q]
    BY <1>5 DEF TypeOK
  <2> QED
    BY <1>0, <1>1, <1>5, <2>1 DEF Meeting
<1>6. ASSUME NEW s \in Sides, NEW p \in Paths, Carries(s, p)
      PROVE  Meeting'
  <2>1. \A q \in Paths : agreed'[q] = IF q = p THEN folder[s][p] ELSE agreed[q]
    BY <1>6 DEF Carries, Propagate, TypeOK
  <2>2. folder[s][p] # Absent => <<p, folder[s][p]>> \in shared'
    BY <1>6 DEF Carries, Propagate
  <2>3. found' = found /\ archive' = archive
    BY <1>6 DEF Carries, disk
  <2> QED
    BY <1>0, <1>1, <2>1, <2>2, <2>3 DEF Meeting
<1> QED
  BY <1>2, <1>3, <1>4, <1>5, <1>6, EngineSteps

-----------------------------------------------------------------------------
(* An empty side.                                                          *)

LEMMA ParkedStep ==
    ASSUME Parked, [Next]_vars
    PROVE  Parked'
<1>1. CASE UNCHANGED <<engine, found, applied>>
  BY <1>1 DEF Parked
<1>2. CASE Gone
  BY <1>2 DEF Gone, Parked
<1>3. CASE EngineStarts /\ ~BigDelete
  BY <1>3 DEF EngineStarts, Parked
<1>4. CASE engine = "none" /\ engine' = "starting" /\ UNCHANGED <<found, applied>>
  BY <1>4 DEF Parked
<1>5. ASSUME NEW s \in Sides, NEW p \in Paths, Carries(s, p) PROVE Parked'
  BY <1>5 DEF Carries, Parked
<1> QED
  BY <1>1, <1>2, <1>3, <1>4, <1>5, EngineSteps

LEMMA EmptiedStep ==
    ASSUME TypeOK, Parked, Emptied, [Next]_vars
    PROVE  Emptied'
<1>1. CASE UNCHANGED <<engine, found, applied, archive>>
  BY <1>1 DEF Emptied
<1>2. CASE Gone
  BY <1>2 DEF Gone, Emptied
<1>3. CASE engine = "none" /\ engine' = "starting" /\ UNCHANGED <<found, applied, archive>>
  BY <1>3 DEF Emptied
<1>4. CASE EngineStarts /\ ~BigDelete
  <2>1. applied' = applied /\ applied = {} /\ archive' = archive
    BY <1>4 DEF EngineStarts, Parked, disk
  <2>2. \A s \in Sides : found'[s] = Root(s)
    BY <1>4 DEF EngineStarts
  <2>3. \A s \in Sides : Root(s) = Empty => archive = Empty
    BY <1>4 DEF BigDelete
  <2> QED
    BY <2>1, <2>2, <2>3 DEF Emptied
<1>5. ASSUME NEW s \in Sides, NEW p \in Paths, Carries(s, p)
      PROVE  Emptied'
  <2>1. /\ engine = "copying" /\ engine' = engine /\ found' = found /\ archive' = archive
        /\ applied' = applied \cup {<<Other(s), p>>}
    BY <1>5 DEF Carries, Propagate, disk
  <2>2. ASSUME found[s] = Empty PROVE FALSE
    <3>1. archive = Empty
      BY <2>1, <2>2 DEF Emptied
    <3> QED
      BY <1>5, <2>2, <3>1, CarriedOver
  <2>3. \A t \in Sides : t # s => Other(t) # Other(s)
    BY DEF Sides, Other
  <2> QED
    BY <2>1, <2>2, <2>3 DEF Emptied
<1> QED
  BY <1>1, <1>2, <1>3, <1>4, <1>5, EngineSteps

-----------------------------------------------------------------------------
(* A mass deletion.                                                        *)

LEMMA BaselineSides == \A s \in Sides : baseline[s] = Known(s)
  BY DEF Sides, Known

LEMMA UnlearnedStep ==
    ASSUME Unlearned, [Next]_vars
    PROVE  Unlearned'
<1>1. CASE Records
  BY <1>1 DEF Records, Unlearned
<1>2. CASE UNCHANGED baseline
  BY <1>2 DEF Unlearned, Known
<1>3. CASE CycleBegins \/ ScanLocal \/ Refuses \/ Stabilizes \/ Halts \/ Invokes
  BY <1>2, <1>3 DEF CycleBegins, ScanLocal, Refuses, Stabilizes, Halts, Invokes, disk
<1>4. ASSUME NEW p \in Paths, EngineCopies(p) PROVE Unlearned'
  BY <1>2, <1>4 DEF EngineCopies, disk
<1>5. CASE EngineStarts \/ EngineEnds
  BY <1>2, <1>5 DEF EngineStarts, EngineEnds, disk
<1>6. ASSUME NEW s \in Sides, NEW p \in Paths, Edit(s, p) PROVE Unlearned'
  BY <1>2, <1>6 DEF Edit, disk
<1>7. ASSUME NEW s \in Sides, NEW lost, Delete(s, lost) PROVE Unlearned'
  BY <1>2, <1>7 DEF Delete, disk
<1>8. CASE Unmount \/ Mount \/ Crash \/ EngineTimesOut \/ EngineDies \/ CycleFails
  BY <1>2, <1>8 DEF Unmount, Mount, Crash, EngineTimesOut, EngineDies, CycleFails, disk
<1> QED
  BY <1>1, <1>2, <1>3, <1>4, <1>5, <1>6, <1>7, <1>8 DEF Next, Cycle, Engine, World, vars, disk

\* A cycle that has seen what is pending is guarded.
LEMMA HoldGuards ==
    ASSUME TypeOK, NEW s \in Sides, Pending(s) # {}, HoldsOn(s), pc = "decide"
    PROVE  Guarded
<1> DEFINE lost == Known(s) \ PathsOf(seen[s])
<1>1. Known(s) \subseteq Paths
  BY DEF TypeOK, Known
<1>2. Pending(s) \subseteq lost
  BY DEF HoldsOn, PathsOf
<1>3. IsFiniteSet(lost) /\ lost \subseteq Paths
  BY <1>1, GuardAssumption, FS_Subset
<1>4. /\ Cardinality(Pending(s)) <= Cardinality(lost)
      /\ Cardinality(Pending(s)) \in Nat /\ Cardinality(lost) \in Nat
  BY <1>2, <1>3, FS_Subset, FS_CardinalityType
<1>5. IsFiniteSet(Known(s)) /\ Cardinality(Known(s)) \in Nat
  BY <1>1, GuardAssumption, FS_Subset, FS_CardinalityType
<1>6. Cardinality(lost) >= MinMissing
  BY <1>4, GuardAssumption DEF HoldsOn
<1>7. Cardinality(lost) * 100 >= Percent * Cardinality(Known(s))
  <2>1. Percent * Cardinality(Known(s)) \in Nat
    BY <1>5, GuardAssumption
  <2>2. Cardinality(Pending(s)) * 100 >= Percent * Cardinality(Known(s))
    BY DEF HoldsOn
  <2> QED
    BY <1>4, <2>1, <2>2
<1>8. Bulk(lost, Known(s))
  BY <1>6, <1>7 DEF Bulk
<1>9. Known(s) # {}
  BY DEF HoldsOn
<1>10. Tripped(Known(s), PathsOf(seen[s]))
  BY <1>8, <1>9 DEF Tripped
<1> QED
  BY <1>10, BaselineSides DEF Guarded, HoldsOn

LEMMA HoldsThroughCycle ==
    ASSUME TypeOK, NEW s \in Sides, Pending(s) # {}, HoldsOn(s), Cycle
    PROVE  HoldsOn(s)'
<1> USE DEF HoldsOn, Pending, Known, disk, run, world, Report
<1>1. CASE CycleBegins
  BY <1>1 DEF CycleBegins, Sides, NoScan
<1>2. CASE ScanLocal
  BY <1>2 DEF ScanLocal, TypeOK, Sides
<1>3. CASE Refuses \/ Stabilizes \/ Halts
  BY <1>3 DEF Refuses, Stabilizes, Halts
<1>4. CASE Invokes
  BY <1>4, HoldGuards DEF Invokes
<1>5. CASE Records
  BY <1>5 DEF Records
<1> QED
  BY <1>1, <1>2, <1>3, <1>4, <1>5 DEF Cycle

LEMMA OnHoldEdit ==
    ASSUME TypeOK, OnHold, NEW t \in Sides, NEW q \in Paths, Edit(t, q)
    PROVE  OnHold'
<1> SUFFICES ASSUME NEW s \in Sides, Pending(s)' # {} PROVE HoldsOn(s)'
  BY DEF OnHold, HoldsOn
<1>1. UNCHANGED <<engine, pc, seen, baseline, archive>>
  BY DEF Edit, cycle, disk, run
<1>2. Pending(s)' = Pending(s) /\ (s = t => q \notin Pending(s))
  <2>1. CASE \E v \in vanished : v.side = t /\ v.path = q
    <3>1. vanished' = {v \in vanished : v.side # t}
      BY <2>1 DEF Edit
    <3> QED
      BY <3>1 DEF Pending
  <2>2. CASE ~\E v \in vanished : v.side = t /\ v.path = q
    <3>1. vanished' = vanished
      BY <2>2 DEF Edit
    <3> QED
      BY <2>2, <3>1 DEF Pending
  <2> QED
    BY <2>1, <2>2
<1>3. HoldsOn(s)
  BY <1>2 DEF OnHold, HoldsOn
<1>4. \A p \in Pending(s) : folder'[s][p] = folder[s][p]
  <2>1. \A u \in Sides, p \in Paths :
           folder'[u][p] = IF u = t /\ p = q THEN next ELSE folder[u][p]
    BY EditEffect
  <2>2. Pending(s) \subseteq Paths
    BY DEF Pending
  <2> QED
    BY <1>2, <2>1, <2>2
<1> QED
  BY <1>1, <1>2, <1>3, <1>4 DEF HoldsOn, Known

LEMMA OnHoldDelete ==
    ASSUME TypeOK, OnHold, Unlearned,
           NEW t \in Sides, NEW lost \in SUBSET PathsOf(folder[t]), Delete(t, lost)
    PROVE  OnHold'
<1> SUFFICES ASSUME NEW s \in Sides, Pending(s)' # {} PROVE HoldsOn(s)'
  BY DEF OnHold, HoldsOn
<1>1. UNCHANGED <<engine, pc, seen, baseline, archive>>
  BY DEF Delete, cycle, disk, run
<1>2. \A u \in Sides, p \in Paths :
         folder'[u][p] = IF u = t /\ p \in lost THEN Absent ELSE folder[u][p]
  BY DeleteEffect
<1>3. CASE Quiet /\ Massive(lost, PathsOf(folder[t])) /\ Armed
  <2>1. vanished' = vanished \cup [side : {t}, path : lost, armed : {TRUE}]
    <3>1. Armed = TRUE
      BY <1>3 DEF Armed
    <3> QED
      BY <1>3, <3>1 DEF Delete
  <2>2. \A u \in Sides : folder[u] = archive
    BY <1>3 DEF Quiet, Sides
  <2>3. Pending(s) = {}
    BY <2>2 DEF OnHold, HoldsOn, Pending
  <2>4. lost \subseteq Paths
    BY DEF PathsOf
  <2>5. s = t /\ Pending(s)' = lost
    <3>1. \A p \in Paths : p \in Pending(s)' <=> s = t /\ p \in lost
      BY <2>1, <2>3 DEF Pending
    <3> QED
      BY <2>4, <3>1 DEF Pending
  <2>6. Known(t) = PathsOf(folder[t])
    BY <1>3, BaselineSides DEF Armed
  <2>7. baseline.known
    BY <2>5, <2>6 DEF Unlearned
  <2>8. Known(t)' = Known(t)
    BY <1>1 DEF Known
  <2>9. engine = "none" /\ pc = "idle"
    BY <1>3 DEF Quiet
  <2>10. \A p \in lost : archive[p] # Absent /\ folder'[t][p] = Absent
    BY <1>2, <2>2, <2>4 DEF PathsOf
  <2> QED
    BY <1>1, <1>3, <2>5, <2>6, <2>7, <2>8, <2>9, <2>10 DEF HoldsOn, Massive
<1>4. CASE ~(Quiet /\ Massive(lost, PathsOf(folder[t])) /\ Armed)
  <2>1. Pending(s)' = Pending(s)
    <3>1. CASE Quiet /\ Massive(lost, PathsOf(folder[t]))
      <4>1. Armed = FALSE
        BY <1>4, <3>1 DEF Armed
      <4>2. vanished' = vanished \cup [side : {t}, path : lost, armed : {FALSE}]
        BY <3>1, <4>1 DEF Delete
      <4> QED
        BY <4>2 DEF Pending
    <3>2. CASE ~(Quiet /\ Massive(lost, PathsOf(folder[t])))
      BY <3>2 DEF Delete, Pending
    <3> QED
      BY <3>1, <3>2
  <2>2. HoldsOn(s)
    BY <2>1 DEF OnHold, HoldsOn
  <2>3. \A p \in Pending(s) : folder'[s][p] = Absent
    BY <1>2, <2>2 DEF HoldsOn, Pending
  <2> QED
    BY <1>1, <2>1, <2>2, <2>3 DEF HoldsOn, Known
<1> QED
  BY <1>3, <1>4

LEMMA OnHoldStep ==
    ASSUME TypeOK, OnHold, Unlearned, [Next]_vars
    PROVE  OnHold'
<1>1. CASE Cycle
  <2>1. vanished' = vanished
    BY <1>1 DEF Cycle, CycleBegins, ScanLocal, Refuses, Stabilizes, Halts, Invokes, Records, world
  <2>2. \A s \in Sides : Pending(s)' = Pending(s)
    BY <2>1 DEF Pending
  <2> QED
    BY <1>1, <2>2, HoldsThroughCycle DEF OnHold, HoldsOn
<1>2. CASE Engine
  <2>1. engine # "none" /\ vanished' = vanished
    BY <1>2 DEF Engine, EngineStarts, EngineCopies, EngineEnds, world
  <2> QED
    BY <2>1 DEF OnHold, HoldsOn, Pending
<1>3. ASSUME NEW s \in Sides, NEW p \in Paths, Edit(s, p) PROVE OnHold'
  BY <1>3, OnHoldEdit
<1>4. ASSUME NEW s \in Sides, NEW lost \in SUBSET PathsOf(folder[s]), Delete(s, lost)
      PROVE  OnHold'
  BY <1>4, OnHoldDelete
<1>5. CASE Unmount \/ Mount \/ UNCHANGED vars
  <2>1. UNCHANGED <<folder, pc, seen, engine, baseline, archive, vanished>>
    BY <1>5 DEF Unmount, Mount, vars, cycle, disk, run, world
  <2> QED
    BY <2>1 DEF OnHold, HoldsOn, Pending, Known
<1>6. CASE Crash \/ CycleFails
  BY <1>6 DEF Crash, CycleFails, Report, OnHold, HoldsOn, Pending, Known, disk, run
<1>7. CASE EngineTimesOut \/ EngineDies
  <2>1. vanished' = vanished /\ (engine # "none" \/ pc = "engine")
    BY <1>7 DEF EngineTimesOut, EngineDies
  <2> QED
    BY <2>1 DEF OnHold, HoldsOn, Pending
<1> QED
  BY <1>1, <1>2, <1>3, <1>4, <1>5, <1>6, <1>7 DEF Next, World

-----------------------------------------------------------------------------
(* Together.                                                               *)

LEMMA InvInit == Init => IInv
<1> SUFFICES ASSUME Init PROVE IInv
  OBVIOUS
<1>1. PICK some \in SUBSET Paths :
         folder = [local |-> Empty,
                   remote |-> [p \in Paths |-> IF p \in some THEN 1 ELSE Absent]]
  BY DEF Init
<1>2. TypeOK
  BY TypeInit
<1>3. \A p \in Paths : /\ folder["local"][p] = Absent
                       /\ folder["remote"][p] = IF p \in some THEN 1 ELSE Absent
  BY <1>1 DEF Empty
<1>4. Kept
  <2> SUFFICES ASSUME NEW copy \in live PROVE folder["remote"][copy[1]] = copy[2]
    BY DEF Kept, Sides
  <2>1. PICK p \in PathsOf(folder.remote) : copy = <<p, 1>>
    BY DEF Init
  <2>2. p \in Paths /\ folder["remote"][p] # Absent
    BY <2>1 DEF PathsOf
  <2> QED
    BY <1>3, <2>1, <2>2 DEF Absent
<1>5. Fresh
  BY <1>3 DEF Init, Fresh, Sides, Absent
<1>6. Meeting
  BY <1>3 DEF Init, Meeting, Empty, NoScan
<1>7. Parked /\ Emptied
  BY DEF Init, Parked, Emptied
<1>8. Unlearned
  BY DEF Init, Unlearned, NoBaseline, Known
<1>9. OnHold
  BY DEF Init, OnHold, HoldsOn, Pending
<1> QED
  BY <1>2, <1>4, <1>5, <1>6, <1>7, <1>8, <1>9 DEF IInv

LEMMA InvStep == IInv /\ [Next]_vars => IInv'
  BY TypeStep, KeptStep, FreshStep, MeetingStep, ParkedStep, EmptiedStep, UnlearnedStep,
     OnHoldStep DEF IInv

LEMMA Invariance == Spec => []IInv
  BY InvInit, InvStep, PTL DEF Spec

\* workspace_sync.py: whatever users, crashes, time limits and an unmounted
\* share do, every version nobody has discarded is in a folder or among the
\* backups of build_argv's -backup, for any number of paths and versions.
THEOREM VersionsKept == Spec => []NoVersionLost
<1>1. IInv => NoVersionLost
  BY DEF IInv, Kept, NoVersionLost
<1> QED
  BY <1>1, Invariance, PTL

\* workspace_sync.py: a path is carried over only when the other side still
\* holds what both have agreed on, so the engine replaces nothing that exists
\* once, even after runs that were killed before their archive was written.
THEOREM EngineSparesOnlyCopies == Spec => OnlyCopyKept
<1> DEFINE Spares ==
      \A side \in Sides, p \in Paths :
         /\ events' = events
         /\ folder[side][p] # Absent
         /\ folder'[side][p] # folder[side][p]
         => <<p, folder[side][p]>> \in shared
<1>1. ASSUME IInv, [Next]_vars, NEW side \in Sides, NEW q \in Paths,
             events' = events, folder[side][q] # Absent,
             folder'[side][q] # folder[side][q]
      PROVE  <<q, folder[side][q]>> \in shared
  <2>1. events \in Nat
    BY <1>1 DEF IInv, TypeOK
  <2>2. ASSUME NEW s \in Sides, NEW p \in Paths, Edit(s, p) PROVE FALSE
    BY <1>1, <2>1, <2>2 DEF Edit, Happens
  <2>3. ASSUME NEW s \in Sides, NEW lost, Delete(s, lost) PROVE FALSE
    BY <1>1, <2>1, <2>3 DEF Delete, Happens
  <2>4. PICK s \in Sides, p \in Paths : Carries(s, p)
    BY <1>1, <2>2, <2>3, FolderSteps
  <2>5. side = Other(s) /\ q = p
    BY <1>1, <2>4, PropagateEffect DEF Carries, IInv
  <2>6. folder[side][q] = archive[q]
    BY <1>1, <2>4, <2>5, CarriedOver DEF IInv
  <2> QED
    BY <1>1, <2>6 DEF IInv, Meeting
<1>2. IInv /\ [Next]_vars => [Spares]_vars
  BY <1>1
<1> QED
  BY <1>2, Invariance, PTL DEF Spec, OnlyCopyKept

\* build_argv, -confirmbigdel: a side the engine has found empty, unmounted or
\* emptied after the cycle had looked, empties nothing on the other side.
THEOREM EmptySideHarmless == Spec => []EmptyNeverSpreads
<1>1. IInv => EmptyNeverSpreads
  BY OtherSide DEF IInv, Emptied, EmptyNeverSpreads, Removed
<1> QED
  BY <1>1, Invariance, PTL

\* evaluate_guard and _guard: paths that vanish together from a workspace at
\* rest whose baseline knows them never leave the other folder, for any two
\* thresholds and however polls, crashes and other edits fall.
THEOREM MassDeletionStopped == Spec => []MassLossHalts
<1>1. IInv => MassLossHalts
  <2> SUFFICES ASSUME IInv, NEW v \in vanished, v.armed
               PROVE  v.path \notin Removed(Other(v.side))
    BY DEF MassLossHalts
  <2>1. v \in [side : Sides, path : Paths, armed : BOOLEAN]
    BY DEF IInv, TypeOK
  <2>2. v = [side |-> v.side, path |-> v.path, armed |-> TRUE]
    BY <2>1
  <2>3. v.path \in Pending(v.side)
    BY <2>1, <2>2 DEF Pending
  <2>4. engine = "none"
    BY <2>1, <2>3 DEF IInv, OnHold, HoldsOn
  <2> QED
    BY <2>4 DEF IInv, Parked, Removed
<1> QED
  BY <1>1, Invariance, PTL

=============================================================================
