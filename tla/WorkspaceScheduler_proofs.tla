--------------------- MODULE WorkspaceScheduler_proofs ---------------------
(***************************************************************************)
(* Proofs about the workspace scheduler, for any finite set of workspaces  *)
(* and any limits.                                                         *)
(*                                                                         *)
(* Every handler that can begin a cycle goes through Advance, so the facts *)
(* about it come first: from a flag that agrees with the workers it keeps  *)
(* them agreeing, and what it begins was waiting to begin.                 *)
(***************************************************************************)
EXTENDS WorkspaceScheduler, TLAPS, FiniteSetTheorems, WellFoundedInduction

\* One cycle at most, as a fact about its members.
AtMostOne(some) == \A v, w \in some : v = w

\* Nothing that the tab has barred is waiting anywhere to begin.
Unbarred == barred \cap (enabled \cup loaded \cup queue) = {}

IInv ==
    /\ TypeOK
    /\ AtMostOne(running)
    /\ Unbarred

\* What a step has to establish for the parts that passes change.
PassOK ==
    /\ queue' \subseteq Workspaces /\ loaded' \subseteq Workspaces
    /\ running' \subseteq Workspaces
    /\ active' \in BOOLEAN /\ pending' \in BOOLEAN
    /\ age' \in 0 .. CycleTicks
    /\ active' <=> running' # {}
    /\ AtMostOne(running')
    /\ barred' \cap (loaded' \cup queue') = {}

\* The queue is a set of ids, and its least member is next.
LEMMA LeastIsMember ==
    ASSUME NEW some, some \subseteq Workspaces, some # {}
    PROVE  Least(some) \in some
<1> DEFINE Less == {pair \in Nat \X Nat : pair[1] < pair[2]}
<1>1. IsWellFoundedOn(Less, Nat)
  BY NatLessThanWellFounded DEF OpToRel
<1>2. some \subseteq Nat
  BY SchedulerAssumption
<1>3. PICK least \in some : \A other \in some : ~(<<other, least>> \in Less)
  <2> HIDE DEF Less
  <2> QED
    BY <1>1, <1>2, WFMin
<1>4. ASSUME NEW other \in some PROVE least <= other
  <2>1. least \in Nat /\ other \in Nat
    BY <1>2, <1>3
  <2>2. other < least => <<other, least>> \in Less
    BY <2>1
  <2> QED
    BY <1>3, <2>1, <2>2
<1> QED
  BY <1>4 DEF Least

-----------------------------------------------------------------------------
(* Resting and launching.                                                  *)

LEMMA RestKeeps ==
    ASSUME NEW from, NEW busy \in BOOLEAN, NEW flying, Rest(from, busy, flying),
           from \subseteq Workspaces \ barred', flying \subseteq Workspaces,
           loaded' \subseteq Workspaces \ barred', pending' \in BOOLEAN,
           AtMostOne(flying), busy <=> flying # {}, age \in 0 .. CycleTicks
    PROVE  PassOK /\ running' = flying
<1>1. active' = busy /\ running' = flying
  BY DEF Rest
<1>2. active' \in BOOLEAN /\ (active' <=> running' # {}) /\ AtMostOne(running')
  BY <1>1, Zenon
<1>3. age' \in 0 .. CycleTicks
  BY SchedulerAssumption DEF Rest
<1>4. /\ queue' \subseteq Workspaces /\ running' \subseteq Workspaces
      /\ barred' \cap (loaded' \cup queue') = {}
  BY DEF Rest
<1> QED
  BY <1>1, <1>2, <1>3, <1>4 DEF PassOK

LEMMA LaunchKeeps ==
    ASSUME NEW from, from # {}, Launch(from, {}),
           from \subseteq Workspaces \ barred',
           loaded' \subseteq Workspaces \ barred', pending' \in BOOLEAN
    PROVE  PassOK /\ running' \subseteq from
<1>1. Least(from) \in from
  BY LeastIsMember
<1>2. active' = TRUE /\ running' = {Least(from)}
  BY DEF Launch
<1>3. active' \in BOOLEAN /\ (active' <=> running' # {}) /\ AtMostOne(running')
  BY <1>2, Zenon DEF AtMostOne
<1>4. age' \in 0 .. CycleTicks
  BY SchedulerAssumption DEF Launch
<1>5. /\ queue' \subseteq Workspaces /\ running' \subseteq from
      /\ barred' \cap (loaded' \cup queue') = {}
  BY <1>1, <1>2 DEF Launch
<1> QED
  BY <1>2, <1>3, <1>4, <1>5 DEF PassOK

\* What Advance is given: a queue and a configuration without barred members,
\* and a flag that agrees with the workers.
Given(from, busy, flying, again, known) ==
    /\ from \subseteq Workspaces \ barred' /\ known \subseteq Workspaces \ barred'
    /\ Readable \subseteq Workspaces \ barred'
    /\ busy \in BOOLEAN /\ again \in BOOLEAN
    /\ flying \subseteq Workspaces /\ AtMostOne(flying) /\ (busy <=> flying # {})
    /\ age \in 0 .. CycleTicks

\* Advance keeps the flag and the workers in step, and begins only what may
\* begin, while polling is on.
LEMMA AdvanceKeeps ==
    ASSUME NEW from, NEW busy, NEW flying, NEW again, NEW known,
           Given(from, busy, flying, again, known),
           Advance(from, busy, flying, again, known)
    PROVE  /\ PassOK
           /\ (running' \ flying) \cap barred' = {}
           /\ running' \ flying # {} => Allowed
<1> USE DEF Given
<1>1. CASE busy /\ Rest(from, busy, flying) /\ pending' = again /\ loaded' = known
  BY <1>1, RestKeeps
<1>2. CASE ~busy /\ Rest({}, busy, flying) /\ pending' = FALSE /\ loaded' = known
  <2>1. PassOK /\ running' = flying
    BY <1>2, RestKeeps
  <2> QED
    BY <2>1
<1>3. CASE ~busy /\ Allowed /\ from # {} /\ Launch(from, flying) /\ pending' = again /\ loaded' = known
  <2>1. PassOK /\ running' \subseteq from
    BY <1>3, LaunchKeeps
  <2> QED
    BY <1>3, <2>1
<1>4. CASE ~busy /\ Allowed /\ Finish(flying, again)
  <2>1. loaded' = Readable /\ pending' = FALSE /\ flying = {}
    BY <1>4 DEF Finish
  <2>2. CASE again /\ Readable # {}
    <3>1. PassOK /\ running' \subseteq Readable
      BY <1>4, <2>1, <2>2, LaunchKeeps DEF Finish
    <3> QED
      BY <1>4, <3>1
  <2>3. CASE ~(again /\ Readable # {})
    <3>1. Rest({}, FALSE, flying)
      BY <1>4, <2>3 DEF Finish
    <3>2. PassOK /\ running' = flying
      BY <2>1, <3>1, RestKeeps
    <3> QED
      BY <3>2
  <2> QED
    BY <2>2, <2>3
<1>5. CASE ~busy /\ ~Allowed /\ Rest({}, busy, flying) /\ pending' = FALSE /\ loaded' = known
  BY <1>2, <1>5
<1> QED
  BY <1>1, <1>3, <1>4, <1>5 DEF Advance

\* A tick joins the queue or the pass in flight, or advances.
LEMMA TickKeeps ==
    ASSUME NEW from, NEW known, Tick(from, known),
           Given(from, active, running, pending, known)
    PROVE  /\ PassOK
           /\ (running' \ running) \cap barred' = {}
           /\ running' \ running # {} => Allowed
<1>1. CASE active \/ from # {}
  <2>1. PassOK /\ running' = running
    BY <1>1, RestKeeps DEF Tick, Given
  <2> QED
    BY <2>1
<1>2. CASE ~active /\ from = {}
  <2>1. Advance(known, active, running, pending, known)
    BY <1>2 DEF Tick
  <2>2. Given(known, active, running, pending, known)
    BY DEF Given
  <2> QED
    BY <2>1, <2>2, AdvanceKeeps
<1> QED
  BY <1>1, <1>2

-----------------------------------------------------------------------------
(* The steps.                                                              *)

\* What begins in a step may begin, and polling is on.
Begins ==
    /\ (running' \ running) \cap barred' = {}
    /\ running' \ running # {} => Allowed'

\* The types of what passes leave alone.
OthersOK ==
    /\ phase' \in {"monitoring", "draining", "off"}
    /\ timer' \in BOOLEAN /\ readable' \in BOOLEAN
    /\ enabled' \subseteq Workspaces \ barred'
    /\ seeding' \subseteq Workspaces /\ barred' \subseteq Workspaces
    /\ offers' \in Nat /\ drain' \in 0 .. DrainTicks
    /\ events' \in 0 .. MaxEvents

LEMMA PartsMakeIInv ==
    ASSUME PassOK, OthersOK
    PROVE  IInv'
<1>1. /\ phase' \in {"monitoring", "draining", "off"}
      /\ enabled' \subseteq Workspaces /\ loaded' \subseteq Workspaces
      /\ queue' \subseteq Workspaces /\ running' \subseteq Workspaces
      /\ seeding' \subseteq Workspaces /\ barred' \subseteq Workspaces
      /\ offers' \in Nat /\ age' \in 0 .. CycleTicks /\ drain' \in 0 .. DrainTicks
      /\ events' \in 0 .. MaxEvents
  BY DEF PassOK, OthersOK
<1>2. /\ timer' \in BOOLEAN /\ readable' \in BOOLEAN
      /\ active' \in BOOLEAN /\ pending' \in BOOLEAN
      /\ (active' <=> running' # {})
  BY Zenon DEF PassOK, OthersOK
<1>3. TypeOK'
  BY <1>1, <1>2, Zenon DEF TypeOK
<1>4. AtMostOne(running')
  BY DEF PassOK
<1>5. Unbarred'
  BY DEF PassOK, OthersOK, Unbarred
<1> QED
  BY <1>3, <1>4, <1>5 DEF IInv, AtMostOne

\* The state a handler starts from, as Given wants it.
LEMMA PassesStart ==
    ASSUME IInv, barred' \subseteq barred
    PROVE  /\ Given(queue, active, running, pending, loaded)
           /\ \A w \in running : Given(queue, FALSE, running \ {w}, pending, loaded)
<1>1. /\ queue \subseteq Workspaces \ barred' /\ loaded \subseteq Workspaces \ barred'
      /\ Readable \subseteq Workspaces \ barred'
  BY DEF IInv, TypeOK, Unbarred, Readable
<1>2. /\ active \in BOOLEAN /\ pending \in BOOLEAN /\ (active <=> running # {})
  BY Zenon DEF IInv, TypeOK
<1>3. running \subseteq Workspaces /\ AtMostOne(running) /\ age \in 0 .. CycleTicks
  BY DEF IInv, TypeOK
<1>4. ASSUME NEW w \in running
      PROVE  running \ {w} = {} /\ AtMostOne({})
  BY <1>3 DEF AtMostOne
<1> QED
  BY <1>1, <1>2, <1>3, <1>4 DEF Given

\* A handler that only advances a pass.
LEMMA PassStep ==
    ASSUME IInv, PassOK, UNCHANGED <<config, power>>,
           offers' \in Nat, events' = events,
           NEW flying, flying \subseteq running,
           (running' \ flying) \cap barred' = {},
           running' \ flying # {} => Allowed
    PROVE  IInv' /\ Begins
<1>1. OthersOK
  <2>1. UNCHANGED <<enabled, readable, seeding, barred, phase, timer, drain>>
    BY DEF config, power
  <2>2. timer' \in BOOLEAN /\ readable' \in BOOLEAN
    BY <2>1, Zenon DEF IInv, TypeOK
  <2> QED
    BY <2>1, <2>2 DEF OthersOK, IInv, TypeOK, Unbarred
<1>2. Allowed' = Allowed
  BY DEF Allowed, power
<1>3. Begins
  BY <1>2 DEF Begins
<1> QED
  BY <1>1, <1>3, PartsMakeIInv

LEMMA TicksKeep ==
    ASSUME IInv, TimerTick \/ SyncNow
    PROVE  IInv' /\ Begins
<1>1. /\ Tick(queue, loaded)
      /\ UNCHANGED <<config, power, offers, events>>
  BY DEF TimerTick, SyncNow
<1>2. Given(queue, active, running, pending, loaded)
  BY <1>1, PassesStart DEF config
<1>3. /\ PassOK
      /\ (running' \ running) \cap barred' = {}
      /\ running' \ running # {} => Allowed
  BY <1>1, <1>2, TickKeeps
<1>4. offers' \in Nat
  BY <1>1 DEF IInv, TypeOK
<1> QED
  BY <1>1, <1>3, <1>4, PassStep

LEMMA ReturnsKeep ==
    ASSUME IInv, NEW w \in Workspaces, CycleReturns(w) \/ CycleErrors(w)
    PROVE  IInv' /\ Begins
<1>1. /\ w \in running
      /\ Advance(queue, FALSE, running \ {w}, pending, loaded)
      /\ UNCHANGED <<config, power, offers, events>>
  BY DEF CycleReturns, CycleErrors
<1>2. Given(queue, FALSE, running \ {w}, pending, loaded)
  BY <1>1, PassesStart DEF config
<1>3. /\ PassOK
      /\ (running' \ (running \ {w})) \cap barred' = {}
      /\ running' \ (running \ {w}) # {} => Allowed
  BY <1>1, <1>2, AdvanceKeeps
<1>4. offers' \in Nat
  BY <1>1 DEF IInv, TypeOK
<1> QED
  BY <1>1, <1>3, <1>4, PassStep

LEMMA OfferClosesKeeps ==
    ASSUME IInv, OfferCloses
    PROVE  IInv' /\ Begins
<1>1. Given(queue, active, running, pending, loaded)
  BY PassesStart DEF OfferCloses, config
<1>2. /\ PassOK
      /\ (running' \ running) \cap barred' = {}
      /\ running' \ running # {} => Allowed
  BY <1>1, AdvanceKeeps DEF OfferCloses
<1>3. offers' \in Nat
  BY DEF OfferCloses, IInv, TypeOK
<1> QED
  BY <1>2, <1>3, PassStep DEF OfferCloses

\* Steps that begin nothing and leave every pass where it is or drop it.
LEMMA RestStep ==
    ASSUME IInv, NEW from, Rest(from, active, running),
           from \subseteq queue \ barred',
           loaded' \subseteq Workspaces \ barred', pending' \in BOOLEAN, OthersOK
    PROVE  IInv' /\ Begins
<1>1. /\ running \subseteq Workspaces /\ AtMostOne(running) /\ age \in 0 .. CycleTicks
      /\ from \subseteq Workspaces \ barred'
  BY DEF IInv, TypeOK
<1>2. active \in BOOLEAN /\ (active <=> running # {})
  BY Zenon DEF IInv, TypeOK
<1>3. PassOK /\ running' = running
  BY <1>1, <1>2, RestKeeps
<1> QED
  BY <1>3, PartsMakeIInv DEF Begins

LEMMA SeedReturnsKeeps ==
    ASSUME IInv, NEW w \in Workspaces, SeedReturns(w)
    PROVE  IInv' /\ Begins
<1>1. running \ {w} \subseteq Workspaces /\ AtMostOne(running \ {w}) /\ running \ {w} = {}
  BY DEF IInv, TypeOK, AtMostOne, SeedReturns
<1>2. /\ Rest(queue, FALSE, running \ {w})
      /\ queue \subseteq Workspaces \ barred' /\ loaded' \subseteq Workspaces \ barred'
      /\ age \in 0 .. CycleTicks
  BY DEF IInv, TypeOK, Unbarred, SeedReturns
<1>3. pending' \in BOOLEAN /\ timer' \in BOOLEAN /\ readable' \in BOOLEAN
  BY Zenon DEF IInv, TypeOK, SeedReturns, power
<1>4. PassOK /\ running' = running \ {w}
  BY <1>1, <1>2, <1>3, RestKeeps
<1>5. OthersOK
  BY <1>3 DEF OthersOK, IInv, TypeOK, Unbarred, SeedReturns, power
<1> QED
  BY <1>4, <1>5, PartsMakeIInv DEF Begins

LEMMA BarKeeps ==
    ASSUME IInv, NEW w \in Workspaces, Bar(w)
    PROVE  IInv' /\ Begins
<1>1. events' \in 0 .. MaxEvents
  BY SchedulerAssumption DEF Bar, Happens, IInv, TypeOK
<1>2. timer' \in BOOLEAN /\ readable' \in BOOLEAN /\ pending' \in BOOLEAN
  BY Zenon DEF Bar, power, IInv, TypeOK
<1>3. OthersOK
  BY <1>1, <1>2 DEF OthersOK, Bar, power, IInv, TypeOK, Unbarred
<1>4. /\ Rest(Filtered(enabled'), active, running)
      /\ Filtered(enabled') \subseteq queue \ barred'
      /\ loaded' \subseteq Workspaces \ barred'
  BY <1>3 DEF Bar, Filtered, OthersOK
<1> QED
  BY <1>2, <1>3, <1>4, RestStep

LEMMA ResumeKeeps ==
    ASSUME IInv, NEW w \in Workspaces, Resume(w)
    PROVE  IInv' /\ Begins
<1>1. events' \in 0 .. MaxEvents
  BY SchedulerAssumption DEF Resume, Happens, IInv, TypeOK
<1>2. timer' \in BOOLEAN /\ readable' \in BOOLEAN /\ pending' \in BOOLEAN
  BY Zenon DEF Resume, power, IInv, TypeOK
<1>3. OthersOK
  BY <1>1, <1>2 DEF OthersOK, Resume, power, IInv, TypeOK, Unbarred
<1>4. /\ Rest(Filtered(enabled'), active, running)
      /\ Filtered(enabled') \subseteq queue \ barred'
      /\ loaded' \subseteq Workspaces \ barred'
  BY <1>3 DEF Resume, Filtered, OthersOK
<1> QED
  BY <1>2, <1>3, <1>4, RestStep

LEMMA AddKeeps ==
    ASSUME IInv, NEW w \in Workspaces, Add(w)
    PROVE  IInv' /\ Begins
<1>1. events' \in 0 .. MaxEvents
  BY SchedulerAssumption DEF Add, Happens, IInv, TypeOK
<1>2. timer' \in BOOLEAN /\ readable' \in BOOLEAN
  BY Zenon DEF Add, power, IInv, TypeOK
<1>3. OthersOK
  BY <1>1, <1>2 DEF OthersOK, Add, power, IInv, TypeOK, Unbarred
<1>4. Given(queue, active, running, pending, loaded)
  BY PassesStart DEF Add
<1>5. Given(Filtered(enabled'), active, running, pending, enabled')
  BY <1>3, <1>4 DEF Given, Filtered, OthersOK
<1>6. /\ PassOK
      /\ (running' \ running) \cap barred' = {}
      /\ running' \ running # {} => Allowed
  BY <1>5, TickKeeps DEF Add
<1>7. Allowed' = Allowed
  BY DEF Allowed, Add, power
<1> QED
  BY <1>3, <1>6, <1>7, PartsMakeIInv DEF Begins

\* What leaves the passes alone begins nothing.
LEMMA PassesStay ==
    ASSUME IInv, UNCHANGED <<loaded, queue, active, running, pending>>,
           barred' \subseteq barred, age' \in 0 .. CycleTicks, OthersOK
    PROVE  IInv' /\ Begins
<1>1. /\ running' = running /\ running' \subseteq Workspaces /\ AtMostOne(running')
      /\ queue' \subseteq Workspaces /\ loaded' \subseteq Workspaces
      /\ barred' \cap (loaded' \cup queue') = {}
  BY DEF IInv, TypeOK, Unbarred
<1>2. active' \in BOOLEAN /\ pending' \in BOOLEAN /\ (active' <=> running' # {})
  BY Zenon DEF IInv, TypeOK
<1>3. PassOK
  BY <1>1, <1>2, Zenon DEF PassOK
<1> QED
  BY <1>1, <1>3, PartsMakeIInv DEF Begins

LEMMA FileChangesKeeps ==
    ASSUME IInv, FileChanges
    PROVE  IInv' /\ Begins
<1>1. events' \in 0 .. MaxEvents
  BY SchedulerAssumption DEF FileChanges, Happens, IInv, TypeOK
<1>2. timer' \in BOOLEAN /\ readable' \in BOOLEAN
  BY Zenon DEF FileChanges, power, IInv, TypeOK
<1>3. OthersOK
  BY <1>1, <1>2 DEF OthersOK, FileChanges, power, IInv, TypeOK
<1>4. /\ UNCHANGED <<loaded, queue, active, running, pending>>
      /\ barred' \subseteq barred /\ age' \in 0 .. CycleTicks
  BY DEF FileChanges, pass, IInv, TypeOK
<1> QED
  BY <1>3, <1>4, PassesStay

LEMMA PowerOffKeeps ==
    ASSUME IInv, PowerOff
    PROVE  IInv' /\ Begins
<1>1. events' \in 0 .. MaxEvents
  BY SchedulerAssumption DEF PowerOff, Happens, IInv, TypeOK
<1>2. timer' \in BOOLEAN /\ readable' \in BOOLEAN /\ pending' \in BOOLEAN
  BY Zenon DEF PowerOff, Stop, config, IInv, TypeOK
<1>3. OthersOK
  BY <1>1, <1>2, SchedulerAssumption
  DEF OthersOK, PowerOff, Stop, config, IInv, TypeOK, Unbarred
<1>4. /\ Rest({}, active, running)
      /\ loaded' \subseteq Workspaces \ barred'
  BY DEF PowerOff, Stop, config, IInv, TypeOK, Unbarred
<1> QED
  BY <1>2, <1>3, <1>4, RestStep

LEMMA StartKeeps ==
    ASSUME IInv, Start, phase' = "monitoring", UNCHANGED <<drain, config, offers, events>>
    PROVE  IInv' /\ Begins
<1>1. timer' \in BOOLEAN /\ readable' \in BOOLEAN /\ pending' \in BOOLEAN
  BY Zenon DEF Start, config, IInv, TypeOK
<1>2. OthersOK
  BY <1>1 DEF OthersOK, config, IInv, TypeOK, Unbarred
<1>3. /\ Rest(Filtered(Readable), active, running)
      /\ Filtered(Readable) \subseteq queue \ barred'
      /\ loaded' \subseteq Workspaces \ barred'
  BY DEF Start, Filtered, Readable, config, IInv, TypeOK, Unbarred
<1> QED
  BY <1>1, <1>2, <1>3, RestStep

LEMMA DrainedKeeps ==
    ASSUME IInv, Drained
    PROVE  IInv' /\ Begins
<1>1. timer' \in BOOLEAN /\ readable' \in BOOLEAN
  BY Zenon DEF Drained, config, IInv, TypeOK
<1>2. OthersOK
  BY <1>1, SchedulerAssumption DEF OthersOK, Drained, config, IInv, TypeOK, Unbarred
<1>3. /\ UNCHANGED <<loaded, queue, active, running, pending>>
      /\ barred' \subseteq barred /\ age' \in 0 .. CycleTicks
  BY DEF Drained, config, pass, IInv, TypeOK
<1> QED
  BY <1>2, <1>3, PassesStay

LEMMA ClockKeeps ==
    ASSUME IInv, Clock
    PROVE  IInv' /\ Begins
<1>1. timer' \in BOOLEAN /\ readable' \in BOOLEAN
  BY Zenon DEF Clock, config, IInv, TypeOK
<1>2. drain' \in 0 .. DrainTicks
  BY SchedulerAssumption DEF Clock, IInv, TypeOK
<1>3. OthersOK
  BY <1>1, <1>2 DEF OthersOK, Clock, config, IInv, TypeOK, Unbarred
<1>4. age' \in 0 .. CycleTicks
  BY SchedulerAssumption DEF Clock, IInv, TypeOK
<1>5. UNCHANGED <<loaded, queue, active, running, pending>> /\ barred' \subseteq barred
  BY DEF Clock, config
<1> QED
  BY <1>3, <1>4, <1>5, PassesStay

LEMMA StepKeeps ==
    ASSUME IInv, Next
    PROVE  IInv' /\ Begins
<1>1. CASE TimerTick \/ SyncNow
  BY <1>1, TicksKeep
<1>2. ASSUME NEW w \in Workspaces, Returns(w) PROVE IInv' /\ Begins
  BY <1>2, ReturnsKeep, SeedReturnsKeeps DEF Returns
<1>3. CASE OfferCloses
  BY <1>3, OfferClosesKeeps
<1>4. ASSUME NEW w \in Workspaces, Bar(w) \/ Resume(w) \/ Add(w) PROVE IInv' /\ Begins
  BY <1>4, BarKeeps, ResumeKeeps, AddKeeps
<1>5. CASE FileChanges
  BY <1>5, FileChangesKeeps
<1>6. CASE PowerOff
  BY <1>6, PowerOffKeeps
<1>7. CASE Drained
  BY <1>7, DrainedKeeps
<1>8. CASE DrainGivesUp \/ PowerOn
  BY <1>8, StartKeeps DEF DrainGivesUp, PowerOn
<1>9. CASE Clock
  BY <1>9, ClockKeeps
<1> QED
  BY <1>1, <1>2, <1>3, <1>4, <1>5, <1>6, <1>7, <1>8, <1>9 DEF Next, Edits

LEMMA StutterKeeps ==
    ASSUME IInv, UNCHANGED vars
    PROVE  IInv' /\ running' = running
<1>1. /\ UNCHANGED <<phase, timer, enabled, readable, loaded, queue, active, running>>
      /\ UNCHANGED <<pending, seeding, offers, age, drain, barred, events>>
  BY DEF vars, config, pass, power
<1>2. TypeOK'
  BY <1>1, Zenon DEF IInv, TypeOK
<1> QED
  BY <1>1, <1>2 DEF IInv, AtMostOne, Unbarred

LEMMA Beginning ==
    ASSUME Init
    PROVE  IInv
<1>1. /\ enabled \subseteq Workspaces /\ loaded \subseteq Workspaces
      /\ age \in 0 .. CycleTicks /\ drain \in 0 .. DrainTicks /\ events \in 0 .. MaxEvents
      /\ offers \in Nat /\ phase \in {"monitoring", "draining", "off"}
      /\ queue = {} /\ running = {} /\ seeding = {} /\ barred = {}
  BY SchedulerAssumption DEF Init, Readable
<1>2. /\ timer \in BOOLEAN /\ readable \in BOOLEAN /\ active \in BOOLEAN
      /\ pending \in BOOLEAN /\ ~active
  BY Zenon DEF Init
<1>3. TypeOK
  BY <1>1, <1>2 DEF TypeOK
<1> QED
  BY <1>1, <1>3 DEF IInv, AtMostOne, Unbarred

-----------------------------------------------------------------------------
(* The theorems.                                                           *)

LEMMA Inductive == Spec => []IInv
<1>1. IInv /\ [Next]_vars => IInv'
  BY StepKeeps, StutterKeeps
<1> QED
  BY Beginning, <1>1, PTL DEF Spec

\* _advance_workspaces: at most one cycle is in flight, and _workspace_active
\* says so exactly while it is.
THEOREM OneAtATime == Spec => []SingleFlight
<1>1. IInv => SingleFlight
  <2>1. SUFFICES ASSUME IInv, running # {} PROVE Cardinality(running) = 1
    BY FS_EmptySet DEF SingleFlight, IInv
  <2>2. PICK w \in running : TRUE
    BY <2>1
  <2>3. running = {w}
    BY <2>1, <2>2 DEF IInv, AtMostOne
  <2> QED
    BY <2>3, FS_Singleton
<1> QED
  BY Inductive, <1>1, PTL

\* reload_workspaces and _stop_workspace_sync: what the tab has paused or
\* forgotten begins no cycle, and nothing begins once polling has been stopped.
THEOREM OnlyAllowedBegin == Spec => BeginsOnlyAllowed
<1>1. IInv /\ [Next]_vars => [(running' \ running) \cap barred' = {}]_vars
  BY StepKeeps DEF Begins
<1>2. IInv /\ [Next]_vars
        => [running' \ running # {} => phase' = "monitoring" /\ timer']_vars
  BY StepKeeps DEF Begins, Allowed
<1> QED
  BY Inductive, <1>1, <1>2, PTL
     DEF Spec, BeginsOnlyAllowed, BarredNeverBegins, NothingBeginsStopped

-----------------------------------------------------------------------------
(* What the passes look like from outside.                                 *)

\* A step moves the lifecycle or the cycles, never both, and the bridge is
\* taken down when nothing is in flight.
LEMMA OneOrTheOther ==
    ASSUME Next
    PROVE  \/ phase' = phase
           \/ /\ running' = running
              /\ phase' \in {"monitoring", "draining", "off"}
              /\ phase' = "off" => running = {}
<1>1. CASE TimerTick \/ SyncNow \/ OfferCloses
  BY <1>1 DEF TimerTick, SyncNow, OfferCloses, power
<1>2. ASSUME NEW w \in Workspaces, Returns(w) PROVE phase' = phase
  BY <1>2 DEF Returns, CycleReturns, SeedReturns, CycleErrors, power
<1>3. CASE Edits
  BY <1>3 DEF Edits, Bar, Resume, Add, FileChanges, power
<1>4. CASE Clock
  BY <1>4 DEF Clock
<1>5. CASE PowerOff \/ DrainGivesUp \/ PowerOn
  BY <1>5 DEF PowerOff, DrainGivesUp, PowerOn, Stop, Start, Rest
<1>6. CASE Drained
  BY <1>6 DEF Drained, pass
<1> QED
  BY <1>1, <1>2, <1>3, <1>4, <1>5, <1>6 DEF Next

\* What begins, begins alone and while the service is open.
LEMMA BeginsInService ==
    ASSUME IInv, IInv', Begins, Next, running' \ running # {}
    PROVE  Service!Begin
<1>1. PICK w \in running' : TRUE
  OBVIOUS
<1>2. running' = {w} /\ w \in Workspaces
  BY <1>1 DEF IInv, AtMostOne, TypeOK
<1>3. phase' = "monitoring" /\ phase' = phase
  BY OneOrTheOther DEF Begins, Allowed
<1> QED
  BY <1>2, <1>3 DEF Service!Begin, Stage

LEMMA StepServes ==
    ASSUME IInv, [Next]_vars
    PROVE  [Service!Next]_Service!vars
<1>1. CASE UNCHANGED vars
  BY <1>1 DEF vars, pass, power, Stage, Service!vars
<1>2. CASE Next
  <2>1. IInv' /\ Begins
    BY <1>2, StepKeeps
  <2>2. CASE running' \ running # {}
    BY <1>2, <2>1, <2>2, BeginsInService DEF Service!Next
  <2>3. CASE running' \subseteq running
    <3>1. running' = running \/ running' = {}
      BY <2>3 DEF IInv, AtMostOne
    <3>2. CASE phase' = phase
      BY <3>1, <3>2 DEF Stage, Service!Next, Service!End, Service!vars
    <3>3. CASE /\ running' = running /\ phase' \in {"monitoring", "draining", "off"}
               /\ phase' = "off" => running = {}
      BY <3>3 DEF Stage, Service!Next, Service!Open, Service!Close, Service!TakeDown
    <3> QED
      BY <1>2, <3>2, <3>3, OneOrTheOther
  <2> QED
    BY <2>2, <2>3
<1> QED
  BY <1>1, <1>2

\* _advance_workspaces, _stop_workspace_sync and _check_drain together: a cycle
\* takes the place of none that is in flight, begins only while polling goes
\* on, and none is left when the bridge is taken down.
THEOREM PassesServe == Spec => PassesKeepService
<1>1. Init => Service!Init
  BY DEF Init, Service!Init, Stage
<1>2. IInv /\ [Next]_vars => [Service!Next]_Service!vars
  BY StepServes
<1> QED
  BY Inductive, <1>1, <1>2, PTL DEF Spec, PassesKeepService, Service!Spec

=============================================================================
