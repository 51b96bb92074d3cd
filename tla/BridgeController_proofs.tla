----------------------- MODULE BridgeController_proofs -----------------------
(***************************************************************************)
(* What holds of the reducer for every model and event, and of the         *)
(* controller around it for every bound and every set of requests: each    *)
(* phase is served as it needs, a helper that powers off is alone, and the *)
(* app says that the bridge is off only when it is.                        *)
(***************************************************************************)
EXTENDS BridgeController, FiniteSetTheorems, SequenceTheorems, TLAPS

\* The phases' rows, and what they are built from.
USE DEF Invalid, Go, GoOff, GoUnknown, GoProvision, GoFirstRun, Exit

-----------------------------------------------------------------------------
(* The table stays inside its own vocabulary: no row leads to a phase that *)
(* has no rows, or asks for an effect that the controller cannot carry out *)
(* (lifecycle.py, reduce).                                                 *)
THEOREM ReducerTyped ==
    ASSUME NEW m \in Model, NEW e \in Events
    PROVE  /\ Reduce(m, e).model \in Model
           /\ Reduce(m, e).effects \subseteq Effects
<1>1. CASE m.phase = "starting"
  <2>1. Reduce(m, e) = Starting(m, e)
    BY <1>1 DEF Reduce
  <2>2. Starting(m, e).model \in Model
    BY <1>1 DEF Starting, Model, Phases, Events
  <2>3. Starting(m, e).effects \subseteq Effects
    BY <1>1 DEF Starting, Events, Effects, BeginStartup, EnterMonitoring,
       EnterRunning, EnterSetup, EnterProvisioning, EnterStartFailed,
       EnterTransitionUnknown, BeginPowerOff
  <2> QED
    BY <2>1, <2>2, <2>3
<1>2. CASE m.phase = "running"
  BY <1>2 DEF Reduce, Running, Model, Phases, Events, Effects, BeginStartup,
     EnterProvisioning, BeginReprovisioning, BeginPowerOff
<1>3. CASE m.phase = "start_failed"
  BY <1>3 DEF Reduce, StartFailed, Model, Phases, Events, Effects, BeginStartup,
     EnterProvisioning, BeginPowerOff
<1>4. CASE m.phase = "powered_off"
  BY <1>4 DEF Reduce, PoweredOff, Model, Phases, Events, Effects, BeginStartup
<1>5. CASE m.phase = "shutting_down"
  BY <1>5 DEF Reduce, ShuttingDown, Model, Phases, Events, Effects, AbortShutdown,
     EnterPoweredOff, EnterTransitionUnknown
<1>6. CASE m.phase = "setup"
  BY <1>6 DEF Reduce, Setup, Model, Phases, Events, Effects, BeginStartup,
     EnterProvisioning
<1>7. CASE m.phase = "provisioning"
  BY <1>7 DEF Reduce, Provisioning, Model, Phases, Events, Effects, BeginStartup,
     EnterProvisioning, ReprovisionSucceeded, EnterMonitoring
<1>8. CASE m.phase = "transition_unknown"
  BY <1>8 DEF Reduce, TransitionUnknown, Model, Phases, Events, Effects,
     BeginStartup, BeginPowerOff
<1> QED
  BY <1>1, <1>2, <1>3, <1>4, <1>5, <1>6, <1>7, <1>8 DEF Model, Phases

(* No row that ends outside monitoring asks for an effect that touches the *)
(* mounts, and a row that leaves monitoring stops the timers and closes    *)
(* the gate (lifecycle.py, is_no_cifs and CIFS_EFFECTS).                   *)
THEOREM ClosedOutsideMonitoring ==
    ASSUME NEW m \in Model, NEW e \in Events,
           Reduce(m, e).model.phase \in NoCifsPhases
    PROVE  /\ Reduce(m, e).effects \intersect CifsEffects = {}
           /\ m.phase = "running" => {"STOP_POLLING", "QUIESCE_IO"} \subseteq Reduce(m, e).effects
<1> USE DEF NoCifsPhases, CifsEffects
<1>1. CASE m.phase = "starting"
  BY <1>1 DEF Reduce, Starting, Model, Phases, Events, BeginStartup,
     EnterMonitoring, EnterRunning, EnterSetup, EnterProvisioning,
     EnterStartFailed, EnterTransitionUnknown, BeginPowerOff
<1>2. CASE m.phase = "running"
  BY <1>2 DEF Reduce, Running, Model, Phases, Events, BeginStartup,
     EnterProvisioning, BeginReprovisioning, BeginPowerOff
<1>3. CASE m.phase = "start_failed"
  BY <1>3 DEF Reduce, StartFailed, Model, Phases, Events, BeginStartup,
     EnterProvisioning, BeginPowerOff
<1>4. CASE m.phase = "powered_off"
  BY <1>4 DEF Reduce, PoweredOff, Model, Phases, Events, BeginStartup
<1>5. CASE m.phase = "shutting_down"
  BY <1>5 DEF Reduce, ShuttingDown, Model, Phases, Events, AbortShutdown,
     EnterPoweredOff, EnterTransitionUnknown
<1>6. CASE m.phase = "setup"
  BY <1>6 DEF Reduce, Setup, Model, Phases, Events, BeginStartup, EnterProvisioning
<1>7. CASE m.phase = "provisioning"
  BY <1>7 DEF Reduce, Provisioning, Model, Phases, Events, BeginStartup,
     EnterProvisioning, ReprovisionSucceeded, EnterMonitoring
<1>8. CASE m.phase = "transition_unknown"
  BY <1>8 DEF Reduce, TransitionUnknown, Model, Phases, Events, BeginStartup, BeginPowerOff
<1> QED
  BY <1>1, <1>2, <1>3, <1>4, <1>5, <1>6, <1>7, <1>8 DEF Model, Phases

(* A row that enters monitoring opens the gate, starts the timers and asks *)
(* for a fresh look, from whichever phase it comes (lifecycle.py,          *)
(* _ENTER_MONITORING and _ABORT_SHUTDOWN).                                 *)
THEOREM OpenInMonitoring ==
    ASSUME NEW m \in Model, NEW e \in Events,
           m.phase # "running", Reduce(m, e).model.phase = "running"
    PROVE  {"RESUME_IO", "START_POLLING", "FORCE_REFRESH"} \subseteq Reduce(m, e).effects
<1>1. CASE m.phase = "starting"
  BY <1>1 DEF Reduce, Starting, Model, Events, EnterMonitoring, EnterRunning
<1>2. CASE m.phase = "shutting_down"
  BY <1>2 DEF Reduce, ShuttingDown, Model, Events, AbortShutdown
<1>3. CASE m.phase = "provisioning"
  BY <1>3 DEF Reduce, Provisioning, Model, Events, ReprovisionSucceeded, EnterMonitoring
<1>4. CASE m.phase \in {"start_failed", "powered_off", "setup", "transition_unknown"}
  BY <1>4 DEF Reduce, StartFailed, PoweredOff, Setup, TransitionUnknown, Model, Events
<1> QED
  BY <1>1, <1>2, <1>3, <1>4 DEF Model, Phases

-----------------------------------------------------------------------------
(* What the controller relies on in a reaction, one row or two.            *)

Runs == {"RUN_POWER_ON", "RUN_POWER_OFF", "BEGIN_DRAIN"}

\* The timers and the gate are told what the phase that follows needs.
Gated(m, r) ==
    /\ r.model.phase \in NoCifsPhases =>
          /\ r.effects \intersect CifsEffects = {}
          /\ m.phase = "running" => {"STOP_POLLING", "QUIESCE_IO"} \subseteq r.effects
    /\ r.model.phase = "running" =>
          IF m.phase = "running" THEN r.effects \subseteq {"EXIT_APP"}
          ELSE {"RESUME_IO", "START_POLLING", "FORCE_REFRESH"} \subseteq r.effects

\* A phase that needs a driver gets one, and only such a phase does.
Driven(r) ==
    r.valid /\ "EXIT_APP" \notin r.effects =>
        /\ r.model.phase = "starting" => r.effects \intersect Runs = {"RUN_POWER_ON"}
        /\ r.model.phase = "shutting_down" =>
              \/ /\ r.effects \intersect Runs = {"BEGIN_DRAIN"}
                 /\ "STOP_DRAIN" \notin r.effects
              \/ /\ {"RUN_POWER_OFF", "STOP_DRAIN"} \subseteq r.effects
                 /\ "RUN_POWER_ON" \notin r.effects
        /\ r.model.phase \notin {"starting", "shutting_down"} => r.effects \intersect Runs = {}

Fits(m, r) ==
    /\ r.model \in Model /\ r.effects \subseteq Effects /\ r.valid \in BOOLEAN
    /\ ~r.valid => r.model = m /\ r.effects = {}
    /\ Gated(m, r)
    /\ Driven(r)

LEMMA RowFits ==
    ASSUME NEW m \in Model, NEW e \in Events
    PROVE  Fits(m, Reduce(m, e))
<1> DEFINE r == Reduce(m, e)
<1>1. r.model \in Model /\ r.effects \subseteq Effects
  BY ReducerTyped
<1>2. /\ r.valid \in BOOLEAN
      /\ ~r.valid => r.model = m /\ r.effects = {}
      /\ m.phase = "running" /\ r.model.phase = "running" => r.effects \subseteq {"EXIT_APP"}
  <2>1. CASE m.phase = "starting"
    BY <2>1 DEF Reduce, Starting
  <2>2. CASE m.phase = "running"
    BY <2>2 DEF Reduce, Running, Model
  <2>3. CASE m.phase \in {"start_failed", "powered_off", "setup"}
    BY <2>3 DEF Reduce, StartFailed, PoweredOff, Setup
  <2>4. CASE m.phase \in {"shutting_down", "provisioning", "transition_unknown"}
    BY <2>4 DEF Reduce, ShuttingDown, Provisioning, TransitionUnknown
  <2> QED
    BY <2>1, <2>2, <2>3, <2>4 DEF Model, Phases
<1>3. Gated(m, r)
  <2>1. r.model.phase \in Phases
    BY <1>1 DEF Model
  <2> QED
    BY <1>2, <2>1, ClosedOutsideMonitoring, OpenInMonitoring DEF Gated
<1>4. Driven(r)
  <2> USE DEF Runs
  <2>1. CASE m.phase = "starting"
    <3> DEFINE rows == {Go(m, "starting", BeginStartup), Go(m, "running", EnterMonitoring),
                        Go(m, "setup", EnterSetup), Go(m, "provisioning", EnterProvisioning),
                        Go(m, "running", EnterRunning), Go(m, "start_failed", EnterStartFailed),
                        GoUnknown(m, "on"), GoOff(m, TRUE), Exit(m), Invalid(m)}
    <3>1. r \in rows
      BY <2>1 DEF Reduce, Starting
    <3>2. \A s \in rows : Driven(s)
      <4> USE DEF Driven, Model
      <4>1. Driven(Go(m, "starting", BeginStartup)) /\ Driven(Go(m, "setup", EnterSetup))
        BY DEF BeginStartup, EnterSetup
      <4>2. Driven(Go(m, "running", EnterMonitoring)) /\ Driven(Go(m, "running", EnterRunning))
        BY DEF EnterMonitoring, EnterRunning
      <4>3. /\ Driven(Go(m, "provisioning", EnterProvisioning))
            /\ Driven(Go(m, "start_failed", EnterStartFailed))
        BY DEF EnterProvisioning, EnterStartFailed
      <4>4. Driven(GoUnknown(m, "on")) /\ Driven(GoOff(m, TRUE))
        BY DEF EnterTransitionUnknown, BeginPowerOff
      <4>5. Driven(Exit(m)) /\ Driven(Invalid(m))
        OBVIOUS
      <4> HIDE DEF Driven, Model, Invalid, Go, GoOff, GoUnknown, GoProvision, GoFirstRun, Exit
      <4> QED
        BY <4>1, <4>2, <4>3, <4>4, <4>5
    <3> HIDE DEF r, rows
    <3> QED
      BY <3>1, <3>2
  <2>2. CASE m.phase = "running"
    BY <2>2 DEF Reduce, Running, Model, Driven, BeginStartup, EnterProvisioning,
       BeginReprovisioning, BeginPowerOff
  <2>3. CASE m.phase = "start_failed"
    BY <2>3 DEF Reduce, StartFailed, Model, Driven, BeginStartup, EnterProvisioning,
       BeginPowerOff
  <2>4. CASE m.phase = "powered_off"
    BY <2>4 DEF Reduce, PoweredOff, Model, Driven, BeginStartup
  <2>5. CASE m.phase = "shutting_down"
    BY <2>5 DEF Reduce, ShuttingDown, Model, Driven, AbortShutdown, EnterPoweredOff,
       EnterTransitionUnknown
  <2>6. CASE m.phase = "setup"
    BY <2>6 DEF Reduce, Setup, Model, Driven, BeginStartup, EnterProvisioning
  <2>7. CASE m.phase = "provisioning"
    BY <2>7 DEF Reduce, Provisioning, Model, Driven, BeginStartup, EnterProvisioning,
       ReprovisionSucceeded, EnterMonitoring
  <2>8. CASE m.phase = "transition_unknown"
    BY <2>8 DEF Reduce, TransitionUnknown, Model, Driven, BeginStartup, BeginPowerOff
  <2> QED
    BY <2>1, <2>2, <2>3, <2>4, <2>5, <2>6, <2>7, <2>8 DEF Model, Phases
<1> QED
  BY <1>1, <1>2, <1>3, <1>4 DEF Fits

\* A drain begins with these effects and no others, and only a drain that is
\* over runs the helper.
LEMMA DrainRows ==
    ASSUME NEW m \in Model, NEW e \in Events
    PROVE  /\ "BEGIN_DRAIN" \in Reduce(m, e).effects =>
                 /\ Reduce(m, e).effects = BeginPowerOff /\ Reduce(m, e).valid
                 /\ Reduce(m, e).model.phase = "shutting_down"
                 /\ m.phase # "shutting_down"
           /\ "RUN_POWER_OFF" \in Reduce(m, e).effects => e = "DRAIN_COMPLETED"
<1>1. CASE m.phase = "starting"
  BY <1>1 DEF Reduce, Starting, Model, BeginStartup, EnterMonitoring, EnterRunning,
     EnterSetup, EnterProvisioning, EnterStartFailed, EnterTransitionUnknown, BeginPowerOff
<1>2. CASE m.phase = "running"
  BY <1>2 DEF Reduce, Running, Model, BeginStartup, EnterProvisioning, BeginReprovisioning,
     BeginPowerOff
<1>3. CASE m.phase \in {"start_failed", "powered_off", "setup"}
  BY <1>3 DEF Reduce, StartFailed, PoweredOff, Setup, Model, BeginStartup,
     EnterProvisioning, BeginPowerOff
<1>4. CASE m.phase = "shutting_down"
  BY <1>4 DEF Reduce, ShuttingDown, Model, AbortShutdown, EnterPoweredOff,
     EnterTransitionUnknown
<1>5. CASE m.phase \in {"provisioning", "transition_unknown"}
  BY <1>5 DEF Reduce, Provisioning, TransitionUnknown, Model, BeginStartup,
     EnterProvisioning, ReprovisionSucceeded, EnterMonitoring, BeginPowerOff
<1> QED
  BY <1>1, <1>2, <1>3, <1>4, <1>5 DEF Model, Phases

\* Leaving the shutdown stops the drain, unless the helper has been run; and
\* only a helper's answer leads to "powered off".
LEMMA ShutdownRows ==
    ASSUME NEW m \in Model, NEW e \in Events
    PROVE  /\ /\ m.phase = "shutting_down" /\ Reduce(m, e).model.phase # "shutting_down"
              /\ e \notin {"POWER_OFF_SUCCEEDED", "POWER_OFF_FAILED"}
              => "STOP_DRAIN" \in Reduce(m, e).effects
           /\ Reduce(m, e).model.phase = "powered_off" =>
                 \/ m.phase = "powered_off"
                 \/ m.phase = "shutting_down" /\ e = "POWER_OFF_SUCCEEDED"
<1>1. CASE m.phase \in {"starting", "running", "start_failed"}
  BY <1>1 DEF Reduce, Starting, Running, StartFailed, Model
<1>2. CASE m.phase \in {"powered_off", "setup", "provisioning", "transition_unknown"}
  BY <1>2 DEF Reduce, PoweredOff, Setup, Provisioning, TransitionUnknown, Model
<1>3. CASE m.phase = "shutting_down"
  BY <1>3 DEF Reduce, ShuttingDown, Model, Events, EnterTransitionUnknown
<1> QED
  BY <1>1, <1>2, <1>3 DEF Model, Phases

LEMMA ReactFits ==
    ASSUME model \in Model, NEW e \in Events, NEW w, NEW writing
    PROVE  Fits(model, React(e, w, writing))
<1> DEFINE r == Reduce(model, e)
           n == Reduce(r.model, "DRAIN_COMPLETED")
<1>1. Fits(model, r)
  BY RowFits
<1>2. ASSUME "BEGIN_DRAIN" \in r.effects
      PROVE  Fits(model, Then(r, "DRAIN_COMPLETED"))
  <2>1. r.model \in Model /\ r.model.phase = "shutting_down" /\ r.effects = BeginPowerOff
        /\ model.phase # "shutting_down"
    BY <1>1, <1>2, DrainRows DEF Fits
  <2> DEFINE m == r.model
             both == Then(r, "DRAIN_COMPLETED")
  <2>2. m \in Model /\ m.phase = "shutting_down"
    BY <2>1
  <2>3. both.model = n.model /\ both.effects = BeginPowerOff \union n.effects
        /\ both.valid = (r.valid \/ n.valid)
    BY <2>1 DEF Then
  <2>4. r.valid
    BY <1>2, DrainRows
  <2> HIDE DEF m, r, both
  <2>5. n = Go(m, "shutting_down", {"STOP_DRAIN", "RUN_POWER_OFF"})
    BY <2>2 DEF Reduce, ShuttingDown, m
  <2>6. n.effects = {"STOP_DRAIN", "RUN_POWER_OFF"} /\ n.valid
        /\ n.model \in Model /\ n.model.phase = "shutting_down"
    BY <2>2, <2>5 DEF Model, Phases
  <2> HIDE DEF n
  <2>7. both.model \in Model /\ both.model.phase = "shutting_down"
        /\ both.effects = BeginPowerOff \union {"STOP_DRAIN", "RUN_POWER_OFF"}
    BY <2>3, <2>6
  <2>8. both.valid = TRUE
    BY <2>3, <2>4
  <2>9. Gated(model, both) /\ Driven(both) /\ both.effects \subseteq Effects
    BY <2>7 DEF Gated, Driven, Runs, BeginPowerOff, Effects, CifsEffects, NoCifsPhases
  <2> QED
    BY <2>7, <2>8, <2>9 DEF Fits, both
<1> QED
  BY <1>1, <1>2 DEF React

HIDE DEF Invalid, Go, GoOff, GoUnknown, GoProvision, GoFirstRun, Exit

-----------------------------------------------------------------------------
(* The inductive invariant.                                                *)

Current(cs) == {c \in cs : c.owned /\ c.live}

\* The lock of the helper.
OneWorking(cs) == \A c, d \in cs : c.stage = "working" /\ d.stage = "working" => c = d

\* What is at work is powering off a bridge that it found off.
Harmless(cs) == \A c \in cs : c.stage = "working" => c.want = "off" /\ c.before = "off"

\* The bridge is off, and of these helpers none will make it anything else
\* before another one gets the lock; none of them is the app's.
StaysOff(cs) ==
    /\ \A c \in cs : ~c.owned
    /\ overtaken \/ (bridge = "off" /\ Harmless(cs))

\* What Perform settles has its type.
CoreTyped ==
    /\ up \in BOOLEAN
    /\ model \in Model
    /\ tasks \in [Kinds -> Nat]
    /\ live \in [TokenKinds -> Nat]
    /\ \A k \in TokenKinds : live[k] <= tasks[k]
    /\ calls \subseteq Call
    /\ bridge \in {"on", "off", "partial"} /\ overtaken \in BOOLEAN
    /\ polling \in BOOLEAN /\ ioPaused \in BOOLEAN /\ forcePending \in BOOLEAN
    /\ drain \in 0..DrainTicks
    /\ gatherFrom \in {"now", "before"}
    /\ seen \in BOOLEAN

RestTyped ==
    /\ container \in {"unknown", "running", "stopped", "absent", "error"}
    /\ applyWriting \in BOOLEAN
    /\ dialogs \in Seq(Questions)
    /\ run \in {"none", "held", "watching"}
    /\ probing \in BOOLEAN /\ verifying \in BOOLEAN

\* Where a token of the inspection and a drain belong, and whose helpers are
\* alive.
Apart ==
    /\ IsFiniteSet(calls)
    /\ live["inspect"] > 0 => model.phase = "starting"
    /\ drain > 0 => model.phase = "shutting_down"
    /\ ~up => \A c \in calls : ~c.owned
    /\ OneWorking(calls)

\* An "ok" from off still holds when it is handled, and afterwards, whatever
\* other helpers are left.
OffStands ==
    /\ \A c \in Current(calls) : c.want = "off" /\ c.stage = "answered" /\ c.answer = "ok" =>
          StaysOff(calls \ {c})
    /\ model.phase = "powered_off" => StaysOff(calls)

Core == CoreTyped /\ IoFollowsPhase /\ TransitionHasDriver /\ ForcedPassHasCarrier
        /\ DrainedWhileOff /\ Apart /\ OffStands

IInv == Core /\ RestTyped

-----------------------------------------------------------------------------
(* Helpers.                                                                *)

LEMMA KindsOfTokens == TokenKinds \subseteq Kinds /\ ScheduledCifs \subseteq Kinds
  BY DEF TokenKinds, ScheduledCifs, Kinds, LocalKinds, CifsKinds

LEMMA FreshId ==
    ASSUME NEW cs, IsFiniteSet(cs)
    PROVE  FreeId(cs) \in Nat
<1> DEFINE n == Cardinality(cs)
           ids == 1 .. n + 1
<1>1. n \in Nat
  BY FS_CardinalityType
<1>2. IsFiniteSet(ids) /\ Cardinality(ids) = n + 1
  BY <1>1, FS_Interval
<1>3. \E i \in ids : \A c \in cs : c.id # i
  <2> SUFFICES ASSUME \A i \in ids : \E c \in cs : c.id = i PROVE FALSE
    OBVIOUS
  <2> DEFINE f == [i \in ids |-> CHOOSE c \in cs : c.id = i]
  <2>1. \A i \in ids : f[i] \in cs /\ f[i].id = i
    OBVIOUS
  <2>2. f \in [ids -> cs]
    BY <2>1
  <2> HIDE DEF f, ids, n
  <2>3. n < n + 1
    BY <1>1
  <2>4. \E x, y \in ids : x # y /\ f[x] = f[y]
    BY <1>2, <2>2, <2>3, FS_PigeonHole DEF n
  <2> QED
    BY <2>1, <2>4
<1>4. FreeId(cs) \in ids
  BY <1>3 DEF FreeId
<1> QED
  BY <1>1, <1>4

LEMMA NewCallTyped ==
    ASSUME NEW cs, IsFiniteSet(cs), NEW want \in {"on", "off"},
           bridge \in {"on", "off", "partial"}
    PROVE  LET n == NewCall(cs, want)
           IN  /\ n \in Call /\ n.want = want /\ n.stage = "waiting"
               /\ n.owned = TRUE /\ n.live = TRUE
<1>1. FreeId(cs) \in Nat /\ "none" \in AnswerCodes
  BY FreshId DEF AnswerCodes
<1> QED
  BY <1>1 DEF NewCall, Call

\* A helper whose token is stale, and one the app has left behind.
Stale(c) == [c EXCEPT !.live = FALSE]
Left(c) == [c EXCEPT !.owned = FALSE, !.live = FALSE]

LEMMA StaleCall ==
    ASSUME NEW c \in Call
    PROVE  /\ Stale(c) \in Call /\ Stale(c).live = FALSE
           /\ Stale(c).owned = c.owned /\ Stale(c).stage = c.stage
           /\ Stale(c).want = c.want /\ Stale(c).before = c.before
           /\ Left(c).want = c.want /\ Left(c).before = c.before
           /\ Left(c) \in Call /\ Left(c).live = FALSE /\ Left(c).owned = FALSE
           /\ Left(c).stage = c.stage
  BY DEF Call, Stale, Left

LEMMA StaleCalls ==
    ASSUME NEW cs, cs \subseteq Call, IsFiniteSet(cs)
    PROVE  LET es == {[c EXCEPT !.live = FALSE] : c \in cs}
           IN  /\ es \subseteq Call /\ IsFiniteSet(es) /\ Current(es) = {}
               /\ OneWorking(cs) => OneWorking(es)
               /\ Harmless(cs) => Harmless(es)
               /\ (\A c \in cs : ~c.owned) => \A c \in es : ~c.owned
<1> DEFINE es == {Stale(c) : c \in cs}
           f == [c \in cs |-> Stale(c)]
<1>1. f \in Surjection(cs, es)
  BY DEF Surjection
<1>2. IsFiniteSet(es)
  BY <1>1, FS_Surjection
<1>3. \A e \in es : \E c \in cs : e = Stale(c)
  OBVIOUS
<1>4. \A c \in cs : c \in Call
  OBVIOUS
<1> HIDE DEF es
<1>5. ASSUME NEW e \in es
      PROVE  /\ e \in Call /\ ~(e.owned /\ e.live)
             /\ \E c \in cs : /\ e = Stale(c) /\ e.stage = c.stage /\ (e.owned <=> c.owned)
                              /\ e.want = c.want /\ e.before = c.before
  <2>1. PICK c \in cs : e = Stale(c)
    BY <1>3
  <2>2. c \in Call
    BY <1>4
  <2>3. /\ e \in Call /\ e.live = FALSE /\ e.owned = c.owned /\ e.stage = c.stage
        /\ e.want = c.want /\ e.before = c.before
    BY <2>1, <2>2, StaleCall
  <2> QED
    BY <2>1, <2>3
<1>6. es \subseteq Call /\ Current(es) = {}
  BY <1>5 DEF Current
<1>7. /\ OneWorking(cs) => OneWorking(es)
      /\ Harmless(cs) => Harmless(es)
      /\ (\A c \in cs : ~c.owned) => \A c \in es : ~c.owned
  <2>1. OneWorking(cs) => OneWorking(es)
    <3> SUFFICES ASSUME OneWorking(cs), NEW d \in es, NEW e \in es,
                        d.stage = "working", e.stage = "working"
                 PROVE  d = e
      BY DEF OneWorking
    <3>1. PICK c \in cs : d = Stale(c) /\ d.stage = c.stage
      BY <1>5
    <3>2. PICK b \in cs : e = Stale(b) /\ e.stage = b.stage
      BY <1>5
    <3> QED
      BY <3>1, <3>2 DEF OneWorking
  <2>2. Harmless(cs) => Harmless(es)
    BY <1>5 DEF Harmless
  <2> QED
    BY <1>5, <2>1, <2>2
<1> QED
  BY <1>2, <1>6, <1>7 DEF es, Stale

LEMMA LeftCalls ==
    ASSUME NEW cs, cs \subseteq Call, IsFiniteSet(cs), OneWorking(cs)
    PROVE  LET es == {[c EXCEPT !.owned = FALSE, !.live = FALSE] : c \in cs}
           IN  /\ es \subseteq Call /\ IsFiniteSet(es) /\ Current(es) = {}
               /\ OneWorking(es) /\ \A c \in es : ~c.owned
               /\ Harmless(cs) => Harmless(es)
<1> DEFINE es == {Left(c) : c \in cs}
           f == [c \in cs |-> Left(c)]
<1>1. f \in Surjection(cs, es)
  BY DEF Surjection
<1>2. IsFiniteSet(es)
  BY <1>1, FS_Surjection
<1>3. \A e \in es : \E c \in cs : e = Left(c)
  OBVIOUS
<1>4. \A c \in cs : c \in Call
  OBVIOUS
<1> HIDE DEF es
<1>5. ASSUME NEW e \in es
      PROVE  /\ e \in Call /\ ~e.owned
             /\ \E c \in cs : /\ e = Left(c) /\ e.stage = c.stage
                              /\ e.want = c.want /\ e.before = c.before
  <2>1. PICK c \in cs : e = Left(c)
    BY <1>3
  <2>2. c \in Call
    BY <1>4
  <2>3. /\ e \in Call /\ e.owned = FALSE /\ e.stage = c.stage
        /\ e.want = c.want /\ e.before = c.before
    BY <2>1, <2>2, StaleCall
  <2> QED
    BY <2>1, <2>3
<1>6. es \subseteq Call /\ Current(es) = {} /\ \A c \in es : ~c.owned
  BY <1>5 DEF Current
<1>7. OneWorking(es)
  <2> SUFFICES ASSUME NEW d \in es, NEW e \in es, d.stage = "working", e.stage = "working"
               PROVE  d = e
    BY DEF OneWorking
  <2>1. PICK c \in cs : d = Left(c) /\ d.stage = c.stage
    BY <1>5
  <2>2. PICK b \in cs : e = Left(b) /\ e.stage = b.stage
    BY <1>5
  <2> QED
    BY <2>1, <2>2 DEF OneWorking
<1>8. Harmless(cs) => Harmless(es)
  BY <1>5 DEF Harmless
<1> QED
  BY <1>2, <1>6, <1>7, <1>8 DEF es, Left


-----------------------------------------------------------------------------
(* The work a handler hands to its reaction.                               *)

\* Of what was in flight some may have landed, and a helper may have been left
\* behind at work.
WorkTyped(w) ==
    /\ w \in [tasks : [Kinds -> Nat], live : [TokenKinds -> Nat], calls : SUBSET Call]
    /\ \A k \in TokenKinds : w.live[k] <= w.tasks[k]
    /\ IsFiniteSet(w.calls)

WorkLess(w) ==
    /\ w.tasks["gather"] = tasks["gather"]
    /\ \A k \in ScheduledCifs : w.tasks[k] <= tasks[k]
    /\ OneWorking(w.calls) /\ (Harmless(calls) => Harmless(w.calls))
    /\ \A c \in w.calls : c.owned => c \in calls
    /\ \A c \in w.calls : c.stage = "working" => \E d \in calls : d.stage = "working"

\* What drives the phase is still in flight.
Same(w) == Current(w.calls) = Current(calls) /\ w.live["inspect"] = live["inspect"]

\* A reaction the work allows: the helper that powers off is alone, a drain
\* does not outlive its phase, and "powered off" is only said when it is.
Legal(r, w) ==
    /\ "RUN_POWER_OFF" \in r.effects =>
          /\ \A k \in ScheduledCifs : w.tasks[k] = 0
          /\ \A c \in w.calls : ~c.owned
    /\ r.model.phase # "shutting_down" => drain = 0 \/ "STOP_DRAIN" \in r.effects
                                           \/ "EXIT_APP" \in r.effects
    /\ r.model.phase = "powered_off" =>
          StaysOff(w.calls) /\ (overtaken \/ Harmless(calls))

LEMMA CallsBegunTyped ==
    ASSUME NEW E, NEW cs, cs \subseteq Call, IsFiniteSet(cs), bridge \in {"on", "off", "partial"}
    PROVE  /\ CallsBegun(E, cs) \subseteq Call
           /\ IsFiniteSet(cs \union CallsBegun(E, cs))
<1> DEFINE a == NewCall(cs, "on")
           b == NewCall(cs, "off")
<1>1. a \in Call /\ b \in Call
  BY NewCallTyped
<1>2. IsFiniteSet({}) /\ IsFiniteSet({a}) /\ IsFiniteSet({b})
  BY FS_EmptySet, FS_Singleton
<1> HIDE DEF a, b
<1>3. CallsBegun(E, cs) \in {{a}, {b}, {}}
  BY DEF CallsBegun, a, b
<1>4. IsFiniteSet(CallsBegun(E, cs))
  BY <1>2, <1>3
<1> QED
  BY <1>1, <1>3, <1>4, FS_Union

LEMMA CarryTyped ==
    ASSUME ControllerAssumption, CoreTyped, model' \in Model, UNCHANGED <<bridge, overtaken>>,
           NEW E, NEW w, WorkTyped(w), NEW begun, begun \subseteq Kinds, Carry(E, w, begun)
    PROVE  CoreTyped' /\ IsFiniteSet(calls')
<1> DEFINE started == begun \union BegunByEffects(E, w)
<1>1. tasks' = [k \in Kinds |-> w.tasks[k] + (IF k \in started THEN 1 ELSE 0)]
      /\ live' = [k \in TokenKinds |-> w.live[k] + (IF k \in started THEN 1 ELSE 0)]
  BY DEF Carry
<1> HIDE DEF started
<1>2. tasks' \in [Kinds -> Nat] /\ live' \in [TokenKinds -> Nat]
  BY <1>1 DEF WorkTyped
<1>3. \A k \in TokenKinds : live'[k] <= tasks'[k]
  BY <1>1, KindsOfTokens DEF WorkTyped
<1>4. calls' \subseteq Call /\ IsFiniteSet(calls')
  BY CallsBegunTyped DEF Carry, WorkTyped, CoreTyped
<1>5. drain' \in 0..DrainTicks
  BY DEF Carry, CoreTyped, ControllerAssumption
<1>6. gatherFrom' \in {"now", "before"}
  BY DEF Carry, CoreTyped
<1>7. up' \in BOOLEAN /\ polling' \in BOOLEAN /\ ioPaused' \in BOOLEAN
      /\ forcePending' \in BOOLEAN /\ seen' \in BOOLEAN
  <2>1. up' \in BOOLEAN
    BY DEF Carry
  <2>2. polling' \in BOOLEAN
    BY Zenon DEF Carry
  <2>3. ioPaused' \in BOOLEAN
    BY Zenon DEF Carry
  <2>4. forcePending' \in BOOLEAN
    BY Zenon DEF Carry
  <2>5. seen' \in BOOLEAN
    BY Zenon DEF Carry
  <2> QED
    BY <2>1, <2>2, <2>3, <2>4, <2>5
<1>8. bridge' \in {"on", "off", "partial"}
  BY DEF CoreTyped
<1> QED
  BY <1>2, <1>3, <1>4, <1>5, <1>6, <1>7, <1>8 DEF CoreTyped

\* A handler that dispatches nothing keeps every phase's driver.
LEMMA QuietKeeps ==
    ASSUME ControllerAssumption, Core, up, UNCHANGED <<bridge, overtaken>>,
           NEW w, WorkTyped(w), WorkLess(w), Same(w),
           NEW begun, begun \subseteq Kinds \ {"inspect"},
           begun \intersect ScheduledCifs # {} => model.phase = "running",
           Carry({}, w, begun), model' = model
    PROVE  Core'
<1> USE DEF Core
<1>1. CoreTyped' /\ IsFiniteSet(calls')
  <2>1. model' \in Model /\ begun \subseteq Kinds
    BY DEF CoreTyped
  <2> QED
    BY <2>1, CarryTyped
<1>2. BegunByEffects({}, w) = {} /\ CallsBegun({}, w.calls) = {}
  BY DEF BegunByEffects, CallsBegun
<1>3. /\ up' = TRUE /\ calls' = w.calls /\ drain' = drain
      /\ \A k \in Kinds : tasks'[k] = w.tasks[k] + (IF k \in begun THEN 1 ELSE 0)
      /\ \A k \in TokenKinds : live'[k] = w.live[k] + (IF k \in begun THEN 1 ELSE 0)
  BY <1>2 DEF Carry
<1>4. live'["inspect"] = live["inspect"]
  <2>1. "inspect" \in TokenKinds /\ "inspect" \notin begun /\ w.live["inspect"] \in Nat
    BY DEF TokenKinds, WorkTyped
  <2> QED
    BY <1>3, <2>1 DEF Same
<1>5. Current(calls') = Current(calls) /\ CurrentCalls = Current(calls)
      /\ CurrentCalls' = Current(calls')
  BY <1>3 DEF Same, Current, CurrentCalls
<1>6. (polling' <=> polling) /\ (ioPaused' <=> ioPaused) /\ (forcePending' <=> forcePending)
  <2>1. polling' <=> polling
    BY Zenon DEF Carry
  <2>2. ioPaused' <=> ioPaused
    BY Zenon DEF Carry
  <2>3. forcePending' <=> forcePending
    BY Zenon DEF Carry
  <2> QED
    BY <2>1, <2>2, <2>3
<1>7. IoFollowsPhase'
  BY <1>6 DEF IoFollowsPhase
<1>8. TransitionHasDriver'
  <2>1. \A c : CurrentCalls = {c} /\ c \in calls => c \in calls'
    BY <1>3, <1>5 DEF Current, Same
  <2> QED
    BY <1>3, <1>4, <1>5, <2>1 DEF TransitionHasDriver
<1>9. ForcedPassHasCarrier'
  <2>1. "gather" \in Kinds
    BY DEF Kinds, LocalKinds, CifsKinds, ScheduledCifs
  <2>2. forcePending => tasks["gather"] > 0
    BY DEF ForcedPassHasCarrier
  <2>3. w.tasks["gather"] = tasks["gather"] /\ tasks["gather"] \in Nat
    BY <2>1 DEF WorkLess, CoreTyped
  <2>4. tasks["gather"] > 0 => tasks'["gather"] > 0
    BY <1>3, <2>1, <2>3
  <2> QED
    BY <1>6, <2>2, <2>4 DEF ForcedPassHasCarrier
<1>10. DrainedWhileOff'
  <2> SUFFICES ASSUME NEW c \in CurrentCalls', c.want = "off"
               PROVE  /\ \A k \in ScheduledCifs : tasks'[k] = 0
                      /\ \A d \in calls' : d.owned => d = c
    BY DEF DrainedWhileOff
  <2>1. c \in CurrentCalls
    BY <1>5
  <2>2. (\A k \in ScheduledCifs : tasks[k] = 0) /\ \A d \in calls : d.owned => d = c
    BY <2>1 DEF DrainedWhileOff
  <2>3. model.phase # "running"
    BY <2>1 DEF TransitionHasDriver
  <2>4. ASSUME NEW k \in ScheduledCifs
        PROVE  tasks'[k] = 0
    <3>1. k \in Kinds /\ k \notin begun
      BY <2>3, KindsOfTokens
    <3>2. w.tasks[k] \in Nat /\ w.tasks[k] <= 0
      BY <2>2, <3>1 DEF WorkTyped, WorkLess
    <3> QED
      BY <1>3, <3>1, <3>2
  <2> QED
    BY <1>3, <2>2, <2>4 DEF WorkLess
<1>11. Apart'
  BY <1>1, <1>3, <1>4 DEF Apart, WorkLess
<1>12. OffStands'
  <2>1. model.phase = "powered_off" => StaysOff(calls)'
    BY <1>3 DEF OffStands, WorkLess, StaysOff
  <2>2. ASSUME NEW c \in Current(calls'), c.want = "off", c.stage = "answered", c.answer = "ok"
        PROVE  StaysOff(calls \ {c})'
    <3>1. c \in Current(calls) /\ StaysOff(calls \ {c})
      BY <1>5, <2>2 DEF OffStands
    <3>2. overtaken \/ (bridge = "off" /\ Harmless(calls))
      BY <2>2, <3>1 DEF StaysOff, Harmless
    <3>3. \A d \in w.calls : d.owned => d \in calls
      BY DEF WorkLess
    <3>4. \A d \in calls' \ {c} : ~d.owned
      BY <1>3, <3>1, <3>3 DEF StaysOff
    <3>5. overtaken \/ (bridge = "off" /\ Harmless(calls'))
      BY <1>3, <3>2 DEF WorkLess
    <3> QED
      BY <3>4, <3>5 DEF StaysOff, Harmless
  <2> QED
    BY <2>1, <2>2 DEF OffStands
<1> QED
  BY <1>1, <1>7, <1>8, <1>9, <1>10, <1>11, <1>12

LEMMA ExitKeeps ==
    ASSUME ControllerAssumption, Core, up, UNCHANGED <<bridge, overtaken>>, ExitNow, model' \in Model,
           model'.phase = "powered_off" => overtaken \/ (bridge = "off" /\ Harmless(calls))
    PROVE  Core'
<1> USE DEF Core
<1> DEFINE cs == {d \in calls : d.stage # "answered"}
<1>1. cs \subseteq Call /\ IsFiniteSet(cs) /\ OneWorking(cs)
  <2>1. IsFiniteSet(cs)
    BY FS_Subset DEF Apart
  <2> QED
    BY <2>1 DEF Apart, OneWorking, CoreTyped
<1>2. calls' = {[c EXCEPT !.owned = FALSE, !.live = FALSE] : c \in cs}
  BY DEF ExitNow
<1> HIDE DEF cs
<1>3. /\ calls' \subseteq Call /\ IsFiniteSet(calls') /\ Current(calls') = {}
      /\ OneWorking(calls') /\ (\A c \in calls' : ~c.owned)
      /\ Harmless(cs) => Harmless(calls')
  BY <1>1, <1>2, LeftCalls
<1>4. /\ up' = FALSE /\ drain' = 0 /\ forcePending' = FALSE
      /\ tasks' \in [Kinds -> Nat] /\ live' \in [TokenKinds -> Nat]
      /\ (\A k \in TokenKinds : live'[k] = 0) /\ \A k \in Kinds : tasks'[k] = 0
  BY DEF ExitNow, NoTasks, NoneLive
<1>5. CoreTyped'
  <2>1. \A k \in TokenKinds : live'[k] <= tasks'[k]
    BY <1>4, KindsOfTokens
  <2>2. drain' \in 0..DrainTicks
    BY <1>4 DEF ControllerAssumption
  <2>3. /\ up' \in BOOLEAN /\ polling' \in BOOLEAN /\ ioPaused' \in BOOLEAN
        /\ forcePending' \in BOOLEAN /\ seen' \in BOOLEAN
        /\ gatherFrom' \in {"now", "before"}
    BY DEF ExitNow
  <2>4. bridge' \in {"on", "off", "partial"}
    BY DEF CoreTyped
  <2> QED
    BY <1>3, <1>4, <2>1, <2>2, <2>3, <2>4 DEF CoreTyped
<1>6. CurrentCalls' = {}
  BY <1>3 DEF CurrentCalls, Current
<1>7. IoFollowsPhase' /\ TransitionHasDriver' /\ ForcedPassHasCarrier'
  BY <1>4 DEF IoFollowsPhase, TransitionHasDriver, ForcedPassHasCarrier
<1>8. DrainedWhileOff'
  BY <1>6 DEF DrainedWhileOff
<1>9. Apart'
  <2>1. "inspect" \in TokenKinds
    BY DEF TokenKinds
  <2> QED
    BY <1>3, <1>4, <2>1 DEF Apart
<1>10. OffStands'
  <2>1. Harmless(calls) => Harmless(calls')
    BY <1>3 DEF cs, Harmless
  <2>2. model'.phase = "powered_off" => StaysOff(calls)'
    BY <1>3, <2>1 DEF StaysOff
  <2> QED
    BY <1>3, <2>2 DEF OffStands
<1> QED
  BY <1>5, <1>7, <1>8, <1>9, <1>10

\* What is left of the work once its token has expired.
LEMMA Expired ==
    ASSUME NEW w, WorkTyped(w), WorkLess(w)
    PROVE  LET x == ExpireToken(w)
           IN  /\ WorkTyped(x) /\ x.tasks = w.tasks /\ x.live["inspect"] = 0
               /\ Current(x.calls) = {} /\ OneWorking(x.calls)
               /\ (\A c \in w.calls : ~c.owned) => \A c \in x.calls : ~c.owned
               /\ Harmless(w.calls) => Harmless(x.calls)
<1> DEFINE es == {[c EXCEPT !.live = FALSE] : c \in w.calls}
           x == ExpireToken(w)
<1>1. x = [w EXCEPT !.live = NoneLive, !.calls = es]
  BY DEF ExpireToken
<1>2. /\ es \subseteq Call /\ IsFiniteSet(es) /\ Current(es) = {}
      /\ OneWorking(es)
      /\ (\A c \in w.calls : ~c.owned) => \A c \in es : ~c.owned
      /\ Harmless(w.calls) => Harmless(es)
  BY StaleCalls DEF WorkTyped, WorkLess
<1> HIDE DEF es, x
<1>3. w = [tasks |-> w.tasks, live |-> w.live, calls |-> w.calls]
  BY DEF WorkTyped
<1>4. x.tasks = w.tasks /\ x.live = NoneLive /\ x.calls = es
  BY <1>1, <1>3
<1>5. /\ NoneLive \in [TokenKinds -> Nat] /\ (\A k \in TokenKinds : NoneLive[k] = 0)
      /\ "inspect" \in TokenKinds
  BY DEF NoneLive, TokenKinds
<1>6. \A k \in TokenKinds : x.live[k] <= x.tasks[k]
  BY <1>4, <1>5, KindsOfTokens DEF WorkTyped
<1>7. WorkTyped(x)
  <2>1. x \in [tasks : [Kinds -> Nat], live : [TokenKinds -> Nat], calls : SUBSET Call]
    BY <1>1, <1>2, <1>5 DEF WorkTyped
  <2> QED
    BY <1>2, <1>4, <1>6, <2>1 DEF WorkTyped
<1> QED
  BY <1>2, <1>4, <1>5, <1>7 DEF x

\* A valid reaction puts the driver its phase needs in the place of the old one.
LEMMA ValidKeeps ==
    ASSUME ControllerAssumption, Core, up, UNCHANGED <<bridge, overtaken>>,
           NEW r, Fits(model, r), r.valid, "EXIT_APP" \notin r.effects,
           NEW w, WorkTyped(w), WorkLess(w), Legal(r, w),
           NEW begun, begun \subseteq Kinds \ ({"inspect"} \union ScheduledCifs),
           Carry(r.effects, ExpireToken(w), begun), model' = r.model
    PROVE  Core'
<1> USE DEF Core
<1> DEFINE x == ExpireToken(w)
           new == CallsBegun(r.effects, x.calls)
           started == begun \union BegunByEffects(r.effects, x)
<1>1. /\ WorkTyped(x) /\ x.tasks = w.tasks /\ x.live["inspect"] = 0
      /\ Current(x.calls) = {} /\ OneWorking(x.calls)
      /\ (\A c \in w.calls : ~c.owned) => \A c \in x.calls : ~c.owned
      /\ Harmless(w.calls) => Harmless(x.calls)
  BY Expired
<1>2. model' \in Model /\ r.model \in Model /\ begun \subseteq Kinds
  BY DEF Fits
<1>3. CoreTyped' /\ IsFiniteSet(calls')
  BY <1>1, <1>2, CarryTyped
<1>4. /\ up' = TRUE /\ calls' = x.calls \union new
      /\ drain' = IF "STOP_DRAIN" \in r.effects THEN 0
                  ELSE IF "BEGIN_DRAIN" \in r.effects THEN DrainTicks - 1 ELSE drain
      /\ \A k \in Kinds : tasks'[k] = x.tasks[k] + (IF k \in started THEN 1 ELSE 0)
      /\ \A k \in TokenKinds : live'[k] = x.live[k] + (IF k \in started THEN 1 ELSE 0)
  BY DEF Carry
<1>5. live'["inspect"] = 0
  <2>1. "inspect" \notin started /\ "inspect" \in TokenKinds
    BY DEF TokenKinds, BegunByEffects
  <2> QED
    BY <1>1, <1>4, <2>1
<1>6. /\ r.model.phase = "starting" => r.effects \intersect Runs = {"RUN_POWER_ON"}
      /\ r.model.phase = "shutting_down" =>
            \/ /\ r.effects \intersect Runs = {"BEGIN_DRAIN"}
               /\ "STOP_DRAIN" \notin r.effects
            \/ /\ {"RUN_POWER_OFF", "STOP_DRAIN"} \subseteq r.effects
               /\ "RUN_POWER_ON" \notin r.effects
      /\ r.model.phase \notin {"starting", "shutting_down"} => r.effects \intersect Runs = {}
  BY DEF Fits, Driven
\* the helper this reaction runs, if any
<1>7. \/ new = {} /\ r.effects \intersect {"RUN_POWER_ON", "RUN_POWER_OFF"} = {}
      \/ \E c : /\ new = {c} /\ c.stage = "waiting" /\ c.owned = TRUE /\ c.live = TRUE
                /\ \/ c.want = "on" /\ "RUN_POWER_ON" \in r.effects
                                    /\ "RUN_POWER_OFF" \notin r.effects
                   \/ c.want = "off" /\ "RUN_POWER_OFF" \in r.effects
                                     /\ "RUN_POWER_ON" \notin r.effects
  <2>1. "RUN_POWER_ON" \in r.effects => "RUN_POWER_OFF" \notin r.effects
    BY <1>6 DEF Runs
  <2>2. IsFiniteSet(x.calls) /\ bridge \in {"on", "off", "partial"}
    BY <1>1 DEF WorkTyped, CoreTyped
  <2> DEFINE a == NewCall(x.calls, "on")
             b == NewCall(x.calls, "off")
  <2>3. /\ a.want = "on" /\ a.stage = "waiting" /\ a.owned = TRUE /\ a.live = TRUE
        /\ b.want = "off" /\ b.stage = "waiting" /\ b.owned = TRUE /\ b.live = TRUE
    BY <2>2, NewCallTyped
  <2> HIDE DEF a, b, x
  <2>4. /\ "RUN_POWER_ON" \in r.effects => new = {a}
        /\ "RUN_POWER_OFF" \in r.effects /\ "RUN_POWER_ON" \notin r.effects => new = {b}
        /\ r.effects \intersect {"RUN_POWER_ON", "RUN_POWER_OFF"} = {} => new = {}
    <3>1. CASE "RUN_POWER_ON" \in r.effects
      BY <2>1, <3>1 DEF CallsBegun, a, b
    <3>2. CASE "RUN_POWER_ON" \notin r.effects /\ "RUN_POWER_OFF" \in r.effects
      BY <3>2 DEF CallsBegun, a, b
    <3>3. CASE "RUN_POWER_ON" \notin r.effects /\ "RUN_POWER_OFF" \notin r.effects
      BY <3>3 DEF CallsBegun, a, b
    <3> QED
      BY <2>1, <3>1, <3>2, <3>3
  <2> HIDE DEF new
  <2> QED
    BY <2>1, <2>3, <2>4
<1> HIDE DEF x, new, started
<1>8. Current(calls') = new /\ new \subseteq calls' /\ CurrentCalls' = new
  <2>1. Current(calls') = new
    BY <1>1, <1>4, <1>7 DEF Current
  <2> QED
    BY <1>4, <2>1 DEF Current, CurrentCalls
<1>9. drain' > 0 => r.model.phase = "shutting_down" /\ "RUN_POWER_OFF" \notin r.effects
  <2>1. r.model.phase # "shutting_down" => drain' = 0
    BY <1>4, <1>6 DEF Legal, Runs
  <2>2. drain' > 0 => "STOP_DRAIN" \notin r.effects
    BY <1>4
  <2>3. drain' > 0 => r.effects \intersect Runs = {"BEGIN_DRAIN"}
    BY <1>6, <2>1, <2>2
  <2> QED
    BY <2>1, <2>3 DEF Runs
<1>10. IoFollowsPhase'
  <2>1. CASE r.model.phase # "running"
    <3>1. /\ r.effects \intersect CifsEffects = {}
          /\ model.phase = "running" => {"STOP_POLLING", "QUIESCE_IO"} \subseteq r.effects
      BY <1>2, <2>1 DEF Fits, Gated, NoCifsPhases, Model
    <3>2. "RESUME_IO" \notin r.effects /\ "START_POLLING" \notin r.effects
      BY <3>1 DEF CifsEffects
    <3>3. model.phase # "running" => ~polling /\ ioPaused
      BY DEF IoFollowsPhase, NoCifsPhases, CoreTyped, Model
    <3>4. ~polling'
      <4>1. ~polling \/ "STOP_POLLING" \in r.effects
        BY <3>1, <3>3
      <4> QED
        BY <3>2, <4>1, Zenon DEF Carry
    <3>5. ioPaused'
      <4>1. ioPaused \/ r.effects \intersect {"QUIESCE_IO", "PAUSE_IO"} # {}
        BY <3>1, <3>3
      <4> QED
        BY <3>2, <4>1, Zenon DEF Carry
    <3> QED
      BY <2>1, <3>4, <3>5 DEF IoFollowsPhase, NoCifsPhases, Fits, Model
  <2>2. CASE r.model.phase = "running" /\ model.phase = "running"
    <3>1. r.effects = {}
      BY <2>2 DEF Fits, Gated
    <3>2. polling /\ ~ioPaused
      BY <2>2 DEF IoFollowsPhase, NoCifsPhases, Phases
    <3>3. polling' /\ ~ioPaused'
      <4>1. "STOP_POLLING" \notin r.effects
            /\ r.effects \intersect {"QUIESCE_IO", "PAUSE_IO"} = {}
        BY <3>1
      <4>2. polling'
        BY <3>2, <4>1, Zenon DEF Carry
      <4>3. ~ioPaused'
        BY <3>2, <4>1, Zenon DEF Carry
      <4> QED
        BY <4>2, <4>3
    <3> QED
      BY <2>2, <3>3 DEF IoFollowsPhase, NoCifsPhases, Phases
  <2>3. CASE r.model.phase = "running" /\ model.phase # "running"
    <3>1. "RESUME_IO" \in r.effects /\ "START_POLLING" \in r.effects
      BY <2>3 DEF Fits, Gated
    <3>2. polling'
      BY <3>1, Zenon DEF Carry
    <3>3. ~ioPaused'
      BY <3>1, Zenon DEF Carry
    <3> QED
      BY <2>3, <3>2, <3>3 DEF IoFollowsPhase, NoCifsPhases, Phases
  <2> QED
    BY <2>1, <2>2, <2>3
<1>11. TransitionHasDriver'
  <2>1. CASE r.model.phase = "starting"
    <3>1. "RUN_POWER_ON" \in r.effects
      BY <1>6, <2>1
    <3>2. PICK c : new = {c} /\ c.want = "on"
      BY <1>7, <3>1
    <3> QED
      BY <1>5, <1>8, <2>1, <3>2 DEF TransitionHasDriver
  <2>2. CASE r.model.phase = "shutting_down" /\ "STOP_DRAIN" \notin r.effects
    <3>1. r.effects \intersect Runs = {"BEGIN_DRAIN"}
      BY <1>6, <2>2
    <3>2. new = {}
      BY <1>7, <3>1 DEF Runs
    <3>3. drain' > 0
      BY <1>4, <2>2, <3>1 DEF Runs, ControllerAssumption
    <3> QED
      BY <1>8, <2>2, <3>2, <3>3 DEF TransitionHasDriver
  <2>3. CASE r.model.phase = "shutting_down" /\ "STOP_DRAIN" \in r.effects
    <3>1. "RUN_POWER_OFF" \in r.effects
      BY <1>6, <2>3 DEF Runs
    <3>2. PICK c : new = {c} /\ c.want = "off"
      BY <1>7, <3>1
    <3>3. drain' = 0
      BY <1>4, <2>3
    <3> QED
      BY <1>8, <2>3, <3>2, <3>3 DEF TransitionHasDriver
  <2>4. CASE r.model.phase \notin {"starting", "shutting_down"}
    <3>1. new = {}
      BY <1>6, <1>7, <2>4 DEF Runs
    <3>2. drain' = 0
      BY <1>3, <1>9, <2>4 DEF CoreTyped
    <3> QED
      BY <1>5, <1>8, <2>4, <3>1, <3>2 DEF TransitionHasDriver
  <2> QED
    BY <2>1, <2>2, <2>3, <2>4
<1>12. ForcedPassHasCarrier'
  <2> SUFFICES ASSUME forcePending' PROVE tasks'["gather"] > 0
    BY DEF ForcedPassHasCarrier
  <2>1. "gather" \in Kinds
    BY DEF Kinds, CifsKinds, ScheduledCifs
  <2>2. x.tasks["gather"] = tasks["gather"] /\ tasks["gather"] \in Nat
    BY <1>1, <2>1 DEF WorkLess, CoreTyped
  <2>3. forcePending \/ x.tasks["gather"] > 0
    BY Zenon DEF Carry, x
  <2>4. tasks["gather"] > 0
    BY <2>2, <2>3 DEF ForcedPassHasCarrier
  <2> QED
    BY <1>4, <2>1, <2>2, <2>4
<1>13. DrainedWhileOff'
  <2> SUFFICES ASSUME NEW c \in CurrentCalls', c.want = "off"
               PROVE  /\ \A k \in ScheduledCifs : tasks'[k] = 0
                      /\ \A d \in calls' : d.owned => d = c
    BY DEF DrainedWhileOff
  <2>1. new = {c} /\ "RUN_POWER_OFF" \in r.effects
    BY <1>7, <1>8
  <2>2. (\A k \in ScheduledCifs : x.tasks[k] = 0) /\ \A d \in x.calls : ~d.owned
    BY <1>1, <2>1 DEF Legal
  <2>3. r.model.phase = "shutting_down"
    BY <1>6, <2>1 DEF Runs
  <2>4. r.effects \intersect CifsEffects = {}
    BY <2>3 DEF Fits, Gated, NoCifsPhases, Phases
  <2>5. ASSUME NEW k \in ScheduledCifs
        PROVE  k \notin started
    BY <2>4 DEF started, BegunByEffects, CifsEffects, ScheduledCifs
  <2>6. \A k \in ScheduledCifs : tasks'[k] = 0
    BY <1>4, <2>2, <2>5, KindsOfTokens
  <2> QED
    BY <1>4, <2>1, <2>2, <2>6
<1>14. Apart'
  <2>1. OneWorking(calls')
    BY <1>1, <1>4, <1>7 DEF OneWorking
  <2> QED
    BY <1>3, <1>4, <1>5, <1>9, <2>1 DEF Apart
<1>15. OffStands'
  <2>1. \A c \in Current(calls') : c.stage = "waiting"
    BY <1>7, <1>8
  <2>2. r.model.phase = "powered_off" => StaysOff(calls)'
    <3>1. r.model.phase = "powered_off" => calls' = x.calls
      BY <1>4, <1>6, <1>7 DEF Runs
    <3>2. r.model.phase = "powered_off" => StaysOff(w.calls)
      BY DEF Legal
    <3> QED
      BY <1>1, <3>1, <3>2 DEF StaysOff
  <2> QED
    BY <2>1, <2>2 DEF OffStands
<1> QED
  BY <1>3, <1>10, <1>11, <1>12, <1>13, <1>14, <1>15

\* Whatever the reaction, the handler that performs it keeps the invariant.
LEMMA PerformKeeps ==
    ASSUME ControllerAssumption, Core, up, UNCHANGED <<bridge, overtaken>>,
           NEW r, Fits(model, r),
           NEW w, WorkTyped(w), WorkLess(w), Legal(r, w), r.valid \/ Same(w),
           NEW begun, begun \subseteq Kinds \ ({"inspect"} \union ScheduledCifs),
           Perform(r, w, begun)
    PROVE  Core'
<1>1. model' = r.model /\ model' \in Model
  BY DEF Perform, Fits
<1>2. CASE "EXIT_APP" \in r.effects
  <2>1. ExitNow
    BY <1>2 DEF Perform
  <2>2. model'.phase = "powered_off" => overtaken \/ (bridge = "off" /\ Harmless(calls))
    BY <1>1 DEF Legal, StaysOff
  <2> QED
    BY <1>1, <2>1, <2>2, ExitKeeps
<1>3. CASE "EXIT_APP" \notin r.effects /\ r.valid
  <2>1. Carry(r.effects, ExpireToken(w), begun)
    BY <1>3 DEF Perform
  <2> QED
    BY <1>1, <1>3, <2>1, ValidKeeps
<1>4. CASE "EXIT_APP" \notin r.effects /\ ~r.valid
  <2>1. r.model = model /\ r.effects = {}
    BY <1>4 DEF Fits
  <2>2. Carry({}, w, begun)
    BY <1>4, <2>1 DEF Perform
  <2>3. begun \subseteq Kinds \ {"inspect"} /\ begun \intersect ScheduledCifs = {}
    OBVIOUS
  <2> QED
    BY <1>1, <1>4, <2>1, <2>2, <2>3, QuietKeeps
<1> QED
  BY <1>2, <1>3, <1>4

\* Nothing in flight: no task of a kind and no helper of the app's.
LEMMA Inactive ==
    ASSUME NEW w, WorkTyped(w), ~Active(w)
    PROVE  (\A k \in ScheduledCifs : w.tasks[k] = 0) /\ \A c \in w.calls : ~c.owned
<1>1. \A k \in Kinds : w.tasks[k] \in Nat
  BY DEF WorkTyped
<1> QED
  BY <1>1, KindsOfTokens DEF Active

\* The events a helper's answer to off is turned into.
OffAnswers == {"POWER_OFF_SUCCEEDED", "POWER_OFF_FAILED"}

LEMMA ReactLegal ==
    ASSUME Core, NEW e \in Events, NEW w, WorkTyped(w), NEW writing,
           e = "DRAIN_COMPLETED" => ~Active(w),
           e \in OffAnswers => drain = 0,
           e = "POWER_OFF_SUCCEEDED" /\ model.phase = "shutting_down" =>
               StaysOff(w.calls) /\ (overtaken \/ Harmless(calls)),
           model.phase = "powered_off" => StaysOff(w.calls)
    PROVE  Legal(Reduce(model, e), w) /\ Legal(React(e, w, writing), w)
<1> USE DEF Core
<1> DEFINE r == Reduce(model, e)
           n == Reduce(r.model, "DRAIN_COMPLETED")
<1>1. model \in Model /\ Fits(model, r) /\ drain \in Nat
  BY RowFits DEF CoreTyped
<1>2. ~Active(w) => (\A k \in ScheduledCifs : w.tasks[k] = 0) /\ \A c \in w.calls : ~c.owned
  BY Inactive
<1>3. Legal(r, w)
  <2>1. "RUN_POWER_OFF" \in r.effects => ~Active(w)
    BY <1>1, DrainRows
  <2>2. r.model.phase # "shutting_down" => drain = 0 \/ "STOP_DRAIN" \in r.effects
    <3>1. drain > 0 => model.phase = "shutting_down"
      BY DEF Apart
    <3> QED
      BY <1>1, <3>1, ShutdownRows DEF OffAnswers
  <2>3. r.model.phase = "powered_off" =>
           StaysOff(w.calls) /\ (overtaken \/ Harmless(calls))
    BY <1>1, ShutdownRows DEF OffStands, StaysOff
  <2> QED
    BY <1>2, <2>1, <2>2, <2>3 DEF Legal
<1>4. ASSUME "BEGIN_DRAIN" \in r.effects, ~Active(w)
      PROVE  Legal(Then(r, "DRAIN_COMPLETED"), w)
  <2>1. r.model.phase = "shutting_down" /\ r.model \in Model
    BY <1>1, <1>4, DrainRows DEF Fits
  <2> DEFINE m == r.model
  <2> HIDE DEF m, r
  <2>2. m \in Model /\ m.phase = "shutting_down"
    BY <2>1 DEF m
  <2>3. n = Go(m, "shutting_down", {"STOP_DRAIN", "RUN_POWER_OFF"})
    BY <2>2 DEF Reduce, ShuttingDown, m
  <2>4. n.model.phase = "shutting_down"
    BY <2>2, <2>3 DEF Go, Model, Phases
  <2>5. Then(r, "DRAIN_COMPLETED").model.phase = "shutting_down"
    BY <2>4 DEF Then
  <2> QED
    BY <1>2, <1>4, <2>5 DEF Legal
<1> QED
  BY <1>3, <1>4 DEF React

\* A handler that dispatches an event.
LEMMA DispatchKeeps ==
    ASSUME ControllerAssumption, Core, up, UNCHANGED <<bridge, overtaken>>,
           NEW e \in Events, NEW w, WorkTyped(w), WorkLess(w),
           Same(w) \/ Reduce(model, e).valid,
           NEW begun, begun \subseteq Kinds \ ({"inspect"} \union ScheduledCifs), NEW c,
           Dispatch(e, w, begun, c),
           e = "DRAIN_COMPLETED" => ~Active(w),
           e \in OffAnswers => drain = 0,
           e = "POWER_OFF_SUCCEEDED" /\ model.phase = "shutting_down" =>
               StaysOff(w.calls) /\ (overtaken \/ Harmless(calls))
    PROVE  Core'
<1> DEFINE r == React(e, w, applyWriting)
<1>1. Fits(model, r)
  BY ReactFits DEF Core, CoreTyped
<1>2. model.phase = "powered_off" => StaysOff(w.calls)
  BY DEF Core, OffStands, WorkLess, StaysOff
<1>3. Legal(r, w)
  BY <1>2, ReactLegal
<1>4. r.valid \/ Same(w)
  <2>1. Reduce(model, e).valid => r.valid
    <3>1. CASE r = Reduce(model, e)
      BY <3>1
    <3>2. CASE r = Then(Reduce(model, e), "DRAIN_COMPLETED")
      <4> DEFINE n == Reduce(Reduce(model, e).model, "DRAIN_COMPLETED")
      <4>1. r.valid = (Reduce(model, e).valid \/ n.valid)
        BY <3>2 DEF Then
      <4> HIDE DEF n, r
      <4> QED
        BY <4>1
    <3> QED
      BY <3>1, <3>2 DEF React
  <2> QED
    BY <2>1
<1>5. Perform(r, w, begun)
  BY DEF Dispatch
<1> QED
  BY <1>1, <1>3, <1>4, <1>5, PerformKeeps

-----------------------------------------------------------------------------
(* What each handler hands over.                                           *)

Landing(t, l, cs) == [tasks |-> t, live |-> l, calls |-> cs]

LEMMA LandingIs ==
    ASSUME NEW k, NEW c
    PROVE  /\ InFlight = Landing(tasks, live, calls)
           /\ Landed(k) = Landing([tasks EXCEPT ![k] = @ - 1], live, calls)
           /\ LandedLive(k) = Landing([tasks EXCEPT ![k] = @ - 1],
                                      [live EXCEPT ![k] = @ - 1], calls)
           /\ WithoutCall(c) = Landing(tasks, live, calls \ {c})
<1> DEFINE w == InFlight
           x == Landed(k)
           t == [tasks EXCEPT ![k] = @ - 1]
<1>1. w = [tasks |-> tasks, live |-> live, calls |-> calls]
  BY DEF InFlight
<1>2. x = [w EXCEPT !.tasks[k] = @ - 1]
  BY DEF Landed
<1>3. LandedLive(k) = [x EXCEPT !.live[k] = @ - 1] /\ WithoutCall(c) = [w EXCEPT !.calls = @ \ {c}]
  BY DEF LandedLive, WithoutCall
<1> HIDE DEF w, x
<1>4. WithoutCall(c) = [tasks |-> tasks, live |-> live, calls |-> calls \ {c}]
  BY <1>1, <1>3
<1>5. x = [tasks |-> t, live |-> live, calls |-> calls]
  BY <1>1, <1>2
<1>6. LandedLive(k) = [tasks |-> t, live |-> [live EXCEPT ![k] = @ - 1], calls |-> calls]
  <2> HIDE DEF t
  <2> QED
    BY <1>3, <1>5
<1> QED
  BY <1>1, <1>4, <1>5, <1>6 DEF w, x, Landing

\* The general case: fewer tasks, fewer tokens, and helpers that are the app's
\* only if they were, or else at work.
LEMMA LandingKeeps ==
    ASSUME Core, up,
           NEW t \in [Kinds -> Nat], NEW l \in [TokenKinds -> Nat], NEW cs,
           \A k \in TokenKinds : l[k] <= t[k],
           t["gather"] = tasks["gather"], \A k \in ScheduledCifs : t[k] <= tasks[k],
           cs \subseteq calls
    PROVE  /\ WorkTyped(Landing(t, l, cs)) /\ WorkLess(Landing(t, l, cs))
           /\ Current(cs) = Current(calls) /\ l["inspect"] = live["inspect"] =>
                 Same(Landing(t, l, cs))
<1> USE DEF Core
<1> DEFINE w == Landing(t, l, cs)
<1>1. w.tasks = t /\ w.live = l /\ w.calls = cs
      /\ w = [tasks |-> t, live |-> l, calls |-> cs]
  BY DEF Landing
<1> HIDE DEF w
<1>2. cs \subseteq Call /\ IsFiniteSet(cs) /\ OneWorking(cs) /\ (Harmless(calls) => Harmless(cs))
  BY FS_Subset DEF CoreTyped, Apart, OneWorking, Harmless
<1>3. WorkTyped(w)
  BY <1>1, <1>2 DEF WorkTyped
<1>4. WorkLess(w)
  BY <1>1, <1>2 DEF WorkLess
<1>5. Current(cs) = Current(calls) /\ l["inspect"] = live["inspect"] => Same(w)
  BY <1>1 DEF Same
<1> QED
  BY <1>3, <1>4, <1>5 DEF w

LEMMA InFlightKeeps ==
    ASSUME Core, up
    PROVE  WorkTyped(InFlight) /\ WorkLess(InFlight) /\ Same(InFlight)
<1>1. /\ tasks \in [Kinds -> Nat] /\ live \in [TokenKinds -> Nat]
      /\ \A k \in TokenKinds : live[k] <= tasks[k]
  BY DEF Core, CoreTyped
<1>2. \A k \in ScheduledCifs : tasks[k] <= tasks[k]
  BY <1>1, KindsOfTokens
<1> QED
  BY <1>1, <1>2, LandingIs, LandingKeeps

LEMMA LandedKeeps ==
    ASSUME Core, up, NEW k \in Kinds \ {"gather"}, tasks[k] > 0,
           k \in TokenKinds => live[k] < tasks[k]
    PROVE  WorkTyped(Landed(k)) /\ WorkLess(Landed(k)) /\ Same(Landed(k))
<1> DEFINE t == [tasks EXCEPT ![k] = @ - 1]
<1>1. /\ tasks \in [Kinds -> Nat] /\ live \in [TokenKinds -> Nat]
      /\ \A j \in TokenKinds : live[j] <= tasks[j]
      /\ "gather" \in Kinds
  BY DEF Core, CoreTyped, Kinds, CifsKinds, ScheduledCifs
<1>2. t \in [Kinds -> Nat] /\ t["gather"] = tasks["gather"] /\ t[k] = tasks[k] - 1
      /\ \A j \in Kinds : j # k => t[j] = tasks[j]
  BY <1>1
<1> HIDE DEF t
<1>3. /\ \A j \in TokenKinds : live[j] <= t[j]
      /\ \A j \in ScheduledCifs : t[j] <= tasks[j]
  BY <1>1, <1>2, KindsOfTokens
<1>4. Landed(k) = Landing(t, live, calls)
  BY LandingIs DEF t
<1> QED
  BY <1>1, <1>2, <1>3, <1>4, LandingKeeps

LEMMA LandedLiveKeeps ==
    ASSUME Core, up, NEW k \in TokenKinds, live[k] > 0
    PROVE  /\ WorkTyped(LandedLive(k)) /\ WorkLess(LandedLive(k))
           /\ k # "inspect" => Same(LandedLive(k))
<1> DEFINE t == [tasks EXCEPT ![k] = @ - 1]
           l == [live EXCEPT ![k] = @ - 1]
<1>1. /\ tasks \in [Kinds -> Nat] /\ live \in [TokenKinds -> Nat]
      /\ \A j \in TokenKinds : live[j] <= tasks[j]
      /\ k \in Kinds /\ k # "gather" /\ "gather" \in Kinds /\ "inspect" \in TokenKinds
  BY KindsOfTokens DEF Core, CoreTyped, Kinds, CifsKinds, ScheduledCifs, TokenKinds
<1>2. /\ t \in [Kinds -> Nat] /\ t["gather"] = tasks["gather"] /\ t[k] = tasks[k] - 1
      /\ \A j \in Kinds : j # k => t[j] = tasks[j]
  BY <1>1
<1>3. /\ l \in [TokenKinds -> Nat] /\ l[k] = live[k] - 1
      /\ \A j \in TokenKinds : j # k => l[j] = live[j]
  BY <1>1
<1> HIDE DEF t, l
<1>4. /\ \A j \in TokenKinds : l[j] <= t[j]
      /\ \A j \in ScheduledCifs : t[j] <= tasks[j]
      /\ k # "inspect" => l["inspect"] = live["inspect"]
  BY <1>1, <1>2, <1>3, KindsOfTokens
<1>5. LandedLive(k) = Landing(t, l, calls)
  BY LandingIs DEF t, l
<1> QED
  BY <1>2, <1>3, <1>4, <1>5, LandingKeeps

LEMMA WithoutCallKeeps ==
    ASSUME Core, up, NEW c \in calls
    PROVE  /\ WorkTyped(WithoutCall(c)) /\ WorkLess(WithoutCall(c))
           /\ ~(c.owned /\ c.live) => Same(WithoutCall(c))
<1>1. /\ tasks \in [Kinds -> Nat] /\ live \in [TokenKinds -> Nat]
      /\ \A k \in TokenKinds : live[k] <= tasks[k]
  BY DEF Core, CoreTyped
<1>2. \A k \in ScheduledCifs : tasks[k] <= tasks[k]
  BY <1>1, KindsOfTokens
<1>3. ~(c.owned /\ c.live) => Current(calls \ {c}) = Current(calls)
  BY DEF Current
<1>4. calls \ {c} \subseteq calls /\ WithoutCall(c) = Landing(tasks, live, calls \ {c})
  BY LandingIs
<1> QED
  BY <1>1, <1>2, <1>3, <1>4, LandingKeeps

-----------------------------------------------------------------------------
(* The actions.                                                            *)

LEMMA CoreUnchanged ==
    ASSUME Core, UNCHANGED <<performed, bridge, overtaken>>
    PROVE  Core'
  BY DEF Core, CoreTyped, IoFollowsPhase, TransitionHasDriver, ForcedPassHasCarrier,
     DrainedWhileOff, Apart, OffStands, StaysOff, CurrentCalls, performed

\* A handler that performs one row for an event that is no answer of a helper.
PlainEvents == Events \ (OffAnswers \union {"DRAIN_COMPLETED"})

LEMMA PlainKeeps ==
    ASSUME ControllerAssumption, Core, up, UNCHANGED <<bridge, overtaken>>,
           NEW e \in PlainEvents, NEW w, WorkTyped(w), WorkLess(w),
           Same(w) \/ Reduce(model, e).valid,
           NEW begun, begun \subseteq Kinds \ ({"inspect"} \union ScheduledCifs)
    PROVE  /\ Perform(Reduce(model, e), w, begun) => Core'
           /\ \A c : Dispatch(e, w, begun, c) => Core'
<1>1. e \in Events /\ e # "DRAIN_COMPLETED" /\ e \notin OffAnswers /\ e # "POWER_OFF_SUCCEEDED"
  BY DEF PlainEvents, OffAnswers
<1>2. model.phase = "powered_off" => StaysOff(w.calls)
  BY DEF Core, OffStands, WorkLess, StaysOff
<1>3. Fits(model, Reduce(model, e)) /\ Legal(Reduce(model, e), w)
  BY <1>1, <1>2, RowFits, ReactLegal DEF Core, CoreTyped
<1>4. ASSUME Perform(Reduce(model, e), w, begun) PROVE Core'
  BY <1>3, <1>4, PerformKeeps
<1>5. ASSUME NEW c, Dispatch(e, w, begun, c) PROVE Core'
  BY <1>1, <1>5, DispatchKeeps
<1> QED
  BY <1>4, <1>5

LEMMA ProvisionRow ==
    ASSUME NEW m \in Model, NEW mode \in {"first-run", "reprovision"}
    PROVE  LET g == GoProvision(m, mode, EnterProvisioning)
           IN  g.model \in Model /\ g.model.phase = "provisioning" /\ g.effects = EnterProvisioning
<1> DEFINE x == [m EXCEPT !.mode = mode]
<1>1. x \in Model
  BY DEF Model
<1> HIDE DEF x
<1> DEFINE y == [x EXCEPT !.phase = "provisioning"]
           g == GoProvision(m, mode, EnterProvisioning)
<1>2. y \in Model /\ y.phase = "provisioning"
  BY <1>1 DEF Model, Phases
<1> HIDE DEF y
<1>3. g = [model |-> y, effects |-> EnterProvisioning, valid |-> TRUE]
  BY DEF GoProvision, Go, x, y
<1> HIDE DEF g
<1>4. g.model = y /\ g.effects = EnterProvisioning
  BY <1>3
<1> QED
  BY <1>2, <1>4 DEF g

\* The run that begins with the event that makes it possible.
LEMMA BeginKeeps ==
    ASSUME ControllerAssumption, Core, up, UNCHANGED <<bridge, overtaken>>,
           NEW first \in {"STARTUP_RESUME_PROVISIONING", "VM_CREATED"},
           NEW begin \in {"PROVISION_BEGIN_FIRST_RUN", "PROVISION_BEGIN_REPROVISION"},
           NEW w, WorkTyped(w), WorkLess(w), Same(w) \/ Reduce(model, first).valid,
           NEW begun, begun \subseteq Kinds \ ({"inspect"} \union ScheduledCifs),
           Perform(Then(Reduce(model, first), begin), w, begun)
    PROVE  Core'
<1> DEFINE r == Reduce(model, first)
           n == Reduce(r.model, begin)
           both == Then(r, begin)
<1>1. model \in Model /\ first \in Events /\ begin \in PlainEvents /\ begin \in Events
      /\ drain \in Nat
  BY DEF Core, CoreTyped, PlainEvents, OffAnswers, Events
<1>2. Fits(model, r)
  BY <1>1, RowFits
<1>3. both.model = n.model /\ both.effects = r.effects \union n.effects
      /\ both.valid = (r.valid \/ n.valid)
  BY DEF Then
<1>4. CASE ~r.valid
  <2>1. r.model = model /\ r.effects = {} /\ Same(w)
    BY <1>2, <1>4 DEF Fits
  <2>2. n = Reduce(model, begin)
    BY <2>1
  <2>3. Fits(model, n)
    BY <1>1, <2>2, RowFits
  <2> HIDE DEF r, n, both
  <2>4. both.model = n.model /\ both.effects = n.effects /\ (both.valid <=> n.valid)
    BY <1>3, <1>4, <2>1
  <2>5. Perform(both, w, begun)
    BY DEF both, r
  <2>6. Perform(n, w, begun)
    BY <2>4, <2>5 DEF Perform
  <2> QED
    BY <1>1, <2>1, <2>2, <2>6, PlainKeeps
<1>5. CASE r.valid
  <2>1. r.model \in Model /\ r.model.phase = "provisioning" /\ r.effects = EnterProvisioning
        /\ model.phase \in {"starting", "setup"}
    <3>1. CASE first = "STARTUP_RESUME_PROVISIONING"
      <4>1. model.phase = "starting"
        BY <1>1, <1>5, <3>1 DEF Reduce, Starting, Running, StartFailed, PoweredOff,
           ShuttingDown, Setup, Provisioning, TransitionUnknown, Invalid, Model, Phases
      <4>2. r = Go(model, "provisioning", EnterProvisioning)
        BY <3>1, <4>1 DEF Reduce, Starting
      <4> QED
        BY <1>1, <4>1, <4>2 DEF Go, Model, Phases
    <3>2. CASE first = "VM_CREATED"
      <4>1. model.phase = "setup"
        BY <1>1, <1>5, <3>2 DEF Reduce, Starting, Running, StartFailed, PoweredOff,
           ShuttingDown, Setup, Provisioning, TransitionUnknown, Invalid, Model, Phases
      <4>2. r = GoProvision(model, "first-run", EnterProvisioning)
        BY <3>2, <4>1 DEF Reduce, Setup, GoFirstRun
      <4> QED
        BY <1>1, <4>1, <4>2, ProvisionRow
    <3> QED
      BY <3>1, <3>2
  <2> DEFINE m == r.model
  <2>2. n.model \in Model /\ n.model.phase = "provisioning" /\ n.effects = EnterProvisioning
    <3>1. m \in Model /\ m.phase = "provisioning"
      BY <2>1
    <3> HIDE DEF m, r
    <3>2. n \in {GoProvision(m, "first-run", EnterProvisioning),
                 GoProvision(m, "reprovision", EnterProvisioning)}
      BY <3>1 DEF m, Reduce, Provisioning, GoFirstRun
    <3> HIDE DEF n
    <3> QED
      BY <3>1, <3>2, ProvisionRow
  <2>3. both.valid = TRUE
    BY <1>3, <1>5
  <2> HIDE DEF r, n, both
  <2>4. both.model \in Model /\ both.model.phase = "provisioning"
        /\ both.effects = EnterProvisioning
    BY <1>3, <2>1, <2>2
  <2>5. Fits(model, both)
    <3>1. Gated(model, both) /\ Driven(both) /\ both.effects \subseteq Effects
      BY <2>4 DEF Gated, Driven, Runs, EnterProvisioning, Effects, CifsEffects, NoCifsPhases
    <3> QED
      BY <2>3, <2>4, <3>1 DEF Fits
  <2>6. Legal(both, w)
    <3>1. drain = 0
      BY <1>1, <2>1 DEF Core, Apart
    <3> QED
      BY <2>4, <3>1 DEF Legal, EnterProvisioning
  <2>7. Perform(both, w, begun)
    BY DEF both, r
  <2> QED
    BY <2>3, <2>5, <2>6, <2>7, PerformKeeps
<1> QED
  BY <1>4, <1>5

LEMMA QuietStep ==
    ASSUME ControllerAssumption, Core, up, UNCHANGED <<bridge, overtaken>>,
           NEW w, WorkTyped(w), WorkLess(w), Same(w)
    PROVE  /\ Quietly(w, {}) => Core'
           /\ \A k \in Kinds \ {"inspect"} :
                 (k \in ScheduledCifs => model.phase = "running") /\ Quietly(w, {k}) => Core'
<1>1. ASSUME Quietly(w, {}) PROVE Core'
  BY <1>1, QuietKeeps DEF Quietly
<1>2. ASSUME NEW k \in Kinds \ {"inspect"}, k \in ScheduledCifs => model.phase = "running",
             Quietly(w, {k})
      PROVE  Core'
  <2>1. {k} \subseteq Kinds \ {"inspect"}
        /\ ({k} \intersect ScheduledCifs # {} => model.phase = "running")
    BY <1>2
  <2> QED
    BY <1>2, <2>1, QuietKeeps DEF Quietly
<1> QED
  BY <1>1, <1>2

\* What the gate, the timers and the kinds of work say of the phase.
LEMMA Gates ==
    ASSUME Core, up
    PROVE  /\ ~ioPaused => model.phase = "running"
           /\ polling => model.phase = "running"
           /\ model.phase \notin NoCifsPhases <=> model.phase = "running"
  BY DEF Core, CoreTyped, Model, IoFollowsPhase, NoCifsPhases, Phases

\* A task that holds no token lands.
LEMMA PlainLands ==
    ASSUME Core, up, NEW k \in Kinds \ (TokenKinds \union {"gather"}), tasks[k] > 0
    PROVE  WorkTyped(Landed(k)) /\ WorkLess(Landed(k)) /\ Same(Landed(k))
  BY LandedKeeps

LEMMA OperatorKeeps ==
    ASSUME ControllerAssumption, Core, Operator
    PROVE  Core'
<1> USE DEF Kinds, LocalKinds, CifsKinds, ScheduledCifs
<1>1. up => WorkTyped(InFlight) /\ WorkLess(InFlight) /\ Same(InFlight)
  BY InFlightKeeps
<1>2. /\ up /\ UNCHANGED <<bridge, overtaken>> /\ Quietly(InFlight, {}) => Core'
      /\ \A k \in Kinds \ {"inspect"} :
            /\ up /\ UNCHANGED <<bridge, overtaken>> /\ Quietly(InFlight, {k})
            /\ k \in ScheduledCifs => model.phase = "running"
            => Core'
  BY <1>1, QuietStep
<1>3. \A e \in PlainEvents : /\ up /\ UNCHANGED <<bridge, overtaken>>
                             /\ \E c : Dispatch(e, InFlight, {}, c)
                             => Core'
  BY <1>1, PlainKeeps
<1>4. CASE OperatorRefreshes
  <2>1. CASE tasks["gather"] > 0
    <3>1. UNCHANGED <<up, model, tasks, live, calls, polling, ioPaused, drain,
                      gatherFrom, seen, bridge, overtaken>> /\ forcePending' = TRUE
      BY <1>4, <2>1 DEF OperatorRefreshes, Refresh
    <3> QED
      BY <2>1, <3>1 DEF Core, CoreTyped, IoFollowsPhase, TransitionHasDriver,
         ForcedPassHasCarrier, DrainedWhileOff, Apart, OffStands, StaysOff, CurrentCalls
  <2>2. CASE ~(tasks["gather"] > 0)
    BY <1>2, <1>4, <2>2, Gates DEF OperatorRefreshes, Refresh
  <2> QED
    BY <2>1, <2>2
<1>5. CASE ReadBegins
  BY <1>2, <1>5, Gates DEF ReadBegins
<1>6. CASE AskApply \/ AskPowerOff \/ AskCreate \/ AskProvision \/ AskRecover
           \/ AskReprovision \/ AskNewRun
  BY <1>6, CoreUnchanged DEF AskApply, AskPowerOff, AskCreate, AskProvision, AskRecover,
     AskReprovision, AskNewRun, Ask
<1>7. CASE AskQuit
  <2>1. Ask("quit1") \/ Ask("quit3")
    BY <1>7 DEF AskQuit
  <2> QED
    BY <2>1, CoreUnchanged DEF Ask
<1>8. CASE RestoreBegins
  BY <1>2, <1>8 DEF RestoreBegins
<1>9. CASE WriteBegins
  BY <1>2, <1>9 DEF WriteBegins
<1>10. CASE Confirm
  BY <1>3, <1>10 DEF Confirm, Confirms, PlainEvents, Events, OffAnswers
<1>11. CASE StartRequested
  BY <1>3, <1>11 DEF StartRequested, PlainEvents, Events, OffAnswers
<1>12. CASE RetryRequested
  BY <1>3, <1>12 DEF RetryRequested, PlainEvents, Events, OffAnswers
<1>13. CASE Dismiss
  BY <1>13, CoreUnchanged DEF Dismiss
<1>14. CASE CheckBegins
  BY <1>2, <1>14 DEF CheckBegins
<1>15. CASE CreateBegins
  BY <1>2, <1>15 DEF CreateBegins
<1>16. CASE ConnectBegins
  BY <1>2, <1>16 DEF ConnectBegins
<1>17. CASE RunConfirmed
  <2>1. PICK answer \in Begins :
           BeginRun(Reduce(model, answer[2]), InFlight,
                    IF answer[1] = "newRun" /\ run # "none" THEN {"cleanup"} ELSE {})
    BY <1>17 DEF RunConfirmed
  <2> DEFINE swept == IF answer[1] = "newRun" /\ run # "none" THEN {"cleanup"} ELSE {}
             begun == swept \union {"prepare"}
  <2>2. begun \subseteq Kinds \ ({"inspect"} \union ScheduledCifs)
    OBVIOUS
  <2>3. answer[2] \in PlainEvents
    BY DEF Begins, PlainEvents, Events, OffAnswers
  <2>4. Perform(Reduce(model, answer[2]), InFlight, begun)
    BY <2>1 DEF BeginRun
  <2>5. up /\ UNCHANGED <<bridge, overtaken>>
    BY <1>17 DEF RunConfirmed
  <2> HIDE DEF begun
  <2> QED
    BY <1>1, <2>2, <2>3, <2>4, <2>5, PlainKeeps
<1>18. CASE Launch
  <2>1. /\ up' = TRUE /\ calls' = calls /\ bridge' = bridge /\ model' = FirstModel
        /\ tasks' = FirstTasks /\ live' = FirstLive /\ polling' = FALSE /\ ioPaused' = TRUE
        /\ forcePending' = FALSE /\ drain' = 0 /\ gatherFrom' = "before" /\ seen' = FALSE
        /\ ~up /\ overtaken' = FALSE
    BY <1>18 DEF Launch
  <2>2. /\ FirstTasks \in [Kinds -> Nat] /\ FirstLive \in [TokenKinds -> Nat]
        /\ (\A k \in TokenKinds : FirstLive[k] <= FirstTasks[k]) /\ FirstLive["inspect"] = 1
    BY DEF FirstTasks, FirstLive, NoTasks, NoneLive, TokenKinds
  <2>3. FirstModel \in Model /\ FirstModel.phase = "starting"
    BY DEF FirstModel, Model, Phases
  <2>4. CurrentCalls' = {} /\ Current(calls') = {}
    BY <2>1 DEF Core, Apart, CurrentCalls, Current
  <2>5. CoreTyped'
    <3>1. up' \in BOOLEAN /\ polling' \in BOOLEAN /\ ioPaused' \in BOOLEAN
          /\ forcePending' \in BOOLEAN /\ seen' \in BOOLEAN
      BY <2>1
    <3>2. drain' \in 0..DrainTicks /\ gatherFrom' \in {"now", "before"}
      BY <2>1 DEF ControllerAssumption
    <3>3. calls' \subseteq Call /\ bridge' \in {"on", "off", "partial"} /\ overtaken' \in BOOLEAN
      BY <2>1 DEF Core, CoreTyped
    <3>4. model' \in Model /\ tasks' \in [Kinds -> Nat] /\ live' \in [TokenKinds -> Nat]
          /\ \A k \in TokenKinds : live'[k] <= tasks'[k]
      BY <2>1, <2>2, <2>3
    <3> QED
      BY <3>1, <3>2, <3>3, <3>4 DEF CoreTyped
  <2>6. IoFollowsPhase' /\ ForcedPassHasCarrier' /\ TransitionHasDriver'
    BY <2>1, <2>2, <2>3, <2>4 DEF IoFollowsPhase, ForcedPassHasCarrier,
       TransitionHasDriver, NoCifsPhases, Phases
  <2>7. DrainedWhileOff' /\ OffStands'
    BY <2>1, <2>3, <2>4 DEF DrainedWhileOff, OffStands
  <2>8. Apart'
    BY <2>1, <2>2, <2>3 DEF Core, Apart
  <2> QED
    BY <2>5, <2>6, <2>7, <2>8 DEF Core
<1> QED
  BY <1>4, <1>5, <1>6, <1>7, <1>8, <1>9, <1>10, <1>11, <1>12, <1>13, <1>14, <1>15,
     <1>16, <1>17, <1>18 DEF Operator

\* A helper that is left behind, at work, drives nothing.
LEMMA OrphanedKeeps ==
    ASSUME Core, up, NEW c \in calls, c.owned, c.stage = "working"
    PROVE  LET w == [InFlight EXCEPT
                       !.calls = (@ \ {c}) \union {[c EXCEPT !.owned = FALSE, !.live = FALSE]}]
           IN  /\ WorkTyped(w) /\ WorkLess(w)
               /\ ~c.live => Same(w)
<1> USE DEF Core
<1> DEFINE i == InFlight
           o == Left(c)
           cs == (calls \ {c}) \union {o}
           w == [i EXCEPT !.calls = (@ \ {c}) \union {o}]
<1>1. c \in Call /\ i = [tasks |-> tasks, live |-> live, calls |-> calls]
  BY DEF CoreTyped, InFlight
<1>2. /\ o \in Call /\ o.live = FALSE /\ o.owned = FALSE /\ o.stage = "working"
      /\ o.want = c.want /\ o.before = c.before
  BY <1>1, StaleCall
<1> HIDE DEF i, o
<1>3. w = [tasks |-> tasks, live |-> live, calls |-> cs]
  BY <1>1
<1> HIDE DEF w
<1>4. cs \subseteq Call /\ IsFiniteSet(cs)
  <2>1. IsFiniteSet(calls \ {c}) /\ IsFiniteSet({o})
    BY FS_Subset, FS_Singleton DEF Apart
  <2>2. IsFiniteSet(cs)
    BY <2>1, FS_Union
  <2> QED
    BY <1>2, <2>2 DEF CoreTyped
<1>5. /\ OneWorking(cs) /\ (Harmless(calls) => Harmless(cs))
      /\ ~c.live => Current(cs) = Current(calls)
  BY <1>2 DEF Apart, OneWorking, Harmless, Current
<1>6. /\ tasks \in [Kinds -> Nat] /\ live \in [TokenKinds -> Nat]
      /\ \A k \in TokenKinds : live[k] <= tasks[k]
      /\ \A k \in ScheduledCifs : tasks[k] <= tasks[k]
  BY KindsOfTokens DEF CoreTyped
<1>7. \A d \in cs : d.owned => d \in calls
  BY <1>2
<1> HIDE DEF cs
<1>8. w.tasks = tasks /\ w.live = live /\ w.calls = cs
  BY <1>3
<1>9. WorkTyped(w)
  BY <1>3, <1>4, <1>6, <1>8 DEF WorkTyped
<1>10. WorkLess(w)
  BY <1>5, <1>6, <1>7, <1>8 DEF WorkLess
<1>11. ~c.live => Same(w)
  BY <1>5, <1>8 DEF Same
<1> QED
  BY <1>9, <1>10, <1>11 DEF w, i, o, Left

\* A current helper and the phase it drives.
LEMMA CurrentCall ==
    ASSUME Core, up, NEW c \in calls, c.owned, c.live
    PROVE  /\ c.want = "on" => model.phase = "starting"
           /\ c.want = "off" => model.phase = "shutting_down" /\ drain = 0
           /\ c.want \in {"on", "off"}
<1>1. c \in CurrentCalls /\ c \in Call
  BY DEF CurrentCalls, Core, CoreTyped
<1>2. TransitionHasDriver
  BY DEF Core
<1> QED
  BY <1>1, <1>2 DEF TransitionHasDriver, Call

\* Events every row of their phase answers.
LEMMA ValidRows ==
    ASSUME NEW e
    PROVE  /\ /\ model.phase = "starting"
              /\ e \in {"STARTUP_POWER_ON", "STARTUP_ALREADY_ON", "STARTUP_PROVISION_NEEDED",
                        "STARTUP_INSPECT_FAILED", "STARTUP_RESUME_PROVISIONING",
                        "POWER_ON_SUCCEEDED", "POWER_ON_FAILED", "PROVISION_CONNECT_FAILED",
                        "POWER_TRANSITION_UNKNOWN"}
              => Reduce(model, e).valid
           /\ /\ model.phase = "shutting_down"
              /\ e \in {"POWER_OFF_SUCCEEDED", "POWER_OFF_FAILED", "POWER_TRANSITION_UNKNOWN"}
              => Reduce(model, e).valid
  BY DEF Reduce, Starting, ShuttingDown, Go, GoUnknown

LEMMA CompletionKeeps ==
    ASSUME ControllerAssumption, Core, Completion
    PROVE  Core'
<1> USE DEF Kinds, LocalKinds, CifsKinds, ScheduledCifs, TokenKinds
\* a completion that dispatches nothing, and one that dispatches an event
<1>1. ASSUME up, UNCHANGED <<bridge, overtaken>>, NEW w, WorkTyped(w), WorkLess(w), Same(w)
      PROVE  /\ Quietly(w, {}) => Core'
             /\ \A k \in Kinds \ {"inspect"} :
                   (k \in ScheduledCifs => model.phase = "running") /\ Quietly(w, {k}) => Core'
  BY <1>1, QuietStep
<1>2. ASSUME up, UNCHANGED <<bridge, overtaken>>, NEW w, WorkTyped(w), WorkLess(w), NEW e \in PlainEvents,
             Same(w) \/ Reduce(model, e).valid,
             NEW begun \in {{}, {"cleanup"}}
      PROVE  /\ Perform(Reduce(model, e), w, begun) => Core'
             /\ \A c : Dispatch(e, w, begun, c) => Core'
  <2>1. begun \subseteq Kinds \ ({"inspect"} \union ScheduledCifs)
    OBVIOUS
  <2> QED
    BY <1>2, <2>1, PlainKeeps
<1>3. CASE InspectLands
  <2>1. PICK plan \in Plans : \E c : Dispatch(plan, LandedLive("inspect"), {}, c)
    BY <1>3 DEF InspectLands
  <2>2. up /\ UNCHANGED <<bridge, overtaken>> /\ live["inspect"] > 0
    BY <1>3 DEF InspectLands
  <2>3. plan \in PlainEvents /\ Reduce(model, plan).valid
    <3>1. model.phase = "starting"
      BY <2>2 DEF Core, Apart
    <3>2. plan \in {"STARTUP_POWER_ON", "STARTUP_ALREADY_ON", "STARTUP_PROVISION_NEEDED",
                    "STARTUP_INSPECT_FAILED"}
      BY DEF Plans
    <3> QED
      BY <3>1, <3>2, ValidRows DEF PlainEvents, Events, OffAnswers
  <2>4. WorkTyped(LandedLive("inspect")) /\ WorkLess(LandedLive("inspect"))
    BY <2>2, LandedLiveKeeps
  <2> QED
    BY <1>2, <2>1, <2>2, <2>3, <2>4
<1>4. CASE InspectResumes
  <2>1. up /\ UNCHANGED <<bridge, overtaken>> /\ live["inspect"] > 0
    BY <1>4 DEF InspectResumes
  <2>2. model.phase = "starting"
    BY <2>1 DEF Core, Apart
  <2>3. Reduce(model, "STARTUP_RESUME_PROVISIONING").valid
    BY <2>2, ValidRows
  <2>4. WorkTyped(LandedLive("inspect")) /\ WorkLess(LandedLive("inspect"))
    BY <2>1, LandedLiveKeeps
  <2>5. CASE Dispatch("STARTUP_RESUME_PROVISIONING", LandedLive("inspect"), {}, container)
    <3>1. "STARTUP_RESUME_PROVISIONING" \in PlainEvents
      BY DEF PlainEvents, Events, OffAnswers
    <3> QED
      BY <1>2, <2>1, <2>3, <2>4, <2>5, <3>1
  <2>6. ASSUME NEW begin \in {"PROVISION_BEGIN_FIRST_RUN", "PROVISION_BEGIN_REPROVISION"},
               NEW resumed \in {"poll", "prepare", "nothing"},
               Perform(Then(Reduce(model, "STARTUP_RESUME_PROVISIONING"), begin),
                       LandedLive("inspect"), {resumed} \ {"nothing"})
        PROVE  Core'
    <3> DEFINE begun == {resumed} \ {"nothing"}
    <3>1. begun \subseteq Kinds \ ({"inspect"} \union ScheduledCifs)
      OBVIOUS
    <3> HIDE DEF begun
    <3>2. Perform(Then(Reduce(model, "STARTUP_RESUME_PROVISIONING"), begin),
                  LandedLive("inspect"), begun)
      BY <2>6 DEF begun
    <3> QED
      BY <2>1, <2>3, <2>4, <3>1, <3>2, BeginKeeps
  <2> QED
    BY <1>4, <2>5, <2>6 DEF InspectResumes
<1>5. CASE StaleLands
  <2>1. PICK k \in TokenKinds \ {"connect"} : HasStale(k) /\ Quietly(Landed(k), {})
    BY <1>5 DEF StaleLands
  <2>2. k \in Kinds \ {"gather"} /\ tasks[k] > 0 /\ live[k] < tasks[k]
    BY <2>1 DEF HasStale, Core, CoreTyped
  <2> QED
    BY <1>1, <1>5, <2>1, <2>2, LandedKeeps DEF StaleLands
<1>6. CASE SnapshotIgnored
  <2>1. /\ tasks' = [tasks EXCEPT !["gather"] = 0] /\ gatherFrom' = "before"
        /\ forcePending' = FALSE
        /\ UNCHANGED <<up, model, live, calls, bridge, overtaken, polling, ioPaused, drain, seen>>
    BY <1>6 DEF SnapshotIgnored, DropGather
  <2>2. /\ tasks' \in [Kinds -> Nat]
        /\ \A k \in Kinds : tasks'[k] = 0 \/ tasks'[k] = tasks[k]
        /\ \A k \in TokenKinds : tasks'[k] = tasks[k]
    BY <2>1 DEF Core, CoreTyped
  <2>3. CoreTyped'
    BY <2>1, <2>2 DEF Core, CoreTyped
  <2>4. IoFollowsPhase' /\ TransitionHasDriver' /\ ForcedPassHasCarrier'
    BY <2>1 DEF Core, IoFollowsPhase, TransitionHasDriver, ForcedPassHasCarrier, CurrentCalls
  <2>5. DrainedWhileOff'
    BY <2>1, <2>2 DEF Core, DrainedWhileOff, CurrentCalls
  <2>6. Apart' /\ OffStands'
    BY <2>1 DEF Core, Apart, OffStands, StaysOff
  <2> QED
    BY <2>3, <2>4, <2>5, <2>6 DEF Core
<1>7. CASE SnapshotApplied
  <2>1. /\ up /\ forcePending' = FALSE
        /\ UNCHANGED <<up, model, live, calls, bridge, overtaken, polling, ioPaused, drain>>
        /\ gatherFrom' = (IF forcePending THEN "now" ELSE "before")
        /\ seen' = (seen \/ gatherFrom = "now")
    BY <1>7 DEF SnapshotApplied
  <2>2. PICK green \in BOOLEAN :
           tasks' = [tasks EXCEPT
                        !["gather"] = IF forcePending THEN 1 ELSE 0,
                        !["classify"] = IF green \/ @ > 0 THEN @ ELSE 1]
    BY <1>7 DEF SnapshotApplied
  <2>3. /\ tasks' \in [Kinds -> Nat]
        /\ \A k \in TokenKinds : tasks'[k] = tasks[k]
    BY <2>2 DEF Core, CoreTyped
  <2>4. seen' \in BOOLEAN /\ gatherFrom' \in {"now", "before"}
    BY <2>1
  <2>5. CoreTyped'
    BY <2>1, <2>3, <2>4 DEF Core, CoreTyped
  <2>6. IoFollowsPhase' /\ TransitionHasDriver' /\ ForcedPassHasCarrier'
    BY <2>1 DEF Core, IoFollowsPhase, TransitionHasDriver, ForcedPassHasCarrier, CurrentCalls
  <2>7. DrainedWhileOff'
    <3>1. model.phase = "running"
      BY <1>7, <2>1, Gates DEF SnapshotApplied
    <3>2. CurrentCalls = {}
      BY <2>1, <3>1 DEF Core, TransitionHasDriver
    <3> QED
      BY <2>1, <3>2 DEF DrainedWhileOff, CurrentCalls
  <2>8. Apart' /\ OffStands'
    BY <2>1 DEF Core, Apart, OffStands, StaysOff
  <2> QED
    BY <2>5, <2>6, <2>7, <2>8 DEF Core
<1>8. CASE ClassifyLands
  BY <1>1, <1>8, PlainLands DEF ClassifyLands
<1>9. CASE CycleLands
  BY <1>1, <1>9, PlainLands, Gates DEF CycleLands
<1>10. CASE ReadLands
  BY <1>1, <1>10, PlainLands DEF ReadLands
<1>11. CASE RestoreLands
  BY <1>1, <1>11, PlainLands DEF RestoreLands
<1>12. CASE WriteLands
  BY <1>1, <1>12, PlainLands, Gates DEF WriteLands
<1>13. CASE CheckLands
  BY <1>1, <1>13, PlainLands DEF CheckLands
<1>14. CASE ConnectLands
  <2> DEFINE w == IF live["connect"] > 0 THEN LandedLive("connect") ELSE Landed("connect")
  <2>1. up /\ UNCHANGED <<bridge, overtaken>> /\ tasks["connect"] > 0
    BY <1>14 DEF ConnectLands
  <2>2. WorkTyped(w) /\ WorkLess(w) /\ Same(w)
    <3>1. CASE live["connect"] > 0
      BY <2>1, <3>1, LandedLiveKeeps
    <3>2. CASE ~(live["connect"] > 0)
      <4>1. live["connect"] < tasks["connect"]
        BY <2>1, <3>2 DEF Core, CoreTyped
      <4> QED
        BY <2>1, <3>2, <4>1, LandedKeeps
    <3> QED
      BY <3>1, <3>2
  <2>3. ConnectDispatches(w) \/ Quietly(w, {})
    BY <1>14 DEF ConnectLands
  <2> HIDE DEF w
  <2>4. "CONNECT_READY" \in PlainEvents
    BY DEF PlainEvents, Events, OffAnswers
  <2> QED
    BY <1>1, <1>2, <2>1, <2>2, <2>3, <2>4 DEF ConnectDispatches
<1>15. CASE CreateLands
  <2>1. up /\ UNCHANGED <<bridge, overtaken>> /\ tasks["create"] > 0
    BY <1>15 DEF CreateLands
  <2>2. WorkTyped(Landed("create")) /\ WorkLess(Landed("create")) /\ Same(Landed("create"))
    BY <2>1, PlainLands
  <2>3. CASE BeginRun(Then(Reduce(model, "VM_CREATED"), "PROVISION_BEGIN_FIRST_RUN"),
                      Landed("create"), {})
    <3>1. Perform(Then(Reduce(model, "VM_CREATED"), "PROVISION_BEGIN_FIRST_RUN"),
                  Landed("create"), {"prepare"})
      <4>1. {} \union {"prepare"} = {"prepare"}
        OBVIOUS
      <4> QED
        BY <2>3, <4>1 DEF BeginRun
    <3>2. {"prepare"} \subseteq Kinds \ ({"inspect"} \union ScheduledCifs)
      OBVIOUS
    <3> QED
      BY <2>1, <2>2, <3>1, <3>2, BeginKeeps
  <2>4. CASE Quietly(Landed("create"), {})
    BY <1>1, <2>1, <2>2, <2>4
  <2> QED
    BY <1>15, <2>3, <2>4 DEF CreateLands
<1>16. CASE CleanupLands
  BY <1>1, <1>16, PlainLands DEF CleanupLands
<1>17. CASE PrepareLands
  <2> DEFINE w == LandedLive("prepare")
  <2>1. up /\ UNCHANGED <<bridge, overtaken>> /\ live["prepare"] > 0
    BY <1>17 DEF PrepareLands
  <2>2. WorkTyped(w) /\ WorkLess(w) /\ Same(w)
    BY <2>1, LandedLiveKeeps
  <2>3. \/ Quietly(w, {}) \/ Quietly(w, {"poll"})
        \/ Dispatch("PROVISION_FAILED", w, {}, container)
    BY <1>17 DEF PrepareLands
  <2> HIDE DEF w
  <2>4. "PROVISION_FAILED" \in PlainEvents
    BY DEF PlainEvents, Events, OffAnswers
  <2> QED
    BY <1>1, <1>2, <2>1, <2>2, <2>3, <2>4
<1>18. CASE PollLands
  <2> DEFINE w == LandedLive("poll")
  <2>1. up /\ UNCHANGED <<bridge, overtaken>> /\ live["poll"] > 0
    BY <1>18 DEF PollLands
  <2>2. WorkTyped(w) /\ WorkLess(w) /\ Same(w)
    BY <2>1, LandedLiveKeeps
  <2>3. \/ Quietly(w, {})
        \/ Dispatch("PROVISION_FAILED", w, {"cleanup"}, container)
        \/ Perform(Reduce(model, "PROVISION_SUCCEEDED"), w, {"cleanup"})
    BY <1>18 DEF PollLands
  <2> HIDE DEF w
  <2>4. "PROVISION_FAILED" \in PlainEvents /\ "PROVISION_SUCCEEDED" \in PlainEvents
    BY DEF PlainEvents, Events, OffAnswers
  <2> QED
    BY <1>1, <1>2, <2>1, <2>2, <2>3, <2>4
<1>19. CASE OnResult
  <2>1. PICK c \in calls :
           /\ c.owned /\ c.live /\ c.want = "on"
           /\ \E e \in OnEvents(c) : Dispatch(e, WithoutCall(c), {}, container)
    BY <1>19 DEF OnResult
  <2>2. up /\ UNCHANGED <<bridge, overtaken>>
    BY <1>19 DEF OnResult
  <2>3. PICK e \in OnEvents(c) : Dispatch(e, WithoutCall(c), {}, container)
    BY <2>1
  <2>4. e \in {"POWER_ON_SUCCEEDED", "POWER_ON_FAILED", "PROVISION_CONNECT_FAILED"}
    BY DEF OnEvents
  <2>5. model.phase = "starting"
    BY <2>1, <2>2, CurrentCall
  <2>6. e \in PlainEvents /\ Reduce(model, e).valid
    BY <2>4, <2>5, ValidRows DEF PlainEvents, Events, OffAnswers
  <2>7. WorkTyped(WithoutCall(c)) /\ WorkLess(WithoutCall(c))
    BY <2>2, WithoutCallKeeps
  <2> QED
    BY <1>2, <2>2, <2>3, <2>6, <2>7
<1>20. CASE OffResult
  <2>1. PICK c \in calls :
           /\ c.owned /\ c.live /\ c.want = "off" /\ c.stage = "answered"
           /\ Dispatch(OffEvent(c), WithoutCall(c), {}, container)
    BY <1>20 DEF OffResult
  <2>2. up /\ UNCHANGED <<bridge, overtaken>>
    BY <1>20 DEF OffResult
  <2>3. model.phase = "shutting_down" /\ drain = 0
    BY <2>1, <2>2, CurrentCall
  <2>4. OffEvent(c) \in OffAnswers /\ OffEvent(c) \in Events
        /\ (OffEvent(c) = "POWER_OFF_SUCCEEDED" => c.answer = "ok")
    BY DEF OffEvent, OffAnswers, Events
  <2>5. Reduce(model, OffEvent(c)).valid
    BY <2>3, <2>4, ValidRows DEF OffAnswers
  <2>6. WorkTyped(WithoutCall(c)) /\ WorkLess(WithoutCall(c))
    BY <2>2, WithoutCallKeeps
  <2>7. ASSUME c.answer = "ok"
        PROVE  StaysOff(WithoutCall(c).calls) /\ (overtaken \/ Harmless(calls))
    <3>1. StaysOff(calls \ {c})
      BY <2>1, <2>7 DEF Core, OffStands, Current
    <3>2. overtaken \/ Harmless(calls)
      BY <2>1, <3>1 DEF StaysOff, Harmless
    <3>3. WithoutCall(c).calls = calls \ {c}
      BY LandingIs DEF Landing
    <3> QED
      BY <3>1, <3>2, <3>3
  <2>8. OffEvent(c) # "DRAIN_COMPLETED"
    BY DEF OffEvent
  <2> HIDE DEF Kinds, LocalKinds, CifsKinds, ScheduledCifs, TokenKinds
  <2> QED
    BY <2>1, <2>2, <2>3, <2>4, <2>5, <2>6, <2>7, <2>8, DispatchKeeps
<1>21. CASE StaleResult
  BY <1>1, <1>21, WithoutCallKeeps DEF StaleResult
<1> QED
  BY <1>3, <1>4, <1>5, <1>6, <1>7, <1>8, <1>9, <1>10, <1>11, <1>12, <1>13, <1>14, <1>15,
     <1>16, <1>17, <1>18, <1>19, <1>20, <1>21 DEF Completion

\* A helper moves on: what it was asked and whose it is stays.
LEMMA BecomesKeeps ==
    ASSUME Core, NEW c \in calls, NEW d \in Call,
           d.owned = c.owned, d.live = c.live, d.want = c.want,
           Becomes(c, d), UNCHANGED Beyond
    PROVE  /\ calls' \subseteq Call /\ IsFiniteSet(calls')
           /\ IoFollowsPhase' /\ TransitionHasDriver' /\ ForcedPassHasCarrier'
           /\ DrainedWhileOff'
           /\ ~up => \A b \in calls' : ~b.owned
           /\ c \notin Current(calls) => Current(calls') \subseteq Current(calls)
           /\ c \in Current(calls) => d \in Current(calls') /\ Current(calls') \subseteq
                                         (Current(calls) \ {c}) \union {d}
<1> USE DEF Core
<1>1. calls' = (calls \ {c}) \union {d}
  BY DEF Becomes
<1>2. calls' \subseteq Call /\ IsFiniteSet(calls')
  <2>1. IsFiniteSet(calls \ {c}) /\ IsFiniteSet({d})
    BY FS_Subset, FS_Singleton DEF Apart
  <2> QED
    BY <1>1, <2>1, FS_Union DEF CoreTyped
<1>3. IoFollowsPhase' /\ ForcedPassHasCarrier'
  BY DEF Beyond, IoFollowsPhase, ForcedPassHasCarrier
<1>4. CASE c.owned /\ c.live
  <2>1. /\ CurrentCalls' = (CurrentCalls \ {c}) \union {d}
        /\ c \in CurrentCalls /\ d \in calls'
    BY <1>1, <1>4 DEF CurrentCalls
  <2>2. TransitionHasDriver'
    <3>1. CurrentCalls # {}
      BY <2>1
    <3>2. \A b : CurrentCalls = {b} => b = c /\ CurrentCalls' = {d}
      BY <2>1
    <3> QED
      BY <2>1, <3>1, <3>2 DEF TransitionHasDriver, Beyond
  <2>3. DrainedWhileOff'
    <3> SUFFICES ASSUME NEW b \in CurrentCalls', b.want = "off"
                 PROVE  /\ \A k \in ScheduledCifs : tasks'[k] = 0
                        /\ \A a \in calls' : a.owned => a = b
      BY DEF DrainedWhileOff
    <3>1. PICK x \in CurrentCalls : x.want = "off" /\ (x = b \/ (x = c /\ b = d))
      BY <2>1
    <3>2. (\A k \in ScheduledCifs : tasks[k] = 0) /\ \A a \in calls : a.owned => a = x
      BY <3>1 DEF DrainedWhileOff
    <3>3. x = c
      BY <1>4, <3>2
    <3>4. \A a \in calls' : a.owned => a = d
      BY <1>1, <3>2, <3>3
    <3>5. b = d
      BY <2>1, <3>2, <3>3, <3>4 DEF CurrentCalls
    <3> QED
      BY <3>2, <3>4, <3>5 DEF Beyond
  <2> QED
    BY <1>1, <1>2, <1>3, <1>4, <2>2, <2>3 DEF Apart, Current, Beyond
<1>5. CASE ~(c.owned /\ c.live)
  <2>1. CurrentCalls' = CurrentCalls /\ CurrentCalls \subseteq calls'
    BY <1>1, <1>5 DEF CurrentCalls
  <2>2. TransitionHasDriver'
    BY <2>1 DEF TransitionHasDriver, Beyond
  <2>3. DrainedWhileOff'
    BY <1>1, <1>5, <2>1 DEF DrainedWhileOff, CurrentCalls, Beyond
  <2> QED
    BY <1>1, <1>2, <1>3, <1>5, <2>2, <2>3 DEF Apart, Current, Beyond
<1> QED
  BY <1>4, <1>5

LEMMA OrphanGone ==
    ASSUME Core, NEW c \in calls, ~c.owned, calls' = calls \ {c}, UNCHANGED Beyond
    PROVE  /\ calls' \subseteq Call /\ IsFiniteSet(calls')
           /\ IoFollowsPhase' /\ TransitionHasDriver' /\ ForcedPassHasCarrier'
           /\ DrainedWhileOff' /\ Apart'
           /\ Current(calls') = Current(calls)
<1> USE DEF Core
<1>1. calls' \subseteq Call /\ IsFiniteSet(calls')
  BY FS_Subset DEF CoreTyped, Apart
<1>2. CurrentCalls' = CurrentCalls /\ Current(calls') = Current(calls)
      /\ CurrentCalls \subseteq calls'
  BY DEF CurrentCalls, Current
<1>3. IoFollowsPhase' /\ ForcedPassHasCarrier'
  BY DEF Beyond, IoFollowsPhase, ForcedPassHasCarrier
<1>4. TransitionHasDriver'
  BY <1>2 DEF Beyond, TransitionHasDriver
<1>5. DrainedWhileOff'
  BY <1>2 DEF Beyond, DrainedWhileOff
<1>6. Apart'
  BY <1>1 DEF Beyond, Apart, OneWorking
<1> QED
  BY <1>1, <1>2, <1>3, <1>4, <1>5, <1>6

\* A helper ends.  Only one that has had the lock has made the bridge what it was
\* asked to, and one that finds an off bridge off leaves it.
LEMMA AnsweredKeeps ==
    ASSUME Core, NEW c \in calls, c.stage # "answered",
           NEW answer \in {"ok", "broken", "unserved"}, Answers(c, answer),
           UNCHANGED <<overtaken, Beyond>>, bridge' \in {"on", "off", "partial"},
           answer = "ok" => c.stage = "working" /\ bridge' = c.want,
           bridge = "off" /\ Harmless({c}) => bridge' = "off"
    PROVE  Core'
<1> USE DEF Core
<1>1. UNCHANGED Beyond /\ overtaken' = overtaken
  OBVIOUS
<1>2. ASSUME calls' \subseteq Call PROVE CoreTyped'
  BY <1>1, <1>2 DEF CoreTyped, Beyond
<1>3. CASE c.owned
  <2> DEFINE d == [c EXCEPT !.stage = "answered", !.answer = answer, !.before = "partial"]
  <2>1. /\ d \in Call /\ d.stage = "answered" /\ d.answer = answer
        /\ d.owned = c.owned /\ d.live = c.live /\ d.want = c.want
    BY DEF CoreTyped, Call, AnswerCodes
  <2>2. Becomes(c, d)
    BY <1>3 DEF Answers
  <2> HIDE DEF d
  <2>3. /\ calls' \subseteq Call /\ IsFiniteSet(calls')
        /\ IoFollowsPhase' /\ TransitionHasDriver' /\ ForcedPassHasCarrier' /\ DrainedWhileOff'
        /\ ~up => \A b \in calls' : ~b.owned
        /\ Current(calls') \subseteq Current(calls) \union {d}
    BY <1>1, <2>1, <2>2, BecomesKeeps
  <2>4. calls' = (calls \ {c}) \union {d}
    BY <2>2 DEF Becomes
  <2>5. Apart'
    <3>1. OneWorking(calls')
      BY <2>1, <2>4 DEF Apart, OneWorking
    <3> QED
      BY <1>1, <2>3, <3>1 DEF Apart, Beyond
  <2>6. model'.phase # "powered_off"
    BY <1>1, <1>3 DEF OffStands, StaysOff, Beyond
  <2>7. ASSUME NEW e \in Current(calls'), e.want = "off", e.stage = "answered", e.answer = "ok"
        PROVE  StaysOff(calls \ {e})'
    <3>1. e = d
      <4>1. e \in Current(calls) => StaysOff(calls \ {e}) /\ c # e
        BY <2>7 DEF OffStands
      <4>2. e \notin Current(calls)
        BY <1>3, <4>1 DEF StaysOff
      <4> QED
        BY <2>3, <4>2
    <3>2. bridge' = "off" /\ c.stage = "working"
      BY <2>1, <2>7, <3>1
    <3>3. \A b \in calls' \ {d} : b.stage # "working"
      BY <2>4, <3>2 DEF Apart, OneWorking
    <3>4. d \in CurrentCalls' /\ d.want = "off"
      BY <2>7, <3>1 DEF Current, CurrentCalls
    <3>5. \A b \in calls' \ {d} : ~b.owned
      BY <2>3, <3>4 DEF DrainedWhileOff
    <3>6. Harmless(calls' \ {d})
      BY <3>3 DEF Harmless
    <3> QED
      BY <3>1, <3>2, <3>5, <3>6 DEF StaysOff, Harmless
  <2>8. OffStands'
    BY <2>6, <2>7 DEF OffStands
  <2> QED
    BY <1>2, <2>3, <2>5, <2>8
<1>4. CASE ~c.owned
  <2>1. calls' = calls \ {c}
    BY <1>4 DEF Answers
  <2>2. /\ calls' \subseteq Call /\ Apart'
        /\ IoFollowsPhase' /\ TransitionHasDriver' /\ ForcedPassHasCarrier' /\ DrainedWhileOff'
        /\ Current(calls') = Current(calls)
    BY <1>1, <1>4, <2>1, OrphanGone
  <2>3. ASSUME NEW cs, c \in cs, StaysOff(cs)
        PROVE  /\ \A b \in cs \ {c} : ~b.owned
               /\ overtaken' \/ (bridge' = "off" /\ Harmless(cs \ {c}))
    <3>1. \A b \in cs \ {c} : ~b.owned
      BY <2>3 DEF StaysOff
    <3>2. Harmless(cs) => Harmless({c}) /\ Harmless(cs \ {c})
      BY <2>3 DEF Harmless
    <3>3. overtaken \/ (bridge = "off" /\ Harmless(cs))
      BY <2>3 DEF StaysOff
    <3> QED
      BY <1>1, <3>1, <3>2, <3>3
  <2>4. model'.phase = "powered_off" => StaysOff(calls)'
    BY <1>1, <2>1, <2>3 DEF OffStands, StaysOff, Beyond
  <2>5. ASSUME NEW e \in Current(calls'), e.want = "off", e.stage = "answered", e.answer = "ok"
        PROVE  StaysOff(calls \ {e})'
    <3>1. c \in calls \ {e} /\ StaysOff(calls \ {e})
      BY <2>2, <2>5 DEF OffStands
    <3>2. calls' \ {e} = (calls \ {e}) \ {c}
      BY <2>1
    <3> QED
      BY <2>3, <3>1, <3>2 DEF StaysOff, Harmless
  <2>6. OffStands'
    BY <2>4, <2>5 DEF OffStands
  <2> QED
    BY <1>2, <2>2, <2>6
<1> QED
  BY <1>3, <1>4

LEMMA HelperKeeps ==
    ASSUME ControllerAssumption, Core, Helper
    PROVE  Core'
<1> USE DEF Core
<1>1. CASE HelperLocks
  <2> DEFINE locked(c) == [c EXCEPT !.stage = "working", !.before = bridge]
  <2>1. PICK c \in calls :
           /\ c.stage = "waiting"
           /\ \A d \in calls : d.stage # "working"
           /\ Becomes(c, locked(c))
           /\ bridge' = IF c.want = "off" /\ bridge = "off" THEN "off" ELSE "partial"
           /\ overtaken' = (~c.owned /\ (overtaken \/ c.want = "on"))
    BY <1>1 DEF HelperLocks
  <2>2. UNCHANGED Beyond
    BY <1>1 DEF HelperLocks
  <2> DEFINE d == locked(c)
  <2>3. /\ d \in Call /\ d.stage = "working" /\ d.before = bridge
        /\ d.owned = c.owned /\ d.live = c.live /\ d.want = c.want
    BY DEF CoreTyped, Call
  <2> HIDE DEF d, locked
  <2>4. Becomes(c, d)
    BY <2>1 DEF d
  <2>5. /\ calls' \subseteq Call /\ IsFiniteSet(calls')
        /\ IoFollowsPhase' /\ TransitionHasDriver' /\ ForcedPassHasCarrier' /\ DrainedWhileOff'
        /\ ~up => \A b \in calls' : ~b.owned
        /\ Current(calls') \subseteq Current(calls) \union {d}
    BY <2>2, <2>3, <2>4, BecomesKeeps
  <2>6. calls' = (calls \ {c}) \union {d}
    BY <2>4 DEF Becomes
  <2>7. CoreTyped'
    <3>1. bridge' \in {"on", "off", "partial"}
      BY <2>1
    <3>2. overtaken' \in BOOLEAN
      BY <2>1, Zenon
    <3> QED
      BY <2>2, <2>5, <3>1, <3>2 DEF CoreTyped, Beyond
  <2>8. Apart'
    <3>1. OneWorking(calls')
      BY <2>1, <2>6 DEF OneWorking
    <3> QED
      BY <2>2, <2>5, <3>1 DEF Apart, Beyond
  \* a helper that is not the app's gets the lock beside one that has answered
  <2>9. ASSUME NEW cs, cs \subseteq calls, c \in cs, StaysOff(cs)
        PROVE  /\ \A b \in (cs \ {c}) \union {d} : ~b.owned
               /\ overtaken' \/ (bridge' = "off" /\ Harmless((cs \ {c}) \union {d}))
    <3>1. ~c.owned /\ \A b \in (cs \ {c}) \union {d} : ~b.owned
      BY <2>3, <2>9 DEF StaysOff
    <3>2. CASE overtaken \/ c.want = "on"
      <4>1. overtaken'
        BY <2>1, <3>1, <3>2, Zenon
      <4> QED
        BY <3>1, <4>1
    <3>3. CASE ~(overtaken \/ c.want = "on")
      <4>1. bridge = "off" /\ c.want = "off"
        BY <2>9, <3>3 DEF StaysOff, CoreTyped, Call
      <4>2. bridge' = "off" /\ Harmless((cs \ {c}) \union {d})
        BY <2>1, <2>3, <2>9, <4>1 DEF Harmless
      <4> QED
        BY <3>1, <4>2
    <3> QED
      BY <3>2, <3>3
  <2>10. model'.phase = "powered_off" => StaysOff(calls)'
    BY <2>2, <2>6, <2>9 DEF OffStands, StaysOff, Beyond
  <2>11. ASSUME NEW e \in Current(calls'), e.want = "off", e.stage = "answered", e.answer = "ok"
         PROVE  StaysOff(calls \ {e})'
    <3>1. e \in Current(calls) /\ e # d /\ e # c
      BY <2>1, <2>3, <2>5, <2>11
    <3>2. StaysOff(calls \ {e}) /\ calls' \ {e} = ((calls \ {e}) \ {c}) \union {d}
      BY <2>6, <2>11, <3>1 DEF OffStands
    <3> QED
      BY <2>9, <3>1, <3>2 DEF StaysOff, Harmless
  <2>12. OffStands'
    BY <2>10, <2>11 DEF OffStands
  <2> QED
    BY <2>5, <2>7, <2>8, <2>12
<1>2. CASE HelperUnserved
  <2>1. PICK c \in calls : c.stage = "waiting" /\ Answers(c, "unserved")
    BY <1>2 DEF HelperUnserved
  <2>2. UNCHANGED <<overtaken, Beyond>> /\ bridge' = bridge
    BY <1>2 DEF HelperUnserved
  <2>3. bridge' \in {"on", "off", "partial"}
    BY <2>2 DEF CoreTyped
  <2> HIDE DEF Core
  <2> QED
    BY <2>1, <2>2, <2>3, AnsweredKeeps
<1>3. CASE HelperEnds
  <2>1. PICK c \in calls : \E r \in Results(c.want, c.before) :
           c.stage = "working" /\ bridge' = r.bridge /\ Answers(c, r.answer)
    BY <1>3 DEF HelperEnds
  <2>2. PICK r \in Results(c.want, c.before) :
           c.stage = "working" /\ bridge' = r.bridge /\ Answers(c, r.answer)
    BY <2>1
  <2>3. /\ r.answer \in {"ok", "broken"} /\ r.bridge \in {"on", "off", "partial"}
        /\ r.answer = "ok" => r.bridge = c.want
        /\ c.want = "off" /\ c.before = "off" => r.bridge = "off"
    BY DEF Results, States
  <2>4. bridge = "off" /\ Harmless({c}) => bridge' = "off"
    BY <2>2, <2>3 DEF Harmless
  <2>5. UNCHANGED <<overtaken, Beyond>>
    BY <1>3 DEF HelperEnds
  <2> HIDE DEF Core
  <2> QED
    BY <2>2, <2>3, <2>4, <2>5, AnsweredKeeps
<1> QED
  BY <1>1, <1>2, <1>3 DEF Helper

LEMMA TimerKeeps ==
    ASSUME ControllerAssumption, Core, Timer
    PROVE  Core'
<1> USE DEF Kinds, LocalKinds, CifsKinds, ScheduledCifs
<1>1. up => WorkTyped(InFlight) /\ WorkLess(InFlight) /\ Same(InFlight)
  BY InFlightKeeps
<1>2. \A k \in Kinds \ {"inspect"} :
         /\ up /\ UNCHANGED <<bridge, overtaken>> /\ Quietly(InFlight, {k})
         /\ k \in ScheduledCifs => model.phase = "running"
         => Core'
  BY <1>1, QuietStep
<1>3. CASE TimerRefreshes
  <2>1. ~(tasks["gather"] > 0) /\ Quietly(InFlight, {"gather"})
    BY <1>3 DEF TimerRefreshes, Refresh
  <2> QED
    BY <1>2, <1>3, <2>1, Gates DEF TimerRefreshes, Refresh
<1>4. CASE CycleBegins
  BY <1>2, <1>4, Gates DEF CycleBegins
<1>5. CASE DrainTick
  <2>1. up /\ drain > 0 /\ UNCHANGED <<bridge, overtaken>>
    BY <1>5 DEF DrainTick
  <2>2. CASE Dispatch("DRAIN_COMPLETED", InFlight, {}, container) /\ ~Active(InFlight)
    BY <1>1, <2>1, <2>2, DispatchKeeps DEF Events, OffAnswers
  <2>3. CASE Dispatch("DRAIN_TIMED_OUT", InFlight, {}, container)
    BY <1>1, <2>1, <2>3, DispatchKeeps DEF Events, OffAnswers
  <2>4. CASE /\ drain > 1 /\ drain' = TicksLeft
             /\ UNCHANGED <<up, model, tasks, live, calls, polling, ioPaused,
                            forcePending, gatherFrom, seen>>
    <3>1. drain' \in 0..DrainTicks /\ drain' > 0
      BY <2>4 DEF Core, CoreTyped, TicksLeft, ControllerAssumption
    <3>2. CoreTyped' /\ IoFollowsPhase' /\ ForcedPassHasCarrier' /\ DrainedWhileOff'
      BY <2>1, <2>4, <3>1 DEF Core, CoreTyped, IoFollowsPhase, ForcedPassHasCarrier,
         DrainedWhileOff, CurrentCalls
    <3>3. TransitionHasDriver' /\ Apart' /\ OffStands'
      BY <2>1, <2>4, <3>1 DEF Core, TransitionHasDriver, Apart, OffStands, StaysOff, CurrentCalls
    <3> QED
      BY <3>2, <3>3 DEF Core
  <2> QED
    BY <1>5, <2>2, <2>3, <2>4 DEF DrainTick
<1>6. CASE ProbeAgain
  <2>1. CASE Quietly(InFlight, {"prepare"})
    BY <1>2, <1>6, <2>1 DEF ProbeAgain
  <2>2. CASE UNCHANGED performed
    BY <1>6, <2>2, CoreUnchanged DEF ProbeAgain
  <2> QED
    BY <1>6, <2>1, <2>2 DEF ProbeAgain
<1>7. CASE PollTick
  <2>1. CASE Quietly(InFlight, {"poll"})
    BY <1>2, <1>7, <2>1 DEF PollTick
  <2>2. CASE UNCHANGED performed
    BY <1>7, <2>2, CoreUnchanged DEF PollTick
  <2> QED
    BY <1>7, <2>1, <2>2 DEF PollTick
<1>8. CASE CallTimesOut
  <2> DEFINE left(c) == [InFlight EXCEPT
                 !.calls = (@ \ {c}) \union {[c EXCEPT !.owned = FALSE, !.live = FALSE]}]
  <2>1. PICK c \in calls :
           /\ c.owned /\ c.stage = "working"
           /\ IF c.live
              THEN Dispatch("POWER_TRANSITION_UNKNOWN", left(c), {}, container)
              ELSE Quietly(left(c), {}) /\ UNCHANGED container
    BY <1>8 DEF CallTimesOut
  <2>2. up /\ UNCHANGED <<bridge, overtaken>>
    BY <1>8 DEF CallTimesOut
  <2> DEFINE w == left(c)
  <2>3. WorkTyped(w) /\ WorkLess(w) /\ (~c.live => Same(w))
    BY <2>1, <2>2, OrphanedKeeps
  <2> HIDE DEF w, left
  <2>4. CASE c.live
    <3>1. Dispatch("POWER_TRANSITION_UNKNOWN", w, {}, container)
      BY <2>1, <2>4 DEF w
    <3>2. model.phase \in {"starting", "shutting_down"}
      BY <2>1, <2>2, <2>4, CurrentCall
    <3>3. Reduce(model, "POWER_TRANSITION_UNKNOWN").valid
      BY <3>2, ValidRows
    <3>4. "POWER_TRANSITION_UNKNOWN" \in PlainEvents
      BY DEF PlainEvents, Events, OffAnswers
    <3> QED
      BY <2>2, <2>3, <3>1, <3>3, <3>4, PlainKeeps
  <2>5. CASE ~c.live
    <3>1. Quietly(w, {})
      BY <2>1, <2>5 DEF w
    <3> QED
      BY <2>2, <2>3, <2>5, <3>1, QuietStep
  <2> QED
    BY <2>4, <2>5
<1> QED
  BY <1>3, <1>4, <1>5, <1>6, <1>7, <1>8 DEF Timer

-----------------------------------------------------------------------------
(* The types of what the handlers settle themselves.                       *)

Containers == {"unknown", "running", "stopped", "absent", "error"}

LEMMA ContainerTyped ==
    ASSUME NEW E, NEW c \in Containers
    PROVE  ContainerAfter(E, c) \in Containers
  BY DEF ContainerAfter, Containers

LEMMA DispatchTyped ==
    ASSUME NEW e, NEW w, NEW begun, NEW c \in Containers, Dispatch(e, w, begun, c)
    PROVE  container' \in Containers
  BY ContainerTyped DEF Dispatch

LEMMA DialogsTyped ==
    ASSUME dialogs \in Seq(Questions)
    PROVE  /\ \A q \in Questions : Append(dialogs, q) \in Seq(Questions)
           /\ dialogs # <<>> => Closed \in Seq(Questions)
           /\ <<>> \in Seq(Questions)
<1>1. ASSUME dialogs # <<>> PROVE Closed \in Seq(Questions)
  BY <1>1, SubSeqProperties DEF Closed
<1> QED
  BY <1>1

\* What each request and completion does to the rest of the state.
LEMMA RestKept ==
    ASSUME RestTyped, UNCHANGED <<applyWriting, dialogs, provisioning>>, container' \in Containers
    PROVE  RestTyped'
  BY DEF RestTyped, provisioning, Containers

LEMMA OperatorTyped ==
    ASSUME CoreTyped, RestTyped, Operator
    PROVE  RestTyped'
<1>1. /\ container \in Containers /\ dialogs \in Seq(Questions)
      /\ \A q \in Questions : Append(dialogs, q) \in Seq(Questions)
      /\ dialogs # <<>> => Closed \in Seq(Questions)
      /\ <<>> \in Seq(Questions)
  BY DialogsTyped DEF RestTyped, Containers
<1>2. ASSUME UNCHANGED <<container, applyWriting, provisioning>>, dialogs' \in Seq(Questions)
      PROVE  RestTyped'
  BY <1>2 DEF RestTyped, provisioning
<1>3. CASE OperatorRefreshes \/ ReadBegins \/ RestoreBegins \/ CheckBegins \/ ConnectBegins
  BY <1>1, <1>3, RestKept DEF OperatorRefreshes, Refresh, ReadBegins, RestoreBegins,
     CheckBegins, ConnectBegins
<1>4. CASE \E q \in Questions : Ask(q)
  BY <1>1, <1>2, <1>4 DEF Ask
<1>5. CASE AskApply \/ AskPowerOff \/ AskCreate \/ AskProvision \/ AskRecover
           \/ AskReprovision \/ AskNewRun \/ AskQuit
  BY <1>4, <1>5 DEF AskApply, AskPowerOff, AskCreate, AskProvision, AskRecover,
     AskReprovision, AskNewRun, AskQuit, Questions
<1>6. CASE Dismiss
  BY <1>1, <1>2, <1>6 DEF Dismiss
<1>7. CASE CreateBegins
  BY <1>1, <1>2, <1>7 DEF CreateBegins, Asked
<1>8. CASE WriteBegins
  <2>1. dialogs' \in Seq(Questions) /\ applyWriting' = TRUE
        /\ UNCHANGED <<container, provisioning>>
    BY <1>1, <1>8 DEF WriteBegins, Asked
  <2> QED
    BY <2>1 DEF RestTyped, provisioning
<1>9. CASE Confirm
  <2>1. dialogs' \in Seq(Questions) /\ UNCHANGED <<applyWriting, provisioning>>
    BY <1>1, <1>9 DEF Confirm, Asked
  <2>2. container' \in Containers
    BY <1>1, <1>9, DispatchTyped DEF Confirm
  <2> QED
    BY <2>1, <2>2 DEF RestTyped, provisioning, Containers
<1>10. CASE StartRequested
  BY <1>1, <1>10, DispatchTyped, RestKept DEF StartRequested
<1>11. CASE RetryRequested
  BY <1>1, <1>11, DispatchTyped, RestKept DEF RetryRequested
<1>12. CASE RunConfirmed
  <2>1. dialogs' \in Seq(Questions) /\ applyWriting' = applyWriting
    BY <1>1, <1>12 DEF RunConfirmed, Asked
  <2>2. PICK answer \in Begins :
           BeginRun(Reduce(model, answer[2]), InFlight,
                    IF answer[1] = "newRun" /\ run # "none" THEN {"cleanup"} ELSE {})
    BY <1>12 DEF RunConfirmed
  <2>3. container' \in Containers /\ run' = "none" /\ probing' = FALSE /\ verifying' = FALSE
    BY <1>1, <2>2, ContainerTyped DEF BeginRun
  <2> QED
    BY <2>1, <2>3 DEF RestTyped, Containers
<1>13. CASE Launch
  <2>1. /\ container' = "unknown" /\ applyWriting' = FALSE /\ dialogs' = <<>>
        /\ run' = "none" /\ probing' = FALSE /\ verifying' = FALSE
    BY <1>13 DEF Launch
  <2> QED
    BY <1>1, <2>1 DEF RestTyped
<1> QED
  BY <1>3, <1>5, <1>6, <1>7, <1>8, <1>9, <1>10, <1>11, <1>12, <1>13 DEF Operator

LEMMA CompletionTyped ==
    ASSUME CoreTyped, RestTyped, Completion
    PROVE  RestTyped'
<1>1. /\ container \in Containers /\ dialogs \in Seq(Questions)
      /\ \A q \in Questions : Append(dialogs, q) \in Seq(Questions)
      /\ <<>> \in Seq(Questions)
      /\ applyWriting \in BOOLEAN /\ probing \in BOOLEAN /\ verifying \in BOOLEAN
      /\ run \in {"none", "held", "watching"}
  BY DialogsTyped DEF RestTyped, Containers
<1>2. CASE InspectLands
  <2>1. \E plan \in Plans, c \in Containers : Dispatch(plan, LandedLive("inspect"), {}, c)
    <3>1. \A plan : Classified(plan) \subseteq Containers
      BY DEF Classified, Containers
    <3> QED
      BY <1>2, <3>1 DEF InspectLands
  <2>3. container' \in Containers
    BY <2>1, DispatchTyped
  <2> QED
    BY <1>2, <2>3, RestKept DEF InspectLands
<1>3. CASE InspectResumes
  <2>1. UNCHANGED <<applyWriting, dialogs, probing, verifying>>
    BY <1>3 DEF InspectResumes
  <2>2. container' \in Containers
    BY <1>1, <1>3, DispatchTyped, ContainerTyped DEF InspectResumes
  <2>3. run' \in {"none", "held", "watching"}
    BY <1>1, <1>3 DEF InspectResumes
  <2> QED
    BY <1>1, <2>1, <2>2, <2>3 DEF RestTyped, Containers
<1>4. CASE StaleLands \/ SnapshotIgnored \/ CycleLands \/ ReadLands \/ CleanupLands
           \/ StaleResult
  BY <1>1, <1>4, RestKept DEF StaleLands, SnapshotIgnored, CycleLands, ReadLands,
     CleanupLands, StaleResult
<1>5. CASE SnapshotApplied
  <2>1. UNCHANGED <<applyWriting, dialogs, run, probing>>
    BY <1>5 DEF SnapshotApplied
  <2>2. PICK green \in BOOLEAN, known \in BOOLEAN :
           /\ container' = IF green THEN "running" ELSE container
           /\ verifying' = (verifying /\ ~known)
    BY <1>5 DEF SnapshotApplied
  <2>3. verifying' \in BOOLEAN
    BY <2>2
  <2>4. container' \in Containers
    BY <1>1, <2>2 DEF Containers
  <2> QED
    BY <1>1, <2>1, <2>3, <2>4 DEF RestTyped, Containers
<1>6. CASE ClassifyLands
  BY <1>6, RestKept DEF ClassifyLands, Containers
<1>7. CASE RestoreLands
  <2>1. UNCHANGED <<container, applyWriting, provisioning>> /\ dialogs' \in Seq(Questions)
    BY <1>1, <1>7 DEF RestoreLands, Questions
  <2> QED
    BY <2>1 DEF RestTyped, provisioning
<1>8. CASE WriteLands
  <2>1. applyWriting' = FALSE /\ UNCHANGED <<container, dialogs, provisioning>>
    BY <1>8 DEF WriteLands
  <2> QED
    BY <2>1 DEF RestTyped, provisioning
<1>9. CASE CheckLands
  BY <1>1, <1>9, RestKept DEF CheckLands, Containers
<1>10. CASE ConnectLands
  <2> DEFINE w == IF live["connect"] > 0 THEN LandedLive("connect") ELSE Landed("connect")
  <2>1. \/ ConnectDispatches(w)
        \/ container' \in {container, "running", "stopped", "absent", "error"}
    BY <1>10 DEF ConnectLands
  <2>2. container' \in Containers
    <3>1. CASE ConnectDispatches(w)
      <4>1. PICK c \in {"running", "stopped"} : Dispatch("CONNECT_READY", w, {}, c)
        BY <3>1 DEF ConnectDispatches
      <4>2. c \in Containers
        BY DEF Containers
      <4> QED
        BY <4>1, <4>2, DispatchTyped
    <3>2. CASE container' \in {container, "running", "stopped", "absent", "error"}
      BY <1>1, <3>2 DEF Containers
    <3> QED
      BY <2>1, <3>1, <3>2
  <2> QED
    BY <1>10, <2>2, RestKept DEF ConnectLands
<1>11. CASE CreateLands
  <2>1. UNCHANGED <<applyWriting, dialogs>>
    BY <1>11 DEF CreateLands
  <2>2. CASE BeginRun(Then(Reduce(model, "VM_CREATED"), "PROVISION_BEGIN_FIRST_RUN"),
                      Landed("create"), {})
    <3>1. container' \in Containers /\ run' = "none" /\ probing' = FALSE /\ verifying' = FALSE
      BY <1>1, <2>2, ContainerTyped DEF BeginRun
    <3> QED
      BY <1>1, <2>1, <3>1 DEF RestTyped, Containers
  <2>3. CASE UNCHANGED <<container, provisioning>>
    BY <1>1, <2>1, <2>3, RestKept
  <2> QED
    BY <1>11, <2>2, <2>3 DEF CreateLands
<1>12. CASE PrepareLands
  <2>1. UNCHANGED <<applyWriting, dialogs, verifying>>
    BY <1>12 DEF PrepareLands
  <2>2. container' \in Containers
    <3>1. \/ container' = container \/ container' \in {"running", "stopped"}
          \/ Dispatch("PROVISION_FAILED", LandedLive("prepare"), {}, container)
      BY <1>12 DEF PrepareLands
    <3> QED
      BY <1>1, <3>1, DispatchTyped DEF Containers
  <2>3. run' \in {"none", "held", "watching"} /\ probing' \in BOOLEAN
    <3>1. run' = "watching" \/ run' = run \/ run' \in {run, "held"}
      BY <1>12 DEF PrepareLands
    <3>2. probing' = probing \/ probing' = TRUE
      BY <1>12 DEF PrepareLands
    <3> QED
      BY <1>1, <3>1, <3>2
  <2> QED
    BY <1>1, <2>1, <2>2, <2>3 DEF RestTyped, Containers
<1>13. CASE PollLands
  <2>1. UNCHANGED <<applyWriting, dialogs>>
    BY <1>13 DEF PollLands
  <2>2. container' \in Containers
    <3>1. \/ container' = container
          \/ Dispatch("PROVISION_FAILED", LandedLive("poll"), {"cleanup"}, container)
          \/ container' = ContainerAfter(Reduce(model, "PROVISION_SUCCEEDED").effects, container)
      BY <1>13 DEF PollLands
    <3> QED
      BY <1>1, <3>1, DispatchTyped, ContainerTyped
  <2>3. run' \in {"none", "held", "watching"}
    BY <1>1, <1>13 DEF PollLands
  <2>4. verifying' \in BOOLEAN
    <3>1. verifying' = verifying \/ verifying' = (verifying \/ model.mode = "reprovision")
      BY <1>13 DEF PollLands
    <3> QED
      BY <1>1, <3>1
  <2>5. probing' \in BOOLEAN
    <3>1. probing' = probing \/ probing' = (probing /\ model'.phase = "provisioning")
      BY <1>13 DEF PollLands
    <3> QED
      BY <1>1, <3>1
  <2> QED
    BY <1>1, <2>1, <2>2, <2>3, <2>4, <2>5 DEF RestTyped, Containers
<1>14. CASE OnResult
  <2>1. PICK c \in calls : /\ \E e \in OnEvents(c) : Dispatch(e, WithoutCall(c), {}, container)
                           /\ run' = IF c.answer = "ok" THEN "none" ELSE run
                           /\ probing' = (probing /\ c.answer # "ok")
    BY <1>14 DEF OnResult
  <2>2. container' \in Containers
    BY <1>1, <2>1, DispatchTyped
  <2>3. run' \in {"none", "held", "watching"}
    BY <1>1, <2>1
  <2>4. probing' \in BOOLEAN
    BY <2>1
  <2>5. UNCHANGED <<applyWriting, dialogs, verifying>>
    BY <1>14 DEF OnResult
  <2> QED
    BY <1>1, <2>2, <2>3, <2>4, <2>5 DEF RestTyped, Containers
<1>15. CASE OffResult
  <2>1. container' \in Containers
    BY <1>1, <1>15, DispatchTyped DEF OffResult
  <2>2. dialogs' \in Seq(Questions) /\ UNCHANGED <<applyWriting, provisioning>>
    BY <1>1, <1>15 DEF OffResult
  <2> QED
    BY <2>1, <2>2 DEF RestTyped, provisioning, Containers
<1> QED
  BY <1>2, <1>3, <1>4, <1>5, <1>6, <1>7, <1>8, <1>9, <1>10, <1>11, <1>12, <1>13, <1>14,
     <1>15 DEF Completion

LEMMA TimerTyped ==
    ASSUME CoreTyped, RestTyped, Helper \/ Timer
    PROVE  RestTyped'
<1>1. container \in Containers /\ probing \in BOOLEAN /\ run \in {"none", "held", "watching"}
  BY DEF RestTyped, Containers
<1>2. CASE Helper
  BY <1>1, <1>2, RestKept DEF Helper, HelperLocks, HelperUnserved, HelperEnds, Answers,
     Beyond, provisioning
<1>3. CASE TimerRefreshes \/ CycleBegins
  BY <1>1, <1>3, RestKept DEF TimerRefreshes, Refresh, CycleBegins
<1>4. CASE DrainTick
  <2>1. container' \in Containers
    <3>1. \/ container' = container
          \/ \E e \in {"DRAIN_COMPLETED", "DRAIN_TIMED_OUT"} :
                Dispatch(e, InFlight, {}, container)
      BY <1>4 DEF DrainTick
    <3> QED
      BY <1>1, <3>1, DispatchTyped
  <2> QED
    BY <1>4, <2>1, RestKept DEF DrainTick
<1>5. CASE ProbeAgain
  <2>1. probing' = FALSE /\ UNCHANGED <<container, applyWriting, dialogs, run, verifying>>
    BY <1>5 DEF ProbeAgain
  <2> QED
    BY <2>1 DEF RestTyped
<1>6. CASE PollTick
  <2>1. UNCHANGED <<container, applyWriting, dialogs, probing, verifying>>
        /\ (run' = run \/ run' = "held")
    BY <1>6 DEF PollTick
  <2> QED
    BY <1>1, <2>1 DEF RestTyped
<1>7. CASE CallTimesOut
  <2>1. \/ container' = container
        \/ \E w : Dispatch("POWER_TRANSITION_UNKNOWN", w, {}, container)
    BY <1>7 DEF CallTimesOut
  <2>2. container' \in Containers
    BY <1>1, <2>1, DispatchTyped
  <2> QED
    BY <1>7, <2>2, RestKept DEF CallTimesOut
<1> QED
  BY <1>2, <1>3, <1>4, <1>5, <1>6, <1>7 DEF Timer

-----------------------------------------------------------------------------
(* The theorems.                                                           *)

LEMMA InitIInv ==
    ASSUME ControllerAssumption, Init
    PROVE  IInv
<1>1. /\ up = TRUE /\ calls = {} /\ bridge \in {"on", "off", "partial"} /\ model = FirstModel
      /\ tasks = FirstTasks /\ live = FirstLive /\ polling = FALSE /\ ioPaused = TRUE
      /\ forcePending = FALSE /\ drain = 0 /\ gatherFrom = "before" /\ seen = FALSE /\ overtaken = FALSE
  BY DEF Init, Fresh
<1>2. /\ FirstTasks \in [Kinds -> Nat] /\ FirstLive \in [TokenKinds -> Nat]
      /\ (\A k \in TokenKinds : FirstLive[k] <= FirstTasks[k]) /\ FirstLive["inspect"] = 1
  BY DEF FirstTasks, FirstLive, NoTasks, NoneLive, TokenKinds, Kinds, LocalKinds, CifsKinds,
     ScheduledCifs
<1>3. FirstModel \in Model /\ FirstModel.phase = "starting"
  BY DEF FirstModel, Model, Phases
<1>4. CoreTyped
  <2>1. up \in BOOLEAN /\ polling \in BOOLEAN /\ ioPaused \in BOOLEAN
        /\ forcePending \in BOOLEAN /\ seen \in BOOLEAN
    BY <1>1
  <2>2. drain \in 0..DrainTicks /\ gatherFrom \in {"now", "before"} /\ calls \subseteq Call
    BY <1>1 DEF ControllerAssumption
  <2>3. model \in Model /\ tasks \in [Kinds -> Nat] /\ live \in [TokenKinds -> Nat]
        /\ (\A k \in TokenKinds : live[k] <= tasks[k]) /\ bridge \in {"on", "off", "partial"}
        /\ overtaken \in BOOLEAN
    BY <1>1, <1>2, <1>3
  <2> QED
    BY <2>1, <2>2, <2>3 DEF CoreTyped
<1>5. CurrentCalls = {} /\ Current(calls) = {}
  BY <1>1 DEF CurrentCalls, Current
<1>6. IoFollowsPhase /\ TransitionHasDriver /\ ForcedPassHasCarrier
  BY <1>1, <1>2, <1>3, <1>5 DEF IoFollowsPhase, TransitionHasDriver, ForcedPassHasCarrier,
     NoCifsPhases, Phases
<1>7. DrainedWhileOff /\ OffStands
  BY <1>1, <1>3, <1>5 DEF DrainedWhileOff, OffStands
<1>8. Apart
  BY <1>1, <1>2, <1>3, FS_EmptySet DEF Apart, OneWorking
<1>9. RestTyped
  <2>1. dialogs = <<>> /\ <<>> \in Seq(Questions)
    BY DEF Init, Fresh
  <2>2. applyWriting = FALSE /\ probing = FALSE /\ verifying = FALSE
        /\ container = "unknown" /\ run = "none"
    BY DEF Init, Fresh
  <2> QED
    BY <2>1, <2>2 DEF RestTyped
<1> QED
  BY <1>4, <1>6, <1>7, <1>8, <1>9 DEF IInv, Core

\* Every step keeps the invariant, whichever handler, timer or helper takes it.
LEMMA NextIInv ==
    ASSUME ControllerAssumption, IInv, [Next]_vars
    PROVE  IInv'
<1>1. Core /\ RestTyped /\ CoreTyped
  BY DEF IInv, Core
<1>2. CASE UNCHANGED vars
  <2>1. Core'
    BY <1>1, <1>2, CoreUnchanged DEF vars, performed
  <2>2. RestTyped'
    BY <1>1, <1>2 DEF vars, RestTyped
  <2> QED
    BY <2>1, <2>2 DEF IInv
<1>3. CASE Operator
  BY <1>1, <1>3, OperatorKeeps, OperatorTyped DEF IInv
<1>4. CASE Completion
  BY <1>1, <1>4, CompletionKeeps, CompletionTyped DEF IInv
<1>5. CASE Helper
  BY <1>1, <1>5, HelperKeeps, TimerTyped DEF IInv
<1>6. CASE Timer
  BY <1>1, <1>6, TimerKeeps, TimerTyped DEF IInv
<1> QED
  BY <1>2, <1>3, <1>4, <1>5, <1>6 DEF Next

THEOREM ControllerInvariant == Spec => []IInv
<1>1. Init => IInv
  BY ControllerAssumption, InitIInv
<1>2. IInv /\ [Next]_vars => IInv'
  BY ControllerAssumption, NextIInv
<1> QED
  BY <1>1, <1>2, PTL DEF Spec

(* In every phase the app is served as the phase needs it, whatever lands, *)
(* times out or is asked in between: the timers and the gate fit the phase, *)
(* a phase without a way out has exactly one operation that will end it,   *)
(* and a forced refresh is not lost (__main__.py, _perform and _dispatch). *)
THEOREM PhaseServed == Spec => []PhaseIsServed
<1>1. IInv => PhaseIsServed
  BY DEF IInv, Core, CoreTyped, RestTyped, PhaseIsServed, TypeOK
<1> QED
  BY <1>1, ControllerInvariant, PTL

(* While the helper this app asked to power off is at work, nothing that a *)
(* timer or a button starts touches a mount and no other helper of this    *)
(* app runs (__main__.py, _drain_tick and _start_power_task).              *)
THEOREM DrainedForOff == Spec => []DrainedWhileOff
<1>1. IInv => DrainedWhileOff
  BY DEF IInv, Core
<1> QED
  BY <1>1, ControllerInvariant, PTL

(* The app says the bridge is powered off, and exits after powering off,   *)
(* only when it is, also when root processes of timed-out calls are still  *)
(* about, or helpers that earlier sessions left at work or waiting for the *)
(* lock, unless an `on` among these gets the lock behind this session's    *)
(* `off` (__main__.py, _on_power_off_result and main).                     *)
THEOREM OffIsTrue == Spec => []PoweredOffIsOff
<1>1. IInv => PoweredOffIsOff
  BY DEF IInv, Core, OffStands, StaysOff, PoweredOffIsOff
<1> QED
  BY <1>1, ControllerInvariant, PTL

-----------------------------------------------------------------------------
(* What the bridge is promised about workspace cycles.                     *)

\* While the app says "powered off" no cycle is in flight either.
Rested == model.phase = "powered_off" => tasks["cycle"] = 0

\* The work a handler was handed has the cycle that is in flight.
Spares(w) == \E t, l, cs : w = Landing(t, l, cs) /\ t["cycle"] = tasks["cycle"]

\* A handler that leaves cycles alone, or ends the app.
Spared ==
    \/ /\ tasks'["cycle"] = tasks["cycle"]
       /\ model'.phase = "powered_off" => model.phase = "powered_off" \/ tasks["cycle"] = 0
    \/ up' = FALSE /\ tasks'["cycle"] = 0

LEMMA WorkSpares ==
    ASSUME CoreTyped
    PROVE  /\ Spares(InFlight)
           /\ \A k \in Kinds \ {"cycle"} : Spares(Landed(k)) /\ Spares(LandedLive(k))
           /\ \A c : Spares(WithoutCall(c))
<1>1. Spares(InFlight) /\ \A c : Spares(WithoutCall(c))
  BY LandingIs DEF Spares
<1>2. ASSUME NEW k \in Kinds \ {"cycle"} PROVE Spares(Landed(k)) /\ Spares(LandedLive(k))
  <2> DEFINE t == [tasks EXCEPT ![k] = @ - 1]
  <2>1. t["cycle"] = tasks["cycle"]
    BY DEF CoreTyped, Kinds, CifsKinds, ScheduledCifs
  <2>2. /\ Landed(k) = Landing(t, live, calls)
        /\ LandedLive(k) = Landing(t, [live EXCEPT ![k] = @ - 1], calls)
    BY LandingIs
  <2> HIDE DEF t
  <2> QED
    BY <2>1, <2>2 DEF Spares
<1> QED
  BY <1>1, <1>2

\* The work without a helper that goes on by itself.
LEMMA OrphanSpares ==
    ASSUME NEW c, NEW o
    PROVE  Spares([InFlight EXCEPT !.calls = (@ \ {c}) \union {o}])
<1> DEFINE i == InFlight
           w == [i EXCEPT !.calls = (@ \ {c}) \union {o}]
<1>1. i = [tasks |-> tasks, live |-> live, calls |-> calls]
  BY DEF InFlight
<1> HIDE DEF i
<1>2. w = Landing(tasks, live, (calls \ {c}) \union {o})
  BY <1>1 DEF Landing
<1> QED
  BY <1>2 DEF Spares, i

LEMMA CarrySpares ==
    ASSUME CoreTyped, NEW w, Spares(w), NEW E, NEW begun, "cycle" \notin begun
    PROVE  /\ Carry(E, w, begun) => tasks'["cycle"] = tasks["cycle"]
           /\ Carry(E, ExpireToken(w), begun) => tasks'["cycle"] = tasks["cycle"]
<1>1. PICK t, l, cs : w = Landing(t, l, cs) /\ t["cycle"] = tasks["cycle"]
  BY DEF Spares
<1>2. w = [tasks |-> t, live |-> l, calls |-> cs]
  BY <1>1 DEF Landing
<1>3. w.tasks = t /\ ExpireToken(w).tasks = t
  BY <1>2 DEF ExpireToken
<1>4. tasks["cycle"] \in Nat /\ "cycle" \in Kinds
  BY DEF CoreTyped, Kinds, CifsKinds, ScheduledCifs
<1>5. ASSUME NEW v, v.tasks = t, Carry(E, v, begun)
      PROVE  tasks'["cycle"] = tasks["cycle"]
  <2>1. "cycle" \notin begun \union BegunByEffects(E, v)
    BY DEF BegunByEffects
  <2>2. tasks' = [k \in Kinds |->
                    v.tasks[k] + (IF k \in begun \union BegunByEffects(E, v) THEN 1 ELSE 0)]
    BY <1>5 DEF Carry
  <2>3. tasks'["cycle"] = t["cycle"] + 0
    BY <1>4, <1>5, <2>1, <2>2
  <2> QED
    BY <1>1, <1>4, <2>3
<1> QED
  BY <1>3, <1>5

LEMMA QuietSpares ==
    ASSUME CoreTyped, NEW w, Spares(w), NEW begun, "cycle" \notin begun, Quietly(w, begun)
    PROVE  Spared
  BY CarrySpares DEF Quietly, Spared

LEMMA PerformSpares ==
    ASSUME CoreTyped, NEW w, Spares(w), NEW begun, "cycle" \notin begun, NEW r,
           Perform(r, w, begun),
           r.model.phase = "powered_off" => model.phase = "powered_off" \/ tasks["cycle"] = 0
    PROVE  Spared
<1>1. CASE "EXIT_APP" \in r.effects
  <2>1. up' = FALSE /\ tasks' = NoTasks
    BY <1>1 DEF Perform, ExitNow
  <2>2. NoTasks["cycle"] = 0
    BY DEF NoTasks, Kinds, CifsKinds, ScheduledCifs
  <2> QED
    BY <2>1, <2>2 DEF Spared
<1>2. CASE "EXIT_APP" \notin r.effects
  <2>1. Carry(r.effects, w, begun) \/ Carry(r.effects, ExpireToken(w), begun)
    BY <1>2 DEF Perform
  <2>2. tasks'["cycle"] = tasks["cycle"]
    BY <2>1, CarrySpares
  <2> QED
    BY <2>2 DEF Spared, Perform
<1> QED
  BY <1>1, <1>2

\* Only the helper's answer leads to "powered off", at once or by a second event.
LEMMA EntersPoweredOff ==
    ASSUME model \in Model, NEW e \in Events, e # "POWER_OFF_SUCCEEDED",
           NEW f \in Events, f # "POWER_OFF_SUCCEEDED"
    PROVE  /\ Reduce(model, e).model.phase = "powered_off" => model.phase = "powered_off"
           /\ Then(Reduce(model, e), f).model.phase = "powered_off" => model.phase = "powered_off"
<1> DEFINE r == Reduce(model, e)
<1>1. r.model \in Model
  BY RowFits DEF Fits
<1>2. r.model.phase = "powered_off" => model.phase = "powered_off"
  BY ShutdownRows
<1>3. Then(r, f).model = Reduce(r.model, f).model
  BY DEF Then
<1>4. Reduce(r.model, f).model.phase = "powered_off" => r.model.phase = "powered_off"
  <2> HIDE DEF r
  <2> QED
    BY <1>1, ShutdownRows
<1> QED
  BY <1>2, <1>3, <1>4

LEMMA DispatchSpares ==
    ASSUME CoreTyped, NEW e \in Events, NEW w, Spares(w), NEW begun, "cycle" \notin begun,
           NEW c, Dispatch(e, w, begun, c),
           e = "POWER_OFF_SUCCEEDED" => tasks["cycle"] = 0
    PROVE  Spared
<1> DEFINE r == React(e, w, applyWriting)
<1>1. Perform(r, w, begun)
  BY DEF Dispatch
<1>2. model \in Model /\ "DRAIN_COMPLETED" \in Events
  BY DEF CoreTyped, Events
<1>3. r.model.phase = "powered_off" => model.phase = "powered_off" \/ tasks["cycle"] = 0
  <2>1. CASE e = "POWER_OFF_SUCCEEDED"
    BY <2>1
  <2>2. CASE e # "POWER_OFF_SUCCEEDED"
    BY <1>2, <2>2, EntersPoweredOff DEF React
  <2> QED
    BY <2>1, <2>2
<1> HIDE DEF r
<1> QED
  BY <1>1, <1>3, PerformSpares

LEMMA OperatorSpares ==
    ASSUME Core, Operator, ~Launch
    PROVE  Spared
<1>1. CoreTyped /\ Spares(InFlight)
  BY WorkSpares DEF Core
<1>2. \A k : Quietly(InFlight, {k}) /\ k # "cycle" => Spared
  BY <1>1, QuietSpares
<1>3. \A e \in PlainEvents : \A c : Dispatch(e, InFlight, {}, c) => Spared
  BY <1>1, DispatchSpares DEF PlainEvents, OffAnswers
<1>4. UNCHANGED <<model, tasks>> => Spared
  BY DEF Spared
<1>5. CASE OperatorRefreshes
  BY <1>2, <1>4, <1>5 DEF OperatorRefreshes, Refresh
<1>6. CASE ReadBegins \/ RestoreBegins \/ WriteBegins \/ CheckBegins \/ CreateBegins
           \/ ConnectBegins
  BY <1>2, <1>6 DEF ReadBegins, RestoreBegins, WriteBegins, CheckBegins, CreateBegins,
     ConnectBegins
<1>7. CASE AskApply \/ AskPowerOff \/ AskCreate \/ AskProvision \/ AskRecover
           \/ AskReprovision \/ AskNewRun \/ AskQuit \/ Dismiss
  BY <1>4, <1>7 DEF AskApply, AskPowerOff, AskCreate, AskProvision, AskRecover,
     AskReprovision, AskNewRun, AskQuit, Ask, Dismiss, performed
<1>8. CASE Confirm
  BY <1>3, <1>8 DEF Confirm, Confirms, PlainEvents, Events, OffAnswers
<1>9. CASE StartRequested \/ RetryRequested
  BY <1>3, <1>9 DEF StartRequested, RetryRequested, PlainEvents, Events, OffAnswers
<1>10. CASE RunConfirmed
  <2>1. PICK answer \in Begins :
           BeginRun(Reduce(model, answer[2]), InFlight,
                    IF answer[1] = "newRun" /\ run # "none" THEN {"cleanup"} ELSE {})
    BY <1>10 DEF RunConfirmed
  <2> DEFINE begun == (IF answer[1] = "newRun" /\ run # "none" THEN {"cleanup"} ELSE {})
                      \union {"prepare"}
  <2>2. Perform(Reduce(model, answer[2]), InFlight, begun) /\ "cycle" \notin begun
    BY <2>1 DEF BeginRun
  <2>3. answer[2] \in Events /\ answer[2] # "POWER_OFF_SUCCEEDED" /\ model \in Model
    BY <1>1 DEF Begins, Events, CoreTyped
  <2>4. Reduce(model, answer[2]).model.phase = "powered_off" => model.phase = "powered_off"
    BY <2>3, EntersPoweredOff
  <2> HIDE DEF begun
  <2> QED
    BY <1>1, <2>2, <2>4, PerformSpares
<1> QED
  BY <1>5, <1>6, <1>7, <1>8, <1>9, <1>10 DEF Operator

LEMMA CompletionSpares ==
    ASSUME Core, Completion, ~CycleLands
    PROVE  Spared
<1> USE DEF Kinds, LocalKinds, CifsKinds, ScheduledCifs, TokenKinds
<1>1. CoreTyped /\ model \in Model /\ "cycle" \in Kinds
  BY DEF Core, CoreTyped
<1>2. /\ \A k \in Kinds \ {"cycle"} : Spares(Landed(k)) /\ Spares(LandedLive(k))
      /\ \A c : Spares(WithoutCall(c))
  BY <1>1, WorkSpares
<1>3. \A w, begun : Spares(w) /\ "cycle" \notin begun /\ Quietly(w, begun) => Spared
  BY <1>1, QuietSpares
<1>4. \A e \in PlainEvents : \A w, begun, c :
         Spares(w) /\ "cycle" \notin begun /\ Dispatch(e, w, begun, c) => Spared
  BY <1>1, DispatchSpares DEF PlainEvents, OffAnswers
<1>5. \A first, second \in PlainEvents : \A w, begun :
         /\ Spares(w) /\ "cycle" \notin begun
         /\ Perform(Reduce(model, first), w, begun)
            \/ Perform(Then(Reduce(model, first), second), w, begun)
         => Spared
  BY <1>1, EntersPoweredOff, PerformSpares DEF PlainEvents, OffAnswers
<1>6. CASE InspectLands
  BY <1>2, <1>4, <1>6 DEF InspectLands, Plans, PlainEvents, Events, OffAnswers
<1>7. CASE InspectResumes
  <2>1. CASE Dispatch("STARTUP_RESUME_PROVISIONING", LandedLive("inspect"), {}, container)
    BY <1>2, <1>4, <2>1 DEF PlainEvents, Events, OffAnswers
  <2>2. ASSUME NEW begin \in {"PROVISION_BEGIN_FIRST_RUN", "PROVISION_BEGIN_REPROVISION"},
               NEW resumed \in {"poll", "prepare", "nothing"},
               Perform(Then(Reduce(model, "STARTUP_RESUME_PROVISIONING"), begin),
                       LandedLive("inspect"), {resumed} \ {"nothing"})
        PROVE  Spared
    BY <1>2, <1>5, <2>2 DEF PlainEvents, Events, OffAnswers
  <2> QED
    BY <1>7, <2>1, <2>2 DEF InspectResumes
<1>8. CASE StaleLands
  <2>1. PICK k \in TokenKinds \ {"connect"} : Quietly(Landed(k), {})
    BY <1>8 DEF StaleLands
  <2> QED
    BY <1>2, <1>3, <2>1
<1>9. CASE SnapshotIgnored \/ SnapshotApplied
  <2>1. tasks'["cycle"] = tasks["cycle"] /\ model' = model
    BY <1>1, <1>9 DEF SnapshotIgnored, SnapshotApplied, DropGather, CoreTyped
  <2> QED
    BY <2>1 DEF Spared
<1>10. CASE ClassifyLands \/ ReadLands \/ RestoreLands \/ CheckLands \/ CleanupLands
  BY <1>2, <1>3, <1>10 DEF ClassifyLands, ReadLands, RestoreLands, CheckLands, CleanupLands
<1>11. CASE WriteLands
  BY <1>2, <1>3, <1>11 DEF WriteLands
<1>12. CASE ConnectLands
  <2> DEFINE w == IF live["connect"] > 0 THEN LandedLive("connect") ELSE Landed("connect")
  <2>1. Spares(w)
    BY <1>2
  <2>2. ConnectDispatches(w) \/ Quietly(w, {})
    BY <1>12 DEF ConnectLands
  <2> HIDE DEF w
  <2> QED
    BY <1>3, <1>4, <2>1, <2>2 DEF ConnectDispatches, PlainEvents, Events, OffAnswers
<1>13. CASE CreateLands
  <2>1. CASE Quietly(Landed("create"), {})
    BY <1>2, <1>3, <2>1
  <2>2. CASE BeginRun(Then(Reduce(model, "VM_CREATED"), "PROVISION_BEGIN_FIRST_RUN"),
                      Landed("create"), {})
    <3>1. Perform(Then(Reduce(model, "VM_CREATED"), "PROVISION_BEGIN_FIRST_RUN"),
                  Landed("create"), {} \union {"prepare"})
      BY <2>2 DEF BeginRun
    <3>2. /\ "VM_CREATED" \in PlainEvents /\ "PROVISION_BEGIN_FIRST_RUN" \in PlainEvents
          /\ "cycle" \notin {} \union {"prepare"} /\ Spares(Landed("create"))
      BY <1>2 DEF PlainEvents, Events, OffAnswers
    <3> QED
      BY <1>5, <3>1, <3>2
  <2> QED
    BY <1>13, <2>1, <2>2 DEF CreateLands
<1>14. CASE PrepareLands
  <2>1. \/ \E begun \in {{}, {"poll"}} : Quietly(LandedLive("prepare"), begun)
        \/ Dispatch("PROVISION_FAILED", LandedLive("prepare"), {}, container)
    BY <1>14 DEF PrepareLands
  <2> QED
    BY <1>2, <1>3, <1>4, <2>1 DEF PlainEvents, Events, OffAnswers
<1>15. CASE PollLands
  <2>1. \/ Quietly(LandedLive("poll"), {})
        \/ Dispatch("PROVISION_FAILED", LandedLive("poll"), {"cleanup"}, container)
        \/ Perform(Reduce(model, "PROVISION_SUCCEEDED"), LandedLive("poll"), {"cleanup"})
    BY <1>15 DEF PollLands
  <2>2. /\ Spares(LandedLive("poll"))
        /\ {"PROVISION_FAILED", "PROVISION_SUCCEEDED"} \subseteq PlainEvents
    BY <1>2 DEF PlainEvents, Events, OffAnswers
  <2> QED
    BY <1>3, <1>4, <1>5, <2>1, <2>2
<1>16. CASE OnResult
  <2>1. PICK c \in calls : \E e \in OnEvents(c) : Dispatch(e, WithoutCall(c), {}, container)
    BY <1>16 DEF OnResult
  <2>2. OnEvents(c) \subseteq PlainEvents
    BY DEF OnEvents, PlainEvents, Events, OffAnswers
  <2> QED
    BY <1>2, <1>4, <2>1, <2>2
<1>17. CASE OffResult
  <2>1. PICK c \in calls : /\ c.owned /\ c.live /\ c.want = "off"
                           /\ Dispatch(OffEvent(c), WithoutCall(c), {}, container)
    BY <1>17 DEF OffResult
  <2>2. tasks["cycle"] = 0
    BY <2>1 DEF Core, DrainedWhileOff, CurrentCalls
  <2>3. OffEvent(c) \in Events
    BY DEF OffEvent, Events
  <2> QED
    BY <1>1, <1>2, <2>1, <2>2, <2>3, DispatchSpares
<1>18. CASE StaleResult
  BY <1>2, <1>3, <1>18 DEF StaleResult
<1> QED
  BY <1>6, <1>7, <1>8, <1>9, <1>10, <1>11, <1>12, <1>13, <1>14, <1>15, <1>16, <1>17, <1>18
  DEF Completion

LEMMA TimerSpares ==
    ASSUME Core, Helper \/ Timer, ~CycleBegins
    PROVE  Spared
<1>1. CoreTyped /\ Spares(InFlight)
  BY WorkSpares DEF Core
<1>2. \A w, k : Spares(w) /\ Quietly(w, {k}) /\ k # "cycle" => Spared
  BY <1>1, QuietSpares
<1>3. \A e \in PlainEvents \union {"DRAIN_COMPLETED"} : \A w, c :
         Spares(w) /\ Dispatch(e, w, {}, c) => Spared
  BY <1>1, DispatchSpares DEF PlainEvents, OffAnswers, Events
<1>4. UNCHANGED <<model, tasks>> => Spared
  BY DEF Spared
<1>5. CASE Helper
  BY <1>4, <1>5 DEF Helper, HelperLocks, HelperUnserved, HelperEnds, Answers, Beyond
<1>6. CASE TimerRefreshes
  BY <1>1, <1>2, <1>4, <1>6 DEF TimerRefreshes, Refresh
<1>7. CASE DrainTick
  BY <1>1, <1>3, <1>4, <1>7 DEF DrainTick, PlainEvents, Events, OffAnswers
<1>8. CASE ProbeAgain \/ PollTick
  BY <1>1, <1>2, <1>4, <1>8 DEF ProbeAgain, PollTick, performed
<1>9. CASE CallTimesOut
  <2> DEFINE left(c) == [InFlight EXCEPT
                 !.calls = (@ \ {c}) \union {[c EXCEPT !.owned = FALSE, !.live = FALSE]}]
  <2>1. PICK c \in calls :
           \/ Dispatch("POWER_TRANSITION_UNKNOWN", left(c), {}, container)
           \/ Quietly(left(c), {})
    BY <1>9 DEF CallTimesOut
  <2>2. Spares(left(c))
    BY OrphanSpares
  <2> HIDE DEF left
  <2>3. "POWER_TRANSITION_UNKNOWN" \in PlainEvents
    BY DEF PlainEvents, Events, OffAnswers
  <2> QED
    BY <1>1, <1>3, <2>1, <2>2, <2>3, QuietSpares
<1> QED
  BY <1>5, <1>6, <1>7, <1>8, <1>9 DEF Timer

\* A cycle begins or lands: neither the phase, nor the timers, nor a helper is touched.
CycleStep ==
    /\ up /\ up' = TRUE
    /\ UNCHANGED <<model, polling, calls>>
    /\ \/ polling /\ tasks["cycle"] = 0
       \/ tasks["cycle"] > 0

LEMMA CyclesStep ==
    ASSUME Core, CycleBegins \/ CycleLands
    PROVE  CycleStep
<1>1. \A w, begun : Quietly(w, begun) => /\ up' = TRUE /\ model' = model
                                          /\ polling' = polling /\ calls' = w.calls
  BY DEF Quietly, Carry, CallsBegun, Core, CoreTyped
<1>2. InFlight.calls = calls /\ Landed("cycle").calls = calls
  BY LandingIs DEF Landing
<1> QED
  BY <1>1, <1>2 DEF CycleBegins, CycleLands, CycleStep

LEMMA StepSpares ==
    ASSUME Core, Next
    PROVE  Spared \/ CycleStep \/ Launch
  BY OperatorSpares, CompletionSpares, TimerSpares, CyclesStep DEF Next, Helper, Timer,
     Completion, Operator

LEMMA RestedKept ==
    ASSUME Core, Rested, [Next]_vars
    PROVE  Rested'
<1>1. CASE Spared
  BY <1>1 DEF Spared, Rested
<1>2. CASE CycleStep
  <2>1. model.phase # "powered_off"
    BY <1>2, Gates DEF CycleStep, Rested, Core, CoreTyped, Kinds, CifsKinds, ScheduledCifs
  <2> QED
    BY <1>2, <2>1 DEF CycleStep, Rested
<1>3. CASE Launch
  BY <1>3 DEF Launch, Rested, FirstModel
<1>4. CASE UNCHANGED vars
  BY <1>4 DEF vars, Rested
<1> QED
  BY <1>1, <1>2, <1>3, <1>4, StepSpares

LEMMA StepServes ==
    ASSUME Core, Core', Rested, Rested', [Next]_vars
    PROVE  [Service!Next]_Service!vars
<1> DEFINE flying == {k \in {"cycle"} : tasks[k] > 0}
<1>1. /\ tasks["cycle"] \in Nat /\ tasks'["cycle"] \in Nat
  BY DEF Core, CoreTyped, Kinds, CifsKinds, ScheduledCifs
<1>2. /\ flying = IF tasks["cycle"] = 0 THEN {} ELSE {"cycle"}
      /\ flying' = IF tasks'["cycle"] = 0 THEN {} ELSE {"cycle"}
  BY <1>1
<1>3. /\ Stage \in {"open", "closed", "down"} /\ Stage' \in {"open", "closed", "down"}
      /\ Stage' = "down" => flying' = {}
  \* the drain has waited for the cycle
  <2>1. Down' => tasks'["cycle"] = 0
    BY DEF Core, Rested, Down, DrainedWhileOff, CurrentCalls, ScheduledCifs
  <2> QED
    BY <1>2, <2>1 DEF Stage
<1>4. CASE Spared \/ Launch
  <2>1. CASE tasks'["cycle"] = tasks["cycle"]
    <3>1. flying' = flying
      BY <1>2, <2>1
    <3> HIDE DEF flying
    <3> QED
      BY <1>3, <3>1 DEF Service!Next, Service!Open, Service!Close, Service!TakeDown, flying
  <2>2. CASE tasks'["cycle"] # tasks["cycle"]
    <3>1. Stage' = "closed" /\ tasks'["cycle"] = 0
      <4>1. CASE Spared
        BY <2>2, <4>1 DEF Spared, Stage
      <4>2. CASE Launch
        <5>1. FirstTasks["cycle"] = 0 /\ FirstModel.phase = "starting"
          BY DEF FirstTasks, NoTasks, FirstModel, Kinds, CifsKinds, ScheduledCifs
        <5>2. /\ up' /\ ~polling' /\ tasks' = FirstTasks /\ model' = FirstModel
              /\ CurrentCalls' = {}
          BY <4>2 DEF Launch, Core, Apart, CurrentCalls
        <5>3. ~Down'
          BY <5>1, <5>2 DEF Down
        <5> QED
          BY <5>1, <5>2, <5>3 DEF Stage
      <4> QED
        BY <1>4, <4>1, <4>2
    <3> QED
      BY <1>2, <3>1 DEF Service!Next, Service!Abandon
  <2> QED
    BY <2>1, <2>2
<1>5. CASE CycleStep
  <2>1. Stage' = Stage
    BY <1>5 DEF CycleStep, Stage, Down, CurrentCalls
  <2>2. CASE tasks'["cycle"] = 0
    BY <1>2, <2>1, <2>2 DEF Service!Next, Service!End
  <2>3. CASE tasks'["cycle"] # 0 /\ tasks["cycle"] # 0
    <3>1. flying' = flying
      BY <1>2, <2>3
    <3> QED
      BY <2>1, <3>1 DEF Service!vars
  <2>4. CASE tasks'["cycle"] # 0 /\ tasks["cycle"] = 0
    <3>1. Stage = "open" /\ flying' = {"cycle"}
      BY <1>1, <1>2, <1>5, <2>4 DEF CycleStep, Stage
    <3> QED
      BY <2>1, <3>1 DEF Service!Next, Service!Begin
  <2> QED
    BY <2>2, <2>3, <2>4
<1>6. CASE UNCHANGED vars
  <2>1. Stage' = Stage /\ tasks' = tasks
    BY <1>6 DEF vars, Stage, Down, CurrentCalls
  <2> QED
    BY <2>1 DEF Service!vars
<1> QED
  BY <1>4, <1>5, <1>6, StepSpares

(* However requests, results and time limits interleave with the cycles of *)
(* workspaces, one begins only while the timers run, and none is in flight *)
(* from the moment the helper is asked to power off until the bridge is    *)
(* served again (__main__.py, _tick_workspaces, _check_drain and _perform). *)
THEOREM CyclesServe == Spec => CyclesKeepService
<1>1. Init => Rested /\ Service!Init
  <2> SUFFICES ASSUME Init PROVE Rested /\ Service!Init
    OBVIOUS
  <2>1. model.phase = "starting" /\ ~polling /\ calls = {} /\ tasks["cycle"] = 0
    BY DEF Init, Fresh, FirstModel, FirstTasks, NoTasks, Kinds, CifsKinds, ScheduledCifs
  <2> QED
    BY <2>1 DEF Rested, Service!Init, Stage, Down, CurrentCalls
<1>2. IInv /\ Rested /\ [Next]_vars => Rested'
  BY RestedKept DEF IInv
<1>3. IInv /\ IInv' /\ Rested /\ Rested' /\ [Next]_vars => [Service!Next]_Service!vars
  BY StepServes DEF IInv
<1> QED
  BY ControllerInvariant, <1>1, <1>2, <1>3, PTL DEF Spec, CyclesKeepService, Service!Spec

=============================================================================
