-------------------------- MODULE PowerHelper_proofs ------------------------
(***************************************************************************)
(* Proofs about the power helper, for any number of shares, invocations    *)
(* and readiness attempts.                                                 *)
(*                                                                         *)
(* The safety properties of PowerHelper are not inductive: that nothing is *)
(* mounted when docker stop runs rests on what the commands before it have *)
(* established, and on nobody else holding the lock meanwhile.  IInv says  *)
(* at each command of the script what the ones before it established.      *)
(***************************************************************************)
EXTENDS PowerHelper, TLAPS

HostTypeOK ==
    /\ marker \in BOOLEAN
    /\ armed \in SUBSET Shares
    /\ mounted \in SUBSET Shares
    /\ busy \in SUBSET mounted
    /\ timer \in BOOLEAN
    /\ health \in BOOLEAN
    /\ vm \in {"absent", "stopped", "running"}
    /\ smb \in BOOLEAN
    /\ cause \in {"helper", "world"}
    /\ settled \in {"none", "on", "off"}
    /\ calm \in BOOLEAN

ProcTypeOK ==
    /\ lock \in Procs \cup {NoProc}
    /\ pc \in [Procs -> {"idle"} \cup WaitPcs \cup CritPcs]
    /\ loc \in [Procs -> Locals]
    /\ exit \in [Procs -> ExitCodes]

\* An invocation runs commands of a transition exactly while it holds the lock.
Mutex == \A p \in Procs : pc[p] \in CritPcs <=> lock = p

QuietPcs == {"off_autos", "off_unmount", "off_inspect", "off_stop", "off_reinspect", "off_confirm"}
UnmountedPcs == {"off_inspect", "off_stop", "off_reinspect", "off_confirm"}
DisarmedPcs == UnmountedPcs \cup {"off_unmount"}
StartingPcs == {"on_marker", "on_inspect", "off_marker"}
WindowPcs == {"on_arm", "on_access", "on_verify", "on_rearm", "on_timer", "on_confirm"}
HeldPcs == (OffPcs \cup OnPcs \cup {"rb_marker"}) \ (StartingPcs \cup WindowPcs)
ArmedPcs == {"on_access", "on_verify", "on_timer", "on_confirm"}

\* What holds when invocation p is about to run its next command.
At(p) ==
    /\ pc[p] \in HeldPcs => marker
    /\ pc[p] \in WindowPcs => ~marker
    /\ pc[p] \in {"rb_autos", "rb_timer"} => ~marker /\ ~loc[p].pre
    /\ pc[p] \in QuietPcs => ~timer /\ ~health
    /\ pc[p] \in DisarmedPcs => armed = {}
    /\ pc[p] = "off_unmount" => loc[p].idx \in Shares /\ \A s \in mounted : loc[p].idx <= s
    /\ pc[p] \in UnmountedPcs => mounted = {}
    /\ pc[p] \in ArmedPcs => armed = Shares
    /\ pc[p] = "on_access" => loc[p].idx \in Shares
    /\ pc[p] \in {"on_timer", "on_confirm"} => mounted = Shares
    /\ pc[p] \in CritPcs \ StartingPcs => settled = "none"

IInv ==
    /\ HostTypeOK
    /\ ProcTypeOK
    /\ Mutex
    /\ \A p \in Procs : At(p)
    /\ OffStaysOff
    /\ OnStaysOn

\* The invocations, right after p has taken a step of a transition.
Moves(p) ==
    /\ ProcTypeOK
    /\ Mutex
    /\ \A q \in Procs : q # p => pc[q] \notin CritPcs

-----------------------------------------------------------------------------
(* How an action moves the invocation that takes it.                       *)

\* The holder of the lock moves to another command: it still holds the lock,
\* and nobody else runs a command.
LEMMA GotoLemma ==
    ASSUME ProcTypeOK, Mutex,
           NEW p \in Procs, pc[p] \in CritPcs,
           NEW label \in CritPcs, NEW locals \in Locals,
           GotoWith(p, label, locals)
    PROVE  Moves(p)' /\ pc'[p] = label /\ loc'[p] = locals
<1>1. pc'[p] = label /\ loc'[p] = locals /\ lock' = lock /\ exit' = exit
  BY DEF GotoWith, ProcTypeOK
<1>2. \A q \in Procs : q # p => pc'[q] = pc[q] /\ pc[q] \notin CritPcs
  BY DEF GotoWith, ProcTypeOK, Mutex
<1>3. ProcTypeOK'
  BY <1>1 DEF GotoWith, ProcTypeOK
<1>4. Mutex'
  BY <1>1, <1>2 DEF Mutex
<1> QED
  BY <1>1, <1>2, <1>3, <1>4 DEF Moves

\* The holder of the lock ends: nobody holds the lock or runs a command.
LEMMA ExitLemma ==
    ASSUME ProcTypeOK, Mutex,
           NEW p \in Procs, pc[p] \in CritPcs,
           NEW code \in ExitCodes,
           Exit(p, code)
    PROVE  Moves(p)' /\ pc'[p] = "idle" /\ pc'[p] \notin CritPcs /\ exit'[p] = code
<1>1. pc'[p] = "idle" /\ exit'[p] = code /\ lock' = NoProc
  BY DEF Exit, ProcTypeOK
<1>2. \A q \in Procs : q # p => pc'[q] = pc[q] /\ pc[q] \notin CritPcs
  BY DEF Exit, ProcTypeOK, Mutex
<1>3. "idle" \notin CritPcs
  BY DEF CritPcs, OffPcs, RollbackPcs, OnPcs
<1>4. Fresh \in Locals
  BY NSharesAssumption, MaxAttemptsAssumption DEF Fresh, Locals
<1>5. ProcTypeOK'
  BY <1>1, <1>4 DEF Exit, ProcTypeOK
<1>6. \A q \in Procs : pc'[q] \notin CritPcs
  BY <1>1, <1>2, <1>3
<1>7. Mutex'
  BY <1>1, <1>6, NoProcAssumption DEF Mutex
<1> QED
  BY <1>1, <1>3, <1>5, <1>6, <1>7 DEF Moves

\* The holder of the lock starts rolling back.
LEMMA RollBackLemma ==
    ASSUME ProcTypeOK, Mutex,
           NEW p \in Procs, pc[p] \in CritPcs,
           NEW code \in ExitCodes,
           RollBack(p, code)
    PROVE  Moves(p)' /\ pc'[p] = "rb_marker" /\ loc'[p] = loc[p]
<1>1. pc'[p] = "rb_marker" /\ loc' = loc /\ lock' = lock
  BY DEF RollBack, ProcTypeOK
<1>2. \A q \in Procs : q # p => pc'[q] = pc[q] /\ pc[q] \notin CritPcs
  BY DEF RollBack, ProcTypeOK, Mutex
<1>3. "rb_marker" \in CritPcs
  BY DEF CritPcs, RollbackPcs
<1>4. ProcTypeOK'
  BY <1>1, <1>3 DEF RollBack, ProcTypeOK
<1>5. Mutex'
  BY <1>1, <1>2, <1>3 DEF Mutex
<1> QED
  BY <1>1, <1>2, <1>4, <1>5 DEF Moves

\* What At says of an invocation that runs no command: nothing.
LEMMA IdleLemma ==
    ASSUME NEW q \in Procs, pc'[q] \notin CritPcs
    PROVE  At(q)'
BY DEF At, CritPcs, OffPcs, OnPcs, RollbackPcs, HeldPcs, StartingPcs, WindowPcs, QuietPcs,
       UnmountedPcs, DisarmedPcs, ArmedPcs

\* What is left to show of a step of a transition, then: the host's variables
\* keep their types, the promises of the last answer stand, and p may go on.
LEMMA FrameLemma ==
    ASSUME NEW p \in Procs, HostTypeOK', Moves(p)', At(p)', OffStaysOff', OnStaysOn'
    PROVE  IInv'
BY IdleLemma DEF IInv, Moves

\* The loops over the shares update two local variables at once.
LEMMA LocalsLemma ==
    ASSUME NEW l \in Locals, NEW i \in 1 .. NShares + 1, NEW b \in BOOLEAN
    PROVE  [l EXCEPT !.idx = i, !.ok = b] \in Locals
<1> DEFINE m == [l EXCEPT !.idx = i]
<1>1. m \in Locals
  BY DEF Locals
<1>2. [m EXCEPT !.ok = b] \in Locals
  BY <1>1 DEF Locals
<1> QED
  BY <1>2 DEF Locals

-----------------------------------------------------------------------------
(* Every command of the script preserves IInv.                             *)

USE DEF CritPcs, OffPcs, OnPcs, RollbackPcs, HeldPcs, StartingPcs, WindowPcs, QuietPcs,
        UnmountedPcs, DisarmedPcs, ArmedPcs

LEMMA OffRecordInv ==
    ASSUME IInv, NEW p \in Procs, OffRecord(p)
    PROVE  IInv'
<1>1. pc[p] = "off_marker" /\ At(p) /\ loc[p] \in Locals /\ HostTypeOK
  BY DEF IInv, OffRecord, ProcTypeOK
<1>2. HostTypeOK'
  BY <1>1 DEF OffRecord, HostTypeOK, KeepUnits, KeepVm
<1>3. OffStaysOff' /\ OnStaysOn'
  BY <1>1 DEF At, OffStaysOff, OnStaysOn, OffRecord
<1>4. CASE GotoWith(p, "off_health", [loc[p] EXCEPT !.pre = marker])
  <2>1. [loc[p] EXCEPT !.pre = marker] \in Locals
    BY <1>1, <1>4, NSharesAssumption, MaxAttemptsAssumption DEF Locals, HostTypeOK
  <2>2. Moves(p)' /\ pc'[p] = "off_health" /\ loc'[p] = [loc[p] EXCEPT !.pre = marker]
    BY <1>1, <1>4, <2>1, GotoLemma DEF IInv
  <2>3. At(p)'
    BY <1>1, <1>2, <1>4, <2>2 DEF At, HostTypeOK, OffRecord, KeepUnits, KeepVm
  <2> QED
    BY <1>2, <1>3, <2>2, <2>3, FrameLemma
<1> QED
  BY <1>1, <1>4 DEF OffRecord

LEMMA OffStopHealthInv ==
    ASSUME IInv, NEW p \in Procs, OffStopHealth(p)
    PROVE  IInv'
<1>1. pc[p] = "off_health" /\ At(p) /\ loc[p] \in Locals /\ HostTypeOK
  BY DEF IInv, OffStopHealth, ProcTypeOK
<1>2. HostTypeOK'
  BY <1>1 DEF OffStopHealth, HostTypeOK, KeepVm
<1>3. OffStaysOff' /\ OnStaysOn'
  BY <1>1 DEF At, OffStaysOff, OnStaysOn, OffStopHealth
<1>4. CASE Goto(p, "off_autos") /\ ~timer' /\ ~health'
  <2>2. Moves(p)' /\ pc'[p] = "off_autos" /\ loc'[p] = loc[p]
    BY <1>1, <1>4, GotoLemma DEF IInv, Goto
  <2>3. At(p)'
    BY <1>1, <1>2, <1>4, <2>2 DEF At, HostTypeOK, OffStopHealth, KeepVm
  <2> QED
    BY <1>2, <1>3, <2>2, <2>3, FrameLemma
<1>5. CASE RollBack(p, "unit")
  <2>2. Moves(p)' /\ pc'[p] = "rb_marker"
    BY <1>1, <1>5, RollBackLemma DEF IInv, ExitCodes
  <2>3. At(p)'
    BY <1>1, <2>2 DEF At, OffStopHealth
  <2> QED
    BY <1>2, <1>3, <2>2, <2>3, FrameLemma
<1> QED
  BY <1>1, <1>4, <1>5 DEF OffStopHealth

LEMMA OffStopAutomountsInv ==
    ASSUME IInv, NEW p \in Procs, OffStopAutomounts(p)
    PROVE  IInv'
<1>1. pc[p] = "off_autos" /\ At(p) /\ loc[p] \in Locals /\ HostTypeOK
  BY DEF IInv, OffStopAutomounts, ProcTypeOK
<1>2. HostTypeOK'
  BY <1>1 DEF OffStopAutomounts, HostTypeOK, KeepVm
<1>3. OffStaysOff' /\ OnStaysOn'
  BY <1>1 DEF At, OffStaysOff, OnStaysOn, OffStopAutomounts
<1>4. CASE GotoWith(p, "off_unmount", [loc[p] EXCEPT !.idx = 1]) /\ armed' = {}
  <2>1. [loc[p] EXCEPT !.idx = 1] \in Locals
    BY <1>1, <1>4, NSharesAssumption, MaxAttemptsAssumption DEF Locals, HostTypeOK
  <2>2. Moves(p)' /\ pc'[p] = "off_unmount" /\ loc'[p] = [loc[p] EXCEPT !.idx = 1]
    BY <1>1, <1>4, <2>1, GotoLemma DEF IInv
  <2>3. At(p)'
    BY <1>1, <1>2, <1>4, <2>2, NSharesAssumption DEF At, HostTypeOK, OffStopAutomounts, KeepVm, Shares, Locals
  <2> QED
    BY <1>2, <1>3, <2>2, <2>3, FrameLemma
<1>5. CASE RollBack(p, "unit")
  <2>2. Moves(p)' /\ pc'[p] = "rb_marker"
    BY <1>1, <1>5, RollBackLemma DEF IInv, ExitCodes
  <2>3. At(p)'
    BY <1>1, <2>2 DEF At, OffStopAutomounts
  <2> QED
    BY <1>2, <1>3, <2>2, <2>3, FrameLemma
<1> QED
  BY <1>1, <1>4, <1>5 DEF OffStopAutomounts

LEMMA OffInspectInv ==
    ASSUME IInv, NEW p \in Procs, OffInspect(p)
    PROVE  IInv'
<1>1. pc[p] = "off_inspect" /\ At(p) /\ loc[p] \in Locals /\ HostTypeOK
  BY DEF IInv, OffInspect, ProcTypeOK
<1>2. HostTypeOK'
  BY <1>1 DEF OffInspect, HostTypeOK, KeepUnits, KeepVm
<1>3. OffStaysOff' /\ OnStaysOn'
  BY <1>1 DEF At, OffStaysOff, OnStaysOn, OffInspect
<1>4. CASE Goto(p, "off_confirm")
  <2>2. Moves(p)' /\ pc'[p] = "off_confirm" /\ loc'[p] = loc[p]
    BY <1>1, <1>4, GotoLemma DEF IInv, Goto
  <2>3. At(p)'
    BY <1>1, <1>2, <1>4, <2>2 DEF At, HostTypeOK, OffInspect, KeepUnits, KeepVm
  <2> QED
    BY <1>2, <1>3, <2>2, <2>3, FrameLemma
<1>5. CASE Exit(p, "container")
  <2>2. Moves(p)' /\ pc'[p] \notin CritPcs
    BY <1>1, <1>5, ExitLemma DEF IInv, ExitCodes
  <2> QED
    BY <1>2, <1>3, <2>2, IdleLemma, FrameLemma
<1>6. CASE Goto(p, "off_stop")
  <2>2. Moves(p)' /\ pc'[p] = "off_stop" /\ loc'[p] = loc[p]
    BY <1>1, <1>6, GotoLemma DEF IInv, Goto
  <2>3. At(p)'
    BY <1>1, <1>2, <1>6, <2>2 DEF At, HostTypeOK, OffInspect, KeepUnits, KeepVm
  <2> QED
    BY <1>2, <1>3, <2>2, <2>3, FrameLemma
<1> QED
  BY <1>1, <1>4, <1>5, <1>6 DEF OffInspect

LEMMA OffStopInv ==
    ASSUME IInv, NEW p \in Procs, OffStop(p)
    PROVE  IInv'
<1>1. pc[p] = "off_stop" /\ At(p) /\ loc[p] \in Locals /\ HostTypeOK
  BY DEF IInv, OffStop, ProcTypeOK
<1>2. HostTypeOK'
  BY <1>1 DEF OffStop, HostTypeOK, KeepUnits
<1>3. OffStaysOff' /\ OnStaysOn'
  BY <1>1 DEF At, OffStaysOff, OnStaysOn, OffStop
<1>4. CASE Goto(p, "off_confirm")
  <2>2. Moves(p)' /\ pc'[p] = "off_confirm" /\ loc'[p] = loc[p]
    BY <1>1, <1>4, GotoLemma DEF IInv, Goto
  <2>3. At(p)'
    BY <1>1, <1>2, <1>4, <2>2 DEF At, HostTypeOK, OffStop, KeepUnits
  <2> QED
    BY <1>2, <1>3, <2>2, <2>3, FrameLemma
<1>5. CASE Goto(p, "off_reinspect")
  <2>2. Moves(p)' /\ pc'[p] = "off_reinspect" /\ loc'[p] = loc[p]
    BY <1>1, <1>5, GotoLemma DEF IInv, Goto
  <2>3. At(p)'
    BY <1>1, <1>2, <1>5, <2>2 DEF At, HostTypeOK, OffStop, KeepUnits
  <2> QED
    BY <1>2, <1>3, <2>2, <2>3, FrameLemma
<1> QED
  BY <1>1, <1>4, <1>5 DEF OffStop

LEMMA OffReinspectInv ==
    ASSUME IInv, NEW p \in Procs, OffReinspect(p)
    PROVE  IInv'
<1>1. pc[p] = "off_reinspect" /\ At(p) /\ loc[p] \in Locals /\ HostTypeOK
  BY DEF IInv, OffReinspect, ProcTypeOK
<1>2. HostTypeOK'
  BY <1>1 DEF OffReinspect, HostTypeOK, KeepUnits, KeepVm
<1>3. OffStaysOff' /\ OnStaysOn'
  BY <1>1 DEF At, OffStaysOff, OnStaysOn, OffReinspect
<1>4. CASE Goto(p, "off_confirm")
  <2>2. Moves(p)' /\ pc'[p] = "off_confirm" /\ loc'[p] = loc[p]
    BY <1>1, <1>4, GotoLemma DEF IInv, Goto
  <2>3. At(p)'
    BY <1>1, <1>2, <1>4, <2>2 DEF At, HostTypeOK, OffReinspect, KeepUnits, KeepVm
  <2> QED
    BY <1>2, <1>3, <2>2, <2>3, FrameLemma
<1>5. CASE RollBack(p, "container")
  <2>2. Moves(p)' /\ pc'[p] = "rb_marker"
    BY <1>1, <1>5, RollBackLemma DEF IInv, ExitCodes
  <2>3. At(p)'
    BY <1>1, <2>2 DEF At, OffReinspect
  <2> QED
    BY <1>2, <1>3, <2>2, <2>3, FrameLemma
<1>6. CASE Exit(p, "state")
  <2>2. Moves(p)' /\ pc'[p] \notin CritPcs
    BY <1>1, <1>6, ExitLemma DEF IInv, ExitCodes
  <2> QED
    BY <1>2, <1>3, <2>2, IdleLemma, FrameLemma
<1> QED
  BY <1>1, <1>4, <1>5, <1>6 DEF OffReinspect

LEMMA RbAutomountsInv ==
    ASSUME IInv, NEW p \in Procs, RbAutomounts(p)
    PROVE  IInv'
<1>1. pc[p] = "rb_autos" /\ At(p) /\ loc[p] \in Locals /\ HostTypeOK
  BY DEF IInv, RbAutomounts, ProcTypeOK
<1>2. HostTypeOK'
  BY <1>1 DEF RbAutomounts, HostTypeOK, StartAutomounts, KeepVm
<1>3. OffStaysOff' /\ OnStaysOn'
  BY <1>1 DEF At, OffStaysOff, OnStaysOn, RbAutomounts
<1>4. CASE Goto(p, "rb_timer")
  <2>2. Moves(p)' /\ pc'[p] = "rb_timer" /\ loc'[p] = loc[p]
    BY <1>1, <1>4, GotoLemma DEF IInv, Goto
  <2>3. At(p)'
    BY <1>1, <1>2, <1>4, <2>2 DEF At, HostTypeOK, RbAutomounts, StartAutomounts, KeepVm, Locals
  <2> QED
    BY <1>2, <1>3, <2>2, <2>3, FrameLemma
<1> QED
  BY <1>1, <1>4 DEF RbAutomounts

LEMMA OnInspectInv ==
    ASSUME IInv, NEW p \in Procs, OnInspect(p)
    PROVE  IInv'
<1>1. pc[p] = "on_inspect" /\ At(p) /\ loc[p] \in Locals /\ HostTypeOK
  BY DEF IInv, OnInspect, ProcTypeOK
<1>2. HostTypeOK'
  BY <1>1 DEF OnInspect, HostTypeOK, KeepUnits, KeepVm
<1>3. OffStaysOff' /\ OnStaysOn'
  BY DEF IInv, OffStaysOff, OnStaysOn, OnInspect, KeepUnits
<1>4. CASE Exit(p, "container")
  <2>2. Moves(p)' /\ pc'[p] \notin CritPcs
    BY <1>1, <1>4, ExitLemma DEF IInv, ExitCodes
  <2> QED
    BY <1>2, <1>3, <2>2, IdleLemma, FrameLemma
<1>5. CASE Goto(p, "on_marker")
  <2>2. Moves(p)' /\ pc'[p] = "on_marker" /\ loc'[p] = loc[p]
    BY <1>1, <1>5, GotoLemma DEF IInv, Goto
  <2>3. At(p)'
    BY <1>1, <1>2, <1>5, <2>2 DEF At, HostTypeOK, OnInspect, KeepUnits, KeepVm
  <2> QED
    BY <1>2, <1>3, <2>2, <2>3, FrameLemma
<1> QED
  BY <1>1, <1>4, <1>5 DEF OnInspect

LEMMA OnRecordInv ==
    ASSUME IInv, NEW p \in Procs, OnRecord(p)
    PROVE  IInv'
<1>1. pc[p] = "on_marker" /\ At(p) /\ loc[p] \in Locals /\ HostTypeOK
  BY DEF IInv, OnRecord, ProcTypeOK
<1>2. HostTypeOK'
  BY <1>1 DEF OnRecord, HostTypeOK, KeepUnits, KeepVm
<1>3. OffStaysOff' /\ OnStaysOn'
  BY <1>1 DEF At, OffStaysOff, OnStaysOn, OnRecord
<1>4. CASE Goto(p, "on_health")
  <2>2. Moves(p)' /\ pc'[p] = "on_health" /\ loc'[p] = loc[p]
    BY <1>1, <1>4, GotoLemma DEF IInv, Goto
  <2>3. At(p)'
    BY <1>1, <1>2, <1>4, <2>2 DEF At, HostTypeOK, OnRecord, KeepUnits, KeepVm
  <2> QED
    BY <1>2, <1>3, <2>2, <2>3, FrameLemma
<1> QED
  BY <1>1, <1>4 DEF OnRecord

LEMMA OnStopHealthInv ==
    ASSUME IInv, NEW p \in Procs, OnStopHealth(p)
    PROVE  IInv'
<1>1. pc[p] = "on_health" /\ At(p) /\ loc[p] \in Locals /\ HostTypeOK
  BY DEF IInv, OnStopHealth, ProcTypeOK
<1>2. HostTypeOK'
  BY <1>1 DEF OnStopHealth, HostTypeOK, KeepVm
<1>3. OffStaysOff' /\ OnStaysOn'
  BY <1>1 DEF At, OffStaysOff, OnStaysOn, OnStopHealth
<1>4. CASE Goto(p, "on_start")
  <2>2. Moves(p)' /\ pc'[p] = "on_start" /\ loc'[p] = loc[p]
    BY <1>1, <1>4, GotoLemma DEF IInv, Goto
  <2>3. At(p)'
    BY <1>1, <1>2, <1>4, <2>2 DEF At, HostTypeOK, OnStopHealth, KeepVm
  <2> QED
    BY <1>2, <1>3, <2>2, <2>3, FrameLemma
<1> QED
  BY <1>1, <1>4 DEF OnStopHealth

LEMMA OnStartInv ==
    ASSUME IInv, NEW p \in Procs, OnStart(p)
    PROVE  IInv'
<1>1. pc[p] = "on_start" /\ At(p) /\ loc[p] \in Locals /\ HostTypeOK
  BY DEF IInv, OnStart, ProcTypeOK
<1>2. HostTypeOK'
  BY <1>1 DEF OnStart, RecordAndDie, Aborts, HostTypeOK, KeepUnits
<1>3. OffStaysOff' /\ OnStaysOn'
  BY <1>1 DEF At, OffStaysOff, OnStaysOn, OnStart
<1>4. CASE GotoWith(p, "on_attempt", [loc[p] EXCEPT !.attempts = 0]) /\ marker' = marker
  <2>1. [loc[p] EXCEPT !.attempts = 0] \in Locals
    BY <1>1, <1>4, NSharesAssumption, MaxAttemptsAssumption DEF Locals, HostTypeOK
  <2>2. Moves(p)' /\ pc'[p] = "on_attempt" /\ loc'[p] = [loc[p] EXCEPT !.attempts = 0]
    BY <1>1, <1>4, <2>1, GotoLemma DEF IInv
  <2>3. At(p)'
    BY <1>1, <1>2, <1>4, <2>2 DEF At, HostTypeOK, OnStart, KeepUnits
  <2> QED
    BY <1>2, <1>3, <2>2, <2>3, FrameLemma
<1>5. CASE \E code \in {"container", "aborted"} : Exit(p, code)
  <2>2. Moves(p)' /\ pc'[p] \notin CritPcs
    BY <1>1, <1>5, ExitLemma DEF IInv, ExitCodes
  <2> QED
    BY <1>2, <1>3, <2>2, IdleLemma, FrameLemma
<1> QED
  BY <1>1, <1>4, <1>5 DEF OnStart, RecordAndDie, Aborts

LEMMA OnAttemptInv ==
    ASSUME IInv, NEW p \in Procs, OnAttempt(p)
    PROVE  IInv'
<1>1. pc[p] = "on_attempt" /\ At(p) /\ loc[p] \in Locals /\ HostTypeOK
  BY DEF IInv, OnAttempt, ProcTypeOK
<1>2. HostTypeOK'
  BY <1>1 DEF OnAttempt, RecordAndDie, Aborts, HostTypeOK, KeepUnits, KeepVm
<1>3. OffStaysOff' /\ OnStaysOn'
  BY <1>1 DEF At, OffStaysOff, OnStaysOn, OnAttempt
<1>4. CASE Goto(p, "on_expired") /\ marker' = marker
  <2>2. Moves(p)' /\ pc'[p] = "on_expired" /\ loc'[p] = loc[p]
    BY <1>1, <1>4, GotoLemma DEF IInv, Goto
  <2>3. At(p)'
    BY <1>1, <1>2, <1>4, <2>2 DEF At, HostTypeOK, OnAttempt, KeepUnits, KeepVm
  <2> QED
    BY <1>2, <1>3, <2>2, <2>3, FrameLemma
<1>5. CASE GotoWith(p, "on_clear", [loc[p] EXCEPT !.attempts = @ + 1]) /\ marker' = marker /\ loc[p].attempts < MaxAttempts
  <2>1. [loc[p] EXCEPT !.attempts = @ + 1] \in Locals
    BY <1>1, <1>5, NSharesAssumption, MaxAttemptsAssumption DEF Locals, HostTypeOK
  <2>2. Moves(p)' /\ pc'[p] = "on_clear" /\ loc'[p] = [loc[p] EXCEPT !.attempts = @ + 1]
    BY <1>1, <1>5, <2>1, GotoLemma DEF IInv
  <2>3. At(p)'
    BY <1>1, <1>2, <1>5, <2>2 DEF At, HostTypeOK, OnAttempt, KeepUnits, KeepVm
  <2> QED
    BY <1>2, <1>3, <2>2, <2>3, FrameLemma
<1>6. CASE \E code \in {"container", "aborted"} : Exit(p, code)
  <2>2. Moves(p)' /\ pc'[p] \notin CritPcs
    BY <1>1, <1>6, ExitLemma DEF IInv, ExitCodes
  <2> QED
    BY <1>2, <1>3, <2>2, IdleLemma, FrameLemma
<1> QED
  BY <1>1, <1>4, <1>5, <1>6 DEF OnAttempt, RecordAndDie, Aborts

LEMMA OnClearInv ==
    ASSUME IInv, NEW p \in Procs, OnClear(p)
    PROVE  IInv'
<1>1. pc[p] = "on_clear" /\ At(p) /\ loc[p] \in Locals /\ HostTypeOK
  BY DEF IInv, OnClear, ProcTypeOK
<1>2. HostTypeOK'
  BY <1>1 DEF OnClear, HostTypeOK, WithdrawMarker, KeepUnits, KeepVm
<1>3. OffStaysOff' /\ OnStaysOn'
  BY <1>1 DEF At, OffStaysOff, OnStaysOn, OnClear
<1>4. CASE Goto(p, "on_arm")
  <2>2. Moves(p)' /\ pc'[p] = "on_arm" /\ loc'[p] = loc[p]
    BY <1>1, <1>4, GotoLemma DEF IInv, Goto
  <2>3. At(p)'
    BY <1>1, <1>2, <1>4, <2>2 DEF At, HostTypeOK, OnClear, WithdrawMarker, KeepUnits, KeepVm
  <2> QED
    BY <1>2, <1>3, <2>2, <2>3, FrameLemma
<1> QED
  BY <1>1, <1>4 DEF OnClear

LEMMA OnArmInv ==
    ASSUME IInv, NEW p \in Procs, OnArm(p)
    PROVE  IInv'
<1>1. pc[p] = "on_arm" /\ At(p) /\ loc[p] \in Locals /\ HostTypeOK
  BY DEF IInv, OnArm, ProcTypeOK
<1>2. HostTypeOK'
  BY <1>1 DEF OnArm, HostTypeOK, StartAutomounts, KeepVm
<1>3. OffStaysOff' /\ OnStaysOn'
  BY <1>1 DEF At, OffStaysOff, OnStaysOn, OnArm
<1>4. CASE GotoWith(p, "on_access", [loc[p] EXCEPT !.idx = 1, !.ok = TRUE]) /\ armed' = Shares
  <2>0. 1 \in 1 .. NShares + 1
    BY NSharesAssumption
  <2>1. [loc[p] EXCEPT !.idx = 1, !.ok = TRUE] \in Locals
    BY <1>1, <2>0, LocalsLemma, Zenon
  <2>2. Moves(p)' /\ pc'[p] = "on_access" /\ loc'[p] = [loc[p] EXCEPT !.idx = 1, !.ok = TRUE]
    BY <1>1, <1>4, <2>1, GotoLemma DEF IInv
  <2>3. At(p)'
    BY <1>1, <1>2, <1>4, <2>2, NSharesAssumption DEF At, HostTypeOK, OnArm, StartAutomounts, KeepVm, Shares, Locals
  <2> QED
    BY <1>2, <1>3, <2>2, <2>3, FrameLemma
<1>5. CASE Goto(p, "on_rearm")
  <2>2. Moves(p)' /\ pc'[p] = "on_rearm" /\ loc'[p] = loc[p]
    BY <1>1, <1>5, GotoLemma DEF IInv, Goto
  <2>3. At(p)'
    BY <1>1, <1>2, <1>5, <2>2 DEF At, HostTypeOK, OnArm, StartAutomounts, KeepVm
  <2> QED
    BY <1>2, <1>3, <2>2, <2>3, FrameLemma
<1> QED
  BY <1>1, <1>4, <1>5 DEF OnArm, AllArmed

LEMMA OnVerifyInv ==
    ASSUME IInv, NEW p \in Procs, OnVerify(p)
    PROVE  IInv'
<1>1. pc[p] = "on_verify" /\ At(p) /\ loc[p] \in Locals /\ HostTypeOK
  BY DEF IInv, OnVerify, ProcTypeOK
<1>2. HostTypeOK'
  BY <1>1 DEF OnVerify, HostTypeOK, KeepUnits, KeepVm
<1>3. OffStaysOff' /\ OnStaysOn'
  BY <1>1 DEF At, OffStaysOff, OnStaysOn, OnVerify
<1>4. CASE Goto(p, "on_timer") /\ mounted = Shares
  <2>2. Moves(p)' /\ pc'[p] = "on_timer" /\ loc'[p] = loc[p]
    BY <1>1, <1>4, GotoLemma DEF IInv, Goto
  <2>3. At(p)'
    BY <1>1, <1>2, <1>4, <2>2 DEF At, HostTypeOK, OnVerify, KeepUnits, KeepVm
  <2> QED
    BY <1>2, <1>3, <2>2, <2>3, FrameLemma
<1>5. CASE Goto(p, "on_rearm")
  <2>2. Moves(p)' /\ pc'[p] = "on_rearm" /\ loc'[p] = loc[p]
    BY <1>1, <1>5, GotoLemma DEF IInv, Goto
  <2>3. At(p)'
    BY <1>1, <1>2, <1>5, <2>2 DEF At, HostTypeOK, OnVerify, KeepUnits, KeepVm
  <2> QED
    BY <1>2, <1>3, <2>2, <2>3, FrameLemma
<1> QED
  BY <1>1, <1>4, <1>5 DEF OnVerify, Verified

LEMMA OnRearmInv ==
    ASSUME IInv, NEW p \in Procs, OnRearm(p)
    PROVE  IInv'
<1>1. pc[p] = "on_rearm" /\ At(p) /\ loc[p] \in Locals /\ HostTypeOK
  BY DEF IInv, OnRearm, ProcTypeOK
<1>2. HostTypeOK'
  BY <1>1 DEF OnRearm, HostTypeOK, RecordAgain, KeepUnits, KeepVm
<1>3. OffStaysOff' /\ OnStaysOn'
  BY <1>1 DEF At, OffStaysOff, OnStaysOn, OnRearm
<1>4. CASE Goto(p, "on_teardown")
  <2>2. Moves(p)' /\ pc'[p] = "on_teardown" /\ loc'[p] = loc[p]
    BY <1>1, <1>4, GotoLemma DEF IInv, Goto
  <2>3. At(p)'
    BY <1>1, <1>2, <1>4, <2>2 DEF At, HostTypeOK, OnRearm, RecordAgain, KeepUnits, KeepVm
  <2> QED
    BY <1>2, <1>3, <2>2, <2>3, FrameLemma
<1> QED
  BY <1>1, <1>4 DEF OnRearm

LEMMA OnTeardownInv ==
    ASSUME IInv, NEW p \in Procs, OnTeardown(p)
    PROVE  IInv'
<1>1. pc[p] = "on_teardown" /\ At(p) /\ loc[p] \in Locals /\ HostTypeOK
  BY DEF IInv, OnTeardown, ProcTypeOK
<1>2. HostTypeOK'
  BY <1>1 DEF OnTeardown, HostTypeOK, StopMountsAndAutomounts, InUse, KeepVm
<1>3. OffStaysOff' /\ OnStaysOn'
  BY <1>1 DEF At, OffStaysOff, OnStaysOn, OnTeardown
<1>4. CASE Goto(p, "on_attempt")
  <2>2. Moves(p)' /\ pc'[p] = "on_attempt" /\ loc'[p] = loc[p]
    BY <1>1, <1>4, GotoLemma DEF IInv, Goto, KeepClock
  <2>3. At(p)'
    BY <1>1, <1>2, <1>4, <2>2 DEF At, HostTypeOK, OnTeardown, StopMountsAndAutomounts, KeepVm
  <2> QED
    BY <1>2, <1>3, <2>2, <2>3, FrameLemma
<1> QED
  BY <1>1, <1>4 DEF OnTeardown, KeepClock, Goto

LEMMA OnExpiredInv ==
    ASSUME IInv, NEW p \in Procs, OnExpired(p)
    PROVE  IInv'
<1>1. pc[p] = "on_expired" /\ At(p) /\ loc[p] \in Locals /\ HostTypeOK
  BY DEF IInv, OnExpired, ProcTypeOK
<1>2. HostTypeOK'
  BY <1>1 DEF OnExpired, HostTypeOK, KeepUnits, KeepVm
<1>3. OffStaysOff' /\ OnStaysOn'
  BY <1>1 DEF At, OffStaysOff, OnStaysOn, OnExpired
<1>4. CASE Goto(p, "on_giveup")
  <2>2. Moves(p)' /\ pc'[p] = "on_giveup" /\ loc'[p] = loc[p]
    BY <1>1, <1>4, GotoLemma DEF IInv, Goto
  <2>3. At(p)'
    BY <1>1, <1>2, <1>4, <2>2 DEF At, HostTypeOK, OnExpired, KeepUnits, KeepVm
  <2> QED
    BY <1>2, <1>3, <2>2, <2>3, FrameLemma
<1> QED
  BY <1>1, <1>4 DEF OnExpired

LEMMA OnGiveUpInv ==
    ASSUME IInv, NEW p \in Procs, OnGiveUp(p)
    PROVE  IInv'
<1>1. pc[p] = "on_giveup" /\ At(p) /\ loc[p] \in Locals /\ HostTypeOK
  BY DEF IInv, OnGiveUp, ProcTypeOK
<1>2. HostTypeOK'
  BY <1>1 DEF OnGiveUp, HostTypeOK, StopMountsAndAutomounts, InUse, KeepVm
<1>3. OffStaysOff' /\ OnStaysOn'
  BY <1>1 DEF At, OffStaysOff, OnStaysOn, OnGiveUp
<1>4. CASE Exit(p, "readiness")
  <2>2. Moves(p)' /\ pc'[p] \notin CritPcs
    BY <1>1, <1>4, ExitLemma DEF IInv, ExitCodes
  <2> QED
    BY <1>2, <1>3, <2>2, IdleLemma, FrameLemma
<1> QED
  BY <1>1, <1>4 DEF OnGiveUp

LEMMA OnStartTimerInv ==
    ASSUME IInv, NEW p \in Procs, OnStartTimer(p)
    PROVE  IInv'
<1>1. pc[p] = "on_timer" /\ At(p) /\ loc[p] \in Locals /\ HostTypeOK
  BY DEF IInv, OnStartTimer, ProcTypeOK
<1>2. HostTypeOK'
  BY <1>1 DEF OnStartTimer, HostTypeOK, KeepVm
<1>3. OffStaysOff' /\ OnStaysOn'
  BY <1>1 DEF At, OffStaysOff, OnStaysOn, OnStartTimer
<1>4. CASE Goto(p, "on_confirm") /\ timer'
  <2>2. Moves(p)' /\ pc'[p] = "on_confirm" /\ loc'[p] = loc[p]
    BY <1>1, <1>4, GotoLemma DEF IInv, Goto
  <2>3. At(p)'
    BY <1>1, <1>2, <1>4, <2>2 DEF At, HostTypeOK, OnStartTimer, KeepVm
  <2> QED
    BY <1>2, <1>3, <2>2, <2>3, FrameLemma
<1>5. CASE Exit(p, "unit")
  <2>2. Moves(p)' /\ pc'[p] \notin CritPcs
    BY <1>1, <1>5, ExitLemma DEF IInv, ExitCodes
  <2> QED
    BY <1>2, <1>3, <2>2, IdleLemma, FrameLemma
<1> QED
  BY <1>1, <1>4, <1>5 DEF OnStartTimer

LEMMA OffUnmountInv ==
    ASSUME IInv, NEW p \in Procs, OffUnmount(p)
    PROVE  IInv'
<1> DEFINE s == loc[p].idx
<1> DEFINE next == IF s = NShares THEN "off_inspect" ELSE "off_unmount"
<1> DEFINE locals == [loc[p] EXCEPT !.idx = s + 1]
<1>1. pc[p] = "off_unmount" /\ At(p) /\ loc[p] \in Locals /\ HostTypeOK
  BY DEF IInv, OffUnmount, ProcTypeOK
<1>2. HostTypeOK'
  BY <1>1 DEF OffUnmount, HostTypeOK, StopMount, InUse, KeepVm
<1>3. OffStaysOff' /\ OnStaysOn'
  BY <1>1 DEF At, OffStaysOff, OnStaysOn, OffUnmount
<1>4. CASE RollBack(p, "busy")
  <2>1. Moves(p)' /\ pc'[p] = "rb_marker"
    BY <1>1, <1>4, RollBackLemma DEF IInv, ExitCodes
  <2>2. At(p)'
    BY <1>1, <2>1 DEF At, OffUnmount
  <2> QED
    BY <1>2, <1>3, <2>1, <2>2, FrameLemma
<1>5. CASE s \notin mounted' /\ GotoWith(p, next, locals)
  <2>1. s \in 1 .. NShares /\ \A t \in mounted : s <= t
    BY <1>1 DEF At, Shares
  <2>2. locals \in Locals
    BY <1>1, <2>1, NSharesAssumption DEF Locals
  <2>3. locals.idx = s + 1
    BY <1>1 DEF Locals
  <2>4. Moves(p)' /\ pc'[p] = next /\ loc'[p] = locals
    BY <1>1, <1>5, <2>2, GotoLemma DEF IInv
  <2>5. \A t \in mounted' : t \in 1 .. NShares /\ s + 1 <= t
    BY <1>1, <1>5, <2>1, NSharesAssumption DEF OffUnmount, StopMount, HostTypeOK, Shares
  <2>6. CASE s = NShares
    <3>1. mounted' = {} /\ pc'[p] = "off_inspect"
      BY <2>4, <2>5, <2>6, NSharesAssumption
    <3> QED
      BY <1>1, <1>2, <1>3, <2>4, <3>1, FrameLemma DEF At, OffUnmount
  <2>7. CASE s # NShares
    <3>1. pc'[p] = "off_unmount" /\ loc'[p].idx = s + 1 /\ s + 1 \in Shares
      BY <2>1, <2>3, <2>4, <2>7, NSharesAssumption DEF Shares
    <3>2. At(p)'
      BY <1>1, <2>5, <3>1 DEF At, OffUnmount
    <3> QED
      BY <1>2, <1>3, <2>4, <3>2, FrameLemma
  <2> QED
    BY <2>6, <2>7
<1> QED
  BY <1>4, <1>5 DEF OffUnmount, StillMounted

LEMMA OffConfirmInv ==
    ASSUME IInv, NEW p \in Procs, OffConfirm(p)
    PROVE  IInv'
<1>1. pc[p] = "off_confirm" /\ At(p) /\ HostTypeOK
  BY DEF IInv, OffConfirm
<1>2. HostTypeOK'
  BY <1>1 DEF OffConfirm, HostTypeOK, KeepUnits, KeepVm
<1>3. OffStaysOff' /\ OnStaysOn'
  BY <1>1 DEF At, OffStaysOff, OnStaysOn, OffConfirm, KeepUnits, HostTypeOK
<1>4. Moves(p)' /\ pc'[p] \notin CritPcs
  BY <1>1, ExitLemma DEF IInv, ExitCodes, OffConfirm
<1> QED
  BY <1>2, <1>3, <1>4, IdleLemma, FrameLemma

LEMMA RbMarkerInv ==
    ASSUME IInv, NEW p \in Procs, RbMarker(p)
    PROVE  IInv'
<1>1. pc[p] = "rb_marker" /\ At(p) /\ loc[p] \in Locals /\ exit[p] \in ExitCodes /\ HostTypeOK
  BY DEF IInv, RbMarker, ProcTypeOK
<1>2. HostTypeOK'
  BY <1>1 DEF RbMarker, HostTypeOK, KeepUnits, KeepVm
<1>3. OffStaysOff' /\ OnStaysOn'
  BY <1>1 DEF At, OffStaysOff, OnStaysOn, RbMarker
<1>4. CASE ~loc[p].pre /\ ~marker' /\ Goto(p, "rb_autos")
  <2>1. Moves(p)' /\ pc'[p] = "rb_autos" /\ loc'[p] = loc[p]
    BY <1>1, <1>4, GotoLemma DEF IInv, Goto
  <2>2. At(p)'
    BY <1>1, <1>4, <2>1 DEF At, RbMarker
  <2> QED
    BY <1>2, <1>3, <2>1, <2>2, FrameLemma
<1>5. CASE Exit(p, exit[p])
  <2>1. Moves(p)' /\ pc'[p] \notin CritPcs
    BY <1>1, <1>5, ExitLemma DEF IInv
  <2> QED
    BY <1>2, <1>3, <2>1, IdleLemma, FrameLemma
<1> QED
  BY <1>4, <1>5 DEF RbMarker, RollsBack

LEMMA RbTimerInv ==
    ASSUME IInv, NEW p \in Procs, RbTimer(p)
    PROVE  IInv'
<1>1. pc[p] = "rb_timer" /\ At(p) /\ exit[p] \in ExitCodes /\ HostTypeOK
  BY DEF IInv, RbTimer, ProcTypeOK
<1>2. HostTypeOK'
  BY <1>1 DEF RbTimer, HostTypeOK, KeepVm
<1>3. OffStaysOff' /\ OnStaysOn'
  BY <1>1 DEF At, OffStaysOff, OnStaysOn, RbTimer
<1>4. Moves(p)' /\ pc'[p] \notin CritPcs
  BY <1>1, ExitLemma DEF IInv, RbTimer
<1> QED
  BY <1>2, <1>3, <1>4, IdleLemma, FrameLemma

LEMMA OnAccessInv ==
    ASSUME IInv, NEW p \in Procs, OnAccess(p)
    PROVE  IInv'
<1> DEFINE s == loc[p].idx
<1> DEFINE next == IF s = NShares THEN "on_verify" ELSE "on_access"
<1>1. pc[p] = "on_access" /\ At(p) /\ loc[p] \in Locals /\ HostTypeOK
  BY DEF IInv, OnAccess, ProcTypeOK
<1>2. HostTypeOK'
  BY <1>1 DEF OnAccess, HostTypeOK, AutomountTriggers, KeepVm
<1>3. OffStaysOff' /\ OnStaysOn'
  BY <1>1 DEF At, OffStaysOff, OnStaysOn, OnAccess
<1>4. s \in 1 .. NShares
  BY <1>1 DEF At, Shares
<1>5. PICK answered \in BOOLEAN :
         GotoWith(p, next, [loc[p] EXCEPT !.idx = s + 1, !.ok = @ /\ answered])
  BY DEF OnAccess
<1> DEFINE okay == loc[p].ok /\ answered
<1> DEFINE locals == [loc[p] EXCEPT !.idx = s + 1, !.ok = okay]
<1>6. okay \in BOOLEAN /\ s + 1 \in 1 .. NShares + 1
  BY <1>4, NSharesAssumption
<1>7. locals \in Locals
  BY <1>1, <1>6, LocalsLemma, Zenon
<1>8. Moves(p)' /\ pc'[p] = next /\ loc'[p] = locals
  BY <1>1, <1>5, <1>7, GotoLemma DEF IInv
<1>9. locals.idx = s + 1
  BY <1>1 DEF Locals
<1>10. At(p)'
  BY <1>1, <1>4, <1>8, <1>9, NSharesAssumption DEF At, OnAccess, Shares
<1> QED
  BY <1>2, <1>3, <1>8, <1>10, FrameLemma

LEMMA OnConfirmInv ==
    ASSUME IInv, NEW p \in Procs, OnConfirm(p)
    PROVE  IInv'
<1>1. pc[p] = "on_confirm" /\ At(p) /\ HostTypeOK
  BY DEF IInv, OnConfirm
<1>2. HostTypeOK'
  BY <1>1 DEF OnConfirm, HostTypeOK, KeepUnits, KeepVm
<1>3. OffStaysOff' /\ OnStaysOn'
  BY <1>1 DEF At, OffStaysOff, OnStaysOn, OnConfirm, KeepUnits, HostTypeOK
<1>4. Moves(p)' /\ pc'[p] \notin CritPcs
  BY <1>1, ExitLemma DEF IInv, ExitCodes, OnConfirm
<1> QED
  BY <1>2, <1>3, <1>4, IdleLemma, FrameLemma

LEMMA RequestInv ==
    ASSUME IInv, NEW p \in Procs, Request(p, "off") \/ Request(p, "on")
    PROVE  IInv'
<1>1. pc[p] = "idle" /\ lock' = lock /\ loc' = loc /\ UNCHANGED <<host, settled, calm>>
  BY DEF Request
<1>2. pc'[p] \in WaitPcs /\ \A q \in Procs : q # p => pc'[q] = pc[q]
  BY DEF IInv, ProcTypeOK, Request, WaitPcs
<1>3. HostTypeOK' /\ OffStaysOff' /\ OnStaysOn'
  BY <1>1 DEF IInv, HostTypeOK, OffStaysOff, OnStaysOn, host
<1>4. ProcTypeOK'
  BY DEF IInv, ProcTypeOK, Request, WaitPcs, ExitCodes
<1>5. Mutex'
  BY <1>1, <1>2 DEF IInv, Mutex, WaitPcs
<1>6. ASSUME NEW q \in Procs PROVE At(q)'
  <2>1. CASE q = p
    BY <1>2, <2>1, IdleLemma DEF WaitPcs
  <2>2. CASE q # p
    BY <1>1, <1>2, <2>2 DEF IInv, At, host
  <2> QED
    BY <2>1, <2>2
<1> QED
  BY <1>3, <1>4, <1>5, <1>6 DEF IInv

LEMMA AcquireInv ==
    ASSUME IInv, NEW p \in Procs, Acquire(p)
    PROVE  IInv'
<1>1. pc[p] \in WaitPcs /\ lock = NoProc /\ lock' = p /\ loc' = loc /\ UNCHANGED <<host, settled, calm>>
  BY DEF Acquire, AcquireGuard
<1>2. pc'[p] \in {"off_marker", "on_inspect"} /\ \A q \in Procs : q # p => pc'[q] = pc[q]
  BY <1>1 DEF IInv, ProcTypeOK, Acquire
<1>3. \A q \in Procs : pc[q] \notin CritPcs
  BY <1>1, NoProcAssumption DEF IInv, Mutex
<1>4. HostTypeOK' /\ OffStaysOff' /\ OnStaysOn'
  BY <1>1 DEF IInv, HostTypeOK, OffStaysOff, OnStaysOn, host
<1>5. Moves(p)'
  <2>1. ProcTypeOK'
    BY <1>1, <1>2 DEF IInv, ProcTypeOK, Acquire
  <2>2. Mutex'
    BY <1>1, <1>2, <1>3 DEF Mutex
  <2> QED
    BY <1>2, <1>3, <2>1, <2>2 DEF Moves
<1>6. At(p)'
  BY <1>2 DEF At
<1> QED
  BY <1>4, <1>5, <1>6, FrameLemma

LEMMA LockTimeoutInv ==
    ASSUME IInv, NEW p \in Procs, LockTimeout(p)
    PROVE  IInv'
<1>1. pc[p] \in WaitPcs /\ lock' = lock /\ loc' = loc /\ UNCHANGED <<host, settled, calm>>
  BY DEF LockTimeout
<1>2. pc'[p] = "idle" /\ \A q \in Procs : q # p => pc'[q] = pc[q]
  BY DEF IInv, ProcTypeOK, LockTimeout
<1>3. HostTypeOK' /\ OffStaysOff' /\ OnStaysOn'
  BY <1>1 DEF IInv, HostTypeOK, OffStaysOff, OnStaysOn, host
<1>4. ProcTypeOK'
  BY DEF IInv, ProcTypeOK, LockTimeout, ExitCodes
<1>5. Mutex'
  BY <1>1, <1>2 DEF IInv, Mutex, WaitPcs
<1>6. ASSUME NEW q \in Procs PROVE At(q)'
  <2>1. CASE q = p
    BY <1>2, <2>1, IdleLemma
  <2>2. CASE q # p
    BY <1>1, <1>2, <2>2 DEF IInv, At, host
  <2> QED
    BY <2>1, <2>2
<1> QED
  BY <1>3, <1>4, <1>5, <1>6 DEF IInv

\* A transition that stops short of its next command: it is killed there, or
\* the command is one on the marker that fails.
StopsShort(p, code) ==
    pc[p] \in CritPcs /\ Exit(p, code) /\ UNCHANGED <<host, settled, calm>>

LEMMA StopsShortLemma ==
    ASSUME NEW p \in Procs
    PROVE  /\ Kill(p) => StopsShort(p, "killed")
           /\ MarkerFails(p) => StopsShort(p, "aborted")
BY DEF Kill, MarkerFails, ChangesMarker, Aborts, KeepUnits, KeepVm, host, StopsShort

LEMMA StopsShortInv ==
    ASSUME IInv, NEW p \in Procs, NEW code \in {"killed", "aborted"}, StopsShort(p, code)
    PROVE  IInv'
<1>1. HostTypeOK' /\ OffStaysOff' /\ OnStaysOn'
  BY DEF IInv, HostTypeOK, OffStaysOff, OnStaysOn, StopsShort, host
<1>2. Moves(p)' /\ pc'[p] \notin CritPcs
  BY ExitLemma DEF IInv, ExitCodes, StopsShort
<1> QED
  BY <1>1, <1>2, IdleLemma, FrameLemma

-----------------------------------------------------------------------------
(* So does everything the rest of the host does.                           *)

LEMMA RebootInv ==
    ASSUME IInv, Reboot
    PROVE  IInv'
<1>1. HostTypeOK'
  BY DEF IInv, HostTypeOK, Reboot, BootArms
<1>2. OffStaysOff' /\ OnStaysOn'
  BY DEF IInv, HostTypeOK, OffStaysOff, OnStaysOn, Reboot, BootArms
<1>3. \A q \in Procs : pc'[q] \notin CritPcs
  BY DEF Reboot
<1>4. Fresh \in Locals
  BY NSharesAssumption, MaxAttemptsAssumption DEF Fresh, Locals
<1>5. ProcTypeOK'
  BY <1>4 DEF IInv, ProcTypeOK, Reboot, ExitCodes
<1>6. Mutex'
  BY <1>3, NoProcAssumption DEF Mutex, Reboot
<1> QED
  BY <1>1, <1>2, <1>3, <1>5, <1>6, IdleLemma DEF IInv

\* What the environment may do to the host under a transition, and to a bridge
\* that has been answered for.
Around ==
    /\ UNCHANGED <<lock, pc, loc, exit, settled, marker, armed, timer>>
    /\ health' => (health \/ (timer /\ ~marker))
    /\ mounted \subseteq mounted'
    /\ mounted' # mounted => ~marker /\ armed # {}

LEMMA EnvironmentLemma ==
    ASSUME IInv, Around, HostTypeOK'
    PROVE  IInv'
<1> USE DEF Around
<1>1. ProcTypeOK' /\ Mutex'
  BY DEF IInv, ProcTypeOK, Mutex
<1>2. OffStaysOff' /\ OnStaysOn'
  BY DEF IInv, OffStaysOff, OnStaysOn, HostTypeOK
<1>3. ASSUME NEW q \in Procs PROVE At(q)'
  <2>1. At(q) /\ pc' = pc /\ loc' = loc
    BY DEF IInv
  <2>2. pc[q] \in {"on_timer", "on_confirm"} => mounted' = Shares
    BY <2>1 DEF At, HostTypeOK
  <2> QED
    BY <2>1, <2>2 DEF At
<1> QED
  BY <1>1, <1>2, <1>3 DEF IInv

LEMMA EnvironmentInv ==
    ASSUME IInv, Environment
    PROVE  IInv'
<1>0. HostTypeOK
  BY DEF IInv
<1>1. ASSUME NEW s \in Shares, UserAccess(s) PROVE IInv'
  <2>1. HostTypeOK'
    BY <1>0, <1>1 DEF HostTypeOK, UserAccess, AutomountTriggers
  <2>2. Around
    BY <1>0, <1>1 DEF HostTypeOK, Around, UserAccess, AutomountTriggers, proc
  <2> QED
    BY <2>1, <2>2, EnvironmentLemma
<1>2. ASSUME NEW s \in Shares, UserOpens(s) PROVE IInv'
  <2>1. HostTypeOK'
    BY <1>0, <1>2 DEF HostTypeOK, UserOpens
  <2>2. Around
    BY <1>0, <1>2 DEF HostTypeOK, Around, UserOpens, proc
  <2> QED
    BY <2>1, <2>2, EnvironmentLemma
<1>3. ASSUME NEW s \in Shares, UserCloses(s) PROVE IInv'
  <2>1. HostTypeOK'
    BY <1>0, <1>3 DEF HostTypeOK, UserCloses
  <2>2. Around
    BY <1>0, <1>3 DEF HostTypeOK, Around, UserCloses, proc
  <2> QED
    BY <2>1, <2>2, EnvironmentLemma
<1>4. CASE HealthTick
  <2>1. HostTypeOK'
    BY <1>0, <1>4, NSharesAssumption DEF HostTypeOK, HealthTick, AutomountTriggers, CanaryShare, Shares
  <2>2. Around
    BY <1>0, <1>4 DEF HostTypeOK, Around, HealthTick, AutomountTriggers, CanaryShare, Shares, proc
  <2> QED
    BY <2>1, <2>2, EnvironmentLemma
<1>5. CASE HealthDone
  <2>1. HostTypeOK'
    BY <1>0, <1>5 DEF HostTypeOK, HealthDone
  <2>2. Around
    BY <1>0, <1>5 DEF HostTypeOK, Around, HealthDone, proc
  <2> QED
    BY <2>1, <2>2, EnvironmentLemma
<1>6. CASE GuestAnswers
  <2>1. HostTypeOK'
    BY <1>0, <1>6 DEF HostTypeOK, GuestAnswers
  <2>2. Around
    BY <1>0, <1>6 DEF HostTypeOK, Around, GuestAnswers, proc
  <2> QED
    BY <2>1, <2>2, EnvironmentLemma
<1>7. CASE ByHand
  <2>1. HostTypeOK'
    BY <1>0, <1>7 DEF HostTypeOK, ByHand
  <2>2. Around
    BY <1>0, <1>7 DEF HostTypeOK, Around, ByHand, proc
  <2> QED
    BY <2>1, <2>2, EnvironmentLemma
<1>8. CASE CalmDown
  <2>1. HostTypeOK'
    BY <1>0, <1>8 DEF HostTypeOK, CalmDown, host
  <2>2. Around
    BY <1>0, <1>8 DEF HostTypeOK, Around, CalmDown, host, proc
  <2> QED
    BY <2>1, <2>2, EnvironmentLemma
<1> QED
  BY <1>1, <1>2, <1>3, <1>4, <1>5, <1>6, <1>7, <1>8, RebootInv DEF Environment

-----------------------------------------------------------------------------
(* The invariant and what follows from it.                                 *)

LEMMA InitIInv == Init => IInv
<1> SUFFICES ASSUME Init PROVE IInv
  OBVIOUS
<1>1. HostTypeOK
  BY DEF Init, HostTypeOK
<1>2. Fresh \in Locals
  BY NSharesAssumption, MaxAttemptsAssumption DEF Fresh, Locals
<1>3. ProcTypeOK
  BY <1>2 DEF Init, ProcTypeOK, ExitCodes
<1>4. Mutex /\ \A p \in Procs : At(p)
  BY NoProcAssumption DEF Init, Mutex, At
<1> QED
  BY <1>1, <1>3, <1>4 DEF Init, IInv, OffStaysOff, OnStaysOn

LEMMA NextIInv == IInv /\ [Next]_vars => IInv'
<1> SUFFICES ASSUME IInv, [Next]_vars PROVE IInv'
  OBVIOUS
<1>1. ASSUME NEW p \in Procs, OffStep(p) PROVE IInv'
  BY <1>1, OffRecordInv, OffStopHealthInv, OffStopAutomountsInv, OffUnmountInv, OffInspectInv,
     OffStopInv, OffReinspectInv, OffConfirmInv DEF OffStep
<1>2. ASSUME NEW p \in Procs, RollbackStep(p) PROVE IInv'
  BY <1>2, RbMarkerInv, RbAutomountsInv, RbTimerInv DEF RollbackStep
<1>3. ASSUME NEW p \in Procs, OnStep(p) PROVE IInv'
  BY <1>3, OnInspectInv, OnRecordInv, OnStopHealthInv, OnStartInv, OnAttemptInv, OnClearInv,
     OnArmInv, OnAccessInv, OnVerifyInv, OnRearmInv, OnTeardownInv, OnExpiredInv, OnGiveUpInv,
     OnStartTimerInv, OnConfirmInv DEF OnStep
<1>4. CASE UNCHANGED vars
  BY <1>4 DEF vars, IInv, HostTypeOK, ProcTypeOK, Mutex, At, OffStaysOff, OnStaysOn
<1> QED
  BY <1>1, <1>2, <1>3, <1>4, RequestInv, AcquireInv, LockTimeoutInv, StopsShortLemma, StopsShortInv,
     EnvironmentInv DEF Next, HelperStep

LEMMA Invariance == Spec => []IInv
BY InitIInv, NextIInv, PTL DEF Spec

\* docker stop only ever runs on a bridge that is fully unmounted, disarmed and
\* quiet, with the marker recorded.
THEOREM StopsGracefully == Spec => []GracefulStop
<1>1. IInv => GracefulStop
  BY DEF IInv, At, GracefulStop
<1> QED
  BY <1>1, Invariance, PTL

\* An answer is durable: no access, timer, reboot or hand-started VM brings a
\* bridge back that is off, and one that is on stays armed across reboots.
THEOREM AnswersAreDurable == Spec => []Durable
<1>1. IInv => TypeOK
  BY DEF IInv, HostTypeOK, ProcTypeOK, TypeOK
<1>2. IInv => Durable
  BY <1>1 DEF IInv, Durable
<1> QED
  BY <1>2, Invariance, PTL

\* Health checks are armed over verified mounts only, and outside the window of
\* `on` an interrupted transition leaves the marker.
THEOREM InterruptionFailsSafe == Spec => []SafeWhenInterrupted
<1>1. IInv => TimerOverLiveMounts
  BY DEF IInv, At, TimerOverLiveMounts
<1>2. IInv => MarkerOutsideWindow
  BY DEF IInv, At, MarkerOutsideWindow
<1>3. IInv => SafeWhenInterrupted
  BY <1>1, <1>2 DEF SafeWhenInterrupted
<1> QED
  BY <1>3, Invariance, PTL

-----------------------------------------------------------------------------
(* How a transition may end.                                               *)

\* Only a step of the invocation itself, or a reboot, ends its transition.
LEMMA EndsItself ==
    ASSUME IInv, [Next]_vars, NEW p \in Procs, pc[p] \in CritPcs, pc'[p] = "idle", exit'[p] # "killed"
    PROVE  HelperStep(p) \/ MarkerFails(p)
<1>1. ASSUME NEW q \in Procs, HelperStep(q) PROVE HelperStep(p)
  <2>1. pc[q] \in CritPcs
    BY <1>1 DEF HelperStep, OffStep, RollbackStep, OnStep, OffRecord, OffStopHealth, OffStopAutomounts,
       OffUnmount, OffInspect, OffStop, OffReinspect, OffConfirm, RbMarker, RbAutomounts, RbTimer,
       OnInspect, OnRecord, OnStopHealth, OnStart, OnAttempt, OnClear, OnArm, OnAccess, OnVerify,
       OnRearm, OnTeardown, OnExpired, OnGiveUp, OnStartTimer, OnConfirm
  <2>2. p = q
    BY <2>1 DEF IInv, Mutex
  <2> QED
    BY <1>1, <2>2
<1>2. ASSUME NEW q \in Procs,
             Request(q, "off") \/ Request(q, "on") \/ Acquire(q) \/ LockTimeout(q)
      PROVE  FALSE
  <2>1. pc[q] \notin CritPcs
    BY <1>2 DEF Request, Acquire, LockTimeout, WaitPcs
  <2>2. pc'[p] = pc[p]
    BY <1>2, <2>1 DEF Request, Acquire, LockTimeout, IInv, ProcTypeOK
  <2> QED
    BY <2>2
<1>3. ASSUME NEW q \in Procs, Kill(q) PROVE FALSE
  <2>1. p = q
    BY <1>3 DEF IInv, Mutex, Kill
  <2> QED
    BY <1>3, <2>1 DEF Kill, Exit, IInv, ProcTypeOK
<1>4. ASSUME NEW q \in Procs, MarkerFails(q) PROVE MarkerFails(p)
  <2>1. p = q
    BY <1>4, StopsShortLemma DEF IInv, Mutex, StopsShort
  <2> QED
    BY <1>4, <2>1
<1>5. ASSUME Environment PROVE FALSE
  <2>1. pc' = pc \/ Reboot
    BY <1>5 DEF Environment, UserAccess, UserOpens, UserCloses, HealthTick, HealthDone, GuestAnswers,
       ByHand, CalmDown, proc
  <2>2. ~Reboot
    BY DEF Reboot
  <2> QED
    BY <2>1, <2>2
<1>6. CASE UNCHANGED vars
  BY <1>6 DEF vars
<1> QED
  BY <1>1, <1>2, <1>3, <1>4, <1>5, <1>6 DEF Next

\* An `off` that is not killed ends with the marker as it found it, or with
\* everything disarmed, or unable to remove the marker it made.
THEOREM OffEndsCleanly == Spec => OffEndsWhole
<1>1. ASSUME IInv, [Next]_vars, NEW p \in Procs PROVE OffEnds(p)
  <2> SUFFICES ASSUME pc[p] \in OffPcs \cup RollbackPcs, pc'[p] = "idle", exit'[p] # "killed"
               PROVE  \/ marker' = Found(p)
                      \/ /\ exit'[p] \notin {"busy", "unit"}
                         /\ marker' /\ armed' = {} /\ mounted' = {} /\ ~timer'
                      \/ pc[p] = "rb_marker" /\ exit'[p] = "aborted" /\ marker'
    BY DEF OffEnds
  <2> USE DEF Found
  <2>1. (HelperStep(p) \/ MarkerFails(p)) /\ At(p) /\ HostTypeOK /\ loc[p] \in Locals
    BY <1>1, EndsItself DEF IInv, ProcTypeOK
  <2>2. pc \in [Procs -> {"idle"} \cup WaitPcs \cup CritPcs] /\ exit \in [Procs -> ExitCodes]
    BY <1>1 DEF IInv, ProcTypeOK
  <2>3. CASE OffInspect(p) \/ OffReinspect(p) \/ OffConfirm(p)
    BY <2>1, <2>2, <2>3 DEF OffInspect, OffReinspect, OffConfirm, At, Exit, Goto, GotoWith, RollBack, KeepUnits
  <2>4. CASE RbMarker(p)
    BY <2>1, <2>2, <2>4 DEF RbMarker, RollsBack, At, Goto, GotoWith, Locals, HostTypeOK
  <2>5. CASE RbTimer(p)
    BY <2>1, <2>2, <2>5 DEF RbTimer, At, Locals, HostTypeOK
  <2>6. CASE OffRecord(p) \/ OffStopHealth(p) \/ OffStopAutomounts(p) \/ OffUnmount(p) \/ OffStop(p)
             \/ RbAutomounts(p)
    BY <2>2, <2>6 DEF OffRecord, OffStopHealth, OffStopAutomounts, OffUnmount, OffStop, RbAutomounts,
       GotoWith, Goto, RollBack
  <2>7. CASE OnStep(p)
    BY <2>7 DEF OnStep, OnInspect, OnRecord, OnStopHealth, OnStart, OnAttempt, OnClear, OnArm,
       OnAccess, OnVerify, OnRearm, OnTeardown, OnExpired, OnGiveUp, OnStartTimer, OnConfirm
  <2>8. CASE MarkerFails(p)
    BY <2>1, <2>2, <2>8 DEF MarkerFails, ChangesMarker, Aborts, Exit, At, HostTypeOK
  <2> QED
    BY <2>1, <2>3, <2>4, <2>5, <2>6, <2>7, <2>8 DEF HelperStep, OffStep, RollbackStep
<1>2. IInv /\ [Next]_vars => [\A p \in Procs : OffEnds(p)]_vars
  BY <1>1
<1> QED
  BY <1>2, Invariance, PTL DEF Spec, OffEndsWhole

\* An `on` that is not killed leaves shares armed only over verified mounts,
\* but for the one place where the marker cannot be recorded again.
THEOREM OnEndsCleanly == Spec => OnEndsSafe
<1>1. ASSUME IInv, [Next]_vars, NEW p \in Procs PROVE OnEnds(p)
  <2> SUFFICES ASSUME pc[p] \in OnPcs, pc'[p] = "idle", exit'[p] # "killed"
               PROVE  \/ marker'
                      \/ mounted' = Shares
                      \/ pc[p] \in {"on_inspect", "on_marker"} /\ UNCHANGED host
                      \/ pc[p] = "on_rearm" /\ exit'[p] = "aborted"
    BY DEF OnEnds
  <2>1. (HelperStep(p) \/ MarkerFails(p)) /\ At(p) /\ HostTypeOK
    BY <1>1, EndsItself DEF IInv
  <2>2. pc \in [Procs -> {"idle"} \cup WaitPcs \cup CritPcs] /\ exit \in [Procs -> ExitCodes]
    BY <1>1 DEF IInv, ProcTypeOK
  <2>3. CASE OnInspect(p)
    BY <2>2, <2>3 DEF OnInspect, KeepUnits, KeepVm, host
  <2>4. CASE OnStart(p) \/ OnAttempt(p) \/ OnGiveUp(p)
    BY <2>1, <2>2, <2>4 DEF OnStart, OnAttempt, OnGiveUp, RecordAndDie, Aborts, At, GotoWith, Goto
  <2>5. CASE OnStartTimer(p) \/ OnConfirm(p)
    BY <2>1, <2>5 DEF OnStartTimer, OnConfirm, At, KeepUnits
  <2>6. CASE OnRecord(p) \/ OnStopHealth(p) \/ OnClear(p) \/ OnArm(p) \/ OnAccess(p) \/ OnVerify(p)
             \/ OnRearm(p) \/ OnTeardown(p) \/ OnExpired(p)
    BY <2>2, <2>6 DEF OnRecord, OnStopHealth, OnClear, OnArm, OnAccess, OnVerify, OnRearm, OnTeardown,
       OnExpired, GotoWith, Goto
  <2>7. CASE OffStep(p) \/ RollbackStep(p)
    BY <2>7 DEF OffStep, RollbackStep, OffRecord, OffStopHealth, OffStopAutomounts, OffUnmount,
       OffInspect, OffStop, OffReinspect, OffConfirm, RbMarker, RbAutomounts, RbTimer
  <2>8. CASE MarkerFails(p)
    <3>1. UNCHANGED host /\ exit'[p] = "aborted"
      BY <2>2, <2>8, StopsShortLemma DEF StopsShort, Exit
    <3>2. pc[p] \in {"on_marker", "on_clear", "on_rearm", "on_expired"}
      BY <2>8 DEF MarkerFails, ChangesMarker
    <3>3. CASE pc[p] \in {"on_clear", "on_expired"}
      BY <2>1, <3>1, <3>3 DEF At, host
    <3> QED
      BY <3>1, <3>2, <3>3
  <2> QED
    BY <2>1, <2>3, <2>4, <2>5, <2>6, <2>7, <2>8 DEF HelperStep, OnStep
<1>2. IInv /\ [Next]_vars => [\A p \in Procs : OnEnds(p)]_vars
  BY <1>1
<1> QED
  BY <1>2, Invariance, PTL DEF Spec, OnEndsSafe

-----------------------------------------------------------------------------
(* The helper implements BridgeSwitch: every step is a step of the switch, *)
(* or leaves the switch as it is.                                          *)

LEMMA OffImplements ==
    ASSUME IInv, NEW p \in Procs, OffStep(p) \/ RollbackStep(p)
    PROVE  Switch!Next \/ UNCHANGED Switch!vars
<1> USE DEF KeepUnits, KeepVm, Switch!vars
<1>0. At(p) /\ HostTypeOK
  BY DEF IInv
<1>1. CASE OffRecord(p)
  BY <1>1 DEF OffRecord, Switch!Next, Switch!Record
<1>2. CASE OffStopHealth(p) \/ OffStopAutomounts(p) \/ OffInspect(p) \/ OffReinspect(p)
           \/ RbAutomounts(p) \/ RbTimer(p)
  BY <1>2 DEF OffStopHealth, OffStopAutomounts, OffInspect, OffReinspect, RbAutomounts, RbTimer
<1>3. CASE OffUnmount(p)
  <2>1. mounted' \in SUBSET mounted /\ settled = "none"
    BY <1>0, <1>3 DEF At, OffUnmount, StopMount
  <2> QED
    BY <1>3, <2>1 DEF OffUnmount, Switch!Next, Switch!Detach
<1>4. CASE OffStop(p)
  <2>1. settled = "none" /\ marker /\ mounted = {}
    BY <1>0, <1>4 DEF At, OffStop
  <2>2. CASE vm' = vm
    BY <1>4, <2>2 DEF OffStop
  <2>3. CASE vm' # vm
    BY <1>0, <1>4, <2>1, <2>3 DEF OffStop, HostTypeOK, Switch!Next, Switch!PowerOff, Switch!VmStates
  <2> QED
    BY <2>2, <2>3
<1>5. CASE OffConfirm(p)
  <2>1. marker
    BY <1>0, <1>5 DEF At, OffConfirm
  <2> QED
    BY <1>5, <2>1 DEF OffConfirm, Switch!Next, Switch!AnswerOff
<1>6. CASE RbMarker(p)
  <2>1. settled = "none"
    BY <1>0, <1>6 DEF At, RbMarker
  <2> QED
    BY <1>6, <2>1 DEF RbMarker, Switch!Next, Switch!Withdraw
<1> QED
  BY <1>1, <1>2, <1>3, <1>4, <1>5, <1>6 DEF OffStep, RollbackStep

LEMMA OnImplements ==
    ASSUME IInv, NEW p \in Procs, OnStep(p)
    PROVE  Switch!Next \/ UNCHANGED Switch!vars
<1> USE DEF KeepUnits, KeepVm, Switch!vars
<1>0. At(p) /\ HostTypeOK
  BY DEF IInv
<1>1. CASE OnRecord(p)
  BY <1>1 DEF OnRecord, Switch!Next, Switch!Record
<1>2. CASE OnRearm(p) \/ OnExpired(p)
  <2>1. settled = "none" /\ marker' = TRUE
    BY <1>0, <1>2 DEF At, OnRearm, OnExpired, RecordAgain
  <2> QED
    BY <1>2, <2>1 DEF OnRearm, OnExpired, Switch!Next, Switch!Record
<1>3. CASE OnInspect(p) \/ OnStopHealth(p) \/ OnArm(p) \/ OnVerify(p) \/ OnStartTimer(p)
  BY <1>3 DEF OnInspect, OnStopHealth, OnArm, OnVerify, OnStartTimer
<1>4. CASE OnStart(p)
  <2>1. settled = "none" /\ marker
    BY <1>0, <1>4 DEF At, OnStart
  <2>2. CASE vm' = vm
    BY <1>4, <2>1, <2>2 DEF OnStart, RecordAndDie, Aborts, Switch!Next, Switch!Record
  <2>3. CASE vm' # vm
    BY <1>0, <1>4, <2>1, <2>3 DEF OnStart, RecordAndDie, Aborts, HostTypeOK, Switch!Next, Switch!PowerOn
  <2> QED
    BY <2>2, <2>3
<1>5. CASE OnAttempt(p)
  <2>1. settled = "none"
    BY <1>0, <1>5 DEF At, OnAttempt
  <2> QED
    BY <1>5, <2>1 DEF OnAttempt, RecordAndDie, Aborts, Switch!Next, Switch!Record
<1>6. CASE OnClear(p)
  <2>1. settled = "none"
    BY <1>0, <1>6 DEF At, OnClear
  <2> QED
    BY <1>6, <2>1 DEF OnClear, WithdrawMarker, Switch!Next, Switch!Withdraw
<1>7. CASE OnAccess(p)
  <2>1. mounted' \in SUBSET Shares /\ mounted \subseteq mounted' /\ ~marker
    BY <1>0, <1>7 DEF At, OnAccess, HostTypeOK
  <2> QED
    BY <1>7, <2>1 DEF OnAccess, Switch!Next, Switch!Attach
<1>8. CASE OnTeardown(p) \/ OnGiveUp(p)
  <2>1. mounted' \in SUBSET mounted /\ settled = "none"
    BY <1>0, <1>8 DEF At, OnTeardown, OnGiveUp, StopMountsAndAutomounts
  <2> QED
    BY <1>8, <2>1 DEF OnTeardown, OnGiveUp, Switch!Next, Switch!Detach
<1>9. CASE OnConfirm(p)
  BY <1>9 DEF OnConfirm, Switch!Next, Switch!AnswerOn
<1> QED
  BY <1>1, <1>2, <1>3, <1>4, <1>5, <1>6, <1>7, <1>8, <1>9 DEF OnStep

LEMMA EnvironmentImplements ==
    ASSUME IInv, Environment
    PROVE  Switch!Next \/ UNCHANGED Switch!vars
<1> USE DEF Switch!vars
<1>0. HostTypeOK
  BY DEF IInv
<1>1. ASSUME NEW s \in Shares, UserAccess(s) PROVE Switch!Next
  BY <1>0, <1>1 DEF UserAccess, AutomountTriggers, HostTypeOK, Switch!Next, Switch!Attach
<1>2. CASE HealthTick
  BY <1>0, <1>2, NSharesAssumption DEF HealthTick, CanaryShare, Shares, HostTypeOK, Switch!Next, Switch!Attach
<1>3. CASE ByHand
  BY <1>3 DEF ByHand, Switch!Next, Switch!World, Switch!VmStates
<1>4. CASE Reboot
  BY <1>4 DEF Reboot, Switch!Next, Switch!Reboot
<1>5. CASE HealthDone \/ GuestAnswers \/ CalmDown
  BY <1>5 DEF HealthDone, GuestAnswers, CalmDown, host
<1>6. ASSUME NEW s \in Shares, UserOpens(s) \/ UserCloses(s) PROVE UNCHANGED Switch!vars
  BY <1>6 DEF UserOpens, UserCloses
<1> QED
  BY <1>1, <1>2, <1>3, <1>4, <1>5, <1>6 DEF Environment

\* Whatever fails, overlaps or is killed, what the helper records, mounts, stops
\* and answers is what the abstract switch allows.
THEOREM HelperImplementsSwitch == Spec => ImplementsSwitch
<1>1. Init => Switch!Init
  BY DEF Init, Switch!Init, Switch!VmStates
<1>2. IInv /\ [Next]_vars => [Switch!Next]_(Switch!vars)
  <2> SUFFICES ASSUME IInv, [Next]_vars PROVE Switch!Next \/ UNCHANGED Switch!vars
    OBVIOUS
  <2>1. ASSUME NEW p \in Procs, HelperStep(p) PROVE Switch!Next \/ UNCHANGED Switch!vars
    BY <2>1, OffImplements, OnImplements DEF HelperStep
  <2>2. ASSUME NEW p \in Procs,
               \/ Request(p, "off") \/ Request(p, "on") \/ Acquire(p) \/ LockTimeout(p)
               \/ MarkerFails(p) \/ Kill(p)
        PROVE  UNCHANGED Switch!vars
    BY <2>2, StopsShortLemma DEF Request, Acquire, LockTimeout, StopsShort, host, Switch!vars
  <2>3. CASE UNCHANGED vars
    BY <2>3 DEF vars, Switch!vars
  <2> QED
    BY <2>1, <2>2, <2>3, EnvironmentImplements DEF Next
<1> QED
  BY <1>1, <1>2, Invariance, PTL DEF Spec, ImplementsSwitch, Switch!Spec

-----------------------------------------------------------------------------
(* The helper implements HelperCalls: every command of the script is work, *)
(* or the end, of the one process at work.                                 *)

Failures == {"busy", "container", "readiness", "unit", "state", "aborted", "killed"}

\* A rollback ends with the failure that made it begin.
Owes == \A p \in Procs : pc[p] \in RollbackPcs => exit[p] \in Failures

\* Only p moves, inside its transition or to its end.
Alone(p) ==
    /\ \A q \in Procs : q # p => pc'[q] = pc[q] /\ exit'[q] = exit[q] /\ pc[q] \notin CritPcs
    /\ \/ /\ pc'[p] \in CritPcs /\ (pc'[p] \in OnPcs <=> pc[p] \in OnPcs)
          /\ pc'[p] \in RollbackPcs => exit'[p] \in Failures
       \/ pc'[p] = "idle" /\ exit'[p] \in Failures
       \/ pc'[p] = "idle" /\ exit'[p] = "ok" /\ pc[p] \in {"off_confirm", "on_confirm"}

LEMMA GotoAlone ==
    ASSUME IInv, NEW p \in Procs, pc[p] \in CritPcs, NEW label \in CritPcs, NEW locals,
           GotoWith(p, label, locals), label \in OnPcs <=> pc[p] \in OnPcs,
           label \in RollbackPcs => exit[p] \in Failures
    PROVE  Alone(p) /\ pc'[p] = label /\ exit' = exit /\ loc'[p] = locals
<1>1. pc'[p] = label /\ exit' = exit /\ loc'[p] = locals
  BY DEF GotoWith, IInv, ProcTypeOK
<1>2. \A q \in Procs : q # p => pc'[q] = pc[q] /\ pc[q] \notin CritPcs
  BY DEF GotoWith, IInv, ProcTypeOK, Mutex
<1> QED
  BY <1>1, <1>2 DEF Alone

LEMMA RollBackAlone ==
    ASSUME IInv, NEW p \in Procs, pc[p] \in OffPcs, NEW code \in Failures, RollBack(p, code)
    PROVE  Alone(p) /\ pc'[p] = "rb_marker" /\ exit'[p] = code /\ loc' = loc
<1>1. pc'[p] = "rb_marker" /\ exit'[p] = code /\ loc' = loc
  BY DEF RollBack, IInv, ProcTypeOK
<1>2. \A q \in Procs : q # p => pc'[q] = pc[q] /\ exit'[q] = exit[q] /\ pc[q] \notin CritPcs
  BY DEF RollBack, IInv, ProcTypeOK, Mutex
<1> QED
  BY <1>1, <1>2 DEF Alone

LEMMA ExitAlone ==
    ASSUME IInv, NEW p \in Procs, pc[p] \in CritPcs, NEW code, Exit(p, code),
           code \in Failures \/ (code = "ok" /\ pc[p] \in {"off_confirm", "on_confirm"})
    PROVE  Alone(p) /\ pc'[p] = "idle" /\ exit'[p] = code
<1>1. pc'[p] = "idle" /\ exit'[p] = code
  BY DEF Exit, IInv, ProcTypeOK
<1>2. \A q \in Procs : q # p => pc'[q] = pc[q] /\ exit'[q] = exit[q] /\ pc[q] \notin CritPcs
  BY DEF Exit, IInv, ProcTypeOK, Mutex
<1> QED
  BY <1>1, <1>2 DEF Alone

LEMMA OffAlone ==
    ASSUME IInv, Owes, NEW p \in Procs, OffStep(p) \/ RollbackStep(p)
    PROVE  Alone(p)
<1>1. CASE OffRecord(p)
  BY <1>1, GotoAlone DEF OffRecord
<1>2. CASE OffStopHealth(p)
  BY <1>2, GotoAlone, RollBackAlone DEF OffStopHealth, Goto, Failures
<1>3. CASE OffStopAutomounts(p)
  BY <1>3, GotoAlone, RollBackAlone DEF OffStopAutomounts, Failures
<1>4. CASE OffUnmount(p)
  BY <1>4, GotoAlone, RollBackAlone DEF OffUnmount, Failures
<1>5. CASE OffInspect(p)
  BY <1>5, GotoAlone, ExitAlone DEF OffInspect, Goto, Failures
<1>6. CASE OffStop(p)
  BY <1>6, GotoAlone DEF OffStop, Goto
<1>7. CASE OffReinspect(p)
  BY <1>7, GotoAlone, RollBackAlone, ExitAlone DEF OffReinspect, Goto, Failures
<1>8. CASE OffConfirm(p)
  BY <1>8, ExitAlone DEF OffConfirm, Failures
<1>9. CASE RbMarker(p)
  BY <1>9, GotoAlone, ExitAlone DEF RbMarker, Goto, Owes
<1>10. CASE RbAutomounts(p)
  BY <1>10, GotoAlone DEF RbAutomounts, Goto, Owes
<1>11. CASE RbTimer(p)
  BY <1>11, ExitAlone DEF RbTimer, Owes
<1> QED
  BY <1>1, <1>2, <1>3, <1>4, <1>5, <1>6, <1>7, <1>8, <1>9, <1>10, <1>11 DEF OffStep, RollbackStep

LEMMA OnAlone ==
    ASSUME IInv, NEW p \in Procs, OnStep(p)
    PROVE  Alone(p)
<1>1. CASE OnInspect(p)
  BY <1>1, GotoAlone, ExitAlone DEF OnInspect, Goto, Failures
<1>2. CASE OnRecord(p) \/ OnStopHealth(p)
  BY <1>2, GotoAlone DEF OnRecord, OnStopHealth, Goto
<1>3. CASE OnStart(p)
  BY <1>3, GotoAlone, ExitAlone DEF OnStart, RecordAndDie, Aborts, Failures
<1>4. CASE OnAttempt(p)
  BY <1>4, GotoAlone, ExitAlone DEF OnAttempt, RecordAndDie, Aborts, Goto, Failures
<1>5. CASE OnClear(p)
  BY <1>5, GotoAlone DEF OnClear, Goto
<1>6. CASE OnArm(p)
  BY <1>6, GotoAlone DEF OnArm, Goto
<1>7. CASE OnAccess(p)
  <2>1. pc[p] = "on_access"
    BY <1>7 DEF OnAccess
  <2>2. PICK label \in {"on_access", "on_verify"} : \E locals : GotoWith(p, label, locals)
    BY <1>7 DEF OnAccess
  <2> QED
    BY <2>1, <2>2, GotoAlone
<1>8. CASE OnVerify(p)
  BY <1>8, GotoAlone DEF OnVerify, Goto
<1>9. CASE OnRearm(p)
  BY <1>9, GotoAlone DEF OnRearm, Goto
<1>10. CASE OnTeardown(p)
  BY <1>10, GotoAlone DEF OnTeardown
<1>11. CASE OnExpired(p)
  BY <1>11, GotoAlone DEF OnExpired, Goto
<1>12. CASE OnGiveUp(p)
  BY <1>12, ExitAlone DEF OnGiveUp, Failures
<1>13. CASE OnStartTimer(p)
  BY <1>13, GotoAlone, ExitAlone DEF OnStartTimer, Goto, Failures
<1>14. CASE OnConfirm(p)
  BY <1>14, ExitAlone DEF OnConfirm, Failures
<1> QED
  BY <1>1, <1>2, <1>3, <1>4, <1>5, <1>6, <1>7, <1>8, <1>9, <1>10, <1>11, <1>12, <1>13, <1>14
  DEF OnStep

LEMMA OwesInv == Spec => []Owes
<1>1. Init => Owes
  BY DEF Init, Owes
<1>2. IInv /\ Owes /\ [Next]_vars => Owes'
  <2> SUFFICES ASSUME IInv, Owes, [Next]_vars PROVE Owes'
    OBVIOUS
  <2>1. ASSUME NEW p \in Procs, HelperStep(p) PROVE Owes'
    <3>1. Alone(p)
      BY <2>1, OffAlone, OnAlone DEF HelperStep
    <3> QED
      BY <3>1 DEF Alone, Owes
  <2>2. ASSUME NEW p \in Procs, Request(p, "off") \/ Request(p, "on") \/ Acquire(p) \/ LockTimeout(p)
        PROVE  Owes'
    BY <2>2 DEF Request, Acquire, LockTimeout, WaitPcs, Owes, IInv, ProcTypeOK
  <2>3. ASSUME NEW p \in Procs, Kill(p) \/ MarkerFails(p) PROVE Owes'
    BY <2>3, StopsShortLemma DEF StopsShort, Exit, Owes, IInv, ProcTypeOK
  <2>4. CASE Reboot
    BY <2>4 DEF Reboot, Owes
  <2>5. CASE Environment /\ ~Reboot
    BY <2>5 DEF Environment, UserAccess, UserOpens, UserCloses, HealthTick, HealthDone, GuestAnswers,
       ByHand, CalmDown, proc, Owes
  <2>6. CASE UNCHANGED vars
    BY <2>6 DEF vars, Owes
  <2> QED
    BY <2>1, <2>2, <2>3, <2>4, <2>5, <2>6 DEF Next
<1> QED
  BY <1>1, <1>2, Invariance, PTL DEF Spec

\* The bridge is seen to be off exactly when it is, and no `off` may still undo it.
Disarmed == marker /\ armed = {} /\ mounted = {} /\ ~timer

LEMMA OffSeen == Bridge \in Calls!States /\ (Bridge = "off" <=> Disarmed /\ \A p \in Procs : ~Revocable(p))
BY DEF Bridge, HostState, Disarmed, Calls!States

LEMMA OffSeenNext ==
    Bridge' \in Calls!States /\ (Bridge' = "off" <=> Disarmed' /\ \A p \in Procs : ~Revocable(p)')
BY DEF Bridge, HostState, Disarmed, Calls!States

\* A command of an `off` that found the bridge off leaves it off.
LEMMA OffKept ==
    ASSUME IInv, Owes, NEW p \in Procs, OffStep(p) \/ RollbackStep(p), Bridge = "off"
    PROVE  Bridge' = "off"
<1>1. Disarmed /\ ~Revocable(p) /\ At(p) /\ HostTypeOK /\ loc[p] \in Locals
  BY OffSeen DEF IInv, ProcTypeOK
<1>2. Alone(p) /\ pc[p] \in OffPcs \cup RollbackPcs
  BY OffAlone DEF OffStep, RollbackStep, OffRecord, OffStopHealth, OffStopAutomounts,
     OffUnmount, OffInspect, OffStop, OffReinspect, OffConfirm, RbMarker, RbAutomounts, RbTimer
<1>3. \A q \in Procs : q # p => ~Revocable(q)'
  BY <1>2 DEF Alone, Revocable
<1>4. CASE OffRecord(p)
  <2>1. [loc[p] EXCEPT !.pre = marker].pre = TRUE
    BY <1>1 DEF Disarmed, Locals
  <2>2. loc'[p].pre = TRUE
    <3>1. loc'[p] = [loc[p] EXCEPT !.pre = marker]
      BY <1>4 DEF OffRecord, GotoWith, IInv, ProcTypeOK
    <3> QED
      BY <2>1, <3>1
  <2>3. ~Revocable(p)'
    BY <2>2 DEF Revocable
  <2>4. Disarmed'
    BY <1>1, <1>4 DEF OffRecord, KeepUnits, Disarmed
  <2> QED
    BY <1>3, <2>3, <2>4, OffSeenNext
<1>5. CASE ~OffRecord(p)
  <2>1. pc[p] # "off_marker"
    BY <1>5 DEF OffStep, RollbackStep, OffRecord, OffStopHealth, OffStopAutomounts,
       OffUnmount, OffInspect, OffStop, OffReinspect, OffConfirm, RbMarker, RbAutomounts, RbTimer
  <2>2. loc[p].pre = TRUE
    <3>1. loc[p].pre \in BOOLEAN
      BY <1>1 DEF Locals
    <3>2. loc[p].pre
      BY <1>1, <1>2, <2>1 DEF Revocable
    <3> QED
      BY <3>1, <3>2
  <2>3. ~RollsBack(p) /\ ~RbAutomounts(p) /\ ~RbTimer(p)
    BY <1>1, <2>2 DEF RollsBack, At, RbAutomounts, RbTimer
  <2>4. Disarmed'
    <3>1. CASE OffStopHealth(p)
      <4>1. UNCHANGED <<marker, armed, mounted>>
        BY <3>1 DEF OffStopHealth
      <4>2. timer' = FALSE \/ timer' = timer
        BY <3>1, Zenon DEF OffStopHealth
      <4>3. timer' = FALSE
        BY <1>1, <4>2 DEF Disarmed, HostTypeOK
      <4> QED
        BY <1>1, <4>1, <4>3, Zenon DEF Disarmed
    <3>5. CASE OffStopAutomounts(p)
      <4>1. armed = {}
        BY <1>1 DEF Disarmed
      <4>2. armed' = armed /\ UNCHANGED <<marker, mounted, timer>>
        BY <3>5, <4>1 DEF OffStopAutomounts
      <4> QED
        BY <1>1, <4>2, Zenon DEF Disarmed
    <3>2. CASE OffUnmount(p)
      <4>1. mounted = {} /\ mounted' = {}
        BY <1>1, <3>2 DEF OffUnmount, StopMount, Disarmed
      <4>2. marker' = marker /\ armed' = armed /\ timer' = timer
        BY <3>2 DEF OffUnmount
      <4> QED
        BY <1>1, <4>1, <4>2, Zenon DEF Disarmed
    <3>3. CASE OffInspect(p) \/ OffStop(p) \/ OffReinspect(p) \/ OffConfirm(p)
      <4>1. marker' = marker /\ KeepUnits
        BY <3>3 DEF OffInspect, OffStop, OffReinspect, OffConfirm
      <4> QED
        BY <1>1, <4>1, Zenon DEF KeepUnits, Disarmed
    <3>4. CASE RbMarker(p)
      <4>1. marker' = marker /\ KeepUnits
        BY <2>3, <3>4 DEF RbMarker
      <4> QED
        BY <1>1, <4>1, Zenon DEF KeepUnits, Disarmed
    <3> QED
      BY <1>5, <2>3, <3>1, <3>2, <3>3, <3>4, <3>5 DEF OffStep, RollbackStep
  <2>5. pc'[p] = "idle" \/ loc'[p].pre = TRUE
    <3>1. ASSUME NEW i PROVE [loc[p] EXCEPT !.idx = i].pre = TRUE
      BY <1>1, <2>2 DEF Locals
    <3>2. ASSUME NEW label, NEW locals, GotoWith(p, label, locals) PROVE loc'[p] = locals
      BY <3>2 DEF GotoWith, IInv, ProcTypeOK
    <3>3. ASSUME NEW code, RollBack(p, code) PROVE loc'[p].pre = TRUE
      BY <2>2, <3>3 DEF RollBack
    <3>4. ASSUME NEW code, Exit(p, code) PROVE pc'[p] = "idle"
      BY <3>4 DEF Exit, IInv, ProcTypeOK
    <3>5. CASE OffStopHealth(p) \/ OffInspect(p) \/ OffStop(p) \/ OffReinspect(p) \/ OffConfirm(p)
               \/ RbMarker(p)
      BY <2>2, <2>3, <3>2, <3>3, <3>4, <3>5 DEF OffStopHealth, OffInspect, OffStop, OffReinspect,
         OffConfirm, RbMarker, Goto
    <3>6. CASE OffStopAutomounts(p) \/ OffUnmount(p)
      BY <3>1, <3>2, <3>3, <3>6 DEF OffStopAutomounts, OffUnmount
    <3> QED
      BY <1>5, <2>3, <3>5, <3>6 DEF OffStep, RollbackStep
  <2>6. ~Revocable(p)'
    BY <2>5 DEF Revocable
  <2> QED
    BY <1>3, <2>4, <2>6, OffSeenNext
<1> QED
  BY <1>4, <1>5

\* What "ok" says is so.
LEMMA OkIsTrue ==
    ASSUME IInv, NEW p \in Procs, HelperStep(p), Alone(p), pc'[p] = "idle", exit'[p] = "ok"
    PROVE  Bridge' = Verb(p)
<1>1. At(p) /\ HostTypeOK /\ pc[p] \in {"off_confirm", "on_confirm"}
  BY DEF IInv, Alone, Failures
<1>2. OffConfirm(p) \/ OnConfirm(p)
  BY <1>1 DEF HelperStep, OffStep, RollbackStep, OnStep, OffRecord, OffStopHealth, OffStopAutomounts,
     OffUnmount, OffInspect, OffStop, OffReinspect, OffConfirm, RbMarker, RbAutomounts, RbTimer,
     OnInspect, OnRecord, OnStopHealth, OnStart, OnAttempt, OnClear, OnArm, OnAccess, OnVerify,
     OnRearm, OnTeardown, OnExpired, OnGiveUp, OnStartTimer, OnConfirm
<1>3. \A q \in Procs : ~Revocable(q)'
  BY DEF Alone, Revocable
<1>4. ASSUME NEW code, Exit(p, code) PROVE exit'[p] = code
  BY <1>4 DEF Exit, IInv, ProcTypeOK
<1>5. CASE OffConfirm(p)
  <2>1. Disarmed'
    BY <1>1, <1>4, <1>5 DEF OffConfirm, At, KeepUnits, Disarmed
  <2>2. Verb(p) = "off"
    BY <1>5 DEF OffConfirm, Verb
  <2> QED
    BY <1>3, <2>1, <2>2, OffSeenNext
<1>6. CASE OnConfirm(p)
  <2>1. ~marker' /\ armed' = Shares /\ timer'
    BY <1>1, <1>4, <1>6 DEF OnConfirm, At, KeepUnits
  <2>2. Verb(p) = "on"
    BY <1>6 DEF OnConfirm, Verb
  <2> QED
    BY <1>3, <2>1, <2>2 DEF Bridge, HostState
<1> QED
  BY <1>2, <1>5, <1>6

\* A process that does not move is seen to do what it did.
LEMMA StillSeen ==
    ASSUME NEW p \in Procs, pc'[p] = pc[p], exit'[p] = exit[p]
    PROVE  Process(p)' = Process(p) /\ Answer(p)' = Answer(p)
BY DEF Process, Verb, Answer

\* A command that is not the last is work.
LEMMA WorkServed ==
    ASSUME NEW p \in Procs, Alone(p), pc[p] \in CritPcs, pc'[p] # "idle",
           pc[p] \notin OnPcs /\ Bridge = "off" => Bridge' = "off"
    PROVE  Calls!Work(p)
<1>1. pc'[p] \in CritPcs /\ (pc'[p] \in OnPcs <=> pc[p] \in OnPcs)
  BY DEF Alone
<1>2. Process(p)' = Process(p) /\ Answer(p)' = Answer(p)
  BY <1>1 DEF Process, Verb, Answer, WaitPcs
<1>3. \A q \in Procs : Process(q)' = Process(q) /\ Answer(q)' = Answer(q)
  BY <1>2, StillSeen DEF Alone
<1>4. Processes' = Processes /\ GivenAnswers' = GivenAnswers
  BY <1>3 DEF Processes, GivenAnswers
<1>5. Processes[p].stage = "working" /\ Processes[p].want = Verb(p)
  BY DEF Processes, Process, WaitPcs
<1>6. Verb(p) = "off" => pc[p] \notin OnPcs
  BY DEF Verb
<1>7. [answer |-> "broken", bridge |-> Bridge'] \in Calls!Results(Verb(p), Bridge)
  BY <1>6, OffSeenNext DEF Calls!Results, Calls!States
<1> QED
  BY <1>4, <1>5, <1>7 DEF Calls!Work

LEMMA EndServed ==
    ASSUME IInv, NEW p \in Procs, pc[p] \in CritPcs, pc'[p] = "idle",
           \A q \in Procs : q # p => pc'[q] = pc[q] /\ exit'[q] = exit[q],
           exit'[p] \in Failures \/ (exit'[p] = "ok" /\ Bridge' = Verb(p)),
           pc[p] \notin OnPcs /\ Bridge = "off" => Bridge' = "off"
    PROVE  Calls!End(p)
<1> DEFINE given == IF exit'[p] = "ok" THEN "ok" ELSE "broken"
<1>1. Process(p)' = Calls!NoCall /\ Answer(p)' = given
  BY DEF Process, Answer, Calls!NoCall, Failures
<1>2. \A q \in Procs : q # p => Process(q)' = Process(q) /\ Answer(q)' = Answer(q)
  BY StillSeen
<1>3. Processes' = [Processes EXCEPT ![p] = Calls!NoCall]
  BY <1>1, <1>2 DEF Processes
<1>4. GivenAnswers' = [GivenAnswers EXCEPT ![p] = given]
  BY <1>1, <1>2 DEF GivenAnswers
<1>5. Processes[p].stage = "working" /\ Processes[p].want = Verb(p)
  BY DEF Processes, Process, WaitPcs
<1>6. Verb(p) = "off" => pc[p] \notin OnPcs
  BY DEF Verb
<1> DEFINE r == [answer |-> given, bridge |-> Bridge']
<1>7. r \in Calls!Results(Verb(p), Bridge) /\ r.answer = given /\ r.bridge = Bridge'
  BY <1>6, OffSeenNext DEF Calls!Results, Calls!States, Failures
<1> HIDE DEF r, given
<1> QED
  BY <1>3, <1>4, <1>5, <1>7 DEF Calls!End

\* What a command of the script is to the callers.
LEMMA StepServed ==
    ASSUME IInv, Owes, NEW p \in Procs, HelperStep(p)
    PROVE  Calls!Next
<1>1. Alone(p)
  BY OffAlone, OnAlone DEF HelperStep
<1>2. pc[p] \in CritPcs /\ (pc[p] \in OnPcs <=> OnStep(p))
  BY DEF HelperStep, OffStep, RollbackStep, OnStep, OffRecord, OffStopHealth, OffStopAutomounts,
     OffUnmount, OffInspect, OffStop, OffReinspect, OffConfirm, RbMarker, RbAutomounts, RbTimer,
     OnInspect, OnRecord, OnStopHealth, OnStart, OnAttempt, OnClear, OnArm, OnAccess, OnVerify,
     OnRearm, OnTeardown, OnExpired, OnGiveUp, OnStartTimer, OnConfirm
<1>3. pc[p] \notin OnPcs /\ Bridge = "off" => Bridge' = "off"
  BY <1>2, OffKept DEF HelperStep
<1>4. CASE pc'[p] # "idle"
  BY <1>1, <1>2, <1>3, <1>4, WorkServed DEF Calls!Next
<1>5. CASE pc'[p] = "idle"
  <2>1. exit'[p] \in Failures \/ (exit'[p] = "ok" /\ Bridge' = Verb(p))
    BY <1>1, <1>5, OkIsTrue DEF Alone
  <2> QED
    BY <1>1, <1>2, <1>3, <1>5, <2>1, EndServed DEF Alone, Calls!Next
<1> QED
  BY <1>4, <1>5

LEMMA StopsShortServed ==
    ASSUME IInv, NEW p \in Procs, NEW code \in {"killed", "aborted"}, StopsShort(p, code)
    PROVE  Calls!Next
<1>1. /\ pc[p] \in CritPcs /\ pc'[p] = "idle" /\ exit'[p] = code
      /\ \A q \in Procs : q # p => pc'[q] = pc[q] /\ exit'[q] = exit[q] /\ pc[q] \notin CritPcs
  BY DEF StopsShort, Exit, IInv, ProcTypeOK, Mutex
<1>2. Bridge = "off" => Bridge' = "off"
  <2>1. UNCHANGED <<marker, armed, mounted, timer>>
    BY DEF StopsShort, host
  <2>2. \A q \in Procs : ~Revocable(q)'
    BY <1>1 DEF Revocable
  <2>3. Disarmed' = Disarmed
    BY <2>1, Zenon DEF Disarmed
  <2> QED
    BY <2>2, <2>3, OffSeen, OffSeenNext
<1> QED
  BY <1>1, <1>2, EndServed DEF Failures, Calls!Next

\* While marker, automounts, mounts and timer stay as they are, and no transition
\* moves, the callers see the same bridge.
LEMMA BridgeUnmoved ==
    ASSUME HostState' = HostState, \A p \in Procs : Revocable(p)' <=> Revocable(p)
    PROVE  Bridge' = Bridge
BY DEF Bridge

LEMMA HostUnmoved ==
    ASSUME UNCHANGED <<marker, armed, mounted, timer>>
    PROVE  HostState' = HostState
BY Zenon DEF HostState

LEMMA AskServed ==
    ASSUME IInv, NEW p \in Procs, Request(p, "off") \/ Request(p, "on")
    PROVE  Calls!Ask(p)
<1> DEFINE want == Verb(p)'
<1>1. /\ pc[p] = "idle" /\ exit'[p] = "none" /\ loc' = loc
      /\ pc'[p] \in WaitPcs
      /\ \A q \in Procs : q # p => pc'[q] = pc[q] /\ exit'[q] = exit[q]
  BY DEF Request, IInv, ProcTypeOK, WaitPcs
<1>2. Bridge' = Bridge
  <2>1. \A q \in Procs : Revocable(q)' <=> Revocable(q)
    BY <1>1 DEF Revocable, WaitPcs
  <2>2. UNCHANGED <<marker, armed, mounted, timer>>
    BY DEF Request, host
  <2> QED
    BY <2>1, <2>2, HostUnmoved, BridgeUnmoved
<1>3. /\ Process(p) = Calls!NoCall /\ Process(p)' = Calls!Call("waiting", want)
      /\ Answer(p)' = "none" /\ want \in Calls!Verbs
  BY <1>1 DEF Process, Verb, Answer, WaitPcs, Calls!NoCall, Calls!Call, Calls!Verbs
<1>4. \A q \in Procs : q # p => Process(q)' = Process(q) /\ Answer(q)' = Answer(q)
  BY <1>1, StillSeen
<1> HIDE DEF want
<1>5. /\ Processes[p] = Calls!NoCall
      /\ Processes' = [Processes EXCEPT ![p] = Calls!Call("waiting", want)]
      /\ GivenAnswers' = [GivenAnswers EXCEPT ![p] = "none"]
  BY <1>3, <1>4 DEF Processes, GivenAnswers
<1> QED
  BY <1>2, <1>3, <1>5 DEF Calls!Ask

LEMMA LockServed ==
    ASSUME IInv, NEW p \in Procs, Acquire(p)
    PROVE  Calls!Lock(p)
<1>1. /\ pc[p] \in WaitPcs /\ lock = NoProc /\ loc' = loc /\ exit' = exit
      /\ pc'[p] = IF pc[p] = "off_wait" THEN "off_marker" ELSE "on_inspect"
      /\ \A q \in Procs : q # p => pc'[q] = pc[q]
  BY DEF Acquire, AcquireGuard, IInv, ProcTypeOK
<1>2. \A q \in Procs : pc[q] \notin CritPcs /\ pc[q] \in {"idle"} \cup WaitPcs \cup CritPcs
  BY <1>1, NoProcAssumption DEF IInv, Mutex, ProcTypeOK
<1>3. Bridge' = Bridge
  <2>1. \A q \in Procs : Revocable(q)' <=> Revocable(q)
    BY <1>1 DEF Revocable, WaitPcs
  <2>2. UNCHANGED <<marker, armed, mounted, timer>>
    BY DEF Acquire, host
  <2> QED
    BY <2>1, <2>2, HostUnmoved, BridgeUnmoved
<1>4. /\ Process(p) = Calls!Call("waiting", Verb(p)) /\ Process(p)' = Calls!Call("working", Verb(p))
      /\ Answer(p)' = Answer(p)
  BY <1>1 DEF Process, Verb, Answer, WaitPcs, Calls!Call
<1>5. \A q \in Procs : q # p => Process(q)' = Process(q) /\ Answer(q)' = Answer(q)
  BY <1>1, StillSeen
<1>6. \A q \in Procs : Processes[q].stage # "working"
  <2>1. ASSUME NEW q \in Procs PROVE Process(q).stage # "working"
    <3>1. pc[q] = "idle" \/ pc[q] \in WaitPcs
      BY <1>2
    <3> QED
      BY <3>1 DEF Process
  <2> QED
    BY <2>1 DEF Processes
<1>7. /\ Processes[p].stage = "waiting" /\ Processes[p].want = Verb(p)
      /\ Processes' = [Processes EXCEPT ![p] = Calls!Call("working", Verb(p))]
      /\ GivenAnswers' = GivenAnswers
  <2>1. Process(p).stage = "waiting" /\ Process(p).want = Verb(p)
    BY <1>4 DEF Calls!Call
  <2>2. Processes' = [Processes EXCEPT ![p] = Calls!Call("working", Verb(p))]
    BY <1>4, <1>5 DEF Processes
  <2>3. GivenAnswers' = GivenAnswers
    BY <1>4, <1>5 DEF GivenAnswers
  <2> QED
    BY <2>1, <2>2, <2>3 DEF Processes
<1> QED
  BY <1>3, <1>6, <1>7 DEF Calls!Lock

LEMMA UnservedServed ==
    ASSUME IInv, NEW p \in Procs, LockTimeout(p)
    PROVE  Calls!Unserved(p)
<1>1. /\ pc[p] \in WaitPcs /\ loc' = loc /\ exit'[p] = "lock" /\ pc'[p] = "idle"
      /\ \A q \in Procs : q # p => pc'[q] = pc[q] /\ exit'[q] = exit[q]
  BY DEF LockTimeout, IInv, ProcTypeOK
<1>2. Bridge' = Bridge
  <2>1. \A q \in Procs : Revocable(q)' <=> Revocable(q)
    BY <1>1 DEF Revocable, WaitPcs
  <2>2. UNCHANGED <<marker, armed, mounted, timer>>
    BY DEF LockTimeout, host
  <2> QED
    BY <2>1, <2>2, HostUnmoved, BridgeUnmoved
<1>3. /\ Process(p).stage = "waiting" /\ Process(p)' = Calls!NoCall /\ Answer(p)' = "unserved"
  BY <1>1 DEF Process, Answer, WaitPcs, Calls!NoCall
<1>4. \A q \in Procs : q # p => Process(q)' = Process(q) /\ Answer(q)' = Answer(q)
  BY <1>1, StillSeen
<1>5. /\ Processes[p].stage = "waiting"
      /\ Processes' = [Processes EXCEPT ![p] = Calls!NoCall]
      /\ GivenAnswers' = [GivenAnswers EXCEPT ![p] = "unserved"]
  BY <1>3, <1>4 DEF Processes, GivenAnswers
<1> QED
  BY <1>2, <1>5 DEF Calls!Unserved

\* Nothing on the host but a helper, or a restart, changes what the callers see.
LEMMA EnvironmentServed ==
    ASSUME IInv, Environment
    PROVE  Calls!Next \/ UNCHANGED Calls!vars
<1>0. HostTypeOK
  BY DEF IInv
<1>1. CASE ~Reboot
  <2>1. UNCHANGED <<marker, armed, timer, pc, loc, exit>>
    BY <1>1 DEF Environment, UserAccess, UserOpens, UserCloses, HealthTick, HealthDone, GuestAnswers,
       ByHand, CalmDown, proc, host
  <2>2. mounted' = mounted \/ ~marker
    BY <1>1 DEF Environment, UserAccess, UserOpens, UserCloses, HealthTick, HealthDone, GuestAnswers,
       ByHand, CalmDown, host, AutomountTriggers
  <2>3. HostState' = HostState
    <3>1. CASE mounted' = mounted
      BY <2>1, <3>1, HostUnmoved
    <3>2. CASE ~marker
      BY <2>1, <3>2, Zenon DEF HostState
    <3> QED
      BY <2>2, <3>1, <3>2
  <2>4. \A p \in Procs : Revocable(p)' <=> Revocable(p)
    BY <2>1 DEF Revocable
  <2>5. \A p \in Procs : Process(p)' = Process(p) /\ Answer(p)' = Answer(p)
    BY <2>1, StillSeen
  <2>6. Processes' = Processes /\ GivenAnswers' = GivenAnswers
    BY <2>5 DEF Processes, GivenAnswers
  <2> QED
    BY <2>3, <2>4, <2>6, BridgeUnmoved DEF Calls!vars
<1>2. CASE Reboot
  <2>1. Bridge' \in IF Bridge = "partial" THEN Calls!States ELSE {Bridge}
    <3>1. \A p \in Procs : pc'[p] = "idle"
      BY <1>2 DEF Reboot
    <3>2. \A p \in Procs : ~Revocable(p)'
      BY <3>1 DEF Revocable
    <3>3. CASE Bridge = "off"
      <4>1. Disarmed
        BY <3>3, OffSeen
      <4>2. marker = TRUE
        BY <1>0, <4>1 DEF Disarmed, HostTypeOK
      <4>3. marker' = TRUE /\ armed' = {} /\ mounted' = {} /\ timer' = FALSE
        BY <1>2, <4>2 DEF Reboot, BootArms
      <4>4. Disarmed'
        BY <4>3 DEF Disarmed
      <4> QED
        BY <3>2, <3>3, <4>4, OffSeenNext
    <3>4. CASE Bridge = "on"
      <4>1. marker = FALSE
        BY <1>0, <3>4 DEF Bridge, HostState, HostTypeOK
      <4>2. marker' = FALSE /\ armed' = Shares /\ timer' = TRUE
        BY <1>2, <4>1 DEF Reboot, BootArms
      <4> QED
        BY <3>2, <3>4, <4>2 DEF Bridge, HostState
    <3> QED
      BY <3>3, <3>4, OffSeen, OffSeenNext DEF Calls!States
  <2>2. Processes' = [p \in Procs |-> Calls!NoCall]
    BY <1>2 DEF Reboot, Processes, Process, Calls!NoCall
  <2>3. ASSUME NEW p \in Procs
        PROVE  Answer(p)' = IF Process(p) = Calls!NoCall THEN Answer(p) ELSE "broken"
    <3>1. pc'[p] = "idle" /\ exit'[p] = IF pc[p] = "idle" THEN exit[p] ELSE "killed"
      BY <1>2 DEF Reboot
    <3> QED
      BY <3>1 DEF Answer, Process, Calls!NoCall
  <2>4. GivenAnswers' = [p \in Procs |-> IF Processes[p] = Calls!NoCall THEN GivenAnswers[p] ELSE "broken"]
    BY <2>3 DEF GivenAnswers, Processes
  <2> QED
    BY <2>1, <2>2, <2>4 DEF Calls!Next, Calls!Restart
<1> QED
  BY <1>1, <1>2

\* The helper is what its callers take it for, whatever overlaps, fails or is
\* killed: one process at a time works, "ok" is the state asked for, a failing
\* `off` leaves an off bridge off, and nothing but a helper, or a restart that
\* finds it in between, changes what the bridge is.
THEOREM HelperServesCalls == Spec => ServesCalls
<1>1. Init => Calls!Init
  <2> SUFFICES ASSUME Init PROVE Calls!Init
    OBVIOUS
  <2>1. Processes = [p \in Procs |-> Calls!NoCall] /\ GivenAnswers = [p \in Procs |-> "none"]
    BY DEF Init, Processes, Process, Answer, GivenAnswers, Calls!NoCall
  <2> QED
    BY <2>1, OffSeen DEF Calls!Init
<1>2. IInv /\ Owes /\ [Next]_vars => [Calls!Next]_(Calls!vars)
  <2> SUFFICES ASSUME IInv, Owes, [Next]_vars PROVE Calls!Next \/ UNCHANGED Calls!vars
    OBVIOUS
  <2>1. ASSUME NEW p \in Procs, HelperStep(p) PROVE Calls!Next
    BY <2>1, StepServed
  <2>2. ASSUME NEW p \in Procs,
               \/ Request(p, "off") \/ Request(p, "on") \/ Acquire(p) \/ LockTimeout(p)
               \/ MarkerFails(p) \/ Kill(p)
        PROVE  Calls!Next
    BY <2>2, AskServed, LockServed, UnservedServed, StopsShortLemma, StopsShortServed DEF Calls!Next
  <2>3. CASE UNCHANGED vars
    <3>1. UNCHANGED <<marker, armed, mounted, timer, pc, loc, exit>>
      BY <2>3 DEF vars
    <3>2. \A p \in Procs : (Revocable(p)' <=> Revocable(p)) /\ Process(p)' = Process(p) /\ Answer(p)' = Answer(p)
      BY <3>1, StillSeen DEF Revocable
    <3> QED
      BY <3>1, <3>2, HostUnmoved, BridgeUnmoved DEF Calls!vars, Processes, GivenAnswers
  <2> QED
    BY <2>1, <2>2, <2>3, EnvironmentServed DEF Next
<1> QED
  BY <1>1, <1>2, Invariance, OwesInv, PTL DEF Spec, ServesCalls, Calls!Spec

=============================================================================
