------------------------------- MODULE SetupRuns -------------------------------
(***************************************************************************)
(* What the app and the guest promise about the runs of a setup, whatever  *)
(* crashes, restarts and late answers come in between: runs are settled in *)
(* the order in which they were drawn, each is started at most once and    *)
(* one at a time, sets the password that was left for it, and is reported  *)
(* as done only if it was.  GuestProvisioning implements this              *)
(* specification.                                                          *)
(***************************************************************************)
EXTENDS Integers

CONSTANT Runs   \* the ids, numbers in order of use

VARIABLES
    drawn,      \* the runs the app has begun
    settled,    \* those which the guest starts no more: begun, or passed over
    running,    \* the one it executes, as a set
    given,      \* the one among these that has its password
    password,   \* the run for which a password lies ready, as a set
    done,       \* the runs that ended well
    told        \* the run the app takes for done, as a set

vars == <<drawn, settled, running, given, password, done, told>>

Init ==
    /\ drawn = {} /\ settled = {} /\ running = {} /\ given = {}
    /\ password = {} /\ done = {} /\ told = {}

Draw ==
    /\ \E r \in Runs : (\A s \in drawn : s < r) /\ drawn' = drawn \cup {r}
    /\ UNCHANGED <<settled, running, given, password, done, told>>

\* A run that the guest turns to leaves those before it behind.
Settle(r) ==
    /\ r \in drawn \ settled
    /\ running = {}
    /\ settled' = settled \cup {s \in drawn : s <= r}

Start ==
    /\ \E r \in drawn : Settle(r) /\ running' = {r}
    /\ UNCHANGED <<drawn, given, password, done, told>>

\* It cannot be started.
Skip ==
    /\ \E r \in drawn : Settle(r)
    /\ UNCHANGED <<drawn, running, given, password, done, told>>

Leave ==
    /\ \E r \in settled : password' = {r}
    /\ UNCHANGED <<drawn, settled, running, given, done, told>>

Withdraw ==
    /\ password' = {}
    /\ UNCHANGED <<drawn, settled, running, given, done, told>>

Take ==
    /\ running # {} /\ password = running
    /\ given' = running
    /\ UNCHANGED <<drawn, settled, running, password, done, told>>

\* Well or not; a restart of the guest may take what lies ready with it.
End ==
    /\ running' = {} /\ given' = {}
    /\ done' \in {done, done \cup running}
    /\ password' \in {password, {}}
    /\ UNCHANGED <<drawn, settled, told>>

Tell ==
    /\ \E r \in done : told' = {r}
    /\ UNCHANGED <<drawn, settled, running, given, password, done>>

Recant ==
    /\ told' = {}
    /\ UNCHANGED <<drawn, settled, running, given, password, done>>

Next ==
    \/ Draw \/ Start \/ Skip \/ Leave \/ Withdraw \/ Take \/ End \/ Tell \/ Recant

Spec == Init /\ [][Next]_vars

=============================================================================
