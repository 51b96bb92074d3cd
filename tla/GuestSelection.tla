--------------------------- MODULE GuestSelection ---------------------------
(***************************************************************************)
(* What the guest promises about selections, whoever writes them and       *)
(* however writes, passes and failures overlap: it enforces only what was  *)
(* proposed, it moves from one selection to the next by the revision       *)
(* alone, and never back or to a second selection under a number that it   *)
(* enforces.  Only a guest that has lost its state, or is new, begins      *)
(* again.  ExclusionsFile (the document's writers) and AgentEnforcement    *)
(* (the agent's passes) both implement this specification.                 *)
(***************************************************************************)
EXTENDS Integers

CONSTANT Selections

VARIABLES
    proposed,   \* the document that is on the share
    pending,    \* documents the guest has read and does not enforce yet
    enforced    \* the document that the guest answers for

vars == <<proposed, pending, enforced>>

NoRevision == -1
Documents == [rev : Nat \cup {NoRevision}, sel : Selections]
Beginnings == {doc \in Documents : doc.rev = NoRevision}

Init ==
    /\ proposed \in Documents
    /\ pending = {}
    /\ enforced \in Beginnings

Propose ==
    /\ proposed' \in Documents
    /\ UNCHANGED <<pending, enforced>>

\* The guest reads what is proposed, or gives up on what it has read.
Take ==
    /\ pending' \subseteq pending \cup {proposed}
    /\ UNCHANGED <<proposed, enforced>>

\* By now something else may be proposed.
Enforce ==
    /\ enforced' \in pending
    /\ enforced'.rev > enforced.rev
    /\ pending' \subseteq pending
    /\ UNCHANGED proposed

Forget ==
    /\ enforced' \in Beginnings
    /\ pending' = {}
    /\ UNCHANGED proposed

NewGuest ==
    /\ proposed' \in {doc \in Documents : doc.rev = 0}
    /\ enforced' \in Beginnings
    /\ pending' = {}

Next == Propose \/ Take \/ Enforce \/ Forget \/ NewGuest

Spec == Init /\ [][Next]_vars

=============================================================================
