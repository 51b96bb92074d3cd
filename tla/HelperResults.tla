---------------------------- MODULE HelperResults ----------------------------
(***************************************************************************)
(* What an answer of the power helper says of the bridge: of the marker,   *)
(* the automounts, the mounts and the health timer together.               *)
(***************************************************************************)

Verbs == {"on", "off"}
States == {"on", "off", "partial"}

\* What a call that found the bridge in this state may answer, and leave behind.
\* "ok" means the state asked for.  Any other answer may leave anything, except
\* that an `off` never takes a bridge that is off out of that state.
Results(want, found) ==
    {r \in [answer : {"ok", "broken"}, bridge : States] :
        /\ r.answer = "ok" => r.bridge = want
        /\ want = "off" /\ found = "off" => r.bridge = "off"}

=============================================================================
