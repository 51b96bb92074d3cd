--------------------------- MODULE MCPowerHelper ----------------------------
(***************************************************************************)
(* The invocations TLC explores: one with both shares, or two that overlap.*)
(***************************************************************************)
EXTENDS PowerHelper, TLC

CONSTANTS p1, p2

OneProc == {p1}
TwoProcs == {p1, p2}

\* Invocations are interchangeable: no action or invariant tells them apart.
McSymmetry == Permutations(TwoProcs)

=============================================================================
