-------------------------- MODULE MCSafeWorkspace --------------------------
(***************************************************************************)
(* The instances of SafeWorkspace that TLC checks.                         *)
(***************************************************************************)
EXTENDS SafeWorkspace, TLC

\* Paths are only compared, never ordered.
Symmetric == Permutations(Paths)

=============================================================================
