-------------------------- MODULE MCExclusionsFile --------------------------
(***************************************************************************)
(* The instances of ExclusionsFile that TLC checks: a folder and a file in *)
(* it, so that three canonical selections exist.                           *)
(***************************************************************************)
EXTENDS ExclusionsFile, TLC

CONSTANTS folder, inner, j1, j2

TwoItems == {folder, inner}
InnerInFolder == {<<inner, folder>>}
TwoJobs == {j1, j2}
Symmetric == Permutations(TwoJobs)

=============================================================================
