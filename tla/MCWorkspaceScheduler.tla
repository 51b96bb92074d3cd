------------------------ MODULE MCWorkspaceScheduler ------------------------
(***************************************************************************)
(* The instances of WorkspaceScheduler that TLC checks.  A tick is 20 s:   *)
(* the drain waits for 2, a cycle may take 6.                              *)
(***************************************************************************)
EXTENDS WorkspaceScheduler

ThreeWorkspaces == 1 .. 3

=============================================================================
