------------------------- MODULE MCAgentEnforcement -------------------------
(***************************************************************************)
(* The libraries TLC explores: a folder with a file in it and another file *)
(* beside it.                                                              *)
(***************************************************************************)
EXTENDS AgentEnforcement

FolderAndFile == <<0, 1, 0>>

OneFolder == <<0, 1>>

=============================================================================
