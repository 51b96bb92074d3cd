--------------------------- MODULE MCListRequests ---------------------------
(***************************************************************************)
(* The instances of ListRequests that TLC checks.                          *)
(***************************************************************************)
EXTENDS ListRequests

CONSTANT folder

OneFolder == {folder}

=============================================================================
