-------------------------- MODULE MCGuestProvisioning --------------------------
(***************************************************************************)
(* The instances of GuestProvisioning that TLC checks.                     *)
(***************************************************************************)
EXTENDS GuestProvisioning

=============================================================================
