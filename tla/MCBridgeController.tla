------------------------- MODULE MCBridgeController -------------------------
(* What the operator asks for in the instances TLC checks: everything, or  *)
(* only the power requests, with more work in flight.                      *)
EXTENDS BridgeController

All == {"power", "window", "restore", "setup", "provision"}
Power == {"power"}

=============================================================================
