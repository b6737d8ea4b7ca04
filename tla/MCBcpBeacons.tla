---------------------------- MODULE MCBcpBeacons ----------------------------
(* TLC instances of BcpBeacons. *)
EXTENDS BcpBeacons
CONSTANT none
=============================================================================
