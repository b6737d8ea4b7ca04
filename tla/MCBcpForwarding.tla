--------------------------- MODULE MCBcpForwarding ---------------------------
(* TLC instances of BcpForwarding. *)
EXTENDS BcpForwarding
CONSTANTS a, b, p1, p2, null
=============================================================================
