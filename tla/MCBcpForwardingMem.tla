------------------------- MODULE MCBcpForwardingMem -------------------------
(* TLC instances of BcpForwardingMem. *)
EXTENDS BcpForwardingMem
CONSTANTS p1, p2, blank
=============================================================================
