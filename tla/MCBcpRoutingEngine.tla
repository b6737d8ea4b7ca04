------------------------- MODULE MCBcpRoutingEngine -------------------------
(* TLC instances of BcpRoutingEngine. *)
EXTENDS BcpRoutingEngine, TLC
CONSTANTS a, b, self, null

(* a measurement of 0, one that leaves the link in use, and the largest     *)
(* one, which shuts a fresh neighbour out                                   *)
Measured == {0, 30, MAX_TX_TIME}
Interchangeable == Permutations(Addr)
=============================================================================
