---------------------------- MODULE MCBcpNetwork ----------------------------
(* TLC instances of BcpNetwork: a star (a next to the sink s) and a line    *)
(* (a, the relay r, the sink s).                                            *)
EXTENDS BcpNetwork
CONSTANTS a, r, s, p1, p2

BothWays(pairs) == pairs \cup {<<l[2], l[1]>> : l \in pairs}
LineLink == BothWays({<<a, r>>, <<r, s>>})
StarLink == BothWays({<<a, s>>})
AllFromA == [p \in Packet |-> a]
=============================================================================
