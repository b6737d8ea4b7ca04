----------------------------- MODULE MCBcpNode -----------------------------
(* TLC instances of BcpNode: nodes that run bcp.c and neighbours that may   *)
(* send them anything.                                                      *)
EXTENDS BcpNode, FiniteSets
CONSTANTS n, s, a, p

(* Nodes of BcpNode share nothing and the properties are about single       *)
(* nodes, so the sender n and the sink s are explored one at a time: the    *)
(* other one stays as it was, and no fair action of it is enabled.          *)
Touched(m) ==
  \/ up[m] \/ busy[m]
  \/ sendTimer[m] \/ beaconTimer[m] \/ retxTimer[m]
  \/ table[m] # <<>> \/ radio[m] # <<>>
OneAtATime == Cardinality({m \in Node : Touched(m)}) <= 1
OneAtATimeSpec == Init /\ [][Next /\ OneAtATime']_vars /\ Fairness
=============================================================================
