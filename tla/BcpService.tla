----------------------------- MODULE BcpService -----------------------------
(***************************************************************************)
(* What a network of BCP connections promises to its users, and no more:   *)
(* sinks only deliver packets that some bcp_send accepted, any number of   *)
(* times; and a node gets at most one `sent' callback for every delivery   *)
(* it made to a sink, each for some accepted packet of the network.        *)
(***************************************************************************)
EXTENDS Naturals

CONSTANTS Node, Packet

VARIABLES
  accepted,   \* packets for which bcp_send returned non-zero
  delivered,  \* packets passed to the recv callback of a sink
  confirmed,  \* <<n, p>>: the sent callback was called at n for p
  credit      \* credit[n]: deliveries made by n and not confirmed to it

vars == <<accepted, delivered, confirmed, credit>>

Init ==
  /\ accepted = {} /\ delivered = {} /\ confirmed = {}
  /\ credit = [n \in Node |-> 0]

Accept(p) ==
  /\ p \notin accepted
  /\ accepted' = accepted \cup {p}
  /\ UNCHANGED <<delivered, confirmed, credit>>

(* the sink may find no buffer for the ACK *)
Deliver(n, p) ==
  /\ p \in accepted
  /\ delivered' = delivered \cup {p}
  /\ \/ credit' = [credit EXCEPT ![n] = @ + 1]
     \/ UNCHANGED credit
  /\ UNCHANGED <<accepted, confirmed>>

Confirm(n, p) ==
  /\ credit[n] > 0
  /\ p \in accepted
  /\ credit' = [credit EXCEPT ![n] = @ - 1]
  /\ confirmed' = confirmed \cup {<<n, p>>}
  /\ UNCHANGED <<accepted, delivered>>

(* an ACK is lost, or finds the queue empty *)
Forfeit(n) ==
  /\ credit[n] > 0
  /\ credit' = [credit EXCEPT ![n] = @ - 1]
  /\ UNCHANGED <<accepted, delivered, confirmed>>

Next ==
  \/ \E p \in Packet : Accept(p)
  \/ \E n \in Node, p \in Packet : Deliver(n, p) \/ Confirm(n, p)
  \/ \E n \in Node : Forfeit(n)

Spec == Init /\ [][Next]_vars
=============================================================================
