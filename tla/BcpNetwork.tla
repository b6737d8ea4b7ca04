----------------------------- MODULE BcpNetwork -----------------------------
(***************************************************************************)
(* BCP nodes joined by radio links: the frames a node receives are those   *)
(* its neighbours sent.  A broadcast reaches any subset of the neighbours. *)
(* A receiver holds at most INBOX frames until its process runs, and loses *)
(* those that arrive beyond.  ACKs wait in the MAC of the sink, one queue  *)
(* per destination, and may be lost.                                       *)
(***************************************************************************)
EXTENDS BcpNode, FiniteSets

CONSTANTS
  Link,       \* the symmetric radio range: a set of pairs of nodes
  Origin,     \* the node whose application sends a packet
  INBOX,      \* bound: received frames a node holds
  MAX_ACKS,   \* bound: ACKs a sink holds for one destination
  Settles,    \* does the medium stop losing frames at some time?
  Prompt      \* explore only the orders in which a received frame is
              \* processed before the next event of any node

ASSUME NetworkAssumption ==
  /\ Addr = Node
  /\ Link \subseteq Node \X Node
  /\ \A l \in Link : l[1] # l[2] /\ <<l[2], l[1]>> \in Link
  /\ Origin \in [Packet -> Node]
  /\ INBOX \in Nat \ {0}
  /\ MAX_ACKS \in Nat \ {0}
  /\ Settles \in BOOLEAN
  /\ Prompt \in BOOLEAN
  /\ ~Closes    \* no application of the repository calls bcp_close

VARIABLES
  inbox,      \* received frames, oldest first
  lossy,      \* may frames and ACKs still be lost?
  acks,       \* acks[s][n]: ACKs of sink s for n that the MAC holds
  offered,    \* packets the application has passed to bcp_send
  accepted,   \* packets for which bcp_send returned non-zero
  delivered,  \* items passed to the recv callback of a sink
  confirmed   \* <<n, p>>: the sent callback was called at n for packet p

netVars == <<inbox, lossy, acks>>
appVars == <<offered, accepted, delivered, confirmed>>
allVars == <<vars, netVars, appVars>>

Neighbours(n) == {m \in Node : <<n, m>> \in Link}
NextToSink(n) == Neighbours(n) \cap Sink # {}

(* Handling a frame at m commutes with the steps of the other nodes and     *)
(* with the completion of m's own frames, and handing a frame to a MAC that *)
(* finishes it inside the call commutes with the steps of the other nodes:  *)
(* Prompt explores one order of such pairs.                                 *)
FramesHandled == Prompt => \A m \in Node : MayRun(m) => inbox[m] = <<>>
InOrder ==
  /\ FramesHandled
  /\ Prompt /\ SyncMac => \A m \in Node : radio[m] = <<>>

----------------------------------------------------------------------------
(* send_packet of sender.c: every packet is sent once *)
AppSend(n, p) ==
  /\ InOrder
  /\ Origin[p] = n /\ p \notin offered
  /\ UserSend(n, p)
  /\ offered' = offered \cup {p}
  /\ accepted' = IF HasRoom(n) THEN accepted \cup {p} ELSE accepted
  /\ UNCHANGED <<delivered, confirmed, netVars>>

Boot(n) == InOrder /\ Open(n) /\ UNCHANGED <<netVars, appVars>>

SendTimerStep(n) == InOrder /\ SendTimerFires(n) /\ UNCHANGED <<netVars, appVars>>
BeaconTimerStep(n) == InOrder /\ BeaconTimerFires(n) /\ UNCHANGED <<netVars, appVars>>
RetxTimerStep(n) == InOrder /\ RetxTimerFires(n) /\ UNCHANGED <<netVars, appVars>>

(* The MAC sends the oldest frame of n: the nodes in R receive it *)
CanHear(n) == {m \in Neighbours(n) : up[m] /\ Len(inbox[m]) < INBOX}

Broadcast(n, R) ==
  /\ FramesHandled
  /\ R \subseteq CanHear(n)
  /\ ~lossy => R = CanHear(n)
  /\ Sent(n)
  /\ inbox' = [m \in Node |-> IF m \in R
                              THEN Append(inbox[m], [from |-> n, frame |-> Head(radio[n])])
                              ELSE inbox[m]]
  /\ UNCHANGED <<lossy, acks, appVars>>

(* mutant: the sink acknowledges a frame twice *)
QueueAckTwice(s, n) == acks' = [acks EXCEPT ![s][n] = IF @ + 1 < MAX_ACKS THEN @ + 2 ELSE @]

(* send_ack: an ACK beyond MAX_ACKS finds no buffer in the MAC *)
QueueAck(s, n) == acks' = [acks EXCEPT ![s][n] = IF @ < MAX_ACKS THEN @ + 1 ELSE @]

(* mutant: a relay acknowledges what it takes over *)
RelayAcks(m, n) == QueueAck(m, n)

(* a relay answers nothing to the node it takes a packet from *)
RelayAnswers(m, n) == UNCHANGED acks

(* recv_from_broadcast, on the oldest frame received *)
Deliver(m) ==
  /\ inbox[m] # <<>>
  /\ LET from == Head(inbox[m]).from
         frame == Head(inbox[m]).frame
     IN  \/ /\ frame.type = "beacon"
            /\ RecvBeacon(m, from, frame.q)
            /\ UNCHANGED <<acks, delivered>>
         \/ /\ frame.type = "request"
            /\ RecvRequest(m, from, frame.q)
            /\ UNCHANGED <<acks, delivered>>
         \/ /\ frame.type = "data" /\ frame.to # m
            /\ Overhear(m, from)
            /\ UNCHANGED <<acks, delivered>>
         \/ /\ frame.type = "data" /\ frame.to = m
            /\ RecvToForward(m, from, frame.q, frame.item)
            /\ RelayAnswers(m, from)
            /\ UNCHANGED delivered
         \/ /\ frame.type = "data" /\ frame.to = m
            /\ RecvAtSink(m, from, frame.q)
            /\ QueueAck(m, from)
            /\ delivered' = delivered \cup {frame.item}
  /\ inbox' = [inbox EXCEPT ![m] = Tail(@)]
  /\ UNCHANGED <<lossy, offered, accepted, confirmed>>

(* recv_from_unicast at n; the sent callback is told the top of the queue *)
DeliverAck(s, n) ==
  /\ InOrder
  /\ acks[s][n] > 0
  /\ RecvAck(n)
  /\ acks' = [acks EXCEPT ![s][n] = @ - 1]
  /\ confirmed' = IF queue[n] = <<>> THEN confirmed
                  ELSE confirmed \cup {<<n, Head(queue[n]).pkt>>}
  /\ UNCHANGED <<inbox, lossy, offered, accepted, delivered>>

LoseAck(s, n) ==
  /\ lossy /\ InOrder
  /\ acks[s][n] > 0
  /\ acks' = [acks EXCEPT ![s][n] = @ - 1]
  /\ UNCHANGED <<vars, inbox, lossy, appVars>>

Settle ==
  /\ Settles /\ lossy
  /\ lossy' = FALSE
  /\ UNCHANGED <<vars, inbox, acks, appVars>>

----------------------------------------------------------------------------
NetInit ==
  /\ Init
  /\ inbox = [n \in Node |-> <<>>]
  /\ lossy = TRUE
  /\ acks = [s \in Node |-> [n \in Node |-> 0]]
  /\ offered = {} /\ accepted = {}
  /\ delivered = {} /\ confirmed = {}

NetNext ==
  \/ \E n \in Node :
       \/ Boot(n)
       \/ \E p \in Packet : AppSend(n, p)
       \/ SendTimerStep(n)
       \/ BeaconTimerStep(n)
       \/ RetxTimerStep(n)
       \/ \E R \in SUBSET Node : Broadcast(n, R)
       \/ Deliver(n)
  \/ \E s, n \in Node : DeliverAck(s, n) \/ LoseAck(s, n)
  \/ Settle

NetSpec == NetInit /\ [][NetNext]_allVars

(* Contiki keeps pending events in a FIFO queue, so nodes start, armed      *)
(* timers fire, and frames and ACKs are processed although other events of  *)
(* the node come between; the MAC finishes every frame; and a medium that   *)
(* Settles loses frames for some time only.                                 *)
NetFairness ==
  /\ \A n \in Node :
       /\ SF_allVars(Boot(n))
       /\ SF_allVars(SendTimerStep(n))
       /\ SF_allVars(BeaconTimerStep(n))
       /\ SF_allVars(RetxTimerStep(n))
       /\ SF_allVars(Deliver(n))
       /\ WF_allVars(\E R \in SUBSET Node : Broadcast(n, R))
  /\ \A s \in Sink, n \in Node \ Sink : SF_allVars(DeliverAck(s, n))
  /\ WF_allVars(Settle)

NetFairSpec == NetSpec /\ NetFairness

----------------------------------------------------------------------------
(* Properties *)

NetTypeOK ==
  /\ TypeOK
  /\ inbox \in [Node -> Seq([from : Node, frame : Frame])]
  /\ lossy \in BOOLEAN
  /\ acks \in [Node -> [Node -> 0 .. MAX_ACKS]]
  /\ offered \subseteq Packet /\ accepted \subseteq offered
  /\ delivered \subseteq Item
  /\ confirmed \subseteq Node \X accepted

(* Hops from n to the nearest sink; Cardinality(Node) where none is reached *)
WithinHops[k \in Nat] ==
  IF k = 0 THEN Sink
  ELSE WithinHops[k - 1] \cup {n \in Node : Neighbours(n) \cap WithinHops[k - 1] # {}}

(* The hopCount a sink reports is never below the real distance of the      *)
(* origin: relays, retransmissions and copies count every hop (bcp.c:214,   *)
(* bcp.c:703).                                                              *)
HopsCoverDistance ==
  \A item \in delivered : Origin[item.pkt] \in WithinHops[item.hop]

(* Only the sink acknowledges (bcp.c:237), so the queue of a node out of    *)
(* its range never gets shorter: what it forwards stays on top of it.       *)
FarNodesNeverDrain ==
  [][\A n \in Node : ~NextToSink(n) => Len(queue'[n]) >= Len(queue[n])]_allVars

(* A packet reported as sent has reached a sink, as the comment on the sent *)
(* callback says (bcp.h:39).                                                *)
Arrived == {item.pkt : item \in delivered}
ConfirmedIsDelivered == \A c \in confirmed : c[2] \in Arrived

(* ACKs for n that wait in the MACs of the sinks, numbered at each sink *)
WaitingAcks(n) == {w \in Sink \X (1 .. MAX_ACKS) : w[2] <= acks[w[1]][n]}
AcksFor(n) == Cardinality(WaitingAcks(n))

(* The queue of a sender in range of the sink is emptied, once its          *)
(* application stops.                                                       *)
QueueDrains ==
  \A n \in Node \ Sink : NextToSink(n) => []<>(queue[n] = <<>>)

(* The network keeps the promise of BcpService: the ACKs in the MACs of the *)
(* sinks are the credit of a node.                                          *)
Service == INSTANCE BcpService WITH
  delivered <- Arrived,
  credit <- [n \in Node |-> AcksFor(n)]
KeepsService == Service!Spec
=============================================================================
