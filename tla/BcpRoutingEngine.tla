-------------------------- MODULE BcpRoutingEngine --------------------------
(***************************************************************************)
(* The routing engine of the TinyOS port (BcpRoutingEngine.c) and its use  *)
(* by the forwarding engine: the records of the neighbours with their      *)
(* backlogs and link estimates, the choice of a next hop by weight, and    *)
(* what an attempt reports back about the link.                            *)
(*                                                                         *)
(* The backlogs and the outcomes of attempts come from the environment;    *)
(* one packet is tried at a time (BcpForwarding, OneSendAtATime).          *)
(* BEACON_ONLY is defined, so there are no bursty links.                   *)
(***************************************************************************)
EXTENDS Integers, Sequences, FiniteSets

CONSTANTS
  Addr,                 \* the neighbours
  Self,                 \* rimeaddr_node_addr
  NULL,                 \* no next hop
  ROUTING_TABLE_SIZE,
  MAX_BACKLOG,          \* backlogs are 0 .. FORWARDING_QUEUE_SIZE
  MAX_RETX_ATTEMPTS,
  PACKETS_PER_MINUTE,   \* 10000, the rate of a link with the shortest time
  MAX_TX_TIME,          \* 0xFFFF
  TxTime,               \* the times measured, within 0 .. MAX_TX_TIME
  WORD,                 \* 2^32: weights are computed in uint32_t
  MAX_SAMPLES           \* bound: attempts that report a link estimate

(* WORD is wide enough for every weight: the code's numbers are within      *)
(* -(25 + 10) * 10000 .. 24 * 10000.                                        *)
ASSUME RoutingAssumption ==
  /\ Self \notin Addr /\ NULL \notin Addr
  /\ ROUTING_TABLE_SIZE \in Nat \ {0}
  /\ MAX_BACKLOG \in Nat /\ MAX_RETX_ATTEMPTS \in Nat \ {0}
  /\ PACKETS_PER_MINUTE \in Nat \ {0}
  /\ MAX_TX_TIME \in Nat \ {0} /\ TxTime \subseteq 0 .. MAX_TX_TIME
  /\ WORD \in Nat
  /\ WORD > 2 * (MAX_BACKLOG + 2 * MAX_RETX_ATTEMPTS) * PACKETS_PER_MINUTE
  /\ MAX_SAMPLES \in Nat

VARIABLES
  table,      \* the active part of routingTable
  nextHop,    \* nextHopAddress_m
  occupied,   \* sendQeOccupied: a packet is being tried on the way to nextHop
  samples     \* number of link estimates so far

routingVars == <<table, nextHop, occupied, samples>>

LINK_LOSS_V == 2
LINK_EST_ALPHA == 9
LINK_LOSS_ALPHA == 90

Backlog == 0 .. MAX_BACKLOG

----------------------------------------------------------------------------
(* The records *)

FirstUse(a, bp) == [nbr |-> a, bp |-> bp, time |-> 1, etx |-> 100]

(* mutant: the search ends at the last record *)
IsLastRecordOf(t, a, i) ==
  /\ i \in DOMAIN t /\ t[i].nbr = a
  /\ \A j \in i + 1 .. Len(t) : t[j].nbr # a

(* bcpRoutingEngine_routingTableFind, when it looks: the first record *)
IsRecordOf(t, a, i) ==
  /\ i \in DOMAIN t /\ t[i].nbr = a
  /\ \A j \in 1 .. i - 1 : t[j].nbr # a

Known(t, a) == \E i \in DOMAIN t : t[i].nbr = a
Find(t, a) == CHOOSE i \in DOMAIN t : IsRecordOf(t, a, i)

(* bcpRoutingEngine_routingTableUpdateEntry, where nothing was found: a     *)
(* full table keeps the neighbour out                                       *)
WithNew(t, a, bp) ==
  IF Len(t) < ROUTING_TABLE_SIZE THEN Append(t, FirstUse(a, bp)) ELSE t

UpdateEntry(t, a, bp) ==
  IF Known(t, a) THEN [t EXCEPT ![Find(t, a)].bp = bp] ELSE WithNew(t, a, bp)

(* mutant: the time is not floored *)
NoFloor(ms) == ms

Floored(ms) == IF ms = 0 THEN 1 ELSE ms

(* routerForwarder_updateLinkSuccess and routerForwarder_updateLinkRate:    *)
(* weighted averages, rounded down; an unknown neighbour is passed over     *)
Etx(etx, txCount) ==
  (etx * LINK_LOSS_ALPHA + txCount * 100 * (100 - LINK_LOSS_ALPHA)) \div 100
Time(time, ms) == (LINK_EST_ALPHA * time + (10 - LINK_EST_ALPHA) * Floored(ms)) \div 10

LinkSuccess(t, a, txCount) ==
  IF Known(t, a) THEN [t EXCEPT ![Find(t, a)].etx = Etx(@, txCount)] ELSE t
LinkRate(t, a, ms) ==
  IF Known(t, a) THEN [t EXCEPT ![Find(t, a)].time = Time(@, ms)] ELSE t

----------------------------------------------------------------------------
(* routerForwarder_updateRouting *)

(* mutant: a slow link keeps a rate of one packet *)
AtLeastOne(r) == IF r.time > PACKETS_PER_MINUTE THEN 1 ELSE PACKETS_PER_MINUTE \div r.time

Rate(r) == PACKETS_PER_MINUTE \div r.time
Loss(r) == (LINK_LOSS_V * r.etx) \div 100

(* int32_t from uint32_t *)
Signed(w) == IF 2 * w >= WORD THEN w - WORD ELSE w

(* mutant: the weight stays unsigned *)
UnsignedWeight(local, r) == (((local - r.bp - Loss(r)) % WORD) * Rate(r)) % WORD

Weight(local, r) == Signed((((local - r.bp - Loss(r)) % WORD) * Rate(r)) % WORD)

(* the loop: the index and the weight of the heaviest record so far; a      *)
(* later record must be heavier                                             *)
Heavier(local, best, i) ==
  IF Weight(local, table[i]) > best.weight
  THEN [idx |-> i, weight |-> Weight(local, table[i])]
  ELSE best

Scan(local) ==
  LET best[i \in 0 .. Len(table)] ==
        IF i = 0 THEN [idx |-> 1, weight |-> -1] ELSE Heavier(local, best[i - 1], i)
  IN  best[Len(table)]

(* SUCCESS, and the record that ev_next_hop is told of *)
HasRoute(local) == table # <<>> /\ Scan(local).weight > 0
Chosen(local) == Scan(local).idx

----------------------------------------------------------------------------
(* beaconReceive_receive says isBroadcast, so nothing is found *)
BeaconFrom(a, bp) ==
  /\ table' = WithNew(table, a, bp)
  /\ UNCHANGED <<nextHop, occupied, samples>>

(* subReceive_receive of a new packet *)
DataFrom(a, bp) ==
  /\ table' = UpdateEntry(table, a, bp)
  /\ UNCHANGED <<nextHop, occupied, samples>>

(* sendDataTask takes a packet from a stack of so many; where there is no   *)
(* route nothing changes here                                               *)
UpdateRouting(local) ==
  /\ ~occupied /\ HasRoute(local)
  /\ nextHop' = table[Chosen(local)].nbr
  /\ occupied' = TRUE
  /\ UNCHANGED <<table, samples>>

(* subSend_sendDone with status 0 *)
Acked(txCount, ms) ==
  /\ occupied /\ samples < MAX_SAMPLES
  /\ samples' = samples + 1
  /\ table' = LinkRate(LinkSuccess(table, nextHop, txCount), nextHop, ms)
  /\ occupied' = FALSE
  /\ UNCHANGED nextHop

(* sendDataTask after MAX_RETX_ATTEMPTS: qe->msg->from, the node itself,    *)
(* is passed for the neighbour                                              *)
GiveUp ==
  /\ occupied
  /\ table' = LinkSuccess(table, Self, 2 * MAX_RETX_ATTEMPTS)
  /\ occupied' = FALSE
  /\ UNCHANGED <<nextHop, samples>>

RoutingInit == table = <<>> /\ nextHop = NULL /\ occupied = FALSE /\ samples = 0

RoutingNext ==
  \/ \E a \in Addr, bp \in Backlog : BeaconFrom(a, bp) \/ DataFrom(a, bp)
  \/ \E local \in Backlog : UpdateRouting(local)
  \/ \E txCount \in 1 .. MAX_RETX_ATTEMPTS, ms \in TxTime : Acked(txCount, ms)
  \/ GiveUp

RoutingSpec == RoutingInit /\ [][RoutingNext]_routingVars

----------------------------------------------------------------------------
(* Properties *)

Record ==
  [nbr : Addr, bp : Backlog, time : 1 .. MAX_TX_TIME, etx : 100 .. 100 * MAX_RETX_ATTEMPTS]

(* The estimates stay in their 16 bits whatever is measured: the time of a  *)
(* link is never 0, by which updateRouting would divide, and no rounding    *)
(* takes the expected transmissions below one per packet.                   *)
RoutingTypeOK ==
  /\ table \in Seq(Record) /\ Len(table) <= ROUTING_TABLE_SIZE
  /\ nextHop \in Addr \cup {NULL}
  /\ occupied \in BOOLEAN
  /\ samples \in 0 .. MAX_SAMPLES
  /\ occupied => nextHop # NULL /\ Known(table, nextHop)

TrueWeight(local, r) == (local - r.bp - Loss(r)) * Rate(r)

(* The unsigned arithmetic of updateRouting is harmless: the weight after   *)
(* narrowing is the signed one.                                             *)
WeightsAreSigned ==
  \A local \in Backlog : \A i \in DOMAIN table :
    Weight(local, table[i]) = TrueWeight(local, table[i])

(* updateRouting finds a neighbour exactly if one has a smaller backlog,    *)
(* its losses counted in, over a link with a rate above 0; and none is      *)
(* better than the one it takes ("the neighbor with the largest weight      *)
(* value").                                                                 *)
ChoosesBest ==
  \A local \in Backlog :
    /\ HasRoute(local) <=>
         \E i \in DOMAIN table :
           /\ table[i].bp + Loss(table[i]) < local
           /\ table[i].time <= PACKETS_PER_MINUTE
    /\ HasRoute(local) => \A i \in DOMAIN table :
         TrueWeight(local, table[i]) <= TrueWeight(local, table[Chosen(local)])

(* A neighbour whose link has once looked slower than PACKETS_PER_MINUTE    *)
(* allows is shut out: nothing is sent to it, so no measurement corrects    *)
(* the estimate.  Only a beacon, which makes a second record of it, brings  *)
(* it back.                                                                 *)
ShutOut(i) ==
  /\ table[i].time > PACKETS_PER_MINUTE
  /\ \A j \in DOMAIN table : table[j].nbr = table[i].nbr => j = i
  /\ ~(occupied /\ nextHop = table[i].nbr)
ShutOutUntilBeacon ==
  [][\A i \in DOMAIN table : ShutOut(i) =>
       \/ ShutOut(i)'
       \/ Len(table') > Len(table) /\ table'[Len(table')].nbr = table[i].nbr]_routingVars

(* Records are never dropped or moved, and what a beacon has added for a    *)
(* neighbour that had one already keeps its first backlog and estimates for *)
(* good: everything heard or measured later goes to the first record.       *)
CopiesAreFrozen ==
  [][\A i \in DOMAIN table :
       /\ i \in DOMAIN table' /\ table'[i].nbr = table[i].nbr
       /\ (\E j \in 1 .. i - 1 : table[j].nbr = table[i].nbr) => table'[i] = table[i]]_routingVars
=============================================================================
