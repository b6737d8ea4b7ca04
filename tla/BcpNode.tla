------------------------------- MODULE BcpNode -------------------------------
(***************************************************************************)
(* One BCP connection per node (src/bcp-pfeval/bcp.c and the queue, the    *)
(* routing table and the weight estimator it calls), in an environment     *)
(* that may send it any frame at any time.                                 *)
(*                                                                         *)
(* Contiki runs one event to its end before the next one, so every         *)
(* callback and every API call is one action.  Timers carry no duration:   *)
(* an armed timer may fire at any time.                                    *)
(***************************************************************************)
EXTENDS Integers, Sequences

CONSTANTS
  Node,                    \* the nodes that run bcp.c
  Addr,                    \* the rime addresses a frame may come from
  Sink,                    \* the nodes that called bcp_set_sink(c, true)
  Packet,                  \* what bcp_send stores: user payload and origin
  MAX_PACKET_QUEUE_SIZE,   \* bcp-config.h: 100
  MAX_ROUTING_TABLE_SIZE,  \* bcp-config.h: 40
  MAX_HOPS,                \* bound: hopCount (a uint8_t) saturates here
  MAX_ATTEMPTS,            \* bound: tx_attempts saturates here
  MAX_RADIO,               \* bound: frames of a node held by the MAC
  SyncMac,                 \* does the MAC finish a frame inside the call?
  Closes                   \* may the application call bcp_close?

ASSUME NodeAssumption ==
  /\ Node \subseteq Addr
  /\ Sink \subseteq Node
  /\ MAX_PACKET_QUEUE_SIZE \in Nat \ {0}
  /\ MAX_ROUTING_TABLE_SIZE \in Nat \ {0}
  /\ MAX_HOPS \in 1 .. 255
  /\ MAX_ATTEMPTS \in Nat
  /\ MAX_RADIO \in Nat \ {0}
  /\ SyncMac \in BOOLEAN
  /\ Closes \in BOOLEAN

VARIABLES
  up,           \* bcp_open has been called, and bcp_close not since
  queue,        \* packet_queue, newest item first
  table,        \* routing_table, in list order
  busy,         \* the flag of struct bcp_conn
  attempts,     \* tx_attempts
  sendTimer, beaconTimer, retxTimer,  \* is the timer armed?
  radio         \* frames handed to the MAC whose `sent' callback is due

vars == <<up, queue, table, busy, attempts, sendTimer, beaconTimer, retxTimer, radio>>
timers == <<sendTimer, beaconTimer, retxTimer>>

----------------------------------------------------------------------------
(* Data *)

Backlog == 0 .. MAX_PACKET_QUEUE_SIZE
Item == [pkt : Packet, hop : 1 .. MAX_HOPS]
Entry == [nbr : Addr, bp : Backlog]

Beacon(q) == [type |-> "beacon", q |-> q]
Request(q) == [type |-> "request", q |-> q]
Data(to, q, item) == [type |-> "data", to |-> to, q |-> q, item |-> item]

Frame == [type : {"beacon", "request"}, q : Backlog]
           \cup [type : {"data"}, to : Addr, q : Backlog, item : Item]

----------------------------------------------------------------------------
(* The routing table *)

(* routing_table_find: the first record of a neighbour *)
IsRecordOf(t, a, i) ==
  /\ i \in DOMAIN t
  /\ t[i].nbr = a
  /\ \A j \in 1 .. i - 1 : t[j].nbr # a

Known(t, a) == \E i \in DOMAIN t : t[i].nbr = a

(* mutant: a new record without looking for an old one *)
UpdatedWithoutFind(t, a, q) ==
  IF Len(t) < MAX_ROUTING_TABLE_SIZE THEN Append(t, [nbr |-> a, bp |-> q]) ELSE t

(* routing_table_update_queuelog: a table without a free block is left alone *)
Updated(t, a, q) ==
  IF Known(t, a)
  THEN [t EXCEPT ![CHOOSE i \in DOMAIN t : IsRecordOf(t, a, i)].bp = q]
  ELSE IF Len(t) < MAX_ROUTING_TABLE_SIZE
       THEN Append(t, [nbr |-> a, bp |-> q])
       ELSE t

(* routingtable_clear: list_remove clears the `next' the loop follows, so   *)
(* the loop ends after the head                                             *)
Cleared(t) == SubSeq(t, 2, Len(t))

(* weight_estimator_getWeight *)
Weight(qlen, entry) == qlen - entry.bp

(* routingtable_find_routing: `<=' lets the last of the heaviest win *)
IsBest(t, qlen, i) ==
  /\ i \in DOMAIN t
  /\ \A j \in DOMAIN t : Weight(qlen, t[j]) <= Weight(qlen, t[i])
  /\ \A j \in i + 1 .. Len(t) : Weight(qlen, t[j]) < Weight(qlen, t[i])

BestNeighbour(t, qlen) == t[CHOOSE i \in DOMAIN t : IsBest(t, qlen, i)].nbr

----------------------------------------------------------------------------
(* The packet queue: bcp_queue_push puts the new item on top *)

(* mutant: the limit is compared with the length before the push *)
HasRoomForOneTooMany(n) == Len(queue[n]) <= MAX_PACKET_QUEUE_SIZE

HasRoom(n) == Len(queue[n]) + 1 <= MAX_PACKET_QUEUE_SIZE
Push(n, item) == queue' = [queue EXCEPT ![n] = <<item>> \o @]

----------------------------------------------------------------------------
(* Frames handed to the MAC *)

HandToMac(n, frame) ==
  /\ Len(radio[n]) < MAX_RADIO
  /\ radio' = [radio EXCEPT ![n] = Append(@, frame)]

(* When the MAC finishes a frame inside broadcast_send, no other handler of *)
(* the node runs before the `sent' callback.                                *)
MayRun(n) == SyncMac => radio[n] = <<>>

(* send_beacon *)
SendBeacon(n) ==
  \/ /\ ~busy[n]
     /\ busy' = [busy EXCEPT ![n] = TRUE]
     /\ HandToMac(n, Beacon(Len(queue[n])))
  \/ /\ busy[n]
     /\ UNCHANGED <<busy, radio>>

(* mutant: the send timer is left as it is *)
RetransmitCallbackOnly(n) ==
  /\ busy' = [busy EXCEPT ![n] = TRUE]
  /\ table' = [table EXCEPT ![n] = Cleared(@)]
  /\ HandToMac(n, Request(Len(queue[n])))
  /\ sendTimer' = [sendTimer EXCEPT ![n] = FALSE]

(* retransmit_callback and the send_beacon_request it calls: busy is FALSE  *)
(* when send_beacon_request tests it, so the request always goes out        *)
RetransmitCallback(n) ==
  /\ busy' = [busy EXCEPT ![n] = TRUE]
  /\ table' = [table EXCEPT ![n] = Cleared(@)]
  /\ HandToMac(n, Request(Len(queue[n])))
  /\ sendTimer' = [sendTimer EXCEPT ![n] = TRUE]

----------------------------------------------------------------------------
(* Calls of the application *)

(* bcp_open; the connection is a zeroed static object, of which a second    *)
(* call clears the lists only                                               *)
Open(n) ==
  /\ ~up[n] /\ MayRun(n)
  /\ up' = [up EXCEPT ![n] = TRUE]
  /\ queue' = [queue EXCEPT ![n] = <<>>]
  /\ table' = [table EXCEPT ![n] = <<>>]
  /\ \/ /\ ~busy[n]
        /\ busy' = [busy EXCEPT ![n] = TRUE]
        /\ HandToMac(n, Beacon(0))
     \/ /\ busy[n]
        /\ UNCHANGED <<busy, radio>>
  /\ UNCHANGED <<attempts, timers>>

(* mutant: neither the table nor the queue is cleared *)
CloseClearsNothing(n) ==
  /\ Closes /\ up[n] /\ MayRun(n)
  /\ up' = [up EXCEPT ![n] = FALSE]
  /\ sendTimer' = [sendTimer EXCEPT ![n] = FALSE]
  /\ beaconTimer' = [beaconTimer EXCEPT ![n] = FALSE]
  /\ retxTimer' = [retxTimer EXCEPT ![n] = FALSE]
  /\ UNCHANGED <<queue, table, busy, attempts, radio>>

(* bcp_close; busy and tx_attempts stay as they are, and the MAC still has  *)
(* the frames it was given                                                  *)
Close(n) ==
  /\ Closes /\ up[n] /\ MayRun(n)
  /\ up' = [up EXCEPT ![n] = FALSE]
  /\ queue' = [queue EXCEPT ![n] = <<>>]
  /\ table' = [table EXCEPT ![n] = Cleared(@)]
  /\ sendTimer' = [sendTimer EXCEPT ![n] = FALSE]
  /\ beaconTimer' = [beaconTimer EXCEPT ![n] = FALSE]
  /\ retxTimer' = [retxTimer EXCEPT ![n] = FALSE]
  /\ UNCHANGED <<busy, attempts, radio>>

(* bcp_send of a packet that fits a data section *)
UserSend(n, p) ==
  /\ up[n] /\ MayRun(n)
  /\ n \notin Sink
  /\ \/ /\ HasRoom(n)
        /\ Push(n, [pkt |-> p, hop |-> 1])
        /\ beaconTimer' = [beaconTimer EXCEPT ![n] = FALSE]
     \/ /\ ~HasRoom(n)
        /\ UNCHANGED <<queue, beaconTimer>>
  /\ sendTimer' = [sendTimer EXCEPT ![n] = TRUE]
  /\ UNCHANGED <<up, table, busy, attempts, retxTimer, radio>>

----------------------------------------------------------------------------
(* Timers *)

(* send_packet on its way to broadcast_send *)
Transmit(n) ==
  /\ queue[n] # <<>> /\ table[n] # <<>>
  /\ busy' = [busy EXCEPT ![n] = TRUE]
  /\ beaconTimer' = [beaconTimer EXCEPT ![n] = FALSE]
  /\ HandToMac(n, Data(BestNeighbour(table[n], Len(queue[n])),
                       Len(queue[n]), Head(queue[n])))
  /\ attempts' = [attempts EXCEPT ![n] = IF @ < MAX_ATTEMPTS THEN @ + 1 ELSE @]

(* send_packet, called by the send timer *)
SendTimerFires(n) ==
  /\ sendTimer[n] /\ MayRun(n)
  /\ \/ /\ busy[n]
        /\ sendTimer' = [sendTimer EXCEPT ![n] = FALSE]
        /\ UNCHANGED <<table, busy, attempts, beaconTimer, radio>>
     \/ /\ ~busy[n] /\ queue[n] = <<>>
        /\ sendTimer' = [sendTimer EXCEPT ![n] = FALSE]
        /\ beaconTimer' = [beaconTimer EXCEPT ![n] = TRUE]
        /\ UNCHANGED <<table, busy, attempts, radio>>
     \/ /\ ~busy[n] /\ queue[n] # <<>> /\ table[n] = <<>>
        /\ RetransmitCallback(n)
        /\ UNCHANGED <<attempts, beaconTimer>>
     \/ /\ ~busy[n] /\ Transmit(n)
        /\ sendTimer' = [sendTimer EXCEPT ![n] = FALSE]
        /\ UNCHANGED table
  /\ UNCHANGED <<up, queue, retxTimer>>

(* send_beacon, called by the beacon timer *)
BeaconTimerFires(n) ==
  /\ beaconTimer[n] /\ MayRun(n)
  /\ beaconTimer' = [beaconTimer EXCEPT ![n] = FALSE]
  /\ SendBeacon(n)
  /\ UNCHANGED <<up, queue, table, attempts, sendTimer, retxTimer>>

(* retransmit_callback, called by the retransmission timer *)
RetxTimerFires(n) ==
  /\ retxTimer[n] /\ MayRun(n)
  /\ retxTimer' = [retxTimer EXCEPT ![n] = FALSE]
  /\ RetransmitCallback(n)
  /\ UNCHANGED <<up, queue, attempts, beaconTimer>>

----------------------------------------------------------------------------
(* Callbacks of the radio stack *)

(* mutant: the flag is kept until the answers of the neighbours arrive *)
RequestSentKeepsBusy(n) == UNCHANGED <<busy, timers>>

(* mutant: the next beacon is not scheduled *)
BeaconSentOnce(n) ==
  /\ busy' = [busy EXCEPT ![n] = FALSE]
  /\ UNCHANGED timers

(* mutant: no retransmission timer *)
DataSentForGood(n) == UNCHANGED <<busy, timers>>

BeaconSent(n) ==
  /\ busy' = [busy EXCEPT ![n] = FALSE]
  /\ beaconTimer' = [beaconTimer EXCEPT ![n] = TRUE]
  /\ UNCHANGED <<sendTimer, retxTimer>>

RequestSent(n) ==
  /\ busy' = [busy EXCEPT ![n] = FALSE]
  /\ UNCHANGED timers

DataSent(n) ==
  /\ retxTimer' = [retxTimer EXCEPT ![n] = TRUE]
  /\ UNCHANGED <<busy, sendTimer, beaconTimer>>

(* sent_from_broadcast, for the oldest frame the MAC holds *)
Sent(n) ==
  /\ radio[n] # <<>>
  /\ radio' = [radio EXCEPT ![n] = Tail(@)]
  /\ LET type == Head(radio[n]).type
     IN  \/ type = "beacon" /\ BeaconSent(n)
         \/ type = "request" /\ RequestSent(n)
         \/ type = "data" /\ DataSent(n)
  /\ UNCHANGED <<up, queue, table, attempts>>

(* mutant: the retransmission timer is not stopped *)
ConfirmTopOnly(n) ==
  /\ queue[n] # <<>>
  /\ queue' = [queue EXCEPT ![n] = Tail(@)]
  /\ attempts' = [attempts EXCEPT ![n] = 0]
  /\ busy' = [busy EXCEPT ![n] = FALSE]
  /\ sendTimer' = [sendTimer EXCEPT ![n] = TRUE]
  /\ UNCHANGED retxTimer

(* an ACK carries no packet: the item on top of the queue is removed *)
ConfirmTop(n) ==
  /\ queue[n] # <<>>
  /\ queue' = [queue EXCEPT ![n] = Tail(@)]
  /\ attempts' = [attempts EXCEPT ![n] = 0]
  /\ busy' = [busy EXCEPT ![n] = FALSE]
  /\ sendTimer' = [sendTimer EXCEPT ![n] = TRUE]
  /\ retxTimer' = [retxTimer EXCEPT ![n] = FALSE]

(* recv_from_unicast: with an empty queue nothing changes, and the timers   *)
(* and the flag stay as they are                                            *)
RecvAck(n) ==
  /\ up[n] /\ MayRun(n)
  /\ \/ ConfirmTop(n)
     \/ /\ queue[n] = <<>>
        /\ UNCHANGED <<queue, attempts, busy, retxTimer, sendTimer>>
  /\ UNCHANGED <<up, table, beaconTimer, radio>>

(* recv_from_broadcast, by what the frame is *)
RecvBeacon(n, from, q) ==
  /\ up[n] /\ MayRun(n)
  /\ table' = [table EXCEPT ![n] = Updated(@, from, q)]
  /\ UNCHANGED <<up, queue, busy, attempts, timers, radio>>

RecvRequest(n, from, q) ==
  /\ up[n] /\ MayRun(n)
  /\ table' = [table EXCEPT ![n] = Updated(@, from, q)]
  /\ beaconTimer' = [beaconTimer EXCEPT ![n] = TRUE]
  /\ UNCHANGED <<up, queue, busy, attempts, sendTimer, retxTimer, radio>>

(* mutant: the hop is not counted *)
SameHop(h) == h

OneMoreHop(h) == IF h < MAX_HOPS THEN h + 1 ELSE h

(* a data frame for this node, which is not the sink: no ACK is sent *)
RecvToForward(n, from, q, item) ==
  /\ up[n] /\ MayRun(n)
  /\ n \notin Sink
  /\ \/ /\ HasRoom(n)
        /\ Push(n, [item EXCEPT !.hop = OneMoreHop(@)])
        /\ sendTimer' = [sendTimer EXCEPT ![n] = TRUE]
     \/ /\ ~HasRoom(n)
        /\ UNCHANGED <<queue, sendTimer>>
  /\ table' = [table EXCEPT ![n] = Updated(@, from, q)]
  /\ UNCHANGED <<up, busy, attempts, beaconTimer, retxTimer, radio>>

(* a data frame for this node, which is the sink; the ACK goes to the       *)
(* unicast channel, which keeps no state in the connection                  *)
RecvAtSink(n, from, q) ==
  /\ up[n] /\ MayRun(n)
  /\ n \in Sink
  /\ table' = [table EXCEPT ![n] = Updated(@, from, q)]
  /\ UNCHANGED <<up, queue, busy, attempts, timers, radio>>

(* a data frame for another node: the frame is read as a packet header, and *)
(* what lies where the header holds the backlog is the cleared `next'       *)
Overhear(n, from) ==
  /\ up[n] /\ MayRun(n)
  /\ table' = [table EXCEPT ![n] = Updated(@, from, 0)]
  /\ UNCHANGED <<up, queue, busy, attempts, timers, radio>>

----------------------------------------------------------------------------
Init ==
  /\ up = [n \in Node |-> FALSE]
  /\ queue = [n \in Node |-> <<>>]
  /\ table = [n \in Node |-> <<>>]
  /\ busy = [n \in Node |-> FALSE]
  /\ attempts = [n \in Node |-> 0]
  /\ sendTimer = [n \in Node |-> FALSE]
  /\ beaconTimer = [n \in Node |-> FALSE]
  /\ retxTimer = [n \in Node |-> FALSE]
  /\ radio = [n \in Node |-> <<>>]

(* What a node does by itself *)
Local(n) ==
  \/ SendTimerFires(n)
  \/ BeaconTimerFires(n)
  \/ RetxTimerFires(n)
  \/ Sent(n)

(* What the application and the neighbours do to it *)
Receive(n) ==
  \/ RecvAck(n)
  \/ \E from \in Addr \ {n} :
       \/ Overhear(n, from)
       \/ \E q \in Backlog :
            \/ RecvBeacon(n, from, q)
            \/ RecvRequest(n, from, q)
            \/ RecvAtSink(n, from, q)
            \/ \E item \in Item : RecvToForward(n, from, q, item)

(* One step of a node *)
Step(n) ==
  \/ Open(n)
  \/ Close(n)
  \/ \E p \in Packet : UserSend(n, p)
  \/ Local(n)
  \/ Receive(n)

Next == \E n \in Node : Step(n)

Spec == Init /\ [][Next]_vars

(* etimers and the MAC process always run in the end *)
Fairness == \A n \in Node :
  /\ WF_vars(SendTimerFires(n))
  /\ WF_vars(BeaconTimerFires(n))
  /\ WF_vars(RetxTimerFires(n))
  /\ WF_vars(Sent(n))

FairSpec == Spec /\ Fairness
----------------------------------------------------------------------------
(* Properties *)

(* Every field holds a value of its C type, and the queue and the table     *)
(* stay within their pools.                                                 *)
TypeOK ==
  /\ up \in [Node -> BOOLEAN]
  /\ queue \in [Node -> Seq(Item)]
  /\ table \in [Node -> Seq(Entry)]
  /\ busy \in [Node -> BOOLEAN]
  /\ attempts \in [Node -> 0 .. MAX_ATTEMPTS]
  /\ sendTimer \in [Node -> BOOLEAN]
  /\ beaconTimer \in [Node -> BOOLEAN]
  /\ retxTimer \in [Node -> BOOLEAN]
  /\ radio \in [Node -> Seq(Frame)]
  /\ \A n \in Node : /\ Len(queue[n]) <= MAX_PACKET_QUEUE_SIZE
                     /\ Len(table[n]) <= MAX_ROUTING_TABLE_SIZE
                     /\ Len(radio[n]) <= MAX_RADIO

(* A neighbour has at most one record, whatever the order in which beacons, *)
(* requests, data and partial clears reach the table (bcp_routing_table.c). *)
OneRecordPerNeighbour ==
  \A n \in Node : \A i, j \in DOMAIN table[n] :
    table[n][i].nbr = table[n][j].nbr => i = j

(* A closed connection hands no data frame to the MAC, although late        *)
(* completions of its frames arm its timers again (bcp_close leaves the     *)
(* frames in the MAC, sent_from_broadcast does not ask whether the          *)
(* connection is open).                                                     *)
ClosedSendsNoData ==
  [][\A n \in Node : ~up[n] /\ Len(radio'[n]) > Len(radio[n]) =>
       radio'[n][Len(radio'[n])].type # "data"]_vars

(* A busy connection is always going to be released: the MAC still owes it  *)
(* a `sent' callback, or the retransmission timer is armed.  No order of    *)
(* stray ACKs, retransmissions and beacons leaves the flag set for good.    *)
BusyHasReason ==
  \A n \in Node : busy[n] => radio[n] # <<>> \/ retxTimer[n]

(* With a MAC that finishes a frame inside the call, busy says exactly that *)
(* something of this node is outstanding (bcp.h, the comment on busy): a    *)
(* frame in the MAC or a data packet whose ACK is awaited.                  *)
BusyIffOutstanding ==
  \A n \in Node : busy[n] <=> (radio[n] # <<>> \/ retxTimer[n])

(* With such a MAC an open node never goes silent: a timer is armed or a    *)
(* frame is in the MAC.                                                     *)
NeverSilent ==
  \A n \in Node : up[n] =>
    \/ sendTimer[n] \/ beaconTimer[n] \/ retxTimer[n]
    \/ radio[n] # <<>>

(* With such a MAC a packet in the queue is never forgotten: the send timer *)
(* or the retransmission timer is armed or a data frame is in the MAC; a    *)
(* beacon alone would not bring send_packet back.                           *)
DataIsPending ==
  \A n \in Node : queue[n] # <<>> =>
    \/ sendTimer[n] \/ retxTimer[n]
    \/ \E i \in DOMAIN radio[n] : radio[n][i].type = "data"

(* A busy connection is released in the end, if timers fire and the MAC     *)
(* finishes its frames, whatever ACKs and requests come in between.  Only   *)
(* bcp_close takes that from it: it stops the timers and leaves the flag.   *)
BusyEnds ==
  \A n \in Node : [](up[n] => []up[n]) => (busy[n] ~> ~busy[n])
=============================================================================
