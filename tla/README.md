# Models of the BCP stacks for Contiki

This directory holds TLA+ models of the two implementations of the Backpressure
Collection Protocol (BCP) in this repository, the TLC configurations that check
them on small instances, and proofs that TLAPS checks for every instance. Paths
such as `bcp.c:495` are lines of files under `bcp-pfeval/` or
`bak-bcp-project/bcpPortContiki/`.

## 1. The system

Contiki is an event system: a callback, a timer or a call of the application
runs to its end before the next event starts. The concurrency is between events
of one node (timers, frames received, frames the MAC has finished) and between
nodes, and nearly all the difficulty of this code is in the order of the events.

| Part | Where | State | Operations |
|---|---|---|---|
| BCP connection | `bcp-pfeval/bcp.c`, `bcp.h` | `busy`, `isSink`, `tx_attempts`, three timers, queue, table | `bcp_open/close/send/set_sink`; timers `send_packet`, `send_beacon`, `retransmit_callback`; callbacks `recv_from_broadcast`, `recv_from_unicast`, `sent_from_broadcast` |
| Packet queue | `bcp_queue.c`, `bcp_queue_allocator.c` | a linked list over a pool of blocks | push, remove, pop, top, clear, init |
| Routing table, weights | `bcp_routing_table.c`, `bcp_weight_estimator.c` | a list of records (neighbour, backlog) | find, update, clear, find the heaviest |
| Applications | `bcp-pfeval/sender.c`, `sink.c` | a sequence number | send periodically; open as sink |
| Forwarding engine of the TinyOS port | `BcpForwardingEngine.c` | `send_stack`, `sendQe`, `sending`, two pools, `txRetryTimer`, `latestForwardedTable` | `forwardingEngine_Send`, `subReceive_receive`, `forward`, `sendDataTask`, `tx_retry_timer_fired`, `subSend_sendDone`, `conditionalFQDiscard` |
| Beacons of the port | `BcpForwardingEngine.c` | trickle interval, two timers, `beaconType`, `extraBeaconSending` | `sendBeaconTask`, `beacon_timer_fired`, `stack_check_timer_fired`, `beaconReceive_receive`, start and stop |
| Routing engine of the port | `BcpRoutingEngine.c` | `routingTable` with ETX and link time, `state_is_root` | insert and update records, `updateRouting`, `updateLinkSuccess`, `updateLinkRate`, `rootControl_setRoot` |
| Demonstration program of the port | `hello.c` | a packet count | start both engines; become the root, or send every two seconds |
| RPL experiments | `rpl-pfeval/`, `perl-test/` | counters | thin applications over an IP stack that is not part of the repository; Perl and Cooja scripts |

How they interact. The application calls `bcp_send`, which pushes on the queue
(a stack: newest on top) and arms `send_timer`. When it fires, `send_packet`
broadcasts the top to the neighbour with the largest backlog difference and sets
`busy`. Only a sink answers, with a unicast ACK, and the ACK removes the top,
whatever it is by then. Without an ACK, the retransmission timer clears part of
the table and asks the neighbours for beacons. Relays push what they hear for
them and do not answer. The port is built differently: `sendDataTask` moves one
packet from the stack to `sendQe`, the MAC acknowledges, and
`subSend_sendDone` frees the packet or posts the task again. It asks the routing
engine for a next hop (`updateRouting` answers through `ev_next_hop`) and tells
it what the attempts showed of the link; where there is no neighbour at all it
has the beacon task send a request for routes. The beacon task reads the length
of the stack, and beacons and data frames from neighbours fill the routing table.

What is hard, and must hold:

* **One flag, many events** (`busy`, `sending`). A frame of another kind, a late
  ACK or a timer may come between the test of the flag and the event that
  releases it. The flag must be released in the end, must not be released too
  early, and no packet may be forgotten while it is set.
* **Answers that name no packet.** The ACK of BCP and the `sent` callback of the
  port say which packet they mean only by the state of the receiver.
* **Intrusive lists over fixed pools**, overrun copies and links that travel in
  frames: the lists must stay lists, and every block must have one owner. A
  length that is tested while an entry is on one list and not yet on the other
  is not the length it is taken for.
* **Limits**: the queue, the stack, the tables and the pools all run full.
* **Estimates from measurements**: averages rounded down, a division by one of
  them, and weights computed unsigned and compared signed.
* **Timers that arm themselves** and flags that another callback must clear: one
  path that forgets to, and a node is silent for good.
* **A change of role** while a packet is out.
* **Loss, duplication, silence** of a medium with broadcast.

## 2. Modules

| Module | What it models |
|---|---|
| `BcpNode` | one connection per node in an arbitrary environment; all handlers of `bcp.c` with the table and the weights |
| `BcpNetwork` | `BcpNode`s joined by lossy links, with the two applications |
| `BcpService` | abstract: what the network promises to its users |
| `BcpQueue` | abstract: a bounded stack |
| `BcpQueueMem` | `bcp_queue.c` on blocks and links, with the over-long copy of `bcp.c:546`/`bcp_queue.c:101` |
| `BcpForwarding` | the data path of the port's forwarding engine, on a node that may become a root |
| `SharedLink` | how many entries of the send stack `q_entry_pool` leads to, and what `list_length` of the stack makes of it |
| `FwdStack` | abstract: what the send stack of the port promises |
| `ContikiList` | Contiki's `list.c`, as the code uses it (external) |
| `BcpForwardingMem` | the send stack and the pools of the port on blocks and links |
| `BcpRoutingEngine` | the port's routing table, link estimates, weights and choice of a next hop |
| `BcpBeacons` | the port's trickle timer, extra beacons and requests for routes |
| `LeastElement`, `*Proofs` | theorems |
| `MC*` | instances for TLC |

Composition: `BcpNetwork` EXTENDS `BcpNode` and conjoins one action of a node
with the medium; it is shown to implement `BcpService`. `BcpQueueMem` implements
`BcpQueue`, which is what `BcpNode` takes its queue to be. `BcpForwarding` and
`BcpForwardingMem` each implement `FwdStack`, one for the order of events, the
other for the memory, and both use `SharedLink`: `BcpForwarding` counts with its
actions, and `BcpForwardingMem`, which has the links, implements it. `BcpRoutingEngine` and `BcpBeacons` stand beside
`BcpForwarding`: what each takes from the data path is an open choice in it (a
backlog, the outcome of an attempt), and what the data path takes from them is
an open choice there (which neighbour, if any). No step of the data path reads
the state of the beacons.

### BcpNode

One action per handler. `Open`, `Close`, `UserSend` are the calls of the
application; `SendTimerFires`, `BeaconTimerFires`, `RetxTimerFires` the timers;
`Sent` is `sent_from_broadcast`; `RecvAck` is `recv_from_unicast`;
`RecvBeacon`, `RecvRequest`, `RecvToForward`, `RecvAtSink` and `Overhear` are the
branches of `recv_from_broadcast`. Conventions:

* A timer is a flag. A one-shot timer that has fired is not armed, so
  `ctimer_expired` is the negation of the flag. Durations are left out: an armed
  timer may fire at any time, a superset of what real clocks do.
* `radio` holds the frames that the MAC has accepted and whose `sent` callback is
  due, oldest first. CSMA, which the simulation binaries link, queues every
  frame and calls back later: `SyncMac = FALSE`. A MAC such as `nullmac`
  finishes a frame inside `broadcast_send`: `SyncMac = TRUE`, which forbids the
  node's other handlers while `radio` is not empty. A frame that CSMA has no
  buffer for is completed at once; for the state of the node that is a frame
  that nobody hears and that is completed next.
* A packet too long for a data section makes `bcp_send` return without a
  change, which is a stuttering step. No sink calls `bcp_send`.
* `tx_attempts` only scales the retransmission delay. It saturates at
  `MAX_ATTEMPTS`. `hopCount` (a `uint8_t`) saturates at `MAX_HOPS`: its wrap
  beyond 255 is not explored.
* `Cleared` drops the head of the table only: `list_remove` resets the link that
  the loop of `routingtable_clear` goes on with.
* An overheard data frame is read as a packet header although it starts with a
  queue item; the bytes read as the backlog are the cleared `next`, so the
  backlog is 0 (`bcp.c:258-269`).
* `Closes` says whether the application may call `bcp_close`; no application of
  the repository does.

### BcpNetwork

`Broadcast(n, R)` is a frame that the neighbours in `R` hear; `Deliver` is
`recv_from_broadcast` on a node's oldest frame, and conjoins the ACK of the sink;
`DeliverAck` and `LoseAck` end the ACK. `lossy` may be switched off for good by
`Settle`, which the liveness run needs. `Prompt` explores one order of pairs of
steps that commute (see the comment at `FramesHandled`). It is `FALSE` in the
run of `BcpService`.

### BcpQueueMem

`send_packet` sets `data_length` of the item it sends to the size of the whole
struct, 38, so a relay that pushes the received item copies 38 bytes into a
field of 20: the header comes along, and the first two bytes of the next block,
its link, are overwritten. `WILD` is that link. The model shows why this does no
harm to the list: blocks are taken in the order of the pool, so the next block
is free. The write behind the last block of the pool is outside the model.

### BcpForwarding and BcpForwardingMem

`posted` counts the events waiting for `sendDataTask`, `inMac` the frames whose
callback is due. `SendDataTask` has one disjunct per way through the task.
`Enqueue` is the common part of `forwardingEngine_Send` and `forward`, with its
three ways: `Push` stores the packet; `Refuse` is the way through lines 765-773
(886-894), before any block has been asked for; `Withdraw` is the way through
820-830 (948-956), on which both blocks have been given away, put on their lists
and the message copied, and are taken back. In `BcpForwardingMem` they are
`Stored`, `Refused` and `Withdrawn`. Two lengths decide among them, and neither
is what it seems:

* `list_length(send_stack)` is tested (807, 929) after `list_add(q_entry_pool,
  qe)` (780, 904). The entry has one link for both lists. Where `q_entry_pool`
  leads down to the last entry of the stack, `list_add` hangs the new one behind
  it, on the stack as well, and the length is one too many. `LengthSeen` of
  `SharedLink` is that length: it depends on how many entries of the stack
  `q_entry_pool` still leads to (`listed`) and whether it leads to `sendQe`
  (`qeListed`).
* `list_length(message_pool)` (765, 886) follows the links that arrive with
  messages, so it may count free blocks, or fewer than there are. `crowded` of
  `BcpForwarding` says what it would find. Any operation on the stack may change
  it there; in `BcpForwardingMem` it is computed (`Crowded`).

A MAC
that fails inside `unicast_send` is a frame followed by a failing completion.
Frames with a bad checksum and duplicates change nothing. The choice of the
neighbour is left open: any record may win or none. `SetRoot` is
`rootControl_setRoot` and may come at any moment, which the comment at
`BcpForwardingEngine.c:440` calls a "sudden sink designation": from then on
`sendDataTask` hands packets up (`RootTask`), first the one that was being sent,
and `subReceive_receive` hands up what arrives. The branch of
`forwarderActivity` that starts the beacon timer again at a root is left out:
by `TimerRuns` of `BcpBeacons` it has nothing to do. `stdControlStop` is in
`BcpBeacons` and is called by nothing. `Bcp.h` leaves `VIRTQ` undefined and
defines `BEACON_ONLY`, so there are no null packets and no snooping.

`BcpForwardingMem` keeps the links. The entry of a packet is on two lists,
`q_entry_pool` and `send_stack`, and has one link field; and `forward` copies a
received message over a block that `list_add` has already linked, with the link
that the message had at its sender. The actions are guarded by the fact that the
walks of the lists end: a handler that walks a cyclic list never returns, so the
run of this module does not check for deadlock. (`BcpForwarding` takes it that
they return.)

### BcpRoutingEngine

`table` is the active part of `routingTable`: neighbour, backlog, link time and
ETX (in hundredths). `BeaconFrom` and `DataFrom` are the two ways to a record:
an update flagged as a broadcast looks for nothing and appends. `UpdateRouting`
is `routerForwarder_updateRouting` with its loop (`Scan`, a recursive function:
the index of the heaviest record and its weight so far, starting at -1) and the
event that stores the next hop. `Acked` is the way through `subSend_sendDone`
that reports the attempts and the time of the link, `GiveUp` the one through
`sendDataTask` after the last attempt. Numbers are as wide as in the code: the
weight is computed modulo `WORD` (2^32) and read as a signed number (`Signed`);
divisions round down. One packet is tried at a time (`OneSendAtATime`). The
measured times are a constant: `firstTxTime` is read from a timer that is never
set and the current time is 0, so most of them are `0xFFFF`.

### BcpBeacons

`interval` and `t` are `currentInterval` and `t`; the beacon timer is a flag, and
`young` says whether `beacon_timerTime` shows less than `BEACON_TH_INTERVAL`.
`BeaconTimerFires` is `beacon_timer_fired`, with `RemainingInterval` in the first
half of its life and `DecayInterval` at the end of the interval.
`StackCheckTimerFires` is `stack_check_timer_fired`, with its static
`bpIncrease` and its unsigned difference. `posted` counts the events for
`sendBeaconTask`, which takes the backlog and `beaconType` when it runs, not
when it was posted. More than `MAX_EVENTS` events count as `MAX_EVENTS`:
handlers of events and timers run after their own event has been taken from
Contiki's queue, so that their post has room; `beaconReceive_receive` runs in the
poll of the radio and may lose its post (`RecvBeacon`). `DataPath` is the
environment: the backlog changes by one packet at a time, records appear, and
the type is set back to normal by those who start a send. `skipExtraBeaconCnt`
is read by nothing.

## 3. Runs

| Run | Instance | Shows |
|---|---|---|
| `node` | a sender and a sink, one of the two at a time; 3 addresses that send anything, queue 2, table 2, 2 frames in the MAC, async MAC, hop counts 1, `bcp_close` and reopening | types; one record per neighbour; a closed connection sends no data; `busy` ends |
| `net_star` | sender and sink, 2 packets, async MAC, loss, all interleavings | the network keeps the promise of `BcpService`; `busy` always has a reason that will end |
| `net_line` | sender, relay, sink, sync MAC, loss | types of the network, with full queues; hop counts cover the distance; `busy` is exact; no node falls silent, no packet is forgotten; only neighbours of the sink ever drain |
| `net_live` | star, sync MAC, the medium settles | the queue of a sender next to the sink is emptied |
| `queue_mem` | pool of 4 blocks, 2 contents | layout; the blocks implement the stack |
| `fwd_engine` | 2 neighbours, 2 packets, stack 3, pools 4 and 5, 2 attempts, tables of 2, a root from any moment on or never | one send at a time; a place on the stack for a packet that is given up; pools balanced, whichever way a packet is refused; a packet that is remembered is stored while `message_pool` does not look full and the stack lacks two packets of its limit; the stack is kept as `FwdStack` says; attempts end |
| `fwd_mem` | stack 3, pools 4 and 4, 2 packets, any link in a frame | entry lists sound in spite of the shared link; each message owned; a free block whenever one is asked for; `SharedLink` counts how much of the stack the two lists share; the stack is kept |
| `routing` | 2 neighbours, table 3, backlogs to 4, 2 attempts, times 0, 30 and 250 of at most 250 with a rate of 20, words of 512, 2 measurements | widths; the choice is the best one; slow links stay out; second records are frozen |
| `beacons` | intervals 2 to 5, threshold 2, backlogs to 2, 2 posts, 1 beacon in the MAC | the timer never dies and its times are sane; extra beacons are due; changes are reported; the backlog gets out; requests end |
| `ack_of_another` | `net_star` | **violation**: a packet is reported as sent that never arrived |
| `lost_wakeup` | `net_star` | **violation**: a packet waits for nothing |
| `sending_stuck` | engine | **violation**: `sending` with nothing being sent |

Why the bounds are enough. A queue of two already has a top that differs from
the packet that was sent, a full queue, and a packet below the top. Two records
are a full table and a table of which `routingtable_clear` leaves a part. Two
frames in the MAC are a beacon and a data frame that overtake each other's
consequences; a third is one more of the same. In the network one packet more
than one is needed for an ACK to hit the wrong one. The stack
of the port has three places: with a stack of two, every packet that meets
another one would be refused, since its length is counted one too long, and none
would ever be stored on top of one. With three there is a stack that is
neither empty nor about to look full, a full one, and one that the shared end of
the lists makes look full. The pools of entries have one block more, as in
`Bcp.h` (24 and 25); `fwd_engine` has one message more than entries (`Bcp.h`: 30
and 25), `fwd_mem` as many as entries, the smallest pool that its assumption
allows. In the engine the beacons of two
neighbours overflow a routing table of two, since each adds a record;
`latestForwardedTable` is filled and not overflowed there, and the theorems hold
for any number of neighbours. In the
routing engine a table of three holds both neighbours and a second record of
one; the word of 512 is the next one wide enough for the weights (more than
2 * (4 + 2 * 2) * 20 = 320), and the largest time shuts a fresh link out at its
first measurement while the middle one never does. A third
measurement adds no new case: one makes a link slow and one more is needed to
see that nothing corrects it. In the beacons an interval of 2 is the smallest
that the code can halve, 5 is an odd limit that doubling overshoots, and the
threshold of 2 is reached by two packets that come or go between two checks.

Symmetry (of the two neighbours) is used by `routing` alone, which checks no
liveness.

Deadlock is checked except where the system may stop: `net_star` (with an
asynchronous MAC a node may fall silent for good, which is what `lost_wakeup`
shows), `fwd_mem` (see above) and the violation runs.

Fairness. `Fairness` (weak) says that an armed timer fires and that the MAC
finishes a frame: etimers are polled, and CSMA gives up after a bounded number
of attempts. `NetFairness` uses strong fairness for handlers of a node, because
with `Prompt` or a synchronous MAC they are disabled while another event of the
network runs, and Contiki's event queue is first in, first out. It says nothing
of the order of timers, of the application, or of the loss of frames; that the
medium settles is an assumption of `net_live`, stated by `Settles`.
`FwdFairness` and `BeaconsFairSpec` say the same of the port: Contiki runs posted
events and expired timers, and the MAC finishes a frame. A refused beacon posts
its task again, so the weak fairness of `BeaconTaken` also says that the MAC
does not refuse for ever while it has room. `AttemptsEnd` holds as long as no
call is caught in a cycle of `message_pool`, which a foreign link may close. The check of the stack and what the
neighbours do are not fair: `BacklogAnnounced` holds by the trickle timer alone.

### Findings

1. `ack_of_another`. An ACK names no packet, and `recv_from_unicast` removes and
   reports the top. If the application pushed a packet after the data frame went
   out, that newer packet is reported through the `sent` callback and dropped,
   although no frame ever carried it; the older one is sent again. `bcp.h:39`
   says the callback is called when a packet is sent.
2. `lost_wakeup`. With CSMA, `send_timer` may fire while a beacon is in the MAC.
   `send_packet` returns "and wait[s] for the second opportunity"
   (`bcp.c:499`), but completion of the beacon arms the beacon timer only: the
   packet stays until the application or a neighbour brings another one. A MAC
   that finishes inside the call is not affected (`DataIsPending` in `net_line`
   and `SyncDataIsPending`).
3. `sending_stuck`. The retry timer is not stopped when a send succeeds. If it
   fires when the stack has been emptied, `tx_retry_timer_fired` sets `sending`
   and `sendDataTask` returns at `BcpForwardingEngine.c:482` without clearing
   it. From then on `forwarderActivity` takes the engine for busy, and nothing
   is sent any more. `BcpForwardingEngine.h:52` says that `sending` tells
   whether a packet is being used.

`forward` and `forwardingEngine_Send` test the stack a second time when the new
entry is already on `q_entry_pool`, and through the shared link behind the last
entry of the stack. With 23 packets stacked, `conditionalFQDiscard` has nothing
to do, the test at `BcpForwardingEngine.c:807` reads 24, and the newest packet is
refused, although memory is free. If a neighbour sent it, `subReceive_receive`
has remembered it (lines 1019 and 1038): its repetition is dropped as a
duplicate. So a new packet takes the last place of the stack only where the lists
do not share their end. The comment above `forward` (lines 750-752) knows one reason to
keep a packet off the queue, the memory. There is no run for it: the theorem
`StackLooksLonger` says exactly when the length is wrong, and the bound in
`RememberedIsStored` says up to where packets are safe (with one packet more
allowed on the stack, TLC refutes it).

The link that `forward` copies with a received message
(`BcpForwardingEngine.c:796`) also breaks the list of messages, and its length
may refuse a packet for which there is memory, which is remembered all the same;
`MessagesOwned` and `KeepsStack` of `fwd_mem` show that ownership does not depend
on that list as long as the calls return. A root whose stack is not empty may keep it for good
(`BcpForwardingEngine.c:709` tests for the opposite of what its comment says);
`hello.c` fixes the role before a packet is queued.

Further divergences without a run of their own are listed as hazards in
`PROJECT.json`.

## 4. Proofs

All for every value of the constants that the `ASSUME`s of the modules allow.

* `BcpNodeProofs`: `TypeCorrect` (`Spec => []TypeOK`) and `RecordsUnique`
  (`[]OneRecordPerNeighbour`). The type invariant is inductive by itself; the
  heart is that the partial clear and the in-place update of the table keep its
  length and its uniqueness (`UpdatedTable`, `ClearedTable`).
  In its second half, about the flag: `BusyReleasable` (`[]BusyHasReason`), and
  under `ASSUME SyncMac` and no `bcp_close` the exact meaning of the flag and
  the absence of lost wake-ups: `SyncBusyIffOutstanding`, `SyncNeverSilent`,
  `SyncDataIsPending`. The assumption on the MAC is needed: finding 2 is its
  counterexample otherwise. The inductive invariant relates the flag to the kind
  of the one frame that is out and to the retransmission timer.
  `ClosedStaysQuiet` is the action property of closed connections.
* `BcpNetworkProofs`: `NetImplementsNodes` (`NetSpec => Spec`): every step of the
  network is a step of a node in its arbitrary environment, or stutters there, so
  what the modules above prove holds in the network too (`NetTypeCorrect`,
  `NetBusyReleasable`, and `NetKeepsGoing` with a synchronous MAC). Its invariant
  `NetInv` says that whatever a node holds, sends or hears was accepted before
  (`Carried`), that frames come from neighbours only and ACKs from sinks only
  (which gives `FarNodesKeep`), and that a node that is down has an empty queue.
  - `NetKeepsService` (`NetSpec => KeepsService`) is the refinement of
    `BcpService`. The ACKs on their way to a node are its credit; they are
    counted as a finite set (`WaitingAcks`), of which a delivery makes one more
    (`AckQueued`) and the arrival or the loss of an ACK one less (`AckGone`).
    The rest is `Carried`.
  - `HopsCover` (`[]HopsCoverDistance`) says that no copy of a packet arrives
    with too small a hop count. Its invariant `HopInv` says of every item that a
    node holds in its queue, has given to its MAC or has sent on its way: if the
    node is within `k` hops of a sink, the origin of the item is within `k` plus
    its hop count less one. Repetitions copy the count and only `forward` raises
    it, by one link. The
    distance is a recursive function, and the induction over it runs through
    `LeastNat`. The counter saturates at `MAX_HOPS`, so `HopsCoverBelow` holds in
    any network for counts below that, and `HopsCover` for networks of at most
    `MAX_HOPS + 1` nodes (256, with the `uint8_t` of the code), where a node that
    can be reached at all is within `MAX_HOPS` hops: `SmallNetworkFits`, a
    pigeonhole argument on the growing sets of nodes within a number of hops.
* `BcpQueueMemProofs`: `MemTypeCorrect`, `StackLayoutHolds` and `QueueIsStack`
  (`MemSpec => IsStack`), the refinement of the bounded stack. The walk of the
  list is a recursive function; that it goes down block by block
  (`WalkGoesDown`) is proved through a least counterexample
  (`LeastElement!LeastNat`), since induction theorems with operator parameters
  are not available to the installed provers.
* `BcpForwardingProofs`: `FwdTypeCorrect`, `SendsAreExclusive`,
  `PoolsKeepBalance`, `RememberedArrivalsAreStored` and `EngineIsStack`
  (`FwdSpec => KeepsStack`). The invariant `FwdInv` is the conjunction of the
  first three (without the count of `SharedLink`, whose types `LinkAlwaysTyped`
  adds), for none is inductive alone: `sendQe` has its type because only
  one event is due, and the pools have a block left because they hold one per
  packet and the stack is below its limit after the discard (`MemoryLeft`). So
  only `crowded` and the length of the stack refuse a packet, and that length is
  at most one too many (`SeenLength`), whatever `listed` is: this gives the bound
  of `RememberedArrivalsAreStored` and the guard of `Drop` in `FwdStack`. The
  `FwdTypeCorrect` says more than a bound: while a packet is being sent, the stack
  keeps a place for it (`RoomToPutBack`). Its invariant is `RoomInv`, in terms of
  `listed`: with a listed entry no packet takes the last place, and a stack
  without one is short of two packets while `sendQe` is in use. It needs the early
  refusal: with the length taken before `list_add`, TLC finds the stack filled up
  behind `sendQe` (the mutant of that property), and giving up would discard. The
  refinement needs the exclusion of sends too: a completion frees the packet in
  flight because the frame is the one of `sendQe`.
* `BcpForwardingMemProofs`: `PoolTypeCorrect`, `EntryListsStaySound`,
  `MessagesStayOwned`, `BlocksAlwaysLeft`, `StackLooksLonger` and `MemKeepsStack`
  (`PoolSpec => KeepsStack`), for pools of any size and any links in the frames.
  The first half is about Contiki's lists alone: a list is the sequence of its
  blocks (`ListOf`), which determines what a walk meets, its length, its last
  block and what `list_remove` changes (`ListFacts`, shown once through a least
  counterexample), and each operation of `list.c` makes a known list of it. The
  invariant `PoolInv` says that some sequence describes the stack, that
  `q_entry_pool` enters it somewhere or starts at `sendQe` and enters it from
  there (`TwoLists`), that the blocks given away are those of the stack and
  `sendQe`, and that they own different messages (`Owned`). `TwoLists` is what
  keeps the lists sound, and the proof shows how: `list_add` to `q_entry_pool`
  makes the new entry the last of the stack as well, which the length then counts
  (`StackSeen`); if the packet is stored, the search of `list_push` takes the
  entry away there again (`EntryArrives`), and if it is refused, `list_remove` on
  `q_entry_pool` does (`AddedThenRemoved`, `EntryWithdrawn`). The entry chopped
  from the stack is the last of `q_entry_pool`, wherever that starts
  (`OldestLeaves`). Nothing is said of `message_pool` but the types of its links,
  which is all that foreign links leave of it; that suffices, because the code
  finds messages through `qe->msg`. `BlocksAlwaysLeft` counts: at most
  `SEND_STACK_SIZE` blocks are held after the discard. So `crowded` is the one
  thing left to refuse a packet before it has blocks, and `StackSeen` bounds when
  it is refused with them (`WithdrawnStep`), as `FwdStack` says.
* `BcpRoutingProofs`: `RoutingTypeCorrect` (the averages stay between the bounds
  of what they average, so the division never meets 0), `WeightsStaySigned` (a
  product modulo a word, read as signed, is the product when that is less than
  half a word from 0), `BestIsChosen`, `CopiesStayFrozen` and `SlowLinksStayOut`.
  The loop of `updateRouting` is a recursive function; that it exists is
  `ScanExists`, and that its value is the largest weight is again shown through a
  least counterexample.
* `BcpBeaconsProofs`: `BeaconsTypeCorrect`, `TimerKeepsRunning`, `BeaconsInTime`,
  `ExtraIsDue` and `DifferencesAreReported`. `BeaconsInv` is the conjunction of
  the four state predicates: the types of the interval rest on the times being
  in it, and those on the engine running.

Every safety and action property that a passing run checks is a theorem, but for
`CountsListed`: no theorem rests on the count of `SharedLink`, only on its being
at most one off. Only model-checked besides: liveness (`BusyEnds`,
`QueueDrains`, `AttemptsEnd`, `BacklogAnnounced`, `RequestsEnd`), which needs
fairness and `ENABLED` and is out of the prover's reach; and the counterexamples
of the three violation runs. Conversely,
`LooksOneLonger` is proved (`StackLooksLonger`) and checked by no run. The
guards of `BcpForwardingMem` (a walk of `message_pool` comes to its end) are part
of its actions: nothing is proved about when such a call returns.

The theorems rest on the `ASSUME`s of the modules and on these hypotheses of
their own: `SyncMac` and no `bcp_close` where it says so, and the bound on the
number of nodes of `HopsCover`.

## 5. Not modelled

* Of the port: bursty links and snooping, which `BEACON_ONLY` compiles out, and
  null packets, which need `VIRTQ`; `rootControl_unsetRoot` and
  `routerForwarder_getLinkRate`, which nothing calls; the fields of headers that
  are only printed. The numbers of the routing engine are not composed with the
  data path: the choice of a neighbour stays open in `BcpForwarding`, which is
  more than the routing engine may choose, and the composition would multiply
  180,000 states by 200,000. Durations are left out: a check of the stack may
  come at any time after the beacon timer, while the code's comes 0.8 s after it.
* The delay field of `bcp.c` and the extender hooks (`bcp_extend.h`), which no
  program of the repository installs.
* `rpl-pfeval/` and `perl-test/`: the applications only format, send and print,
  and the protocol is in Contiki; the scripts generate node positions and read
  logs.
* Debug output.

## 6. Plan

Done: 1 `BcpNode`, 2 `BcpNetwork`/`BcpService`, 3 `BcpQueueMem`/`BcpQueue`,
4 `BcpForwarding`/`FwdStack` with the root, 5 `BcpForwardingMem`/`ContikiList`,
6 `BcpRoutingEngine`, 7 `BcpBeacons`, and the proofs of section 4.

Left:

1. Two nodes of the port joined by a link, to see what backlogs that are stale by
   one beacon do to the choice of a next hop.
