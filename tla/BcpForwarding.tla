---------------------------- MODULE BcpForwarding ----------------------------
(***************************************************************************)
(* The forwarding engine of the TinyOS port                                *)
(* (src/bak-bcp-project/bcpPortContiki): the send stack, sendDataTask, the *)
(* retry timer and the callbacks of the unicast connection, on a node that *)
(* may become a root at any time ("sudden sink designation").              *)
(*                                                                         *)
(* Beacons are in BcpBeacons: no step of the data path reads their state.  *)
(* The choice among the recorded neighbours, which rests on numbers that   *)
(* the neighbours send (BcpRoutingEngine), is left open.  VIRTQ is not     *)
(* defined in Bcp.h, so the virtual queue is empty for good and no null    *)
(* packet is made.  Nothing calls rootControl_unsetRoot.                   *)
(***************************************************************************)
EXTENDS Integers, Sequences, FiniteSets

CONSTANTS
  Addr,                 \* the neighbours
  Packet,               \* identities: origin, sequence number and hop count
                        \* with which a packet arrived
  NULL,                 \* no neighbour, no packet
  SEND_STACK_SIZE,      \* FORWARDING_QUEUE_SIZE - 1
  Q_ENTRY_POOL_SIZE,    \* FORWARDING_QUEUE_SIZE
  MESSAGE_POOL_SIZE,    \* FORWARDING_QUEUE_SIZE + SNOOP_QUEUE_SIZE
  MAX_RETX_ATTEMPTS,
  ROUTING_TABLE_SIZE

ASSUME ForwardingAssumption ==
  /\ NULL \notin Addr \cup Packet
  /\ SEND_STACK_SIZE \in Nat \ {0}
  /\ Q_ENTRY_POOL_SIZE = SEND_STACK_SIZE + 1
  /\ MESSAGE_POOL_SIZE \in Nat /\ MESSAGE_POOL_SIZE >= Q_ENTRY_POOL_SIZE
  /\ MAX_RETX_ATTEMPTS \in Nat \ {0}
  /\ ROUTING_TABLE_SIZE \in Nat \ {0}

VARIABLES
  isRoot,     \* state_is_root
  stack,      \* send_stack, newest entry first
  listed,     \* how many of its entries, the oldest ones, q_entry_pool leads to
  qeListed,   \* and does it lead to sendQe, in use?
  sendQe,     \* the entry sendQe points at, NoEntry before the first one
  sendQeOccupied,
  sending,
  posted,     \* events waiting for sendDataTask
  inMac,      \* data frames whose sent callback is due
  retry,      \* is txRetryTimer running?
  table,      \* the neighbours of routingTable, in its order
  nextHop,    \* nextHopAddress_m
  latest,     \* latestForwardedTable: the last packet from each neighbour
  entries,    \* blocks given away by q_entry_pool_mem
  messages,   \* blocks given away by message_pool_mem
  crowded     \* would list_length(message_pool) refuse the next packet?  Frames
              \* bring the links that it follows (BcpForwardingMem), so each
              \* operation on the stack leaves it open

linkVars == <<listed, qeListed, crowded>>
engineVars == <<stack, sendQe, sendQeOccupied, sending, posted, inMac, retry,
                nextHop, entries, messages, linkVars>>
neighbourVars == <<table, latest>>
fwdVars == <<isRoot, engineVars, neighbourVars>>

Entry == [pkt : Packet, tx : 0 .. MAX_RETX_ATTEMPTS]
Queued == [pkt : Packet, tx : {0}]   \* no attempt since it was pushed
NoEntry == [pkt |-> NULL, tx |-> 0]
Frame == [to : Addr, pkt : Packet]

----------------------------------------------------------------------------
(* The stack and the pools *)

(* conditionalFQDiscard: a full stack loses its oldest entry *)
IsFull == Len(stack) >= SEND_STACK_SIZE

(* mutant: the newest entry goes *)
KeptOldest == IF IsFull THEN Tail(stack) ELSE stack

Kept == IF IsFull THEN SubSeq(stack, 1, Len(stack) - 1) ELSE stack
Freed == IF IsFull THEN 1 ELSE 0

(* the entries on q_entry_pool *)
Link == INSTANCE SharedLink WITH length <- Len(stack)

(* After the discard: the two list_length, and the two memb_alloc.  The     *)
(* length of q_entry_pool is at most the number of entries given away.      *)
PoolsHaveRoom ==
  /\ ~crowded
  /\ messages - Freed < MESSAGE_POOL_SIZE
  /\ entries - Freed < Q_ENTRY_POOL_SIZE

(* mutant: one entry less is taken for a full stack *)
StackHasRoomEarly == Link!LengthSeen < SEND_STACK_SIZE - 1

(* Then list_length(send_stack), which may count the new entry already      *)
StackHasRoom == Link!LengthSeen < SEND_STACK_SIZE

(* forwarderActivity, when the stack is not empty; a root posts its task    *)
(* only when it is                                                          *)
Activate ==
  \/ /\ isRoot \/ sending
     /\ UNCHANGED <<sending, posted>>
  \/ /\ ~isRoot /\ ~sending
     /\ sending' = TRUE
     /\ posted' = posted + 1

(* The common part of forwardingEngine_Send and forward, on its way to      *)
(* SUCCESS *)
Push(p) ==
  /\ PoolsHaveRoom /\ StackHasRoom
  /\ entries' = entries - Freed + 1
  /\ messages' = messages - Freed + 1
  /\ stack' = <<[pkt |-> p, tx |-> 0]>> \o Kept
  /\ Link!Store
  /\ Activate

(* and the ways to EBUSY and FAIL: the discarded entry is gone all the same *)
Refuse ==
  /\ ~PoolsHaveRoom
  /\ entries' = entries - Freed
  /\ messages' = messages - Freed
  /\ stack' = Kept
  /\ Link!Withhold
  /\ UNCHANGED <<sending, posted>>

(* mutant: the message of the new packet is not freed *)
WithdrawEntryOnly ==
  /\ PoolsHaveRoom /\ ~StackHasRoom
  /\ entries' = entries - Freed
  /\ messages' = messages - Freed + 1
  /\ stack' = Kept
  /\ Link!Withhold
  /\ UNCHANGED <<sending, posted>>

(* The stack looks full: the blocks of the new packet, given away and put   *)
(* on their lists, are taken off and freed again                            *)
Withdraw ==
  /\ PoolsHaveRoom /\ ~StackHasRoom
  /\ entries' = entries - Freed
  /\ messages' = messages - Freed
  /\ stack' = Kept
  /\ Link!Withhold
  /\ UNCHANGED <<sending, posted>>

Enqueue(p) ==
  /\ Push(p) \/ Refuse \/ Withdraw
  /\ crowded' \in BOOLEAN
  /\ UNCHANGED <<isRoot, sendQe, sendQeOccupied, inMac, retry, nextHop>>

----------------------------------------------------------------------------
(* The application: forwardingEngine_Send *)
LocalSend(p) == Enqueue(p) /\ UNCHANGED neighbourVars

----------------------------------------------------------------------------
(* Frames from the neighbours *)

WithNeighbour(a) == IF Len(table) < ROUTING_TABLE_SIZE THEN Append(table, a) ELSE table
Recorded(a) == \E i \in DOMAIN table : table[i] = a

(* beaconReceive_receive: isBroadcast keeps routingTableFind from looking, *)
(* so each beacon adds a record                                             *)
RecvBeacon(a) ==
  /\ table' = WithNeighbour(a)
  /\ UNCHANGED <<isRoot, engineVars, latest>>

(* latestForwardedTableUpdate: a full table keeps a new neighbour out *)
Senders == {a \in Addr : latest[a] # NULL}
Remember(a, p) ==
  IF latest[a] # NULL \/ Cardinality(Senders) < ROUTING_TABLE_SIZE
  THEN [latest EXCEPT ![a] = p]
  ELSE latest

(* subReceive_receive, for a header with a valid checksum; a root hands the *)
(* packet to its application                                                *)
RecvData(a, p) ==
  /\ latest[a] # p
  /\ latest' = Remember(a, p)
  /\ table' = IF Recorded(a) THEN table ELSE WithNeighbour(a)
  /\ \/ ~isRoot /\ Enqueue(p)
     \/ isRoot /\ UNCHANGED <<isRoot, engineVars>>

----------------------------------------------------------------------------
(* sendDataTask *)

(* the radio takes the frame, or unicast_send returns 0 *)
Transmit(e, to) ==
  /\ sendQe' = [e EXCEPT !.tx = @ + 1]
  /\ \/ /\ inMac' = Append(inMac, [to |-> to, pkt |-> e.pkt])
        /\ posted' = posted - 1
     \/ UNCHANGED <<inMac, posted>>

NothingToSend ==
  /\ ~sendQeOccupied /\ stack = <<>>
  /\ posted' = posted - 1
  /\ UNCHANGED <<stack, sendQe, sendQeOccupied, sending, inMac, retry, nextHop,
                 entries, messages, linkVars>>

(* updateRouting returns ESIZE on an empty table, and FAIL where no         *)
(* neighbour has a positive weight                                          *)
NoRoute ==
  /\ ~sendQeOccupied /\ stack # <<>>
  /\ sending' = FALSE
  /\ retry' = TRUE
  /\ posted' = posted - 1
  /\ UNCHANGED <<stack, sendQe, sendQeOccupied, inMac, nextHop, entries, messages,
                 linkVars>>

FirstAttempt ==
  /\ ~sendQeOccupied /\ stack # <<>>
  /\ \E i \in DOMAIN table :
       /\ nextHop' = table[i]
       /\ Transmit(Head(stack), table[i])
  /\ stack' = Tail(stack)
  /\ Link!Pop
  /\ sendQeOccupied' = TRUE
  /\ UNCHANGED <<sending, retry, entries, messages, crowded>>

(* mutant: no limit *)
NextAttemptForever ==
  /\ sendQeOccupied
  /\ Transmit([sendQe EXCEPT !.tx = IF @ < MAX_RETX_ATTEMPTS THEN @ ELSE 0], nextHop)
  /\ UNCHANGED <<stack, sendQeOccupied, sending, retry, nextHop, entries, messages,
                 linkVars>>

NextAttempt ==
  /\ sendQeOccupied /\ sendQe.tx < MAX_RETX_ATTEMPTS
  /\ Transmit(sendQe, nextHop)
  /\ UNCHANGED <<stack, sendQeOccupied, sending, retry, nextHop, entries, messages,
                 linkVars>>

(* mutant: the entry is left in sendQe as well *)
GiveUpKeepingSendQe ==
  /\ sendQeOccupied /\ sendQe.tx >= MAX_RETX_ATTEMPTS
  /\ sendQe' = [sendQe EXCEPT !.tx = 0]
  /\ stack' = <<sendQe'>> \o Kept
  /\ Link!PutBack
  /\ crowded' \in BOOLEAN
  /\ entries' = entries - Freed
  /\ messages' = messages - Freed
  /\ sending' = FALSE
  /\ retry' = TRUE
  /\ posted' = posted - 1
  /\ UNCHANGED <<sendQeOccupied, inMac, nextHop>>

GiveUp ==
  /\ sendQeOccupied /\ sendQe.tx >= MAX_RETX_ATTEMPTS
  /\ sendQe' = [sendQe EXCEPT !.tx = 0]
  /\ stack' = <<sendQe'>> \o Kept
  /\ Link!PutBack
  /\ crowded' \in BOOLEAN
  /\ entries' = entries - Freed
  /\ messages' = messages - Freed
  /\ sendQeOccupied' = FALSE
  /\ sending' = FALSE
  /\ retry' = TRUE
  /\ posted' = posted - 1
  /\ UNCHANGED <<inMac, nextHop>>

(* the loopback of a root: first the packet that was being sent *)
HandUpQe ==
  /\ sendQeOccupied
  /\ sendQeOccupied' = FALSE
  /\ entries' = entries - 1 /\ messages' = messages - 1
  /\ UNCHANGED <<stack, sendQe>>
  /\ Link!Release
  /\ crowded' \in BOOLEAN

HandUpTop ==
  /\ ~sendQeOccupied /\ stack # <<>>
  /\ sendQe' = Head(stack)
  /\ stack' = Tail(stack)
  /\ Link!PopAndRelease
  /\ crowded' \in BOOLEAN
  /\ entries' = entries - 1 /\ messages' = messages - 1
  /\ UNCHANGED sendQeOccupied

HandUpNothing ==
  /\ ~sendQeOccupied /\ stack = <<>>
  /\ posted' = posted - 1
  /\ UNCHANGED <<stack, sendQe, sendQeOccupied, entries, messages, linkVars>>

(* where a packet was handed up, forwarderActivity posts the task again if  *)
(* the stack is empty                                                       *)
RootTask ==
  /\ \/ /\ HandUpQe \/ HandUpTop
        /\ posted' = IF stack' = <<>> THEN posted ELSE posted - 1
     \/ HandUpNothing
  /\ sending' = FALSE
  /\ UNCHANGED <<inMac, retry, nextHop>>

SendDataTask ==
  /\ posted > 0
  /\ \/ /\ ~isRoot
        /\ NothingToSend \/ NoRoute \/ FirstAttempt \/ NextAttempt \/ GiveUp
     \/ isRoot /\ RootTask
  /\ UNCHANGED <<isRoot, neighbourVars>>

----------------------------------------------------------------------------
(* Callbacks *)

(* mutant: the timer starts a second send *)
RetryAlways ==
  /\ retry
  /\ retry' = FALSE
  /\ sending' = TRUE
  /\ posted' = posted + 1
  /\ UNCHANGED <<isRoot, stack, sendQe, sendQeOccupied, inMac, nextHop, entries,
                 messages, linkVars, neighbourVars>>

(* tx_retry_timer_fired *)
RetryTimerFires ==
  /\ retry
  /\ retry' = FALSE
  /\ \/ /\ sending
        /\ UNCHANGED <<sending, posted>>
     \/ /\ ~sending
        /\ sending' = TRUE
        /\ posted' = posted + 1
  /\ UNCHANGED <<isRoot, stack, sendQe, sendQeOccupied, inMac, nextHop, entries,
                 messages, linkVars, neighbourVars>>

(* subSend_sendDone with a status other than 0: no acknowledgement *)
NotAcked ==
  /\ posted' = posted + 1
  /\ UNCHANGED <<sendQeOccupied, sending, entries, messages, linkVars>>

(* and with status 0: both blocks are freed, and forwarderActivity goes on  *)
(* with the stack, a root only with an empty one                            *)
Acked ==
  /\ entries' = entries - 1
  /\ messages' = messages - 1
  /\ sendQeOccupied' = FALSE
  /\ Link!Release
  /\ crowded' \in BOOLEAN
  /\ sending' = (~isRoot /\ stack # <<>>)
  /\ posted' = IF isRoot <=> stack = <<>> THEN posted + 1 ELSE posted

SendDone ==
  /\ inMac # <<>>
  /\ inMac' = Tail(inMac)
  /\ UNCHANGED stack
  /\ NotAcked \/ Acked
  /\ UNCHANGED <<isRoot, sendQe, retry, nextHop, neighbourVars>>

----------------------------------------------------------------------------
(* rootControl_setRoot *)
SetRoot ==
  /\ ~isRoot
  /\ isRoot' = TRUE
  /\ UNCHANGED <<engineVars, neighbourVars>>

----------------------------------------------------------------------------
(* bcp_forwarding_engine_init, bcpRoutingEngine_Init and both               *)
(* stdControlStart *)
FwdInit ==
  /\ isRoot = FALSE
  /\ stack = <<>>
  /\ sendQe = NoEntry /\ sendQeOccupied = FALSE
  /\ sending = FALSE
  /\ posted = 0
  /\ inMac = <<>>
  /\ retry = FALSE
  /\ table = <<>>
  /\ nextHop = NULL
  /\ latest = [a \in Addr |-> NULL]
  /\ entries = 0 /\ messages = 0
  /\ Link!Init
  /\ crowded = FALSE

FwdNext ==
  \/ \E p \in Packet : LocalSend(p)
  \/ \E a \in Addr : RecvBeacon(a) \/ \E p \in Packet : RecvData(a, p)
  \/ SendDataTask
  \/ RetryTimerFires
  \/ SendDone
  \/ SetRoot

FwdSpec == FwdInit /\ [][FwdNext]_fwdVars

(* Contiki runs posted events and expired timers, and the MAC finishes a    *)
(* frame                                                                    *)
FwdFairness ==
  /\ WF_fwdVars(SendDataTask)
  /\ WF_fwdVars(RetryTimerFires)
  /\ WF_fwdVars(SendDone)

FwdFairSpec == FwdSpec /\ FwdFairness
----------------------------------------------------------------------------
(* Properties *)

StackTyped == stack \in Seq(Queued) /\ Len(stack) <= SEND_STACK_SIZE
SendQeTyped == sendQe \in Entry \cup {NoEntry}
FlagsTyped ==
  /\ isRoot \in BOOLEAN
  /\ sendQeOccupied \in BOOLEAN /\ sending \in BOOLEAN /\ retry \in BOOLEAN
MacTyped == posted \in Nat /\ inMac \in Seq(Frame)
RouteTyped == nextHop \in Addr \cup {NULL}
TablesTyped ==
  /\ table \in Seq(Addr) /\ Len(table) <= ROUTING_TABLE_SIZE
  /\ latest \in [Addr -> Packet \cup {NULL}]
CountersTyped == entries \in Int /\ messages \in Int
LinkTyped == listed \in 0 .. Len(stack) /\ qeListed \in BOOLEAN /\ crowded \in BOOLEAN

(* Every variable holds a value of its type.  The stack never outgrows      *)
(* SEND_STACK_SIZE, although sendDataTask puts entries back on it.  It even *)
(* keeps a place for the packet that is being sent: a stack that lacks one  *)
(* packet looks full as long as q_entry_pool leads to its oldest one, and   *)
(* where it does not, the stack lacks more.  So giving up discards nothing. *)
RoomToPutBack ==
  sendQeOccupied /\ SEND_STACK_SIZE > 1 => Len(stack) < SEND_STACK_SIZE
FwdTypeOK ==
  /\ RoomToPutBack
  /\ StackTyped /\ SendQeTyped /\ FlagsTyped /\ MacTyped
  /\ RouteTyped /\ TablesTyped /\ CountersTyped /\ LinkTyped

(* There is never more than one event for sendDataTask or frame in the MAC, *)
(* the engine knows that it is sending, and the frame is the one of sendQe, *)
(* on its way to the next hop chosen last.  So subSend_sendDone, which      *)
(* looks at sendQe and not at the packet, frees the right blocks, whatever  *)
(* the retry timer and arrivals do meanwhile.  A node that has become a     *)
(* root may have several events, but none of them while a frame is in the   *)
(* MAC: its task does not free a packet that the callback will free again.  *)
OneSendAtATime ==
  /\ ~isRoot => posted + Len(inMac) <= 1 /\ (posted + Len(inMac) = 1 => sending)
  /\ inMac # <<>> => Len(inMac) = 1 /\ posted = 0 /\ sending
  /\ sendQeOccupied =>
       posted + Len(inMac) > 0 /\ sendQe # NoEntry /\ nextHop # NULL
  /\ \A i \in DOMAIN inMac :
       sendQeOccupied /\ inMac[i] = [to |-> nextHop, pkt |-> sendQe.pkt]

(* The pools give away one block of each kind per packet that the engine    *)
(* holds: none leaks and none is freed twice.                               *)
Held == Len(stack) + (IF sendQeOccupied THEN 1 ELSE 0)
PoolsBalanced == entries = Held /\ messages = Held

(* A packet that the engine remembers for the suppression of duplicates has *)
(* been stored, or handed up by a root: a neighbour whose frame the MAC     *)
(* acknowledged and whose repetition is dropped has not lost its packet.    *)
(* So it is as long as message_pool does not look full and the stack lacks  *)
(* two packets of its limit.                                                *)
Stores(p) == stack' # <<>> /\ Head(stack').pkt = p /\ Len(stack') > Len(stack)
RememberedIsStored ==
  [][\A a \in Addr :
       /\ latest'[a] # latest[a] /\ ~isRoot
       /\ ~crowded /\ Len(stack) < SEND_STACK_SIZE - 1
       => Stores(latest'[a])]_fwdVars

(* The engine holds its packets as FwdStack says: a packet leaves when its  *)
(* frame has been acknowledged, or as the oldest of a full stack, or, where *)
(* the node has become a root, to its application.                          *)
Stack == INSTANCE FwdStack WITH
  root <- isRoot,
  crowded <- crowded,
  stack <- [i \in DOMAIN stack |-> stack[i].pkt],
  inFlight <- IF sendQeOccupied THEN {sendQe.pkt} ELSE {}
KeepsStack == Stack!Spec

(* No packet occupies the engine for good: after MAX_RETX_ATTEMPTS tries it *)
(* goes back to the stack, even if no neighbour ever acknowledges one.      *)
AttemptsEnd == sendQeOccupied ~> ~sendQeOccupied

(* `sending' tells whether a packet is being used, as the comment on its    *)
(* declaration says (BcpForwardingEngine.h): then an event of sendDataTask  *)
(* or a frame is due.                                                       *)
SendingHasReason == sending => posted > 0 \/ inMac # <<>>
=============================================================================
