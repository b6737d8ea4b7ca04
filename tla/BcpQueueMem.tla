----------------------------- MODULE BcpQueueMem -----------------------------
(***************************************************************************)
(* The packet queue in memory: the blocks of packet_queue_memb, the linked *)
(* list through their `next' fields, and bcp_queue.c.                      *)
(*                                                                         *)
(* send_packet sets data_length to the size of a whole struct              *)
(* bcp_queue_item (bcp.c:546), so bcp_queue_push of a received item copies *)
(* from the data field on that many bytes: the header comes along, and the *)
(* `next' field of the block behind the new one is overwritten.            *)
(***************************************************************************)
EXTENDS Integers, FiniteSets

CONSTANTS
  Content,                 \* data and header of a packet
  Blank,                   \* what memb_init leaves in a block
  MAX_PACKET_QUEUE_SIZE

ASSUME QueueMemAssumption == MAX_PACKET_QUEUE_SIZE \in Nat \ {0}

VARIABLES
  used,    \* used[b]: memb_alloc has given block b away
  head,    \* packet_queue_list
  next,    \* next[b]
  store    \* store[b]: the content of block b

memVars == <<used, head, next, store>>

Block == 0 .. MAX_PACKET_QUEUE_SIZE - 1
NULL == -1
WILD == -2     \* bytes of a packet, read as a pointer
Pointer == Block \cup {NULL, WILD}

(* mutant: any free block *)
IsAnyFree(b) == b \in Block /\ ~used[b]

(* memb_alloc: the first free block *)
IsFirstFree(b) == b \in Block /\ ~used[b] /\ \A c \in 0 .. b - 1 : used[c]

(* the blocks of the list in order, NULL behind the last *)
Walk[i \in 0 .. MAX_PACKET_QUEUE_SIZE] ==
  IF i = 0 THEN head
  ELSE IF Walk[i - 1] \in Block THEN next[Walk[i - 1]] ELSE NULL

Length == Cardinality({i \in Block : Walk[i] \in Block})

----------------------------------------------------------------------------
(* bcp_queue_init and bcp_queue_allocator_init *)
MemInit ==
  /\ used = [b \in Block |-> FALSE]
  /\ head = NULL
  /\ next = [b \in Block |-> NULL]
  /\ store = [b \in Block |-> Blank]

(* mutant: list_add, at the end of the list *)
AddLast(b, over) ==
  LET last == {c \in Block : used[c] /\ next[c] = NULL}
  IN  /\ head' = IF head = NULL THEN b ELSE head
      /\ next' = [c \in Block |-> IF c = b THEN NULL
                                  ELSE IF c \in last THEN b
                                  ELSE IF over /\ c = b + 1 THEN WILD ELSE next[c]]

(* list_push of block b, after the copy that may reach the next block *)
AddFirst(b, over) ==
  /\ head' = b
  /\ next' = [c \in Block |-> IF c = b THEN head
                              ELSE IF over /\ c = b + 1 THEN WILD ELSE next[c]]

(* bcp_queue_push; over: the item was received, not made by bcp_send *)
Push(c, over) ==
  /\ Length + 1 <= MAX_PACKET_QUEUE_SIZE
  /\ \E b \in Block :
       /\ IsFirstFree(b)
       /\ used' = [used EXCEPT ![b] = TRUE]
       /\ store' = [store EXCEPT ![b] = c]
       /\ AddFirst(b, over)

(* mutant: the block is not given back *)
Leak(b) == UNCHANGED used

(* memb_free *)
Free(b) == used' = [used EXCEPT ![b] = FALSE]

(* bcp_queue_remove of the top, and bcp_queue_pop *)
Remove ==
  /\ head # NULL
  /\ head' = next[head]
  /\ next' = [next EXCEPT ![head] = NULL]
  /\ Free(head)
  /\ UNCHANGED store

(* bcp_queue_clear: bcp_queue_pop until the list is empty *)
Clear ==
  /\ head' = NULL
  /\ used' = [b \in Block |-> used[b] /\ \A i \in Block : Walk[i] # b]
  /\ next' = [b \in Block |-> IF \E i \in Block : Walk[i] = b THEN NULL ELSE next[b]]
  /\ UNCHANGED store

(* bcp_open after a bcp_close *)
Reset ==
  /\ head = NULL
  /\ used' = [b \in Block |-> FALSE]
  /\ next' = [b \in Block |-> NULL]
  /\ store' = [b \in Block |-> Blank]
  /\ UNCHANGED head

MemNext ==
  \/ \E c \in Content, over \in BOOLEAN : Push(c, over)
  \/ Remove
  \/ Clear
  \/ Reset

MemSpec == MemInit /\ [][MemNext]_memVars

----------------------------------------------------------------------------
(* Every variable holds a value of its type, and a block that is given away *)
(* holds a packet and a link that may be followed: the bytes that the copy  *)
(* of a received item leaves behind its block are never taken for a link.   *)
MemTypeOK ==
  /\ used \in [Block -> BOOLEAN]
  /\ head \in Block \cup {NULL}
  /\ next \in [Block -> Pointer]
  /\ store \in [Block -> Content \cup {Blank}]
  /\ \A b \in Block : used[b] => next[b] # WILD /\ store[b] \in Content

(* The queued items fill the pool from its first block on, each linked to   *)
(* the block before it.  That is why the copy of a received item that runs  *)
(* into the next block (bcp_queue.c:101) never meets a queued one, and why  *)
(* memb_alloc never fails when the length check of bcp_queue_push passed.   *)
StackLayout ==
  /\ \A b \in Block : used[b] <=> b <= head
  /\ \A b \in Block : used[b] => next[b] = IF b = 0 THEN NULL ELSE b - 1

(* The blocks and links implement the bounded stack that bcp.c relies on:   *)
(* no packet is lost, doubled or reordered by the list, the pool and the    *)
(* over-long copy.                                                          *)
Items == [i \in 1 .. Length |-> store[Walk[i - 1]]]
Stack == INSTANCE BcpQueue WITH items <- Items
IsStack == Stack!Spec
=============================================================================
