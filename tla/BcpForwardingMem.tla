-------------------------- MODULE BcpForwardingMem --------------------------
(***************************************************************************)
(* The send stack of BcpForwarding in memory: the blocks of                *)
(* q_entry_pool_mem and message_pool_mem, and the lists through their      *)
(* links.  Two things are particular to this code.  An entry is on the     *)
(* list q_entry_pool and on the list send_stack, and has one link.  And a  *)
(* message goes over the air with its link: forward copies the link the    *)
(* message had at the neighbour over the one list_add has just made.  All  *)
(* nodes run one binary, so it points at a block of the receiver's pool.   *)
(*                                                                         *)
(* memb_free leaves the bytes of a block.  The link of a free block is     *)
(* kept here too; its content and its qe->msg, which nobody reads any      *)
(* more, are not.                                                          *)
(***************************************************************************)
EXTENDS ContikiList, Sequences

CONSTANTS
  Packet,
  Blank,               \* what a block holds before its first use
  SEND_STACK_SIZE,
  Q_ENTRY_POOL_SIZE,
  MESSAGE_POOL_SIZE

ASSUME ForwardingMemAssumption ==
  /\ SEND_STACK_SIZE \in Nat \ {0}
  /\ Q_ENTRY_POOL_SIZE = SEND_STACK_SIZE + 1
  /\ MESSAGE_POOL_SIZE \in Nat /\ MESSAGE_POOL_SIZE >= Q_ENTRY_POOL_SIZE
  /\ Blank \notin Packet

VARIABLES
  entryUsed,     \* has memb_alloc given the entry away?
  entryNext,     \* the link of an entry
  msgOf,         \* qe->msg
  entryPool,     \* head of q_entry_pool
  sendStack,     \* head of send_stack
  sendQe,        \* the entry that sendQe points at while sendQeOccupied, or NULL
  msgUsed, msgNext, store,   \* the messages: used, link and content
  msgPool        \* head of message_pool

entryVars == <<entryUsed, entryNext, msgOf, entryPool, sendStack, sendQe>>
msgVars == <<msgUsed, msgNext, store, msgPool>>
poolVars == <<entryVars, msgVars>>

EntryBlock == 0 .. Q_ENTRY_POOL_SIZE - 1
MsgBlock == 0 .. MESSAGE_POOL_SIZE - 1

(* memb_alloc: the first free block *)
FirstFree(used) ==
  CHOOSE b \in DOMAIN used : ~used[b] /\ \A c \in DOMAIN used : c < b => used[c]

----------------------------------------------------------------------------
IsFull == Length(sendStack, entryNext) >= SEND_STACK_SIZE
Oldest == Last(sendStack, entryNext)

(* mutant: the chopped entry stays on the list q_entry_pool *)
KeepInPool(next) == [head |-> entryPool, next |-> next]

DropFromPool(next) == Removed(entryPool, next, Oldest)

(* mutant: the message of the chopped entry is forgotten *)
LeakOldestMsg == msgUsed

FreeOldestMsg == [msgUsed EXCEPT ![msgOf[Oldest]] = FALSE]

(* The pools after conditionalFQDiscard, as a record of the variables it    *)
(* changes.  The entry it drops leaves both lists of entries, its message   *)
(* leaves message_pool.                                                     *)
DiscardReturns == IsFull => Searches(msgPool, msgNext, msgOf[Oldest])

AsTheyAre ==
  [entryUsed |-> entryUsed, entryNext |-> entryNext,
   entryPool |-> entryPool, sendStack |-> sendStack,
   msgOf |-> msgOf, msgUsed |-> msgUsed, msgNext |-> msgNext, msgPool |-> msgPool,
   store |-> store]

WithoutOldest ==
  LET chopped == Chopped(sendStack, entryNext)
      pool == DropFromPool(chopped.next)
      msgs == Removed(msgPool, msgNext, msgOf[Oldest])
  IN  [entryUsed |-> [entryUsed EXCEPT ![Oldest] = FALSE], entryNext |-> pool.next,
       entryPool |-> pool.head, sendStack |-> chopped.head,
       msgOf |-> [msgOf EXCEPT ![Oldest] = NULL],
       msgUsed |-> FreeOldestMsg,
       msgNext |-> msgs.next, msgPool |-> msgs.head,
       store |-> [store EXCEPT ![msgOf[Oldest]] = Blank]]

Discarded == IF IsFull THEN WithoutOldest ELSE AsTheyAre

----------------------------------------------------------------------------
(* forwardingEngine_Send (links: the application's own message has none)    *)
(* and forward (links: what a received frame may bring)                     *)
PoolsHaveRoom(d) ==
  /\ Length(d.msgPool, d.msgNext) < MESSAGE_POOL_SIZE
  /\ Length(d.entryPool, d.entryNext) < Q_ENTRY_POOL_SIZE
  /\ \E b \in EntryBlock : ~d.entryUsed[b]
  /\ \E m \in MsgBlock : ~d.msgUsed[m]

NewEntry(d) == FirstFree(d.entryUsed)
NewMsg(d) == FirstFree(d.msgUsed)

(* both lists with the new blocks at their ends, and the message with the   *)
(* link that came with it                                                   *)
EntriesWith(d) == Added(d.entryPool, d.entryNext, NewEntry(d))
MsgsWith(d, link) ==
  LET msgs == Added(d.msgPool, d.msgNext, NewMsg(d))
  IN  [msgs EXCEPT !.next[NewMsg(d)] = link]

(* list_length(send_stack), which follows the link that list_add has made   *)
StackHasRoom(d) == Length(d.sendStack, EntriesWith(d).next) < SEND_STACK_SIZE

Stored(d, link) ==
  LET b == NewEntry(d)
      m == NewMsg(d)
      stack == Pushed(d.sendStack, EntriesWith(d).next, b)
  IN  /\ StackHasRoom(d)
      /\ entryUsed' = [d.entryUsed EXCEPT ![b] = TRUE]
      /\ entryPool' = EntriesWith(d).head
      /\ sendStack' = stack.head
      /\ entryNext' = stack.next
      /\ msgOf' = [d.msgOf EXCEPT ![b] = m]
      /\ msgUsed' = [d.msgUsed EXCEPT ![m] = TRUE]
      /\ msgPool' = MsgsWith(d, link).head
      /\ msgNext' = MsgsWith(d, link).next
      /\ \E p \in Packet : store' = [d.store EXCEPT ![m] = p]

(* mutant: the freed entry stays on q_entry_pool, and behind the stack      *)
EntriesKeeping(d) == EntriesWith(d)

EntriesWithout(d) == Removed(EntriesWith(d).head, EntriesWith(d).next, NewEntry(d))
MsgsWithout(d, link) ==
  LET msgs == MsgsWith(d, link)
  IN  Removed(msgs.head, msgs.next, NewMsg(d))

(* the stack looks full: both blocks leave their lists and are freed again  *)
Withdrawn(d, link) ==
  LET entries == EntriesWithout(d)
      msgs == MsgsWithout(d, link)
  IN  /\ ~StackHasRoom(d)
      /\ entryPool' = entries.head /\ entryNext' = entries.next
      /\ msgPool' = msgs.head /\ msgNext' = msgs.next
      /\ sendStack' = d.sendStack
      /\ entryUsed' = d.entryUsed /\ msgUsed' = d.msgUsed
      /\ msgOf' = d.msgOf /\ store' = d.store

(* no block is asked for: memb_alloc never fails (BlocksLeft)               *)
Refused(d) ==
  /\ entryUsed' = d.entryUsed /\ entryNext' = d.entryNext
  /\ entryPool' = d.entryPool /\ sendStack' = d.sendStack
  /\ msgUsed' = d.msgUsed /\ msgNext' = d.msgNext /\ msgPool' = d.msgPool
  /\ msgOf' = d.msgOf /\ store' = d.store

(* The call returns only if its walks of message_pool come to an end *)
Enqueue(links) ==
  /\ DiscardReturns
  /\ LET d == Discarded
     IN  /\ Ends(d.msgPool, d.msgNext)
         /\ \/ /\ PoolsHaveRoom(d)
               /\ \E link \in links : Stored(d, link) \/ Withdrawn(d, link)
            \/ ~PoolsHaveRoom(d) /\ Refused(d)
  /\ UNCHANGED sendQe

(* mutant: the message is not cleared before it is sent *)
LocalSendUnset == Enqueue({NULL, MESSAGE_POOL_SIZE})

LocalSend == Enqueue({NULL})
Forward == Enqueue(MsgBlock \cup {NULL})

(* sendDataTask: list_pop leaves the link of the entry as it is *)
Pop ==
  /\ sendQe = NULL /\ sendStack # NULL
  /\ sendQe' = sendStack
  /\ sendStack' = entryNext[sendStack]
  /\ UNCHANGED <<entryUsed, entryNext, msgOf, entryPool, msgVars>>

(* mutant: list_add instead of list_push *)
AtTheEnd(d) == Added(d.sendStack, d.entryNext, sendQe)

OnTop(d) == Pushed(d.sendStack, d.entryNext, sendQe)

(* sendDataTask, after MAX_RETX_ATTEMPTS *)
PutBack ==
  /\ sendQe # NULL
  /\ DiscardReturns
  /\ LET d == Discarded
         stack == OnTop(d)
     IN  /\ sendStack' = stack.head
         /\ entryNext' = stack.next
         /\ entryPool' = d.entryPool
         /\ entryUsed' = d.entryUsed
         /\ msgUsed' = d.msgUsed /\ msgNext' = d.msgNext /\ msgPool' = d.msgPool
         /\ msgOf' = d.msgOf /\ store' = d.store
  /\ sendQe' = NULL

(* subSend_sendDone with status 0; its debug output walks message_pool *)
Release ==
  /\ sendQe # NULL
  /\ Ends(msgPool, msgNext)
  /\ LET msgs == Removed(msgPool, msgNext, msgOf[sendQe])
         pool == Removed(entryPool, entryNext, sendQe)
     IN  /\ msgPool' = msgs.head /\ msgNext' = msgs.next
         /\ entryPool' = pool.head /\ entryNext' = pool.next
  /\ msgUsed' = [msgUsed EXCEPT ![msgOf[sendQe]] = FALSE]
  /\ entryUsed' = [entryUsed EXCEPT ![sendQe] = FALSE]
  /\ store' = [store EXCEPT ![msgOf[sendQe]] = Blank]
  /\ msgOf' = [msgOf EXCEPT ![sendQe] = NULL]
  /\ sendQe' = NULL
  /\ UNCHANGED sendStack

----------------------------------------------------------------------------
PoolInit ==
  /\ entryUsed = [b \in EntryBlock |-> FALSE]
  /\ entryNext = [b \in EntryBlock |-> NULL]
  /\ msgOf = [b \in EntryBlock |-> NULL]
  /\ entryPool = NULL /\ sendStack = NULL /\ sendQe = NULL
  /\ msgUsed = [m \in MsgBlock |-> FALSE]
  /\ msgNext = [m \in MsgBlock |-> NULL]
  /\ store = [m \in MsgBlock |-> Blank]
  /\ msgPool = NULL

PoolNext ==
  \/ LocalSend
  \/ Forward
  \/ Pop
  \/ PutBack
  \/ Release

PoolSpec == PoolInit /\ [][PoolNext]_poolVars

----------------------------------------------------------------------------
(* Properties *)

Blocks == Met(sendStack, entryNext) \ {NULL}
InUse == Blocks \cup ({sendQe} \ {NULL})

(* Every variable holds a value of its type, and the stack keeps its limit. *)
PoolTypeOK ==
  /\ entryUsed \in [EntryBlock -> BOOLEAN]
  /\ entryNext \in [EntryBlock -> EntryBlock \cup {NULL}]
  /\ msgOf \in [EntryBlock -> MsgBlock \cup {NULL}]
  /\ {entryPool, sendStack, sendQe} \subseteq EntryBlock \cup {NULL}
  /\ msgUsed \in [MsgBlock -> BOOLEAN]
  /\ msgNext \in [MsgBlock -> MsgBlock \cup {NULL}]
  /\ store \in [MsgBlock -> Packet \cup {Blank}]
  /\ msgPool \in MsgBlock \cup {NULL}
  /\ Length(sendStack, entryNext) <= SEND_STACK_SIZE

(* Both lists of entries stay lists although they share their links: they   *)
(* end, the blocks on the stack and in sendQe are exactly those given away, *)
(* and the list q_entry_pool holds no free block.                           *)
EntryListsSound ==
  /\ Ends(sendStack, entryNext) /\ Ends(entryPool, entryNext)
  /\ \A b \in EntryBlock :
       /\ entryUsed[b] <=> b \in InUse
       /\ On(entryPool, entryNext, b) => entryUsed[b]
  /\ sendQe \notin Blocks

(* Each packet held has a message block of its own, and no other block is   *)
(* given away.                                                              *)
MessagesOwned ==
  /\ \A b, c \in InUse : msgOf[b] = msgOf[c] => b = c
  /\ \A m \in MsgBlock : msgUsed[m] <=> \E b \in InUse : msgOf[b] = m

(* memb_alloc never fails: after the discard both pools have a free block,  *)
(* and q_entry_pool is not at its limit.  What refuses a packet is the      *)
(* length of a list: of message_pool, which follows foreign links, or of    *)
(* send_stack.                                                              *)
BlocksLeft ==
  /\ \E b \in EntryBlock : ~Discarded.entryUsed[b]
  /\ \E m \in MsgBlock : ~Discarded.msgUsed[m]
  /\ Length(Discarded.entryPool, Discarded.entryNext) < Q_ENTRY_POOL_SIZE

(* The new entry makes send_stack look longer than it is, by one and no     *)
(* more, exactly if q_entry_pool leads to the oldest packet of the stack.   *)
TailIsShared(d) ==
  /\ d.sendStack # NULL
  /\ On(d.entryPool, d.entryNext, Last(d.sendStack, d.entryNext))
LooksOneLonger ==
  LET d == Discarded
      length == Length(d.sendStack, d.entryNext)
  IN  Length(d.sendStack, EntriesWith(d).next)
        = IF TailIsShared(d) THEN length + 1 ELSE length

(* The packets on the stack and in sendQe are those FwdStack describes,     *)
(* whatever links arrive with them.                                         *)
Packets ==
  [i \in 1 .. Length(sendStack, entryNext) |->
     store[msgOf[Path(sendStack, entryNext)[i - 1]]]]
Crowded ==
  \E d \in {Discarded} : Length(d.msgPool, d.msgNext) >= MESSAGE_POOL_SIZE
Stack == INSTANCE FwdStack WITH
  root <- FALSE,
  crowded <- Crowded,
  stack <- Packets,
  inFlight <- IF sendQe = NULL THEN {} ELSE {store[msgOf[sendQe]]}
KeepsStack == Stack!Spec

(* How many entries q_entry_pool still leads to is as SharedLink has it,    *)
(* so that BcpForwarding may count instead of following links.              *)
ListedFrom(i) ==
  \A j \in i .. Length(sendStack, entryNext) - 1 :
    On(entryPool, entryNext, Path(sendStack, entryNext)[j])
Link == INSTANCE SharedLink WITH
  length <- Length(sendStack, entryNext),
  listed <- Cardinality({i \in 0 .. Length(sendStack, entryNext) - 1 : ListedFrom(i)}),
  qeListed <- sendQe # NULL /\ On(entryPool, entryNext, sendQe)
CountsListed == Link!Spec
=============================================================================
