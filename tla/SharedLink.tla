----------------------------- MODULE SharedLink -----------------------------
(***************************************************************************)
(* What the one link of a queue entry of the port does to the length of    *)
(* send_stack.  An entry is on the list q_entry_pool as well, from its     *)
(* allocation until it is freed, unless list_push cuts it off: list_add    *)
(* has hung it behind the tail of q_entry_pool, and list_push takes that   *)
(* link away again where the tail is also the tail of the stack.  Entries  *)
(* that q_entry_pool still leads to ("listed") are the oldest ones of the  *)
(* stack, so that they are counted here.  BcpForwarding counts along;      *)
(* BcpForwardingMem, which has the links, shows that the count is right.   *)
(***************************************************************************)
EXTENDS Naturals

CONSTANT SEND_STACK_SIZE

VARIABLES
  length,     \* of send_stack
  listed,     \* how many entries of the stack are listed
  qeListed    \* is sendQe, in use, listed?

vars == <<length, listed, qeListed>>

(* after conditionalFQDiscard; the entry it drops is the oldest one *)
IsFull == length >= SEND_STACK_SIZE
Kept == IF IsFull THEN length - 1 ELSE length
KeptListed == IF IsFull /\ listed > 0 THEN listed - 1 ELSE listed

(* mutant: the length is taken before list_add *)
LengthBefore == Kept

(* list_length(send_stack) in forward and forwardingEngine_Send: list_add   *)
(* has just hung the new entry behind the tail of q_entry_pool              *)
LengthSeen == IF KeptListed > 0 THEN Kept + 1 ELSE Kept

Init == length = 0 /\ listed = 0 /\ qeListed = FALSE

(* list_push cuts the new entry off where its link came through the stack,  *)
(* and else leaves q_entry_pool leading to it and all entries below it      *)
Store ==
  /\ LengthSeen < SEND_STACK_SIZE
  /\ length' = Kept + 1
  /\ listed' = IF KeptListed > 0 THEN KeptListed ELSE Kept + 1
  /\ UNCHANGED qeListed

Withhold ==
  /\ length' = Kept
  /\ listed' = KeptListed
  /\ UNCHANGED qeListed

Pop ==
  /\ length > 0
  /\ length' = length - 1
  /\ listed' = IF listed = length THEN length - 1 ELSE listed
  /\ qeListed' = (listed = length)

(* an entry that is listed brings the whole stack with it *)
PutBack ==
  /\ length' = Kept + 1
  /\ listed' = IF qeListed THEN Kept + 1 ELSE KeptListed
  /\ qeListed' = FALSE

Release == qeListed' = FALSE /\ UNCHANGED <<length, listed>>

(* an entry that is popped only to be freed *)
PopAndRelease ==
  /\ length > 0
  /\ length' = length - 1
  /\ listed' = IF listed = length THEN length - 1 ELSE listed
  /\ qeListed' = FALSE

Next == Store \/ Withhold \/ Pop \/ PutBack \/ Release

Spec == Init /\ [][Next]_vars
=============================================================================
