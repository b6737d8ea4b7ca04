------------------------------ MODULE FwdStack ------------------------------
(***************************************************************************)
(* What the send stack of the TinyOS port promises to its users: the       *)
(* packets of a node, newest first, and the one that is being sent.  A     *)
(* full stack drops its oldest packet before it asks for the memory of     *)
(* another one.  The new one is stored, unless the memory is crowded or    *)
(* the stack holds all packets but one that it may hold: then it may be    *)
(* refused, even where the oldest has just been dropped for it.            *)
(***************************************************************************)
EXTENDS Naturals, Sequences

CONSTANTS Packet, SEND_STACK_SIZE

VARIABLES
  root,       \* the node is where packets go
  crowded,    \* would the memory refuse a packet?  Anything may change it
  stack,      \* newest first
  inFlight    \* a set of at most one packet

vars == <<root, crowded, stack, inFlight>>

WithRoom(s) == IF Len(s) >= SEND_STACK_SIZE THEN SubSeq(s, 1, Len(s) - 1) ELSE s

Init == root = FALSE /\ crowded = FALSE /\ stack = <<>> /\ inFlight = {}

Take(p) ==
  /\ ~crowded
  /\ stack' = <<p>> \o WithRoom(stack)
  /\ UNCHANGED <<root, inFlight>>

Drop ==
  /\ crowded \/ Len(WithRoom(stack)) >= SEND_STACK_SIZE - 1
  /\ stack' = WithRoom(stack)
  /\ UNCHANGED <<root, inFlight>>

Turn ==
  /\ inFlight = {} /\ stack # <<>>
  /\ inFlight' = {Head(stack)}
  /\ stack' = Tail(stack)
  /\ UNCHANGED root

Sent ==
  /\ inFlight # {}
  /\ inFlight' = {}
  /\ UNCHANGED <<root, stack>>

PutBack ==
  /\ \E p \in inFlight : stack' = <<p>> \o WithRoom(stack)
  /\ inFlight' = {}
  /\ UNCHANGED root

BecomeRoot == ~root /\ root' = TRUE /\ UNCHANGED <<stack, inFlight>>

HandUp ==
  /\ root /\ inFlight = {} /\ stack # <<>>
  /\ stack' = Tail(stack)
  /\ UNCHANGED <<root, inFlight>>

Next ==
  /\ \/ \E p \in Packet : Take(p)
     \/ Drop \/ Turn \/ Sent \/ PutBack
     \/ BecomeRoot \/ HandUp
  /\ crowded' \in BOOLEAN

Spec == Init /\ [][Next]_vars
=============================================================================
