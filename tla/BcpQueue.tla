------------------------------ MODULE BcpQueue ------------------------------
(* What bcp_queue.h promises to bcp.c: a bounded stack of packets.          *)
EXTENDS Naturals, Sequences

CONSTANTS Content, MAX_PACKET_QUEUE_SIZE

VARIABLE items   \* newest first

Init == items = <<>>

Push(c) ==
  /\ Len(items) < MAX_PACKET_QUEUE_SIZE
  /\ items' = <<c>> \o items

Pop ==
  /\ items # <<>>
  /\ items' = Tail(items)

Clear == items' = <<>>

Next == (\E c \in Content : Push(c)) \/ Pop \/ Clear

Spec == Init /\ [][Next]_items
=============================================================================
