-------------------------- MODULE BcpNetworkProofs --------------------------
(* Proofs about BcpNetwork, for every topology, placement of sinks, loss    *)
(* and bound: the network is made of BcpNode's nodes, and what travels on   *)
(* it was accepted.                                                         *)
EXTENDS BcpNetwork, BcpNodeProofs, FiniteSetTheorems

(* What nodes hold when only the packets of A have been accepted.           *)
ItemOf(A) == [pkt : A, hop : 1 .. MAX_HOPS]
FrameWith(items) ==
  [type : {"beacon", "request"}, q : Backlog]
    \cup [type : {"data"}, to : Addr, q : Backlog, item : items]
FrameOf(A) == FrameWith(ItemOf(A))
Received(n, A) == [from : Neighbours(n), frame : FrameOf(A)]

Carried(n) ==
  /\ queue[n] \in Seq(ItemOf(accepted))
  /\ radio[n] \in Seq(FrameOf(accepted))
  /\ inbox[n] \in Seq(Received(n, accepted))

(* The inductive invariant.                                                 *)
NetInv ==
  /\ TypeOK
  /\ inbox \in [Node -> Seq([from : Node, frame : Frame])]
  /\ lossy \in BOOLEAN
  /\ acks \in [Node -> [Node -> 0 .. MAX_ACKS]]
  /\ offered \subseteq Packet /\ accepted \subseteq offered
  /\ delivered \subseteq ItemOf(accepted)
  /\ confirmed \subseteq Node \X accepted
  /\ \A n \in Node : Carried(n)
  /\ \A n \in Node : ~up[n] => queue[n] = <<>>
  /\ \A s, n \in Node : acks[s][n] > 0 => s \in Sink \cap Neighbours(n)

----------------------------------------------------------------------------
LEMMA MoreAccepted ==
  ASSUME NEW A, NEW B, A \subseteq B, NEW n
  PROVE  /\ ItemOf(A) \subseteq ItemOf(B) /\ FrameOf(A) \subseteq FrameOf(B)
         /\ Seq(ItemOf(A)) \subseteq Seq(ItemOf(B))
         /\ Seq(FrameOf(A)) \subseteq Seq(FrameOf(B))
         /\ Seq(Received(n, A)) \subseteq Seq(Received(n, B))
<1>1. ItemOf(A) \subseteq ItemOf(B)
  BY DEF ItemOf
<1>2. FrameOf(A) \subseteq FrameOf(B)
  BY <1>1 DEF FrameOf, FrameWith
<1>3. Received(n, A) \subseteq Received(n, B)
  BY <1>2 DEF Received
<1> QED
  BY <1>1, <1>2, <1>3, SeqMonotonic

LEMMA AcceptedIsTyped ==
  ASSUME NEW A, A \subseteq Packet
  PROVE  ItemOf(A) \subseteq Item /\ FrameOf(A) \subseteq Frame
BY DEF ItemOf, Item, FrameOf, FrameWith, Frame

LEMMA HandedIsCarried ==
  ASSUME TypeOK, NEW n \in Node, NEW I, NEW f \in FrameWith(I),
         radio[n] \in Seq(FrameWith(I)), HandToMac(n, f)
  PROVE  radio'[n] \in Seq(FrameWith(I))
<1>1. radio'[n] = Append(radio[n], f)
  BY HandedAtEnd
<1> QED
  BY <1>1, AppendProperties

(* What a node does by itself it does with what it holds.                   *)
LEMMA OwnStepsCarry ==
  ASSUME TypeOK, NEW n \in Node, NEW I,
         queue[n] \in Seq(I), radio[n] \in Seq(FrameWith(I)),
         Open(n) \/ Local(n) \/ RecvAck(n)
  PROVE  queue'[n] \in Seq(I) /\ radio'[n] \in Seq(FrameWith(I))
<1> USE NodeAssumption
<1>0. Len(queue[n]) \in Backlog /\ 0 \in Backlog
  BY TypePerNode, BacklogFits DEF Backlog
<1>1. Beacon(Len(queue[n])) \in FrameWith(I) /\ Beacon(0) \in FrameWith(I)
      /\ Request(Len(queue[n])) \in FrameWith(I)
  BY <1>0 DEF Beacon, Request, FrameWith
<1>2. CASE Open(n)
  <2>1. queue'[n] = <<>>
    BY <1>2 DEF Open, TypeOK
  <2>2. HandToMac(n, Beacon(0)) \/ radio' = radio
    BY <1>2 DEF Open
  <2> QED
    BY <1>1, <2>1, <2>2, HandedIsCarried, EmptySeq
<1>3. CASE SendTimerFires(n)
  <2>1. queue' = queue
    BY <1>3 DEF SendTimerFires
  <2>2. CASE Transmit(n)
    <3> DEFINE f == Data(BestNeighbour(table[n], Len(queue[n])), Len(queue[n]), Head(queue[n]))
    <3>1. HandToMac(n, f) /\ queue[n] # <<>> /\ table[n] # <<>>
      BY <2>2 DEF Transmit
    <3>2. Head(queue[n]) \in I
      BY <3>1, HeadTailProperties
    <3>3. BestNeighbour(table[n], Len(queue[n])) \in Addr
      BY <1>0, <3>1, TypePerNode, BestExists DEF TableOK
    <3>4. f \in FrameWith(I)
      BY <1>0, <3>2, <3>3 DEF Data, FrameWith
    <3> HIDE DEF f
    <3> QED
      BY <2>1, <3>1, <3>4, HandedIsCarried
  <2>3. CASE ~Transmit(n)
    <3>1. HandToMac(n, Request(Len(queue[n]))) \/ radio' = radio
      BY <1>3, <2>3 DEF SendTimerFires, RetransmitCallback
    <3> QED
      BY <1>1, <2>1, <3>1, HandedIsCarried
  <2> QED
    BY <2>2, <2>3
<1>4. CASE BeaconTimerFires(n) \/ RetxTimerFires(n)
  <2>1. queue' = queue
    BY <1>4 DEF BeaconTimerFires, RetxTimerFires
  <2>2. \/ HandToMac(n, Beacon(Len(queue[n]))) \/ HandToMac(n, Request(Len(queue[n])))
        \/ radio' = radio
    BY <1>4 DEF BeaconTimerFires, RetxTimerFires, SendBeacon, RetransmitCallback
  <2> QED
    BY <1>1, <2>1, <2>2, HandedIsCarried
<1>5. CASE Sent(n)
  <2>1. queue' = queue /\ radio[n] # <<>> /\ radio'[n] = Tail(radio[n])
    BY <1>5 DEF Sent, TypeOK
  <2> QED
    BY <2>1, HeadTailProperties
<1>6. CASE RecvAck(n)
  <2>1. /\ radio' = radio
        /\ queue' = queue \/ (queue[n] # <<>> /\ queue'[n] = Tail(queue[n]))
    BY <1>6 DEF RecvAck, ConfirmTop, TypeOK
  <2> QED
    BY <2>1, HeadTailProperties
<1> QED
  BY <1>2, <1>3, <1>4, <1>5, <1>6 DEF Local

----------------------------------------------------------------------------
(* Every step of the network is a step of one node or of none.              *)

(* The frame a node handles is one that a neighbour sent.                   *)
LEMMA HeadReceived ==
  ASSUME NetInv, NEW m \in Node, inbox[m] # <<>>
  PROVE  /\ Head(inbox[m]).from \in Neighbours(m)
         /\ Head(inbox[m]).from \in Addr \ {m} /\ Head(inbox[m]).from \in Node
         /\ Head(inbox[m]).frame \in FrameOf(accepted)
         /\ Head(inbox[m]).frame.q \in Backlog
         /\ Head(inbox[m]).frame.type = "data" =>
              Head(inbox[m]).frame.item \in ItemOf(accepted)
         /\ Tail(inbox[m]) \in Seq(Received(m, accepted))
<1>1. inbox[m] \in Seq(Received(m, accepted))
  BY DEF NetInv, Carried
<1>2. Head(inbox[m]) \in Received(m, accepted) /\ Tail(inbox[m]) \in Seq(Received(m, accepted))
  BY <1>1, HeadTailProperties
<1>3. Neighbours(m) \subseteq Addr \ {m} /\ Neighbours(m) \subseteq Node
  BY NodeAssumption, NetworkAssumption DEF Neighbours
<1> QED
  BY <1>2, <1>3 DEF Received, FrameOf, FrameWith

LEMMA DeliverIsStep ==
  ASSUME NetInv, NEW m \in Node, Deliver(m)
  PROVE  /\ Step(m) /\ up'[m] = up[m] /\ up[m] /\ radio' = radio
         /\ queue'[m] \in Seq(ItemOf(accepted))
         /\ inbox' = [inbox EXCEPT ![m] = Tail(@)]
         /\ UNCHANGED <<lossy, offered, accepted, confirmed>>
         /\ Len(queue'[m]) >= Len(queue[m])
         /\ \/ UNCHANGED <<acks, delivered>>
            \/ /\ m \in Sink /\ QueueAck(m, Head(inbox[m]).from)
               /\ delivered' \subseteq ItemOf(accepted)
<1> USE NodeAssumption
<1> DEFINE from == Head(inbox[m]).from
           frame == Head(inbox[m]).frame
<1>1. inbox[m] # <<>> /\ inbox' = [inbox EXCEPT ![m] = Tail(@)]
      /\ UNCHANGED <<lossy, offered, accepted, confirmed>>
  BY DEF Deliver
<1>2. /\ from \in Addr \ {m} /\ frame.q \in Backlog
      /\ frame.type = "data" => frame.item \in ItemOf(accepted)
  BY <1>1, HeadReceived
<1>3. accepted \subseteq Packet /\ TypeOK /\ queue[m] \in Seq(ItemOf(accepted))
      /\ delivered \subseteq ItemOf(accepted)
  BY DEF NetInv, Carried
<1>4. Len(queue[m]) \in Nat
  BY <1>3, LenProperties
<1>5. queue' = queue =>
         Len(queue'[m]) >= Len(queue[m]) /\ queue'[m] \in Seq(ItemOf(accepted))
  BY <1>3, <1>4
<1>6. CASE frame.type = "beacon" /\ RecvBeacon(m, from, frame.q) /\ UNCHANGED <<acks, delivered>>
  <2>1. Step(m)
    BY <1>2, <1>6 DEF Step, Receive
  <2>2. queue' = queue /\ radio' = radio /\ up' = up /\ up[m]
    BY <1>6 DEF RecvBeacon
  <2> QED
    BY <1>1, <1>5, <1>6, <2>1, <2>2
<1>7. CASE frame.type = "request" /\ RecvRequest(m, from, frame.q) /\ UNCHANGED <<acks, delivered>>
  <2>1. Step(m)
    BY <1>2, <1>7 DEF Step, Receive
  <2>2. queue' = queue /\ radio' = radio /\ up' = up /\ up[m]
    BY <1>7 DEF RecvRequest
  <2> QED
    BY <1>1, <1>5, <1>7, <2>1, <2>2
<1>8. CASE Overhear(m, from) /\ UNCHANGED <<acks, delivered>>
  <2>1. Step(m)
    BY <1>2, <1>8 DEF Step, Receive
  <2>2. queue' = queue /\ radio' = radio /\ up' = up /\ up[m]
    BY <1>8 DEF Overhear
  <2> QED
    BY <1>1, <1>5, <1>8, <2>1, <2>2
<1>9. CASE /\ frame.type = "data" /\ RecvToForward(m, from, frame.q, frame.item)
           /\ RelayAnswers(m, from) /\ UNCHANGED delivered
  <2>1. frame.item \in ItemOf(accepted)
    BY <1>2, <1>9
  <2>2. frame.item \in Item
    BY <1>3, <2>1, AcceptedIsTyped
  <2>3. Step(m)
    BY <1>2, <1>9, <2>2 DEF Step, Receive
  <2> DEFINE item == [frame.item EXCEPT !.hop = OneMoreHop(@)]
  <2>4. item \in ItemOf(accepted)
    BY <2>1 DEF ItemOf, OneMoreHop
  <2>5. radio' = radio /\ up' = up /\ up[m]
        /\ (queue' = queue \/ queue'[m] = <<item>> \o queue[m])
    BY <1>3, <1>9 DEF RecvToForward, Push, TypeOK
  <2> HIDE DEF item
  <2>6. <<item>> \in Seq(ItemOf(accepted)) /\ Len(<<item>>) = 1
    BY <2>4
  <2>7. <<item>> \o queue[m] \in Seq(ItemOf(accepted))
        /\ Len(<<item>> \o queue[m]) = 1 + Len(queue[m])
    BY <1>3, <2>6, ConcatProperties
  <2>8. UNCHANGED <<acks, delivered>>
    BY <1>9 DEF RelayAnswers
  <2>9. Len(queue'[m]) >= Len(queue[m]) /\ queue'[m] \in Seq(ItemOf(accepted))
    <3>1. CASE queue' = queue
      BY <1>5, <3>1
    <3>2. CASE queue'[m] = <<item>> \o queue[m]
      BY <1>4, <2>7, <3>2
    <3> QED
      BY <2>5, <3>1, <3>2
  <2> QED
    BY <1>1, <2>3, <2>5, <2>8, <2>9
<1>10. CASE /\ frame.type = "data" /\ RecvAtSink(m, from, frame.q)
           /\ QueueAck(m, from) /\ delivered' = delivered \cup {frame.item}
  <2>1. Step(m)
    BY <1>2, <1>10 DEF Step, Receive
  <2>2. delivered' \subseteq ItemOf(accepted)
    BY <1>2, <1>3, <1>10
  <2>3. queue' = queue /\ radio' = radio /\ up' = up /\ up[m] /\ m \in Sink
    BY <1>10 DEF RecvAtSink
  <2> QED
    BY <1>1, <1>10, <1>5, <2>1, <2>2, <2>3
<1> QED
  BY <1>6, <1>7, <1>8, <1>9, <1>10 DEF Deliver

LEMMA AcksBelong ==
  ASSUME NetInv, NEW s \in Node, NEW n \in Node, acks[s][n] > 0
  PROVE  NextToSink(n)
BY DEF NetInv, NextToSink

----------------------------------------------------------------------------
(* The invariant *)

(* What a step of one node has to show.                                     *)
LEMMA StepKeeps ==
  ASSUME NetInv, NEW n \in Node, Step(n),
         accepted \subseteq accepted',
         queue'[n] \in Seq(ItemOf(accepted')), radio'[n] \in Seq(FrameOf(accepted')),
         \A m \in Node : inbox'[m] \in Seq(Received(m, accepted')),
         ~up'[n] => queue'[n] = <<>>
  PROVE  /\ TypeOK'
         /\ \A m \in Node : Carried(m)'
         /\ \A m \in Node : ~up'[m] => queue'[m] = <<>>
<1>1. TypeOK /\ TypeOK'
  BY TypeStep DEF NetInv, Next
<1>2. ASSUME NEW m \in Node, m # n PROVE SameAt(m)
  BY <1>1, <1>2, StepsAreLocal
<1>3. ASSUME NEW m \in Node PROVE Carried(m)'
  <2>1. CASE m = n
    BY <2>1 DEF Carried
  <2>2. CASE m # n
    <3>1. queue'[m] = queue[m] /\ radio'[m] = radio[m]
      BY <1>2, <2>2 DEF SameAt
    <3>2. queue[m] \in Seq(ItemOf(accepted)) /\ radio[m] \in Seq(FrameOf(accepted))
      BY DEF NetInv, Carried
    <3>3. queue[m] \in Seq(ItemOf(accepted')) /\ radio[m] \in Seq(FrameOf(accepted'))
      BY <3>2, MoreAccepted
    <3> QED
      BY <3>1, <3>3 DEF Carried
  <2> QED
    BY <2>1, <2>2
<1>4. ASSUME NEW m \in Node, ~up'[m] PROVE queue'[m] = <<>>
  <2>1. CASE m = n
    BY <1>4, <2>1
  <2>2. CASE m # n
    BY <1>2, <1>4, <2>2 DEF SameAt, NetInv
  <2> QED
    BY <2>1, <2>2
<1> QED
  BY <1>1, <1>3, <1>4

(* Inboxes of what neighbours sent are inboxes of frames.                   *)
LEMMA InboxTyped ==
  ASSUME NEW A, A \subseteq Packet, NEW f, f = [m \in Node |-> f[m]],
         \A m \in Node : f[m] \in Seq(Received(m, A))
  PROVE  f \in [Node -> Seq([from : Node, frame : Frame])]
<1>1. ASSUME NEW m \in Node PROVE f[m] \in Seq([from : Node, frame : Frame])
  <2>1. Received(m, A) \subseteq [from : Node, frame : Frame]
    BY AcceptedIsTyped DEF Received, Neighbours
  <2>2. Seq(Received(m, A)) \subseteq Seq([from : Node, frame : Frame])
    BY <2>1, SeqMonotonic
  <2> QED
    BY <2>2
<1> QED
  BY <1>1

(* Boots and timers.                                                        *)
LEMMA OwnStepKeeps ==
  ASSUME NetInv, NEW n \in Node, ~Closes,
         Open(n) \/ SendTimerFires(n) \/ BeaconTimerFires(n) \/ RetxTimerFires(n),
         UNCHANGED <<netVars, appVars>>
  PROVE  NetInv'
<1>1. TypeOK /\ queue[n] \in Seq(ItemOf(accepted)) /\ radio[n] \in Seq(FrameOf(accepted))
  BY DEF NetInv, Carried
<1>2. queue'[n] \in Seq(ItemOf(accepted)) /\ radio'[n] \in Seq(FrameOf(accepted))
  BY <1>1, OwnStepsCarry DEF Local, FrameOf
<1>3. Step(n)
  BY DEF Step, Local
<1>4. ~up'[n] => queue'[n] = <<>>
  <2>1. CASE Open(n)
    BY <1>1, <2>1 DEF Open, TypeOK
  <2>2. CASE SendTimerFires(n) \/ BeaconTimerFires(n) \/ RetxTimerFires(n)
    BY <2>2 DEF SendTimerFires, BeaconTimerFires, RetxTimerFires, NetInv
  <2> QED
    BY <2>1, <2>2
<1>5. accepted' = accepted /\ inbox' = inbox /\ UNCHANGED <<lossy, acks, offered, delivered, confirmed>>
  BY DEF netVars, appVars
<1>6. \A m \in Node : inbox'[m] \in Seq(Received(m, accepted'))
  BY <1>5 DEF NetInv, Carried
<1>7. /\ TypeOK' /\ \A m \in Node : Carried(m)'
      /\ \A m \in Node : ~up'[m] => queue'[m] = <<>>
  BY <1>2, <1>3, <1>4, <1>5, <1>6, StepKeeps
<1> QED
  BY <1>5, <1>7 DEF NetInv

LEMMA AppSendKeeps ==
  ASSUME NetInv, NEW n \in Node, NEW p \in Packet, AppSend(n, p)
  PROVE  NetInv' /\ Step(n)
<1> USE NodeAssumption
<1>1. TypeOK /\ queue[n] \in Seq(ItemOf(accepted)) /\ radio[n] \in Seq(FrameOf(accepted))
      /\ \A m \in Node : inbox[m] \in Seq(Received(m, accepted))
  BY DEF NetInv, Carried
<1>2. /\ UserSend(n, p) /\ offered' = offered \cup {p}
      /\ accepted' = (IF HasRoom(n) THEN accepted \cup {p} ELSE accepted)
      /\ delivered' = delivered /\ confirmed' = confirmed
      /\ inbox' = inbox /\ lossy' = lossy /\ acks' = acks
  BY DEF AppSend, netVars
<1>3. Step(n)
  BY <1>2 DEF Step
<1>4. accepted \subseteq accepted' /\ accepted' \subseteq offered' /\ offered' \subseteq Packet
  BY <1>2 DEF NetInv
<1>5. radio' = radio /\ up' = up /\ up[n]
  BY <1>2 DEF UserSend
<1>6. queue[n] \in Seq(ItemOf(accepted')) /\ radio[n] \in Seq(FrameOf(accepted'))
      /\ \A m \in Node : inbox[m] \in Seq(Received(m, accepted'))
  BY <1>1, <1>4, MoreAccepted
<1>7. queue'[n] \in Seq(ItemOf(accepted'))
  <2>1. CASE queue' = queue
    BY <1>6, <2>1
  <2>2. CASE HasRoom(n) /\ Push(n, [pkt |-> p, hop |-> 1])
    <3> DEFINE item == [pkt |-> p, hop |-> 1]
    <3>1. queue'[n] = <<item>> \o queue[n]
      BY <1>1, <2>2 DEF Push, TypeOK
    <3>2. item \in ItemOf(accepted')
      BY <1>2, <2>2 DEF ItemOf
    <3> HIDE DEF item
    <3>3. <<item>> \in Seq(ItemOf(accepted'))
      BY <3>2
    <3> QED
      BY <1>6, <3>1, <3>3, ConcatProperties
  <2> QED
    BY <1>2, <2>1, <2>2 DEF UserSend
<1>8. /\ TypeOK' /\ \A m \in Node : Carried(m)'
      /\ \A m \in Node : ~up'[m] => queue'[m] = <<>>
  BY <1>2, <1>3, <1>4, <1>5, <1>6, <1>7, StepKeeps
<1>9. ItemOf(accepted) \subseteq ItemOf(accepted')
  BY <1>4, MoreAccepted
<1> QED
  BY <1>2, <1>3, <1>4, <1>8, <1>9 DEF NetInv

LEMMA BroadcastKeeps ==
  ASSUME NetInv, NEW n \in Node, NEW R \in SUBSET Node, Broadcast(n, R)
  PROVE  NetInv' /\ Step(n)
<1> USE NodeAssumption
<1>1. /\ TypeOK /\ queue[n] \in Seq(ItemOf(accepted)) /\ radio[n] \in Seq(FrameOf(accepted))
      /\ accepted \subseteq Packet
      /\ \A m \in Node : inbox[m] \in Seq(Received(m, accepted))
  BY DEF NetInv, Carried
<1>2. /\ Sent(n) /\ R \subseteq Neighbours(n)
      /\ UNCHANGED <<lossy, acks, offered, accepted, delivered, confirmed>>
  BY DEF Broadcast, CanHear, appVars
<1>3. Step(n)
  BY <1>2 DEF Step, Local
<1>4. queue'[n] \in Seq(ItemOf(accepted)) /\ radio'[n] \in Seq(FrameOf(accepted))
  BY <1>1, <1>2, OwnStepsCarry DEF Local, FrameOf
<1>5. Head(radio[n]) \in FrameOf(accepted)
  BY <1>1, <1>2, HeadTailProperties DEF Sent
<1> DEFINE r == [from |-> n, frame |-> Head(radio[n])]
<1>6. inbox' = [m \in Node |-> IF m \in R THEN Append(inbox[m], r) ELSE inbox[m]]
  BY DEF Broadcast
<1>7. ASSUME NEW m \in Node PROVE inbox'[m] \in Seq(Received(m, accepted))
  <2>1. CASE m \in R
    <3>1. n \in Neighbours(m)
      BY <1>2, <2>1, NetworkAssumption DEF Neighbours
    <3>2. r \in Received(m, accepted)
      BY <1>5, <3>1 DEF Received
    <3>3. inbox'[m] = Append(inbox[m], r)
      BY <1>6, <2>1
    <3> HIDE DEF r
    <3> QED
      BY <1>1, <3>2, <3>3, AppendProperties
  <2>2. CASE m \notin R
    BY <1>1, <1>6, <2>2
  <2> QED
    BY <2>1, <2>2
<1>8. inbox' = [m \in Node |-> inbox'[m]]
  BY <1>6
<1>9. inbox' \in [Node -> Seq([from : Node, frame : Frame])]
  BY <1>1, <1>7, <1>8, InboxTyped
<1>10. ~up'[n] => queue'[n] = <<>>
  BY <1>2 DEF Sent, NetInv
<1>11. /\ TypeOK' /\ \A m \in Node : Carried(m)'
       /\ \A m \in Node : ~up'[m] => queue'[m] = <<>>
  BY <1>2, <1>3, <1>4, <1>7, <1>10, StepKeeps
<1> QED
  BY <1>2, <1>3, <1>9, <1>11 DEF NetInv

(* Handling a frame: an ACK is queued only at a sink for a neighbour.       *)
LEMMA DeliverKeeps ==
  ASSUME NetInv, NEW m \in Node, Deliver(m)
  PROVE  NetInv'
<1> DEFINE from == Head(inbox[m]).from
<1>1. /\ Step(m) /\ up'[m] = up[m] /\ up[m] /\ radio' = radio
      /\ queue'[m] \in Seq(ItemOf(accepted))
      /\ inbox' = [inbox EXCEPT ![m] = Tail(@)]
      /\ UNCHANGED <<lossy, offered, accepted, confirmed>>
      /\ \/ UNCHANGED <<acks, delivered>>
         \/ /\ m \in Sink /\ QueueAck(m, from)
            /\ delivered' \subseteq ItemOf(accepted)
  BY DeliverIsStep
<1>2. inbox[m] # <<>>
  BY DEF Deliver
<1>3. from \in Neighbours(m) /\ from \in Node /\ Tail(inbox[m]) \in Seq(Received(m, accepted))
  BY <1>2, HeadReceived
<1>4. /\ radio[m] \in Seq(FrameOf(accepted)) /\ accepted \subseteq Packet
      /\ \A k \in Node : inbox[k] \in Seq(Received(k, accepted))
      /\ inbox = [k \in Node |-> inbox[k]]
  BY DEF NetInv, Carried
<1>5. inbox' = [k \in Node |-> inbox'[k]]
      /\ \A k \in Node : inbox'[k] \in Seq(Received(k, accepted))
  BY <1>1, <1>3, <1>4
<1>6. inbox' \in [Node -> Seq([from : Node, frame : Frame])]
  BY <1>4, <1>5, InboxTyped
<1>7. up'[m]
  BY <1>1
<1>8. /\ TypeOK' /\ \A k \in Node : Carried(k)'
      /\ \A k \in Node : ~up'[k] => queue'[k] = <<>>
  BY <1>1, <1>4, <1>5, <1>7, StepKeeps
<1>9. delivered' \subseteq ItemOf(accepted)
  BY <1>1 DEF NetInv
<1> HIDE DEF from
<1>10. /\ acks' \in [Node -> [Node -> 0 .. MAX_ACKS]]
       /\ \A s, n \in Node : acks'[s][n] > 0 => s \in Sink \cap Neighbours(n)
  <2>1. CASE UNCHANGED acks
    BY <2>1 DEF NetInv
  <2>2. CASE m \in Sink /\ QueueAck(m, from)
    <3>1. m \in Neighbours(from)
      BY <1>3, NetworkAssumption DEF Neighbours
    <3> DEFINE k == IF acks[m][from] < MAX_ACKS THEN acks[m][from] + 1 ELSE acks[m][from]
    <3>2. acks' = [acks EXCEPT ![m][from] = k]
      BY <2>2 DEF QueueAck
    <3>3. k \in 0 .. MAX_ACKS
      <4>1. acks[m][from] \in 0 .. MAX_ACKS
        BY <1>3 DEF NetInv
      <4> QED
        BY <4>1, NetworkAssumption
    <3> HIDE DEF k
    <3>4. acks' \in [Node -> [Node -> 0 .. MAX_ACKS]]
      BY <1>3, <3>2, <3>3 DEF NetInv
    <3>5. ASSUME NEW s \in Node, NEW n \in Node
          PROVE  (s = m /\ n = from) \/ acks'[s][n] = acks[s][n]
      BY <1>3, <3>2 DEF NetInv
    <3> QED
      BY <2>2, <3>1, <3>4, <3>5 DEF NetInv
  <2> QED
    BY <1>1, <2>1, <2>2
<1> QED
  BY <1>1, <1>6, <1>8, <1>9, <1>10 DEF NetInv

(* One ACK less, wherever it goes.                                          *)
LEMMA AckTaken ==
  ASSUME NetInv, NEW s \in Node, NEW n \in Node, acks[s][n] > 0,
         acks' = [acks EXCEPT ![s][n] = @ - 1]
  PROVE  /\ acks' \in [Node -> [Node -> 0 .. MAX_ACKS]]
         /\ \A q, m \in Node : acks'[q][m] > 0 => q \in Sink \cap Neighbours(m)
<1>1. acks \in [Node -> [Node -> 0 .. MAX_ACKS]] /\ MAX_ACKS \in Nat
  BY NetworkAssumption DEF NetInv
<1>2. acks[s][n] - 1 \in 0 .. MAX_ACKS
  BY <1>1
<1> DEFINE k == acks[s][n] - 1
<1>3. acks' = [acks EXCEPT ![s][n] = k] /\ k \in 0 .. MAX_ACKS
  BY <1>2
<1> HIDE DEF k
<1>4. acks' \in [Node -> [Node -> 0 .. MAX_ACKS]]
  BY <1>1, <1>3
<1>5. ASSUME NEW q \in Node, NEW m \in Node
      PROVE  (q = s /\ m = n) \/ acks'[q][m] = acks[q][m]
  BY <1>1, <1>3
<1> QED
  BY <1>4, <1>5 DEF NetInv

LEMMA DeliverAckKeeps ==
  ASSUME NetInv, NEW s \in Node, NEW n \in Node, DeliverAck(s, n)
  PROVE  NetInv' /\ Step(n)
<1>1. TypeOK /\ queue[n] \in Seq(ItemOf(accepted)) /\ radio[n] \in Seq(FrameOf(accepted))
  BY DEF NetInv, Carried
<1>2. /\ RecvAck(n) /\ acks[s][n] > 0 /\ acks' = [acks EXCEPT ![s][n] = @ - 1]
      /\ confirmed' = (IF queue[n] = <<>> THEN confirmed
                       ELSE confirmed \cup {<<n, Head(queue[n]).pkt>>})
      /\ UNCHANGED <<inbox, lossy, offered, accepted, delivered>>
  BY DEF DeliverAck
<1>3. Step(n)
  BY <1>2 DEF Step, Receive
<1>4. queue'[n] \in Seq(ItemOf(accepted)) /\ radio'[n] \in Seq(FrameOf(accepted))
  BY <1>1, <1>2, OwnStepsCarry DEF FrameOf
<1>5. up'[n] = up[n] /\ up[n]
  BY <1>2 DEF RecvAck
<1>6. \A m \in Node : inbox'[m] \in Seq(Received(m, accepted))
  BY <1>2 DEF NetInv, Carried
<1>7. /\ TypeOK' /\ \A m \in Node : Carried(m)'
      /\ \A m \in Node : ~up'[m] => queue'[m] = <<>>
  BY <1>2, <1>3, <1>4, <1>5, <1>6, StepKeeps
<1>8. confirmed' \subseteq Node \X accepted
  <2>1. ASSUME queue[n] # <<>> PROVE Head(queue[n]).pkt \in accepted
    <3>1. Head(queue[n]) \in ItemOf(accepted)
      BY <1>1, <2>1, HeadTailProperties
    <3> QED
      BY <3>1 DEF ItemOf
  <2> QED
    BY <1>2, <2>1 DEF NetInv
<1>9. /\ acks' \in [Node -> [Node -> 0 .. MAX_ACKS]]
      /\ \A q, m \in Node : acks'[q][m] > 0 => q \in Sink \cap Neighbours(m)
  BY <1>2, AckTaken
<1> QED
  BY <1>2, <1>3, <1>7, <1>8, <1>9 DEF NetInv

(* Steps of the medium alone.                                               *)
LEMMA MediumKeeps ==
  ASSUME NetInv, UNCHANGED <<vars, inbox, appVars>>, lossy' \in BOOLEAN,
         acks' \in [Node -> [Node -> 0 .. MAX_ACKS]],
         \A s, n \in Node : acks'[s][n] > 0 => s \in Sink \cap Neighbours(n)
  PROVE  NetInv'
<1>1. UNCHANGED vars /\ UNCHANGED <<inbox, offered, accepted, delivered, confirmed>>
  BY DEF appVars
<1>2. TypeOK'
  BY <1>1, TypeStep DEF NetInv
<1>3. \A n \in Node : Carried(n)'
  BY <1>1 DEF vars, NetInv, Carried
<1>4. \A n \in Node : ~up'[n] => queue'[n] = <<>>
  BY <1>1 DEF vars, NetInv
<1> QED
  BY <1>1, <1>2, <1>3, <1>4 DEF NetInv

LEMMA NetInvInit == NetInit => NetInv
<1> SUFFICES ASSUME NetInit PROVE NetInv
  OBVIOUS
<1>1. /\ Init /\ inbox = [n \in Node |-> <<>>] /\ lossy = TRUE
      /\ acks = [s \in Node |-> [n \in Node |-> 0]]
      /\ offered = {} /\ accepted = {} /\ delivered = {} /\ confirmed = {}
  BY DEF NetInit
<1>2. TypeOK
  BY <1>1, NodeAssumption, EmptySeq DEF Init, TypeOK
<1>3. \A n \in Node : Carried(n)
  BY <1>1, EmptySeq DEF Init, Carried
<1>4. \A n \in Node : ~up[n] => queue[n] = <<>>
  BY <1>1 DEF Init
<1>5. inbox \in [Node -> Seq([from : Node, frame : Frame])]
  BY <1>1, EmptySeq
<1>6. /\ acks \in [Node -> [Node -> 0 .. MAX_ACKS]]
      /\ \A s, n \in Node : acks[s][n] > 0 => s \in Sink \cap Neighbours(n)
  BY <1>1, NetworkAssumption
<1> QED
  BY <1>1, <1>2, <1>3, <1>4, <1>5, <1>6 DEF NetInv

(* A step of the network is a step of one of its nodes, or of the medium    *)
(* alone.                                                                   *)
LEMMA NetStep ==
  ASSUME NetInv, [NetNext]_allVars
  PROVE  NetInv' /\ [Next]_vars
<1>0. ~Closes
  BY NetworkAssumption
<1>1. ASSUME NEW n \in Node,
             Boot(n) \/ SendTimerStep(n) \/ BeaconTimerStep(n) \/ RetxTimerStep(n)
      PROVE  NetInv' /\ Next
  <2>1. /\ Open(n) \/ SendTimerFires(n) \/ BeaconTimerFires(n) \/ RetxTimerFires(n)
        /\ UNCHANGED <<netVars, appVars>>
    BY <1>1 DEF Boot, SendTimerStep, BeaconTimerStep, RetxTimerStep
  <2> QED
    BY <1>0, <2>1, OwnStepKeeps DEF Next, Step, Local
<1>2. ASSUME NEW n \in Node, NEW p \in Packet, AppSend(n, p) PROVE NetInv' /\ Next
  BY <1>2, AppSendKeeps DEF Next
<1>3. ASSUME NEW n \in Node, NEW R \in SUBSET Node, Broadcast(n, R) PROVE NetInv' /\ Next
  BY <1>3, BroadcastKeeps DEF Next
<1>4. ASSUME NEW n \in Node, Deliver(n) PROVE NetInv' /\ Next
  BY <1>4, DeliverKeeps, DeliverIsStep DEF Next
<1>5. ASSUME NEW s \in Node, NEW n \in Node, DeliverAck(s, n) PROVE NetInv' /\ Next
  BY <1>5, DeliverAckKeeps DEF Next
<1>6. ASSUME NEW s \in Node, NEW n \in Node, LoseAck(s, n) PROVE NetInv' /\ UNCHANGED vars
  <2>1. /\ acks[s][n] > 0 /\ acks' = [acks EXCEPT ![s][n] = @ - 1]
        /\ UNCHANGED <<vars, inbox, lossy, appVars>>
    BY <1>6 DEF LoseAck
  <2>2. lossy' \in BOOLEAN
    BY <2>1 DEF NetInv
  <2> QED
    BY <2>1, <2>2, AckTaken, MediumKeeps
<1>7. CASE Settle
  BY <1>7, MediumKeeps DEF Settle, NetInv
<1>8. CASE UNCHANGED allVars
  <2>1. UNCHANGED vars /\ UNCHANGED <<inbox, lossy, acks>> /\ UNCHANGED appVars
    BY <1>8 DEF allVars, netVars
  <2> QED
    BY <2>1, MediumKeeps DEF NetInv
<1> QED
  BY <1>1, <1>2, <1>3, <1>4, <1>5, <1>6, <1>7, <1>8 DEF NetNext

LEMMA NetInvariant == NetSpec => []NetInv
BY NetInvInit, NetStep, PTL DEF NetSpec

----------------------------------------------------------------------------
(* Theorems *)

(* The network implements its nodes: whatever is proved of a node in an     *)
(* environment that may send it anything holds in every network.            *)
THEOREM NetImplementsNodes == NetSpec => Spec
<1>1. NetInit => Init
  BY DEF NetInit
<1>2. NetInv /\ [NetNext]_allVars => [Next]_vars
  BY NetStep
<1> QED
  BY <1>1, <1>2, NetInvariant, PTL DEF NetSpec, Spec

(* Frames come from neighbours and carry accepted packets only, so what a   *)
(* sink delivers and what is reported as sent was accepted; ACKs and frames *)
(* keep their types, for every topology and any loss.                       *)
THEOREM NetTypeCorrect == NetSpec => []NetTypeOK
<1>1. NetInv => NetTypeOK
  <2> SUFFICES ASSUME NetInv PROVE NetTypeOK
    OBVIOUS
  <2>1. accepted \subseteq Packet
    BY DEF NetInv
  <2>2. delivered \subseteq Item
    BY <2>1, AcceptedIsTyped DEF NetInv
  <2> QED
    BY <2>2 DEF NetInv, NetTypeOK
<1> QED
  BY <1>1, NetInvariant, PTL

(* A queue shrinks only by an ACK, ACKs come from sinks, and sinks answer   *)
(* their neighbours: in no topology does a node out of reach of the sinks   *)
(* ever get rid of a packet.                                                *)
THEOREM FarNodesKeep == NetSpec => FarNodesNeverDrain
<1> DEFINE A == \A n \in Node : ~NextToSink(n) => Len(queue'[n]) >= Len(queue[n])
<1>1. NetInv /\ [NetNext]_allVars => [A]_allVars
  <2> SUFFICES ASSUME NetInv, NetNext, NEW n \in Node, ~NextToSink(n)
               PROVE  Len(queue'[n]) >= Len(queue[n])
    OBVIOUS
  <2>0. TypeOK /\ Len(queue[n]) \in Nat
    BY LenProperties DEF NetInv, TypeOK
  <2>1. queue'[n] = queue[n] => Len(queue'[n]) >= Len(queue[n])
    BY <2>0
  <2>2. ASSUME NEW m \in Node, Step(m), m # n PROVE queue'[n] = queue[n]
    BY <2>0, <2>2, StepsAreLocal DEF SameAt
  <2>3. ASSUME NEW m \in Node,
               Boot(m) \/ SendTimerStep(m) \/ BeaconTimerStep(m) \/ RetxTimerStep(m)
        PROVE  queue'[n] = queue[n]
    <3>1. CASE Open(m)
      BY <2>0, <3>1 DEF Open, NetInv, TypeOK
    <3>2. CASE SendTimerFires(m) \/ BeaconTimerFires(m) \/ RetxTimerFires(m)
      BY <3>2 DEF SendTimerFires, BeaconTimerFires, RetxTimerFires
    <3> QED
      BY <2>3, <3>1, <3>2 DEF Boot, SendTimerStep, BeaconTimerStep, RetxTimerStep
  <2>4. ASSUME NEW m \in Node, NEW p \in Packet, AppSend(m, p)
        PROVE  Len(queue'[n]) >= Len(queue[n])
    <3>1. UserSend(m, p)
      BY <2>4 DEF AppSend
    <3>2. CASE queue' = queue
      BY <2>1, <3>2
    <3>3. CASE Push(m, [pkt |-> p, hop |-> 1])
      <4> DEFINE item == [pkt |-> p, hop |-> 1]
      <4>1. queue'[n] = queue[n] \/ queue'[n] = <<item>> \o queue[n]
        BY <2>0, <3>3 DEF Push, TypeOK
      <4>2. item \in Item
        BY NodeAssumption DEF Item
      <4> HIDE DEF item
      <4>3. <<item>> \in Seq(Item) /\ Len(<<item>>) = 1 /\ queue[n] \in Seq(Item)
        BY <2>0, <4>2 DEF TypeOK
      <4>4. Len(<<item>> \o queue[n]) = 1 + Len(queue[n])
        BY <4>3, ConcatProperties
      <4> QED
        BY <2>0, <4>1, <4>4
    <3> QED
      BY <3>1, <3>2, <3>3 DEF UserSend
  <2>5. ASSUME NEW m \in Node, NEW R \in SUBSET Node, Broadcast(m, R)
        PROVE  queue'[n] = queue[n]
    BY <2>5 DEF Broadcast, Sent
  <2>6. ASSUME NEW m \in Node, Deliver(m) PROVE Len(queue'[n]) >= Len(queue[n])
    <3>1. Step(m) /\ Len(queue'[m]) >= Len(queue[m])
      BY <2>6, DeliverIsStep
    <3>2. CASE m = n
      BY <3>1, <3>2
    <3>3. CASE m # n
      BY <2>1, <2>2, <3>1, <3>3
    <3> QED
      BY <3>2, <3>3
  <2>7. ASSUME NEW s \in Node, NEW m \in Node, DeliverAck(s, m)
        PROVE  queue'[n] = queue[n]
    <3>1. acks[s][m] > 0 /\ Step(m)
      BY <2>7, DeliverAckKeeps DEF DeliverAck
    <3>2. NextToSink(m)
      BY <3>1, AcksBelong
    <3> QED
      BY <2>2, <3>1, <3>2
  <2>8. CASE (\E s, m \in Node : LoseAck(s, m)) \/ Settle
    BY <2>1, <2>8 DEF LoseAck, Settle, vars
  <2> QED
    BY <2>1, <2>3, <2>4, <2>5, <2>6, <2>7, <2>8 DEF NetNext
<1> HIDE DEF A
<1>2. NetSpec => [][A]_allVars
  BY <1>1, NetInvariant, PTL DEF NetSpec
<1> QED
  BY <1>2 DEF A, FarNodesNeverDrain

(* Whatever ACKs, losses and retransmissions do in a network, a busy node   *)
(* has a frame in its MAC or its retransmission timer armed.                *)
THEOREM NetBusyReleasable == NetSpec => []BusyHasReason
<1>1. ~Closes
  BY NetworkAssumption
<1>2. Spec => []BusyHasReason
  BY <1>1, BusyReleasable
<1> QED
  BY <1>2, NetImplementsNodes, PTL

(* With a MAC that finishes a frame inside the call, no node of any network *)
(* forgets a packet or goes silent, and busy says that something of it is   *)
(* outstanding.                                                             *)
THEOREM NetKeepsGoing ==
  ASSUME SyncMac
  PROVE  NetSpec => [](BusyIffOutstanding /\ DataIsPending /\ NeverSilent)
<1>1. ~Closes
  BY NetworkAssumption
<1>2. Spec => []BusyIffOutstanding /\ []DataIsPending /\ []NeverSilent
  BY <1>1, SyncBusyIffOutstanding, SyncDataIsPending, SyncNeverSilent
<1> QED
  BY <1>2, NetImplementsNodes, PTL

----------------------------------------------------------------------------
(* The service *)

AcksFinite == \A n \in Node : IsFiniteSet(WaitingAcks(n))
Credit == [n \in Node |-> AcksFor(n)]

(* One ACK more or less at a sink for n, and nothing changes for the others. *)
LEMMA AckQueued ==
  ASSUME NetInv, AcksFinite, NEW s \in Sink, NEW n \in Node, QueueAck(s, n)
  PROVE  AcksFinite' /\ (Credit' = Credit \/ Credit' = [Credit EXCEPT ![n] = @ + 1])
<1> DEFINE k == acks[s][n]
           w == <<s, k + 1>>
<1>0. s \in Node /\ acks \in [Node -> [Node -> 0 .. MAX_ACKS]] /\ MAX_ACKS \in Nat
  BY NodeAssumption, NetworkAssumption DEF NetInv
<1>1. k \in 0 .. MAX_ACKS
  BY <1>0
<1>2. CASE k < MAX_ACKS
  <2>1. /\ acks'[s][n] = k + 1
        /\ \A q, m \in Node : (q = s /\ m = n) \/ acks'[q][m] = acks[q][m]
    BY <1>0, <1>2 DEF QueueAck
  <2>2. WaitingAcks(n)' = WaitingAcks(n) \cup {w} /\ w \notin WaitingAcks(n)
    <3>1. w \in Sink \X (1 .. MAX_ACKS) /\ w[1] = s /\ w[2] = k + 1
      BY <1>0, <1>1, <1>2
    <3>2. ASSUME NEW v \in Sink \X (1 .. MAX_ACKS)
          PROVE  v[2] <= acks'[v[1]][n] <=> v[2] <= acks[v[1]][n] \/ v = w
      <4>1. v[1] \in Node /\ v[2] \in 1 .. MAX_ACKS /\ v = <<v[1], v[2]>>
        BY NodeAssumption
      <4>2. CASE v[1] # s
        BY <2>1, <4>1, <4>2
      <4>3. CASE v[1] = s
        BY <1>1, <2>1, <4>1, <4>3
      <4> QED
        BY <4>2, <4>3
    <3>3. ~(w[2] <= acks[w[1]][n])
      BY <1>1, <3>1
    <3> HIDE DEF w
    <3> QED
      BY <3>1, <3>2, <3>3 DEF WaitingAcks
  <2>3. \A m \in Node \ {n} : WaitingAcks(m)' = WaitingAcks(m)
    BY <2>1, NodeAssumption DEF WaitingAcks
  <2>4. IsFiniteSet(WaitingAcks(n)') /\ Cardinality(WaitingAcks(n)') = Cardinality(WaitingAcks(n)) + 1
    BY <2>2, FS_AddElement DEF AcksFinite
  <2>5. AcksFinite'
    BY <2>3, <2>4 DEF AcksFinite
  <2>6. /\ AcksFor(n)' = AcksFor(n) + 1
        /\ \A m \in Node \ {n} : AcksFor(m)' = AcksFor(m)
    BY <2>3, <2>4 DEF AcksFor
  <2> QED
    BY <2>5, <2>6 DEF Credit
<1>3. CASE ~(k < MAX_ACKS)
  <2>1. \A q, m \in Node : acks'[q][m] = acks[q][m]
    BY <1>0, <1>3 DEF QueueAck
  <2>2. \A m \in Node : WaitingAcks(m)' = WaitingAcks(m)
    BY <2>1, NodeAssumption DEF WaitingAcks
  <2> QED
    BY <2>2 DEF AcksFinite, Credit, AcksFor
<1> QED
  BY <1>2, <1>3

LEMMA AckGone ==
  ASSUME NetInv, AcksFinite, NEW s \in Node, NEW n \in Node, acks[s][n] > 0,
         acks' = [acks EXCEPT ![s][n] = @ - 1]
  PROVE  AcksFinite' /\ Credit[n] > 0 /\ Credit' = [Credit EXCEPT ![n] = @ - 1]
<1> DEFINE k == acks[s][n]
           w == <<s, k>>
<1>0. /\ s \in Sink /\ acks \in [Node -> [Node -> 0 .. MAX_ACKS]] /\ MAX_ACKS \in Nat
      /\ Sink \subseteq Node
  BY NodeAssumption, NetworkAssumption DEF NetInv
<1>1. k \in 1 .. MAX_ACKS
  BY <1>0
<1>2. /\ acks'[s][n] = k - 1
      /\ \A q, m \in Node : (q = s /\ m = n) \/ acks'[q][m] = acks[q][m]
  BY <1>0
<1>3. WaitingAcks(n)' = WaitingAcks(n) \ {w} /\ w \in WaitingAcks(n)
  <2>1. w \in Sink \X (1 .. MAX_ACKS) /\ w[2] <= acks[w[1]][n]
    BY <1>0, <1>1
  <2>2. ASSUME NEW v \in Sink \X (1 .. MAX_ACKS)
        PROVE  v[2] <= acks'[v[1]][n] <=> v[2] <= acks[v[1]][n] /\ v # w
    <3>1. v[1] \in Node /\ v[2] \in 1 .. MAX_ACKS /\ v = <<v[1], v[2]>>
      BY <1>0
    <3>2. CASE v[1] # s
      BY <1>2, <3>1, <3>2
    <3>3. CASE v[1] = s
      BY <1>1, <1>2, <3>1, <3>3
    <3> QED
      BY <3>2, <3>3
  <2> HIDE DEF w
  <2> QED
    BY <2>1, <2>2 DEF WaitingAcks
<1>4. \A m \in Node \ {n} : WaitingAcks(m)' = WaitingAcks(m)
  BY <1>0, <1>2 DEF WaitingAcks
<1>5. /\ IsFiniteSet(WaitingAcks(n)')
      /\ Cardinality(WaitingAcks(n)') = Cardinality(WaitingAcks(n)) - 1
  BY <1>3, FS_RemoveElement DEF AcksFinite
<1>6. Cardinality(WaitingAcks(n)') \in Nat /\ Cardinality(WaitingAcks(n)) \in Nat
  BY <1>5, FS_CardinalityType DEF AcksFinite
<1>7. AcksFinite'
  BY <1>4, <1>5 DEF AcksFinite
<1>8. /\ AcksFor(n)' = AcksFor(n) - 1 /\ AcksFor(n) > 0
      /\ \A m \in Node \ {n} : AcksFor(m)' = AcksFor(m)
  BY <1>4, <1>5, <1>6 DEF AcksFor
<1> QED
  BY <1>7, <1>8 DEF Credit

LEMMA AcksUnchanged ==
  ASSUME AcksFinite, UNCHANGED acks
  PROVE  AcksFinite' /\ Credit' = Credit
BY DEF AcksFinite, Credit, AcksFor, WaitingAcks

(* Every step of the network is a step of the service or none.              *)
LEMMA ServiceStep ==
  ASSUME NetInv, AcksFinite, [NetNext]_allVars
  PROVE  AcksFinite' /\ [Service!Next]_<<accepted, Arrived, confirmed, Credit>>
<1> USE DEF Service!Next, Service!vars
<1>0. /\ delivered \subseteq ItemOf(accepted) /\ accepted \subseteq Packet
      /\ accepted \subseteq offered
  BY DEF NetInv
<1>1. ASSUME NEW n \in Node, NEW p \in Packet, AppSend(n, p)
      PROVE  /\ AcksFinite' /\ UNCHANGED <<Arrived, confirmed, Credit>>
             /\ Service!Accept(p) \/ UNCHANGED accepted
  <2>1. /\ UNCHANGED <<acks, delivered, confirmed>> /\ p \notin accepted
        /\ accepted' = accepted \cup {p} \/ UNCHANGED accepted
    BY <1>0, <1>1 DEF AppSend, netVars
  <2>2. AcksFinite' /\ Credit' = Credit /\ Arrived' = Arrived
    BY <2>1, AcksUnchanged DEF Arrived
  <2> QED
    BY <2>1, <2>2 DEF Service!Accept, Credit
<1>2. ASSUME NEW m \in Node, Deliver(m)
      PROVE  /\ AcksFinite' /\ UNCHANGED <<accepted, confirmed>>
             /\ \/ UNCHANGED <<Arrived, Credit>>
                \/ \E n \in Node, p \in Packet : Service!Deliver(n, p)
  <2> DEFINE from == Head(inbox[m]).from
             frame == Head(inbox[m]).frame
  <2>1. inbox[m] # <<>> /\ UNCHANGED <<accepted, confirmed>>
    BY <1>2 DEF Deliver
  <2>2. from \in Node /\ (frame.type = "data" => frame.item \in ItemOf(accepted))
    BY <2>1, HeadReceived
  <2>3. CASE UNCHANGED <<acks, delivered>>
    BY <2>1, <2>3, AcksUnchanged DEF Arrived
  <2>4. CASE /\ frame.type = "data" /\ RecvAtSink(m, from, frame.q)
             /\ QueueAck(m, from) /\ delivered' = delivered \cup {frame.item}
    <3>1. m \in Sink /\ frame.item.pkt \in accepted
      BY <2>2, <2>4 DEF RecvAtSink, ItemOf
    <3>2. AcksFinite' /\ (Credit' = Credit \/ Credit' = [Credit EXCEPT ![from] = @ + 1])
      BY <2>2, <2>4, <3>1, AckQueued
    <3>3. Arrived' = Arrived \cup {frame.item.pkt}
      BY <2>4 DEF Arrived
    <3>4. Service!Deliver(from, frame.item.pkt)
      BY <2>1, <3>1, <3>2, <3>3 DEF Service!Deliver, Credit
    <3> QED
      BY <1>0, <2>1, <2>2, <3>1, <3>2, <3>4
  <2> QED
    BY <1>2, <2>3, <2>4 DEF Deliver, RelayAnswers
<1>3. ASSUME NEW s \in Node, NEW n \in Node, DeliverAck(s, n)
      PROVE  /\ AcksFinite'
             /\ Service!Forfeit(n) \/ \E p \in Packet : Service!Confirm(n, p)
  <2>1. /\ acks[s][n] > 0 /\ acks' = [acks EXCEPT ![s][n] = @ - 1]
        /\ UNCHANGED <<accepted, delivered>>
        /\ confirmed' = (IF queue[n] = <<>> THEN confirmed
                         ELSE confirmed \cup {<<n, Head(queue[n]).pkt>>})
    BY <1>3 DEF DeliverAck
  <2>2. AcksFinite' /\ Credit[n] > 0 /\ Credit' = [Credit EXCEPT ![n] = @ - 1]
    BY <2>1, AckGone
  <2>3. Arrived' = Arrived
    BY <2>1 DEF Arrived
  <2>4. CASE queue[n] = <<>>
    BY <2>1, <2>2, <2>3, <2>4 DEF Service!Forfeit, Credit
  <2>5. CASE queue[n] # <<>>
    <3>1. Head(queue[n]) \in ItemOf(accepted)
      BY <2>5, HeadTailProperties DEF NetInv, Carried
    <3>2. Head(queue[n]).pkt \in accepted
      BY <3>1 DEF ItemOf
    <3>3. Service!Confirm(n, Head(queue[n]).pkt)
      BY <2>1, <2>2, <2>3, <2>5, <3>2 DEF Service!Confirm, Credit
    <3> QED
      BY <1>0, <2>2, <3>2, <3>3
  <2> QED
    BY <2>4, <2>5
<1>4. ASSUME NEW s \in Node, NEW n \in Node, LoseAck(s, n)
      PROVE  AcksFinite' /\ Service!Forfeit(n)
  <2>1. /\ acks[s][n] > 0 /\ acks' = [acks EXCEPT ![s][n] = @ - 1]
        /\ UNCHANGED <<accepted, delivered, confirmed>>
    BY <1>4 DEF LoseAck, appVars
  <2>2. AcksFinite' /\ Credit[n] > 0 /\ Credit' = [Credit EXCEPT ![n] = @ - 1]
    BY <2>1, AckGone
  <2> QED
    BY <2>1, <2>2 DEF Service!Forfeit, Credit, Arrived
<1>5. ASSUME UNCHANGED <<acks, accepted, delivered, confirmed>>
      PROVE  AcksFinite' /\ UNCHANGED <<accepted, Arrived, confirmed, Credit>>
  BY <1>5, AcksUnchanged DEF Arrived
<1>6. ASSUME NEW n \in Node,
             \/ Boot(n) \/ SendTimerStep(n) \/ BeaconTimerStep(n) \/ RetxTimerStep(n)
             \/ \E R \in SUBSET Node : Broadcast(n, R)
      PROVE  UNCHANGED <<acks, accepted, delivered, confirmed>>
  BY <1>6 DEF Boot, SendTimerStep, BeaconTimerStep, RetxTimerStep, Broadcast, netVars, appVars
<1>7. ASSUME Settle \/ UNCHANGED allVars
      PROVE  UNCHANGED <<acks, accepted, delivered, confirmed>>
  BY <1>7 DEF Settle, allVars, netVars, appVars
<1> QED
  BY <1>1, <1>2, <1>3, <1>4, <1>5, <1>6, <1>7 DEF NetNext

(* Whatever the topology, the losses, the copies and the order of frames    *)
(* and ACKs: a sink delivers only what some bcp_send accepted, and a node   *)
(* gets at most one `sent' callback for every delivery it made to a sink.   *)
THEOREM NetKeepsService == NetSpec => KeepsService
<1>1. NetInit => AcksFinite /\ Service!Init
  <2> SUFFICES ASSUME NetInit PROVE AcksFinite /\ Service!Init
    OBVIOUS
  <2>1. acks = [s \in Node |-> [n \in Node |-> 0]] /\ Sink \subseteq Node
    BY NodeAssumption DEF NetInit
  <2>2. \A n \in Node : WaitingAcks(n) = {}
    BY <2>1 DEF WaitingAcks
  <2>3. AcksFinite /\ Credit = [n \in Node |-> 0]
    BY <2>2, FS_EmptySet DEF AcksFinite, Credit, AcksFor
  <2> QED
    BY <2>3 DEF NetInit, Service!Init, Arrived, Credit
<1>2. NetInv /\ AcksFinite /\ [NetNext]_allVars =>
        AcksFinite' /\ [Service!Next]_<<accepted, Arrived, confirmed, Credit>>
  BY ServiceStep
<1>3. NetSpec => []AcksFinite
  BY <1>1, <1>2, NetInvariant, PTL DEF NetSpec
<1>4. NetSpec => [][Service!Next]_<<accepted, Arrived, confirmed, Credit>>
  BY <1>2, <1>3, NetInvariant, PTL DEF NetSpec
<1>5. NetSpec => Service!Init
  BY <1>1 DEF NetSpec
<1>6. [Service!Next]_<<accepted, Arrived, confirmed, Credit>> => [Service!Next]_Service!vars
  BY DEF Service!vars, Credit
<1>7. NetSpec => [][Service!Next]_Service!vars
  BY <1>4, <1>6, PTL
<1> QED
  BY <1>5, <1>7 DEF KeepsService, Service!Spec

----------------------------------------------------------------------------
(* Distances *)

(* Walks of k steps to a sink, some of which may stay where they are.       *)
WalksToSink(k) ==
  {f \in [0 .. k -> Node] :
     /\ f[k] \in Sink
     /\ \A i \in 0 .. k - 1 : f[i + 1] = f[i] \/ f[i + 1] \in Neighbours(f[i])}
Reached(k) == {n \in Node : \E f \in WalksToSink(k) : f[0] = n}

IsWithinHops(w) ==
  w = [k \in Nat |-> IF k = 0 THEN Sink
                     ELSE w[k - 1] \cup {n \in Node : Neighbours(n) \cap w[k - 1] # {}}]

(* The recursive function WithinHops is defined on all numbers of hops.     *)
LEMMA WithinHopsDef ==
  /\ WithinHops[0] = Sink
  /\ \A k \in Nat : WithinHops[k + 1] =
       WithinHops[k] \cup {n \in Node : Neighbours(n) \cap WithinHops[k] # {}}
<1> DEFINE More(S) == S \cup {n \in Node : Neighbours(n) \cap S # {}}
           Fcn(w) == [k \in Nat |-> IF k = 0 THEN Sink
                                    ELSE w[k - 1] \cup {n \in Node : Neighbours(n) \cap w[k - 1] # {}}]
           W == [k \in Nat |-> Reached(k)]
<1>1. Reached(0) = Sink
  <2>1. ASSUME NEW n \in Sink PROVE n \in Reached(0)
    <3> DEFINE f == [i \in 0 .. 0 |-> n]
    <3>1. f \in WalksToSink(0) /\ f[0] = n
      BY NodeAssumption DEF WalksToSink
    <3> HIDE DEF f
    <3> QED
      BY <3>1, NodeAssumption DEF Reached
  <2>2. ASSUME NEW n \in Reached(0) PROVE n \in Sink
    BY <2>2 DEF Reached, WalksToSink
  <2> QED
    BY <2>1, <2>2
<1>2. ASSUME NEW k \in Nat \ {0} PROVE Reached(k) = More(Reached(k - 1))
  <2>1. ASSUME NEW n \in Reached(k) PROVE n \in More(Reached(k - 1))
    <3>1. PICK f \in WalksToSink(k) : f[0] = n
      BY DEF Reached
    <3>2. /\ f \in [0 .. k -> Node] /\ f[k] \in Sink
          /\ \A i \in 0 .. k - 1 : f[i + 1] = f[i] \/ f[i + 1] \in Neighbours(f[i])
      BY DEF WalksToSink
    <3> DEFINE g == [i \in 0 .. k - 1 |-> f[i + 1]]
    <3>3. g \in [0 .. k - 1 -> Node] /\ g[k - 1] \in Sink /\ g[0] = f[1]
      BY <3>2
    <3>4. ASSUME NEW i \in 0 .. (k - 1) - 1
          PROVE  g[i + 1] = g[i] \/ g[i + 1] \in Neighbours(g[i])
      <4>1. i + 1 \in 0 .. k - 1 /\ g[i] = f[i + 1] /\ g[i + 1] = f[(i + 1) + 1]
        OBVIOUS
      <4> QED
        BY <3>2, <4>1
    <3> HIDE DEF g
    <3>5. g \in WalksToSink(k - 1)
      BY <3>3, <3>4 DEF WalksToSink
    <3>6. f[1] \in Node /\ f[1] \in Reached(k - 1)
      BY <3>2, <3>3, <3>5 DEF Reached
    <3>7. f[1] = n \/ f[1] \in Neighbours(n)
      BY <3>1, <3>2
    <3> QED
      BY <3>6, <3>7 DEF Reached
  <2>2. ASSUME NEW n \in More(Reached(k - 1)) PROVE n \in Reached(k)
    <3>0. n \in Node
      BY <2>2 DEF Reached
    <3>1. PICK m \in Reached(k - 1) : m = n \/ m \in Neighbours(n)
      BY <2>2 DEF Reached
    <3>2. PICK g \in WalksToSink(k - 1) : g[0] = m
      BY DEF Reached
    <3>3. /\ g \in [0 .. k - 1 -> Node] /\ g[k - 1] \in Sink
          /\ \A i \in 0 .. (k - 1) - 1 : g[i + 1] = g[i] \/ g[i + 1] \in Neighbours(g[i])
      BY DEF WalksToSink
    <3> DEFINE f == [i \in 0 .. k |-> IF i = 0 THEN n ELSE g[i - 1]]
    <3>4. f \in [0 .. k -> Node] /\ f[k] \in Sink /\ f[0] = n
      BY <3>0, <3>1, <3>3
    <3>5. ASSUME NEW i \in 0 .. k - 1
          PROVE  f[i + 1] = f[i] \/ f[i + 1] \in Neighbours(f[i])
      <4>1. CASE i = 0
        BY <3>1, <3>2, <4>1
      <4>2. CASE i # 0
        <5>1. /\ i - 1 \in 0 .. (k - 1) - 1 /\ f[i] = g[i - 1]
              /\ f[i + 1] = g[(i - 1) + 1]
          BY <4>2
        <5> QED
          BY <3>3, <5>1
      <4> QED
        BY <4>1, <4>2
    <3> HIDE DEF f
    <3>6. f \in WalksToSink(k)
      BY <3>4, <3>5 DEF WalksToSink
    <3> QED
      BY <3>0, <3>1, <3>4, <3>6 DEF Reached
  <2> QED
    BY <2>1, <2>2
<1>3. W = Fcn(W)
  <2>1. ASSUME NEW k \in Nat PROVE W[k] = Fcn(W)[k]
    <3>1. CASE k = 0
      BY <1>1, <3>1
    <3>2. CASE k # 0
      <4>1. k - 1 \in Nat /\ W[k - 1] = Reached(k - 1) /\ W[k] = Reached(k)
        BY <3>2
      <4>2. Fcn(W)[k] = More(W[k - 1])
        BY <3>2
      <4> QED
        BY <1>2, <3>2, <4>1, <4>2
    <3> QED
      BY <3>1, <3>2
  <2> QED
    BY <2>1
<1>4. IsWithinHops(W)
  BY <1>3 DEF IsWithinHops
<1> HIDE DEF W
<1>5. WithinHops = Fcn(WithinHops)
  <2>1. WithinHops = CHOOSE w : IsWithinHops(w)
    BY Zenon DEF WithinHops, IsWithinHops
  <2>2. IsWithinHops(WithinHops)
    BY <1>4, <2>1, Zenon
  <2> QED
    BY <2>2 DEF IsWithinHops
<1>6. ASSUME NEW w PROVE Fcn(w)[0] = Sink /\ \A k \in Nat : Fcn(w)[k + 1] = More(w[k])
  <2>1. ASSUME NEW k \in Nat PROVE Fcn(w)[k + 1] = More(w[k])
    <3>1. k + 1 \in Nat /\ k + 1 # 0 /\ (k + 1) - 1 = k
      OBVIOUS
    <3>2. Fcn(w)[k + 1] = More(w[(k + 1) - 1])
      BY <3>1
    <3> QED
      BY <3>1, <3>2
  <2> QED
    BY <2>1
<1> HIDE DEF Fcn
<1>7. WithinHops[0] = Sink /\ \A k \in Nat : WithinHops[k + 1] = More(WithinHops[k])
  BY <1>5, <1>6, Zenon
<1> QED
  BY <1>7

LEMMA WithinHopsGrows ==
  \A k \in Nat : WithinHops[k] \subseteq WithinHops[k + 1] /\ WithinHops[k] \subseteq Node
<1>1. ASSUME NEW k \in Nat PROVE WithinHops[k] \subseteq WithinHops[k + 1]
  BY WithinHopsDef
<1> DEFINE T == {k \in Nat : ~(WithinHops[k] \subseteq Node)}
<1>2. CASE T # {}
  <2>1. PICK k \in T : \A j \in T : k <= j
    BY <1>2, LeastNat
  <2>2. k # 0
    BY <2>1, WithinHopsDef, NodeAssumption
  <2>3. k - 1 \in Nat /\ k - 1 \notin T /\ k = (k - 1) + 1
    BY <2>1, <2>2
  <2>4. WithinHops[k] = WithinHops[k - 1]
          \cup {n \in Node : Neighbours(n) \cap WithinHops[k - 1] # {}}
    BY <2>3, WithinHopsDef
  <2> QED
    BY <2>1, <2>3, <2>4
<1> QED
  BY <1>1, <1>2

(* Once a further hop reaches nobody new, no number of hops does.           *)
LEMMA WithinHopsStops ==
  ASSUME NEW k \in Nat, WithinHops[k + 1] \subseteq WithinHops[k]
  PROVE  \A j \in Nat : j >= k => WithinHops[j + 1] \subseteq WithinHops[j]
<1> DEFINE T == {j \in Nat : j >= k /\ ~(WithinHops[j + 1] \subseteq WithinHops[j])}
<1>1. SUFFICES ASSUME T # {} PROVE FALSE
  OBVIOUS
<1>2. PICK j \in T : \A i \in T : j <= i
  BY <1>1, LeastNat
<1>3. j # k /\ j - 1 \in Nat /\ j - 1 >= k /\ (j - 1) + 1 = j /\ j \in Nat
  BY <1>2
<1>4. WithinHops[j] \subseteq WithinHops[j - 1]
  <2>1. j - 1 \notin T
    BY <1>2, <1>3
  <2>2. WithinHops[(j - 1) + 1] \subseteq WithinHops[j - 1]
    BY <1>3, <2>1
  <2> QED
    BY <1>3, <2>2
<1>5. WithinHops[j] = WithinHops[j - 1]
        \cup {n \in Node : Neighbours(n) \cap WithinHops[j - 1] # {}}
  <2>1. WithinHops[(j - 1) + 1] = WithinHops[j - 1]
          \cup {n \in Node : Neighbours(n) \cap WithinHops[j - 1] # {}}
    BY <1>3, WithinHopsDef
  <2> QED
    BY <1>3, <2>1
<1>6. WithinHops[j + 1] = WithinHops[j]
        \cup {n \in Node : Neighbours(n) \cap WithinHops[j] # {}}
  BY <1>3, WithinHopsDef
<1>7. WithinHops[j + 1] \subseteq WithinHops[j]
  BY <1>4, <1>5, <1>6
<1> QED
  BY <1>2, <1>7

(* Every node from which a sink is reached reaches it in MAX_HOPS hops: the *)
(* hops of such a network fit hopCount.                                     *)
HopsFit == WithinHops[MAX_HOPS + 1] \subseteq WithinHops[MAX_HOPS]

LEMMA SmallNetworkFits ==
  ASSUME IsFiniteSet(Node), Cardinality(Node) <= MAX_HOPS + 1
  PROVE  HopsFit
<1>0. MAX_HOPS \in Nat /\ Cardinality(Node) \in Nat
  BY NodeAssumption, FS_CardinalityType
<1>1. SUFFICES ASSUME ~HopsFit PROVE FALSE
  OBVIOUS
<1>2. \A k \in Nat : WithinHops[k] \subseteq Node /\ WithinHops[k] \subseteq WithinHops[k + 1]
  BY WithinHopsGrows
<1>3. \A k \in Nat : IsFiniteSet(WithinHops[k]) /\ Cardinality(WithinHops[k]) \in Nat
  BY <1>2, FS_Subset, FS_CardinalityType
<1>4. ASSUME NEW k \in 0 .. MAX_HOPS PROVE ~(WithinHops[k + 1] \subseteq WithinHops[k])
  BY <1>0, <1>1, WithinHopsStops DEF HopsFit
<1> DEFINE T == {k \in 0 .. MAX_HOPS + 1 : ~(Cardinality(WithinHops[k]) >= k + 1)}
<1>5. T = {}
  <2>1. SUFFICES ASSUME T # {} PROVE FALSE
    OBVIOUS
  <2>0. T \subseteq Nat
    BY <1>0
  <2>2. PICK k \in T : \A j \in T : k <= j
    BY <2>0, <2>1, LeastNat
  <2>3. CASE k = 0
    <3>1. ~(WithinHops[0 + 1] \subseteq WithinHops[0]) /\ 0 \in Nat
      BY <1>0, <1>4
    <3>2. WithinHops[0 + 1] = WithinHops[0]
            \cup {n \in Node : Neighbours(n) \cap WithinHops[0] # {}}
      BY WithinHopsDef
    <3>3. WithinHops[0] # {}
      BY <3>1, <3>2
    <3>4. Cardinality(WithinHops[0]) # 0
      BY <1>3, <3>3, FS_EmptySet
    <3> QED
      BY <1>3, <2>2, <2>3, <3>4
  <2>4. CASE k # 0
    <3>1. k - 1 \in 0 .. MAX_HOPS /\ k - 1 \in Nat /\ (k - 1) + 1 = k /\ k \in Nat
      BY <1>0, <2>2, <2>4
    <3>2. Cardinality(WithinHops[k - 1]) >= k
      <4>1. k - 1 \notin T /\ k - 1 \in 0 .. MAX_HOPS + 1
        BY <1>0, <2>2, <3>1
      <4> QED
        BY <3>1, <4>1
    <3>3. PICK x \in WithinHops[k] : x \notin WithinHops[k - 1]
      BY <1>4, <3>1
    <3>4. WithinHops[k - 1] \cup {x} \subseteq WithinHops[k]
      BY <1>2, <3>1, <3>3
    <3>5. Cardinality(WithinHops[k - 1] \cup {x}) = Cardinality(WithinHops[k - 1]) + 1
      BY <1>3, <3>1, <3>3, FS_AddElement
    <3>6. Cardinality(WithinHops[k - 1] \cup {x}) <= Cardinality(WithinHops[k])
      BY <1>3, <3>1, <3>4, FS_Subset
    <3> QED
      BY <1>3, <2>2, <3>1, <3>2, <3>5, <3>6
  <2> QED
    BY <2>3, <2>4
<1>6. Cardinality(WithinHops[MAX_HOPS + 1]) >= MAX_HOPS + 2
  BY <1>0, <1>5
<1>7. Cardinality(WithinHops[MAX_HOPS + 1]) <= Cardinality(Node)
  BY <1>0, <1>2, FS_Subset
<1> QED
  BY <1>0, <1>3, <1>6, <1>7

----------------------------------------------------------------------------
(* Hop counts *)

(* Items whose hops cover the way from their origin to n, less the last hop. *)
Counted(n) ==
  {item \in Item : item.hop < MAX_HOPS \/ HopsFit =>
     \A k \in Nat \ {0} :
       n \in WithinHops[k] => Origin[item.pkt] \in WithinHops[k + item.hop - 1]}
CountedFrom == {r \in [from : Node, frame : Frame] : r.frame \in FrameWith(Counted(r.from))}
Covered ==
  {item \in Item : item.hop < MAX_HOPS \/ HopsFit =>
     Origin[item.pkt] \in WithinHops[item.hop]}

(* The inductive invariant: every item a node holds, in its queue, its MAC  *)
(* or on the way from it, is counted.                                       *)
HopInv ==
  /\ \A n \in Node :
       /\ queue[n] \in Seq(Counted(n))
       /\ radio[n] \in Seq(FrameWith(Counted(n)))
       /\ inbox[n] \in Seq(CountedFrom)
  /\ delivered \subseteq Covered

LEMMA NeighbourIsOneHopAway ==
  ASSUME NEW n \in Node, NEW m \in Neighbours(n), NEW k \in Nat, n \in WithinHops[k]
  PROVE  m \in Node /\ m \in WithinHops[k + 1]
<1>1. m \in Node /\ n \in Neighbours(m)
  BY NetworkAssumption DEF Neighbours
<1> QED
  BY <1>1, WithinHopsDef

(* Relays count their hop; only at a sink would a hop be counted too few,   *)
(* and sinks relay nothing.                                                 *)
LEMMA RelayCounts ==
  ASSUME NEW m \in Node \ Sink, NEW n \in Neighbours(m), NEW item \in Counted(n)
  PROVE  [item EXCEPT !.hop = OneMoreHop(@)] \in Counted(m)
<1> DEFINE h == item.hop
           new == [item EXCEPT !.hop = OneMoreHop(@)]
<1>0. MAX_HOPS \in 1 .. 255 /\ item \in Item /\ h \in 1 .. MAX_HOPS
  BY NodeAssumption DEF Counted, Item
<1>1. new \in Item /\ new.pkt = item.pkt /\ new.hop = OneMoreHop(h)
  BY <1>0 DEF Item, OneMoreHop
<1> HIDE DEF new
<1>2. ASSUME NEW k \in Nat \ {0}, m \in WithinHops[k], new.hop < MAX_HOPS \/ HopsFit
      PROVE  Origin[new.pkt] \in WithinHops[k + new.hop - 1]
  <2>1. n \in WithinHops[k + 1] /\ k + 1 \in Nat \ {0}
    BY <1>2, NeighbourIsOneHopAway
  <2>2. h < MAX_HOPS \/ HopsFit
    BY <1>0, <1>1, <1>2 DEF OneMoreHop
  <2>3. Origin[item.pkt] \in WithinHops[(k + 1) + h - 1]
    BY <2>1, <2>2 DEF Counted
  <2>4. (k + 1) + h - 1 = k + h
    BY <1>0
  <2>5. CASE h < MAX_HOPS
    <3>1. k + new.hop - 1 = k + h
      BY <1>0, <1>1, <2>5 DEF OneMoreHop
    <3> QED
      BY <1>1, <2>3, <2>4, <3>1
  <2>6. CASE ~(h < MAX_HOPS)
    <3>1. new.hop = MAX_HOPS /\ h = MAX_HOPS /\ HopsFit
      BY <1>0, <1>1, <1>2, <2>6 DEF OneMoreHop
    <3>2. k + h - 1 \in Nat /\ k + h - 1 >= MAX_HOPS /\ (k + h - 1) + 1 = k + h
      BY <1>0, <3>1
    <3>3. WithinHops[(k + h - 1) + 1] \subseteq WithinHops[k + h - 1]
      BY <1>0, <3>1, <3>2, WithinHopsStops DEF HopsFit
    <3>4. WithinHops[k + h] \subseteq WithinHops[k + h - 1]
      BY <3>2, <3>3
    <3> QED
      BY <1>1, <2>3, <2>4, <3>1, <3>4
  <2> QED
    BY <2>5, <2>6
<1>3. new \in Counted(m)
  BY <1>1, <1>2 DEF Counted
<1> QED
  BY <1>3 DEF new

LEMMA SinkCovers ==
  ASSUME NEW m \in Sink, NEW n \in Neighbours(m), NEW item \in Counted(n)
  PROVE  item \in Covered
<1>0. m \in Node /\ item \in Item /\ item.hop \in 1 .. MAX_HOPS
  BY NodeAssumption DEF Counted, Item
<1>1. n \in WithinHops[1]
  <2>1. m \in WithinHops[0] /\ 0 \in Nat
    BY WithinHopsDef
  <2>2. n \in WithinHops[0 + 1]
    BY <1>0, <2>1, NeighbourIsOneHopAway
  <2> QED
    BY <2>2
<1>2. item.hop < MAX_HOPS \/ HopsFit => Origin[item.pkt] \in WithinHops[1 + item.hop - 1]
  BY <1>0, <1>1 DEF Counted
<1>3. 1 + item.hop - 1 = item.hop
  BY <1>0
<1> QED
  BY <1>0, <1>2, <1>3 DEF Covered

(* What a step of one node has to show.                                     *)
LEMMA HopStepKeeps ==
  ASSUME NetInv, HopInv, NEW n \in Node, Step(n),
         queue'[n] \in Seq(Counted(n)), radio'[n] \in Seq(FrameWith(Counted(n))),
         \A m \in Node : inbox'[m] \in Seq(CountedFrom),
         delivered' \subseteq Covered
  PROVE  HopInv'
<1>1. TypeOK
  BY DEF NetInv
<1>2. ASSUME NEW m \in Node
      PROVE  queue'[m] \in Seq(Counted(m)) /\ radio'[m] \in Seq(FrameWith(Counted(m)))
  <2>1. CASE m # n
    <3>1. queue'[m] = queue[m] /\ radio'[m] = radio[m]
      BY <1>1, <2>1, StepsAreLocal DEF SameAt
    <3> QED
      BY <3>1 DEF HopInv
  <2> QED
    BY <2>1
<1> QED
  BY <1>2 DEF HopInv

LEMMA AppSendCounts ==
  ASSUME NetInv, HopInv, NEW n \in Node, NEW p \in Packet, AppSend(n, p)
  PROVE  HopInv'
<1>1. /\ UserSend(n, p) /\ Origin[p] = n
      /\ UNCHANGED <<inbox, delivered>>
  BY DEF AppSend, netVars
<1>2. Step(n) /\ TypeOK
  BY <1>1 DEF Step, NetInv
<1> DEFINE item == [pkt |-> p, hop |-> 1]
<1>3. item \in Counted(n)
  <2>1. item \in Item /\ item.pkt = p /\ item.hop = 1
    BY NodeAssumption DEF Item
  <2>2. \A k \in Nat \ {0} : k + 1 - 1 = k
    OBVIOUS
  <2> HIDE DEF item
  <2> QED
    BY <1>1, <2>1, <2>2 DEF Counted
<1>4. radio' = radio /\ (queue' = queue \/ queue'[n] = <<item>> \o queue[n])
  BY <1>1, <1>2 DEF UserSend, Push, TypeOK
<1> HIDE DEF item
<1>5. queue'[n] \in Seq(Counted(n))
  <2>1. queue[n] \in Seq(Counted(n)) /\ <<item>> \in Seq(Counted(n))
    BY <1>3 DEF HopInv
  <2>2. <<item>> \o queue[n] \in Seq(Counted(n))
    BY <2>1, ConcatProperties
  <2> QED
    BY <1>4, <2>1, <2>2
<1> QED
  BY <1>1, <1>2, <1>4, <1>5, HopStepKeeps DEF HopInv

LEMMA BroadcastCounts ==
  ASSUME NetInv, HopInv, NEW n \in Node, NEW R \in SUBSET Node, Broadcast(n, R)
  PROVE  HopInv'
<1> DEFINE r == [from |-> n, frame |-> Head(radio[n])]
<1>1. /\ Sent(n) /\ UNCHANGED delivered
      /\ inbox' = [m \in Node |-> IF m \in R THEN Append(inbox[m], r) ELSE inbox[m]]
  BY DEF Broadcast, appVars
<1>2. Step(n) /\ TypeOK
  BY <1>1 DEF Step, Local, NetInv
<1>3. queue[n] \in Seq(Counted(n)) /\ radio[n] \in Seq(FrameWith(Counted(n)))
      /\ radio[n] # <<>> /\ radio[n] \in Seq(Frame)
  BY <1>1, <1>2 DEF HopInv, Sent, TypeOK
<1>4. queue'[n] \in Seq(Counted(n)) /\ radio'[n] \in Seq(FrameWith(Counted(n)))
  BY <1>1, <1>2, <1>3, OwnStepsCarry DEF Local
<1>5. r \in CountedFrom
  <2>1. Head(radio[n]) \in FrameWith(Counted(n)) /\ Head(radio[n]) \in Frame
    BY <1>3, HeadTailProperties
  <2> QED
    BY <2>1 DEF CountedFrom
<1> HIDE DEF r
<1>6. ASSUME NEW m \in Node PROVE inbox'[m] \in Seq(CountedFrom)
  <2>1. inbox[m] \in Seq(CountedFrom)
    BY DEF HopInv
  <2>2. Append(inbox[m], r) \in Seq(CountedFrom)
    BY <1>5, <2>1, AppendProperties
  <2> QED
    BY <1>1, <2>1, <2>2
<1>7. delivered' \subseteq Covered
  BY <1>1 DEF HopInv
<1> QED
  BY <1>2, <1>4, <1>6, <1>7, HopStepKeeps

LEMMA DeliverCounts ==
  ASSUME NetInv, HopInv, NEW m \in Node, Deliver(m)
  PROVE  HopInv'
<1> DEFINE from == Head(inbox[m]).from
           frame == Head(inbox[m]).frame
           new == [frame.item EXCEPT !.hop = OneMoreHop(@)]
<1>1. Step(m) /\ radio' = radio /\ inbox' = [inbox EXCEPT ![m] = Tail(@)] /\ TypeOK
  BY DeliverIsStep DEF NetInv
<1>2. inbox[m] # <<>> /\ inbox[m] \in Seq(CountedFrom)
  BY DEF Deliver, HopInv
<1>3. Head(inbox[m]) \in CountedFrom /\ Tail(inbox[m]) \in Seq(CountedFrom)
  BY <1>2, HeadTailProperties
<1>4. from \in Neighbours(m) /\ (frame.type = "data" => frame.item \in Counted(from))
  BY <1>2, <1>3, HeadReceived DEF CountedFrom, FrameWith
<1>5. \A k \in Node : inbox'[k] \in Seq(CountedFrom)
  <2>1. \A k \in Node : k # m => inbox'[k] = inbox[k]
    BY <1>1
  <2>2. inbox'[m] = Tail(inbox[m])
    BY <1>1 DEF NetInv
  <2> QED
    BY <1>3, <2>1, <2>2 DEF HopInv
<1>6. /\ queue[m] \in Seq(Counted(m)) /\ radio'[m] \in Seq(FrameWith(Counted(m)))
      /\ delivered \subseteq Covered
  BY <1>1 DEF HopInv
<1>7. \/ UNCHANGED <<queue, delivered>>
      \/ /\ frame.type = "data" /\ m \notin Sink /\ UNCHANGED delivered
         /\ queue' = queue \/ queue'[m] = <<new>> \o queue[m]
      \/ /\ frame.type = "data" /\ m \in Sink /\ UNCHANGED queue
         /\ delivered' = delivered \cup {frame.item}
  <2>1. CASE /\ UNCHANGED delivered
             /\ RecvBeacon(m, from, frame.q) \/ RecvRequest(m, from, frame.q) \/ Overhear(m, from)
    BY <2>1 DEF RecvBeacon, RecvRequest, Overhear
  <2>2. CASE /\ frame.type = "data" /\ RecvToForward(m, from, frame.q, frame.item)
             /\ UNCHANGED delivered
    <3>1. /\ m \notin Sink
          /\ queue' = queue \/ queue' = [queue EXCEPT ![m] = <<new>> \o @]
      BY <2>2 DEF RecvToForward, Push
    <3> HIDE DEF new
    <3>2. queue' = queue \/ queue'[m] = <<new>> \o queue[m]
      BY <1>1, <3>1 DEF TypeOK
    <3> QED
      BY <2>2, <3>1, <3>2
  <2>3. CASE /\ frame.type = "data" /\ RecvAtSink(m, from, frame.q)
             /\ delivered' = delivered \cup {frame.item}
    BY <2>3 DEF RecvAtSink
  <2> QED
    BY <2>1, <2>2, <2>3 DEF Deliver
<1> HIDE DEF from, frame
<1>8. queue'[m] \in Seq(Counted(m)) /\ delivered' \subseteq Covered
  <2>1. CASE UNCHANGED <<queue, delivered>>
    BY <1>6, <2>1
  <2>2. CASE /\ frame.type = "data" /\ m \notin Sink /\ UNCHANGED delivered
             /\ queue' = queue \/ queue'[m] = <<new>> \o queue[m]
    <3>1. new \in Counted(m)
      BY <1>4, <2>2, RelayCounts
    <3> HIDE DEF new
    <3>2. <<new>> \o queue[m] \in Seq(Counted(m))
      BY <1>6, <3>1, ConcatProperties
    <3> QED
      BY <1>6, <2>2, <3>2
  <2>3. CASE /\ frame.type = "data" /\ m \in Sink /\ UNCHANGED queue
             /\ delivered' = delivered \cup {frame.item}
    BY <1>4, <1>6, <2>3, SinkCovers
  <2> QED
    BY <1>7, <2>1, <2>2, <2>3
<1> QED
  BY <1>1, <1>5, <1>6, <1>8, HopStepKeeps

LEMMA HopStep ==
  ASSUME NetInv, HopInv, [NetNext]_allVars
  PROVE  HopInv'
<1>0. /\ TypeOK
      /\ \A n \in Node : /\ queue[n] \in Seq(Counted(n))
                         /\ radio[n] \in Seq(FrameWith(Counted(n)))
  BY DEF NetInv, HopInv
<1>1. ASSUME NEW n \in Node,
             Open(n) \/ SendTimerFires(n) \/ BeaconTimerFires(n) \/ RetxTimerFires(n),
             UNCHANGED <<netVars, appVars>>
      PROVE  HopInv'
  <2>1. Step(n) /\ UNCHANGED <<inbox, delivered>>
    BY <1>1 DEF Step, Local, netVars, appVars
  <2>2. queue'[n] \in Seq(Counted(n)) /\ radio'[n] \in Seq(FrameWith(Counted(n)))
    BY <1>0, <1>1, OwnStepsCarry DEF Local
  <2> QED
    BY <2>1, <2>2, HopStepKeeps DEF HopInv
<1>2. ASSUME NEW s \in Node, NEW n \in Node, DeliverAck(s, n)
      PROVE  HopInv'
  <2>1. RecvAck(n) /\ UNCHANGED <<inbox, delivered>>
    BY <1>2 DEF DeliverAck
  <2>2. Step(n)
    BY <2>1 DEF Step, Receive
  <2>3. queue'[n] \in Seq(Counted(n)) /\ radio'[n] \in Seq(FrameWith(Counted(n)))
    BY <1>0, <2>1, OwnStepsCarry
  <2> QED
    BY <2>1, <2>2, <2>3, HopStepKeeps DEF HopInv
<1>3. ASSUME UNCHANGED <<queue, radio, inbox, delivered>>
      PROVE  HopInv'
  BY <1>3 DEF HopInv
<1>4. ASSUME \/ \E s, n \in Node : LoseAck(s, n)
             \/ Settle \/ UNCHANGED allVars
      PROVE  UNCHANGED <<queue, radio, inbox, delivered>>
  BY <1>4 DEF LoseAck, Settle, allVars, vars, netVars, appVars
<1>5. ASSUME NEW n \in Node,
             Boot(n) \/ SendTimerStep(n) \/ BeaconTimerStep(n) \/ RetxTimerStep(n)
      PROVE  HopInv'
  BY <1>1, <1>5 DEF Boot, SendTimerStep, BeaconTimerStep, RetxTimerStep
<1> QED
  BY <1>2, <1>3, <1>4, <1>5, AppSendCounts, BroadcastCounts, DeliverCounts DEF NetNext

LEMMA HopInvariant == NetSpec => []HopInv
<1>1. NetInit => HopInv
  BY EmptySeq DEF NetInit, Init, HopInv
<1>2. NetInv /\ HopInv /\ [NetNext]_allVars => HopInv'
  BY HopStep
<1> QED
  BY <1>1, <1>2, NetInvariant, PTL DEF NetSpec

(* In any network, a hop count below the saturation is at least the real    *)
(* distance of the origin.                                                  *)
THEOREM HopsCoverBelow ==
  NetSpec => [](\A item \in delivered :
                  item.hop < MAX_HOPS => Origin[item.pkt] \in WithinHops[item.hop])
<1>1. HopInv => \A item \in delivered :
                  item.hop < MAX_HOPS => Origin[item.pkt] \in WithinHops[item.hop]
  BY DEF HopInv, Covered
<1> QED
  BY <1>1, HopInvariant, PTL

(* In every network that hopCount can measure - no node is further than    *)
(* MAX_HOPS hops from the sinks, as in every network of at most MAX_HOPS +  *)
(* 1 nodes - a delivered packet reports at least the real distance of its   *)
(* origin, whatever is lost, copied and sent again on its way.              *)
THEOREM HopsCover ==
  ASSUME IsFiniteSet(Node), Cardinality(Node) <= MAX_HOPS + 1
  PROVE  NetSpec => []HopsCoverDistance
<1>1. HopInv => HopsCoverDistance
  BY SmallNetworkFits DEF HopInv, Covered, HopsCoverDistance
<1> QED
  BY <1>1, HopInvariant, PTL
=============================================================================
