---------------------------- MODULE BcpNodeProofs ----------------------------
(* Proofs about BcpNode, for every set of nodes, every environment and      *)
(* every value of the bounds.                                               *)
EXTENDS BcpNode, SequenceTheorems, LeastElement, TLAPS

NoDuplicates(t) == \A i, j \in DOMAIN t : t[i].nbr = t[j].nbr => i = j

(* routing_table_update_queuelog keeps a table within its pool, and keeps   *)
(* one record per neighbour.                                                *)
LEMMA UpdatedTable ==
  ASSUME NEW t \in Seq(Entry), NEW a \in Addr, NEW q \in Backlog,
         Len(t) <= MAX_ROUTING_TABLE_SIZE
  PROVE  /\ Updated(t, a, q) \in Seq(Entry)
         /\ Len(Updated(t, a, q)) <= MAX_ROUTING_TABLE_SIZE
         /\ NoDuplicates(t) => NoDuplicates(Updated(t, a, q))
<1> USE NodeAssumption
<1>1. CASE Known(t, a)
  <2> DEFINE k == CHOOSE i \in DOMAIN t : IsRecordOf(t, a, i)
             u == [t EXCEPT ![k].bp = q]
  <2>1. Updated(t, a, q) = u
    BY <1>1 DEF Updated
  <2> HIDE DEF k
  <2> DEFINE new == [nbr |-> t[k].nbr, bp |-> q]
  <2>2. \A i \in DOMAIN t : t[i] \in Entry
    BY ElementOfSeq
  <2>3. ASSUME k \in DOMAIN t
        PROVE  u = [t EXCEPT ![k] = new] /\ new \in Entry
    <3>1. t[k] \in Entry
      BY <2>2, <2>3
    <3>2. [t[k] EXCEPT !.bp = q] = new
      BY <3>1 DEF Entry
    <3> QED
      BY <3>1, <3>2 DEF Entry
  <2>4. CASE k \in DOMAIN t
    <3>1. u = [t EXCEPT ![k] = new] /\ new \in Entry /\ new.nbr = t[k].nbr
      BY <2>3, <2>4
    <3> HIDE DEF new, u
    <3>2. u \in Seq(Entry) /\ DOMAIN u = DOMAIN t /\ Len(u) = Len(t)
      BY <2>4, <3>1, ExceptSeq, LenProperties
    <3>3. \A i \in DOMAIN t : u[i].nbr = t[i].nbr
      BY <3>1
    <3> QED
      BY <2>1, <3>2, <3>3 DEF NoDuplicates, u
  <2>5. CASE k \notin DOMAIN t
    <3>1. u = t
      BY <2>5
    <3> QED
      BY <2>1, <3>1
  <2> QED
    BY <2>4, <2>5
<1>2. CASE ~Known(t, a) /\ Len(t) < MAX_ROUTING_TABLE_SIZE
  <2> DEFINE e == [nbr |-> a, bp |-> q]
             u == Append(t, e)
  <2>1. Updated(t, a, q) = u
    BY <1>2 DEF Updated
  <2>2. e \in Entry /\ e.nbr = a
    BY DEF Entry
  <2> HIDE DEF e
  <2>3. u \in Seq(Entry) /\ Len(u) = Len(t) + 1 /\ DOMAIN u = 1 .. Len(t) + 1
    BY <2>2
  <2>4. \A i \in 1 .. Len(t) : u[i] = t[i] /\ t[i].nbr # a
    BY <1>2, <2>2 DEF Known
  <2>5. u[Len(t) + 1].nbr = a
    BY <2>2
  <2>6. NoDuplicates(t) => NoDuplicates(u)
    BY <2>3, <2>4, <2>5 DEF NoDuplicates
  <2> QED
    BY <1>2, <2>1, <2>3, <2>6
<1>3. CASE ~Known(t, a) /\ ~(Len(t) < MAX_ROUTING_TABLE_SIZE)
  BY <1>3 DEF Updated
<1> QED
  BY <1>1, <1>2, <1>3

(* routingtable_clear keeps them too. *)
LEMMA ClearedTable ==
  ASSUME NEW t \in Seq(Entry), Len(t) <= MAX_ROUTING_TABLE_SIZE
  PROVE  /\ Cleared(t) \in Seq(Entry)
         /\ Len(Cleared(t)) <= MAX_ROUTING_TABLE_SIZE
         /\ NoDuplicates(t) => NoDuplicates(Cleared(t))
<1> USE NodeAssumption
<1>1. CASE t = <<>>
  <2>1. Cleared(t) = <<>>
    BY <1>1 DEF Cleared
  <2> QED
    BY <2>1 DEF NoDuplicates
<1>2. CASE t # <<>>
  <2>1. Cleared(t) = Tail(t)
    BY <1>2, TailIsSubSeq DEF Cleared
  <2>2. Tail(t) \in Seq(Entry) /\ Len(Tail(t)) = Len(t) - 1
    BY <1>2
  <2>3. \A i \in 1 .. Len(t) - 1 : Tail(t)[i] = t[i + 1]
    BY <1>2
  <2>4. Len(t) \in Nat /\ DOMAIN t = 1 .. Len(t) /\ DOMAIN Tail(t) = 1 .. Len(t) - 1
    BY <2>2
  <2>5. NoDuplicates(t) => NoDuplicates(Tail(t))
    BY <2>3, <2>4 DEF NoDuplicates
  <2> QED
    BY <2>1, <2>2, <2>5
<1> QED
  BY <1>1, <1>2

(* routingtable_find_routing always finds a neighbour in a table with a     *)
(* record: a heaviest one, and the last of them.                            *)
LEMMA BestExists ==
  ASSUME NEW t \in Seq(Entry), t # <<>>, NEW q \in Backlog
  PROVE  /\ \E i \in DOMAIN t : IsBest(t, q, i)
         /\ BestNeighbour(t, q) \in Addr
<1> USE NodeAssumption
<1> DEFINE bps == {t[i].bp : i \in DOMAIN t}
<1>1. \A i \in DOMAIN t : t[i].bp \in Nat /\ t[i].nbr \in Addr
  <2>1. \A i \in DOMAIN t : t[i] \in Entry
    BY ElementOfSeq
  <2> QED
    BY <2>1 DEF Entry, Backlog
<1>2. Len(t) \in Nat /\ DOMAIN t = 1 .. Len(t) /\ 1 \in DOMAIN t /\ q \in Nat
  BY LenProperties, EmptySeq DEF Backlog
<1>3. PICK b \in bps : \A c \in bps : b <= c
  <2>1. bps \subseteq Nat /\ bps # {}
    BY <1>1, <1>2
  <2> QED
    BY <2>1, LeastNat
<1> DEFINE least == {Len(t) - i : i \in {j \in DOMAIN t : t[j].bp = b}}
<1>4. PICK d \in least : \A c \in least : d <= c
  <2>1. least \subseteq Nat
    BY <1>2
  <2>2. least # {}
    BY <1>3
  <2> QED
    BY <2>1, <2>2, LeastNat
<1>5. PICK i \in DOMAIN t : t[i].bp = b /\ d = Len(t) - i
  BY <1>4
<1>6. \A j \in DOMAIN t : t[j].bp \in Nat /\ t[i].bp <= t[j].bp
  BY <1>1, <1>3, <1>5
<1>7. \A j \in DOMAIN t : t[j].bp = b => j <= i
  <2>1. ASSUME NEW j \in DOMAIN t, t[j].bp = b
        PROVE  j <= i
    <3>1. Len(t) - j \in least
      BY <2>1
    <3>2. Len(t) - i <= Len(t) - j
      BY <1>4, <1>5, <3>1
    <3> HIDE DEF least
    <3> QED
      BY <1>2, <3>2
  <2> QED
    BY <2>1
<1>8. IsBest(t, q, i)
  <2>1. \A j \in DOMAIN t : q - t[j].bp <= q - t[i].bp
    BY <1>2, <1>5, <1>6
  <2>2. ASSUME NEW j \in i + 1 .. Len(t)
        PROVE  q - t[j].bp < q - t[i].bp
    <3>1. j \in DOMAIN t /\ ~(j <= i)
      BY <1>2, <1>5
    <3>2. t[j].bp # t[i].bp
      BY <1>5, <1>7, <3>1
    <3>3. q \in Int /\ t[i].bp \in Int /\ t[j].bp \in Int /\ t[i].bp <= t[j].bp
      BY <1>2, <1>5, <1>6, <3>1
    <3> QED
      BY <3>2, <3>3
  <2> QED
    BY <1>5, <2>1, <2>2 DEF IsBest, Weight
<1> DEFINE k == CHOOSE j \in DOMAIN t : IsBest(t, q, j)
<1>9. k \in DOMAIN t
  BY <1>5, <1>8
<1> QED
  BY <1>1, <1>5, <1>8, <1>9 DEF BestNeighbour

----------------------------------------------------------------------------
(* What one node keeps *)
QueueOK(q) == q \in Seq(Item) /\ Len(q) <= MAX_PACKET_QUEUE_SIZE
TableOK(t) == t \in Seq(Entry) /\ Len(t) <= MAX_ROUTING_TABLE_SIZE
RadioOK(r) == r \in Seq(Frame) /\ Len(r) <= MAX_RADIO

LEMMA TypePerNode ==
  ASSUME TypeOK, NEW n \in Node
  PROVE  QueueOK(queue[n]) /\ TableOK(table[n]) /\ RadioOK(radio[n])
BY DEF TypeOK, QueueOK, TableOK, RadioOK

LEMMA BacklogFits ==
  ASSUME NEW q, QueueOK(q)
  PROVE  Len(q) \in Backlog /\ (q # <<>> => Head(q) \in Item /\ QueueOK(Tail(q)))
BY NodeAssumption, HeadTailProperties DEF QueueOK, Backlog

(* What HandToMac leaves is a sequence of frames of bounded length, not     *)
(* empty.                                                                   *)
LEMMA Handed ==
  ASSUME TypeOK, NEW n \in Node, NEW f \in Frame, HandToMac(n, f)
  PROVE  /\ radio' \in [Node -> Seq(Frame)]
         /\ \A m \in Node : RadioOK(radio'[m])
         /\ radio'[n] # <<>>
<1> USE NodeAssumption
<1>1. radio'[n] = Append(radio[n], f) /\ \A m \in Node : m # n => radio'[m] = radio[m]
  BY DEF HandToMac, TypeOK
<1>2. RadioOK(Append(radio[n], f)) /\ Append(radio[n], f) # <<>>
  <2> DEFINE r == radio[n]
  <2>1. r \in Seq(Frame) /\ Len(r) \in Nat /\ Len(r) < MAX_RADIO
    BY LenProperties DEF HandToMac, TypeOK
  <2> HIDE DEF r
  <2>2. /\ Append(r, f) \in Seq(Frame) /\ Append(r, f) # <<>>
        /\ Len(Append(r, f)) = Len(r) + 1
    BY <2>1, AppendProperties
  <2> QED
    BY <2>1, <2>2 DEF RadioOK, r
<1>3. \A m \in Node : RadioOK(radio'[m])
  BY <1>1, <1>2, TypePerNode
<1> QED
  BY <1>1, <1>2, <1>3 DEF HandToMac, TypeOK, RadioOK

(* Pushing an item that HasRoom let through. *)
LEMMA Pushed ==
  ASSUME TypeOK, NEW n \in Node, NEW item \in Item, HasRoom(n), Push(n, item)
  PROVE  queue' \in [Node -> Seq(Item)] /\ \A m \in Node : QueueOK(queue'[m])
<1> USE NodeAssumption
<1> DEFINE q == queue[n]
<1>1. q \in Seq(Item) /\ Len(q) \in Nat /\ Len(q) + 1 <= MAX_PACKET_QUEUE_SIZE
  BY LenProperties DEF HasRoom, TypeOK
<1>2. queue'[n] = <<item>> \o q /\ \A m \in Node : m # n => queue'[m] = queue[m]
  BY DEF Push, TypeOK
<1> HIDE DEF q
<1>3. <<item>> \in Seq(Item) /\ Len(<<item>>) = 1
  OBVIOUS
<1>4. <<item>> \o q \in Seq(Item) /\ Len(<<item>> \o q) = 1 + Len(q)
  BY <1>1, <1>3, ConcatProperties
<1>5. \A m \in Node : QueueOK(queue'[m])
  <2>1. QueueOK(<<item>> \o q)
    BY <1>1, <1>4 DEF QueueOK
  <2> QED
    BY <1>2, <2>1, TypePerNode
<1> QED
  BY <1>1, <1>4, <1>5 DEF Push, TypeOK, q

(* A frame from a neighbour or an overheard one. *)
LEMMA Learnt ==
  ASSUME TypeOK, NEW n \in Node, NEW from \in Addr, NEW q \in Backlog,
         table' = [table EXCEPT ![n] = Updated(@, from, q)]
  PROVE  table' \in [Node -> Seq(Entry)] /\ \A m \in Node : TableOK(table'[m])
<1>1. TableOK(Updated(table[n], from, q))
  BY TypePerNode, UpdatedTable DEF TableOK
<1>2. table'[n] = Updated(table[n], from, q) /\ \A m \in Node : m # n => table'[m] = table[m]
  BY DEF TypeOK
<1>3. \A m \in Node : TableOK(table'[m])
  BY <1>1, <1>2, TypePerNode
<1> QED
  BY <1>1, <1>3 DEF TypeOK, TableOK

(* routingtable_clear and the broadcast of a request. *)
LEMMA Requested ==
  ASSUME TypeOK, NEW n \in Node, RetransmitCallback(n)
  PROVE  /\ busy' \in [Node -> BOOLEAN] /\ sendTimer' \in [Node -> BOOLEAN]
         /\ table' \in [Node -> Seq(Entry)] /\ \A m \in Node : TableOK(table'[m])
         /\ radio' \in [Node -> Seq(Frame)] /\ \A m \in Node : RadioOK(radio'[m])
         /\ radio'[n] # <<>>
<1>1. Request(Len(queue[n])) \in Frame
  BY TypePerNode, BacklogFits DEF Request, Frame
<1>2. TableOK(Cleared(table[n]))
  BY TypePerNode, ClearedTable DEF TableOK
<1>3. table'[n] = Cleared(table[n]) /\ \A m \in Node : m # n => table'[m] = table[m]
  BY DEF RetransmitCallback, TypeOK
<1>4. \A m \in Node : TableOK(table'[m])
  BY <1>2, <1>3, TypePerNode
<1>5. HandToMac(n, Request(Len(queue[n])))
  BY DEF RetransmitCallback
<1> QED
  BY <1>1, <1>2, <1>4, <1>5, Handed DEF RetransmitCallback, TypeOK, TableOK

----------------------------------------------------------------------------
(* Every step of a node keeps the types. *)
LEMMA TypeStep ==
  ASSUME TypeOK, [Next]_vars
  PROVE  TypeOK'
<1> USE NodeAssumption
<1> DEFINE PerNode == \A m \in Node : QueueOK(queue'[m]) /\ TableOK(table'[m]) /\ RadioOK(radio'[m])
<1>0. \A m \in Node : QueueOK(queue[m]) /\ TableOK(table[m]) /\ RadioOK(radio[m])
  BY TypePerNode
<1>1. ASSUME NEW n \in Node, Open(n)
      PROVE  TypeOK'
  <2>1. /\ queue' \in [Node -> Seq(Item)] /\ \A m \in Node : QueueOK(queue'[m])
        /\ table' \in [Node -> Seq(Entry)] /\ \A m \in Node : TableOK(table'[m])
    BY <1>0, <1>1, EmptySeq DEF Open, TypeOK, QueueOK, TableOK
  <2>2. CASE busy[n]
    BY <1>1, <2>1, <2>2 DEF Open, TypeOK, QueueOK, TableOK, timers
  <2>3. CASE ~busy[n]
    <3>1. HandToMac(n, Beacon(0)) /\ Beacon(0) \in Frame
      BY <1>1, <2>3 DEF Open, Beacon, Frame, Backlog
    <3> QED
      BY <1>1, <2>1, <2>3, <3>1, Handed DEF Open, TypeOK, QueueOK, TableOK, RadioOK, timers
  <2> QED
    BY <2>2, <2>3
<1>2. ASSUME NEW n \in Node, NEW p \in Packet, UserSend(n, p)
      PROVE  TypeOK'
  <2>1. [pkt |-> p, hop |-> 1] \in Item
    BY DEF Item
  <2>2. CASE HasRoom(n)
    <3>1. Push(n, [pkt |-> p, hop |-> 1])
      BY <1>2, <2>2 DEF UserSend
    <3> QED
      BY <1>2, <2>1, <2>2, <3>1, Pushed DEF UserSend, TypeOK, QueueOK
  <2>3. CASE ~HasRoom(n)
    BY <1>2, <2>3 DEF UserSend, TypeOK
  <2> QED
    BY <2>2, <2>3
<1>3. ASSUME NEW n \in Node, SendTimerFires(n)
      PROVE  TypeOK'
  <2>1. CASE busy[n]
    BY <1>3, <2>1 DEF SendTimerFires, TypeOK, Transmit
  <2>2. CASE ~busy[n] /\ queue[n] = <<>>
    BY <1>3, <2>2 DEF SendTimerFires, TypeOK, Transmit
  <2>3. CASE ~busy[n] /\ queue[n] # <<>> /\ table[n] = <<>>
    <3>1. RetransmitCallback(n) /\ UNCHANGED <<up, queue, attempts, beaconTimer, retxTimer>>
      BY <1>3, <2>3 DEF SendTimerFires, Transmit
    <3> QED
      BY <3>1, Requested DEF TypeOK, TableOK, RadioOK
  <2>4. CASE ~busy[n] /\ queue[n] # <<>> /\ table[n] # <<>>
    <3>1. Transmit(n) /\ sendTimer' = [sendTimer EXCEPT ![n] = FALSE] /\ UNCHANGED <<up, queue, table, retxTimer>>
      BY <1>3, <2>4 DEF SendTimerFires
    <3> DEFINE f == Data(BestNeighbour(table[n], Len(queue[n])), Len(queue[n]), Head(queue[n]))
    <3>2. f \in Frame
      <4>1. Len(queue[n]) \in Backlog /\ Head(queue[n]) \in Item
        BY <1>0, <2>4, BacklogFits
      <4>2. BestNeighbour(table[n], Len(queue[n])) \in Addr
        BY <1>0, <2>4, <4>1, BestExists DEF TableOK
      <4> QED
        BY <4>1, <4>2 DEF Data, Frame
    <3>3. HandToMac(n, f)
      BY <3>1 DEF Transmit
    <3> HIDE DEF f
    <3>4. radio' \in [Node -> Seq(Frame)] /\ \A m \in Node : RadioOK(radio'[m])
      BY <3>2, <3>3, Handed
    <3>5. attempts' \in [Node -> 0 .. MAX_ATTEMPTS]
      BY <3>1 DEF Transmit, TypeOK
    <3>6. /\ busy' \in [Node -> BOOLEAN] /\ sendTimer' \in [Node -> BOOLEAN]
          /\ beaconTimer' \in [Node -> BOOLEAN]
      BY <3>1 DEF Transmit, TypeOK
    <3> QED
      BY <3>1, <3>4, <3>5, <3>6 DEF TypeOK, RadioOK
  <2> QED
    BY <2>1, <2>2, <2>3, <2>4
<1>4. ASSUME NEW n \in Node, BeaconTimerFires(n)
      PROVE  TypeOK'
  <2>1. CASE busy[n]
    BY <1>4, <2>1 DEF BeaconTimerFires, SendBeacon, TypeOK
  <2>2. CASE ~busy[n]
    <3>1. HandToMac(n, Beacon(Len(queue[n]))) /\ Beacon(Len(queue[n])) \in Frame
      BY <1>0, <1>4, <2>2, BacklogFits DEF BeaconTimerFires, SendBeacon, Beacon, Frame
    <3> QED
      BY <1>4, <2>2, <3>1, Handed DEF BeaconTimerFires, SendBeacon, TypeOK, RadioOK
  <2> QED
    BY <2>1, <2>2
<1>5. ASSUME NEW n \in Node, RetxTimerFires(n)
      PROVE  TypeOK'
  BY <1>5, Requested DEF RetxTimerFires, TypeOK, TableOK, RadioOK
<1>6. ASSUME NEW n \in Node, Sent(n)
      PROVE  TypeOK'
  <2>1. /\ radio' = [radio EXCEPT ![n] = Tail(radio[n])] /\ radio[n] # <<>>
        /\ UNCHANGED <<up, queue, table, attempts>>
    BY <1>6 DEF Sent
  <2>2. RadioOK(Tail(radio[n]))
    BY <1>0, <2>1, HeadTailProperties DEF RadioOK
  <2>3. \A m \in Node : RadioOK(radio'[m])
    BY <1>0, <2>1, <2>2 DEF TypeOK
  <2>4. /\ busy' \in [Node -> BOOLEAN] /\ sendTimer' \in [Node -> BOOLEAN]
        /\ beaconTimer' \in [Node -> BOOLEAN] /\ retxTimer' \in [Node -> BOOLEAN]
    BY <1>6 DEF Sent, BeaconSent, RequestSent, DataSent, timers, TypeOK
  <2> QED
    BY <2>1, <2>2, <2>3, <2>4 DEF TypeOK, RadioOK
<1>7. ASSUME NEW n \in Node, RecvAck(n)
      PROVE  TypeOK'
  <2>1. CASE queue[n] # <<>>
    <3>1. ConfirmTop(n) /\ UNCHANGED <<up, table, beaconTimer, radio>>
      BY <1>7, <2>1 DEF RecvAck
    <3>2. QueueOK(Tail(queue[n]))
      BY <1>0, <2>1, BacklogFits
    <3>3. \A m \in Node : QueueOK(queue'[m])
      BY <1>0, <3>1, <3>2 DEF ConfirmTop, TypeOK
    <3>4. queue' \in [Node -> Seq(Item)]
      BY <3>1, <3>2 DEF ConfirmTop, TypeOK, QueueOK
    <3>5. /\ busy' \in [Node -> BOOLEAN] /\ sendTimer' \in [Node -> BOOLEAN]
          /\ retxTimer' \in [Node -> BOOLEAN] /\ attempts' \in [Node -> 0 .. MAX_ATTEMPTS]
      BY <3>1 DEF ConfirmTop, TypeOK
    <3> QED
      BY <3>1, <3>3, <3>4, <3>5 DEF TypeOK, QueueOK
  <2>2. CASE queue[n] = <<>>
    BY <1>7, <2>2 DEF RecvAck, ConfirmTop, TypeOK
  <2> QED
    BY <2>1, <2>2
<1>8. ASSUME NEW n \in Node, NEW from \in Addr, NEW q \in Backlog,
             RecvBeacon(n, from, q) \/ RecvRequest(n, from, q) \/ RecvAtSink(n, from, q)
      PROVE  TypeOK'
  BY <1>8, Learnt DEF RecvBeacon, RecvRequest, RecvAtSink, TypeOK, TableOK, timers
<1>9. ASSUME NEW n \in Node, NEW from \in Addr, NEW q \in Backlog, NEW item \in Item,
             RecvToForward(n, from, q, item)
      PROVE  TypeOK'
  <2> DEFINE new == [item EXCEPT !.hop = OneMoreHop(@)]
  <2>1. new \in Item
    BY DEF Item, OneMoreHop
  <2>2. table' \in [Node -> Seq(Entry)] /\ \A m \in Node : TableOK(table'[m])
    BY <1>9, Learnt DEF RecvToForward
  <2>3. CASE HasRoom(n)
    <3>1. Push(n, new)
      BY <1>9, <2>3 DEF RecvToForward
    <3> HIDE DEF new
    <3>2. queue' \in [Node -> Seq(Item)] /\ \A m \in Node : QueueOK(queue'[m])
      BY <2>1, <2>3, <3>1, Pushed
    <3> QED
      BY <1>9, <2>2, <2>3, <3>2 DEF RecvToForward, TypeOK, QueueOK, TableOK
  <2>4. CASE ~HasRoom(n)
    BY <1>9, <2>2, <2>4 DEF RecvToForward, TypeOK, TableOK
  <2> QED
    BY <2>3, <2>4
<1>10. ASSUME NEW n \in Node, NEW from \in Addr, Overhear(n, from)
       PROVE  TypeOK'
  <2>1. 0 \in Backlog
    BY DEF Backlog
  <2> QED
    BY <1>10, <2>1, Learnt DEF Overhear, TypeOK, TableOK, timers
<1>11. ASSUME NEW n \in Node, Close(n)
       PROVE  TypeOK'
  <2>1. TableOK(Cleared(table[n]))
    BY <1>0, ClearedTable DEF TableOK
  <2>2. \A m \in Node : QueueOK(queue'[m]) /\ TableOK(table'[m])
    BY <1>0, <1>11, <2>1, EmptySeq DEF Close, TypeOK, QueueOK
  <2> QED
    BY <1>11, <2>1, <2>2, EmptySeq DEF Close, TypeOK, QueueOK, TableOK
<1>12. CASE UNCHANGED vars
  BY <1>12 DEF vars, TypeOK
<1>13. CASE Next
  BY <1>1, <1>2, <1>3, <1>4, <1>5, <1>6, <1>7, <1>8, <1>9, <1>10, <1>11, <1>13
     DEF Next, Step, Local, Receive
<1> QED
  BY <1>12, <1>13

(* Every reachable state has its types, and no queue, no table and no MAC   *)
(* buffer outgrows its pool, whatever the neighbours send.                  *)
THEOREM TypeCorrect == Spec => []TypeOK
<1>1. Init => TypeOK
  BY NodeAssumption, EmptySeq DEF Init, TypeOK
<1>2. TypeOK /\ [Next]_vars => TypeOK'
  BY TypeStep
<1> QED
  BY <1>1, <1>2, PTL DEF Spec

----------------------------------------------------------------------------
(* What a step does to the table of each node: nothing, an update, a        *)
(* partial clear or the initialisation by bcp_open.                         *)
LEMMA TableStep ==
  ASSUME TypeOK, [Next]_vars, NEW m \in Node
  PROVE  \/ table'[m] = table[m]
         \/ table'[m] = Cleared(table[m])
         \/ table'[m] = <<>>
         \/ \E from \in Addr, q \in Backlog : table'[m] = Updated(table[m], from, q)
<1> USE NodeAssumption
<1> DEFINE Goal == \/ table'[m] = table[m]
                   \/ table'[m] = Cleared(table[m])
                   \/ table'[m] = <<>>
                   \/ \E from \in Addr, q \in Backlog : table'[m] = Updated(table[m], from, q)
<1>1. ASSUME NEW n \in Node, NEW from \in Addr, NEW q \in Backlog,
             table' = [table EXCEPT ![n] = Updated(@, from, q)]
      PROVE  Goal
  BY <1>1 DEF TypeOK
<1>2. ASSUME NEW n \in Node, Open(n) \/ Close(n) \/ RetransmitCallback(n)
      PROVE  Goal
  BY <1>2 DEF Open, Close, RetransmitCallback, TypeOK
<1>3. ASSUME UNCHANGED table
      PROVE  Goal
  BY <1>3
<1> HIDE DEF Goal
<1>4. ASSUME NEW n \in Node, \E p \in Packet : UserSend(n, p)
      PROVE  Goal
  BY <1>3, <1>4 DEF UserSend
<1>5. ASSUME NEW n \in Node, Local(n)
      PROVE  Goal
  BY <1>2, <1>3, <1>5 DEF Local, SendTimerFires, BeaconTimerFires, RetxTimerFires, Sent
<1>6. ASSUME NEW n \in Node, Receive(n)
      PROVE  Goal
  <2>1. ASSUME RecvAck(n)
        PROVE  Goal
    BY <1>3, <2>1 DEF RecvAck
  <2>2. ASSUME NEW from \in Addr, Overhear(n, from)
        PROVE  Goal
    <3>1. 0 \in Backlog
      BY DEF Backlog
    <3> QED
      BY <1>1, <2>2, <3>1 DEF Overhear
  <2>3. ASSUME NEW from \in Addr, NEW q \in Backlog,
               \/ RecvBeacon(n, from, q)
               \/ RecvRequest(n, from, q)
               \/ RecvAtSink(n, from, q)
               \/ \E item \in Item : RecvToForward(n, from, q, item)
        PROVE  Goal
    BY <1>1, <2>3 DEF RecvBeacon, RecvRequest, RecvAtSink, RecvToForward
  <2> QED
    BY <1>6, <2>1, <2>2, <2>3 DEF Receive
<1>7. ASSUME UNCHANGED vars
      PROVE  Goal
  BY <1>3, <1>7 DEF vars
<1> QED
  BY <1>2, <1>4, <1>5, <1>6, <1>7 DEF Next, Step, Goal

(* No order of beacons, requests, data, overheard frames and partial clears *)
(* leaves two records of one neighbour in a routing table.                  *)
THEOREM RecordsUnique == Spec => []OneRecordPerNeighbour
<1> DEFINE IInv == TypeOK /\ OneRecordPerNeighbour
<1>1. Init => IInv
  BY NodeAssumption, EmptySeq DEF Init, TypeOK, OneRecordPerNeighbour
<1>2. IInv /\ [Next]_vars => IInv'
  <2> SUFFICES ASSUME TypeOK, OneRecordPerNeighbour, [Next]_vars
               PROVE  TypeOK' /\ OneRecordPerNeighbour'
    OBVIOUS
  <2>1. ASSUME NEW m \in Node
        PROVE  NoDuplicates(table'[m])
    <3>1. TableOK(table[m]) /\ NoDuplicates(table[m])
      BY TypePerNode DEF OneRecordPerNeighbour, NoDuplicates
    <3>2. NoDuplicates(Cleared(table[m]))
      BY <3>1, ClearedTable DEF TableOK
    <3>3. \A from \in Addr, q \in Backlog : NoDuplicates(Updated(table[m], from, q))
      BY <3>1, UpdatedTable DEF TableOK
    <3>4. NoDuplicates(<<>>)
      BY DEF NoDuplicates
    <3> QED
      BY <3>1, <3>2, <3>3, <3>4, TableStep
  <2> QED
    BY <2>1, TypeStep DEF OneRecordPerNeighbour, NoDuplicates
<1> QED
  BY <1>1, <1>2, PTL DEF Spec

----------------------------------------------------------------------------
(* The busy flag, and what keeps a node going.                              *)

(* What another node's step leaves alone. *)
SameAt(m) ==
  /\ up'[m] = up[m] /\ queue'[m] = queue[m]
  /\ busy'[m] = busy[m] /\ radio'[m] = radio[m]
  /\ sendTimer'[m] = sendTimer[m] /\ beaconTimer'[m] = beaconTimer[m]
  /\ retxTimer'[m] = retxTimer[m]

(* Handing a frame to the MAC appends it. *)
LEMMA HandedAtEnd ==
  ASSUME TypeOK, NEW n \in Node, NEW f, HandToMac(n, f)
  PROVE  /\ radio'[n] = Append(radio[n], f) /\ radio'[n] # <<>>
         /\ \A m \in Node \ {n} : radio'[m] = radio[m]
<1> DEFINE r == radio[n]
           S == Frame \cup {f}
<1>1. radio'[n] = Append(r, f) /\ \A m \in Node \ {n} : radio'[m] = radio[m]
  BY DEF HandToMac, TypeOK
<1>2. r \in Seq(S) /\ f \in S
  BY SeqMonotonic DEF TypeOK
<1> HIDE DEF r, S
<1>3. Append(r, f) # <<>>
  BY <1>2, AppendProperties
<1> QED
  BY <1>1, <1>3 DEF r

(* A step of one node leaves the others alone. *)
LEMMA StepsAreLocal ==
  ASSUME TypeOK, NEW n \in Node, Step(n), NEW m \in Node, m # n
  PROVE  SameAt(m)
<1> USE DEF SameAt, TypeOK
<1>1. CASE Open(n) \/ Close(n)
  BY <1>1 DEF Open, Close, HandToMac, timers
<1>2. CASE \E p \in Packet : UserSend(n, p)
  BY <1>2 DEF UserSend, Push
<1>3. CASE SendTimerFires(n)
  BY <1>3 DEF SendTimerFires, RetransmitCallback, Transmit, HandToMac
<1>4. CASE BeaconTimerFires(n)
  BY <1>4 DEF BeaconTimerFires, SendBeacon, HandToMac
<1>5. CASE RetxTimerFires(n)
  BY <1>5 DEF RetxTimerFires, RetransmitCallback, HandToMac
<1>6. CASE Sent(n)
  BY <1>6 DEF Sent, BeaconSent, RequestSent, DataSent, timers
<1>7. CASE RecvAck(n)
  BY <1>7 DEF RecvAck, ConfirmTop
<1>8. CASE \E from \in Addr \ {n} :
             \/ Overhear(n, from)
             \/ \E q \in Backlog :
                  \/ RecvBeacon(n, from, q)
                  \/ RecvRequest(n, from, q)
                  \/ RecvAtSink(n, from, q)
                  \/ \E item \in Item : RecvToForward(n, from, q, item)
  BY <1>8 DEF Overhear, RecvBeacon, RecvRequest, RecvAtSink, RecvToForward, Push, timers
<1> QED
  BY <1>1, <1>2, <1>3, <1>4, <1>5, <1>6, <1>7, <1>8 DEF Step, Local, Receive

(* The flag of a connection is set only while a frame of it is in the MAC   *)
(* or its retransmission timer is armed, for every MAC and any environment. *)
(* bcp_close would break it: it stops the timer and keeps the flag.         *)
THEOREM BusyReleasable ==
  ASSUME ~Closes
  PROVE  Spec => []BusyHasReason
<1> DEFINE Reason(n) == busy[n] => radio[n] # <<>> \/ retxTimer[n]
           IInv == TypeOK /\ BusyHasReason
<1>1. Init => IInv
  BY NodeAssumption, EmptySeq DEF Init, TypeOK, BusyHasReason
<1>2. IInv /\ [Next]_vars => IInv'
  <2> SUFFICES ASSUME TypeOK, BusyHasReason, [Next]_vars
               PROVE  TypeOK' /\ BusyHasReason'
    OBVIOUS
  <2>1. ASSUME NEW n \in Node, Step(n)
        PROVE  busy'[n] => radio'[n] # <<>> \/ retxTimer'[n]
    <3> USE DEF TypeOK, BusyHasReason
    <3>1. CASE Open(n) \/ Close(n)
      BY <3>1, HandedAtEnd DEF Open, Close, timers
    <3>2. CASE \E p \in Packet : UserSend(n, p)
      BY <3>2 DEF UserSend
    <3>3. CASE SendTimerFires(n)
      BY <3>3, HandedAtEnd DEF SendTimerFires, RetransmitCallback, Transmit
    <3>4. CASE BeaconTimerFires(n)
      BY <3>4, HandedAtEnd DEF BeaconTimerFires, SendBeacon
    <3>5. CASE RetxTimerFires(n)
      BY <3>5, HandedAtEnd DEF RetxTimerFires, RetransmitCallback
    <3>6. CASE Sent(n)
      BY <3>6 DEF Sent, BeaconSent, RequestSent, DataSent, timers
    <3>7. CASE RecvAck(n)
      BY <3>7 DEF RecvAck, ConfirmTop
    <3>8. CASE \E from \in Addr \ {n} :
                 \/ Overhear(n, from)
                 \/ \E q \in Backlog :
                      \/ RecvBeacon(n, from, q)
                      \/ RecvRequest(n, from, q)
                      \/ RecvAtSink(n, from, q)
                      \/ \E item \in Item : RecvToForward(n, from, q, item)
      BY <3>8 DEF Overhear, RecvBeacon, RecvRequest, RecvAtSink, RecvToForward, timers
    <3> QED
      BY <2>1, <3>1, <3>2, <3>3, <3>4, <3>5, <3>6, <3>7, <3>8 DEF Step, Local, Receive
  <2>2. CASE Next
    <3>1. PICK n \in Node : Step(n)
      BY <2>2 DEF Next
    <3>2. \A m \in Node : busy'[m] => radio'[m] # <<>> \/ retxTimer'[m]
      BY <2>1, <3>1, StepsAreLocal DEF SameAt, BusyHasReason
    <3> QED
      BY <3>2, TypeStep DEF BusyHasReason
  <2>3. CASE UNCHANGED vars
    BY <2>3 DEF vars, TypeOK, BusyHasReason
  <2> QED
    BY <2>2, <2>3
<1> QED
  BY <1>1, <1>2, PTL DEF Spec

----------------------------------------------------------------------------
(* With a MAC that finishes a frame inside the call: what holds at a node   *)
(* between two steps.  Never two reasons to be busy; a request leaves the   *)
(* send timer armed until its own completion has cleared the flag.          *)
SyncInv(n) ==
  /\ radio[n] = <<>> \/ \E f \in Frame : radio[n] = <<f>>
  /\ busy[n] <=> (radio[n] # <<>> \/ retxTimer[n])
  /\ ~(radio[n] # <<>> /\ retxTimer[n])
  /\ radio[n] # <<>> /\ Head(radio[n]).type = "request" => sendTimer[n]
  /\ up[n] => sendTimer[n] \/ beaconTimer[n] \/ retxTimer[n] \/ radio[n] # <<>>
  /\ queue[n] # <<>> => \/ sendTimer[n] \/ retxTimer[n]
                        \/ radio[n] # <<>> /\ Head(radio[n]).type = "data"

(* A frame handed to a free MAC is the only one it holds. *)
LEMMA HandedAlone ==
  ASSUME TypeOK, NEW n \in Node, NEW f, HandToMac(n, f), radio[n] = <<>>
  PROVE  radio'[n] = <<f>> /\ radio'[n] # <<>> /\ Head(radio'[n]) = f
<1>1. radio'[n] = Append(<<>>, f)
  BY HandedAtEnd
<1> QED
  BY <1>1

LEMMA SyncStep ==
  ASSUME TypeOK, TypeOK', SyncMac, ~Closes, NEW n \in Node, SyncInv(n), Step(n)
  PROVE  SyncInv(n)'
<1> USE DEF TypeOK, SyncInv
<1>1. CASE Open(n)
  <2>1. radio[n] = <<>> /\ queue'[n] = <<>>
    BY <1>1 DEF Open, MayRun
  <2>2. CASE busy[n]
    BY <1>1, <2>1, <2>2 DEF Open, timers
  <2>3. CASE ~busy[n]
    <3>1. HandToMac(n, Beacon(0)) /\ busy'[n] /\ ~retxTimer'[n]
      BY <1>1, <2>1, <2>3 DEF Open, timers
    <3>2. radio'[n] = <<Beacon(0)>> /\ radio'[n] # <<>> /\ Head(radio'[n]).type = "beacon"
      BY <2>1, <3>1, HandedAlone DEF Beacon
    <3>3. Beacon(0) \in Frame
      BY NodeAssumption DEF Beacon, Frame, Backlog
    <3> QED
      BY <2>1, <3>1, <3>2, <3>3
  <2> QED
    BY <2>2, <2>3
<1>2. CASE \E p \in Packet : UserSend(n, p)
  BY <1>2 DEF UserSend, MayRun
<1>3. CASE SendTimerFires(n)
  <2>1. radio[n] = <<>>
    BY <1>3 DEF SendTimerFires, MayRun
  <2>2. CASE busy[n]
    BY <1>3, <2>1, <2>2 DEF SendTimerFires, Transmit
  <2>3. CASE ~busy[n] /\ queue[n] = <<>>
    BY <1>3, <2>1, <2>3 DEF SendTimerFires, Transmit
  <2>4. CASE ~busy[n] /\ queue[n] # <<>> /\ table[n] = <<>>
    <3>1. /\ RetransmitCallback(n) /\ HandToMac(n, Request(Len(queue[n])))
          /\ busy'[n] /\ sendTimer'[n] /\ ~retxTimer'[n]
      BY <1>3, <2>1, <2>4 DEF SendTimerFires, RetransmitCallback, Transmit
    <3>2. radio'[n] = <<Request(Len(queue[n]))>> /\ radio'[n] # <<>>
      BY <2>1, <3>1, HandedAlone
    <3>3. Request(Len(queue[n])) \in Frame
      BY TypePerNode, BacklogFits DEF Request, Frame
    <3> QED
      BY <3>1, <3>2, <3>3
  <2>5. CASE ~busy[n] /\ queue[n] # <<>> /\ table[n] # <<>>
    <3> DEFINE f == Data(BestNeighbour(table[n], Len(queue[n])), Len(queue[n]), Head(queue[n]))
    <3>1. HandToMac(n, f) /\ busy'[n] /\ ~retxTimer'[n]
      BY <1>3, <2>1, <2>5 DEF SendTimerFires, Transmit
    <3>2. f.type = "data" /\ f \in Frame
      <4>1. Len(queue[n]) \in Backlog /\ Head(queue[n]) \in Item
        BY <2>5, TypePerNode, BacklogFits
      <4>2. BestNeighbour(table[n], Len(queue[n])) \in Addr
        BY <2>5, <4>1, TypePerNode, BestExists DEF TableOK
      <4> QED
        BY <4>1, <4>2 DEF Data, Frame
    <3> HIDE DEF f
    <3>3. radio'[n] = <<f>> /\ radio'[n] # <<>> /\ Head(radio'[n]) = f
      BY <2>1, <3>1, HandedAlone
    <3> QED
      BY <3>1, <3>2, <3>3
  <2> QED
    BY <2>2, <2>3, <2>4, <2>5
<1>4. CASE BeaconTimerFires(n)
  <2>1. radio[n] = <<>>
    BY <1>4 DEF BeaconTimerFires, MayRun
  <2>2. CASE busy[n]
    BY <1>4, <2>1, <2>2 DEF BeaconTimerFires, SendBeacon
  <2>3. CASE ~busy[n]
    <3>1. HandToMac(n, Beacon(Len(queue[n])))
      BY <1>4, <2>3 DEF BeaconTimerFires, SendBeacon
    <3>2. /\ radio'[n] = <<Beacon(Len(queue[n]))>> /\ radio'[n] # <<>>
          /\ Head(radio'[n]).type = "beacon"
      BY <2>1, <3>1, HandedAlone DEF Beacon
    <3>3. Beacon(Len(queue[n])) \in Frame
      BY TypePerNode, BacklogFits DEF Beacon, Frame
    <3>4. busy'[n] /\ ~retxTimer'[n] /\ (queue'[n] # <<>> => sendTimer'[n])
      BY <1>4, <2>1, <2>3 DEF BeaconTimerFires, SendBeacon
    <3> QED
      BY <3>2, <3>3, <3>4
  <2> QED
    BY <2>2, <2>3
<1>5. CASE RetxTimerFires(n)
  <2>1. radio[n] = <<>>
    BY <1>5 DEF RetxTimerFires, MayRun
  <2>2. /\ HandToMac(n, Request(Len(queue[n])))
        /\ busy'[n] /\ sendTimer'[n] /\ ~retxTimer'[n]
    BY <1>5 DEF RetxTimerFires, RetransmitCallback
  <2>3. radio'[n] = <<Request(Len(queue[n]))>> /\ radio'[n] # <<>>
    BY <2>1, <2>2, HandedAlone
  <2>4. Request(Len(queue[n])) \in Frame
    BY TypePerNode, BacklogFits DEF Request, Frame
  <2> QED
    BY <2>2, <2>3, <2>4
<1>6. CASE Sent(n)
  <2>1. PICK f \in Frame : radio[n] = <<f>>
    BY <1>6 DEF Sent
  <2>2. radio'[n] = <<>>
    <3>1. radio'[n] = Tail(<<f>>)
      BY <1>6, <2>1 DEF Sent
    <3> QED
      BY <3>1
  <2>3. Head(radio[n]) = f /\ radio[n] # <<>> /\ ~retxTimer[n] /\ busy[n]
    BY <2>1
  <2>4. CASE f.type = "beacon"
    <3>1. BeaconSent(n) /\ UNCHANGED <<up, queue, table, attempts>>
      BY <1>6, <2>3, <2>4 DEF Sent
    <3> QED
      BY <2>2, <2>3, <2>4, <3>1 DEF BeaconSent
  <2>5. CASE f.type = "request"
    <3>1. RequestSent(n) /\ UNCHANGED <<up, queue, table, attempts>>
      BY <1>6, <2>3, <2>5 DEF Sent
    <3> QED
      BY <2>2, <2>3, <2>5, <3>1 DEF RequestSent, timers
  <2>6. CASE f.type = "data"
    <3>1. DataSent(n) /\ UNCHANGED <<up, queue, table, attempts>>
      BY <1>6, <2>3, <2>6 DEF Sent
    <3> QED
      BY <2>2, <2>3, <2>6, <3>1 DEF DataSent
  <2> QED
    BY <1>6, <2>3, <2>4, <2>5, <2>6 DEF Sent
<1>7. CASE RecvAck(n)
  BY <1>7 DEF RecvAck, ConfirmTop, MayRun
<1>8. CASE \E from \in Addr \ {n} :
             \/ Overhear(n, from)
             \/ \E q \in Backlog :
                  \/ RecvBeacon(n, from, q)
                  \/ RecvRequest(n, from, q)
                  \/ RecvAtSink(n, from, q)
                  \/ \E item \in Item : RecvToForward(n, from, q, item)
  BY <1>8 DEF Overhear, RecvBeacon, RecvRequest, RecvAtSink, RecvToForward, MayRun, timers
<1> QED
  BY <1>1, <1>2, <1>3, <1>4, <1>5, <1>6, <1>7, <1>8 DEF Step, Close, Local, Receive

(* The inductive invariant of a node whose MAC finishes a frame inside the  *)
(* call.                                                                    *)
LEMMA SyncInvariant ==
  ASSUME SyncMac, ~Closes
  PROVE  Spec => [](TypeOK /\ \A n \in Node : SyncInv(n))
<1> DEFINE IInv == TypeOK /\ \A n \in Node : SyncInv(n)
<1>1. Init => IInv
  <2>1. Init => TypeOK
    BY NodeAssumption, EmptySeq DEF Init, TypeOK
  <2> QED
    BY <2>1 DEF Init, SyncInv
<1>2. IInv /\ [Next]_vars => IInv'
  <2> SUFFICES ASSUME TypeOK, \A n \in Node : SyncInv(n), [Next]_vars
               PROVE  TypeOK' /\ \A n \in Node : SyncInv(n)'
    OBVIOUS
  <2>1. TypeOK'
    BY TypeStep
  <2>2. CASE Next
    <3>1. PICK n \in Node : Step(n)
      BY <2>2 DEF Next
    <3>2. SyncInv(n)'
      BY <2>1, <3>1, SyncStep
    <3>3. ASSUME NEW m \in Node, m # n
          PROVE  SyncInv(m)'
      BY <3>1, <3>3, StepsAreLocal DEF SameAt, SyncInv
    <3> QED
      BY <2>1, <3>2, <3>3
  <2>3. CASE UNCHANGED vars
    BY <2>1, <2>3 DEF vars, SyncInv
  <2> QED
    BY <2>2, <2>3
<1> QED
  BY <1>1, <1>2, PTL DEF Spec

(* busy says exactly that a frame of the node is in the MAC or that the ACK *)
(* of a data packet is awaited (bcp.h, the comment on busy).                *)
THEOREM SyncBusyIffOutstanding ==
  ASSUME SyncMac, ~Closes
  PROVE  Spec => []BusyIffOutstanding
<1>1. TypeOK /\ (\A n \in Node : SyncInv(n)) => BusyIffOutstanding
  BY DEF SyncInv, BusyIffOutstanding
<1> QED
  BY <1>1, SyncInvariant, PTL

(* An open node always has an armed timer or a frame in the MAC: it never   *)
(* goes silent, whatever its neighbours send.                               *)
THEOREM SyncNeverSilent ==
  ASSUME SyncMac, ~Closes
  PROVE  Spec => []NeverSilent
<1>1. TypeOK /\ (\A n \in Node : SyncInv(n)) => NeverSilent
  BY DEF SyncInv, NeverSilent
<1> QED
  BY <1>1, SyncInvariant, PTL

(* A queued packet is never forgotten: the send timer or the retransmission *)
(* timer is armed, or a data frame is on its way.                           *)
THEOREM SyncDataIsPending ==
  ASSUME SyncMac, ~Closes
  PROVE  Spec => []DataIsPending
<1>1. TypeOK /\ (\A n \in Node : SyncInv(n)) => DataIsPending
  <2> SUFFICES ASSUME TypeOK, \A m \in Node : SyncInv(m), NEW n \in Node, queue[n] # <<>>
               PROVE  \/ sendTimer[n] \/ retxTimer[n]
                      \/ \E i \in DOMAIN radio[n] : radio[n][i].type = "data"
    BY DEF DataIsPending
  <2>1. CASE sendTimer[n] \/ retxTimer[n]
    BY <2>1
  <2>2. CASE radio[n] # <<>> /\ Head(radio[n]).type = "data"
    <3>1. 1 \in DOMAIN radio[n] /\ Head(radio[n]) = radio[n][1]
      BY <2>2, LenProperties, EmptySeq DEF TypeOK
    <3> QED
      BY <2>2, <3>1
  <2> QED
    BY <2>1, <2>2 DEF SyncInv
<1> QED
  BY <1>1, SyncInvariant, PTL

----------------------------------------------------------------------------
(* After bcp_close *)

(* A closed connection holds no packet.                                     *)
ClosedHoldsNothing == \A n \in Node : ~up[n] => queue[n] = <<>>

LEMMA ClosedStep ==
  ASSUME TypeOK, ClosedHoldsNothing, [Next]_vars
  PROVE  ClosedHoldsNothing'
<1>1. CASE UNCHANGED vars
  BY <1>1 DEF vars, ClosedHoldsNothing
<1>2. ASSUME NEW n \in Node, Step(n) PROVE ClosedHoldsNothing'
  <2>1. ASSUME NEW m \in Node, m # n, ~up'[m] PROVE queue'[m] = <<>>
    BY <1>2, <2>1, StepsAreLocal DEF SameAt, ClosedHoldsNothing
  <2>2. CASE Open(n) \/ Close(n)
    BY <2>1, <2>2 DEF Open, Close, TypeOK, ClosedHoldsNothing
  <2>3. CASE Local(n)
    <3>1. UNCHANGED <<up, queue>>
      BY <2>3 DEF Local, SendTimerFires, BeaconTimerFires, RetxTimerFires, Sent
    <3> QED
      BY <3>1 DEF ClosedHoldsNothing
  <2>4. CASE Receive(n) \/ \E p \in Packet : UserSend(n, p)
    <3>1. up[n] /\ up' = up
      BY <2>4 DEF Receive, RecvAck, Overhear, RecvBeacon, RecvRequest, RecvAtSink,
                  RecvToForward, UserSend
    <3> QED
      BY <2>1, <3>1 DEF ClosedHoldsNothing
  <2> QED
    BY <1>2, <2>2, <2>3, <2>4 DEF Step
<1> QED
  BY <1>1, <1>2 DEF Next

(* Late completions and timers make a closed connection send beacons and    *)
(* requests, never data.                                                    *)
THEOREM ClosedStaysQuiet == Spec => ClosedSendsNoData
<1> DEFINE Grows(n) == Len(radio'[n]) > Len(radio[n])
           Quiet(n) == ~up[n] /\ Grows(n) => radio'[n][Len(radio'[n])].type # "data"
           A == \A n \in Node : Quiet(n)
           IInv == TypeOK /\ ClosedHoldsNothing
<1>1. Init => IInv
  BY NodeAssumption, EmptySeq DEF Init, TypeOK, ClosedHoldsNothing
<1>2. IInv /\ [Next]_vars => IInv'
  BY TypeStep, ClosedStep
<1>3. IInv /\ [Next]_vars => [A]_vars
  <2> SUFFICES ASSUME TypeOK, ClosedHoldsNothing, Next, NEW m \in Node, ~up[m], Grows(m)
               PROVE  radio'[m][Len(radio'[m])].type # "data"
    OBVIOUS
  <2>0. radio[m] \in Seq(Frame) /\ Len(radio[m]) \in Nat /\ queue[m] = <<>>
    BY LenProperties DEF TypeOK, ClosedHoldsNothing
  <2>1. radio'[m] # radio[m]
    BY <2>0
  <2>2. PICK n \in Node : Step(n)
    BY DEF Next
  <2>3. n = m
    BY <2>1, <2>2, StepsAreLocal DEF SameAt
  <2>4. ASSUME NEW f \in Frame, f.type # "data", HandToMac(m, f)
        PROVE  radio'[m][Len(radio'[m])].type # "data"
    <3>1. radio'[m] = Append(radio[m], f)
      BY <2>4, HandedAtEnd
    <3>2. Len(Append(radio[m], f)) = Len(radio[m]) + 1
          /\ Append(radio[m], f)[Len(radio[m]) + 1] = f
      BY <2>0, AppendProperties
    <3> QED
      BY <2>4, <3>1, <3>2
  <2>5. Len(queue[m]) \in Backlog /\ 0 \in Backlog
    BY <2>0, NodeAssumption DEF Backlog
  <2>6. ASSUME NEW q \in Backlog
        PROVE  /\ Beacon(q) \in Frame /\ Beacon(q).type # "data"
               /\ Request(q) \in Frame /\ Request(q).type # "data"
    BY DEF Beacon, Request, Frame
  <2>7. ~Sent(m)
    <3> SUFFICES ASSUME Sent(m) PROVE FALSE
      OBVIOUS
    <3>1. radio[m] # <<>> /\ radio'[m] = Tail(radio[m])
      BY DEF Sent, TypeOK
    <3>2. Len(Tail(radio[m])) = Len(radio[m]) - 1
      BY <2>0, <3>1, HeadTailProperties
    <3> QED
      BY <2>0, <3>1, <3>2
  <2>8. ~Transmit(m)
    BY <2>0 DEF Transmit
  <2>9. \/ \E q \in Backlog : HandToMac(m, Beacon(q)) \/ HandToMac(m, Request(q))
        \/ radio' = radio
    <3>1. CASE Open(m) \/ Close(m) \/ \E p \in Packet : UserSend(m, p)
      BY <2>5, <3>1 DEF Open, Close, UserSend
    <3>2. CASE SendTimerFires(m)
      BY <2>5, <2>8, <3>2 DEF SendTimerFires, RetransmitCallback
    <3>3. CASE BeaconTimerFires(m) \/ RetxTimerFires(m)
      BY <2>5, <3>3 DEF BeaconTimerFires, RetxTimerFires, SendBeacon, RetransmitCallback
    <3>4. CASE Receive(m)
      BY <3>4 DEF Receive, RecvAck, Overhear, RecvBeacon, RecvRequest, RecvAtSink, RecvToForward
    <3> QED
      BY <2>2, <2>3, <2>7, <3>1, <3>2, <3>3, <3>4 DEF Step, Local
  <2> QED
    BY <2>1, <2>4, <2>6, <2>9
<1> HIDE DEF A
<1>4. Spec => [][A]_vars
  BY <1>1, <1>2, <1>3, PTL DEF Spec
<1> QED
  BY <1>4 DEF A, ClosedSendsNoData
=============================================================================
