------------------------- MODULE BcpForwardingProofs -------------------------
(* Proofs about BcpForwarding, for every set of neighbours and packets and  *)
(* every value of the sizes.                                                *)
EXTENDS BcpForwarding, SequenceTheorems, TLAPS

(* The types without those of the count of listed entries, which no other   *)
(* variable depends on but through the choice between Push and Withdraw.    *)
CoreTyped ==
  /\ StackTyped /\ SendQeTyped /\ FlagsTyped /\ MacTyped
  /\ RouteTyped /\ TablesTyped /\ CountersTyped

(* The invariant that is inductive: the three parts need each other.  The   *)
(* types of sendQe rest on the one event at a time, and the balance of the  *)
(* pools on sendQe being in use while its frame is out.                     *)
FwdInv == CoreTyped /\ OneSendAtATime /\ PoolsBalanced

(* What the leaves need of CoreTyped, in arithmetic.                        *)
LEMMA Sizes ==
  ASSUME CoreTyped
  PROVE  /\ stack \in Seq(Queued) /\ Len(stack) \in Nat /\ Len(stack) <= SEND_STACK_SIZE
         /\ inMac \in Seq(Frame) /\ Len(inMac) \in Nat /\ posted \in Nat
<1>1. stack \in Seq(Queued) /\ inMac \in Seq(Frame)
  BY DEF CoreTyped, StackTyped, MacTyped
<1>2. Len(stack) \in Nat /\ Len(inMac) \in Nat
  BY <1>1
<1> QED
  BY <1>1, <1>2 DEF CoreTyped, StackTyped, MacTyped

(* What conditionalFQDiscard leaves is a stack with room for one packet.    *)
LEMMA KeptStack ==
  ASSUME CoreTyped
  PROVE  /\ Kept \in Seq(Queued)
         /\ Len(Kept) \in Nat
         /\ Len(Kept) = Len(stack) - Freed
         /\ Len(Kept) < SEND_STACK_SIZE
         /\ Freed \in {0, 1}
<1> USE ForwardingAssumption
<1>1. stack \in Seq(Queued) /\ Len(stack) \in Nat /\ Len(stack) <= SEND_STACK_SIZE
  BY Sizes
<1>2. CASE IsFull
  <2> DEFINE m == Len(stack) - 1
  <2>1. Kept = SubSeq(stack, 1, m) /\ Freed = 1 /\ Len(stack) >= 1
    BY <1>1, <1>2 DEF Kept, Freed, IsFull
  <2>2. \A i \in 1 .. m : stack[i] \in Queued
    BY <1>1, ElementOfSeq
  <2>3. m \in Nat /\ m < SEND_STACK_SIZE
    BY <1>1, <2>1
  <2> HIDE DEF m
  <2>4. SubSeq(stack, 1, m) \in Seq(Queued) /\ Len(SubSeq(stack, 1, m)) = m
    BY <1>1, <2>2, <2>3, SubSeqProperties
  <2> QED
    BY <2>1, <2>3, <2>4 DEF m
<1>3. CASE ~IsFull
  BY <1>1, <1>3 DEF Kept, Freed, IsFull
<1> QED
  BY <1>2, <1>3

(* A packet put on what is left makes a legal stack.                        *)
LEMMA PushedStack ==
  ASSUME CoreTyped, NEW e \in Queued, stack' = <<e>> \o Kept
  PROVE  /\ StackTyped'
         /\ Len(stack') = Len(stack) - Freed + 1
         /\ stack' # <<>>
         /\ Head(stack') = e
<1> DEFINE s == Kept
<1>1. s \in Seq(Queued) /\ Len(s) \in Nat /\ Len(s) = Len(stack) - Freed
      /\ Len(s) < SEND_STACK_SIZE /\ stack' = <<e>> \o s
  BY KeptStack
<1> HIDE DEF s
<1>2. <<e>> \in Seq(Queued) /\ Len(<<e>>) = 1 /\ <<e>>[1] = e
  OBVIOUS
<1>3. stack' \in Seq(Queued)
  BY <1>1, <1>2, ConcatProperties
<1>4. Len(stack') = Len(s) + 1
  BY <1>1, <1>2, ConcatProperties
<1>5. stack'[1] = e
  BY <1>1, <1>2, ConcatProperties
<1>6. Len(stack') <= SEND_STACK_SIZE
  BY <1>1, <1>4, ForwardingAssumption
<1>7. stack' # <<>>
  BY <1>1, <1>3, <1>4, EmptySeq
<1>8. Head(stack') = e
  BY <1>3, <1>5, <1>7, HeadTailProperties
<1>9. Len(stack') = Len(stack) - Freed + 1
  BY <1>1, <1>4
<1> QED
  BY <1>3, <1>6, <1>7, <1>8, <1>9 DEF StackTyped

(* The pools never run dry: what refuses a packet is the length of          *)
(* message_pool or that of the stack.                                       *)
LEMMA MemoryLeft ==
  ASSUME FwdInv
  PROVE  PoolsHaveRoom <=> ~crowded
<1> USE ForwardingAssumption
<1> DEFINE k == Len(Kept)  len == Len(stack)
<1>1. k \in Nat /\ k = len - Freed /\ k < SEND_STACK_SIZE /\ Freed \in {0, 1}
  BY KeptStack DEF FwdInv
<1>2. len \in Nat
  BY Sizes DEF FwdInv
<1>3. entries = Held /\ messages = Held
  BY DEF FwdInv, PoolsBalanced
<1>4. Held \in {len, len + 1}
  BY DEF Held
<1> HIDE DEF k, len
<1>5. Held - Freed <= k + 1
  BY <1>1, <1>2, <1>4
<1>6. messages - Freed < MESSAGE_POOL_SIZE /\ entries - Freed < Q_ENTRY_POOL_SIZE
  BY <1>1, <1>2, <1>3, <1>4, <1>5
<1> QED
  BY <1>6 DEF PoolsHaveRoom

(* The stack looks one longer than it is after the discard, at most.        *)
LEMMA SeenLength ==
  ASSUME CoreTyped
  PROVE  /\ Link!Kept = Len(Kept)
         /\ Len(Kept) <= Len(stack)
         /\ Link!LengthSeen \in {Len(Kept), Len(Kept) + 1}
<1>1. Len(Kept) = Len(stack) - Freed /\ Len(stack) \in Nat /\ Freed \in {0, 1}
  BY KeptStack, Sizes
<1>2. Link!Kept = Len(Kept)
  BY <1>1 DEF Link!Kept, Link!IsFull, Freed, IsFull
<1> QED
  BY <1>1, <1>2 DEF Link!LengthSeen

(* The tables of the neighbours keep their types and sizes.                 *)
LEMMA TablesStep ==
  ASSUME CoreTyped, NEW a \in Addr, NEW p \in Packet,
         table' \in {table, WithNeighbour(a)}, latest' \in {latest, Remember(a, p)}
  PROVE  TablesTyped'
<1>1. table \in Seq(Addr) /\ Len(table) <= ROUTING_TABLE_SIZE
      /\ latest \in [Addr -> Packet \cup {NULL}]
  BY DEF CoreTyped, TablesTyped
<1>2. Len(table) \in Nat
  BY <1>1
<1>3. Append(table, a) \in Seq(Addr) /\ Len(Append(table, a)) = Len(table) + 1
  BY <1>1
<1>4. WithNeighbour(a) \in Seq(Addr) /\ Len(WithNeighbour(a)) <= ROUTING_TABLE_SIZE
  BY <1>1, <1>2, <1>3, ForwardingAssumption DEF WithNeighbour
<1>5. Remember(a, p) \in [Addr -> Packet \cup {NULL}]
  BY <1>1 DEF Remember
<1> QED
  BY <1>1, <1>4, <1>5 DEF TablesTyped

(* What an arrival does to the stack and the pools: the packet is stored,   *)
(* or what the discard left is kept, and no block of the packet.            *)
LEMMA EnqueueMoves ==
  ASSUME FwdInv, NEW p \in Packet, Enqueue(p)
  PROVE  /\ StackTyped' /\ CountersTyped'
         /\ \E n \in {0, 1} : /\ Len(stack') = Len(stack) - Freed + n
                             /\ entries' = entries - Freed + n
                             /\ messages' = messages - Freed + n
         /\ \/ sending' = sending /\ posted' = posted
            \/ ~sending /\ sending' = TRUE /\ posted' = posted + 1
         /\ UNCHANGED <<isRoot, sendQe, sendQeOccupied, inMac, retry, nextHop>>
<1> DEFINE e == [pkt |-> p, tx |-> 0]
<1>1. e \in Queued
  BY DEF Queued
<1>2. entries \in Int /\ messages \in Int
  BY DEF FwdInv, CoreTyped, CountersTyped
<1>3. /\ Kept \in Seq(Queued) /\ Len(Kept) \in Nat /\ Freed \in {0, 1}
      /\ Len(Kept) = Len(stack) - Freed /\ Len(Kept) < SEND_STACK_SIZE
  BY KeptStack DEF FwdInv
<1>4. UNCHANGED <<isRoot, sendQe, sendQeOccupied, inMac, retry, nextHop>>
  BY DEF Enqueue
<1>5. CASE Push(p)
  <2>1. /\ stack' = <<e>> \o Kept
        /\ entries' = entries - Freed + 1 /\ messages' = messages - Freed + 1
        /\ \/ sending' = sending /\ posted' = posted
           \/ ~sending /\ sending' = TRUE /\ posted' = posted + 1
    BY <1>5 DEF Push, Activate
  <2> HIDE DEF e
  <2>2. StackTyped' /\ Len(stack') = Len(stack) - Freed + 1
    BY <1>1, <2>1, PushedStack DEF FwdInv
  <2>3. CountersTyped'
    BY <1>2, <1>3, <2>1 DEF CountersTyped
  <2> QED
    BY <1>4, <2>1, <2>2, <2>3
<1>6. CASE Refuse \/ Withdraw
  <2>1. /\ stack' = Kept /\ sending' = sending /\ posted' = posted
        /\ entries' = entries - Freed /\ messages' = messages - Freed
    BY <1>6 DEF Refuse, Withdraw
  <2>2. StackTyped' /\ Len(stack') = Len(stack) - Freed
    BY <1>3, <2>1, ForwardingAssumption DEF StackTyped
  <2>3. CountersTyped'
    BY <1>2, <1>3, <2>1 DEF CountersTyped
  <2>4. /\ Len(stack') = Len(stack) - Freed + 0 /\ entries' = entries - Freed + 0
        /\ messages' = messages - Freed + 0
    BY <1>2, <1>3, <2>1, Sizes DEF FwdInv
  <2> QED
    BY <1>4, <2>1, <2>2, <2>3, <2>4
<1> QED
  BY <1>5, <1>6 DEF Enqueue

(* A new packet keeps the invariant, whoever brings it.                     *)
LEMMA EnqueueStep ==
  ASSUME FwdInv, NEW p \in Packet, Enqueue(p), TablesTyped'
  PROVE  FwdInv'
<1>1. StackTyped' /\ CountersTyped'
  BY EnqueueMoves
<1>2. PICK n \in {0, 1} : /\ Len(stack') = Len(stack) - Freed + n
                        /\ entries' = entries - Freed + n
                        /\ messages' = messages - Freed + n
  BY EnqueueMoves
<1>3. \/ sending' = sending /\ posted' = posted
      \/ ~sending /\ sending' = TRUE /\ posted' = posted + 1
  BY EnqueueMoves
<1>4. UNCHANGED <<isRoot, sendQe, sendQeOccupied, inMac, retry, nextHop>>
  BY EnqueueMoves
<1>5. Len(stack) \in Nat /\ Len(inMac) \in Nat /\ posted \in Nat /\ inMac \in Seq(Frame)
  BY Sizes DEF FwdInv
<1>6. Freed \in {0, 1}
  BY KeptStack DEF FwdInv
<1>7. MacTyped'
  BY <1>3, <1>4, <1>5 DEF MacTyped
<1>8. FlagsTyped'
  BY <1>3, <1>4 DEF FwdInv, CoreTyped, FlagsTyped
<1>9. SendQeTyped' /\ RouteTyped'
  BY <1>4 DEF FwdInv, CoreTyped, SendQeTyped, RouteTyped
<1>10. PoolsBalanced'
  <2> DEFINE one == IF sendQeOccupied THEN 1 ELSE 0
  <2>1. entries = Len(stack) + one /\ messages = Len(stack) + one /\ one \in {0, 1}
    BY DEF FwdInv, PoolsBalanced, Held
  <2>2. Held' = Len(stack') + one
    BY <1>4 DEF Held
  <2> HIDE DEF one
  <2> QED
    BY <1>2, <1>5, <1>6, <2>1, <2>2 DEF PoolsBalanced
<1>11. OneSendAtATime'
  BY <1>3, <1>4, <1>5 DEF FwdInv, OneSendAtATime
<1> QED
  BY <1>1, <1>7, <1>8, <1>9, <1>10, <1>11 DEF FwdInv, CoreTyped

(* The types of sendQe and inMac after an attempt.                          *)
LEMMA TransmitStep ==
  ASSUME FwdInv, ~isRoot, posted > 0, NEW to \in Addr,
         NEW e \in Entry, e.tx < MAX_RETX_ATTEMPTS, Transmit(e, to)
  PROVE  /\ sendQe' \in Entry /\ sendQe' # NoEntry
         /\ MacTyped'
         /\ posted' + Len(inMac') = 1
         /\ inMac' # <<>> => Len(inMac') = 1 /\ posted' = 0
         /\ \A i \in DOMAIN inMac' : inMac'[i] = [to |-> to, pkt |-> sendQe'.pkt]
<1> USE ForwardingAssumption
<1> DEFINE f == [to |-> to, pkt |-> e.pkt]
<1>1. posted \in Nat /\ inMac \in Seq(Frame) /\ Len(inMac) \in Nat
  BY Sizes DEF FwdInv
<1>2. posted = 1 /\ Len(inMac) = 0
  BY <1>1 DEF FwdInv, OneSendAtATime
<1>3. inMac = <<>>
  BY <1>1, <1>2, EmptySeq
<1>4. sendQe' = [e EXCEPT !.tx = @ + 1]
  BY DEF Transmit
<1>5. sendQe' \in Entry /\ sendQe'.pkt = e.pkt
  BY <1>4 DEF Entry
<1>6. sendQe' # NoEntry
  BY <1>5 DEF Entry, NoEntry
<1>7. f \in Frame
  BY DEF Frame, Entry
<1>8. \/ inMac' = Append(inMac, f) /\ posted' = posted - 1
      \/ inMac' = inMac /\ posted' = posted
  BY DEF Transmit
<1> HIDE DEF f
<1>9. \/ inMac' = <<f>> /\ posted' = 0
      \/ inMac' = <<>> /\ posted' = 1
  BY <1>2, <1>3, <1>8
<1>10. /\ MacTyped' /\ posted' + Len(inMac') = 1
       /\ inMac' # <<>> => Len(inMac') = 1 /\ posted' = 0
       /\ \A i \in DOMAIN inMac' : inMac'[i] = f
  <2>1. CASE inMac' = <<f>> /\ posted' = 0
    BY <1>7, <2>1 DEF MacTyped
  <2>2. CASE inMac' = <<>> /\ posted' = 1
    BY <2>2 DEF MacTyped
  <2> QED
    BY <1>9, <2>1, <2>2
<1> QED
  BY <1>5, <1>6, <1>10 DEF f

(* What an event of sendDataTask finds on a node that is not a root.        *)
LEMMA TaskAlone ==
  ASSUME FwdInv, SendDataTask, ~isRoot
  PROVE  /\ posted = 1 /\ inMac = <<>> /\ sending = TRUE /\ TablesTyped'
         /\ isRoot' = isRoot /\ isRoot \in BOOLEAN
<1>1. posted \in Nat /\ inMac \in Seq(Frame) /\ Len(inMac) \in Nat /\ posted > 0
  BY Sizes DEF FwdInv, SendDataTask
<1>2. posted = 1 /\ Len(inMac) = 0
  BY <1>1 DEF FwdInv, OneSendAtATime
<1>3. inMac = <<>>
  BY <1>1, <1>2, EmptySeq
<1>4. sending
  BY <1>2 DEF FwdInv, OneSendAtATime
<1>5. sending = TRUE
  BY <1>4 DEF FwdInv, CoreTyped, FlagsTyped
<1>6. TablesTyped'
  BY DEF SendDataTask, neighbourVars, FwdInv, CoreTyped, TablesTyped
<1>7. isRoot' = isRoot /\ isRoot \in BOOLEAN
  BY DEF SendDataTask, FwdInv, CoreTyped, FlagsTyped
<1> QED
  BY <1>2, <1>3, <1>5, <1>6, <1>7

(* Without an event or a frame there is nothing to be exclusive about.      *)
LEMMA Idle ==
  ASSUME posted' = 0, inMac' = <<>>, sendQeOccupied' = FALSE
  PROVE  MacTyped' /\ OneSendAtATime'
<1>1. Len(inMac') = 0 /\ DOMAIN inMac' = {}
  OBVIOUS
<1>2. MacTyped'
  BY DEF MacTyped
<1>3. OneSendAtATime'
  BY <1>1 DEF OneSendAtATime
<1> QED
  BY <1>2, <1>3

(* The two ways of sendDataTask that touch no packet.                       *)
LEMMA NothingStep ==
  ASSUME FwdInv, SendDataTask, ~isRoot, NothingToSend \/ NoRoute
  PROVE  FwdInv'
<1>1. posted = 1 /\ inMac = <<>> /\ TablesTyped' /\ isRoot' = isRoot /\ isRoot \in BOOLEAN
  BY TaskAlone
<1>2. /\ posted' = posted - 1 /\ inMac' = inMac /\ ~sendQeOccupied
      /\ UNCHANGED <<stack, sendQe, sendQeOccupied, nextHop, entries, messages>>
      /\ sending' \in {sending, FALSE} /\ retry' \in {retry, TRUE}
  BY DEF NothingToSend, NoRoute
<1>3. sendQeOccupied' = FALSE /\ FlagsTyped'
  BY <1>1, <1>2 DEF FwdInv, CoreTyped, FlagsTyped
<1>4. posted' = 0 /\ inMac' = <<>>
  BY <1>1, <1>2
<1>5. MacTyped' /\ OneSendAtATime'
  BY <1>3, <1>4, Idle
<1>6. StackTyped' /\ SendQeTyped' /\ RouteTyped' /\ CountersTyped'
  BY <1>2 DEF FwdInv, CoreTyped, StackTyped, SendQeTyped, RouteTyped, CountersTyped
<1>7. PoolsBalanced'
  BY <1>2 DEF FwdInv, PoolsBalanced, Held
<1> QED
  BY <1>1, <1>3, <1>5, <1>6, <1>7 DEF FwdInv, CoreTyped

(* The newest packet leaves the stack for sendQe.                           *)
LEMMA FirstStep ==
  ASSUME FwdInv, SendDataTask, ~isRoot, FirstAttempt
  PROVE  FwdInv'
<1> USE ForwardingAssumption
<1>1. posted = 1 /\ sending = TRUE /\ TablesTyped' /\ isRoot' = isRoot /\ isRoot \in BOOLEAN
  BY TaskAlone
<1>2. stack \in Seq(Queued) /\ stack # <<>> /\ stack' = Tail(stack)
      /\ Len(stack) \in Nat /\ Len(stack) <= SEND_STACK_SIZE
  BY Sizes DEF FirstAttempt, FwdInv
<1>3. Head(stack) \in Queued /\ stack' \in Seq(Queued) /\ Len(stack') = Len(stack) - 1
  BY <1>2, HeadTailProperties
<1>4. Head(stack) \in Entry /\ Head(stack).tx < MAX_RETX_ATTEMPTS
  BY <1>3 DEF Queued, Entry
<1>5. PICK i \in DOMAIN table : nextHop' = table[i] /\ Transmit(Head(stack), table[i])
  BY DEF FirstAttempt
<1>6. table[i] \in Addr
  BY <1>5, ElementOfSeq DEF FwdInv, CoreTyped, TablesTyped
<1>7. sendQeOccupied = FALSE /\ sendQeOccupied' = TRUE
      /\ UNCHANGED <<sending, retry, entries, messages>>
  BY DEF FirstAttempt, FwdInv, CoreTyped, FlagsTyped
<1>8. /\ sendQe' \in Entry /\ sendQe' # NoEntry /\ MacTyped'
      /\ posted' + Len(inMac') = 1
      /\ inMac' # <<>> => Len(inMac') = 1 /\ posted' = 0
      /\ \A j \in DOMAIN inMac' : inMac'[j] = [to |-> table[i], pkt |-> sendQe'.pkt]
  BY <1>1, <1>4, <1>5, <1>6, TransmitStep
<1>9. StackTyped'
  BY <1>2, <1>3 DEF StackTyped
<1>10. SendQeTyped' /\ RouteTyped' /\ CountersTyped' /\ FlagsTyped'
  BY <1>1, <1>5, <1>6, <1>7, <1>8
  DEF FwdInv, CoreTyped, SendQeTyped, RouteTyped, CountersTyped, FlagsTyped
<1>11. OneSendAtATime'
  BY <1>1, <1>5, <1>6, <1>7, <1>8 DEF OneSendAtATime
<1>12. PoolsBalanced'
  BY <1>2, <1>3, <1>7 DEF FwdInv, PoolsBalanced, Held
<1> QED
  BY <1>1, <1>8, <1>9, <1>10, <1>11, <1>12 DEF FwdInv, CoreTyped

(* The packet in sendQe is tried again.                                     *)
LEMMA NextStep ==
  ASSUME FwdInv, SendDataTask, ~isRoot, NextAttempt
  PROVE  FwdInv'
<1>1. posted = 1 /\ sending = TRUE /\ TablesTyped' /\ isRoot' = isRoot /\ isRoot \in BOOLEAN
  BY TaskAlone
<1>2. sendQeOccupied /\ sendQe.tx < MAX_RETX_ATTEMPTS /\ Transmit(sendQe, nextHop)
      /\ UNCHANGED <<stack, sendQeOccupied, sending, retry, nextHop, entries, messages>>
  BY DEF NextAttempt
<1>3. sendQe \in Entry
  BY <1>2 DEF FwdInv, CoreTyped, SendQeTyped, OneSendAtATime
<1>4. nextHop \in Addr /\ nextHop # NULL
  BY <1>2 DEF FwdInv, CoreTyped, RouteTyped, OneSendAtATime
<1>5. /\ sendQe' \in Entry /\ sendQe' # NoEntry /\ MacTyped'
      /\ posted' + Len(inMac') = 1
      /\ inMac' # <<>> => Len(inMac') = 1 /\ posted' = 0
      /\ \A j \in DOMAIN inMac' : inMac'[j] = [to |-> nextHop, pkt |-> sendQe'.pkt]
  BY <1>1, <1>2, <1>3, <1>4, TransmitStep
<1>6. StackTyped' /\ SendQeTyped' /\ RouteTyped' /\ CountersTyped' /\ FlagsTyped'
  BY <1>1, <1>2, <1>5
  DEF FwdInv, CoreTyped, StackTyped, SendQeTyped, RouteTyped, CountersTyped, FlagsTyped
<1>7. OneSendAtATime'
  BY <1>1, <1>2, <1>4, <1>5 DEF OneSendAtATime
<1>8. PoolsBalanced'
  BY <1>2 DEF FwdInv, PoolsBalanced, Held
<1> QED
  BY <1>1, <1>5, <1>6, <1>7, <1>8 DEF FwdInv, CoreTyped

(* The packet in sendQe goes back to the stack.                             *)
LEMMA GiveUpStep ==
  ASSUME FwdInv, SendDataTask, ~isRoot, GiveUp
  PROVE  FwdInv'
<1>1. posted = 1 /\ inMac = <<>> /\ TablesTyped' /\ isRoot' = isRoot /\ isRoot \in BOOLEAN
  BY TaskAlone
<1>2. sendQeOccupied /\ sendQe \in Entry
  BY DEF GiveUp, FwdInv, CoreTyped, SendQeTyped, OneSendAtATime
<1>3. sendQe' = [sendQe EXCEPT !.tx = 0] /\ stack' = <<sendQe'>> \o Kept
      /\ entries' = entries - Freed /\ messages' = messages - Freed
      /\ sendQeOccupied' = FALSE /\ sending' = FALSE /\ retry' = TRUE
      /\ posted' = posted - 1 /\ UNCHANGED <<inMac, nextHop>>
  BY DEF GiveUp
<1>4. sendQe' \in Queued /\ sendQe' \in Entry
  BY <1>2, <1>3, ForwardingAssumption DEF Entry, Queued
<1>5. StackTyped' /\ Len(stack') = Len(stack) - Freed + 1
  BY <1>3, <1>4, PushedStack DEF FwdInv
<1>6. Len(stack) \in Nat /\ Freed \in {0, 1}
  BY Sizes, KeptStack DEF FwdInv
<1>7. MacTyped' /\ OneSendAtATime'
  <2>1. posted' = 0
    BY <1>1, <1>3
  <2>2. inMac' = <<>>
    BY <1>1, <1>3
  <2> QED
    BY <1>3, <2>1, <2>2, Idle
<1>8. SendQeTyped' /\ RouteTyped' /\ FlagsTyped'
  BY <1>1, <1>3, <1>4 DEF FwdInv, CoreTyped, SendQeTyped, RouteTyped, FlagsTyped
<1>9. CountersTyped'
  BY <1>3, <1>6 DEF FwdInv, CoreTyped, CountersTyped
<1>10. PoolsBalanced'
  <2>1. entries = Len(stack) + 1 /\ messages = Len(stack) + 1
    BY <1>2 DEF FwdInv, PoolsBalanced, Held
  <2>2. Held' = Len(stack') + 0
    BY <1>3 DEF Held
  <2> QED
    BY <1>3, <1>5, <1>6, <2>1, <2>2 DEF PoolsBalanced
<1> QED
  BY <1>1, <1>5, <1>7, <1>8, <1>9, <1>10 DEF FwdInv, CoreTyped

(* subSend_sendDone keeps the invariant.                                    *)
LEMMA DoneStep ==
  ASSUME FwdInv, SendDone
  PROVE  FwdInv'
<1>1. inMac \in Seq(Frame) /\ Len(inMac) \in Nat /\ posted \in Nat /\ inMac # <<>>
  BY Sizes DEF FwdInv, SendDone
<1>2. Len(inMac) = 1 /\ posted = 0
  BY <1>1 DEF FwdInv, OneSendAtATime
<1>3. sendQeOccupied
  BY <1>1, <1>2 DEF FwdInv, OneSendAtATime
<1>4. sending /\ sendQe # NoEntry /\ nextHop # NULL
  BY <1>1, <1>3 DEF FwdInv, OneSendAtATime
<1>5. inMac' = <<>>
  <2>1. inMac' \in Seq(Frame) /\ Len(inMac') = 0
    BY <1>1, <1>2, HeadTailProperties DEF SendDone
  <2> QED
    BY <2>1, EmptySeq
<1>6. UNCHANGED <<isRoot, stack, sendQe, retry, nextHop, table, latest>>
  BY DEF SendDone, neighbourVars
<1>7. StackTyped' /\ SendQeTyped' /\ RouteTyped' /\ TablesTyped'
  BY <1>6 DEF FwdInv, CoreTyped, StackTyped, SendQeTyped, RouteTyped, TablesTyped
<1>8. CASE NotAcked
  <2>1. posted' = 1 /\ UNCHANGED <<sendQeOccupied, sending, entries, messages>>
    BY <1>2, <1>8 DEF NotAcked
  <2>2. MacTyped' /\ Len(inMac') = 0 /\ DOMAIN inMac' = {}
    BY <1>5, <2>1 DEF MacTyped
  <2>3. FlagsTyped' /\ CountersTyped'
    BY <1>6, <2>1 DEF FwdInv, CoreTyped, FlagsTyped, CountersTyped
  <2>4. OneSendAtATime'
    BY <1>3, <1>4, <1>5, <1>6, <2>1, <2>2 DEF OneSendAtATime
  <2>5. PoolsBalanced'
    BY <1>6, <2>1 DEF FwdInv, PoolsBalanced, Held
  <2> QED
    BY <1>7, <2>2, <2>3, <2>4, <2>5 DEF FwdInv, CoreTyped
<1>9. CASE Acked
  <2>1. sending' = (~isRoot /\ stack # <<>>)
    BY <1>9 DEF Acked
  <2>2. posted' = IF isRoot <=> stack = <<>> THEN 1 ELSE 0
    BY <1>2, <1>9 DEF Acked
  <2>3. sendQeOccupied' = FALSE /\ entries' = entries - 1 /\ messages' = messages - 1
    BY <1>9 DEF Acked
  <2>4. Len(inMac') = 0 /\ DOMAIN inMac' = {}
    BY <1>5
  <2>5. MacTyped'
    BY <1>2, <1>5, <2>2 DEF MacTyped
  <2>6. FlagsTyped'
    BY <1>6, <2>1, <2>3 DEF FwdInv, CoreTyped, FlagsTyped
  <2>7. CountersTyped'
    BY <2>3 DEF FwdInv, CoreTyped, CountersTyped
  <2>8. OneSendAtATime'
    <3>1. ASSUME ~isRoot'
          PROVE  posted' + Len(inMac') <= 1 /\ (posted' + Len(inMac') = 1 => sending')
      <4>1. ~isRoot
        BY <1>6, <3>1
      <4>2. CASE stack = <<>>
        <5>1. posted' = 0
          BY <2>2, <4>1, <4>2
        <5> QED
          BY <2>4, <5>1
      <4>3. CASE stack # <<>>
        <5>1. posted' = 1 /\ sending'
          BY <2>1, <2>2, <4>1, <4>3
        <5> QED
          BY <2>4, <5>1
      <4> QED
        BY <4>2, <4>3
    <3>2. ~sendQeOccupied' /\ inMac' = <<>>
      BY <1>5, <2>3
    <3> QED
      BY <2>4, <3>1, <3>2 DEF OneSendAtATime
  <2>9. PoolsBalanced'
    <3>1. entries = Len(stack) + 1 /\ messages = Len(stack) + 1 /\ Len(stack) \in Nat
      BY <1>3, Sizes DEF FwdInv, PoolsBalanced, Held
    <3>2. Held' = Len(stack) + 0
      BY <1>6, <2>3 DEF Held
    <3> QED
      BY <2>3, <3>1, <3>2 DEF PoolsBalanced
  <2> QED
    BY <1>7, <2>5, <2>6, <2>7, <2>8, <2>9 DEF FwdInv, CoreTyped
<1> QED
  BY <1>8, <1>9 DEF SendDone

(* So does the retry timer: it posts an event only if none is due.          *)
LEMMA RetryStep ==
  ASSUME FwdInv, RetryTimerFires
  PROVE  FwdInv'
<1>1. UNCHANGED <<isRoot, stack, sendQe, sendQeOccupied, inMac, nextHop, entries,
                  messages, table, latest>>
  BY DEF RetryTimerFires, neighbourVars
<1>2. retry' = FALSE
      /\ \/ sending /\ sending' = sending /\ posted' = posted
         \/ ~sending /\ sending' = TRUE /\ posted' = posted + 1
  BY DEF RetryTimerFires
<1>3. Len(inMac) \in Nat /\ posted \in Nat /\ inMac \in Seq(Frame)
  BY Sizes DEF FwdInv
<1>4. StackTyped' /\ SendQeTyped' /\ RouteTyped' /\ TablesTyped' /\ CountersTyped'
  BY <1>1
  DEF FwdInv, CoreTyped, StackTyped, SendQeTyped, RouteTyped, TablesTyped, CountersTyped
<1>5. MacTyped'
  BY <1>1, <1>2, <1>3 DEF MacTyped
<1>6. FlagsTyped'
  BY <1>1, <1>2 DEF FwdInv, CoreTyped, FlagsTyped
<1>7. OneSendAtATime'
  BY <1>1, <1>2, <1>3 DEF FwdInv, OneSendAtATime
<1>8. PoolsBalanced'
  BY <1>1 DEF FwdInv, PoolsBalanced, Held
<1> QED
  BY <1>4, <1>5, <1>6, <1>7, <1>8 DEF FwdInv, CoreTyped

(* A beacon changes the routing table only.                                 *)
LEMMA BeaconStep ==
  ASSUME FwdInv, NEW a \in Addr, RecvBeacon(a)
  PROVE  FwdInv'
<1>1. UNCHANGED <<isRoot, stack, sendQe, sendQeOccupied, sending, posted, inMac,
                  retry, nextHop, entries, messages, latest>> /\ table' = WithNeighbour(a)
  BY DEF RecvBeacon, engineVars
<1>2. TablesTyped'
  <2>1. table \in Seq(Addr) /\ Len(table) <= ROUTING_TABLE_SIZE
        /\ latest \in [Addr -> Packet \cup {NULL}]
    BY DEF FwdInv, CoreTyped, TablesTyped
  <2>2. Len(table) \in Nat /\ Append(table, a) \in Seq(Addr)
        /\ Len(Append(table, a)) = Len(table) + 1
    BY <2>1
  <2>3. table' \in Seq(Addr) /\ Len(table') <= ROUTING_TABLE_SIZE
    BY <1>1, <2>1, <2>2, ForwardingAssumption DEF WithNeighbour
  <2> QED
    BY <1>1, <2>1, <2>3 DEF TablesTyped
<1>3. CoreTyped'
  BY <1>1, <1>2 DEF FwdInv, CoreTyped, StackTyped, SendQeTyped, FlagsTyped, MacTyped,
                    RouteTyped, CountersTyped
<1>4. OneSendAtATime' /\ PoolsBalanced'
  BY <1>1 DEF FwdInv, OneSendAtATime, PoolsBalanced, Held
<1> QED
  BY <1>3, <1>4 DEF FwdInv

(* A root's task frees a packet that no callback is about.                  *)
LEMMA RootStep ==
  ASSUME FwdInv, SendDataTask, isRoot
  PROVE  FwdInv'
<1>1. posted > 0 /\ RootTask /\ UNCHANGED <<isRoot, table, latest>>
  BY DEF SendDataTask, neighbourVars
<1>2. /\ posted \in Nat /\ inMac = <<>>
      /\ stack \in Seq(Queued) /\ Len(stack) \in Nat /\ Len(stack) <= SEND_STACK_SIZE
  BY <1>1, Sizes DEF FwdInv, OneSendAtATime
<1>3. sending' = FALSE /\ UNCHANGED <<inMac, retry, nextHop>>
  BY <1>1 DEF RootTask
<1>4. posted' \in {posted, posted - 1} /\ posted' \in Nat /\ sendQeOccupied' = FALSE
  BY <1>1, <1>2
  DEF RootTask, HandUpQe, HandUpTop, HandUpNothing, FwdInv, CoreTyped, FlagsTyped
<1>5. \/ stack' = stack
      \/ stack # <<>> /\ stack' = Tail(stack)
  BY <1>1 DEF RootTask, HandUpQe, HandUpTop, HandUpNothing
<1>6. StackTyped'
  <2>1. CASE stack' = stack
    BY <1>2, <2>1 DEF StackTyped
  <2>2. CASE stack # <<>> /\ stack' = Tail(stack)
    <3>1. stack' \in Seq(Queued) /\ Len(stack') = Len(stack) - 1
      BY <1>2, <2>2, HeadTailProperties
    <3> QED
      BY <1>2, <3>1, ForwardingAssumption DEF StackTyped
  <2> QED
    BY <1>5, <2>1, <2>2
<1>7. SendQeTyped'
  <2>1. CASE sendQe' = sendQe
    BY <2>1 DEF FwdInv, CoreTyped, SendQeTyped
  <2>2. CASE HandUpTop
    <3>1. Head(stack) \in Queued
      BY <1>2, <2>2, HeadTailProperties DEF HandUpTop
    <3>2. Head(stack) \in Entry
      BY <3>1, ForwardingAssumption DEF Queued, Entry
    <3> QED
      BY <2>2, <3>2 DEF HandUpTop, SendQeTyped
  <2> QED
    BY <1>1, <2>1, <2>2 DEF RootTask, HandUpQe, HandUpNothing
<1>8. FlagsTyped' /\ MacTyped' /\ RouteTyped' /\ TablesTyped' /\ CountersTyped'
  <2>1. FlagsTyped' /\ RouteTyped' /\ TablesTyped'
    BY <1>1, <1>3, <1>4 DEF FwdInv, CoreTyped, FlagsTyped, RouteTyped, TablesTyped
  <2>2. MacTyped'
    BY <1>2, <1>3, <1>4 DEF MacTyped
  <2>3. CountersTyped'
    BY <1>1 DEF RootTask, HandUpQe, HandUpTop, HandUpNothing, FwdInv, CoreTyped, CountersTyped
  <2> QED
    BY <2>1, <2>2, <2>3
<1>9. OneSendAtATime'
  <2>1. isRoot' = TRUE /\ inMac' = <<>> /\ DOMAIN inMac' = {}
    BY <1>1, <1>2, <1>3 DEF FwdInv, CoreTyped, FlagsTyped
  <2> QED
    BY <1>4, <2>1 DEF OneSendAtATime
<1>10. PoolsBalanced'
  <2>1. Held' = Len(stack') + 0
    BY <1>4 DEF Held
  <2>2. CASE HandUpQe
    <3>1. entries = Len(stack) + 1 /\ messages = Len(stack) + 1
      BY <2>2 DEF HandUpQe, FwdInv, PoolsBalanced, Held
    <3> QED
      BY <1>2, <2>1, <2>2, <3>1 DEF HandUpQe, PoolsBalanced
  <2>3. CASE HandUpTop
    <3>1. entries = Len(stack) + 0 /\ messages = Len(stack) + 0
      BY <2>3 DEF HandUpTop, FwdInv, PoolsBalanced, Held
    <3>2. Len(stack') = Len(stack) - 1
      BY <1>2, <2>3, HeadTailProperties DEF HandUpTop
    <3> QED
      BY <1>2, <2>1, <2>3, <3>1, <3>2 DEF HandUpTop, PoolsBalanced
  <2>4. CASE HandUpNothing
    BY <2>1, <2>4 DEF HandUpNothing, FwdInv, PoolsBalanced, Held
  <2> QED
    BY <1>1, <2>2, <2>3, <2>4 DEF RootTask
<1> QED
  BY <1>6, <1>7, <1>8, <1>9, <1>10 DEF FwdInv, CoreTyped

(* A node becomes a root with whatever it is doing.                         *)
LEMMA SetRootStep ==
  ASSUME FwdInv, SetRoot
  PROVE  FwdInv'
<1>1. isRoot' = TRUE /\ UNCHANGED <<engineVars, neighbourVars>>
  BY DEF SetRoot
<1>2. CoreTyped' /\ PoolsBalanced'
  BY <1>1 DEF engineVars, neighbourVars, FwdInv, CoreTyped, StackTyped, SendQeTyped,
              FlagsTyped, MacTyped, RouteTyped, TablesTyped, CountersTyped,
              PoolsBalanced, Held
<1>3. OneSendAtATime'
  BY <1>1 DEF engineVars, FwdInv, OneSendAtATime
<1> QED
  BY <1>2, <1>3 DEF FwdInv

LEMMA FwdInitially == FwdInit => FwdInv
<1> SUFFICES ASSUME FwdInit PROVE FwdInv
  OBVIOUS
<1> USE DEF FwdInit
<1>1. Len(stack) = 0 /\ Len(inMac) = 0 /\ Len(table) = 0 /\ DOMAIN inMac = {}
  OBVIOUS
<1>2. StackTyped /\ MacTyped
  BY <1>1, ForwardingAssumption DEF StackTyped, MacTyped
<1>3. SendQeTyped /\ RouteTyped /\ CountersTyped
  BY DEF SendQeTyped, RouteTyped, CountersTyped
<1>4. FlagsTyped
  BY DEF FlagsTyped
<1>5. TablesTyped
  BY <1>1, ForwardingAssumption DEF TablesTyped
<1>6. OneSendAtATime /\ PoolsBalanced
  BY <1>1 DEF OneSendAtATime, PoolsBalanced, Held
<1> QED
  BY <1>2, <1>3, <1>4, <1>5, <1>6 DEF FwdInv, CoreTyped

LEMMA FwdInvInductive == FwdSpec => []FwdInv
<1>1. FwdInv /\ [FwdNext]_fwdVars => FwdInv'
  <2> SUFFICES ASSUME FwdInv, [FwdNext]_fwdVars
               PROVE  FwdInv'
    OBVIOUS
  <2>1. CASE UNCHANGED fwdVars
    BY <2>1 DEF fwdVars, engineVars, neighbourVars, FwdInv, CoreTyped, StackTyped,
                SendQeTyped, FlagsTyped, MacTyped, RouteTyped, TablesTyped,
                CountersTyped, OneSendAtATime, PoolsBalanced, Held
  <2>2. ASSUME NEW p \in Packet, LocalSend(p)
        PROVE  FwdInv'
    <3>1. Enqueue(p) /\ TablesTyped'
      BY <2>2 DEF LocalSend, neighbourVars, FwdInv, CoreTyped, TablesTyped
    <3> QED
      BY <3>1, EnqueueStep
  <2>3. ASSUME NEW a \in Addr, NEW p \in Packet, RecvData(a, p)
        PROVE  FwdInv'
    <3>1. latest' = Remember(a, p) /\ table' \in {table, WithNeighbour(a)}
      BY <2>3 DEF RecvData
    <3>2. TablesTyped'
      BY <3>1, TablesStep DEF FwdInv
    <3>3. CASE Enqueue(p)
      BY <3>2, <3>3, EnqueueStep
    <3>4. CASE UNCHANGED <<isRoot, engineVars>>
      <4>1. CoreTyped'
        BY <3>2, <3>4
        DEF engineVars, FwdInv, CoreTyped, StackTyped, SendQeTyped, FlagsTyped, MacTyped,
            RouteTyped, CountersTyped
      <4>2. OneSendAtATime' /\ PoolsBalanced'
        BY <3>4 DEF engineVars, FwdInv, OneSendAtATime, PoolsBalanced, Held
      <4> QED
        BY <4>1, <4>2 DEF FwdInv
    <3> QED
      BY <2>3, <3>3, <3>4 DEF RecvData
  <2>4. CASE SendDataTask
    BY <2>4, NothingStep, FirstStep, NextStep, GiveUpStep, RootStep DEF SendDataTask
  <2> QED
    BY <2>1, <2>2, <2>3, <2>4, BeaconStep, DoneStep, RetryStep, SetRootStep DEF FwdNext
<1> QED
  BY <1>1, FwdInitially, PTL DEF FwdSpec

----------------------------------------------------------------------------
(* The count of listed entries. *)

LEMMA LinkMoves ==
  ASSUME LinkTyped, CoreTyped, crowded' \in BOOLEAN,
         Link!Next \/ Link!PopAndRelease
  PROVE  LinkTyped'
<1>1. Len(stack) \in Nat /\ SEND_STACK_SIZE \in Nat \ {0}
  BY Sizes, ForwardingAssumption
<1> USE DEF LinkTyped
<1>2. listed \in Nat /\ listed <= Len(stack)
  BY <1>1
<1>3. Link!Kept \in Nat /\ Link!KeptListed \in 0 .. Link!Kept
  BY <1>1, <1>2 DEF Link!Kept, Link!KeptListed, Link!IsFull
<1> DEFINE k == Link!Kept  l == Link!KeptListed  len == Len(stack)  after == Len(stack)'
<1> HIDE DEF k, l, len, after
<1>5. CASE Link!Store
  <2>1. after = k + 1 /\ listed' \in {l, k + 1} /\ qeListed' = qeListed
    BY <1>5 DEF Link!Store, k, l, after
  <2>2. listed' \in 0 .. after
    BY <1>3, <2>1 DEF k, l
  <2> QED
    BY <2>1, <2>2 DEF after
<1>6. CASE Link!Withhold
  BY <1>3, <1>6 DEF Link!Withhold
<1>7. CASE Link!Pop \/ Link!PopAndRelease
  <2>1. /\ len > 0 /\ after = len - 1
        /\ listed' = IF listed = len THEN len - 1 ELSE listed
    BY <1>7 DEF Link!Pop, Link!PopAndRelease, len, after
  <2>2. after \in Nat /\ listed' \in 0 .. after
    BY <1>1, <1>2, <2>1 DEF len
  <2>3. qeListed' \in BOOLEAN
    BY <1>7 DEF Link!Pop, Link!PopAndRelease
  <2> QED
    BY <2>2, <2>3 DEF after
<1>8. CASE Link!PutBack
  <2>1. after = k + 1 /\ listed' \in {l, k + 1} /\ qeListed' = FALSE
    BY <1>8 DEF Link!PutBack, k, l, after
  <2>2. listed' \in 0 .. after
    BY <1>3, <2>1 DEF k, l
  <2> QED
    BY <2>1, <2>2 DEF after
<1>9. CASE Link!Release
  BY <1>9 DEF Link!Release
<1> QED
  BY <1>5, <1>6, <1>7, <1>8, <1>9 DEF Link!Next

(* Every handler moves the count as its operation on the stack does.        *)
LEMMA LinkStep ==
  ASSUME FwdInv, LinkTyped, [FwdNext]_fwdVars
  PROVE  LinkTyped'
<1>1. ASSUME UNCHANGED <<stack, linkVars>>
      PROVE  LinkTyped'
  BY <1>1 DEF linkVars, LinkTyped
<1>2. ASSUME Link!Next \/ Link!PopAndRelease, crowded' \in BOOLEAN
      PROVE  LinkTyped'
  BY <1>2, LinkMoves DEF FwdInv
<1>3. ASSUME NEW p \in Packet, Enqueue(p)
      PROVE  LinkTyped'
  BY <1>2, <1>3 DEF Enqueue, Push, Refuse, Withdraw, Link!Next
<1>4. CASE SendDataTask /\ ~isRoot
  <2>1. CASE NothingToSend \/ NoRoute \/ NextAttempt
    BY <1>1, <2>1 DEF NothingToSend, NoRoute, NextAttempt
  <2>2. CASE FirstAttempt
    BY <1>2, <2>2 DEF FirstAttempt, Link!Next, LinkTyped
  <2>3. CASE GiveUp
    BY <1>2, <2>3 DEF GiveUp, Link!Next
  <2> QED
    BY <1>4, <2>1, <2>2, <2>3 DEF SendDataTask
<1>5. CASE SendDataTask /\ isRoot
  BY <1>1, <1>2, <1>5
  DEF SendDataTask, RootTask, HandUpQe, HandUpTop, HandUpNothing, Link!Next
<1>6. CASE SendDone
  BY <1>1, <1>2, <1>6 DEF SendDone, NotAcked, Acked, Link!Next
<1>7. CASE RetryTimerFires
  BY <1>1, <1>7 DEF RetryTimerFires
<1>8. ASSUME UNCHANGED engineVars
      PROVE  LinkTyped'
  BY <1>1, <1>8 DEF engineVars
<1>9. ASSUME NEW a \in Addr, NEW p \in Packet, RecvData(a, p)
      PROVE  LinkTyped'
  BY <1>3, <1>8, <1>9 DEF RecvData
<1>10. CASE \E p \in Packet : LocalSend(p)
  BY <1>3, <1>10 DEF LocalSend
<1>11. CASE (\E a \in Addr : RecvBeacon(a)) \/ SetRoot \/ UNCHANGED fwdVars
  BY <1>8, <1>11 DEF RecvBeacon, SetRoot, fwdVars
<1> QED
  BY <1>4, <1>5, <1>6, <1>7, <1>9, <1>10, <1>11 DEF FwdNext

LEMMA LinkAlwaysTyped == FwdSpec => []LinkTyped
<1>1. FwdInit => LinkTyped
  <2> SUFFICES ASSUME FwdInit PROVE LinkTyped
    OBVIOUS
  <2>1. Len(stack) = 0 /\ listed = 0 /\ qeListed = FALSE /\ crowded = FALSE
    BY DEF FwdInit, Link!Init
  <2>2. listed \in 0 .. Len(stack)
    BY <2>1
  <2>3. qeListed \in BOOLEAN /\ crowded \in BOOLEAN
    BY <2>1
  <2> QED
    BY <2>2, <2>3 DEF LinkTyped
<1> QED
  BY <1>1, LinkStep, FwdInvInductive, PTL DEF FwdSpec

(* The place that is kept for the packet in sendQe.  With an oldest packet  *)
(* that is listed no packet takes the last place; without one the stack     *)
(* lacks a packet, and two while sendQe is in use.                          *)
RoomInv ==
  /\ sendQeOccupied =>
       /\ Len(stack) < SEND_STACK_SIZE
       /\ listed = 0 => Len(stack) < SEND_STACK_SIZE - 1
  /\ listed = 0 => Len(stack) < SEND_STACK_SIZE

(* A packet is stored, or not, while the packet in sendQe stays there.      *)
LEMMA RoomAfterArrival ==
  ASSUME CoreTyped, LinkTyped, RoomInv, sendQeOccupied' = sendQeOccupied,
         Link!Store \/ Link!Withhold
  PROVE  RoomInv'
<1> DEFINE S == SEND_STACK_SIZE  L == Len(stack)  L1 == Len(stack)'
<1>1. L \in Nat /\ L <= S /\ listed \in Nat /\ S \in Nat \ {0} /\ listed <= L
  BY Sizes, ForwardingAssumption DEF LinkTyped
<1>2. CASE Link!Store
  BY <1>1, <1>2 DEF RoomInv, Link!Store, Link!LengthSeen, Link!Kept, Link!KeptListed, Link!IsFull
<1>3. CASE Link!Withhold
  BY <1>1, <1>3 DEF RoomInv, Link!Withhold, Link!Kept, Link!KeptListed, Link!IsFull
<1> QED
  BY <1>2, <1>3

(* A packet leaves the stack, for sendQe or for the application of a root.  *)
LEMMA RoomAfterPop ==
  ASSUME CoreTyped, LinkTyped, RoomInv, SEND_STACK_SIZE > 1,
         Link!Pop \/ Link!PopAndRelease
  PROVE  RoomInv'
<1>1. /\ Len(stack) \in Nat /\ Len(stack) <= SEND_STACK_SIZE
      /\ listed \in Nat /\ SEND_STACK_SIZE \in Nat /\ listed <= Len(stack)
  BY Sizes, ForwardingAssumption DEF LinkTyped
<1> QED
  BY <1>1 DEF RoomInv, Link!Pop, Link!PopAndRelease

(* The packet in sendQe goes to the place kept for it.                      *)
LEMMA RoomAfterPutBack ==
  ASSUME CoreTyped, LinkTyped, RoomInv, sendQeOccupied, sendQeOccupied' = FALSE,
         Link!PutBack
  PROVE  RoomInv'
<1>1. /\ Len(stack) \in Nat /\ listed \in Nat
      /\ SEND_STACK_SIZE \in Nat /\ listed <= Len(stack)
  BY Sizes, ForwardingAssumption DEF LinkTyped
<1> QED
  BY <1>1 DEF RoomInv, Link!PutBack, Link!Kept, Link!KeptListed, Link!IsFull

LEMMA RoomStep ==
  ASSUME FwdInv, LinkTyped, RoomInv, SEND_STACK_SIZE > 1, [FwdNext]_fwdVars
  PROVE  RoomInv'
<1>1. ASSUME UNCHANGED <<stack, sendQeOccupied, listed>>
      PROVE  RoomInv'
  BY <1>1 DEF RoomInv
<1>2. ASSUME UNCHANGED <<stack, listed>>, sendQeOccupied' = FALSE
      PROVE  RoomInv'
  BY <1>2 DEF RoomInv
<1>3. ASSUME NEW p \in Packet, Enqueue(p)
      PROVE  RoomInv'
  BY <1>3, RoomAfterArrival DEF Enqueue, Push, Refuse, Withdraw, FwdInv
<1>4. CASE SendDataTask /\ ~isRoot
  <2>1. CASE NothingToSend \/ NoRoute \/ NextAttempt
    BY <1>1, <2>1 DEF NothingToSend, NoRoute, NextAttempt, linkVars
  <2>2. CASE FirstAttempt
    BY <2>2, RoomAfterPop DEF FirstAttempt, FwdInv
  <2>3. CASE GiveUp
    BY <2>3, RoomAfterPutBack DEF GiveUp, FwdInv
  <2> QED
    BY <1>4, <2>1, <2>2, <2>3 DEF SendDataTask
<1>5. CASE SendDataTask /\ isRoot
  <2>1. CASE HandUpQe
    BY <1>2, <2>1 DEF HandUpQe, Link!Release
  <2>2. CASE HandUpTop
    BY <2>2, RoomAfterPop DEF HandUpTop, FwdInv
  <2>3. CASE HandUpNothing
    BY <1>1, <2>3 DEF HandUpNothing, linkVars
  <2> QED
    BY <1>5, <2>1, <2>2, <2>3 DEF SendDataTask, RootTask
<1>6. CASE SendDone
  BY <1>1, <1>2, <1>6 DEF SendDone, NotAcked, Acked, linkVars, Link!Release
<1>7. CASE RetryTimerFires
  BY <1>1, <1>7 DEF RetryTimerFires, linkVars
<1>8. ASSUME UNCHANGED engineVars
      PROVE  RoomInv'
  BY <1>1, <1>8 DEF engineVars, linkVars
<1>9. ASSUME NEW a \in Addr, NEW p \in Packet, RecvData(a, p)
      PROVE  RoomInv'
  BY <1>3, <1>8, <1>9 DEF RecvData
<1>10. CASE \E p \in Packet : LocalSend(p)
  BY <1>3, <1>10 DEF LocalSend
<1>11. CASE (\E a \in Addr : RecvBeacon(a)) \/ SetRoot \/ UNCHANGED fwdVars
  BY <1>8, <1>11 DEF RecvBeacon, SetRoot, fwdVars
<1> QED
  BY <1>4, <1>5, <1>6, <1>7, <1>9, <1>10, <1>11 DEF FwdNext

LEMMA RoomIsKept == FwdSpec => []RoomToPutBack
<1>1. FwdInit /\ SEND_STACK_SIZE > 1 => RoomInv
  <2> SUFFICES ASSUME FwdInit, SEND_STACK_SIZE > 1 PROVE RoomInv
    OBVIOUS
  <2>1. Len(stack) = 0 /\ ~sendQeOccupied
    BY DEF FwdInit
  <2> QED
    BY <2>1, ForwardingAssumption DEF RoomInv
<1> DEFINE I == SEND_STACK_SIZE > 1 => RoomInv
<1>2. FwdInit => I
  BY <1>1
<1>3. FwdInv /\ LinkTyped /\ I /\ [FwdNext]_fwdVars => I'
  BY RoomStep
<1>4. I => RoomToPutBack
  BY DEF RoomInv, RoomToPutBack
<1> HIDE DEF I
<1> QED
  BY <1>2, <1>3, <1>4, FwdInvInductive, LinkAlwaysTyped, PTL DEF FwdSpec

----------------------------------------------------------------------------
(* The properties of the runs. *)

(* Type correctness: no order of arrivals, retries and late answers makes   *)
(* the stack outgrow SEND_STACK_SIZE or a packet exceed its attempts, a     *)
(* packet that is given up finds a place on the stack, and no more entries  *)
(* of the stack are taken for listed than there are.                        *)
THEOREM FwdTypeCorrect == FwdSpec => []FwdTypeOK
<1>1. FwdInv /\ LinkTyped /\ RoomToPutBack => FwdTypeOK
  BY DEF FwdInv, CoreTyped, FwdTypeOK
<1> QED
  BY <1>1, FwdInvInductive, LinkAlwaysTyped, RoomIsKept, PTL

(* The engine has one packet on its way at a time, and a sent callback      *)
(* always finds the packet it is about in sendQe.                           *)
THEOREM SendsAreExclusive == FwdSpec => []OneSendAtATime
BY FwdInvInductive, PTL DEF FwdInv

(* No block of the two pools is leaked or freed twice, neither of a packet  *)
(* that is dropped, completed or handed up nor of one that is withdrawn     *)
(* because the stack looks full.                                            *)
THEOREM PoolsKeepBalance == FwdSpec => []PoolsBalanced
BY FwdInvInductive, PTL DEF FwdInv

(* No order of arrivals makes the engine remember a packet that it did not  *)
(* store, as long as message_pool does not look full and the stack lacks    *)
(* two packets of its limit: up to there the suppression of duplicates      *)
(* hides no lost packet.                                                    *)
THEOREM RememberedArrivalsAreStored == FwdSpec => RememberedIsStored
<1> DEFINE Stored == \A a \in Addr :
                       /\ latest'[a] # latest[a] /\ ~isRoot
                       /\ ~crowded /\ Len(stack) < SEND_STACK_SIZE - 1
                       => Stores(latest'[a])
<1>1. FwdInv /\ [FwdNext]_fwdVars => [Stored]_fwdVars
  <2> SUFFICES ASSUME FwdInv, [FwdNext]_fwdVars, latest' # latest, ~isRoot,
                      ~crowded, Len(stack) < SEND_STACK_SIZE - 1
               PROVE  Stored
    BY DEF fwdVars, engineVars, neighbourVars
  <2>1. PICK a \in Addr, p \in Packet : RecvData(a, p)
    BY DEF FwdNext, LocalSend, RecvBeacon, SendDataTask, RetryTimerFires, SendDone,
           SetRoot, fwdVars, neighbourVars
  <2>2. latest' = [latest EXCEPT ![a] = p] /\ latest \in [Addr -> Packet \cup {NULL}]
    BY <2>1 DEF RecvData, Remember, FwdInv, CoreTyped, TablesTyped
  <2>3. /\ Len(stack) \in Nat /\ Len(Kept) \in Nat /\ Len(Kept) <= Len(stack)
        /\ Link!LengthSeen \in {Len(Kept), Len(Kept) + 1}
    BY Sizes, KeptStack, SeenLength DEF FwdInv
  <2>4. StackHasRoom
    BY <2>3, ForwardingAssumption DEF StackHasRoom
  <2>5. Push(p)
    BY <2>1, <2>4, MemoryLeft DEF RecvData, Enqueue, Refuse, Withdraw
  <2> DEFINE e == [pkt |-> p, tx |-> 0]
  <2>6. e \in Queued /\ e.pkt = p
    BY DEF Queued
  <2>7. stack' = <<e>> \o Kept
    BY <2>5 DEF Push
  <2> HIDE DEF e
  <2>8. stack' # <<>> /\ Head(stack') = e /\ Len(stack') = Len(stack) - Freed + 1
    BY <2>6, <2>7, PushedStack DEF FwdInv
  <2>9. Freed = 0
    BY <2>3, ForwardingAssumption DEF Freed, IsFull
  <2>10. Len(stack') > Len(stack)
    BY <2>3, <2>8, <2>9
  <2> QED
    BY <2>2, <2>6, <2>8, <2>10 DEF Stores
<1> QED
  BY <1>1, FwdInvInductive, PTL DEF FwdSpec, RememberedIsStored

----------------------------------------------------------------------------
(* The engine implements FwdStack. *)

(* The packets of the entries of a stack, as the refinement mapping has it. *)
Pkts(s) == [i \in DOMAIN s |-> s[i].pkt]

LEMMA SeqIsFunction ==
  ASSUME NEW S, NEW q \in Seq(S), NEW n, Len(q) = n
  PROVE  q = [i \in 1 .. n |-> q[i]]
OBVIOUS

LEMMA PktsSeq ==
  ASSUME NEW s \in Seq(Queued)
  PROVE  /\ Pkts(s) \in Seq(Packet) /\ Len(Pkts(s)) = Len(s)
         /\ \A i \in 1 .. Len(s) : Pkts(s)[i] = s[i].pkt
         /\ s = <<>> <=> Pkts(s) = <<>>
         /\ s # <<>> => Head(Pkts(s)) = Head(s).pkt /\ Tail(Pkts(s)) = Pkts(Tail(s))
<1>0. \A i \in 1 .. Len(s) : s[i] \in Queued
  BY ElementOfSeq
<1>1. Len(s) \in Nat /\ DOMAIN s = 1 .. Len(s) /\ \A i \in 1 .. Len(s) : s[i].pkt \in Packet
  BY <1>0 DEF Queued
<1>2. Pkts(s) = [i \in 1 .. Len(s) |-> s[i].pkt]
  BY <1>1 DEF Pkts
<1>3. Pkts(s) \in Seq(Packet) /\ Len(Pkts(s)) = Len(s)
      /\ \A i \in 1 .. Len(s) : Pkts(s)[i] = s[i].pkt
  BY <1>1, <1>2
<1>4. s = <<>> <=> Pkts(s) = <<>>
  BY <1>3, EmptySeq
<1>5. ASSUME s # <<>>
      PROVE  Head(Pkts(s)) = Head(s).pkt /\ Tail(Pkts(s)) = Pkts(Tail(s))
  <2> DEFINE r == Pkts(s)
             t == Tail(s)
  <2>1. r # <<>> /\ r \in Seq(Packet)
    BY <1>3, <1>4, <1>5
  <2>2. /\ Head(s) = s[1] /\ t \in Seq(Queued) /\ Len(t) = Len(s) - 1
        /\ \A i \in 1 .. Len(t) : t[i] = s[i + 1]
    BY <1>5, HeadTailProperties
  <2>3. /\ Head(r) = r[1] /\ Tail(r) \in Seq(Packet) /\ Len(Tail(r)) = Len(r) - 1
        /\ \A i \in 1 .. Len(Tail(r)) : Tail(r)[i] = r[i + 1]
    BY <2>1, HeadTailProperties
  <2>4. Len(s) >= 1
    BY <1>1, <1>5, EmptySeq
  <2> HIDE DEF r, t
  <2>5. DOMAIN t = 1 .. Len(s) - 1 /\ DOMAIN Tail(r) = 1 .. Len(s) - 1
    BY <1>3, <2>2, <2>3 DEF r
  <2>6. \A i \in 1 .. Len(s) - 1 : Tail(r)[i] = t[i].pkt
    BY <1>1, <1>3, <2>2, <2>3, <2>4 DEF r
  <2>7. Tail(r) = [i \in 1 .. Len(s) - 1 |-> Tail(r)[i]]
    <3>1. Tail(r) \in Seq(Packet) /\ Len(Tail(r)) = Len(s) - 1
      BY <1>3, <2>3 DEF r
    <3> QED
      BY <3>1, SeqIsFunction
  <2>8. Tail(r) = Pkts(t)
    BY <2>5, <2>6, <2>7 DEF Pkts
  <2> QED
    BY <1>1, <1>3, <2>2, <2>3, <2>4, <2>8 DEF r, t
<1> QED
  BY <1>3, <1>4, <1>5

(* Pushing an entry pushes its packet.                                      *)
LEMMA PktsPush ==
  ASSUME NEW s \in Seq(Queued), NEW e \in Queued
  PROVE  Pkts(<<e>> \o s) = <<e.pkt>> \o Pkts(s)
<1> DEFINE u == <<e>> \o s
           v == <<e.pkt>> \o Pkts(s)
<1>1. Pkts(s) \in Seq(Packet) /\ Len(Pkts(s)) = Len(s) /\ Len(s) \in Nat
      /\ \A i \in 1 .. Len(s) : Pkts(s)[i] = s[i].pkt
  BY PktsSeq
<1>2. <<e>> \in Seq(Queued) /\ Len(<<e>>) = 1 /\ <<e>>[1] = e
  OBVIOUS
<1>3. <<e.pkt>> \in Seq(Packet) /\ Len(<<e.pkt>>) = 1 /\ <<e.pkt>>[1] = e.pkt
  BY DEF Queued
<1>4. /\ u \in Seq(Queued) /\ Len(u) = Len(s) + 1 /\ u[1] = e
      /\ \A i \in 2 .. Len(s) + 1 : u[i] = s[i - 1]
  BY <1>1, <1>2, ConcatProperties
<1>5. /\ v \in Seq(Packet) /\ Len(v) = Len(s) + 1 /\ v[1] = e.pkt
      /\ \A i \in 2 .. Len(s) + 1 : v[i] = Pkts(s)[i - 1]
  BY <1>1, <1>3, ConcatProperties
<1> HIDE DEF u, v
<1>6. \A i \in 1 .. Len(s) + 1 : v[i] = u[i].pkt
  <2> TAKE i \in 1 .. Len(s) + 1
  <2>1. CASE i = 1
    BY <1>4, <1>5, <2>1
  <2>2. CASE i # 1
    <3>1. i \in 2 .. Len(s) + 1 /\ i - 1 \in 1 .. Len(s)
      BY <1>1, <2>2
    <3> QED
      BY <1>1, <1>4, <1>5, <3>1
  <2> QED
    BY <2>1, <2>2
<1>7. DOMAIN u = 1 .. Len(s) + 1 /\ v = [i \in 1 .. Len(s) + 1 |-> v[i]]
  BY <1>4, <1>5
<1>8. Pkts(u) = v
  BY <1>6, <1>7 DEF Pkts
<1> QED
  BY <1>8 DEF u, v

(* conditionalFQDiscard makes room as FwdStack does.                        *)
LEMMA PktsKept ==
  ASSUME CoreTyped
  PROVE  Pkts(Kept) = Stack!WithRoom(Pkts(stack))
<1>1. stack \in Seq(Queued) /\ Len(stack) \in Nat
  BY Sizes
<1>2. Pkts(stack) \in Seq(Packet) /\ Len(Pkts(stack)) = Len(stack)
      /\ \A i \in 1 .. Len(stack) : Pkts(stack)[i] = stack[i].pkt
  BY <1>1, PktsSeq
<1>3. CASE IsFull
  <2> DEFINE m == Len(stack) - 1
             u == SubSeq(stack, 1, m)
             v == SubSeq(Pkts(stack), 1, m)
  <2>1. m \in Nat /\ m <= Len(stack)
    BY <1>1, <1>3, ForwardingAssumption DEF IsFull
  <2>2. Kept = u /\ Stack!WithRoom(Pkts(stack)) = v
    BY <1>2, <1>3 DEF Kept, IsFull, Stack!WithRoom
  <2> HIDE DEF m
  <2>3. u = [i \in 1 .. m |-> stack[i]] /\ v = [i \in 1 .. m |-> Pkts(stack)[i]]
    BY <1>1, <1>2, <2>1
  <2> HIDE DEF u, v
  <2>4. \A i \in 1 .. m : Pkts(stack)[i] = stack[i].pkt
    BY <1>1, <1>2, <2>1
  <2>5. Pkts(u) = v
    BY <2>3, <2>4 DEF Pkts
  <2> QED
    BY <2>2, <2>5
<1>4. CASE ~IsFull
  BY <1>2, <1>4 DEF Kept, IsFull, Stack!WithRoom
<1> QED
  BY <1>3, <1>4

(* Every step maps to a step of FwdStack or to a stutter.                   *)
LEMMA StackStep ==
  ASSUME FwdInv, LinkTyped, LinkTyped', [FwdNext]_fwdVars
  PROVE  [Stack!Next]_(Stack!vars)
<1> USE DEF Stack!Next, Stack!vars, Pkts
<1>1. /\ stack \in Seq(Queued) /\ posted \in Nat
      /\ CoreTyped /\ sendQe \in Entry \cup {NoEntry}
      /\ sendQeOccupied => sendQe \in Entry
  BY Sizes DEF FwdInv, CoreTyped, SendQeTyped, OneSendAtATime
<1>0. crowded' \in BOOLEAN
  BY DEF LinkTyped
<1>2. ASSUME UNCHANGED <<isRoot, stack, sendQe, sendQeOccupied, crowded>>
      PROVE  UNCHANGED Stack!vars
  BY <1>2
<1>3. ASSUME NEW p \in Packet, Enqueue(p) PROVE Stack!Next
  <2>0. UNCHANGED <<isRoot, sendQe, sendQeOccupied>>
    BY <1>3 DEF Enqueue
  <2>1. CASE Push(p)
    <3> DEFINE e == [pkt |-> p, tx |-> 0]
    <3>1. stack' = <<e>> \o Kept /\ ~crowded
      BY <2>1 DEF Push, PoolsHaveRoom
    <3>2. e \in Queued /\ e.pkt = p
      BY DEF Queued
    <3> HIDE DEF e
    <3>3. Pkts(stack') = <<p>> \o Stack!WithRoom(Pkts(stack))
      BY <1>1, <3>1, <3>2, KeptStack, PktsPush, PktsKept
    <3>4. Stack!Take(p)
      BY <2>0, <3>1, <3>3 DEF Stack!Take
    <3> QED
      BY <1>0, <3>4
  <2>2. CASE Refuse \/ Withdraw
    <3>1. stack' = Kept
      BY <2>2 DEF Refuse, Withdraw
    <3>2. Pkts(stack') = Stack!WithRoom(Pkts(stack)) /\ Len(Pkts(Kept)) = Len(Kept)
      BY <1>1, <3>1, KeptStack, PktsKept, PktsSeq
    <3>3. crowded \/ Len(Kept) >= SEND_STACK_SIZE - 1
      <4>1. CASE Refuse
        BY <4>1, MemoryLeft DEF Refuse
      <4>2. CASE Withdraw
        <5>1. Link!LengthSeen \in {Len(Kept), Len(Kept) + 1} /\ Len(Kept) \in Nat
          BY <1>1, SeenLength, KeptStack
        <5>2. ~(Link!LengthSeen < SEND_STACK_SIZE)
          BY <4>2 DEF Withdraw, StackHasRoom
        <5> QED
          BY <5>1, <5>2, ForwardingAssumption
      <4> QED
        BY <2>2, <4>1, <4>2
    <3>4. Stack!Drop
      BY <1>1, <2>0, <3>1, <3>2, <3>3, PktsKept DEF Stack!Drop
    <3> QED
      BY <1>0, <3>4
  <2> QED
    BY <1>3, <2>1, <2>2 DEF Enqueue
<1>4. ASSUME stack # <<>>, stack' = Tail(stack)
      PROVE  /\ Pkts(stack) # <<>> /\ Head(Pkts(stack)) = Head(stack).pkt
             /\ Pkts(stack') = Tail(Pkts(stack))
  BY <1>1, <1>4, PktsSeq
<1>5. CASE SendDataTask /\ ~isRoot /\ (NothingToSend \/ NoRoute)
  <2>1. UNCHANGED <<isRoot, stack, sendQe, sendQeOccupied, crowded>>
    BY <1>5 DEF SendDataTask, NothingToSend, NoRoute, linkVars
  <2> QED
    BY <1>2, <2>1
<1>6. CASE SendDataTask /\ ~isRoot /\ FirstAttempt
  <2>1. /\ ~sendQeOccupied /\ stack # <<>> /\ stack' = Tail(stack)
        /\ sendQeOccupied' = TRUE /\ isRoot' = isRoot
        /\ sendQe' = [Head(stack) EXCEPT !.tx = @ + 1]
    BY <1>6 DEF SendDataTask, FirstAttempt, Transmit
  <2>2. Head(stack) \in Queued
    BY <1>1, <2>1, HeadTailProperties
  <2>3. sendQe'.pkt = Head(stack).pkt
    BY <2>1, <2>2 DEF Queued
  <2>4. Stack!Turn
    BY <1>4, <2>1, <2>3 DEF Stack!Turn
  <2> QED
    BY <1>0, <2>4
<1>7. CASE SendDataTask /\ ~isRoot /\ NextAttempt
  <2>1. /\ sendQeOccupied /\ sendQeOccupied' = sendQeOccupied /\ stack' = stack
        /\ isRoot' = isRoot /\ sendQe' = [sendQe EXCEPT !.tx = @ + 1]
        /\ crowded' = crowded
    BY <1>7 DEF SendDataTask, NextAttempt, Transmit, linkVars
  <2>2. sendQe'.pkt = sendQe.pkt
    BY <1>1, <2>1 DEF Entry
  <2> QED
    BY <2>1, <2>2
<1>8. CASE SendDataTask /\ ~isRoot /\ GiveUp
  <2>1. /\ sendQeOccupied /\ ~sendQeOccupied' /\ isRoot' = isRoot
        /\ sendQe' = [sendQe EXCEPT !.tx = 0] /\ stack' = <<sendQe'>> \o Kept
    BY <1>8 DEF SendDataTask, GiveUp
  <2>2. sendQe' \in Queued /\ sendQe'.pkt = sendQe.pkt
    BY <1>1, <2>1 DEF Entry, Queued
  <2> DEFINE e == sendQe'
  <2>3. Pkts(stack') = <<sendQe.pkt>> \o Stack!WithRoom(Pkts(stack))
    <3>1. e \in Queued /\ e.pkt = sendQe.pkt /\ stack' = <<e>> \o Kept
      BY <2>1, <2>2
    <3> HIDE DEF e, Pkts
    <3>2. Pkts(<<e>> \o Kept) = <<e.pkt>> \o Pkts(Kept)
      BY <1>1, <3>1, KeptStack, PktsPush
    <3> QED
      BY <1>1, <3>1, <3>2, PktsKept
  <2>4. Stack!PutBack
    BY <2>1, <2>3 DEF Stack!PutBack
  <2> QED
    BY <1>0, <2>4
<1>9. CASE SendDataTask /\ isRoot
  <2>1. RootTask /\ isRoot' = isRoot
    BY <1>9 DEF SendDataTask
  <2>2. CASE HandUpQe
    <3>1. Stack!Sent
      BY <2>1, <2>2 DEF HandUpQe, Stack!Sent
    <3> QED
      BY <1>0, <3>1
  <2>3. CASE HandUpTop
    <3>1. ~sendQeOccupied /\ ~sendQeOccupied' /\ stack # <<>> /\ stack' = Tail(stack)
      BY <2>3 DEF HandUpTop
    <3>2. Stack!HandUp
      BY <1>4, <1>9, <2>1, <3>1 DEF Stack!HandUp
    <3> QED
      BY <1>0, <3>2
  <2>4. CASE HandUpNothing
    BY <1>2, <2>1, <2>4 DEF HandUpNothing, linkVars
  <2> QED
    BY <2>1, <2>2, <2>3, <2>4 DEF RootTask
<1>10. CASE SendDone
  <2>1. UNCHANGED <<isRoot, stack, sendQe>> /\ inMac # <<>>
    BY <1>10 DEF SendDone
  <2>2. CASE NotAcked
    BY <1>2, <2>1, <2>2 DEF NotAcked, linkVars
  <2>3. CASE Acked
    <3>1. inMac \in Seq(Frame) /\ Len(inMac) = 1
      BY <2>1, Sizes DEF FwdInv, OneSendAtATime
    <3>2. sendQeOccupied
      BY <3>1 DEF FwdInv, OneSendAtATime
    <3>3. Stack!Sent
      BY <2>1, <2>3, <3>2 DEF Acked, Stack!Sent
    <3> QED
      BY <1>0, <3>3
  <2> QED
    BY <1>10, <2>2, <2>3 DEF SendDone
<1>11. CASE RetryTimerFires \/ (\E a \in Addr : RecvBeacon(a)) \/ UNCHANGED fwdVars
  BY <1>2, <1>11 DEF RetryTimerFires, RecvBeacon, engineVars, linkVars, fwdVars
<1>12. CASE SetRoot
  <2>1. Stack!BecomeRoot
    BY <1>12 DEF SetRoot, engineVars, Stack!BecomeRoot
  <2> QED
    BY <1>0, <2>1
<1>13. ASSUME NEW a \in Addr, NEW p \in Packet, RecvData(a, p)
       PROVE  [Stack!Next]_(Stack!vars)
  <2>1. Enqueue(p) \/ UNCHANGED <<isRoot, engineVars>>
    BY <1>13 DEF RecvData
  <2> QED
    BY <1>2, <1>3, <2>1 DEF engineVars, linkVars
<1>14. CASE \E p \in Packet : LocalSend(p)
  BY <1>3, <1>14 DEF LocalSend
<1>15. CASE SendDataTask
  BY <1>5, <1>6, <1>7, <1>8, <1>9, <1>15 DEF SendDataTask
<1> QED
  BY <1>10, <1>11, <1>12, <1>13, <1>14, <1>15 DEF FwdNext

(* The engine keeps what FwdStack promises, under all orders of arrivals    *)
(* and retries: a packet leaves it only when its frame has been             *)
(* acknowledged, as the oldest of a full stack, or to the application of a  *)
(* root; and a new packet is refused only if message_pool looks full or the *)
(* stack holds all packets but one that it may hold.                        *)
THEOREM EngineIsStack == FwdSpec => KeepsStack
<1>1. FwdInit => Stack!Init
  BY DEF FwdInit, Stack!Init
<1> QED
  BY <1>1, StackStep, FwdInvInductive, LinkAlwaysTyped, PTL
  DEF FwdSpec, KeepsStack, Stack!Spec
=============================================================================
