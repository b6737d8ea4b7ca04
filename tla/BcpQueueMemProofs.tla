-------------------------- MODULE BcpQueueMemProofs --------------------------
(* Proofs about BcpQueueMem, for every pool size and every content.         *)
EXTENDS BcpQueueMem, Sequences, FiniteSetTheorems, SequenceTheorems, LeastElement, TLAPS

(* In a stack layout the list goes down from the head to block 0. *)
LEMMA WalkGoesDown ==
  ASSUME MemTypeOK, StackLayout
  PROVE  \A i \in 0 .. MAX_PACKET_QUEUE_SIZE :
           Walk[i] = IF i <= head THEN head - i ELSE NULL
<1> USE QueueMemAssumption DEF NULL, WILD, Block, Pointer
<1> DEFINE M == MAX_PACKET_QUEUE_SIZE
           Fcn(f) == [i \in 0 .. M |-> IF i = 0 THEN head
                                       ELSE IF f[i - 1] \in Block THEN next[f[i - 1]] ELSE NULL]
           down == [i \in 0 .. M |-> IF i <= head THEN head - i ELSE NULL]
<1>1. head \in -1 .. M - 1 /\ M \in Nat \ {0}
  BY DEF MemTypeOK
<1>2. \A b \in Block : b <= head => next[b] = IF b = 0 THEN NULL ELSE b - 1
  BY DEF StackLayout, MemTypeOK
<1>3. down = Fcn(down)
  <2>1. ASSUME NEW i \in 0 .. M
        PROVE  down[i] = Fcn(down)[i]
    <3>1. CASE i = 0
      BY <1>1, <3>1
    <3>2. CASE i # 0
      <4>1. i - 1 \in 0 .. M /\ down[i - 1] = IF i - 1 <= head THEN head - (i - 1) ELSE NULL
        BY <1>1, <3>2
      <4>2. CASE i - 1 <= head
        <5>1. down[i - 1] \in Block /\ down[i - 1] <= head
          BY <1>1, <3>2, <4>1, <4>2
        <5>2. next[down[i - 1]] = IF head - (i - 1) = 0 THEN NULL ELSE head - i
          BY <1>1, <1>2, <4>1, <4>2, <5>1
        <5> QED
          BY <1>1, <3>2, <4>2, <5>1, <5>2
      <4>3. CASE ~(i - 1 <= head)
        BY <1>1, <3>2, <4>1, <4>3
      <4> QED
        BY <4>2, <4>3
    <3> QED
      BY <3>1, <3>2
  <2> QED
    BY <2>1
<1>4. Walk = CHOOSE f : f = Fcn(f)
  BY DEF Walk
<1> HIDE DEF down
<1>5. Walk = Fcn(Walk)
  BY <1>3, <1>4
<1>6. ASSUME NEW i \in 0 .. M, Walk[i] # down[i]
      PROVE  FALSE
  <2> DEFINE T == {j \in 0 .. M : Walk[j] # down[j]}
  <2>1. PICK j \in T : \A k \in T : j <= k
    <3>1. T \subseteq Nat /\ T # {}
      BY <1>1, <1>6
    <3> QED
      BY <3>1, LeastNat
  <2>2. j # 0
    <3>1. Walk[0] = head /\ down[0] = head
      BY <1>1, <1>3, <1>5
    <3> QED
      BY <2>1, <3>1
  <2>3. j - 1 \in 0 .. M /\ Walk[j - 1] = down[j - 1]
    BY <1>1, <2>1, <2>2
  <2>4. Walk[j] = IF Walk[j - 1] \in Block THEN next[Walk[j - 1]] ELSE NULL
    BY <1>1, <1>5, <2>1, <2>2
  <2>5. down[j] = IF down[j - 1] \in Block THEN next[down[j - 1]] ELSE NULL
    BY <1>1, <1>3, <2>1, <2>2
  <2> QED
    BY <2>1, <2>3, <2>4, <2>5
<1> QED
  BY <1>6 DEF down

(* So the length bcp_queue_length counts is the index of the head plus one, *)
(* and the items are the contents of the blocks from the head down.         *)
ItemsFromHead ==
  /\ Length = head + 1
  /\ Items = [i \in 1 .. head + 1 |-> store[head - (i - 1)]]
  /\ Items \in Seq(Content \cup {Blank}) /\ Len(Items) = head + 1

LEMMA LengthIsHead == MemTypeOK /\ StackLayout => ItemsFromHead
<1> SUFFICES ASSUME MemTypeOK, StackLayout
             PROVE  ItemsFromHead
  OBVIOUS
<1> USE QueueMemAssumption
<1> DEFINE S == {i \in Block : Walk[i] \in Block}
           it == [i \in 1 .. head + 1 |-> store[head - (i - 1)]]
<1>1. head \in -1 .. MAX_PACKET_QUEUE_SIZE - 1
  BY DEF MemTypeOK, Block, NULL
<1>2. S = 0 .. head
  <2>1. \A i \in Block : Walk[i] = IF i <= head THEN head - i ELSE NULL
    BY WalkGoesDown DEF Block
  <2> QED
    BY <1>1, <2>1 DEF Block, NULL
<1>3. Cardinality(0 .. head) = head + 1
  BY <1>1, FS_Interval
<1>4. Length = head + 1
  BY <1>2, <1>3 DEF Length
<1>5. \A i \in 1 .. head + 1 : Walk[i - 1] = head - (i - 1) /\ head - (i - 1) \in Block
  BY <1>1, WalkGoesDown DEF Block
<1>6. Items = it
  BY <1>4, <1>5 DEF Items
<1>7. it \in [1 .. head + 1 -> Content \cup {Blank}]
  BY <1>5 DEF MemTypeOK
<1>8. head + 1 \in Nat
  BY <1>1
<1> HIDE DEF it
<1>9. it \in Seq(Content \cup {Blank}) /\ Len(it) = head + 1
  BY <1>7, <1>8
<1> QED
  BY <1>4, <1>6, <1>9 DEF it, ItemsFromHead

LEMMA LengthIsHeadNext == MemTypeOK' /\ StackLayout' => ItemsFromHead'
BY LengthIsHead, PTL

(* What each operation does in a stack layout. *)
LEMMA PushAtTop ==
  ASSUME MemTypeOK, StackLayout, NEW c \in Content, NEW over \in BOOLEAN, Push(c, over)
  PROVE  /\ head' = head + 1 /\ head + 1 \in Block
         /\ used' = [used EXCEPT ![head + 1] = TRUE]
         /\ store' = [store EXCEPT ![head + 1] = c]
         /\ AddFirst(head + 1, over)
<1> USE QueueMemAssumption
<1>1. PICK b \in Block : /\ IsFirstFree(b) /\ AddFirst(b, over)
                         /\ used' = [used EXCEPT ![b] = TRUE]
                         /\ store' = [store EXCEPT ![b] = c]
  BY DEF Push
<1>2. b = head + 1
  BY <1>1 DEF IsFirstFree, StackLayout, MemTypeOK, Block, NULL
<1> QED
  BY <1>1, <1>2 DEF AddFirst

LEMMA LayoutStep ==
  ASSUME MemTypeOK, StackLayout, [MemNext]_memVars
  PROVE  MemTypeOK' /\ StackLayout'
<1> USE QueueMemAssumption
<1>1. ASSUME NEW c \in Content, NEW over \in BOOLEAN, Push(c, over)
      PROVE  MemTypeOK' /\ StackLayout'
  <2>1. /\ head' = head + 1 /\ head + 1 \in Block
        /\ used' = [used EXCEPT ![head + 1] = TRUE]
        /\ store' = [store EXCEPT ![head + 1] = c]
        /\ AddFirst(head + 1, over)
    BY <1>1, PushAtTop
  <2>2. /\ used' \in [Block -> BOOLEAN] /\ head' \in Block \cup {NULL}
        /\ next' \in [Block -> Pointer] /\ store' \in [Block -> Content \cup {Blank}]
    BY <2>1 DEF MemTypeOK, AddFirst, Pointer
  <2>3. \A b \in Block : used'[b] <=> b <= head'
    BY <2>1 DEF StackLayout, MemTypeOK, Block, NULL
  <2>4. \A b \in Block : b <= head' => next'[b] = IF b = 0 THEN NULL ELSE b - 1
    <3>1. head \in Int
      BY DEF MemTypeOK, Block, NULL
    <3>2. ASSUME NEW b \in Block, b <= head
          PROVE  next'[b] = next[b] /\ next[b] = IF b = 0 THEN NULL ELSE b - 1
      BY <2>1, <3>1, <3>2 DEF StackLayout, AddFirst, Block
    <3>3. next'[head + 1] = head /\ (head + 1 = 0 => head = NULL)
      BY <2>1, <3>1 DEF AddFirst, NULL
    <3> QED
      BY <2>1, <3>1, <3>2, <3>3 DEF Block
  <2>5. \A b \in Block : used'[b] => store'[b] \in Content
    BY <2>1 DEF MemTypeOK
  <2>6. \A b \in Block : used'[b] => next'[b] # WILD
    BY <2>3, <2>4 DEF Block, NULL, WILD
  <2>7. MemTypeOK'
    BY <2>2, <2>5, <2>6 DEF MemTypeOK
  <2> QED
    BY <2>3, <2>4, <2>7 DEF StackLayout
<1>2. ASSUME Remove
      PROVE  MemTypeOK' /\ StackLayout'
  <2>1. /\ head \in Block /\ head' = IF head = 0 THEN NULL ELSE head - 1
        /\ next' = [next EXCEPT ![head] = NULL]
        /\ used' = [used EXCEPT ![head] = FALSE] /\ UNCHANGED store
    BY <1>2 DEF Remove, Free, MemTypeOK, StackLayout, Block, NULL
  <2>2. MemTypeOK'
    BY <2>1 DEF MemTypeOK, Pointer, Block, NULL
  <2>3. \A b \in Block : used'[b] <=> b <= head'
    BY <2>1 DEF StackLayout, MemTypeOK, Block, NULL
  <2>4. \A b \in Block : b <= head' => next'[b] = IF b = 0 THEN NULL ELSE b - 1
    BY <2>1 DEF StackLayout, MemTypeOK, Block, NULL
  <2> QED
    BY <2>2, <2>3, <2>4 DEF StackLayout
<1>3. ASSUME Clear
      PROVE  MemTypeOK' /\ StackLayout'
  <2>1. ASSUME NEW b \in Block, used[b]
        PROVE  \E i \in Block : Walk[i] = b
    <3>1. b <= head /\ head \in Int
      BY <2>1 DEF StackLayout, MemTypeOK, Block, NULL
    <3>2. head - b \in Block /\ head - b \in 0 .. MAX_PACKET_QUEUE_SIZE
      BY <2>1, <3>1 DEF MemTypeOK, Block, NULL
    <3>3. Walk[head - b] = b
      BY <2>1, <3>1, <3>2, WalkGoesDown DEF Block
    <3> QED
      BY <3>2, <3>3
  <2>2. head' = NULL /\ \A b \in Block : ~used'[b]
    BY <1>3, <2>1 DEF Clear
  <2>3. MemTypeOK'
    BY <1>3 DEF Clear, MemTypeOK, Pointer
  <2> QED
    BY <2>2, <2>3 DEF StackLayout, Block, NULL
<1>4. ASSUME Reset
      PROVE  MemTypeOK' /\ StackLayout'
  BY <1>4 DEF Reset, MemTypeOK, StackLayout, Pointer, Block, NULL
<1>5. CASE UNCHANGED memVars
  BY <1>5 DEF memVars, MemTypeOK, StackLayout
<1> QED
  BY <1>1, <1>2, <1>3, <1>4, <1>5 DEF MemNext

LEMMA LayoutInit == MemInit => MemTypeOK /\ StackLayout
BY QueueMemAssumption DEF MemInit, MemTypeOK, StackLayout, Pointer, Block, NULL

(* For every pool size, the queued items fill the pool from its first block *)
(* on: the copy that runs into the next block never meets a queued item.    *)
THEOREM StackLayoutHolds == MemSpec => [](MemTypeOK /\ StackLayout)
<1>1. (MemTypeOK /\ StackLayout) /\ [MemNext]_memVars => (MemTypeOK /\ StackLayout)'
  BY LayoutStep
<1> QED
  BY <1>1, LayoutInit, PTL DEF MemSpec

(* Every variable of the memory model has its type, for any pool size: the  *)
(* calls of bcp_queue.c take blocks of the pool only, and no block in use   *)
(* ever has the link that an over-long copy leaves behind.                  *)
THEOREM MemTypeCorrect == MemSpec => []MemTypeOK
BY StackLayoutHolds, PTL

----------------------------------------------------------------------------
(* A sequence that repeats another from its second element on. *)
LEMMA PushedSequence ==
  ASSUME NEW S, NEW s \in Seq(S), NEW t \in Seq(S), NEW c \in S,
         Len(t) = Len(s) + 1, t[1] = c, \A i \in 1 .. Len(s) : t[i + 1] = s[i]
  PROVE  t = <<c>> \o s
<1> DEFINE u == <<c>> \o s
<1>1. <<c>> \in Seq(S) /\ Len(<<c>>) = 1 /\ <<c>>[1] = c /\ Len(s) \in Nat
  BY LenProperties
<1>2. /\ u \in Seq(S) /\ Len(u) = Len(s) + 1
      /\ \A i \in 1 .. Len(s) + 1 : u[i] = IF i <= 1 THEN <<c>>[i] ELSE s[i - 1]
  <2>1. /\ u \in Seq(S) /\ Len(u) = 1 + Len(s)
        /\ \A i \in 1 .. 1 + Len(s) : u[i] = IF i <= 1 THEN <<c>>[i] ELSE s[i - 1]
    BY <1>1, ConcatProperties
  <2> QED
    BY <1>1, <2>1
<1> HIDE DEF u
<1>3. ASSUME NEW i \in 1 .. Len(t)
      PROVE  t[i] = u[i]
  <2>1. CASE i = 1
    BY <1>1, <1>2, <2>1
  <2>2. CASE i # 1
    <3>1. i - 1 \in 1 .. Len(s) /\ i = (i - 1) + 1
      BY <1>1, <2>2
    <3>2. t[i] = s[i - 1]
      BY <3>1
    <3> QED
      BY <1>1, <1>2, <2>2, <3>1, <3>2
  <2> QED
    BY <2>1, <2>2
<1>4. t = u
  BY <1>1, <1>2, <1>3, SeqEqual
<1> QED
  BY <1>4 DEF u

LEMMA PoppedSequence ==
  ASSUME NEW S, NEW s \in Seq(S), NEW t \in Seq(S),
         Len(s) = Len(t) + 1, \A i \in 1 .. Len(t) : t[i] = s[i + 1]
  PROVE  s # <<>> /\ t = Tail(s)
<1>1. Len(t) \in Nat /\ s # <<>>
  BY LenProperties, EmptySeq
<1>2. /\ Tail(s) \in Seq(S) /\ Len(Tail(s)) = Len(t)
      /\ \A i \in 1 .. Len(t) : Tail(s)[i] = s[i + 1]
  <2>1. /\ Tail(s) \in Seq(S) /\ Len(Tail(s)) = Len(s) - 1
        /\ \A i \in 1 .. Len(Tail(s)) : Tail(s)[i] = s[i + 1]
    BY <1>1, HeadTailProperties
  <2> QED
    BY <1>1, <2>1
<1>3. t = Tail(s)
  BY <1>2, SeqEqual
<1> QED
  BY <1>1, <1>3

(* The operations, seen on the sequence of the queued items. *)
LEMMA ItemsStep ==
  ASSUME MemTypeOK, StackLayout, [MemNext]_memVars
  PROVE  [Stack!Next]_Items
<1> USE QueueMemAssumption
<1> DEFINE C == Content \cup {Blank}
<1>1. MemTypeOK' /\ StackLayout'
  BY LayoutStep
<1>2. /\ Items = [i \in 1 .. head + 1 |-> store[head - (i - 1)]]
      /\ Items \in Seq(C) /\ Len(Items) = head + 1 /\ Length = head + 1
  BY LengthIsHead DEF ItemsFromHead
<1>3. /\ Items' = [i \in 1 .. head' + 1 |-> store'[head' - (i - 1)]]
      /\ Items' \in Seq(C) /\ Len(Items') = head' + 1
  BY <1>1, LengthIsHeadNext DEF ItemsFromHead
<1>4. head \in -1 .. MAX_PACKET_QUEUE_SIZE - 1
  BY DEF MemTypeOK, Block, NULL
<1> DEFINE s == Items
           t == Items'
<1>a. s \in Seq(C) /\ Len(s) = head + 1
  BY <1>2
<1>b. t \in Seq(C) /\ Len(t) = head' + 1
  BY <1>3
<1> HIDE DEF C, s, t
<1>5. ASSUME NEW c \in Content, NEW over \in BOOLEAN, Push(c, over)
      PROVE  Stack!Push(c)
  <2>1. /\ head' = head + 1 /\ head + 1 \in Block
        /\ store' = [store EXCEPT ![head + 1] = c]
    BY <1>5, PushAtTop
  <2>2. Length < MAX_PACKET_QUEUE_SIZE
    BY <1>2, <1>4, <1>5 DEF Push
  <2>3. c \in C
    BY DEF C
  <2>4. Items'[1] = c
    BY <1>3, <1>4, <2>1 DEF MemTypeOK
  <2>5. ASSUME NEW i \in 1 .. head + 1
        PROVE  Items'[i + 1] = Items[i]
    <3>1. Items'[i + 1] = store'[head - (i - 1)]
      <4>1. Items'[i + 1] = store'[head + 1 - (i + 1 - 1)]
        BY <1>3, <1>4, <2>1
      <4>2. head + 1 - (i + 1 - 1) = head - (i - 1)
        BY <1>4
      <4> QED
        BY <4>1, <4>2
    <3>2. head - (i - 1) \in Block /\ head - (i - 1) # head + 1
      BY <1>4 DEF Block
    <3>3. store'[head - (i - 1)] = store[head - (i - 1)]
      BY <2>1, <3>2 DEF MemTypeOK
    <3> QED
      BY <1>2, <3>1, <3>3
  <2>6. Items' = <<c>> \o Items
    <3>1. Len(t) = Len(s) + 1
      BY <1>4, <1>a, <1>b, <2>1
    <3>2. t[1] = c /\ \A i \in 1 .. Len(s) : t[i + 1] = s[i]
      BY <1>a, <2>4, <2>5 DEF s, t
    <3>3. t = <<c>> \o s
      BY <1>a, <1>b, <2>3, <3>1, <3>2, PushedSequence
    <3> QED
      BY <3>3 DEF s, t
  <2> QED
    BY <1>2, <2>2, <2>6 DEF Stack!Push
<1>6. ASSUME Remove
      PROVE  Stack!Pop
  <2>1. head \in Block /\ head' = head - 1 /\ UNCHANGED store
    BY <1>6 DEF Remove, MemTypeOK, StackLayout, Block, NULL
  <2>2. ASSUME NEW i \in 1 .. head
        PROVE  Items'[i] = Items[i + 1]
    <3>1. Items'[i] = store[head - 1 - (i - 1)]
      BY <1>3, <1>4, <2>1
    <3>2. Items[i + 1] = store[head - (i + 1 - 1)]
      BY <1>2, <1>4
    <3>3. head - 1 - (i - 1) = head - (i + 1 - 1)
      BY <1>4
    <3> QED
      BY <3>1, <3>2, <3>3
  <2>3. Len(t) = head /\ Len(s) = Len(t) + 1
    BY <1>4, <1>a, <1>b, <2>1
  <2>4. Items # <<>> /\ Items' = Tail(Items)
    <3>1. \A i \in 1 .. Len(t) : t[i] = s[i + 1]
      BY <2>2, <2>3 DEF s, t
    <3>2. s # <<>> /\ t = Tail(s)
      BY <1>a, <1>b, <2>3, <3>1, PoppedSequence
    <3> QED
      BY <3>2 DEF s, t
  <2> QED
    BY <2>4 DEF Stack!Pop
<1>7. ASSUME Clear \/ Reset
      PROVE  Stack!Clear
  <2>1. head' = -1
    BY <1>7 DEF Clear, Reset, NULL
  <2>2. Items' = <<>>
    BY <1>3, <2>1, EmptySeq
  <2> QED
    BY <2>2 DEF Stack!Clear
<1>8. CASE UNCHANGED memVars
  <2>1. Items' = Items
    BY <1>2, <1>3, <1>8 DEF memVars
  <2> QED
    BY <2>1
<1> QED
  BY <1>5, <1>6, <1>7, <1>8 DEF MemNext, Stack!Next

(* The blocks and links of the queue implement the bounded stack, for every *)
(* pool size.                                                               *)
THEOREM QueueIsStack == MemSpec => IsStack
<1>1. MemInit => Stack!Init
  <2>1. MemInit => ItemsFromHead /\ head = -1
    BY LayoutInit, LengthIsHead DEF MemInit, NULL
  <2> QED
    BY <2>1, EmptySeq DEF ItemsFromHead, Stack!Init
<1>2. MemSpec => [](MemTypeOK /\ StackLayout)
  BY StackLayoutHolds
<1> QED
  BY <1>1, <1>2, ItemsStep, PTL DEF MemSpec, IsStack, Stack!Spec

=============================================================================
