----------------------- MODULE BcpForwardingMemProofs -----------------------
(***************************************************************************)
(* Proofs about Contiki's lists and about BcpForwardingMem, for every size *)
(* of the stack and the pools, and whatever links arrive with a message.   *)
(*                                                                         *)
(* A list is described by the sequence c of its k blocks (ListOf), from    *)
(* which everything that a walk finds follows (ListFacts), and what an     *)
(* operation of list.c makes of it.  The two lists of entries are then     *)
(* one list and an entrance (TwoLists): q_entry_pool starts at sendQe or   *)
(* somewhere on the stack, and goes on with the stack.                     *)
(***************************************************************************)
EXTENDS BcpForwardingMem, FiniteSetTheorems, SequenceTheorems, LeastElement, TLAPS

----------------------------------------------------------------------------
(* Lists *)

(* The links of the blocks D.                                               *)
Links(D, next) ==
  /\ IsFiniteSet(D) /\ NULL \notin D
  /\ next \in [D -> D \cup {NULL}]

(* The list that starts at head consists of the k blocks of c, in order.    *)
ListOf(c, k, head, next) ==
  /\ k \in Nat /\ c \in [1 .. k -> DOMAIN next]
  /\ \A i, j \in 1 .. k : c[i] = c[j] => i = j
  /\ head = IF k = 0 THEN NULL ELSE c[1]
  /\ \A i \in 1 .. k : next[c[i]] = IF i = k THEN NULL ELSE c[i + 1]

Elems(c, k) == {c[i] : i \in 1 .. k}

LEMMA ListFits ==
  ASSUME NEW D, NEW next, Links(D, next), NEW c, NEW k, NEW head, ListOf(c, k, head, next)
  PROVE  /\ k \in Nat /\ Cardinality(D) \in Nat /\ k <= Cardinality(D)
         /\ IsFiniteSet(Elems(c, k)) /\ Cardinality(Elems(c, k)) = k
<1>1. k \in Nat /\ c \in [1 .. k -> D] /\ \A i, j \in 1 .. k : c[i] = c[j] => i = j
  BY DEF Links, ListOf
<1>2. Cardinality(D) \in Nat
  BY FS_CardinalityType DEF Links
<1>3. c \in Bijection(1 .. k, Elems(c, k))
  BY <1>1 DEF Elems, Bijection, Injection, Surjection, IsInjective
<1>4. IsFiniteSet(Elems(c, k)) /\ Elems(c, k) \subseteq D
  BY <1>1, FS_Subset DEF Links, Elems
<1>5. Cardinality(Elems(c, k)) = k
  BY <1>1, <1>3, FS_CountingElements DEF ExistsBijection
<1>6. Cardinality(Elems(c, k)) <= Cardinality(D)
  BY <1>4, FS_Subset DEF Links
<1> QED
  BY <1>1, <1>2, <1>4, <1>5, <1>6

IsPath(f, head, next) ==
  f = [i \in 0 .. Cardinality(DOMAIN next) |->
         IF i = 0 THEN head ELSE Follow(next, f[i - 1])]

(* A walk meets the blocks of the list one by one and stays at its end.     *)
LEMMA PathAlong ==
  ASSUME NEW D, NEW next, Links(D, next), NEW c, NEW k, NEW head, ListOf(c, k, head, next)
  PROVE  /\ DOMAIN Path(head, next) = 0 .. Cardinality(D)
         /\ \A i \in 0 .. Cardinality(D) :
              Path(head, next)[i] = IF i < k THEN c[i + 1] ELSE NULL
<1> DEFINE N == Cardinality(D)
           along == [i \in 0 .. N |-> IF i < k THEN c[i + 1] ELSE NULL]
<1>a. k \in Nat /\ N \in Nat /\ k <= N
  BY ListFits
<1>b. /\ DOMAIN next = D /\ NULL \notin D
      /\ c \in [1 .. k -> D]
      /\ head = IF k = 0 THEN NULL ELSE c[1]
      /\ \A i \in 1 .. k : next[c[i]] = IF i = k THEN NULL ELSE c[i + 1]
  BY DEF Links, ListOf
<1>0. /\ k \in Nat /\ N \in Nat /\ k <= N /\ DOMAIN next = D /\ NULL \notin D
      /\ c \in [1 .. k -> D]
      /\ head = IF k = 0 THEN NULL ELSE c[1]
      /\ \A i \in 1 .. k : next[c[i]] = IF i = k THEN NULL ELSE c[i + 1]
  BY <1>a, <1>b
<1>1. ASSUME NEW i \in 0 .. N
      PROVE  along[i] = IF i = 0 THEN head ELSE Follow(next, along[i - 1])
  <2>1. CASE i = 0
    BY <1>0, <2>1
  <2>2. CASE i # 0 /\ i - 1 < k
    <3>1. i - 1 \in 0 .. N /\ i \in 1 .. k /\ (i - 1) + 1 = i
      BY <1>0, <2>2
    <3>2. along[i - 1] = c[i] /\ c[i] # NULL
      BY <1>0, <2>2, <3>1
    <3>3. Follow(next, along[i - 1]) = IF i = k THEN NULL ELSE c[i + 1]
      BY <1>0, <3>1, <3>2 DEF Follow
    <3> QED
      BY <1>0, <2>2, <3>1, <3>3
  <2>3. CASE i # 0 /\ ~(i - 1 < k)
    <3>1. i - 1 \in 0 .. N /\ along[i - 1] = NULL /\ along[i] = NULL
      BY <1>0, <2>3
    <3> QED
      BY <2>3, <3>1 DEF Follow
  <2> QED
    BY <2>1, <2>2, <2>3
<1> DEFINE P == Path(head, next)
<1>2. IsPath(along, head, next)
  BY <1>0, <1>1 DEF IsPath
<1> HIDE DEF along
<1>3. P = CHOOSE f : IsPath(f, head, next)
  BY Zenon DEF Path, IsPath
<1>4. IsPath(P, head, next)
  BY <1>2, <1>3, Zenon
<1> HIDE DEF P
<1>5. /\ DOMAIN P = 0 .. N
      /\ \A i \in 0 .. N : P[i] = IF i = 0 THEN head ELSE Follow(next, P[i - 1])
  BY <1>0, <1>4 DEF IsPath
<1>6. \A i \in 0 .. N : P[i] = along[i]
  <2> DEFINE T == {j \in 0 .. N : P[j] # along[j]}
  <2>1. SUFFICES ASSUME T # {} PROVE FALSE
    OBVIOUS
  <2>2. T \subseteq Nat
    BY <1>0
  <2>3. PICK j \in T : \A i \in T : j <= i
    BY <2>1, <2>2, LeastNat
  <2>4. 0 \in 0 .. N /\ P[0] = head /\ along[0] = head
    BY <1>0, <1>1, <1>5
  <2>5. j - 1 \in 0 .. N /\ j # 0
    BY <2>3, <2>4, <1>0
  <2>6. P[j - 1] = along[j - 1]
    BY <2>3, <2>5
  <2>7. P[j] = Follow(next, P[j - 1]) /\ along[j] = Follow(next, along[j - 1])
    BY <1>1, <1>5, <2>3, <2>5
  <2> QED
    BY <2>3, <2>6, <2>7
<1> QED
  BY <1>5, <1>6 DEF along, P

(* What list_length, list_tail and the searches find.                       *)
LEMMA ListFacts ==
  ASSUME NEW D, NEW next, Links(D, next), NEW c, NEW k, NEW head, ListOf(c, k, head, next)
  PROVE  /\ Met(head, next) = Elems(c, k) \cup {NULL}
         /\ Ends(head, next) /\ Length(head, next) = k
         /\ Elems(c, k) \subseteq D
         /\ \A i \in 1 .. k : Path(head, next)[i - 1] = c[i]
         /\ k > 0 => Last(head, next) = c[k]
         /\ \A i \in 2 .. k : Before(head, next, c[i]) = c[i - 1]
<1> DEFINE N == Cardinality(D)
           P == Path(head, next)
<1>a. k \in Nat /\ N \in Nat /\ k <= N /\ Cardinality(Elems(c, k)) = k
  BY ListFits
<1>b. /\ DOMAIN next = D /\ NULL \notin D
      /\ c \in [1 .. k -> D]
      /\ \A i, j \in 1 .. k : c[i] = c[j] => i = j
      /\ \A i \in 1 .. k : next[c[i]] = IF i = k THEN NULL ELSE c[i + 1]
  BY DEF Links, ListOf
<1>0. /\ k \in Nat /\ N \in Nat /\ k <= N /\ DOMAIN next = D /\ NULL \notin D
      /\ Cardinality(Elems(c, k)) = k
      /\ c \in [1 .. k -> D]
      /\ \A i, j \in 1 .. k : c[i] = c[j] => i = j
      /\ \A i \in 1 .. k : next[c[i]] = IF i = k THEN NULL ELSE c[i + 1]
  BY <1>a, <1>b
<1>1. DOMAIN P = 0 .. N /\ \A i \in 0 .. N : P[i] = IF i < k THEN c[i + 1] ELSE NULL
  BY PathAlong
<1>2. Met(head, next) = {P[i] : i \in 0 .. N}
  BY <1>0 DEF Met
<1> HIDE DEF P
<1>3. \A i \in 1 .. k : P[i - 1] = c[i]
  BY <1>0, <1>1
<1>4. P[N] = NULL /\ N \in 0 .. N
  BY <1>0, <1>1
<1>5. {P[i] : i \in 0 .. N} = Elems(c, k) \cup {NULL}
  <2>1. ASSUME NEW i \in 0 .. N PROVE P[i] \in Elems(c, k) \cup {NULL}
    BY <1>0, <1>1 DEF Elems
  <2>2. ASSUME NEW i \in 1 .. k PROVE c[i] \in {P[j] : j \in 0 .. N}
    <3>1. i - 1 \in 0 .. N
      BY <1>0
    <3> QED
      BY <1>3, <3>1
  <2> QED
    BY <1>4, <2>1, <2>2 DEF Elems
<1>6. Met(head, next) = Elems(c, k) \cup {NULL}
  BY <1>2, <1>5
<1>7. Elems(c, k) \subseteq D /\ Met(head, next) \ {NULL} = Elems(c, k)
  BY <1>0, <1>6 DEF Elems
<1>8. Ends(head, next) /\ Length(head, next) = k
  BY <1>0, <1>6, <1>7 DEF Ends, Length
<1>9. ASSUME k > 0 PROVE Last(head, next) = c[k]
  <2>1. c[k] \in Met(head, next) /\ c[k] # NULL /\ next[c[k]] = NULL
    BY <1>0, <1>6, <1>9 DEF Elems
  <2>2. ASSUME NEW b \in Met(head, next), b # NULL, next[b] = NULL PROVE b = c[k]
    <3>1. PICK i \in 1 .. k : b = c[i]
      BY <1>6, <2>2 DEF Elems
    <3>2. i # k => i + 1 \in 1 .. k
      BY <1>0
    <3> QED
      BY <1>0, <2>2, <3>1, <3>2
  <2> QED
    BY <2>1, <2>2 DEF Last
<1>10. ASSUME NEW i \in 2 .. k PROVE Before(head, next, c[i]) = c[i - 1]
  <2> DEFINE First(j) == P[j] = c[i] /\ \A h \in 0 .. j - 1 : P[h] # c[i]
  <2>1. /\ i - 1 \in 0 .. N /\ i \in 1 .. k /\ i - 1 \in 1 .. k /\ i - 2 \in 0 .. N
        /\ (i - 1) - 1 = i - 2
    BY <1>0
  <2>2. ASSUME NEW j \in 0 .. N, P[j] = c[i] PROVE j = i - 1
    <3>1. j < k /\ c[j + 1] = c[i]
      BY <1>0, <1>1, <2>1, <2>2
    <3>2. j + 1 \in 1 .. k
      BY <1>0, <3>1
    <3>3. j + 1 = i
      BY <1>0, <2>1, <3>1, <3>2
    <3> QED
      BY <1>0, <3>3
  <2>3. First(i - 1)
    <3>1. P[i - 1] = c[i]
      BY <1>3, <2>1
    <3>2. ASSUME NEW h \in 0 .. (i - 1) - 1 PROVE P[h] # c[i]
      <4>1. h \in 0 .. N /\ h # i - 1
        BY <1>0, <2>1
      <4> QED
        BY <2>2, <4>1
    <3> QED
      BY <3>1, <3>2
  <2>4. (CHOOSE j \in DOMAIN P : First(j)) = i - 1
    BY <1>1, <2>1, <2>2, <2>3
  <2>5. Before(head, next, c[i]) = P[(i - 1) - 1]
    BY <2>4 DEF Before, P
  <2> QED
    BY <1>3, <2>1, <2>5
<1> QED
  BY <1>3, <1>6, <1>7, <1>8, <1>9, <1>10 DEF P

(* Lists after a change of links.                                           *)
LEMMA ListKept ==
  ASSUME NEW c, NEW k, NEW head, NEW next, ListOf(c, k, head, next),
         NEW new, DOMAIN new = DOMAIN next, \A b \in Elems(c, k) : new[b] = next[b]
  PROVE  ListOf(c, k, head, new)
BY DEF ListOf, Elems

LEMMA ListSuffix ==
  ASSUME NEW c, NEW k, NEW head, NEW next, ListOf(c, k, head, next), NEW j \in 1 .. k
  PROVE  \E d, h : /\ ListOf(d, h, c[j], next) /\ h \in 1 .. k /\ d[h] = c[k]
                   /\ Elems(d, h) \subseteq Elems(c, k)
<1> DEFINE h == k - j + 1
           d == [i \in 1 .. h |-> c[i + j - 1]]
<1>0. /\ k \in Nat /\ c \in [1 .. k -> DOMAIN next]
      /\ \A i, m \in 1 .. k : c[i] = c[m] => i = m
      /\ \A i \in 1 .. k : next[c[i]] = IF i = k THEN NULL ELSE c[i + 1]
  BY DEF ListOf
<1>1. h \in 1 .. k /\ \A i \in 1 .. h : i + j - 1 \in 1 .. k
  BY <1>0
<1>2. d \in [1 .. h -> DOMAIN next] /\ d[1] = c[j] /\ d[h] = c[k]
  BY <1>0, <1>1
<1>3. \A i, m \in 1 .. h : d[i] = d[m] => i = m
  BY <1>0, <1>1
<1>4. ASSUME NEW i \in 1 .. h PROVE next[d[i]] = IF i = h THEN NULL ELSE d[i + 1]
  <2>1. next[c[i + j - 1]] = IF i + j - 1 = k THEN NULL ELSE c[(i + j - 1) + 1]
    BY <1>0, <1>1
  <2>2. i # h => i + 1 \in 1 .. h /\ d[i + 1] = c[(i + j - 1) + 1] /\ i + j - 1 # k
    BY <1>0, <1>1
  <2>3. i = h => i + j - 1 = k
    BY <1>0
  <2> QED
    BY <2>1, <2>2, <2>3
<1>5. Elems(d, h) \subseteq Elems(c, k)
  BY <1>1 DEF Elems
<1> HIDE DEF h, d
<1>6. ListOf(d, h, c[j], next)
  BY <1>0, <1>1, <1>2, <1>3, <1>4 DEF ListOf
<1> QED
  BY <1>1, <1>2, <1>5, <1>6

Cons(b, c, k) == [i \in 1 .. k + 1 |-> IF i = 1 THEN b ELSE c[i - 1]]

LEMMA ListCons ==
  ASSUME NEW c, NEW k, NEW head, NEW next, ListOf(c, k, head, next),
         NEW b \in DOMAIN next, b \notin Elems(c, k), next[b] = head
  PROVE  /\ ListOf(Cons(b, c, k), k + 1, b, next)
         /\ Elems(Cons(b, c, k), k + 1) = Elems(c, k) \cup {b}
<1> DEFINE d == Cons(b, c, k)
<1>0. /\ k \in Nat /\ c \in [1 .. k -> DOMAIN next]
      /\ \A i, m \in 1 .. k : c[i] = c[m] => i = m
      /\ head = IF k = 0 THEN NULL ELSE c[1]
      /\ \A i \in 1 .. k : next[c[i]] = IF i = k THEN NULL ELSE c[i + 1]
      /\ \A i \in 1 .. k : c[i] # b
  BY DEF ListOf, Elems
<1>1. /\ d \in [1 .. k + 1 -> DOMAIN next] /\ d[1] = b
      /\ \A i \in 1 .. k : d[i + 1] = c[i]
      /\ \A i \in 1 .. k + 1 : i # 1 => i - 1 \in 1 .. k /\ d[i] = c[i - 1]
  BY <1>0 DEF Cons
<1> HIDE DEF d
<1>2. \A i, m \in 1 .. k + 1 : d[i] = d[m] => i = m
  BY <1>0, <1>1
<1>3. ASSUME NEW i \in 1 .. k + 1 PROVE next[d[i]] = IF i = k + 1 THEN NULL ELSE d[i + 1]
  <2>1. CASE i = 1
    BY <1>0, <1>1, <2>1
  <2>2. CASE i # 1
    <3>1. i - 1 \in 1 .. k /\ d[i] = c[i - 1] /\ (i - 1) + 1 = i
      BY <1>1, <2>2
    <3>2. next[d[i]] = IF i - 1 = k THEN NULL ELSE c[i]
      BY <1>0, <3>1
    <3>3. i # k + 1 => i \in 1 .. k /\ d[i + 1] = c[i]
      BY <1>0, <1>1
    <3> QED
      BY <1>0, <3>2, <3>3
  <2> QED
    BY <2>1, <2>2
<1>4. Elems(d, k + 1) = Elems(c, k) \cup {b}
  <2>1. ASSUME NEW i \in 1 .. k + 1 PROVE d[i] \in Elems(c, k) \cup {b}
    BY <1>1 DEF Elems
  <2>2. ASSUME NEW i \in 1 .. k PROVE c[i] \in Elems(d, k + 1)
    <3>1. i + 1 \in 1 .. k + 1
      BY <1>0
    <3> QED
      BY <1>1, <3>1 DEF Elems
  <2>3. b \in Elems(d, k + 1)
    BY <1>0, <1>1 DEF Elems
  <2> QED
    BY <2>1, <2>2, <2>3 DEF Elems
<1>5. ListOf(d, k + 1, b, next)
  BY <1>0, <1>1, <1>2, <1>3 DEF ListOf
<1> QED
  BY <1>4, <1>5 DEF d

(* The list without its last block, however that block is linked.           *)
ButLast(c, k) == [i \in 1 .. k - 1 |-> c[i]]

LEMMA ListButLast ==
  ASSUME NEW c, NEW k, NEW head, NEW next, ListOf(c, k, head, next), k # 0,
         NEW new, DOMAIN new = DOMAIN next, k > 1 => new[c[k - 1]] = NULL,
         \A i \in 1 .. k - 2 : new[c[i]] = next[c[i]]
  PROVE  /\ ListOf(ButLast(c, k), k - 1, IF k = 1 THEN NULL ELSE head, new)
         /\ Elems(ButLast(c, k), k - 1) = Elems(c, k) \ {c[k]}
<1> DEFINE d == ButLast(c, k)
<1>0. /\ k \in Nat \ {0} /\ c \in [1 .. k -> DOMAIN next]
      /\ \A i, m \in 1 .. k : c[i] = c[m] => i = m
      /\ head = IF k = 0 THEN NULL ELSE c[1]
      /\ \A i \in 1 .. k : next[c[i]] = IF i = k THEN NULL ELSE c[i + 1]
  BY DEF ListOf
<1>1. \A i \in 1 .. k - 1 : i \in 1 .. k /\ i # k /\ d[i] = c[i]
  BY <1>0 DEF ButLast
<1>2. d \in [1 .. k - 1 -> DOMAIN new]
  BY <1>0, <1>1 DEF ButLast
<1>3. ASSUME NEW i \in 1 .. k - 1 PROVE new[d[i]] = IF i = k - 1 THEN NULL ELSE d[i + 1]
  <2>1. CASE i = k - 1
    BY <1>0, <1>1, <2>1
  <2>2. CASE i # k - 1
    <3>1. i \in 1 .. k - 2 /\ i + 1 \in 1 .. k - 1
      BY <1>0, <2>2
    <3> QED
      BY <1>0, <1>1, <2>2, <3>1
  <2> QED
    BY <2>1, <2>2
<1>4. (IF k = 1 THEN NULL ELSE head) = IF k - 1 = 0 THEN NULL ELSE d[1]
  <2>1. k # 1 => 1 \in 1 .. k - 1
    BY <1>0
  <2> QED
    BY <1>0, <1>1, <2>1
<1>5. Elems(d, k - 1) = Elems(c, k) \ {c[k]}
  <2>1. ASSUME NEW i \in 1 .. k, c[i] # c[k] PROVE c[i] \in Elems(d, k - 1)
    <3>1. i \in 1 .. k - 1
      BY <1>0, <2>1
    <3>2. d[i] = c[i]
      BY <1>1, <3>1
    <3> QED
      BY <3>1, <3>2 DEF Elems
  <2>2. ASSUME NEW i \in 1 .. k - 1 PROVE d[i] \in Elems(c, k) \ {c[k]}
    <3>1. i \in 1 .. k /\ i # k /\ d[i] = c[i] /\ k \in 1 .. k
      BY <1>0, <1>1
    <3> QED
      BY <1>0, <3>1 DEF Elems
  <2> QED
    BY <2>1, <2>2 DEF Elems
<1> HIDE DEF d
<1>6. ListOf(d, k - 1, IF k = 1 THEN NULL ELSE head, new)
  BY <1>0, <1>1, <1>2, <1>3, <1>4 DEF ListOf
<1> QED
  BY <1>5, <1>6 DEF d

----------------------------------------------------------------------------
(* The operations of list.c *)

LEMMA RemovedAbsent ==
  ASSUME NEW D, NEW next, Links(D, next), NEW c, NEW k, NEW head, ListOf(c, k, head, next),
         NEW b \in D, b \notin Elems(c, k)
  PROVE  Removed(head, next, b) = [head |-> head, next |-> next]
<1>1. b # NULL
  BY DEF Links
<1>2. Met(head, next) = Elems(c, k) \cup {NULL}
  BY ListFacts
<1>3. head # b
  BY <1>1 DEF ListOf, Elems
<1> QED
  BY <1>1, <1>2, <1>3 DEF Removed, On

(* the links without b, which follows a                                    *)
Unlinked(next, a, b) == [next EXCEPT ![a] = next[b], ![b] = NULL]

LEMMA RemovedInside ==
  ASSUME NEW D, NEW next, Links(D, next), NEW c, NEW k, NEW head, ListOf(c, k, head, next),
         NEW i \in 2 .. k
  PROVE  Removed(head, next, c[i]) =
           [head |-> head, next |-> Unlinked(next, c[i - 1], c[i])]
<1>1. Met(head, next) = Elems(c, k) \cup {NULL} /\ Before(head, next, c[i]) = c[i - 1]
  BY ListFacts
<1>2. i \in 1 .. k /\ head = c[1] /\ c[i] # c[1]
  BY DEF ListOf
<1>3. c[i] \in Met(head, next)
  BY <1>1, <1>2 DEF Elems
<1> QED
  BY <1>1, <1>2, <1>3 DEF Removed, On, Unlinked

(* the links with b, the new last block, after a                            *)
Linked(next, a, b) == [next EXCEPT ![b] = NULL, ![a] = b]

LEMMA AddedAtEnd ==
  ASSUME NEW D, NEW next, Links(D, next), NEW c, NEW k, NEW head, ListOf(c, k, head, next),
         NEW b \in D, b \notin Elems(c, k)
  PROVE  Added(head, next, b) =
           IF k = 0 THEN [head |-> b, next |-> [next EXCEPT ![b] = NULL]]
           ELSE [head |-> head, next |-> Linked(next, c[k], b)]
<1> DEFINE cut == [next EXCEPT ![b] = NULL]
<1>1. Removed(head, next, b) = [head |-> head, next |-> next]
  BY RemovedAbsent
<1>2. Links(D, cut) /\ DOMAIN cut = DOMAIN next /\ \A e \in Elems(c, k) : cut[e] = next[e]
  BY DEF Links
<1>3. k \in Nat /\ (head = NULL <=> k = 0)
  BY DEF Links, ListOf
<1>4. Added(head, next, b) =
        IF head = NULL THEN [head |-> b, next |-> cut]
        ELSE [head |-> head, next |-> [cut EXCEPT ![Last(head, cut)] = b]]
  BY <1>1 DEF Added
<1> HIDE DEF cut
<1>5. ListOf(c, k, head, cut)
  BY <1>2, ListKept
<1>6. k > 0 => Last(head, cut) = c[k]
  BY <1>2, <1>5, ListFacts
<1>7. CASE k = 0
  BY <1>3, <1>4, <1>7 DEF cut
<1>8. CASE k # 0
  <2>1. head # NULL /\ Last(head, cut) = c[k]
    BY <1>3, <1>6, <1>8
  <2>2. Added(head, next, b) = [head |-> head, next |-> [cut EXCEPT ![c[k]] = b]]
    BY <1>4, <2>1
  <2>3. [cut EXCEPT ![c[k]] = b] = Linked(next, c[k], b)
    BY DEF cut, Linked
  <2> QED
    BY <1>8, <2>2, <2>3
<1> QED
  BY <1>7, <1>8

LEMMA PushedOnTop ==
  ASSUME NEW D, NEW next, Links(D, next), NEW c, NEW k, NEW head, ListOf(c, k, head, next),
         NEW b \in D, b \notin Elems(c, k)
  PROVE  Pushed(head, next, b) = [head |-> b, next |-> [next EXCEPT ![b] = head]]
BY RemovedAbsent DEF Pushed

LEMMA ChoppedAtEnd ==
  ASSUME NEW D, NEW next, Links(D, next), NEW c, NEW k, NEW head, ListOf(c, k, head, next),
         k # 0
  PROVE  Chopped(head, next) =
           IF k = 1 THEN [head |-> NULL, next |-> next]
           ELSE [head |-> head, next |-> [next EXCEPT ![c[k - 1]] = NULL]]
<1>1. k \in Nat \ {0} /\ 1 \in 1 .. k /\ head = c[1] /\ c \in [1 .. k -> D]
      /\ next[c[1]] = (IF 1 = k THEN NULL ELSE c[2])
  BY DEF ListOf, Links
<1>2. next[head] = NULL <=> k = 1
  BY <1>1 DEF Links
<1>3. Last(head, next) = c[k]
  BY <1>1, ListFacts
<1>4. k # 1 => k \in 2 .. k
  BY <1>1
<1>5. k # 1 => Before(head, next, c[k]) = c[k - 1]
  BY <1>4, ListFacts
<1> QED
  BY <1>2, <1>3, <1>5 DEF Chopped

----------------------------------------------------------------------------
(* The two lists of entries, which share their links *)

(* the entries given away: those of the stack, and the one in sendQe        *)
Held(qe, c, k) == Elems(c, k) \cup ({qe} \ {NULL})

(* The stack consists of the blocks c; the list q_entry_pool starts at one  *)
(* of them and goes on with the stack, or starts at sendQe.                 *)
TwoLists(pool, stack, next, qe, c, k) ==
  /\ next \in [EntryBlock -> EntryBlock \cup {NULL}]
  /\ ListOf(c, k, stack, next)
  /\ qe \in EntryBlock \cup {NULL} /\ qe \notin Elems(c, k)
  /\ pool \in Held(qe, c, k) \cup {NULL}
  /\ pool = qe /\ qe # NULL => next[qe] \in Elems(c, k) \cup {NULL}

LEMMA EntryLinks ==
  ASSUME NEW next \in [EntryBlock -> EntryBlock \cup {NULL}]
  PROVE  Links(EntryBlock, next)
<1>1. Q_ENTRY_POOL_SIZE - 1 \in Int
  BY ForwardingMemAssumption
<1>2. IsFiniteSet(EntryBlock)
  BY <1>1, FS_Interval DEF EntryBlock
<1> QED
  BY <1>2 DEF Links, EntryBlock, NULL

LEMMA EmptyList ==
  ASSUME NEW next, NEW c \in [1 .. 0 -> DOMAIN next]
  PROVE  ListOf(c, 0, NULL, next) /\ Elems(c, 0) = {}
BY DEF ListOf, Elems

(* The list q_entry_pool as a list of its own.                              *)
LEMMA PoolIsList ==
  ASSUME NEW pool, NEW stack, NEW next, NEW qe, NEW c, NEW k,
         TwoLists(pool, stack, next, qe, c, k)
  PROVE  \E p, n : /\ ListOf(p, n, pool, next) /\ Elems(p, n) \subseteq Held(qe, c, k)
                   /\ pool # qe => qe \notin Elems(p, n)
                   /\ n # 0 => \/ k # 0 /\ p[n] = c[k]
                               \/ p[n] = qe /\ pool = qe
<1>0. /\ ListOf(c, k, stack, next) /\ DOMAIN next = EntryBlock
      /\ qe \in EntryBlock \cup {NULL} /\ qe \notin Elems(c, k)
      /\ pool \in Elems(c, k) \cup {qe, NULL} /\ k \in Nat
      /\ pool = qe /\ qe # NULL => next[qe] \in Elems(c, k) \cup {NULL}
      /\ NULL \notin EntryBlock /\ Elems(c, k) \subseteq EntryBlock
      /\ Elems(c, k) \subseteq Held(qe, c, k) /\ (qe # NULL => qe \in Held(qe, c, k))
  BY EntryLinks DEF TwoLists, Held, Links, ListOf, Elems
<1> DEFINE none == [i \in 1 .. 0 |-> 0]
<1>n. none \in [1 .. 0 -> DOMAIN next]
  OBVIOUS
<1>1. ListOf(none, 0, NULL, next) /\ Elems(none, 0) = {}
  BY <1>n, EmptyList
<1>2. ASSUME NEW j \in 1 .. k
      PROVE  \E d, h : /\ ListOf(d, h, c[j], next) /\ h \in 1 .. k /\ d[h] = c[k]
                       /\ Elems(d, h) \subseteq Elems(c, k)
  BY <1>0, ListSuffix
<1> HIDE DEF none
<1>3. CASE pool = NULL
  <2>1. ListOf(none, 0, pool, next)
    BY <1>1, <1>3
  <2> QED
    BY <1>1, <2>1
<1>4. CASE pool \in Elems(c, k)
  <2>1. PICK j \in 1 .. k : pool = c[j]
    BY <1>4 DEF Elems
  <2>2. PICK d, h : /\ ListOf(d, h, pool, next) /\ h \in 1 .. k /\ d[h] = c[k]
                    /\ Elems(d, h) \subseteq Elems(c, k)
    BY <1>2, <2>1
  <2>3. k # 0
    BY <1>0, <2>1
  <2> QED
    BY <1>0, <2>2, <2>3
<1>5. CASE pool = qe /\ qe # NULL /\ next[qe] = NULL
  <2>1. ListOf(none, 0, next[qe], next) /\ qe \in DOMAIN next /\ qe \notin Elems(none, 0)
    BY <1>0, <1>1, <1>5
  <2>2. /\ ListOf(Cons(qe, none, 0), 0 + 1, qe, next)
        /\ Elems(Cons(qe, none, 0), 0 + 1) = Elems(none, 0) \cup {qe}
    BY <2>1, ListCons
  <2>3. Cons(qe, none, 0)[0 + 1] = qe
    BY DEF Cons
  <2> QED
    BY <1>0, <1>1, <1>5, <2>2, <2>3
<1>6. CASE pool = qe /\ qe # NULL /\ next[qe] \in Elems(c, k)
  <2>1. PICK j \in 1 .. k : next[qe] = c[j]
    BY <1>6 DEF Elems
  <2>2. PICK d, h : /\ ListOf(d, h, next[qe], next) /\ h \in 1 .. k /\ d[h] = c[k]
                    /\ Elems(d, h) \subseteq Elems(c, k)
    BY <1>2, <2>1
  <2>3. qe \in DOMAIN next /\ qe \notin Elems(d, h)
    BY <1>0, <1>6, <2>2
  <2>4. /\ ListOf(Cons(qe, d, h), h + 1, qe, next)
        /\ Elems(Cons(qe, d, h), h + 1) = Elems(d, h) \cup {qe}
    BY <2>2, <2>3, ListCons
  <2>5. Cons(qe, d, h)[h + 1] = d[h] /\ k # 0
    BY <1>0, <2>2 DEF Cons
  <2> QED
    BY <1>0, <1>6, <2>2, <2>4, <2>5
<1> QED
  BY <1>0, <1>3, <1>4, <1>5, <1>6

(* conditionalFQDiscard: the oldest entry leaves both lists, even when      *)
(* sendQe on q_entry_pool was the one linked to it.                         *)
LEMMA OldestLeaves ==
  ASSUME NEW pool, NEW stack, NEW next, NEW qe, NEW c, NEW k,
         TwoLists(pool, stack, next, qe, c, k), k # 0,
         NEW chopped, chopped = Chopped(stack, next),
         NEW rest, rest = Removed(pool, chopped.next, c[k])
  PROVE  /\ TwoLists(rest.head, chopped.head, rest.next, qe, ButLast(c, k), k - 1)
         /\ Elems(ButLast(c, k), k - 1) = Elems(c, k) \ {c[k]}
<1> DEFINE o == c[k]
           m == k - 1
           d == ButLast(c, k)
           cut == chopped.next
<1>1. /\ ListOf(c, k, stack, next) /\ Links(EntryBlock, next) /\ DOMAIN next = EntryBlock
      /\ next \in [EntryBlock -> EntryBlock \cup {NULL}]
      /\ qe \in EntryBlock \cup {NULL} /\ qe \notin Elems(c, k)
      /\ pool \in Elems(c, k) \cup {qe, NULL} /\ NULL \notin EntryBlock
      /\ pool = qe /\ qe # NULL => next[qe] \in Elems(c, k) \cup {NULL}
  BY EntryLinks DEF TwoLists, Held, EntryBlock, NULL
<1>2. /\ k \in Nat \ {0} /\ c \in [1 .. k -> EntryBlock]
      /\ \A i, j \in 1 .. k : c[i] = c[j] => i = j
      /\ next[o] = NULL /\ o \in EntryBlock /\ o \in Elems(c, k) /\ stack = c[1]
      /\ Elems(c, k) \subseteq EntryBlock
  BY <1>1 DEF ListOf, Elems
<1>3. chopped = IF k = 1 THEN [head |-> NULL, next |-> next]
                ELSE [head |-> stack, next |-> [next EXCEPT ![c[k - 1]] = NULL]]
  BY <1>1, ChoppedAtEnd
<1>4. /\ cut \in [EntryBlock -> EntryBlock \cup {NULL}] /\ DOMAIN cut = DOMAIN next
      /\ chopped.head = IF k = 1 THEN NULL ELSE stack
      /\ k > 1 => cut[c[k - 1]] = NULL
      /\ \A i \in 1 .. k : i # k - 1 => cut[c[i]] = next[c[i]]
      /\ \A b \in EntryBlock : b \notin Elems(c, k) => cut[b] = next[b]
  <2>1. CASE k = 1
    BY <1>1, <1>3, <2>1
  <2>2. CASE k # 1
    <3>1. k - 1 \in 1 .. k /\ c[k - 1] \in EntryBlock /\ c[k - 1] \in Elems(c, k)
      BY <1>2, <2>2 DEF Elems
    <3>2. cut = [next EXCEPT ![c[k - 1]] = NULL] /\ chopped.head = stack
      BY <1>3, <2>2
    <3> QED
      BY <1>1, <1>2, <2>2, <3>1, <3>2
  <2> QED
    BY <2>1, <2>2
<1>5. cut[o] = NULL
  BY <1>2, <1>4
<1>6. ListOf(d, m, chopped.head, cut) /\ Elems(d, m) = Elems(c, k) \ {o}
  <2>1. \A i \in 1 .. k - 2 : cut[c[i]] = next[c[i]]
    BY <1>2, <1>4
  <2> QED
    BY <1>1, <1>2, <1>4, <2>1, ListButLast
<1> HIDE DEF cut, o, m, d
<1> SUFFICES TwoLists(rest.head, chopped.head, rest.next, qe, d, m)
  BY <1>6 DEF o, m, d
<1>7. ASSUME rest.next = cut, rest.head \in Elems(d, m) \cup {qe, NULL},
             rest.head = qe /\ qe # NULL => cut[qe] \in Elems(d, m) \cup {NULL}
      PROVE  TwoLists(rest.head, chopped.head, rest.next, qe, d, m)
  BY <1>1, <1>4, <1>6, <1>7 DEF TwoLists, Held
<1>8. rest = Removed(pool, cut, o)
  BY DEF cut, o
<1>9. CASE pool = o
  <2>1. rest = [head |-> NULL, next |-> [cut EXCEPT ![o] = NULL]]
    BY <1>5, <1>8, <1>9 DEF Removed
  <2>2. [cut EXCEPT ![o] = NULL] = cut
    BY <1>4, <1>5
  <2>3. rest.next = cut /\ rest.head = NULL
    BY <2>1, <2>2
  <2>4. qe # o
    BY <1>1, <1>2
  <2> QED
    BY <1>6, <1>7, <2>3
<1>10. CASE pool # o /\ pool = qe /\ qe # NULL /\ next[qe] = o
  <2> DEFINE one == [i \in 1 .. 1 |-> o]
  <2>1. cut[qe] = o /\ qe \in EntryBlock /\ qe # o
    BY <1>1, <1>2, <1>4, <1>10
  <2>2. ListOf(one, 1, cut[qe], cut) /\ Elems(one, 1) = {o}
    BY <1>1, <1>2, <1>4, <1>5, <2>1 DEF ListOf, Elems
  <2> HIDE DEF one
  <2> DEFINE two == Cons(qe, one, 1)
  <2>3. ListOf(two, 1 + 1, qe, cut)
    BY <1>1, <1>4, <2>1, <2>2, ListCons
  <2>4. two[2] = o /\ two[2 - 1] = qe /\ 2 \in 2 .. 1 + 1
    BY DEF Cons, one
  <2> HIDE DEF two
  <2>5. Links(EntryBlock, cut)
    BY <1>4, EntryLinks
  <2>r. Removed(qe, cut, two[2]) =
          [head |-> qe, next |-> Unlinked(cut, two[2 - 1], two[2])]
    <3> DEFINE last == 1 + 1
    <3>1. ListOf(two, last, qe, cut) /\ last = 2
      BY <2>3
    <3>2. last \in 2 .. last
      OBVIOUS
    <3> HIDE DEF last
    <3>3. Removed(qe, cut, two[last]) =
            [head |-> qe, next |-> Unlinked(cut, two[last - 1], two[last])]
      BY <2>5, <3>1, <3>2, RemovedInside
    <3> QED
      BY <3>1, <3>3
  <2>6. rest = [head |-> qe, next |-> [cut EXCEPT ![qe] = cut[o], ![o] = NULL]]
    BY <1>8, <1>10, <2>4, <2>r DEF Unlinked
  <2>7. /\ rest.head = qe /\ rest.next \in [EntryBlock -> EntryBlock \cup {NULL}]
        /\ rest.next[qe] = NULL /\ DOMAIN rest.next = DOMAIN cut
        /\ \A b \in EntryBlock : b # qe /\ b # o => rest.next[b] = cut[b]
    BY <1>2, <1>4, <1>5, <2>1, <2>6
  <2>8. \A b \in Elems(d, m) : rest.next[b] = cut[b]
    BY <1>1, <1>2, <1>6, <2>7
  <2>9. ListOf(d, m, chopped.head, rest.next)
    BY <1>6, <2>7, <2>8, ListKept
  <2> QED
    BY <1>1, <1>6, <1>10, <2>7, <2>9 DEF TwoLists, Held
<1>11. CASE pool # o /\ ~(pool = qe /\ qe # NULL /\ next[qe] = o)
  <2>1. /\ pool \in Elems(d, m) \cup {qe, NULL}
        /\ pool = qe /\ qe # NULL => cut[qe] \in Elems(d, m) \cup {NULL}
    BY <1>1, <1>4, <1>6, <1>11
  <2>2. TwoLists(pool, chopped.head, cut, qe, d, m)
    BY <1>1, <1>4, <1>6, <2>1 DEF TwoLists, Held
  <2>3. PICK p, n : ListOf(p, n, pool, cut) /\ Elems(p, n) \subseteq Held(qe, d, m)
    BY <2>2, PoolIsList
  <2>4. o \notin Elems(p, n)
    BY <1>1, <1>2, <1>6, <2>3 DEF Held
  <2>5. Links(EntryBlock, cut)
    BY <1>4, EntryLinks
  <2>6. rest = [head |-> pool, next |-> cut]
    BY <1>2, <1>8, <2>3, <2>4, <2>5, RemovedAbsent
  <2>7. rest.head = pool /\ rest.next = cut
    BY <2>6
  <2> QED
    BY <1>7, <2>1, <2>7
<1> QED
  BY <1>9, <1>10, <1>11

(* A block after the last one.                                              *)
Snoc(c, k, b) == [i \in 1 .. k + 1 |-> IF i = k + 1 THEN b ELSE c[i]]

LEMMA ListSnoc ==
  ASSUME NEW c, NEW k, NEW head, NEW next, ListOf(c, k, head, next), k # 0,
         NEW b \in DOMAIN next, b \notin Elems(c, k),
         NEW new, DOMAIN new = DOMAIN next, new[c[k]] = b, new[b] = NULL,
         \A i \in 1 .. k - 1 : new[c[i]] = next[c[i]]
  PROVE  ListOf(Snoc(c, k, b), k + 1, head, new)
<1> DEFINE d == Snoc(c, k, b)
<1>0. /\ k \in Nat \ {0} /\ c \in [1 .. k -> DOMAIN next]
      /\ \A i, m \in 1 .. k : c[i] = c[m] => i = m
      /\ head = c[1]
      /\ \A i \in 1 .. k : next[c[i]] = IF i = k THEN NULL ELSE c[i + 1]
      /\ \A i \in 1 .. k : c[i] # b
  BY DEF ListOf, Elems
<1>1. /\ d \in [1 .. k + 1 -> DOMAIN new] /\ d[k + 1] = b /\ d[1] = c[1]
      /\ \A i \in 1 .. k : d[i] = c[i] /\ i \in 1 .. k + 1
      /\ \A i \in 1 .. k + 1 : i # k + 1 => i \in 1 .. k
  BY <1>0 DEF Snoc
<1> HIDE DEF d
<1>2. ASSUME NEW i \in 1 .. k + 1, NEW m \in 1 .. k + 1, d[i] = d[m] PROVE i = m
  <2>1. \A j \in 1 .. k + 1 : d[j] = b => j = k + 1
    BY <1>0, <1>1
  <2>2. CASE i = k + 1
    BY <1>1, <1>2, <2>1, <2>2
  <2>3. CASE m = k + 1
    BY <1>1, <1>2, <2>1, <2>3
  <2>4. CASE i # k + 1 /\ m # k + 1
    <3>1. i \in 1 .. k /\ m \in 1 .. k
      BY <1>1, <2>4
    <3>2. c[i] = c[m]
      BY <1>1, <1>2, <3>1
    <3> QED
      BY <1>0, <3>1, <3>2
  <2> QED
    BY <2>2, <2>3, <2>4
<1>3. ASSUME NEW i \in 1 .. k + 1 PROVE new[d[i]] = IF i = k + 1 THEN NULL ELSE d[i + 1]
  <2>1. CASE i = k + 1
    BY <1>1, <2>1
  <2>2. CASE i = k
    BY <1>0, <1>1, <2>2
  <2>3. CASE i \in 1 .. k - 1
    <3>1. i + 1 \in 1 .. k /\ i \in 1 .. k /\ i # k /\ i # k + 1
      BY <1>0, <2>3
    <3> QED
      BY <1>0, <1>1, <2>3, <3>1
  <2> QED
    BY <1>0, <2>1, <2>2, <2>3
<1>4. ListOf(d, k + 1, head, new)
  BY <1>0, <1>1, <1>2, <1>3 DEF ListOf
<1> QED
  BY <1>4 DEF d

(* The list without its first block.                                        *)
Rest(c, k) == [i \in 1 .. k - 1 |-> c[i + 1]]

LEMMA ListRest ==
  ASSUME NEW c, NEW k, NEW head, NEW next, ListOf(c, k, head, next), k # 0
  PROVE  /\ ListOf(Rest(c, k), k - 1, next[head], next)
         /\ Elems(Rest(c, k), k - 1) = Elems(c, k) \ {c[1]} /\ head = c[1]
<1> DEFINE d == Rest(c, k)
<1>0. /\ k \in Nat \ {0} /\ c \in [1 .. k -> DOMAIN next]
      /\ \A i, m \in 1 .. k : c[i] = c[m] => i = m
      /\ head = c[1] /\ 1 \in 1 .. k
      /\ \A i \in 1 .. k : next[c[i]] = IF i = k THEN NULL ELSE c[i + 1]
  BY DEF ListOf
<1>1. /\ d \in [1 .. k - 1 -> DOMAIN next]
      /\ \A i \in 1 .. k - 1 : i + 1 \in 1 .. k /\ d[i] = c[i + 1]
  BY <1>0 DEF Rest
<1> HIDE DEF d
<1>2. ASSUME NEW i \in 1 .. k - 1, NEW m \in 1 .. k - 1, d[i] = d[m] PROVE i = m
  BY <1>0, <1>1, <1>2
<1>3. ASSUME NEW i \in 1 .. k - 1 PROVE next[d[i]] = IF i = k - 1 THEN NULL ELSE d[i + 1]
  <2>1. next[d[i]] = IF i + 1 = k THEN NULL ELSE c[(i + 1) + 1]
    BY <1>0, <1>1
  <2>2. i + 1 # k => i + 1 \in 1 .. k - 1
    BY <1>0
  <2> QED
    BY <1>0, <1>1, <2>1, <2>2
<1>4. next[head] = IF k - 1 = 0 THEN NULL ELSE d[1]
  <2>1. k # 1 => 1 \in 1 .. k - 1
    BY <1>0
  <2> QED
    BY <1>0, <1>1, <2>1
<1>5. Elems(d, k - 1) = Elems(c, k) \ {c[1]}
  <2>1. ASSUME NEW i \in 1 .. k, c[i] # c[1] PROVE c[i] \in Elems(d, k - 1)
    <3>1. i - 1 \in 1 .. k - 1 /\ (i - 1) + 1 = i
      BY <1>0, <2>1
    <3>2. d[i - 1] = c[i]
      BY <1>1, <3>1
    <3> QED
      BY <3>1, <3>2 DEF Elems
  <2>2. ASSUME NEW i \in 1 .. k - 1 PROVE d[i] \in Elems(c, k) \ {c[1]}
    <3>1. i + 1 \in 1 .. k /\ d[i] = c[i + 1] /\ i + 1 # 1
      BY <1>0, <1>1
    <3>2. c[i + 1] # c[1]
      BY <1>0, <3>1
    <3> QED
      BY <3>1, <3>2 DEF Elems
  <2> QED
    BY <2>1, <2>2 DEF Elems
<1>6. ListOf(d, k - 1, next[head], next)
  BY <1>0, <1>1, <1>2, <1>3, <1>4 DEF ListOf
<1> QED
  BY <1>0, <1>5, <1>6 DEF d

(* Send and forward: the entry b goes to the end of q_entry_pool, and this  *)
(* makes it the last block of the stack too; list_push takes it away there. *)
LEMMA EntryArrives ==
  ASSUME NEW pool, NEW stack, NEW next, NEW qe, NEW c, NEW k,
         TwoLists(pool, stack, next, qe, c, k),
         NEW b \in EntryBlock, b \notin Held(qe, c, k),
         NEW added, added = Added(pool, next, b),
         NEW pushed, pushed = Pushed(stack, added.next, b)
  PROVE  /\ TwoLists(added.head, pushed.head, pushed.next, qe, Cons(b, c, k), k + 1)
         /\ Elems(Cons(b, c, k), k + 1) = Elems(c, k) \cup {b}
<1> DEFINE d == Cons(b, c, k)
           h == k + 1
           mid == added.next
<1>1. /\ ListOf(c, k, stack, next) /\ Links(EntryBlock, next) /\ DOMAIN next = EntryBlock
      /\ next \in [EntryBlock -> EntryBlock \cup {NULL}]
      /\ qe \in EntryBlock \cup {NULL} /\ qe \notin Elems(c, k)
      /\ pool \in Elems(c, k) \cup {qe, NULL} /\ NULL \notin EntryBlock
      /\ pool = qe /\ qe # NULL => next[qe] \in Elems(c, k) \cup {NULL}
      /\ b \notin Elems(c, k) /\ b # qe /\ b # NULL /\ b # pool
      /\ stack \in EntryBlock \cup {NULL}
  BY EntryLinks DEF TwoLists, Held, EntryBlock, NULL, ListOf
<1>2. /\ k \in Nat /\ c \in [1 .. k -> EntryBlock]
      /\ \A i, j \in 1 .. k : c[i] = c[j] => i = j
      /\ k # 0 => next[c[k]] = NULL /\ c[k] \in Elems(c, k) /\ c[k] \in EntryBlock
      /\ Elems(c, k) \subseteq EntryBlock
  BY <1>1 DEF ListOf, Elems
<1>3. PICK p, n : /\ ListOf(p, n, pool, next) /\ Elems(p, n) \subseteq Held(qe, c, k)
                  /\ n # 0 => \/ k # 0 /\ p[n] = c[k]
                              \/ p[n] = qe /\ pool = qe
  BY PoolIsList
<1>4. /\ n \in Nat /\ (n # 0 => p[n] \in EntryBlock) /\ (n = 0 => pool = NULL)
      /\ b \notin Elems(p, n)
  BY <1>1, <1>3 DEF ListOf
<1>5. added = IF n = 0 THEN [head |-> b, next |-> [next EXCEPT ![b] = NULL]]
              ELSE [head |-> pool, next |-> Linked(next, p[n], b)]
  BY <1>1, <1>3, <1>4, AddedAtEnd
(* what is left to show: the links at the end, and where the pool starts    *)
<1>6. ASSUME NEW new \in [EntryBlock -> EntryBlock \cup {NULL}], pushed.next = new,
             pushed.head = b, new[b] = stack,
             \A e \in Elems(c, k) : new[e] = next[e],
             \/ added.head = b
             \/ added.head = pool /\ (qe # NULL => new[qe] \in {next[qe], b})
      PROVE  TwoLists(added.head, pushed.head, pushed.next, qe, d, h)
  <2>1. ListOf(c, k, stack, new)
    BY <1>1, <1>6, ListKept
  <2>2. ListOf(d, h, b, new) /\ Elems(d, h) = Elems(c, k) \cup {b}
    BY <1>1, <1>6, <2>1, ListCons
  <2> HIDE DEF d, h
  <2>3. added.head \in Held(qe, d, h) \cup {NULL}
    BY <1>1, <1>6, <2>2 DEF Held
  <2>4. added.head = qe /\ qe # NULL => new[qe] \in Elems(d, h) \cup {NULL}
    BY <1>1, <1>6, <2>2
  <2> QED
    BY <1>1, <1>6, <2>2, <2>3, <2>4 DEF TwoLists
<1>7. Elems(d, h) = Elems(c, k) \cup {b}
  <2> DEFINE new == [next EXCEPT ![b] = stack]
  <2>1. /\ new[b] = stack /\ DOMAIN new = DOMAIN next
        /\ \A e \in Elems(c, k) : new[e] = next[e]
    BY <1>1
  <2> HIDE DEF new
  <2>2. ListOf(c, k, stack, new)
    BY <1>1, <2>1, ListKept
  <2> QED
    BY <1>1, <2>1, <2>2, ListCons
<1> HIDE DEF d, h, mid
<1> SUFFICES TwoLists(added.head, pushed.head, pushed.next, qe, d, h)
  BY <1>7 DEF d, h
<1>8. pushed = Pushed(stack, mid, b)
  BY DEF mid
<1>9. CASE n = 0 \/ p[n] \notin Elems(c, k)
  <2>1. /\ mid \in [EntryBlock -> EntryBlock \cup {NULL}] /\ DOMAIN mid = DOMAIN next
        /\ \A e \in Elems(c, k) : mid[e] = next[e]
        /\ \/ added.head = b
           \/ added.head = pool /\ (qe # NULL => mid[qe] \in {next[qe], b})
    <3>1. CASE n = 0
      BY <1>1, <1>2, <1>5, <3>1 DEF mid
    <3>2. CASE n # 0
      <4>1. mid = Linked(next, p[n], b) /\ added.head = pool
        BY <1>5, <3>2 DEF mid
      <4> QED
        BY <1>1, <1>2, <1>4, <1>9, <3>2, <4>1 DEF Linked
    <3> QED
      BY <3>1, <3>2
  <2>2. ListOf(c, k, stack, mid)
    BY <1>1, <2>1, ListKept
  <2>3. Links(EntryBlock, mid)
    BY <2>1, EntryLinks
  <2>4. pushed = [head |-> b, next |-> [mid EXCEPT ![b] = stack]]
    BY <1>1, <1>8, <2>2, <2>3, PushedOnTop
  <2> DEFINE new == [mid EXCEPT ![b] = stack]
  <2>5. /\ new \in [EntryBlock -> EntryBlock \cup {NULL}] /\ new[b] = stack
        /\ pushed.next = new /\ pushed.head = b
        /\ \A e \in Elems(c, k) : new[e] = next[e]
        /\ qe # NULL => new[qe] = mid[qe]
    BY <1>1, <1>2, <2>1, <2>4
  <2> HIDE DEF new
  <2> QED
    BY <1>6, <2>1, <2>5
<1>10. CASE n # 0 /\ p[n] \in Elems(c, k)
  <2>0. k # 0 /\ p[n] = c[k]
    BY <1>1, <1>3, <1>10
  <2>1. mid = Linked(next, c[k], b) /\ added.head = pool
    BY <1>5, <1>10, <2>0 DEF mid
  <2>2. /\ mid \in [EntryBlock -> EntryBlock \cup {NULL}] /\ DOMAIN mid = DOMAIN next
        /\ mid[c[k]] = b /\ mid[b] = NULL
        /\ \A e \in EntryBlock : e # c[k] /\ e # b => mid[e] = next[e]
    BY <1>1, <1>2, <2>0, <2>1 DEF Linked
  <2>3. \A i \in 1 .. k - 1 : mid[c[i]] = next[c[i]]
    <3>1. ASSUME NEW i \in 1 .. k - 1 PROVE mid[c[i]] = next[c[i]]
      <4>1. i \in 1 .. k /\ k \in 1 .. k /\ i # k
        BY <1>2, <2>0
      <4>2. c[i] # c[k] /\ c[i] # b /\ c[i] \in EntryBlock
        BY <1>1, <1>2, <4>1 DEF Elems
      <4> QED
        BY <2>2, <4>2
    <3> QED
      BY <3>1
  <2> DEFINE s == Snoc(c, k, b)
  <2>4. ListOf(s, h, stack, mid)
    BY <1>1, <2>0, <2>2, <2>3, ListSnoc DEF h
  <2>5. h - 1 = k /\ s[h] = b /\ s[k] = c[k]
    BY <1>2, <2>0 DEF h, Snoc
  <2>h. h \in 2 .. h
    BY <1>2, <2>0 DEF h
  <2>6. Links(EntryBlock, mid)
    BY <2>2, EntryLinks
  <2> HIDE DEF s
  <2>7. Removed(stack, mid, s[h]) = [head |-> stack, next |-> Unlinked(mid, s[h - 1], s[h])]
    BY <2>4, <2>6, <2>h, RemovedInside
  <2>8. Removed(stack, mid, b) = [head |-> stack, next |-> Unlinked(mid, c[k], b)]
    BY <2>5, <2>7
  <2> DEFINE new == [Unlinked(mid, c[k], b) EXCEPT ![b] = stack]
  <2>9. pushed = [head |-> b, next |-> new]
    BY <1>8, <2>8 DEF Pushed
  <2>10. /\ new \in [EntryBlock -> EntryBlock \cup {NULL}] /\ new[b] = stack
         /\ \A e \in EntryBlock : e # b => new[e] = next[e]
    BY <1>1, <1>2, <2>0, <2>2 DEF Unlinked
  <2> HIDE DEF new
  <2>11. pushed.next = new /\ pushed.head = b
    BY <2>9
  <2>12. /\ \A e \in Elems(c, k) : new[e] = next[e]
         /\ qe # NULL => new[qe] = next[qe]
    BY <1>1, <1>2, <2>10
  <2> QED
    BY <1>6, <2>1, <2>10, <2>11, <2>12
<1> QED
  BY <1>9, <1>10

(* What list_length finds of the stack once the entry b is on q_entry_pool: *)
(* one more if q_entry_pool leads to its last entry.                        *)
LEMMA StackSeen ==
  ASSUME NEW pool, NEW stack, NEW next, NEW qe, NEW c, NEW k,
         TwoLists(pool, stack, next, qe, c, k),
         NEW b \in EntryBlock, b \notin Held(qe, c, k),
         NEW mid, mid = Added(pool, next, b).next
  PROVE  Length(stack, mid) = IF k # 0 /\ On(pool, next, c[k]) THEN k + 1 ELSE k
<1>1. /\ ListOf(c, k, stack, next) /\ Links(EntryBlock, next) /\ DOMAIN next = EntryBlock
      /\ next \in [EntryBlock -> EntryBlock \cup {NULL}] /\ NULL \notin EntryBlock
      /\ qe \notin Elems(c, k) /\ b \notin Elems(c, k)
  BY EntryLinks DEF TwoLists, Held, EntryBlock, NULL
<1>2. /\ k \in Nat /\ c \in [1 .. k -> EntryBlock]
      /\ \A i, j \in 1 .. k : c[i] = c[j] => i = j
      /\ k # 0 => next[c[k]] = NULL /\ c[k] \in Elems(c, k) /\ c[k] \in EntryBlock
      /\ Elems(c, k) \subseteq EntryBlock
  BY <1>1 DEF ListOf, Elems
<1>3. PICK p, n : /\ ListOf(p, n, pool, next) /\ Elems(p, n) \subseteq Held(qe, c, k)
                  /\ n # 0 => \/ k # 0 /\ p[n] = c[k]
                              \/ p[n] = qe /\ pool = qe
  BY PoolIsList
<1>4. /\ n \in Nat /\ b \notin Elems(p, n) /\ p \in [1 .. n -> EntryBlock]
      /\ \A i \in 1 .. n : next[p[i]] = IF i = n THEN NULL ELSE p[i + 1]
  BY <1>1, <1>3 DEF ListOf
<1>5. Met(pool, next) = Elems(p, n) \cup {NULL}
  BY <1>1, <1>3, ListFacts
<1>6. mid = IF n = 0 THEN [next EXCEPT ![b] = NULL] ELSE Linked(next, p[n], b)
  <2>1. Added(pool, next, b) =
          IF n = 0 THEN [head |-> b, next |-> [next EXCEPT ![b] = NULL]]
          ELSE [head |-> pool, next |-> Linked(next, p[n], b)]
    BY <1>1, <1>3, <1>4, AddedAtEnd
  <2>2. CASE n = 0
    BY <2>1, <2>2
  <2>3. CASE n # 0
    BY <2>1, <2>3
  <2> QED
    BY <2>2, <2>3
<1>7. CASE n = 0 \/ p[n] \notin Elems(c, k)
  <2>1. ASSUME k # 0, On(pool, next, c[k]) PROVE FALSE
    <3>1. c[k] \in Elems(p, n)
      BY <1>1, <1>2, <1>5, <2>1 DEF On
    <3>2. PICK i \in 1 .. n : p[i] = c[k]
      BY <3>1 DEF Elems
    <3>3. i # n => p[i + 1] \in EntryBlock /\ next[p[i]] = p[i + 1]
      BY <1>4
    <3> QED
      BY <1>1, <1>2, <1>4, <1>7, <2>1, <3>2, <3>3
  <2>2. /\ mid \in [EntryBlock -> EntryBlock \cup {NULL}] /\ DOMAIN mid = DOMAIN next
        /\ \A e \in Elems(c, k) : mid[e] = next[e]
    BY <1>1, <1>2, <1>6, <1>7 DEF Linked
  <2>3. ListOf(c, k, stack, mid) /\ Links(EntryBlock, mid)
    BY <1>1, <2>2, ListKept, EntryLinks
  <2>4. Length(stack, mid) = k
    BY <2>3, ListFacts
  <2> QED
    BY <2>1, <2>4
<1>8. CASE n # 0 /\ p[n] \in Elems(c, k)
  <2>1. k # 0 /\ p[n] = c[k] /\ p[n] \in Elems(p, n)
    BY <1>1, <1>3, <1>4, <1>8 DEF Elems
  <2>2. On(pool, next, c[k])
    BY <1>5, <2>1 DEF On
  <2>3. mid = Linked(next, c[k], b)
    BY <1>6, <1>8, <2>1
  <2>4. /\ mid \in [EntryBlock -> EntryBlock \cup {NULL}] /\ DOMAIN mid = DOMAIN next
        /\ mid[c[k]] = b /\ mid[b] = NULL
        /\ \A e \in EntryBlock : e # c[k] /\ e # b => mid[e] = next[e]
    BY <1>1, <1>2, <2>1, <2>3 DEF Linked
  <2>5. ASSUME NEW i \in 1 .. k - 1 PROVE mid[c[i]] = next[c[i]]
    <3>1. i \in 1 .. k /\ k \in 1 .. k /\ i # k
      BY <1>2, <2>1
    <3>2. c[i] # c[k] /\ c[i] # b /\ c[i] \in EntryBlock
      BY <1>1, <1>2, <3>1 DEF Elems
    <3> QED
      BY <2>4, <3>2
  <2>6. ListOf(Snoc(c, k, b), k + 1, stack, mid)
    BY <1>1, <2>1, <2>4, <2>5, ListSnoc
  <2>7. Links(EntryBlock, mid)
    BY <2>4, EntryLinks
  <2>8. Length(stack, mid) = k + 1
    BY <2>6, <2>7, ListFacts
  <2> QED
    BY <2>1, <2>2, <2>8
<1> QED
  BY <1>7, <1>8

(* list_remove takes back what list_add has done, but for the link of b.    *)
LEMMA AddedThenRemoved ==
  ASSUME NEW D, NEW next, Links(D, next), NEW c, NEW k, NEW head, ListOf(c, k, head, next),
         NEW b \in D, b \notin Elems(c, k),
         NEW added, added = Added(head, next, b)
  PROVE  Removed(added.head, added.next, b)
           = [head |-> head, next |-> [next EXCEPT ![b] = NULL]]
<1>1. /\ DOMAIN next = D /\ NULL \notin D /\ next \in [D -> D \cup {NULL}] /\ k \in Nat
      /\ c \in [1 .. k -> D] /\ \A i, j \in 1 .. k : c[i] = c[j] => i = j
      /\ k # 0 => next[c[k]] = NULL
      /\ k = 0 => head = NULL
      /\ \A i \in 1 .. k : c[i] # b
  BY DEF Links, ListOf, Elems
<1>2. added = IF k = 0 THEN [head |-> b, next |-> [next EXCEPT ![b] = NULL]]
              ELSE [head |-> head, next |-> Linked(next, c[k], b)]
  BY AddedAtEnd
<1>3. CASE k = 0
  <2> DEFINE cut == [next EXCEPT ![b] = NULL]
  <2>1. added.head = b /\ added.next = cut
    BY <1>2, <1>3
  <2>2. cut[b] = NULL /\ [cut EXCEPT ![b] = NULL] = cut
    BY <1>1
  <2> HIDE DEF cut
  <2>3. Removed(added.head, added.next, b) = [head |-> NULL, next |-> cut]
    BY <2>1, <2>2 DEF Removed
  <2> QED
    BY <1>1, <1>3, <2>3 DEF cut
<1>4. CASE k # 0
  <2> DEFINE mid == Linked(next, c[k], b)
             s == Snoc(c, k, b)
             h == k + 1
  <2>1. added.head = head /\ added.next = mid
    BY <1>2, <1>4
  <2>2. k \in 1 .. k /\ c[k] \in D /\ c[k] # b
    BY <1>1, <1>4
  <2>3. /\ mid \in [D -> D \cup {NULL}] /\ DOMAIN mid = DOMAIN next
        /\ mid[c[k]] = b /\ mid[b] = NULL
        /\ \A e \in D : e # c[k] /\ e # b => mid[e] = next[e]
    BY <1>1, <2>2 DEF Linked
  <2> HIDE DEF mid
  <2>4. ASSUME NEW i \in 1 .. k - 1 PROVE mid[c[i]] = next[c[i]]
    BY <1>1, <2>2, <2>3
  <2>5. ListOf(s, h, head, mid)
    BY <1>1, <1>4, <2>3, <2>4, ListSnoc
  <2>6. h - 1 = k /\ s[h] = b /\ s[k] = c[k]
    BY <1>1, <1>4 DEF Snoc
  <2>h. h \in 2 .. h
    BY <1>1, <1>4
  <2>7. Links(D, mid)
    BY <2>3 DEF Links
  <2> HIDE DEF s, h
  <2>8. Removed(head, mid, s[h]) = [head |-> head, next |-> Unlinked(mid, s[h - 1], s[h])]
    BY <2>5, <2>7, <2>h, RemovedInside
  <2>9. Unlinked(mid, c[k], b) = [next EXCEPT ![b] = NULL]
    BY <1>1, <1>4, <2>2, <2>3 DEF Unlinked
  <2> QED
    BY <2>1, <2>6, <2>8, <2>9
<1> QED
  BY <1>3, <1>4

(* Send and forward when the stack looks full: the entry b leaves           *)
(* q_entry_pool, and with it the stack, which is as it was.                 *)
LEMMA EntryWithdrawn ==
  ASSUME NEW pool, NEW stack, NEW next, NEW qe, NEW c, NEW k,
         TwoLists(pool, stack, next, qe, c, k),
         NEW b \in EntryBlock, b \notin Held(qe, c, k),
         NEW added, added = Added(pool, next, b),
         NEW rest, rest = Removed(added.head, added.next, b)
  PROVE  TwoLists(rest.head, stack, rest.next, qe, c, k)
<1> DEFINE new == [next EXCEPT ![b] = NULL]
<1>1. /\ ListOf(c, k, stack, next) /\ Links(EntryBlock, next) /\ DOMAIN next = EntryBlock
      /\ next \in [EntryBlock -> EntryBlock \cup {NULL}]
      /\ b \notin Elems(c, k) /\ (qe # NULL => b # qe)
      /\ Elems(c, k) \subseteq EntryBlock
  BY EntryLinks DEF TwoLists, Held, ListOf, Elems
<1>2. PICK p, n : ListOf(p, n, pool, next) /\ Elems(p, n) \subseteq Held(qe, c, k)
  BY PoolIsList
<1>3. rest = [head |-> pool, next |-> new]
  BY <1>1, <1>2, AddedThenRemoved
<1>4. rest.head = pool /\ rest.next = new
  BY <1>3
<1>5. /\ new \in [EntryBlock -> EntryBlock \cup {NULL}] /\ DOMAIN new = DOMAIN next
      /\ \A e \in EntryBlock : e # b => new[e] = next[e]
  BY <1>1
<1> HIDE DEF new
<1>6. ListOf(c, k, stack, new)
  BY <1>1, <1>5, ListKept
<1>7. /\ qe \in EntryBlock \cup {NULL} /\ qe \notin Elems(c, k)
      /\ pool \in Held(qe, c, k) \cup {NULL}
      /\ pool = qe /\ qe # NULL => new[qe] \in Elems(c, k) \cup {NULL}
  BY <1>1, <1>5 DEF TwoLists
<1> QED
  BY <1>4, <1>5, <1>6, <1>7 DEF TwoLists

(* sendDataTask takes the top of the stack, and its link stays.             *)
LEMMA TopLeaves ==
  ASSUME NEW pool, NEW stack, NEW next, NEW c, NEW k,
         TwoLists(pool, stack, next, NULL, c, k), stack # NULL
  PROVE  /\ TwoLists(pool, next[stack], next, stack, Rest(c, k), k - 1)
         /\ Elems(Rest(c, k), k - 1) = Elems(c, k) \ {stack}
         /\ k # 0 /\ stack = c[1] /\ stack \in Elems(c, k)
<1> DEFINE d == Rest(c, k)
           h == k - 1
<1>1. /\ ListOf(c, k, stack, next) /\ next \in [EntryBlock -> EntryBlock \cup {NULL}]
      /\ pool \in Elems(c, k) \cup {NULL} /\ NULL \notin EntryBlock
  BY DEF TwoLists, Held, EntryBlock, NULL
<1>2. k # 0 /\ k \in Nat
  BY <1>1 DEF ListOf
<1>3. /\ ListOf(d, h, next[stack], next)
      /\ Elems(d, h) = Elems(c, k) \ {c[1]} /\ stack = c[1]
  BY <1>1, <1>2, ListRest
<1>4. stack \in Elems(c, k) /\ stack \in EntryBlock
  BY <1>1, <1>2, <1>3 DEF ListOf, Elems
<1> HIDE DEF d, h
<1>5. next[stack] \in Elems(d, h) \cup {NULL}
  BY <1>3 DEF ListOf, Elems
<1>6. TwoLists(pool, next[stack], next, stack, d, h)
  BY <1>1, <1>3, <1>4, <1>5 DEF TwoLists, Held
<1> QED
  BY <1>2, <1>3, <1>4, <1>6 DEF d, h

(* The entry in sendQe goes back on the stack.                              *)
LEMMA EntryReturns ==
  ASSUME NEW pool, NEW stack, NEW next, NEW qe, NEW c, NEW k,
         TwoLists(pool, stack, next, qe, c, k), qe # NULL,
         NEW pushed, pushed = Pushed(stack, next, qe)
  PROVE  /\ TwoLists(pool, pushed.head, pushed.next, NULL, Cons(qe, c, k), k + 1)
         /\ Elems(Cons(qe, c, k), k + 1) = Elems(c, k) \cup {qe}
<1> DEFINE d == Cons(qe, c, k)
           h == k + 1
           new == [next EXCEPT ![qe] = stack]
<1>1. /\ ListOf(c, k, stack, next) /\ Links(EntryBlock, next) /\ DOMAIN next = EntryBlock
      /\ next \in [EntryBlock -> EntryBlock \cup {NULL}]
      /\ qe \in EntryBlock /\ qe \notin Elems(c, k)
      /\ pool \in Elems(c, k) \cup {qe, NULL} /\ NULL \notin EntryBlock
      /\ stack \in EntryBlock \cup {NULL} /\ Elems(c, k) \subseteq EntryBlock
  BY EntryLinks DEF TwoLists, Held, EntryBlock, NULL, ListOf, Elems
<1>2. pushed = [head |-> qe, next |-> new]
  BY <1>1, PushedOnTop
<1>3. /\ new \in [EntryBlock -> EntryBlock \cup {NULL}] /\ DOMAIN new = DOMAIN next
      /\ new[qe] = stack /\ \A e \in Elems(c, k) : new[e] = next[e]
  BY <1>1
<1> HIDE DEF new
<1>4. ListOf(c, k, stack, new)
  BY <1>1, <1>3, ListKept
<1>5. ListOf(d, h, qe, new) /\ Elems(d, h) = Elems(c, k) \cup {qe}
  BY <1>1, <1>3, <1>4, ListCons
<1> HIDE DEF d, h
<1>6. pushed.head = qe /\ pushed.next = new
  BY <1>2
<1>7. NULL \notin Elems(d, h)
  BY <1>1, <1>5
<1>8. TwoLists(pool, pushed.head, pushed.next, NULL, d, h)
  BY <1>1, <1>3, <1>5, <1>6, <1>7 DEF TwoLists, Held
<1> QED
  BY <1>5, <1>8 DEF d, h

(* The entry in sendQe leaves q_entry_pool; the stack does not notice.      *)
LEMMA EntryLeaves ==
  ASSUME NEW pool, NEW stack, NEW next, NEW qe, NEW c, NEW k,
         TwoLists(pool, stack, next, qe, c, k), qe # NULL,
         NEW rest, rest = Removed(pool, next, qe)
  PROVE  TwoLists(rest.head, stack, rest.next, NULL, c, k)
<1>1. /\ ListOf(c, k, stack, next) /\ Links(EntryBlock, next) /\ DOMAIN next = EntryBlock
      /\ next \in [EntryBlock -> EntryBlock \cup {NULL}]
      /\ qe \in EntryBlock /\ qe \notin Elems(c, k)
      /\ pool \in Elems(c, k) \cup {qe, NULL} /\ NULL \notin EntryBlock
      /\ pool = qe => next[qe] \in Elems(c, k) \cup {NULL}
      /\ Elems(c, k) \subseteq EntryBlock
  BY EntryLinks DEF TwoLists, Held, EntryBlock, NULL, ListOf, Elems
<1>2. CASE pool = qe
  <2> DEFINE new == [next EXCEPT ![qe] = NULL]
  <2>1. rest = [head |-> next[qe], next |-> new]
    BY <1>2 DEF Removed
  <2>2. /\ new \in [EntryBlock -> EntryBlock \cup {NULL}] /\ DOMAIN new = DOMAIN next
        /\ \A e \in Elems(c, k) : new[e] = next[e]
    BY <1>1
  <2> HIDE DEF new
  <2>3. ListOf(c, k, stack, new)
    BY <1>1, <2>2, ListKept
  <2>4. rest.head = next[qe] /\ rest.next = new
    BY <2>1
  <2> QED
    BY <1>1, <1>2, <2>2, <2>3, <2>4 DEF TwoLists, Held
<1>3. CASE pool # qe
  <2>1. PICK p, n : ListOf(p, n, pool, next) /\ qe \notin Elems(p, n)
    BY <1>3, PoolIsList
  <2>2. rest = [head |-> pool, next |-> next]
    BY <1>1, <2>1, RemovedAbsent
  <2>3. rest.head = pool /\ rest.next = next
    BY <2>2
  <2> QED
    BY <1>1, <1>3, <2>3 DEF TwoLists, Held
<1> QED
  BY <1>2, <1>3

----------------------------------------------------------------------------
(* The messages of the entries given away *)

(* Each entry of H has a message block of its own, and no other is given    *)
(* away.                                                                    *)
Owned(H, of, used) ==
  /\ of \in [EntryBlock -> MsgBlock \cup {NULL}] /\ used \in [MsgBlock -> BOOLEAN]
  /\ \A b \in H : of[b] \in MsgBlock
  /\ \A b, e \in H : of[b] = of[e] => b = e
  /\ \A m \in MsgBlock : used[m] <=> \E b \in H : of[b] = m

LEMMA OwnedLess ==
  ASSUME NEW H \in SUBSET EntryBlock, NEW of, NEW used, Owned(H, of, used), NEW o \in H
  PROVE  Owned(H \ {o}, [of EXCEPT ![o] = NULL], [used EXCEPT ![of[o]] = FALSE])
<1> DEFINE new == [of EXCEPT ![o] = NULL]
           left == [used EXCEPT ![of[o]] = FALSE]
<1>1. /\ of \in [EntryBlock -> MsgBlock \cup {NULL}] /\ used \in [MsgBlock -> BOOLEAN]
      /\ \A b \in H : of[b] \in MsgBlock
      /\ \A b, e \in H : of[b] = of[e] => b = e
      /\ \A m \in MsgBlock : used[m] <=> \E b \in H : of[b] = m
  BY DEF Owned
<1>2. new \in [EntryBlock -> MsgBlock \cup {NULL}] /\ left \in [MsgBlock -> BOOLEAN]
  BY <1>1
<1>3. \A b \in H \ {o} : new[b] = of[b]
  BY <1>1
<1>4. \A m \in MsgBlock : left[m] <=> used[m] /\ m # of[o]
  BY <1>1
<1> HIDE DEF new, left
<1>5. Owned(H \ {o}, new, left)
  BY <1>1, <1>2, <1>3, <1>4 DEF Owned
<1> QED
  BY <1>5 DEF new, left

LEMMA OwnedMore ==
  ASSUME NEW H \in SUBSET EntryBlock, NEW of, NEW used, Owned(H, of, used),
         NEW b \in EntryBlock \ H, NEW m \in MsgBlock, ~used[m]
  PROVE  Owned(H \cup {b}, [of EXCEPT ![b] = m], [used EXCEPT ![m] = TRUE])
<1> DEFINE new == [of EXCEPT ![b] = m]
           more == [used EXCEPT ![m] = TRUE]
<1>1. /\ of \in [EntryBlock -> MsgBlock \cup {NULL}] /\ used \in [MsgBlock -> BOOLEAN]
      /\ \A e \in H : of[e] \in MsgBlock
      /\ \A e, f \in H : of[e] = of[f] => e = f
      /\ \A x \in MsgBlock : used[x] <=> \E e \in H : of[e] = x
  BY DEF Owned
<1>2. new \in [EntryBlock -> MsgBlock \cup {NULL}] /\ more \in [MsgBlock -> BOOLEAN]
  BY <1>1
<1>3. (\A e \in H : new[e] = of[e]) /\ new[b] = m
  BY <1>1
<1>4. \A x \in MsgBlock : more[x] <=> used[x] \/ x = m
  BY <1>1
<1> HIDE DEF new, more
<1>5. Owned(H \cup {b}, new, more)
  BY <1>1, <1>2, <1>3, <1>4 DEF Owned
<1> QED
  BY <1>5 DEF new, more

(* Whatever the links of the messages are, list_remove and list_add leave   *)
(* links of messages.                                                       *)
MsgLinks(head, next) ==
  head \in MsgBlock \cup {NULL} /\ next \in [MsgBlock -> MsgBlock \cup {NULL}]

LEMMA RemovedTyped ==
  ASSUME NEW head, NEW next, MsgLinks(head, next), NEW m \in MsgBlock,
         NEW rest, rest = Removed(head, next, m)
  PROVE  MsgLinks(rest.head, rest.next)
<1>1. /\ head \in MsgBlock \cup {NULL} /\ next \in [MsgBlock -> MsgBlock \cup {NULL}]
  BY DEF MsgLinks
<1>2. CASE head = m
  <2>1. rest = [head |-> next[m], next |-> [next EXCEPT ![m] = NULL]]
    BY <1>2 DEF Removed
  <2> QED
    BY <1>1, <2>1 DEF MsgLinks
<1>3. CASE head # m /\ On(head, next, m)
  <2> DEFINE a == Before(head, next, m)
  <2>1. rest = [head |-> head, next |-> [next EXCEPT ![a] = next[m], ![m] = NULL]]
    BY <1>3 DEF Removed
  <2> HIDE DEF a
  <2> QED
    BY <1>1, <2>1 DEF MsgLinks
<1>4. CASE head # m /\ ~On(head, next, m)
  <2>1. rest = [head |-> head, next |-> next]
    BY <1>4 DEF Removed
  <2> QED
    BY <1>1, <2>1 DEF MsgLinks
<1> QED
  BY <1>2, <1>3, <1>4

LEMMA AddedTyped ==
  ASSUME NEW head, NEW next, MsgLinks(head, next), NEW m \in MsgBlock,
         NEW added, added = Added(head, next, m)
  PROVE  MsgLinks(added.head, added.next)
<1> DEFINE rest == Removed(head, next, m)
           cut == [rest.next EXCEPT ![m] = NULL]
<1>1. MsgLinks(rest.head, rest.next)
  BY RemovedTyped
<1>2. added = IF rest.head = NULL THEN [head |-> m, next |-> cut]
              ELSE [head |-> rest.head, next |-> [cut EXCEPT ![Last(rest.head, cut)] = m]]
  BY DEF Added
<1> HIDE DEF rest
<1>3. cut \in [MsgBlock -> MsgBlock \cup {NULL}] /\ rest.head \in MsgBlock \cup {NULL}
  BY <1>1 DEF MsgLinks
<1> HIDE DEF cut
<1>4. CASE rest.head = NULL
  BY <1>2, <1>3, <1>4 DEF MsgLinks
<1>5. CASE rest.head # NULL
  <2> DEFINE a == Last(rest.head, cut)
  <2>1. added = [head |-> rest.head, next |-> [cut EXCEPT ![a] = m]]
    BY <1>2, <1>5
  <2> HIDE DEF a
  <2>2. added.head = rest.head /\ added.next = [cut EXCEPT ![a] = m]
    BY <2>1
  <2>3. [cut EXCEPT ![a] = m] \in [MsgBlock -> MsgBlock \cup {NULL}]
    BY <1>3
  <2> QED
    BY <1>3, <2>2, <2>3 DEF MsgLinks
<1> QED
  BY <1>4, <1>5

----------------------------------------------------------------------------
(* The inductive invariant *)

(* What holds of the memory d and the entry qe that sendQe points at, with  *)
(* the k blocks of c on the stack.                                          *)
Sound(d, qe, c, k) ==
  /\ TwoLists(d.entryPool, d.sendStack, d.entryNext, qe, c, k)
  /\ k <= SEND_STACK_SIZE
  /\ d.entryUsed \in [EntryBlock -> BOOLEAN]
  /\ \A b \in EntryBlock : d.entryUsed[b] <=> b \in Held(qe, c, k)
  /\ Owned(Held(qe, c, k), d.msgOf, d.msgUsed)
  /\ MsgLinks(d.msgPool, d.msgNext)
  /\ d.store \in [MsgBlock -> Packet \cup {Blank}]

(* the packet of an entry, and the packets of the stack                     *)
PacketOf(d, b) == d.store[d.msgOf[b]]
Contents(d, c, k) == [i \in 1 .. k |-> PacketOf(d, c[i])]

LEMMA SoundFacts ==
  ASSUME NEW d, NEW qe, NEW c, NEW k, Sound(d, qe, c, k)
  PROVE  /\ k \in Nat /\ c \in [1 .. k -> EntryBlock]
         /\ Elems(c, k) \subseteq EntryBlock /\ Held(qe, c, k) \subseteq EntryBlock
         /\ qe \in EntryBlock \cup {NULL} /\ qe \notin Elems(c, k)
         /\ Links(EntryBlock, d.entryNext)
         /\ ListOf(c, k, d.sendStack, d.entryNext)
         /\ Length(d.sendStack, d.entryNext) = k
         /\ k > 0 => Last(d.sendStack, d.entryNext) = c[k]
         /\ \A b \in Held(qe, c, k) : d.msgOf[b] \in MsgBlock
         /\ Contents(d, c, k) \in Seq(Packet \cup {Blank})
         /\ Len(Contents(d, c, k)) = k
<1>1. /\ ListOf(c, k, d.sendStack, d.entryNext)
      /\ d.entryNext \in [EntryBlock -> EntryBlock \cup {NULL}]
      /\ qe \in EntryBlock \cup {NULL} /\ qe \notin Elems(c, k)
      /\ \A b \in Held(qe, c, k) : d.msgOf[b] \in MsgBlock
      /\ d.store \in [MsgBlock -> Packet \cup {Blank}]
  BY DEF Sound, TwoLists, Owned
<1>2. Links(EntryBlock, d.entryNext)
  BY <1>1, EntryLinks
<1>3. /\ Length(d.sendStack, d.entryNext) = k
      /\ k > 0 => Last(d.sendStack, d.entryNext) = c[k]
      /\ Elems(c, k) \subseteq EntryBlock
  BY <1>1, <1>2, ListFacts
<1>4. k \in Nat /\ c \in [1 .. k -> EntryBlock]
  BY <1>1 DEF ListOf
<1>5. Held(qe, c, k) \subseteq EntryBlock /\ Elems(c, k) \subseteq Held(qe, c, k)
  BY <1>1, <1>3 DEF Held
<1>6. ASSUME NEW i \in 1 .. k PROVE PacketOf(d, c[i]) \in Packet \cup {Blank}
  <2>1. c[i] \in Held(qe, c, k)
    BY <1>5 DEF Elems
  <2> QED
    BY <1>1, <2>1 DEF PacketOf
<1>7. Contents(d, c, k) \in Seq(Packet \cup {Blank}) /\ Len(Contents(d, c, k)) = k
  <2>1. Contents(d, c, k) \in [1 .. k -> Packet \cup {Blank}]
    BY <1>6 DEF Contents
  <2> HIDE DEF Contents
  <2>2. Contents(d, c, k) \in Seq(Packet \cup {Blank})
    BY <1>4, <2>1, SeqDef
  <2> QED
    BY <1>4, <2>1, <2>2, LenProperties
<1> QED
  BY <1>1, <1>2, <1>3, <1>4, <1>5, <1>7

(* memb_alloc finds a free block if there is one.                           *)
LEMMA FirstFreeIsFree ==
  ASSUME NEW n \in Int, NEW used \in [0 .. n -> BOOLEAN], NEW b \in 0 .. n, ~used[b]
  PROVE  FirstFree(used) \in 0 .. n /\ ~used[FirstFree(used)]
<1> DEFINE T == {x \in 0 .. n : ~used[x]}
           P(x) == ~used[x] /\ \A y \in DOMAIN used : y < x => used[y]
<1>1. T \subseteq Nat /\ T # {}
  OBVIOUS
<1>2. PICK x \in T : \A y \in T : x <= y
  BY <1>1, LeastNat
<1>3. x \in DOMAIN used /\ P(x)
  BY <1>2
<1>4. (CHOOSE y \in DOMAIN used : P(y)) \in DOMAIN used /\ P(CHOOSE y \in DOMAIN used : P(y))
  BY <1>3, Zenon
<1> QED
  BY <1>4 DEF FirstFree

(* The stack after conditionalFQDiscard.                                    *)
Roomy(s) == IF Len(s) >= SEND_STACK_SIZE THEN SubSeq(s, 1, Len(s) - 1) ELSE s

LEMMA OldestDiscarded ==
  ASSUME NEW c, NEW k, Sound(AsTheyAre, sendQe, c, k), k = SEND_STACK_SIZE
  PROVE  /\ Sound(WithoutOldest, sendQe, ButLast(c, k), k - 1)
         /\ \A b \in Held(sendQe, ButLast(c, k), k - 1) :
              PacketOf(WithoutOldest, b) = PacketOf(AsTheyAre, b)
<1> DEFINE d == ButLast(c, k)
           h == k - 1
           o == c[k]
           H == Held(sendQe, c, k)
           R == Held(sendQe, d, h)
           W == WithoutOldest
<1>1. /\ k \in Nat \ {0} /\ Elems(c, k) \subseteq EntryBlock /\ H \subseteq EntryBlock
      /\ sendQe \notin Elems(c, k) /\ o \in Elems(c, k) /\ o \in EntryBlock
      /\ Last(sendStack, entryNext) = o
  BY SoundFacts, ForwardingMemAssumption DEF AsTheyAre, Elems
<1>2. Oldest = o
  BY <1>1 DEF Oldest
<1>3. /\ TwoLists(entryPool, sendStack, entryNext, sendQe, c, k)
      /\ entryUsed \in [EntryBlock -> BOOLEAN]
      /\ \A b \in EntryBlock : entryUsed[b] <=> b \in H
      /\ Owned(H, msgOf, msgUsed) /\ MsgLinks(msgPool, msgNext)
      /\ store \in [MsgBlock -> Packet \cup {Blank}]
  BY DEF Sound, AsTheyAre
<1> DEFINE chopped == Chopped(sendStack, entryNext)
           pool == Removed(entryPool, chopped.next, o)
           msgs == Removed(msgPool, msgNext, msgOf[o])
<1>4. /\ W.entryUsed = [entryUsed EXCEPT ![o] = FALSE] /\ W.entryNext = pool.next
      /\ W.entryPool = pool.head /\ W.sendStack = chopped.head
      /\ W.msgOf = [msgOf EXCEPT ![o] = NULL] /\ W.msgUsed = [msgUsed EXCEPT ![msgOf[o]] = FALSE]
      /\ W.msgNext = msgs.next /\ W.msgPool = msgs.head
      /\ W.store = [store EXCEPT ![msgOf[o]] = Blank]
  BY <1>2 DEF WithoutOldest, DropFromPool, FreeOldestMsg
<1>5. TwoLists(pool.head, chopped.head, pool.next, sendQe, d, h) /\ Elems(d, h) = Elems(c, k) \ {o}
  BY <1>1, <1>3, OldestLeaves
<1>6. msgOf[o] \in MsgBlock /\ o \in H
  BY <1>1, <1>3 DEF Owned, Held
<1>7. MsgLinks(msgs.head, msgs.next)
  BY <1>3, <1>6, RemovedTyped
<1> HIDE DEF d, h, chopped, pool, msgs, W
<1>8. R = H \ {o}
  BY <1>1, <1>5 DEF Held
<1> HIDE DEF H, R
<1>9. Owned(R, W.msgOf, W.msgUsed)
  BY <1>1, <1>3, <1>4, <1>6, <1>8, OwnedLess
<1>10. /\ W.entryUsed \in [EntryBlock -> BOOLEAN]
       /\ \A b \in EntryBlock : W.entryUsed[b] <=> b \in R
       /\ W.store \in [MsgBlock -> Packet \cup {Blank}]
  BY <1>3, <1>4, <1>6, <1>8
<1>11. h <= SEND_STACK_SIZE
  BY <1>1 DEF h
<1>12. Sound(W, sendQe, d, h)
  BY <1>4, <1>5, <1>7, <1>9, <1>10, <1>11 DEF Sound, R
<1>13. ASSUME NEW b \in R PROVE PacketOf(W, b) = PacketOf(AsTheyAre, b)
  <2>1. b \in H /\ b # o /\ b \in EntryBlock
    BY <1>1, <1>8
  <2>2. msgOf[b] \in MsgBlock /\ msgOf[b] # msgOf[o] /\ W.msgOf[b] = msgOf[b]
    BY <1>3, <1>4, <1>6, <2>1 DEF Owned
  <2>3. W.store[msgOf[b]] = store[msgOf[b]]
    BY <1>3, <1>4, <2>2
  <2> QED
    BY <2>2, <2>3 DEF PacketOf, AsTheyAre
<1> QED
  BY <1>12, <1>13 DEF d, h, R, W

LEMMA StackDiscarded ==
  ASSUME NEW c, NEW k, Sound(AsTheyAre, sendQe, c, k)
  PROVE  \E e, h : /\ Sound(Discarded, sendQe, e, h) /\ h < SEND_STACK_SIZE
                   /\ Contents(Discarded, e, h) = Roomy(Contents(AsTheyAre, c, k))
                   /\ sendQe # NULL =>
                        PacketOf(Discarded, sendQe) = PacketOf(AsTheyAre, sendQe)
<1> DEFINE s == Contents(AsTheyAre, c, k)
<1>1. /\ k \in Nat /\ k <= SEND_STACK_SIZE /\ Length(sendStack, entryNext) = k
      /\ s \in Seq(Packet \cup {Blank}) /\ Len(s) = k /\ SEND_STACK_SIZE \in Nat \ {0}
  BY SoundFacts, ForwardingMemAssumption DEF Sound, AsTheyAre
<1>2. IsFull <=> k = SEND_STACK_SIZE
  BY <1>1 DEF IsFull
<1>3. CASE k = SEND_STACK_SIZE
  <2> DEFINE e == ButLast(c, k)
             h == k - 1
  <2>1. Discarded = WithoutOldest
    BY <1>2, <1>3 DEF Discarded
  <2>2. /\ Sound(Discarded, sendQe, e, h)
        /\ \A b \in Held(sendQe, e, h) : PacketOf(Discarded, b) = PacketOf(AsTheyAre, b)
    BY <1>3, <2>1, OldestDiscarded
  <2>3. h \in Nat /\ h < SEND_STACK_SIZE /\ Len(s) - 1 = h /\ Len(s) >= SEND_STACK_SIZE
    BY <1>1, <1>3
  <2>4. Roomy(s) = [i \in 1 .. h |-> s[i]]
    <3>1. SubSeq(s, 1, Len(s) - 1) = [i \in 1 .. h |-> s[i]]
      BY <1>1, <2>3
    <3> QED
      BY <2>3, <3>1 DEF Roomy
  <2>5. ASSUME NEW i \in 1 .. h
        PROVE  e[i] = c[i] /\ e[i] \in Held(sendQe, e, h) /\ s[i] = PacketOf(AsTheyAre, c[i])
    BY <1>1 DEF ButLast, Held, Elems, Contents
  <2> HIDE DEF e, h, s
  <2>6. Contents(Discarded, e, h) = Roomy(s)
    BY <2>2, <2>4, <2>5 DEF Contents
  <2>7. sendQe # NULL => sendQe \in Held(sendQe, e, h)
    BY DEF Held
  <2> QED
    BY <2>2, <2>3, <2>6, <2>7 DEF s
<1>4. CASE k # SEND_STACK_SIZE
  <2>1. Discarded = AsTheyAre
    BY <1>2, <1>4 DEF Discarded
  <2>2. k < SEND_STACK_SIZE /\ Roomy(s) = s
    BY <1>1, <1>4 DEF Roomy
  <2> QED
    BY <2>1, <2>2
<1> QED
  BY <1>3, <1>4

(* A packet on top of the others.                                           *)
Atop(p, s) == <<p>> \o s

LEMMA ContentsPushed ==
  ASSUME NEW d, NEW e, NEW c, NEW k \in Nat, NEW b,
         Contents(d, c, k) \in Seq(Packet \cup {Blank}), Len(Contents(d, c, k)) = k,
         \A i \in 1 .. k : PacketOf(e, c[i]) = PacketOf(d, c[i])
  PROVE  Contents(e, Cons(b, c, k), k + 1) = Atop(PacketOf(e, b), Contents(d, c, k))
<1> DEFINE s == Contents(d, c, k)
           t == Contents(e, Cons(b, c, k), k + 1)
           u == Atop(PacketOf(e, b), s)
<1>1. t = [i \in 1 .. k + 1 |-> PacketOf(e, Cons(b, c, k)[i])]
  BY DEF Contents
<1>2. \A i \in 1 .. k : s[i] = PacketOf(d, c[i])
  BY DEF Contents
<1>3. \A i \in 1 .. k + 1 : Cons(b, c, k)[i] = IF i = 1 THEN b ELSE c[i - 1]
  BY DEF Cons
<1> HIDE DEF s
<1>4. s \in Seq(Packet \cup {Blank}) /\ Len(s) = k
  BY DEF s
<1>5. u = [i \in 1 .. k + 1 |-> IF i = 1 THEN PacketOf(e, b) ELSE s[i - 1]]
  BY <1>4 DEF Atop
<1>6. ASSUME NEW i \in 1 .. k + 1
      PROVE  PacketOf(e, Cons(b, c, k)[i]) = IF i = 1 THEN PacketOf(e, b) ELSE s[i - 1]
  <2>1. CASE i = 1
    BY <1>3, <2>1
  <2>2. CASE i # 1
    <3>1. i - 1 \in 1 .. k /\ Cons(b, c, k)[i] = c[i - 1]
      BY <1>3, <2>2
    <3> QED
      BY <1>2, <2>2, <3>1
  <2> QED
    BY <2>1, <2>2
<1> HIDE DEF t, u
<1>7. t = u
  BY <1>1, <1>5, <1>6
<1> QED
  BY <1>7 DEF s, t, u

(* Send and forward ask for blocks that the pools have, of the memory d.     *)
LEMMA NewBlocks ==
  ASSUME NEW d, NEW qe, NEW c, NEW k, Sound(d, qe, c, k), PoolsHaveRoom(d)
  PROVE  /\ NewEntry(d) \in EntryBlock /\ ~d.entryUsed[NewEntry(d)]
         /\ NewEntry(d) \notin Held(qe, c, k)
         /\ NewMsg(d) \in MsgBlock /\ ~d.msgUsed[NewMsg(d)]
<1>1. /\ d.entryUsed \in [EntryBlock -> BOOLEAN] /\ d.msgUsed \in [MsgBlock -> BOOLEAN]
      /\ \A x \in EntryBlock : d.entryUsed[x] <=> x \in Held(qe, c, k)
  BY DEF Sound, Owned
<1>2. Q_ENTRY_POOL_SIZE - 1 \in Int /\ MESSAGE_POOL_SIZE - 1 \in Int
  BY ForwardingMemAssumption
<1>3. NewEntry(d) \in EntryBlock /\ ~d.entryUsed[NewEntry(d)]
  <2>1. PICK x \in EntryBlock : ~d.entryUsed[x]
    BY DEF PoolsHaveRoom
  <2> QED
    BY <1>1, <1>2, <2>1, FirstFreeIsFree DEF EntryBlock, NewEntry
<1>4. NewMsg(d) \in MsgBlock /\ ~d.msgUsed[NewMsg(d)]
  <2>1. PICK x \in MsgBlock : ~d.msgUsed[x]
    BY DEF PoolsHaveRoom
  <2> QED
    BY <1>1, <1>2, <2>1, FirstFreeIsFree DEF MsgBlock, NewMsg
<1> QED
  BY <1>1, <1>3, <1>4

(* Both have room: the packet is stored.                                    *)
LEMMA StoredStep ==
  ASSUME NEW d, NEW qe, NEW c, NEW k, Sound(d, qe, c, k), k < SEND_STACK_SIZE,
         NEW link \in MsgBlock \cup {NULL}, PoolsHaveRoom(d), Stored(d, link)
  PROVE  \E e, p : /\ p \in Packet /\ Sound(AsTheyAre', qe, e, k + 1)
                   /\ Contents(AsTheyAre', e, k + 1) = Atop(p, Contents(d, c, k))
                   /\ qe # NULL => PacketOf(AsTheyAre', qe) = PacketOf(d, qe)
<1> DEFINE b == NewEntry(d)
           m == NewMsg(d)
           H == Held(qe, c, k)
           e == Cons(b, c, k)
           h == k + 1
           A == AsTheyAre'
<1>1. /\ TwoLists(d.entryPool, d.sendStack, d.entryNext, qe, c, k)
      /\ d.entryUsed \in [EntryBlock -> BOOLEAN]
      /\ \A x \in EntryBlock : d.entryUsed[x] <=> x \in H
      /\ Owned(H, d.msgOf, d.msgUsed) /\ MsgLinks(d.msgPool, d.msgNext)
      /\ d.store \in [MsgBlock -> Packet \cup {Blank}]
  BY DEF Sound
<1>2. /\ k \in Nat /\ H \subseteq EntryBlock /\ Elems(c, k) \subseteq H
      /\ \A x \in H : d.msgOf[x] \in MsgBlock
      /\ Contents(d, c, k) \in Seq(Packet \cup {Blank}) /\ Len(Contents(d, c, k)) = k
      /\ (qe # NULL => qe \in H)
  BY SoundFacts DEF Held
<1>3. b \in EntryBlock /\ ~d.entryUsed[b]
  BY NewBlocks
<1>4. m \in MsgBlock /\ ~d.msgUsed[m]
  BY NewBlocks
<1>5. b \notin H
  BY <1>1, <1>3
<1> DEFINE pool == Added(d.entryPool, d.entryNext, b)
           stack == Pushed(d.sendStack, pool.next, b)
           msgs == Added(d.msgPool, d.msgNext, m)
<1>6. PICK p \in Packet :
        /\ A.entryUsed = [d.entryUsed EXCEPT ![b] = TRUE]
        /\ A.entryPool = pool.head /\ A.sendStack = stack.head /\ A.entryNext = stack.next
        /\ A.msgOf = [d.msgOf EXCEPT ![b] = m] /\ A.msgUsed = [d.msgUsed EXCEPT ![m] = TRUE]
        /\ A.msgPool = msgs.head /\ A.msgNext = [msgs.next EXCEPT ![m] = link]
        /\ A.store = [d.store EXCEPT ![m] = p]
  BY DEF Stored, EntriesWith, MsgsWith, AsTheyAre
<1>7. /\ TwoLists(pool.head, stack.head, stack.next, qe, e, h)
      /\ Elems(e, h) = Elems(c, k) \cup {b}
  BY <1>1, <1>3, <1>5, EntryArrives
<1>8. MsgLinks(msgs.head, msgs.next)
  BY <1>1, <1>4, AddedTyped
<1> HIDE DEF b, m, e, h, pool, stack, msgs, A
<1>9. Held(qe, e, h) = H \cup {b}
  BY <1>7 DEF Held
<1> HIDE DEF H
<1>10. Owned(H \cup {b}, A.msgOf, A.msgUsed)
  <2>1. Owned(H \cup {b}, [d.msgOf EXCEPT ![b] = m], [d.msgUsed EXCEPT ![m] = TRUE])
    BY <1>1, <1>2, <1>3, <1>4, <1>5, OwnedMore
  <2> QED
    BY <1>6, <2>1
<1>11. MsgLinks(A.msgPool, A.msgNext)
  BY <1>6, <1>8 DEF MsgLinks
<1>12. /\ A.entryUsed \in [EntryBlock -> BOOLEAN]
       /\ \A x \in EntryBlock : A.entryUsed[x] <=> x \in H \cup {b}
       /\ A.store \in [MsgBlock -> Packet \cup {Blank}]
  BY <1>1, <1>3, <1>4, <1>6
<1>13. h <= SEND_STACK_SIZE
  BY <1>2, ForwardingMemAssumption DEF h
<1>14. Sound(A, qe, e, h)
  BY <1>6, <1>7, <1>9, <1>10, <1>11, <1>12, <1>13 DEF Sound
<1>15. ASSUME NEW x \in H PROVE PacketOf(A, x) = PacketOf(d, x)
  <2>1. x # b /\ x \in EntryBlock /\ d.msgOf[x] \in MsgBlock /\ d.msgUsed[d.msgOf[x]]
    BY <1>1, <1>2, <1>5 DEF Owned
  <2>2. A.msgOf[x] = d.msgOf[x] /\ d.msgOf[x] # m
    BY <1>1, <1>4, <1>6, <2>1 DEF Owned
  <2>3. A.store[d.msgOf[x]] = d.store[d.msgOf[x]]
    BY <1>1, <1>6, <2>1, <2>2
  <2> QED
    BY <2>2, <2>3 DEF PacketOf
<1>16. PacketOf(A, b) = p
  BY <1>1, <1>3, <1>4, <1>6 DEF PacketOf, Owned
<1>17. \A i \in 1 .. k : PacketOf(A, c[i]) = PacketOf(d, c[i])
  BY <1>2, <1>15 DEF Elems
<1>18. Contents(A, e, h) = Atop(p, Contents(d, c, k))
  BY <1>2, <1>16, <1>17, ContentsPushed DEF e, h
<1>19. qe # NULL => PacketOf(A, qe) = PacketOf(d, qe)
  BY <1>2, <1>15
<1> QED
  BY <1>14, <1>18, <1>19 DEF h, A

(* The stack looks full: both blocks go back, and nothing is stored.        *)
LEMMA WithdrawnStep ==
  ASSUME NEW d, NEW qe, NEW c, NEW k, Sound(d, qe, c, k), k < SEND_STACK_SIZE,
         NEW link \in MsgBlock \cup {NULL}, PoolsHaveRoom(d), Withdrawn(d, link)
  PROVE  /\ Sound(AsTheyAre', qe, c, k) /\ k >= SEND_STACK_SIZE - 1
         /\ \A x : PacketOf(AsTheyAre', x) = PacketOf(d, x)
<1> DEFINE b == NewEntry(d)
           m == NewMsg(d)
           A == AsTheyAre'
           pool == Added(d.entryPool, d.entryNext, b)
           entries == Removed(pool.head, pool.next, b)
           msgs == Added(d.msgPool, d.msgNext, m)
           linked == [msgs.next EXCEPT ![m] = link]
           left == Removed(msgs.head, linked, m)
<1>1. /\ TwoLists(d.entryPool, d.sendStack, d.entryNext, qe, c, k)
      /\ MsgLinks(d.msgPool, d.msgNext)
  BY DEF Sound
<1>2. b \in EntryBlock /\ b \notin Held(qe, c, k) /\ m \in MsgBlock
  BY NewBlocks
<1>3. TwoLists(entries.head, d.sendStack, entries.next, qe, c, k)
  BY <1>1, <1>2, EntryWithdrawn
<1>4. MsgLinks(left.head, left.next)
  <2>1. MsgLinks(msgs.head, msgs.next)
    BY <1>1, <1>2, AddedTyped
  <2> HIDE DEF msgs
  <2>2. MsgLinks(msgs.head, linked)
    BY <2>1 DEF MsgLinks
  <2> HIDE DEF linked
  <2> QED
    BY <1>2, <2>2, RemovedTyped
<1>5. k >= SEND_STACK_SIZE - 1
  <2>1. ~(Length(d.sendStack, pool.next) < SEND_STACK_SIZE)
    BY DEF Withdrawn, StackHasRoom, EntriesWith
  <2> HIDE DEF b
  <2>2. Length(d.sendStack, pool.next) \in {k, k + 1}
    BY <1>1, <1>2, StackSeen
  <2>3. k \in Nat
    BY SoundFacts
  <2> QED
    BY <2>1, <2>2, <2>3, ForwardingMemAssumption
<1>6. /\ A.entryPool = entries.head /\ A.entryNext = entries.next
      /\ A.msgPool = left.head /\ A.msgNext = left.next
      /\ A.sendStack = d.sendStack /\ A.entryUsed = d.entryUsed /\ A.msgUsed = d.msgUsed
      /\ A.msgOf = d.msgOf /\ A.store = d.store
  <2>1. MsgsWith(d, link) = [msgs EXCEPT !.next[m] = link]
    BY DEF MsgsWith
  <2>2. MsgsWith(d, link).head = msgs.head /\ MsgsWith(d, link).next = linked
    BY <2>1 DEF Added
  <2> QED
    BY <2>2 DEF Withdrawn, EntriesWithout, MsgsWithout, EntriesWith, AsTheyAre
<1> HIDE DEF b, m, pool, entries, msgs, linked, left, A
<1>7. Sound(A, qe, c, k)
  BY <1>3, <1>4, <1>6 DEF Sound
<1>8. \A x : PacketOf(A, x) = PacketOf(d, x)
  BY <1>6 DEF PacketOf
<1> QED
  BY <1>5, <1>7, <1>8 DEF A

(* A length of message_pool is a number, whatever its links.                *)
LEMMA MsgLength ==
  ASSUME NEW head, NEW next, MsgLinks(head, next)
  PROVE  Length(head, next) \in Nat
<1> DEFINE I == 0 .. Cardinality(DOMAIN next)
           F(i) == Path(head, next)[i]
<1>1. IsFiniteSet(MsgBlock) /\ Cardinality(MsgBlock) \in Nat
  BY ForwardingMemAssumption, FS_Interval, FS_CardinalityType DEF MsgBlock
<1>2. DOMAIN next = MsgBlock
  BY DEF MsgLinks
<1>3. IsFiniteSet(I)
  BY <1>1, <1>2, FS_Interval
<1> HIDE DEF I
<1> DEFINE f == [i \in I |-> F(i)]
           M == {F(i) : i \in I}
<1>4. f \in Surjection(I, M)
  BY DEF Surjection
<1> HIDE DEF F, f
<1>5. IsFiniteSet(M)
  BY <1>3, <1>4, FS_Surjection
<1>6. M = Met(head, next)
  BY DEF Met, I, F
<1>7. IsFiniteSet(Met(head, next) \ {NULL})
  BY <1>5, <1>6, FS_Subset
<1> QED
  BY <1>7, FS_CardinalityType DEF Length

----------------------------------------------------------------------------
(* With a place on the stack, blocks are left.                              *)
LEMMA HeldFewer ==
  ASSUME NEW d, NEW qe, NEW c, NEW k, Sound(d, qe, c, k), k < SEND_STACK_SIZE
  PROVE  /\ IsFiniteSet(Held(qe, c, k)) /\ Cardinality(Held(qe, c, k)) \in Nat
         /\ Cardinality(Held(qe, c, k)) < Q_ENTRY_POOL_SIZE
<1>1. /\ k \in Nat /\ qe \notin Elems(c, k)
      /\ Links(EntryBlock, d.entryNext) /\ ListOf(c, k, d.sendStack, d.entryNext)
  BY SoundFacts
<1>2. IsFiniteSet(Elems(c, k)) /\ Cardinality(Elems(c, k)) = k
  BY <1>1, ListFits
<1>3. CASE qe = NULL
  <2>1. Held(qe, c, k) = Elems(c, k)
    BY <1>1, <1>3 DEF Held
  <2> QED
    BY <1>1, <1>2, <2>1, ForwardingMemAssumption
<1>4. CASE qe # NULL
  <2>1. Held(qe, c, k) = Elems(c, k) \cup {qe}
    BY <1>4 DEF Held
  <2>2. IsFiniteSet(Held(qe, c, k)) /\ Cardinality(Held(qe, c, k)) = k + 1
    BY <1>1, <1>2, <2>1, FS_AddElement
  <2> QED
    BY <1>1, <2>2, ForwardingMemAssumption
<1> QED
  BY <1>3, <1>4

LEMMA BlocksAreLeft ==
  ASSUME NEW d, NEW qe, NEW c, NEW k, Sound(d, qe, c, k), k < SEND_STACK_SIZE
  PROVE  /\ \E b \in EntryBlock : ~d.entryUsed[b]
         /\ \E m \in MsgBlock : ~d.msgUsed[m]
         /\ Length(d.entryPool, d.entryNext) < Q_ENTRY_POOL_SIZE
<1> DEFINE H == Held(qe, c, k)
<1>1. /\ TwoLists(d.entryPool, d.sendStack, d.entryNext, qe, c, k)
      /\ \A b \in EntryBlock : d.entryUsed[b] <=> b \in H
      /\ Owned(H, d.msgOf, d.msgUsed)
  BY DEF Sound
<1>2. IsFiniteSet(H) /\ Cardinality(H) \in Nat /\ Cardinality(H) < Q_ENTRY_POOL_SIZE
  BY HeldFewer
<1>3. H \subseteq EntryBlock /\ Links(EntryBlock, d.entryNext)
  BY SoundFacts
<1> HIDE DEF H
<1>4. \E b \in EntryBlock : ~d.entryUsed[b]
  <2>1. Cardinality(EntryBlock) = Q_ENTRY_POOL_SIZE
    BY ForwardingMemAssumption, FS_Interval DEF EntryBlock
  <2>2. EntryBlock # H
    BY <1>2, <2>1, ForwardingMemAssumption
  <2>3. PICK b \in EntryBlock : b \notin H
    BY <1>3, <2>2
  <2> QED
    BY <1>1, <2>3
<1>5. \E m \in MsgBlock : ~d.msgUsed[m]
  <2>1. IsFiniteSet(MsgBlock) /\ Cardinality(MsgBlock) = MESSAGE_POOL_SIZE
    BY ForwardingMemAssumption, FS_Interval DEF MsgBlock
  <2>2. SUFFICES ASSUME \A m \in MsgBlock : d.msgUsed[m] PROVE FALSE
    OBVIOUS
  <2>3. \A m \in MsgBlock : \E b \in H : d.msgOf[b] = m
    BY <1>1, <2>2 DEF Owned
  <2> DEFINE owner == [m \in MsgBlock |-> CHOOSE b \in H : d.msgOf[b] = m]
  <2>4. \A m \in MsgBlock : owner[m] \in H /\ d.msgOf[owner[m]] = m
    BY <2>3
  <2>5. owner \in [MsgBlock -> H]
    BY <2>4
  <2> HIDE DEF owner
  <2>6. Cardinality(H) < Cardinality(MsgBlock)
    BY <1>2, <2>1, ForwardingMemAssumption
  <2>7. PICK x, y \in MsgBlock : x # y /\ owner[x] = owner[y]
    BY <1>2, <2>1, <2>5, <2>6, FS_PigeonHole
  <2> QED
    BY <2>4, <2>7
<1>6. Length(d.entryPool, d.entryNext) < Q_ENTRY_POOL_SIZE
  <2>1. PICK p, n : ListOf(p, n, d.entryPool, d.entryNext) /\ Elems(p, n) \subseteq H
    BY <1>1, PoolIsList DEF H
  <2>2. Length(d.entryPool, d.entryNext) = n
    BY <1>3, <2>1, ListFacts
  <2>3. n \in Nat /\ IsFiniteSet(Elems(p, n)) /\ Cardinality(Elems(p, n)) = n
    BY <1>3, <2>1, ListFits
  <2>4. n <= Cardinality(H)
    BY <1>2, <2>1, <2>3, FS_Subset
  <2> QED
    BY <1>2, <2>2, <2>3, <2>4, ForwardingMemAssumption
<1> QED
  BY <1>4, <1>5, <1>6

----------------------------------------------------------------------------
(* The steps: from a stack with the packets s and the packets f in sendQe   *)
(* to a stack with t and g in sendQe, as FwdStack has it                    *)
StackMove(s, f, t, g) ==
  \/ ~Crowded /\ \E p \in Packet : t = Atop(p, Roomy(s)) /\ g = f
  \/ /\ Crowded \/ Len(Roomy(s)) >= SEND_STACK_SIZE - 1
     /\ t = Roomy(s) /\ g = f
  \/ f = {} /\ s # <<>> /\ g = {Head(s)} /\ t = Tail(s)
  \/ \E p \in f : t = Atop(p, Roomy(s)) /\ g = {}
  \/ f # {} /\ g = {} /\ t = s

Sending(d, qe) == IF qe = NULL THEN {} ELSE {PacketOf(d, qe)}

(* the memory and the packets after a step, whatever it was                 *)
Moved(c, k) ==
  \E e, h : /\ Sound(AsTheyAre', sendQe', e, h)
            /\ StackMove(Contents(AsTheyAre, c, k), Sending(AsTheyAre, sendQe),
                         Contents(AsTheyAre', e, h), Sending(AsTheyAre', sendQe'))

(* Send and forward: whatever link comes with the message.                  *)
LEMMA EnqueueStep ==
  ASSUME NEW c, NEW k, Sound(AsTheyAre, sendQe, c, k),
         NEW links \in SUBSET (MsgBlock \cup {NULL}), Enqueue(links)
  PROVE  Moved(c, k)
<1> DEFINE d == Discarded
           A == AsTheyAre'
           s == Contents(AsTheyAre, c, k)
<1>1. PICK e, h : /\ Sound(d, sendQe, e, h) /\ h < SEND_STACK_SIZE
                  /\ Contents(d, e, h) = Roomy(s)
                  /\ sendQe # NULL => PacketOf(d, sendQe) = PacketOf(AsTheyAre, sendQe)
  BY StackDiscarded
<1>2. /\ sendQe' = sendQe
      /\ \/ PoolsHaveRoom(d) /\ \E link \in links : Stored(d, link) \/ Withdrawn(d, link)
         \/ ~PoolsHaveRoom(d) /\ Refused(d)
  BY DEF Enqueue
<1>3. /\ Length(d.msgPool, d.msgNext) \in Nat
      /\ Crowded <=> Length(d.msgPool, d.msgNext) >= MESSAGE_POOL_SIZE
  BY <1>1, MsgLength DEF Sound, Crowded
<1>4. PoolsHaveRoom(d) <=> ~Crowded
  <2> HIDE DEF d
  <2> QED
    BY <1>1, <1>3, BlocksAreLeft, ForwardingMemAssumption DEF PoolsHaveRoom
<1>5. ASSUME PoolsHaveRoom(d), NEW link \in links, Stored(d, link)
      PROVE  Moved(c, k)
  <2> HIDE DEF d
  <2>1. PICK x, p : /\ p \in Packet /\ Sound(A, sendQe, x, h + 1)
                    /\ Contents(A, x, h + 1) = Atop(p, Contents(d, e, h))
                    /\ sendQe # NULL => PacketOf(A, sendQe) = PacketOf(d, sendQe)
    BY <1>1, <1>5, StoredStep
  <2> HIDE DEF A, s
  <2>2. Sending(A, sendQe') = Sending(AsTheyAre, sendQe)
    BY <1>1, <1>2, <2>1 DEF Sending
  <2>3. StackMove(s, Sending(AsTheyAre, sendQe), Contents(A, x, h + 1), Sending(A, sendQe'))
    BY <1>1, <1>4, <1>5, <2>1, <2>2 DEF StackMove
  <2> QED
    BY <1>2, <2>1, <2>3 DEF Moved, A, s
(* either way of not storing the packet leaves the memory as it was         *)
<1>6. ASSUME Sound(A, sendQe', e, h), \A x : PacketOf(A, x) = PacketOf(d, x),
             Crowded \/ h >= SEND_STACK_SIZE - 1
      PROVE  Moved(c, k)
  <2> HIDE DEF d, A
  <2>1. Len(Contents(d, e, h)) = h
    BY <1>1, SoundFacts
  <2> HIDE DEF s
  <2>2. Contents(A, e, h) = Roomy(s) /\ Sending(A, sendQe') = Sending(AsTheyAre, sendQe)
    BY <1>1, <1>2, <1>6 DEF Contents, Sending
  <2>3. StackMove(s, Sending(AsTheyAre, sendQe), Contents(A, e, h), Sending(A, sendQe'))
    BY <1>1, <1>6, <2>1, <2>2 DEF StackMove
  <2> QED
    BY <1>6, <2>3 DEF Moved, A, s
<1>7. ASSUME PoolsHaveRoom(d), NEW link \in links, Withdrawn(d, link)
      PROVE  Moved(c, k)
  <2> HIDE DEF d
  <2>1. /\ Sound(A, sendQe, e, h) /\ h >= SEND_STACK_SIZE - 1
        /\ \A x : PacketOf(A, x) = PacketOf(d, x)
    BY <1>1, <1>7, WithdrawnStep
  <2> HIDE DEF A
  <2> QED
    BY <1>2, <1>6, <2>1
<1>8. CASE ~PoolsHaveRoom(d) /\ Refused(d)
  <2> HIDE DEF d
  <2>1. /\ A.entryUsed = d.entryUsed /\ A.entryNext = d.entryNext
        /\ A.entryPool = d.entryPool /\ A.sendStack = d.sendStack
        /\ A.msgUsed = d.msgUsed /\ A.msgNext = d.msgNext /\ A.msgPool = d.msgPool
        /\ A.msgOf = d.msgOf /\ A.store = d.store
    BY <1>8 DEF Refused, AsTheyAre
  <2> HIDE DEF A
  <2>2. Sound(A, sendQe', e, h)
    BY <1>1, <1>2, <2>1 DEF Sound
  <2>3. \A x : PacketOf(A, x) = PacketOf(d, x)
    BY <2>1 DEF PacketOf
  <2> QED
    BY <1>4, <1>6, <1>8, <2>2, <2>3
<1> QED
  BY <1>2, <1>5, <1>7, <1>8

LEMMA PopStep ==
  ASSUME NEW c, NEW k, Sound(AsTheyAre, sendQe, c, k), Pop
  PROVE  Moved(c, k)
<1> DEFINE A == AsTheyAre'
           s == Contents(AsTheyAre, c, k)
           e == Rest(c, k)
           h == k - 1
           t == Contents(A, e, h)
<1>1. /\ sendQe = NULL /\ sendStack # NULL /\ sendQe' = sendStack
      /\ A.entryUsed = entryUsed /\ A.entryNext = entryNext /\ A.entryPool = entryPool
      /\ A.sendStack = entryNext[sendStack] /\ A.msgOf = msgOf /\ A.msgUsed = msgUsed
      /\ A.msgNext = msgNext /\ A.msgPool = msgPool /\ A.store = store
  BY DEF Pop, msgVars, AsTheyAre
<1>2. /\ TwoLists(entryPool, sendStack, entryNext, NULL, c, k) /\ k <= SEND_STACK_SIZE
      /\ entryUsed \in [EntryBlock -> BOOLEAN]
      /\ \A b \in EntryBlock : entryUsed[b] <=> b \in Held(NULL, c, k)
      /\ Owned(Held(NULL, c, k), msgOf, msgUsed) /\ MsgLinks(msgPool, msgNext)
      /\ store \in [MsgBlock -> Packet \cup {Blank}]
  BY <1>1 DEF Sound, AsTheyAre
<1>3. /\ TwoLists(entryPool, entryNext[sendStack], entryNext, sendStack, e, h)
      /\ Elems(e, h) = Elems(c, k) \ {sendStack}
      /\ k # 0 /\ sendStack = c[1] /\ sendStack \in Elems(c, k)
  BY <1>1, <1>2, TopLeaves
<1>4. /\ k \in Nat /\ NULL \notin Elems(c, k)
      /\ s \in Seq(Packet \cup {Blank}) /\ Len(s) = k
  BY <1>1, SoundFacts
<1> HIDE DEF A, h, e, s, t
<1>5. Held(sendStack, e, h) = Held(NULL, c, k)
  BY <1>3, <1>4 DEF Held
<1>6. h <= SEND_STACK_SIZE
  BY <1>2, <1>4, ForwardingMemAssumption DEF h
<1>7. Sound(A, sendQe', e, h)
  BY <1>1, <1>2, <1>3, <1>5, <1>6 DEF Sound
<1>8. \A b : PacketOf(A, b) = PacketOf(AsTheyAre, b)
  BY <1>1 DEF PacketOf, AsTheyAre
<1>9. s # <<>> /\ Head(s) = PacketOf(AsTheyAre, c[1])
  <2>1. s[1] = PacketOf(AsTheyAre, c[1])
    BY <1>3, <1>4 DEF s, Contents
  <2> QED
    BY <1>3, <1>4, <2>1
<1>10. t = Tail(s)
  <2>1. t \in Seq(Packet \cup {Blank}) /\ Len(t) = h
    BY <1>7, SoundFacts DEF t
  <2>2. /\ Tail(s) \in Seq(Packet \cup {Blank}) /\ Len(Tail(s)) = Len(s) - 1
        /\ \A i \in 1 .. Len(Tail(s)) : Tail(s)[i] = s[i + 1]
    BY <1>4, <1>9, HeadTailProperties
  <2>3. Len(Tail(s)) = h
    BY <1>4, <2>2 DEF h
  <2>4. ASSUME NEW i \in 1 .. h PROVE t[i] = Tail(s)[i]
    <3>1. i + 1 \in 1 .. k /\ e[i] = c[i + 1]
      BY <1>4 DEF h, e, Rest
    <3>2. t[i] = PacketOf(AsTheyAre, c[i + 1])
      BY <1>8, <3>1 DEF t, Contents
    <3>3. s[i + 1] = PacketOf(AsTheyAre, c[i + 1])
      BY <3>1 DEF s, Contents
    <3> QED
      BY <2>2, <2>3, <3>2, <3>3
  <2> QED
    BY <2>1, <2>2, <2>3, <2>4, SeqEqual
<1>11. Sending(AsTheyAre, sendQe) = {} /\ Sending(A, sendQe') = {Head(s)}
  BY <1>1, <1>3, <1>8, <1>9 DEF Sending
<1>12. StackMove(s, Sending(AsTheyAre, sendQe), t, Sending(A, sendQe'))
  BY <1>9, <1>10, <1>11 DEF StackMove
<1> QED
  BY <1>7, <1>12 DEF Moved, A, s, t

LEMMA PutBackStep ==
  ASSUME NEW c, NEW k, Sound(AsTheyAre, sendQe, c, k), PutBack
  PROVE  Moved(c, k)
<1> DEFINE d == Discarded
           A == AsTheyAre'
           s == Contents(AsTheyAre, c, k)
           qe == sendQe
           stack == Pushed(d.sendStack, d.entryNext, qe)
<1>1. PICK b, j : /\ Sound(d, qe, b, j) /\ j < SEND_STACK_SIZE
                  /\ Contents(d, b, j) = Roomy(s)
                  /\ qe # NULL => PacketOf(d, qe) = PacketOf(AsTheyAre, qe)
  BY StackDiscarded
<1>2. /\ qe # NULL /\ sendQe' = NULL
      /\ A.entryUsed = d.entryUsed /\ A.entryNext = stack.next
      /\ A.entryPool = d.entryPool /\ A.sendStack = stack.head
      /\ A.msgUsed = d.msgUsed /\ A.msgNext = d.msgNext /\ A.msgPool = d.msgPool
      /\ A.msgOf = d.msgOf /\ A.store = d.store
  BY DEF PutBack, OnTop, AsTheyAre
<1> DEFINE e == Cons(qe, b, j)
           h == j + 1
<1> HIDE DEF d, A, s, qe
<1>3. /\ TwoLists(d.entryPool, d.sendStack, d.entryNext, qe, b, j)
      /\ d.entryUsed \in [EntryBlock -> BOOLEAN]
      /\ \A x \in EntryBlock : d.entryUsed[x] <=> x \in Held(qe, b, j)
      /\ Owned(Held(qe, b, j), d.msgOf, d.msgUsed) /\ MsgLinks(d.msgPool, d.msgNext)
      /\ d.store \in [MsgBlock -> Packet \cup {Blank}]
  BY <1>1 DEF Sound
<1>4. /\ j \in Nat /\ Elems(b, j) \subseteq EntryBlock /\ NULL \notin Elems(b, j)
      /\ Contents(d, b, j) \in Seq(Packet \cup {Blank}) /\ Len(Contents(d, b, j)) = j
  <2>1. NULL \notin EntryBlock
    BY DEF EntryBlock, NULL
  <2> QED
    BY <1>1, <2>1, SoundFacts
<1>5. /\ TwoLists(d.entryPool, stack.head, stack.next, NULL, e, h)
      /\ Elems(e, h) = Elems(b, j) \cup {qe}
  BY <1>2, <1>3, EntryReturns
<1>6. \A x : PacketOf(A, x) = PacketOf(d, x)
  BY <1>2 DEF PacketOf
<1>7. Contents(A, e, h) = Atop(PacketOf(A, qe), Contents(d, b, j))
  BY <1>4, <1>6, ContentsPushed
<1> HIDE DEF e, h, stack
<1>8. Held(NULL, e, h) = Held(qe, b, j)
  BY <1>2, <1>5 DEF Held
<1>9. h <= SEND_STACK_SIZE
  BY <1>1, <1>4, ForwardingMemAssumption DEF h
<1>10. Sound(A, NULL, e, h)
  BY <1>2, <1>3, <1>5, <1>8, <1>9 DEF Sound
<1>11. /\ Sending(AsTheyAre, sendQe) = {PacketOf(AsTheyAre, qe)}
       /\ Sending(A, sendQe') = {}
       /\ Contents(A, e, h) = Atop(PacketOf(AsTheyAre, qe), Roomy(s))
  BY <1>1, <1>2, <1>6, <1>7 DEF Sending, qe
<1>12. StackMove(s, Sending(AsTheyAre, sendQe), Contents(A, e, h), Sending(A, sendQe'))
  BY <1>11 DEF StackMove
<1>13. Sound(A, sendQe', e, h)
  BY <1>2, <1>10
<1> QED
  BY <1>12, <1>13 DEF Moved, A, s

LEMMA ReleaseStep ==
  ASSUME NEW c, NEW k, Sound(AsTheyAre, sendQe, c, k), Release
  PROVE  Moved(c, k)
<1> DEFINE A == AsTheyAre'
           s == Contents(AsTheyAre, c, k)
           t == Contents(A, c, k)
           qe == sendQe
           msgs == Removed(msgPool, msgNext, msgOf[qe])
           pool == Removed(entryPool, entryNext, qe)
           H == Held(qe, c, k)
           R == Held(NULL, c, k)
<1>1. /\ qe # NULL /\ sendQe' = NULL
      /\ A.entryUsed = [entryUsed EXCEPT ![qe] = FALSE] /\ A.entryNext = pool.next
      /\ A.entryPool = pool.head /\ A.sendStack = sendStack
      /\ A.msgUsed = [msgUsed EXCEPT ![msgOf[qe]] = FALSE]
      /\ A.msgNext = msgs.next /\ A.msgPool = msgs.head
      /\ A.msgOf = [msgOf EXCEPT ![qe] = NULL]
      /\ A.store = [store EXCEPT ![msgOf[qe]] = Blank]
  BY DEF Release, AsTheyAre
<1>2. /\ TwoLists(entryPool, sendStack, entryNext, qe, c, k) /\ k <= SEND_STACK_SIZE
      /\ entryUsed \in [EntryBlock -> BOOLEAN]
      /\ \A b \in EntryBlock : entryUsed[b] <=> b \in H
      /\ Owned(H, msgOf, msgUsed) /\ MsgLinks(msgPool, msgNext)
      /\ store \in [MsgBlock -> Packet \cup {Blank}]
  BY DEF Sound, AsTheyAre
<1>3. TwoLists(pool.head, sendStack, pool.next, NULL, c, k)
  BY <1>1, <1>2, EntryLeaves
<1>4. H \subseteq EntryBlock /\ qe \notin Elems(c, k)
  BY SoundFacts
<1>5. R = H \ {qe} /\ qe \in H /\ Elems(c, k) = R
  <2>1. NULL \notin Elems(c, k)
    BY <1>3 DEF TwoLists
  <2> QED
    BY <1>1, <1>4, <2>1 DEF Held
<1>6. msgOf[qe] \in MsgBlock
  BY <1>2, <1>5 DEF Owned
<1>7. MsgLinks(msgs.head, msgs.next)
  BY <1>2, <1>6, RemovedTyped
<1> HIDE DEF A, H, qe, msgs, pool, t, s
<1>8. Owned(R, A.msgOf, A.msgUsed)
  <2>1. Owned(H \ {qe}, [msgOf EXCEPT ![qe] = NULL], [msgUsed EXCEPT ![msgOf[qe]] = FALSE])
    BY <1>2, <1>4, <1>5, OwnedLess
  <2> QED
    BY <1>1, <1>5, <2>1
<1>9. /\ A.entryUsed \in [EntryBlock -> BOOLEAN]
      /\ \A b \in EntryBlock : A.entryUsed[b] <=> b \in R
      /\ A.store \in [MsgBlock -> Packet \cup {Blank}]
  BY <1>1, <1>2, <1>5, <1>6
<1>10. Sound(A, NULL, c, k)
  BY <1>1, <1>2, <1>3, <1>7, <1>8, <1>9 DEF Sound
<1>11. ASSUME NEW b \in R PROVE PacketOf(A, b) = PacketOf(AsTheyAre, b)
  <2>1. b \in H /\ b # qe /\ b \in EntryBlock
    BY <1>4, <1>5
  <2>2. msgOf[b] \in MsgBlock /\ msgOf[b] # msgOf[qe] /\ A.msgOf[b] = msgOf[b]
    BY <1>1, <1>2, <1>5, <2>1 DEF Owned
  <2>3. A.store[msgOf[b]] = store[msgOf[b]]
    BY <1>1, <1>2, <2>2
  <2> QED
    BY <2>2, <2>3 DEF PacketOf, AsTheyAre
<1>12. t = s
  <2>1. \A i \in 1 .. k : c[i] \in R
    BY <1>5 DEF Elems
  <2> QED
    BY <1>11, <2>1 DEF t, s, Contents
<1>13. Sending(AsTheyAre, sendQe) # {} /\ Sending(A, sendQe') = {}
  BY <1>1 DEF Sending, qe
<1>14. StackMove(s, Sending(AsTheyAre, sendQe), t, Sending(A, sendQe'))
  BY <1>12, <1>13 DEF StackMove
<1>15. Sound(A, sendQe', c, k)
  BY <1>1, <1>10
<1> QED
  BY <1>14, <1>15 DEF Moved, A, s, t

----------------------------------------------------------------------------
(* The two lists of entries and the messages are sound in every state.      *)
PoolInv == \E c, k : Sound(AsTheyAre, sendQe, c, k)

LEMMA PoolStart ==
  ASSUME PoolInit
  PROVE  \E c : /\ Sound(AsTheyAre, sendQe, c, 0) /\ Contents(AsTheyAre, c, 0) = <<>>
                /\ Sending(AsTheyAre, sendQe) = {}
<1> DEFINE c == [i \in 1 .. 0 |-> 0]
<1>1. /\ entryUsed = [b \in EntryBlock |-> FALSE] /\ entryNext = [b \in EntryBlock |-> NULL]
      /\ msgOf = [b \in EntryBlock |-> NULL]
      /\ entryPool = NULL /\ sendStack = NULL /\ sendQe = NULL
      /\ msgUsed = [m \in MsgBlock |-> FALSE] /\ msgNext = [m \in MsgBlock |-> NULL]
      /\ store = [m \in MsgBlock |-> Blank] /\ msgPool = NULL
  BY DEF PoolInit
<1>2. c \in [1 .. 0 -> DOMAIN entryNext] /\ Contents(AsTheyAre, c, 0) = <<>>
  BY DEF Contents
<1> HIDE DEF c
<1>3. ListOf(c, 0, sendStack, entryNext) /\ Elems(c, 0) = {}
  BY <1>1, <1>2, EmptyList
<1>4. Held(sendQe, c, 0) = {}
  BY <1>1, <1>3 DEF Held
<1>5. TwoLists(entryPool, sendStack, entryNext, sendQe, c, 0)
  BY <1>1, <1>3, <1>4 DEF TwoLists
<1>6. Owned(Held(sendQe, c, 0), msgOf, msgUsed) /\ MsgLinks(msgPool, msgNext)
  BY <1>1, <1>4 DEF Owned, MsgLinks
<1>7. Sound(AsTheyAre, sendQe, c, 0)
  BY <1>1, <1>4, <1>5, <1>6, ForwardingMemAssumption DEF Sound, AsTheyAre
<1>8. Sending(AsTheyAre, sendQe) = {}
  BY <1>1 DEF Sending
<1> QED
  BY <1>2, <1>7, <1>8

LEMMA PoolStep ==
  ASSUME NEW c, NEW k, Sound(AsTheyAre, sendQe, c, k), PoolNext
  PROVE  Moved(c, k)
<1>1. CASE LocalSend
  <2>1. {NULL} \in SUBSET (MsgBlock \cup {NULL})
    OBVIOUS
  <2> QED
    BY <1>1, <2>1, EnqueueStep DEF LocalSend
<1>2. CASE Forward
  <2>1. MsgBlock \cup {NULL} \in SUBSET (MsgBlock \cup {NULL})
    OBVIOUS
  <2> QED
    BY <1>2, <2>1, EnqueueStep DEF Forward
<1>3. CASE Pop
  BY <1>3, PopStep
<1>4. CASE PutBack
  BY <1>4, PutBackStep
<1>5. CASE Release
  BY <1>5, ReleaseStep
<1> QED
  BY <1>1, <1>2, <1>3, <1>4, <1>5 DEF PoolNext

(* Every step finds the memory sound and leaves it sound.                   *)
THEOREM PoolInvInductive == PoolSpec => []PoolInv
<1>1. PoolInit => PoolInv
  BY PoolStart DEF PoolInv
<1>2. PoolInv /\ [PoolNext]_poolVars => PoolInv'
  <2> SUFFICES ASSUME PoolInv, [PoolNext]_poolVars PROVE PoolInv'
    OBVIOUS
  <2>1. PICK c, k : Sound(AsTheyAre, sendQe, c, k)
    BY DEF PoolInv
  <2>2. CASE PoolNext
    BY <2>1, <2>2, PoolStep DEF Moved, PoolInv
  <2>3. CASE UNCHANGED poolVars
    <3>1. AsTheyAre' = AsTheyAre /\ sendQe' = sendQe
      BY <2>3 DEF poolVars, entryVars, msgVars, AsTheyAre
    <3>2. Sound(AsTheyAre', sendQe', c, k)
      BY <2>1, <3>1
    <3> QED
      BY <3>2 DEF PoolInv
  <2> QED
    BY <2>2, <2>3
<1> QED
  BY <1>1, <1>2, PTL DEF PoolSpec

(* What the run checks follows from it.                                     *)
LEMMA PoolFacts ==
  ASSUME PoolInv
  PROVE  PoolTypeOK /\ EntryListsSound /\ MessagesOwned
<1>1. PICK c, k : Sound(AsTheyAre, sendQe, c, k)
  BY DEF PoolInv
<1> DEFINE H == Held(sendQe, c, k)
<1>2. /\ TwoLists(entryPool, sendStack, entryNext, sendQe, c, k)
      /\ k <= SEND_STACK_SIZE /\ entryUsed \in [EntryBlock -> BOOLEAN]
      /\ \A b \in EntryBlock : entryUsed[b] <=> b \in H
      /\ Owned(H, msgOf, msgUsed) /\ MsgLinks(msgPool, msgNext)
      /\ store \in [MsgBlock -> Packet \cup {Blank}]
  BY <1>1 DEF Sound, AsTheyAre
<1>3. /\ H \subseteq EntryBlock /\ sendQe \in EntryBlock \cup {NULL}
      /\ sendQe \notin Elems(c, k) /\ Links(EntryBlock, entryNext)
      /\ ListOf(c, k, sendStack, entryNext) /\ Length(sendStack, entryNext) = k
      /\ Elems(c, k) \subseteq EntryBlock /\ NULL \notin EntryBlock
  BY <1>1, SoundFacts DEF AsTheyAre, Links
<1>4. Met(sendStack, entryNext) = Elems(c, k) \cup {NULL} /\ Ends(sendStack, entryNext)
  BY <1>3, ListFacts
<1>5. Blocks = Elems(c, k) /\ InUse = H
  BY <1>3, <1>4 DEF Blocks, InUse, Held
<1>6. PICK p, n : ListOf(p, n, entryPool, entryNext) /\ Elems(p, n) \subseteq H
  BY <1>2, PoolIsList
<1>7. Met(entryPool, entryNext) = Elems(p, n) \cup {NULL} /\ Ends(entryPool, entryNext)
  BY <1>3, <1>6, ListFacts
<1>8. sendStack \in EntryBlock \cup {NULL} /\ entryPool \in EntryBlock \cup {NULL}
      /\ entryNext \in [EntryBlock -> EntryBlock \cup {NULL}]
  BY <1>2, <1>3 DEF TwoLists, ListOf, Links
<1> HIDE DEF H
<1>9. PoolTypeOK
  BY <1>2, <1>3, <1>8 DEF PoolTypeOK, Owned, MsgLinks
<1>10. EntryListsSound
  BY <1>2, <1>3, <1>4, <1>5, <1>6, <1>7 DEF EntryListsSound, On
<1>11. MessagesOwned
  BY <1>2, <1>5 DEF MessagesOwned, Owned
<1> QED
  BY <1>9, <1>10, <1>11

(* Every variable keeps its type and the stack its limit.                   *)
THEOREM PoolTypeCorrect == PoolSpec => []PoolTypeOK
BY PoolInvInductive, PoolFacts, PTL

(* The stack and q_entry_pool stay lists although an entry has one link for *)
(* both, whatever links arrive with the messages: subSend_sendDone,         *)
(* conditionalFQDiscard and list_push leave no loop, no lost entry and no   *)
(* free block on a list.                                                    *)
THEOREM EntryListsStaySound == PoolSpec => []EntryListsSound
BY PoolInvInductive, PoolFacts, PTL

(* No two packets share a block of message_pool_mem and no block is lost,   *)
(* although the links of message_pool are those of other nodes.             *)
THEOREM MessagesStayOwned == PoolSpec => []MessagesOwned
BY PoolInvInductive, PoolFacts, PTL

----------------------------------------------------------------------------
(* The refinement of FwdStack *)

PacketsOf(d) ==
  [i \in 1 .. Length(d.sendStack, d.entryNext) |->
     PacketOf(d, Path(d.sendStack, d.entryNext)[i - 1])]

LEMMA PacketsAreContents ==
  ASSUME NEW d, NEW qe, NEW c, NEW k, Sound(d, qe, c, k)
  PROVE  PacketsOf(d) = Contents(d, c, k)
<1>1. /\ Length(d.sendStack, d.entryNext) = k
      /\ Links(EntryBlock, d.entryNext) /\ ListOf(c, k, d.sendStack, d.entryNext)
  BY SoundFacts
<1>2. \A i \in 1 .. k : Path(d.sendStack, d.entryNext)[i - 1] = c[i]
  BY <1>1, ListFacts
<1> QED
  BY <1>1, <1>2 DEF PacketsOf, Contents

LEMMA MapsTo ==
  /\ Packets = PacketsOf(AsTheyAre) /\ Packets' = PacketsOf(AsTheyAre')
  /\ (IF sendQe = NULL THEN {} ELSE {store[msgOf[sendQe]]}) = Sending(AsTheyAre, sendQe)
  /\ (IF sendQe = NULL THEN {} ELSE {store[msgOf[sendQe]]})' = Sending(AsTheyAre', sendQe')
BY DEF Packets, PacketsOf, PacketOf, Sending, AsTheyAre

(* Every step of the memory maps to a step of FwdStack or to a stutter.     *)
LEMMA MemStackStep ==
  ASSUME PoolInv, [PoolNext]_poolVars
  PROVE  [Stack!Next]_(Stack!vars)
<1> DEFINE f == IF sendQe = NULL THEN {} ELSE {store[msgOf[sendQe]]}
<1>1. PICK c, k : Sound(AsTheyAre, sendQe, c, k)
  BY DEF PoolInv
<1>2. CASE PoolNext
  <2>1. PICK e, h : /\ Sound(AsTheyAre', sendQe', e, h)
                    /\ StackMove(Contents(AsTheyAre, c, k), Sending(AsTheyAre, sendQe),
                                 Contents(AsTheyAre', e, h), Sending(AsTheyAre', sendQe'))
    BY <1>1, <1>2, PoolStep DEF Moved
  <2>2. Packets = Contents(AsTheyAre, c, k) /\ Packets' = Contents(AsTheyAre', e, h)
    BY <1>1, <2>1, PacketsAreContents, MapsTo
  <2>3. f = Sending(AsTheyAre, sendQe) /\ f' = Sending(AsTheyAre', sendQe')
    BY MapsTo
  <2>4. StackMove(Packets, f, Packets', f')
    BY <2>1, <2>2, <2>3
  <2> HIDE DEF f
  <2>5. \/ ~Crowded /\ \E p \in Packet : Packets' = Atop(p, Roomy(Packets)) /\ f' = f
        \/ /\ Crowded \/ Len(Roomy(Packets)) >= SEND_STACK_SIZE - 1
           /\ Packets' = Roomy(Packets) /\ f' = f
        \/ f = {} /\ Packets # <<>> /\ f' = {Head(Packets)} /\ Packets' = Tail(Packets)
        \/ \E p \in f : Packets' = Atop(p, Roomy(Packets)) /\ f' = {}
        \/ f # {} /\ f' = {} /\ Packets' = Packets
    BY <2>4 DEF StackMove
  <2>6. Stack!WithRoom(Packets) = Roomy(Packets) /\ Crowded' \in BOOLEAN
    BY DEF Stack!WithRoom, Roomy, Crowded
  <2>7. CASE ~Crowded /\ \E p \in Packet : Packets' = Atop(p, Roomy(Packets)) /\ f' = f
    <3>1. PICK p \in Packet : Packets' = Atop(p, Roomy(Packets)) /\ f' = f
      BY <2>7
    <3>2. Stack!Take(p)
      BY <2>6, <2>7, <3>1 DEF Stack!Take, Atop, f
    <3> QED
      BY <2>6, <3>2 DEF Stack!Next
  <2>8. CASE /\ Crowded \/ Len(Roomy(Packets)) >= SEND_STACK_SIZE - 1
             /\ Packets' = Roomy(Packets) /\ f' = f
    <3>1. Stack!Drop
      BY <2>6, <2>8 DEF Stack!Drop, f
    <3> QED
      BY <2>6, <3>1 DEF Stack!Next
  <2>9. CASE f = {} /\ Packets # <<>> /\ f' = {Head(Packets)} /\ Packets' = Tail(Packets)
    BY <2>6, <2>9 DEF Stack!Next, Stack!Turn, f
  <2>10. CASE \E p \in f : Packets' = Atop(p, Roomy(Packets)) /\ f' = {}
    <3>1. Stack!PutBack
      BY <2>6, <2>10 DEF Stack!PutBack, Atop, f
    <3> QED
      BY <2>6, <3>1 DEF Stack!Next
  <2>11. CASE f # {} /\ f' = {} /\ Packets' = Packets
    BY <2>6, <2>11 DEF Stack!Next, Stack!Sent, f
  <2> QED
    BY <2>5, <2>7, <2>8, <2>9, <2>10, <2>11
<1>3. CASE UNCHANGED poolVars
  <2>1. Packets' = Packets /\ f' = f
    BY <1>3 DEF poolVars, entryVars, msgVars, Packets
  <2>2. Crowded' = Crowded
    BY <1>3 DEF poolVars, entryVars, msgVars, Crowded, Discarded, WithoutOldest, AsTheyAre,
                IsFull, Oldest, DropFromPool, FreeOldestMsg
  <2> QED
    BY <2>1, <2>2 DEF Stack!vars
<1> QED
  BY <1>2, <1>3

(* The blocks and links implement FwdStack: every order of arrivals, turns, *)
(* failures and releases leaves the packets in the order it promises.       *)
THEOREM MemKeepsStack == PoolSpec => KeepsStack
<1>1. PoolInit => Stack!Init
  <2> SUFFICES ASSUME PoolInit PROVE Stack!Init
    OBVIOUS
  <2>1. PICK c : /\ Sound(AsTheyAre, sendQe, c, 0) /\ Contents(AsTheyAre, c, 0) = <<>>
                 /\ Sending(AsTheyAre, sendQe) = {}
    BY PoolStart
  <2>2. Packets = <<>>
    BY <2>1, PacketsAreContents, MapsTo
  <2>3. Crowded = FALSE
    <3> DEFINE none == [i \in 1 .. 0 |-> 0]
    <3>1. /\ Length(sendStack, entryNext) = 0 /\ msgPool = NULL
          /\ msgNext = [m \in MsgBlock |-> NULL]
      BY <2>1, SoundFacts DEF PoolInit, AsTheyAre
    <3>2. Discarded = AsTheyAre
      BY <3>1, ForwardingMemAssumption DEF Discarded, IsFull
    <3>3. none \in [1 .. 0 -> DOMAIN msgNext]
      OBVIOUS
    <3> HIDE DEF none
    <3>4. ListOf(none, 0, msgPool, msgNext)
      BY <3>1, <3>3, EmptyList
    <3>5. Links(MsgBlock, msgNext)
      BY <3>1, ForwardingMemAssumption, FS_Interval DEF Links, MsgBlock, NULL
    <3>6. Length(msgPool, msgNext) = 0
      BY <3>4, <3>5, ListFacts
    <3> QED
      BY <3>2, <3>6, ForwardingMemAssumption DEF Crowded, AsTheyAre
  <2> QED
    BY <2>1, <2>2, <2>3, MapsTo DEF Stack!Init
<1> QED
  BY <1>1, MemStackStep, PoolInvInductive, PTL DEF PoolSpec, KeepsStack, Stack!Spec

----------------------------------------------------------------------------
(* memb_alloc never fails and q_entry_pool is never at its limit: the       *)
(* warnings of forward about them cannot come.  What refuses a packet is    *)
(* that foreign links make message_pool, or the new entry send_stack, look  *)
(* longer than it is.                                                       *)
THEOREM BlocksAlwaysLeft == PoolSpec => []BlocksLeft
<1>1. PoolInv => BlocksLeft
  <2> SUFFICES ASSUME PoolInv PROVE BlocksLeft
    OBVIOUS
  <2>1. PICK c, k : Sound(AsTheyAre, sendQe, c, k)
    BY DEF PoolInv
  <2>2. PICK e, h : Sound(Discarded, sendQe, e, h) /\ h < SEND_STACK_SIZE
    BY <2>1, StackDiscarded
  <2> QED
    BY <2>2, BlocksAreLeft DEF BlocksLeft
<1> QED
  BY <1>1, PoolInvInductive, PTL

(* list_add on q_entry_pool makes list_length(send_stack) one too many      *)
(* where the two lists share their end, and never more: this is what the    *)
(* second test of the stack in forward and forwardingEngine_Send reads.     *)
THEOREM StackLooksLonger == PoolSpec => []LooksOneLonger
<1>1. PoolInv => LooksOneLonger
  <2> SUFFICES ASSUME PoolInv PROVE LooksOneLonger
    OBVIOUS
  <2> DEFINE d == Discarded
             b == NewEntry(d)
  <2>1. PICK c, k : Sound(AsTheyAre, sendQe, c, k)
    BY DEF PoolInv
  <2>2. PICK e, h : Sound(d, sendQe, e, h) /\ h < SEND_STACK_SIZE
    BY <2>1, StackDiscarded
  <2> HIDE DEF d
  <2>3. /\ TwoLists(d.entryPool, d.sendStack, d.entryNext, sendQe, e, h)
        /\ d.entryUsed \in [EntryBlock -> BOOLEAN]
        /\ \A x \in EntryBlock : d.entryUsed[x] <=> x \in Held(sendQe, e, h)
    BY <2>2 DEF Sound
  <2>4. /\ h \in Nat /\ Length(d.sendStack, d.entryNext) = h
        /\ ListOf(e, h, d.sendStack, d.entryNext) /\ e \in [1 .. h -> EntryBlock]
        /\ h > 0 => Last(d.sendStack, d.entryNext) = e[h]
    BY <2>2, SoundFacts
  <2>5. b \in EntryBlock /\ b \notin Held(sendQe, e, h)
    <3>1. PICK x \in EntryBlock : ~d.entryUsed[x]
      BY <2>2, BlocksAreLeft
    <3>2. Q_ENTRY_POOL_SIZE - 1 \in Int
      BY ForwardingMemAssumption
    <3>3. b \in EntryBlock /\ ~d.entryUsed[b]
      BY <2>3, <3>1, <3>2, FirstFreeIsFree DEF EntryBlock, NewEntry
    <3> QED
      BY <2>3, <3>3
  <2> HIDE DEF b
  <2>6. Length(d.sendStack, Added(d.entryPool, d.entryNext, b).next)
          = IF h # 0 /\ On(d.entryPool, d.entryNext, e[h]) THEN h + 1 ELSE h
    BY <2>3, <2>5, StackSeen
  <2>7. TailIsShared(d) <=> h # 0 /\ On(d.entryPool, d.entryNext, e[h])
    <3>1. d.sendStack = (IF h = 0 THEN NULL ELSE e[1]) /\ NULL \notin EntryBlock
      BY <2>4 DEF ListOf, EntryBlock, NULL
    <3>2. d.sendStack # NULL <=> h # 0
      BY <2>4, <3>1
    <3> QED
      BY <2>4, <3>2 DEF TailIsShared
  <2> QED
    BY <2>4, <2>6, <2>7 DEF LooksOneLonger, EntriesWith, b, d
<1> QED
  BY <1>1, PoolInvInductive, PTL
=============================================================================
