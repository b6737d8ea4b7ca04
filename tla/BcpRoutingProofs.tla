-------------------------- MODULE BcpRoutingProofs --------------------------
(* Proofs about BcpRoutingEngine, for any number of neighbours and records, *)
(* any bounds on backlogs, attempts and times, and any word wide enough.    *)
EXTENDS BcpRoutingEngine, LeastElement

----------------------------------------------------------------------------
(* Arithmetic *)

(* Both averages stay between the bounds of what is averaged.               *)
LEMMA EtxInRange ==
  ASSUME NEW n \in Nat \ {0}, NEW e \in 100 .. 100 * n, NEW c \in 1 .. n
  PROVE  Etx(e, c) \in 100 .. 100 * n
<1>1. Etx(e, c) = (e * 90 + c * 100 * 10) \div 100
  BY DEF Etx, LINK_LOSS_ALPHA
<1> QED
  BY <1>1

LEMMA TimeInRange ==
  ASSUME NEW m \in Nat \ {0}, NEW e \in 1 .. m, NEW ms \in 0 .. m
  PROVE  Time(e, ms) \in 1 .. m
<1>1. Floored(ms) \in 1 .. m
  BY DEF Floored
<1>2. Time(e, ms) = (9 * e + 1 * Floored(ms)) \div 10
  BY DEF Time, LINK_EST_ALPHA
<1> QED
  BY <1>1, <1>2

(* Integers modulo a word are told apart by their remainders.               *)
LEMMA RemainderIs ==
  ASSUME NEW w \in Nat \ {0}, NEW y \in Int, NEW r \in 0 .. w - 1, NEW k \in Int,
         y = w * k + r
  PROVE  y % w = r
BY SMTT(30)

(* A product computed modulo a word and read as a signed number is the      *)
(* product, as long as that is less than half a word away from 0.           *)
LEMMA SignedProduct ==
  ASSUME NEW d \in Int, NEW q \in Nat, WORD \in Nat \ {0},
         -WORD < d, d < WORD, 2 * (d * q) < WORD, -WORD < 2 * (d * q)
  PROVE  Signed(((d % WORD) * q) % WORD) = d * q
<1> DEFINE p == d * q
<1>0. p \in Int
  OBVIOUS
<1>1. CASE d >= 0
  <2>1. d % WORD = d
    BY <1>1
  <2>2. p >= 0
    BY <1>1
  <2>3. p % WORD = p
    BY <1>0, <2>2, RemainderIs
  <2> QED
    BY <2>1, <2>2, <2>3 DEF Signed
<1>2. CASE d < 0 /\ q = 0
  <2>1. p = 0 /\ (d % WORD) * q = 0
    BY <1>2
  <2>2. 0 % WORD = 0
    BY RemainderIs
  <2> QED
    BY <2>1, <2>2 DEF Signed
<1>3. CASE d < 0 /\ q > 0
  <2>1. d % WORD = d + WORD
    BY <1>3, RemainderIs
  <2>2. p < 0
    BY <1>3
  <2>3. (d + WORD) * q = WORD * (q - 1) + (p + WORD)
    OBVIOUS
  <2> HIDE DEF p
  <2>4. p + WORD \in 0 .. WORD - 1 /\ q - 1 \in Int
    BY <1>0, <2>2 DEF p
  <2>5. (d + WORD) * q \in Int
    OBVIOUS
  <2>6. ((d + WORD) * q) % WORD = p + WORD
    BY <2>3, <2>4, <2>5, RemainderIs
  <2>7. 2 * (p + WORD) >= WORD
    BY <1>0 DEF p
  <2> QED
    BY <1>0, <2>1, <2>6, <2>7 DEF Signed, p
<1> QED
  BY <1>1, <1>2, <1>3

----------------------------------------------------------------------------
(* Weights *)

LEMMA RecordFields ==
  ASSUME NEW r \in Record
  PROVE  /\ r.nbr \in Addr /\ r.bp \in 0 .. MAX_BACKLOG /\ r.time \in 1 .. MAX_TX_TIME
         /\ r.etx \in 100 .. 100 * MAX_RETX_ATTEMPTS
BY DEF Record, Backlog

LEMMA RateInRange ==
  ASSUME NEW r \in Record
  PROVE  /\ Rate(r) \in 0 .. PACKETS_PER_MINUTE
         /\ Rate(r) > 0 <=> r.time <= PACKETS_PER_MINUTE
<1>1. r.time \in Nat /\ r.time >= 1 /\ PACKETS_PER_MINUTE \in Nat \ {0}
  BY RecordFields, RoutingAssumption
<1> QED
  BY <1>1 DEF Rate

LEMMA LossInRange ==
  ASSUME NEW r \in Record
  PROVE  Loss(r) \in 0 .. 2 * MAX_RETX_ATTEMPTS
<1>1. r.etx \in 100 .. 100 * MAX_RETX_ATTEMPTS /\ MAX_RETX_ATTEMPTS \in Nat
  BY RecordFields, RoutingAssumption
<1> QED
  BY <1>1 DEF Loss, LINK_LOSS_V

(* A difference of backlogs times a rate is far from half a word.           *)
LEMMA ProductFits ==
  ASSUME NEW n \in Nat, NEW m \in Nat, NEW d \in -n .. n, NEW q \in 0 .. m
  PROVE  /\ d * q \in Int
         /\ d * q <= n * m /\ -(n * m) <= d * q
         /\ q > 0 => (d * q > 0 <=> d > 0)
         /\ q = 0 => d * q = 0
<1>1. n * q <= n * m /\ (-n) * q <= d * q /\ d * q <= n * q
  BY SMTT(30)
<1>2. (-n) * q = -(n * q)
  OBVIOUS
<1>3. q > 0 => (d * q > 0 <=> d > 0)
  BY SMTT(30)
<1> QED
  BY <1>1, <1>2, <1>3

LEMMA WeightIsTrue ==
  ASSUME NEW local \in Backlog, NEW r \in Record
  PROVE  /\ Weight(local, r) = TrueWeight(local, r)
         /\ TrueWeight(local, r) \in Int
         /\ TrueWeight(local, r) > 0 <=>
              r.bp + Loss(r) < local /\ r.time <= PACKETS_PER_MINUTE
<1> USE RoutingAssumption
<1> DEFINE d == local - r.bp - Loss(r)
           n == MAX_BACKLOG + 2 * MAX_RETX_ATTEMPTS
           q == Rate(r)
<1>1. /\ n \in Nat /\ d \in -n .. n
      /\ d > 0 <=> r.bp + Loss(r) < local
  BY RecordFields, LossInRange DEF Backlog
<1>2. q \in 0 .. PACKETS_PER_MINUTE /\ (q > 0 <=> r.time <= PACKETS_PER_MINUTE)
  BY RateInRange
<1>3. PACKETS_PER_MINUTE \in Nat \ {0} /\ WORD \in Nat /\ WORD > 2 * n * PACKETS_PER_MINUTE
  OBVIOUS
<1>4. Weight(local, r) = Signed(((d % WORD) * q) % WORD) /\ TrueWeight(local, r) = d * q
  BY DEF Weight, TrueWeight
<1> HIDE DEF d, n, q
<1>5. /\ d * q \in Int
      /\ d * q <= n * PACKETS_PER_MINUTE /\ -(n * PACKETS_PER_MINUTE) <= d * q
      /\ q > 0 => (d * q > 0 <=> d > 0)
      /\ q = 0 => d * q = 0
  BY <1>1, <1>2, <1>3, ProductFits
<1>6. 2 * n * PACKETS_PER_MINUTE = 2 * (n * PACKETS_PER_MINUTE)
  BY <1>1, <1>3
<1>7. n <= n * PACKETS_PER_MINUTE
  BY <1>1, <1>3
<1>8. n * PACKETS_PER_MINUTE \in Nat
  BY <1>1, <1>3
<1>9. WORD \in Nat \ {0} /\ -WORD < d /\ d < WORD
  BY <1>1, <1>3, <1>6, <1>7, <1>8
<1>10. 2 * (d * q) < WORD /\ -WORD < 2 * (d * q)
  BY <1>3, <1>5, <1>6, <1>8
<1>11. Weight(local, r) = d * q
  <2>1. d \in Int /\ q \in Nat
    BY <1>1, <1>2
  <2> QED
    BY <2>1, <1>4, <1>9, <1>10, SignedProduct
<1>12. d * q > 0 <=> d > 0 /\ q > 0
  BY <1>2, <1>5
<1> QED
  BY <1>1, <1>2, <1>4, <1>5, <1>11, <1>12

----------------------------------------------------------------------------
(* The scan *)

(* What the loop has found after k records: the first of the heaviest, if   *)
(* any weighs something.                                                    *)
BestOf(local, k, b) ==
  /\ b \in [idx : Nat, weight : Int]
  /\ b.weight >= -1
  /\ b.weight > -1 => b.idx \in 1 .. k /\ b.weight = Weight(local, table[b.idx])
  /\ \A i \in 1 .. k : Weight(local, table[i]) <= b.weight

Start == [idx |-> 1, weight |-> -1]
IsScan(local, f, k) ==
  f = [i \in 0 .. k |-> IF i = 0 THEN Start ELSE Heavier(local, f[i - 1], i)]

(* The recursive function is defined however long the table is.             *)
LEMMA ScanExists ==
  ASSUME NEW local, NEW n \in Nat
  PROVE  \E f : IsScan(local, f, n)
<1> DEFINE T == {k \in Nat : ~ \E f : IsScan(local, f, k)}
<1>1. SUFFICES ASSUME T # {} PROVE FALSE
  OBVIOUS
<1>2. PICK k \in T : \A y \in T : k <= y
  BY <1>1, LeastNat
<1>3. k # 0
  <2> DEFINE f == [i \in 0 .. 0 |-> Start]
  <2>1. f = [i \in 0 .. 0 |-> IF i = 0 THEN Start ELSE Heavier(local, f[i - 1], i)]
    OBVIOUS
  <2> QED
    BY <2>1 DEF IsScan
<1>4. k \in Nat /\ k - 1 \in Nat /\ k - 1 \notin T
  BY <1>2, <1>3
<1>5. PICK g : IsScan(local, g, k - 1)
  BY <1>4
<1> DEFINE f == [i \in 0 .. k |-> IF i = k THEN Heavier(local, g[k - 1], k) ELSE g[i]]
<1>6. \A i \in 0 .. k - 1 : g[i] = IF i = 0 THEN Start ELSE Heavier(local, g[i - 1], i)
  BY <1>4, <1>5 DEF IsScan
<1>7. \A i \in 0 .. k : f[i] = IF i = 0 THEN Start ELSE Heavier(local, f[i - 1], i)
  <2> TAKE i \in 0 .. k
  <2>1. CASE i = k
    BY <1>3, <1>4, <2>1
  <2>2. CASE i # k
    <3>1. i \in 0 .. k - 1 /\ (i # 0 => i - 1 \in 0 .. k - 1 /\ i - 1 # k)
      BY <1>4, <2>2
    <3> QED
      BY <1>6, <2>2, <3>1
  <2> QED
    BY <2>1, <2>2
<1>8. f = [i \in 0 .. k |-> f[i]]
  OBVIOUS
<1> HIDE DEF f
<1>9. IsScan(local, f, k)
  BY <1>7, <1>8 DEF IsScan
<1> QED
  BY <1>2, <1>9

(* The induction over the loop's index.                                     *)
LEMMA ScanInvariant ==
  ASSUME NEW local \in Backlog, table \in Seq(Record),
         NEW f, IsScan(local, f, Len(table)), NEW n \in 0 .. Len(table)
  PROVE  BestOf(local, n, f[n])
<1> DEFINE T == {k \in 0 .. Len(table) : ~BestOf(local, k, f[k])}
<1>1. SUFFICES ASSUME T # {} PROVE FALSE
  OBVIOUS
<1>2. T \subseteq Nat
  OBVIOUS
<1>3. PICK k \in T : \A y \in T : k <= y
  BY <1>1, <1>2, LeastNat
<1>4. \A i \in 0 .. Len(table) : f[i] = IF i = 0 THEN Start ELSE Heavier(local, f[i - 1], i)
  BY DEF IsScan
<1>5. k # 0
  <2>1. 0 \in 0 .. Len(table)
    OBVIOUS
  <2>2. f[0] = Start
    BY <1>4, <2>1
  <2>3. BestOf(local, 0, f[0])
    BY <2>2 DEF BestOf, Start
  <2> QED
    BY <2>3
<1>6. k - 1 \in 0 .. Len(table) /\ k \in 1 .. Len(table)
  BY <1>3, <1>5
<1>7. BestOf(local, k - 1, f[k - 1])
  BY <1>3, <1>6
<1>8. f[k] = Heavier(local, f[k - 1], k)
  BY <1>4, <1>6
<1>9. Weight(local, table[k]) \in Int
  BY <1>6, WeightIsTrue
<1>10. \A i \in 1 .. k : i = k \/ i \in 1 .. k - 1
  BY <1>6
<1>11. CASE Weight(local, table[k]) > f[k - 1].weight
  <2>1. f[k] = [idx |-> k, weight |-> Weight(local, table[k])]
    BY <1>8, <1>11 DEF Heavier
  <2>2. \A i \in 1 .. k - 1 : Weight(local, table[i]) \in Int
    BY <1>6, WeightIsTrue
  <2>3. f[k].weight >= -1 /\ \A i \in 1 .. k : Weight(local, table[i]) <= f[k].weight
    <3>1. f[k].weight = Weight(local, table[k])
      BY <2>1
    <3>2. /\ f[k - 1].weight \in Int /\ f[k - 1].weight >= -1
          /\ \A i \in 1 .. k - 1 : Weight(local, table[i]) <= f[k - 1].weight
      BY <1>7 DEF BestOf
    <3>3. \A i \in 1 .. k - 1 : Weight(local, table[i]) <= Weight(local, table[k])
      BY <1>9, <1>11, <2>2, <3>2
    <3> QED
      BY <1>9, <1>10, <1>11, <3>1, <3>2, <3>3
  <2>4. f[k].idx \in 1 .. k /\ f[k].weight = Weight(local, table[f[k].idx])
        /\ f[k] \in [idx : Nat, weight : Int]
    BY <1>6, <1>9, <2>1
  <2>5. BestOf(local, k, f[k])
    BY <2>3, <2>4 DEF BestOf
  <2> QED
    BY <1>3, <2>5
<1>12. CASE ~(Weight(local, table[k]) > f[k - 1].weight)
  <2>1. f[k] = f[k - 1]
    BY <1>8, <1>12 DEF Heavier
  <2>2. Weight(local, table[k]) <= f[k - 1].weight
    BY <1>7, <1>9, <1>12 DEF BestOf
  <2>3. \A i \in 1 .. k : Weight(local, table[i]) <= f[k - 1].weight
    BY <1>7, <1>10, <2>2 DEF BestOf
  <2>4. f[k - 1].weight > -1 => f[k - 1].idx \in 1 .. k
    BY <1>6, <1>7 DEF BestOf
  <2>5. BestOf(local, k, f[k])
    BY <1>7, <2>1, <2>3, <2>4 DEF BestOf
  <2> QED
    BY <1>3, <2>5
<1> QED
  BY <1>11, <1>12

LEMMA ScanIsBest ==
  ASSUME NEW local \in Backlog, table \in Seq(Record)
  PROVE  BestOf(local, Len(table), Scan(local))
<1> DEFINE F == CHOOSE f : IsScan(local, f, Len(table))
<1>1. Scan(local) = F[Len(table)]
  BY Zenon DEF Scan, IsScan, Start
<1>2. IsScan(local, F, Len(table))
  BY ScanExists
<1> HIDE DEF F
<1>3. Len(table) \in 0 .. Len(table)
  OBVIOUS
<1> QED
  BY <1>1, <1>2, <1>3, ScanInvariant

(* A route is found exactly where a neighbour deserves it.                  *)
LEMMA RouteIsBest ==
  ASSUME NEW local \in Backlog, table \in Seq(Record)
  PROVE  /\ HasRoute(local) <=> \E i \in DOMAIN table : Weight(local, table[i]) > 0
         /\ HasRoute(local) => /\ Chosen(local) \in DOMAIN table
                               /\ Weight(local, table[Chosen(local)]) > 0
                               /\ \A i \in DOMAIN table :
                                    Weight(local, table[i]) <= Weight(local, table[Chosen(local)])
<1> DEFINE b == Scan(local)
<1>1. /\ b.weight \in Int /\ b.weight >= -1
      /\ b.weight > -1 => b.idx \in 1 .. Len(table) /\ b.weight = Weight(local, table[b.idx])
      /\ \A i \in 1 .. Len(table) : Weight(local, table[i]) <= b.weight
  BY ScanIsBest DEF BestOf
<1>2. DOMAIN table = 1 .. Len(table) /\ Len(table) \in Nat
  OBVIOUS
<1>3. \A i \in 1 .. Len(table) : Weight(local, table[i]) \in Int
  BY <1>2, WeightIsTrue
<1>4. HasRoute(local) <=> table # <<>> /\ b.weight > 0
  BY DEF HasRoute
<1>5. Chosen(local) = b.idx
  BY DEF Chosen
<1> HIDE DEF b
<1>6. ASSUME b.weight > 0
      PROVE  b.idx \in 1 .. Len(table) /\ b.weight = Weight(local, table[b.idx])
  BY <1>1, <1>6
<1>7. ASSUME NEW i \in 1 .. Len(table), Weight(local, table[i]) > 0 PROVE b.weight > 0
  BY <1>1, <1>3, <1>7
<1>8. \A i \in DOMAIN table : table # <<>>
  BY <1>2
<1> QED
  BY <1>1, <1>2, <1>4, <1>5, <1>6, <1>7, <1>8

LEMMA WeightsFollow ==
  ASSUME RoutingTypeOK
  PROVE  WeightsAreSigned
<1>1. \A i \in DOMAIN table : table[i] \in Record
  BY DEF RoutingTypeOK
<1> QED
  BY <1>1, WeightIsTrue DEF WeightsAreSigned

LEMMA BestFollows ==
  ASSUME RoutingTypeOK
  PROVE  ChoosesBest
<1>1. table \in Seq(Record) /\ \A i \in DOMAIN table : table[i] \in Record
  BY DEF RoutingTypeOK
<1> SUFFICES ASSUME NEW local \in Backlog
             PROVE  /\ HasRoute(local) <=>
                         \E i \in DOMAIN table :
                           /\ table[i].bp + Loss(table[i]) < local
                           /\ table[i].time <= PACKETS_PER_MINUTE
                    /\ HasRoute(local) => \A i \in DOMAIN table :
                         TrueWeight(local, table[i]) <= TrueWeight(local, table[Chosen(local)])
  BY DEF ChoosesBest
<1>2. \A i \in DOMAIN table :
        /\ Weight(local, table[i]) = TrueWeight(local, table[i])
        /\ TrueWeight(local, table[i]) > 0 <=>
             table[i].bp + Loss(table[i]) < local /\ table[i].time <= PACKETS_PER_MINUTE
  BY <1>1, WeightIsTrue
<1> QED
  BY <1>1, <1>2, RouteIsBest

----------------------------------------------------------------------------
(* The operations on the table *)

IsTable(t) == t \in Seq(Record) /\ Len(t) <= ROUTING_TABLE_SIZE

(* No record is dropped or moved and only first records change.             *)
Extends(t, u) ==
  \A i \in DOMAIN t :
    /\ i \in DOMAIN u /\ u[i].nbr = t[i].nbr
    /\ (\E j \in 1 .. i - 1 : t[j].nbr = t[i].nbr) => u[i] = t[i]

LEMMA FindsFirst ==
  ASSUME NEW t, IsTable(t), NEW a, Known(t, a)
  PROVE  IsRecordOf(t, a, Find(t, a))
<1> DEFINE T == {i \in DOMAIN t : t[i].nbr = a}
<1>1. T \subseteq Nat /\ T # {} /\ DOMAIN t = 1 .. Len(t) /\ Len(t) \in Nat
  BY DEF IsTable, Known
<1>2. PICK i \in T : \A j \in T : i <= j
  BY <1>1, LeastNat
<1>3. \A j \in 1 .. i - 1 : j \in DOMAIN t /\ ~(i <= j)
  BY <1>1, <1>2
<1>4. IsRecordOf(t, a, i)
  BY <1>2, <1>3 DEF IsRecordOf
<1> QED
  BY <1>2, <1>4 DEF Find

(* A record found is rewritten for the same neighbour.                      *)
LEMMA RewriteStep ==
  ASSUME NEW t, IsTable(t), NEW a, NEW i, IsRecordOf(t, a, i),
         NEW r \in Record, r.nbr = a, NEW u, u = [t EXCEPT ![i] = r]
  PROVE  IsTable(u) /\ Extends(t, u)
<1>1. DOMAIN t = 1 .. Len(t) /\ Len(t) \in Nat /\ t \in [1 .. Len(t) -> Record]
  BY DEF IsTable
<1>2. i \in DOMAIN t /\ t[i].nbr = a /\ \A j \in 1 .. i - 1 : t[j].nbr # a
  BY DEF IsRecordOf
<1>3. DOMAIN u = DOMAIN t /\ \A k \in DOMAIN t : u[k] = IF k = i THEN r ELSE t[k]
  OBVIOUS
<1>4. u \in [1 .. Len(t) -> Record]
  BY <1>1, <1>2
<1>5. u \in Seq(Record) /\ Len(u) = Len(t)
  BY <1>1, <1>4
<1>6. Extends(t, u)
  BY <1>2, <1>3 DEF Extends
<1> QED
  BY <1>5, <1>6 DEF IsTable

LEMMA WithNewStep ==
  ASSUME NEW t, IsTable(t), NEW a \in Addr, NEW bp \in Backlog
  PROVE  /\ IsTable(WithNew(t, a, bp))
         /\ Extends(t, WithNew(t, a, bp))
<1>1. FirstUse(a, bp) \in Record
  BY RoutingAssumption DEF FirstUse, Record
<1>2. CASE Len(t) < ROUTING_TABLE_SIZE
  <2> DEFINE u == Append(t, FirstUse(a, bp))
  <2>1. /\ u \in Seq(Record) /\ Len(u) = Len(t) + 1
        /\ DOMAIN t = 1 .. Len(t) /\ DOMAIN u = 1 .. Len(t) + 1 /\ Len(t) \in Nat
        /\ \A i \in 1 .. Len(t) : u[i] = t[i]
    BY <1>1 DEF IsTable
  <2>2. WithNew(t, a, bp) = u
    BY <1>2 DEF WithNew
  <2> HIDE DEF u
  <2> QED
    BY <1>2, <2>1, <2>2, RoutingAssumption DEF IsTable, Extends
<1>3. CASE ~(Len(t) < ROUTING_TABLE_SIZE)
  BY <1>3 DEF WithNew, Extends
<1> QED
  BY <1>2, <1>3

LEMMA UpdateEntryStep ==
  ASSUME NEW t, IsTable(t), NEW a \in Addr, NEW bp \in Backlog
  PROVE  /\ IsTable(UpdateEntry(t, a, bp))
         /\ Extends(t, UpdateEntry(t, a, bp))
<1>1. CASE Known(t, a)
  <2> DEFINE i == Find(t, a)
             r == [t[i] EXCEPT !.bp = bp]
  <2>1. IsRecordOf(t, a, i)
    BY <1>1, FindsFirst
  <2>2. t[i] \in Record /\ t[i].nbr = a
    BY <2>1 DEF IsRecordOf, IsTable
  <2>3. r \in Record /\ r.nbr = a
    BY <2>2 DEF Record
  <2>4. UpdateEntry(t, a, bp) = [t EXCEPT ![i] = r]
    BY <1>1 DEF UpdateEntry
  <2> HIDE DEF i, r
  <2> QED
    BY <2>1, <2>3, <2>4, RewriteStep
<1>2. CASE ~Known(t, a)
  BY <1>2, WithNewStep DEF UpdateEntry
<1> QED
  BY <1>1, <1>2

LEMMA LinkSuccessStep ==
  ASSUME NEW t, IsTable(t), NEW a, NEW c \in 1 .. MAX_RETX_ATTEMPTS
  PROVE  /\ IsTable(LinkSuccess(t, a, c))
         /\ Extends(t, LinkSuccess(t, a, c))
<1>1. CASE Known(t, a)
  <2> DEFINE i == Find(t, a)
             e == Etx(t[i].etx, c)
             r == [t[i] EXCEPT !.etx = e]
  <2>1. IsRecordOf(t, a, i)
    BY <1>1, FindsFirst
  <2>2. t[i] \in Record /\ t[i].nbr = a
    BY <2>1 DEF IsRecordOf, IsTable
  <2>3. e \in 100 .. 100 * MAX_RETX_ATTEMPTS
    BY <2>2, RecordFields, EtxInRange, RoutingAssumption
  <2>4. LinkSuccess(t, a, c) = [t EXCEPT ![i] = r]
    BY <1>1 DEF LinkSuccess
  <2> HIDE DEF e
  <2>5. r \in Record /\ r.nbr = a
    BY <2>2, <2>3 DEF Record
  <2> HIDE DEF i, r
  <2> QED
    BY <2>1, <2>4, <2>5, RewriteStep
<1>2. CASE ~Known(t, a)
  BY <1>2 DEF LinkSuccess, Extends
<1> QED
  BY <1>1, <1>2

LEMMA LinkRateStep ==
  ASSUME NEW t, IsTable(t), NEW a, NEW ms \in TxTime
  PROVE  /\ IsTable(LinkRate(t, a, ms))
         /\ Extends(t, LinkRate(t, a, ms))
<1>1. CASE Known(t, a)
  <2> DEFINE i == Find(t, a)
             e == Time(t[i].time, ms)
             r == [t[i] EXCEPT !.time = e]
  <2>1. IsRecordOf(t, a, i)
    BY <1>1, FindsFirst
  <2>2. t[i] \in Record /\ t[i].nbr = a
    BY <2>1 DEF IsRecordOf, IsTable
  <2>3. e \in 1 .. MAX_TX_TIME
    <3>1. ms \in 0 .. MAX_TX_TIME /\ MAX_TX_TIME \in Nat \ {0}
      BY RoutingAssumption
    <3> QED
      BY <2>2, <3>1, RecordFields, TimeInRange
  <2>4. LinkRate(t, a, ms) = [t EXCEPT ![i] = r]
    BY <1>1 DEF LinkRate
  <2> HIDE DEF e
  <2>5. r \in Record /\ r.nbr = a
    BY <2>2, <2>3 DEF Record
  <2> HIDE DEF i, r
  <2> QED
    BY <2>1, <2>4, <2>5, RewriteStep
<1>2. CASE ~Known(t, a)
  BY <1>2 DEF LinkRate, Extends
<1> QED
  BY <1>1, <1>2

LEMMA KnownLasts ==
  ASSUME NEW t, NEW u, Extends(t, u), NEW a, Known(t, a)
  PROVE  Known(u, a)
BY DEF Extends, Known

LEMMA ExtendsIsTransitive ==
  ASSUME NEW t, NEW u, NEW v, IsTable(t), Extends(t, u), Extends(u, v)
  PROVE  Extends(t, v)
<1> SUFFICES ASSUME NEW i \in DOMAIN t
             PROVE  /\ i \in DOMAIN v /\ v[i].nbr = t[i].nbr
                    /\ (\E j \in 1 .. i - 1 : t[j].nbr = t[i].nbr) => v[i] = t[i]
  BY DEF Extends
<1>1. i \in DOMAIN u /\ u[i].nbr = t[i].nbr /\ i \in DOMAIN v /\ v[i].nbr = t[i].nbr
  BY DEF Extends
<1>2. ASSUME NEW j \in 1 .. i - 1, t[j].nbr = t[i].nbr PROVE v[i] = t[i]
  <2>1. j \in DOMAIN t
    BY DEF IsTable
  <2>2. u[j].nbr = u[i].nbr
    BY <1>1, <1>2, <2>1 DEF Extends
  <2> QED
    BY <1>1, <1>2, <2>2 DEF Extends
<1> QED
  BY <1>1, <1>2

----------------------------------------------------------------------------
(* The steps: each keeps the table a table and extends it.                  *)

LEMMA TableStep ==
  ASSUME RoutingTypeOK, RoutingNext
  PROVE  IsTable(table') /\ Extends(table, table')
<1>1. IsTable(table)
  BY DEF RoutingTypeOK, IsTable
<1>2. table' = table => Extends(table, table')
  BY DEF Extends
<1>3. ASSUME NEW a \in Addr, NEW bp \in Backlog, BeaconFrom(a, bp) \/ DataFrom(a, bp)
      PROVE  IsTable(table') /\ Extends(table, table')
  BY <1>1, <1>3, WithNewStep, UpdateEntryStep DEF BeaconFrom, DataFrom
<1>4. ASSUME NEW local \in Backlog, UpdateRouting(local)
      PROVE  IsTable(table') /\ Extends(table, table')
  BY <1>1, <1>2, <1>4 DEF UpdateRouting
<1>5. ASSUME NEW txCount \in 1 .. MAX_RETX_ATTEMPTS, NEW ms \in TxTime, Acked(txCount, ms)
      PROVE  IsTable(table') /\ Extends(table, table')
  <2> DEFINE t == LinkSuccess(table, nextHop, txCount)
             u == LinkRate(t, nextHop, ms)
  <2>1. IsTable(t) /\ Extends(table, t)
    BY <1>1, LinkSuccessStep
  <2>2. table' = u
    BY <1>5 DEF Acked
  <2> HIDE DEF t
  <2>3. IsTable(u) /\ Extends(t, u)
    BY <2>1, LinkRateStep
  <2> HIDE DEF u
  <2> QED
    BY <1>1, <2>1, <2>2, <2>3, ExtendsIsTransitive
<1>6. CASE GiveUp
  <2>1. \A i \in DOMAIN table : table[i].nbr \in Addr
    BY <1>1, RecordFields DEF IsTable
  <2>2. ~Known(table, Self)
    BY <2>1, RoutingAssumption DEF Known
  <2> QED
    BY <1>1, <1>2, <1>6, <2>2 DEF GiveUp, LinkSuccess
<1> QED
  BY <1>3, <1>4, <1>5, <1>6 DEF RoutingNext

LEMMA TypeStep ==
  ASSUME RoutingTypeOK, [RoutingNext]_routingVars
  PROVE  RoutingTypeOK'
<1>0. CASE UNCHANGED routingVars
  BY <1>0 DEF routingVars, RoutingTypeOK, Known
<1> SUFFICES ASSUME RoutingNext PROVE RoutingTypeOK'
  BY <1>0
<1>1. IsTable(table') /\ Extends(table, table')
  BY TableStep
<1>2. table' \in Seq(Record) /\ Len(table') <= ROUTING_TABLE_SIZE
  BY <1>1 DEF IsTable
<1>3. Known(table, nextHop) => Known(table', nextHop)
  BY <1>1, KnownLasts
<1>4. ASSUME NEW a \in Addr, NEW bp \in Backlog, BeaconFrom(a, bp) \/ DataFrom(a, bp)
      PROVE  RoutingTypeOK'
  <2>1. UNCHANGED <<nextHop, occupied, samples>>
    BY <1>4 DEF BeaconFrom, DataFrom
  <2> QED
    BY <1>2, <1>3, <2>1 DEF RoutingTypeOK
<1>5. ASSUME NEW local \in Backlog, UpdateRouting(local) PROVE RoutingTypeOK'
  <2>1. /\ HasRoute(local) /\ nextHop' = table[Chosen(local)].nbr
        /\ occupied' = TRUE /\ UNCHANGED <<table, samples>>
    BY <1>5 DEF UpdateRouting
  <2>2. table \in Seq(Record)
    BY DEF RoutingTypeOK
  <2>3. Chosen(local) \in DOMAIN table
    BY <2>1, <2>2, RouteIsBest
  <2>4. nextHop' \in Addr /\ Known(table, nextHop')
    BY <2>1, <2>2, <2>3, RecordFields DEF Known
  <2> QED
    BY <1>2, <2>1, <2>4, RoutingAssumption DEF RoutingTypeOK
<1>6. ASSUME NEW txCount \in 1 .. MAX_RETX_ATTEMPTS, NEW ms \in TxTime, Acked(txCount, ms)
      PROVE  RoutingTypeOK'
  <2>1. samples' \in 0 .. MAX_SAMPLES
    BY <1>6, RoutingAssumption DEF Acked, RoutingTypeOK
  <2>2. nextHop' = nextHop /\ occupied' = FALSE
    BY <1>6 DEF Acked
  <2> QED
    BY <1>2, <2>1, <2>2 DEF RoutingTypeOK
<1>7. CASE GiveUp
  BY <1>2, <1>7 DEF GiveUp, RoutingTypeOK
<1> QED
  BY <1>4, <1>5, <1>6, <1>7 DEF RoutingNext

LEMMA TypeInit == RoutingInit => RoutingTypeOK
<1> SUFFICES ASSUME RoutingInit PROVE RoutingTypeOK
  OBVIOUS
<1>1. table = <<>> /\ nextHop = NULL /\ samples = 0 /\ occupied = FALSE
  BY DEF RoutingInit
<1>2. table \in Seq(Record) /\ Len(table) <= ROUTING_TABLE_SIZE
  BY <1>1, RoutingAssumption
<1>3. nextHop \in Addr \cup {NULL} /\ samples \in 0 .. MAX_SAMPLES
  BY <1>1, RoutingAssumption
<1> QED
  BY <1>1, <1>2, <1>3 DEF RoutingTypeOK

----------------------------------------------------------------------------
(* Theorems *)

(* In every reachable state the table stays within its limit and every      *)
(* estimate within its 16 bits: no time is 0 (the division of               *)
(* updateRouting), and an occupied send entry is on its way to a neighbour  *)
(* that has a record.                                                       *)
THEOREM RoutingTypeCorrect == RoutingSpec => []RoutingTypeOK
BY TypeInit, TypeStep, PTL DEF RoutingSpec

(* updateRouting's unsigned arithmetic never changes a weight, whatever the *)
(* bounds, if the word is wide enough.                                      *)
THEOREM WeightsStaySigned == RoutingSpec => []WeightsAreSigned
<1>1. []RoutingTypeOK => []WeightsAreSigned
  BY WeightsFollow, PTL
<1> QED
  BY <1>1, RoutingTypeCorrect, PTL

(* The loop of updateRouting finds the best neighbour and only one worth    *)
(* sending to, for tables of any length.                                    *)
THEOREM BestIsChosen == RoutingSpec => []ChoosesBest
<1>1. []RoutingTypeOK => []ChoosesBest
  BY BestFollows, PTL
<1> QED
  BY <1>1, RoutingTypeCorrect, PTL

(* Records are never dropped or moved, and a second record of a neighbour   *)
(* keeps what its beacon said for good.                                     *)
THEOREM CopiesStayFrozen == RoutingSpec => CopiesAreFrozen
<1> DEFINE A == \A i \in DOMAIN table :
                  /\ i \in DOMAIN table' /\ table'[i].nbr = table[i].nbr
                  /\ (\E j \in 1 .. i - 1 : table[j].nbr = table[i].nbr) => table'[i] = table[i]
<1>1. RoutingTypeOK /\ [RoutingNext]_routingVars => [A]_routingVars
  <2> SUFFICES ASSUME RoutingTypeOK, RoutingNext PROVE A
    OBVIOUS
  <2> QED
    BY TableStep DEF Extends
<1> HIDE DEF A
<1>2. RoutingSpec => [][A]_routingVars
  BY <1>1, RoutingTypeCorrect, PTL DEF RoutingSpec
<1> QED
  BY <1>2 DEF A, CopiesAreFrozen

(* Why a link that looks too slow stays out: it is never chosen, so nothing *)
(* is measured on it.                                                       *)
LEMMA ShutOutStep ==
  ASSUME RoutingTypeOK, RoutingNext, NEW i \in DOMAIN table, ShutOut(i)
  PROVE  \/ ShutOut(i)'
         \/ Len(table') > Len(table) /\ table'[Len(table')].nbr = table[i].nbr
<1>1. /\ IsTable(table) /\ table \in Seq(Record)
      /\ DOMAIN table = 1 .. Len(table) /\ Len(table) \in Nat
  BY DEF RoutingTypeOK, IsTable
<1>2. /\ table[i].time > PACKETS_PER_MINUTE
      /\ \A j \in DOMAIN table : table[j].nbr = table[i].nbr => j = i
      /\ ~(occupied /\ nextHop = table[i].nbr)
  BY DEF ShutOut
<1>3. ASSUME NEW a \in Addr, NEW bp \in Backlog, table' = WithNew(table, a, bp),
             UNCHANGED <<nextHop, occupied>>
      PROVE  \/ ShutOut(i)'
             \/ Len(table') > Len(table) /\ table'[Len(table')].nbr = table[i].nbr
  <2>1. CASE table' = table
    BY <1>2, <1>3, <2>1 DEF ShutOut
  <2>2. CASE table' = Append(table, FirstUse(a, bp))
    <3>1. /\ Len(table') = Len(table) + 1 /\ DOMAIN table' = 1 .. Len(table) + 1
          /\ \A j \in 1 .. Len(table) : table'[j] = table[j]
          /\ table'[Len(table) + 1] = FirstUse(a, bp)
      BY <1>1, <2>2
    <3>2. table'[Len(table')].nbr = a
      BY <3>1 DEF FirstUse
    <3>3. CASE a = table[i].nbr
      BY <1>1, <3>1, <3>2, <3>3
    <3>4. CASE a # table[i].nbr
      <4>1. \A j \in DOMAIN table' : table'[j].nbr = table'[i].nbr => j = i
        BY <1>1, <1>2, <3>1, <3>2, <3>4
      <4>2. table'[i].time > PACKETS_PER_MINUTE /\ table'[i].nbr = table[i].nbr
        BY <1>1, <1>2, <3>1
      <4> QED
        BY <1>2, <1>3, <4>1, <4>2 DEF ShutOut
    <3> QED
      BY <3>3, <3>4
  <2> QED
    BY <1>3, <2>1, <2>2 DEF WithNew
<1>4. ASSUME DOMAIN table' = DOMAIN table,
             \A j \in DOMAIN table : table'[j].nbr = table[j].nbr,
             table'[i].time = table[i].time, ~(occupied' /\ nextHop' = table[i].nbr)
      PROVE  ShutOut(i)'
  BY <1>2, <1>4 DEF ShutOut
<1>5. ASSUME NEW a \in Addr, NEW bp \in Backlog, BeaconFrom(a, bp)
      PROVE  \/ ShutOut(i)'
             \/ Len(table') > Len(table) /\ table'[Len(table')].nbr = table[i].nbr
  BY <1>3, <1>5 DEF BeaconFrom
<1>6. ASSUME NEW a \in Addr, NEW bp \in Backlog, DataFrom(a, bp)
      PROVE  \/ ShutOut(i)'
             \/ Len(table') > Len(table) /\ table'[Len(table')].nbr = table[i].nbr
  <2>1. CASE Known(table, a)
    <3> DEFINE k == Find(table, a)
    <3>1. table' = [table EXCEPT ![k].bp = bp] /\ UNCHANGED <<nextHop, occupied>>
      BY <1>6, <2>1 DEF DataFrom, UpdateEntry
    <3> HIDE DEF k
    <3>2. DOMAIN table' = DOMAIN table
          /\ \A j \in DOMAIN table :
               table'[j].nbr = table[j].nbr /\ table'[j].time = table[j].time
      BY <1>1, <3>1 DEF Record
    <3> QED
      BY <1>2, <1>4, <3>1, <3>2
  <2>2. CASE ~Known(table, a)
    BY <1>3, <1>6, <2>2 DEF DataFrom, UpdateEntry
  <2> QED
    BY <2>1, <2>2
<1>7. ASSUME NEW local \in Backlog, UpdateRouting(local) PROVE ShutOut(i)'
  <2>1. /\ HasRoute(local) /\ nextHop' = table[Chosen(local)].nbr /\ table' = table
    BY <1>7 DEF UpdateRouting
  <2>2. Chosen(local) \in DOMAIN table /\ Weight(local, table[Chosen(local)]) > 0
    BY <1>1, <2>1, RouteIsBest
  <2>3. table[Chosen(local)].time <= PACKETS_PER_MINUTE
    BY <1>1, <2>2, WeightIsTrue
  <2>4. Chosen(local) # i
    <3>1. table[i].time \in Nat /\ PACKETS_PER_MINUTE \in Nat
      BY <1>1, RecordFields, RoutingAssumption
    <3> QED
      BY <1>2, <2>3, <3>1
  <2>5. nextHop' # table[i].nbr
    BY <1>2, <2>1, <2>2, <2>4
  <2> QED
    BY <1>4, <2>1, <2>5
<1>8. ASSUME NEW txCount \in 1 .. MAX_RETX_ATTEMPTS, NEW ms \in TxTime, Acked(txCount, ms)
      PROVE  ShutOut(i)'
  <2> DEFINE t == LinkSuccess(table, nextHop, txCount)
             u == LinkRate(t, nextHop, ms)
  <2>1. table' = u /\ occupied' = FALSE /\ nextHop # table[i].nbr
    BY <1>2, <1>8 DEF Acked
  <2>2. IsTable(t) /\ DOMAIN t = DOMAIN table /\ t[i].time = table[i].time
        /\ \A j \in DOMAIN table : t[j].nbr = table[j].nbr
    <3>1. IsTable(t)
      BY <1>1, LinkSuccessStep
    <3>2. CASE Known(table, nextHop)
      <4>1. PICK e : t = [table EXCEPT ![Find(table, nextHop)].etx = e]
        BY <3>2 DEF LinkSuccess
      <4> QED
        BY <1>1, <3>1, <4>1 DEF Record
    <3>3. CASE ~Known(table, nextHop)
      BY <3>1, <3>3 DEF LinkSuccess
    <3> QED
      BY <3>2, <3>3
  <2> HIDE DEF t
  <2>3. DOMAIN u = DOMAIN t /\ u[i] = t[i]
        /\ \A j \in DOMAIN t : u[j].nbr = t[j].nbr
    <3>1. CASE Known(t, nextHop)
      <4> DEFINE k == Find(t, nextHop)
      <4>1. k \in DOMAIN t /\ t[k].nbr = nextHop
        BY <2>2, <3>1, FindsFirst DEF IsRecordOf
      <4>2. PICK e : u = [t EXCEPT ![k].time = e]
        BY <3>1 DEF LinkRate
      <4>3. k # i
        BY <2>1, <2>2, <4>1
      <4>4. \A j \in DOMAIN t : t[j] \in Record
        BY <2>2 DEF IsTable
      <4> HIDE DEF k
      <4> QED
        BY <4>1, <4>2, <4>3, <4>4 DEF Record
    <3>2. CASE ~Known(t, nextHop)
      BY <3>2 DEF LinkRate
    <3> QED
      BY <3>1, <3>2
  <2> HIDE DEF u
  <2> QED
    BY <1>4, <2>1, <2>2, <2>3
<1>9. CASE GiveUp
  <2>1. \A k \in DOMAIN table : table[k].nbr \in Addr
    BY <1>1, RecordFields
  <2>2. table' = table /\ occupied' = FALSE
    BY <1>9, <2>1, RoutingAssumption DEF GiveUp, LinkSuccess, Known
  <2> QED
    BY <1>4, <2>2
<1> QED
  BY <1>5, <1>6, <1>7, <1>8, <1>9 DEF RoutingNext

(* A neighbour whose link once looked too slow gets nothing more, until a   *)
(* beacon makes a second record of it.                                      *)
THEOREM SlowLinksStayOut == RoutingSpec => ShutOutUntilBeacon
<1> DEFINE A == \A i \in DOMAIN table : ShutOut(i) =>
                  \/ ShutOut(i)'
                  \/ Len(table') > Len(table) /\ table'[Len(table')].nbr = table[i].nbr
<1>1. RoutingTypeOK /\ [RoutingNext]_routingVars => [A]_routingVars
  <2> SUFFICES ASSUME RoutingTypeOK, RoutingNext PROVE A
    OBVIOUS
  <2> QED
    BY ShutOutStep
<1> HIDE DEF A
<1>2. RoutingSpec => [][A]_routingVars
  BY <1>1, RoutingTypeCorrect, PTL DEF RoutingSpec
<1> QED
  BY <1>2 DEF A, ShutOutUntilBeacon
=============================================================================
