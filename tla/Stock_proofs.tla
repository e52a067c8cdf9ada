---------------------------- MODULE Stock_proofs ----------------------------
(***************************************************************************)
(* Theorems about Inventory and StockDocuments, for any ingredients,       *)
(* warehouses, products and recipes, any number of clients and batches,    *)
(* and any quantities.                                                     *)
(***************************************************************************)
EXTENDS StockDocuments, SequenceTheorems, Sums, TLAPS

Positive == Nat \ {0}

-----------------------------------------------------------------------------
(* Batches: what a consumption takes, what a receipt adds. *)
LEMMA MinOfTwo ==
    ASSUME NEW a \in Int, NEW b \in Int
    PROVE  Min({a, b}) = IF a <= b THEN a ELSE b
  BY DEF Min

LEMMA MaxOfTwo ==
    ASSUME NEW a \in Int, NEW b \in Int
    PROVE  Max({a, b}) = IF a <= b THEN b ELSE a
  BY DEF Max

LEMMA PrefixSums ==
    ASSUME NEW bs \in Seq(Int)
    PROVE  /\ Sum(bs, 0) = 0
           /\ \A n \in 0 .. Len(bs) : Sum(bs, n) \in Int
           /\ \A n \in 1 .. Len(bs) : Sum(bs, n) = Sum(bs, n - 1) + bs[n]
  <1>0. Len(bs) \in Nat /\ \A n \in 1 .. Len(bs) : bs[n] \in Int
    BY LenProperties, ElementOfSeq
  <1>1. Sum(bs, 0) = 0
    <2>1. 1 .. 0 = {}
      OBVIOUS
    <2> QED
      BY <2>1, SumEmpty, Zenon DEF Sum
  <1>2. ASSUME NEW n \in 0 .. Len(bs)
        PROVE  Sum(bs, n) \in Int
    <2>1. IsFiniteSet(1 .. n) /\ \A x \in 1 .. n : bs[x] \in Int
      BY <1>0, FS_Interval
    <2> QED
      BY <2>1, SumType DEF Sum
  <1>3. ASSUME NEW n \in 1 .. Len(bs)
        PROVE  Sum(bs, n) = Sum(bs, n - 1) + bs[n]
    <2>1. IsFiniteSet(1 .. n - 1) /\ n \notin 1 .. n - 1
      BY <1>0, FS_Interval
    <2>2. 1 .. n = (1 .. n - 1) \cup {n}
      BY <1>0
    <2>3. \A x \in (1 .. n - 1) \cup {n} : bs[x] \in Int
      BY <1>0
    <2>4. SumFunctionOnSet(bs, (1 .. n - 1) \cup {n}) = SumFunctionOnSet(bs, 1 .. n - 1) + bs[n]
      BY <2>1, <2>3, SumAdds
    <2> QED
      BY <2>2, <2>4, Zenon DEF Sum
  <1> QED
    BY <1>1, <1>2, <1>3

LEMMA BatchesAreInts == Seq(Positive) \subseteq Seq(Int)
  BY SeqMonotonic DEF Positive

LEMMA PrefixesGrow ==
    ASSUME NEW bs \in Seq(Positive), NEW i \in 0 .. Len(bs), NEW j \in 0 .. Len(bs), i < j
    PROVE  Sum(bs, i) < Sum(bs, j)
  <1> DEFINE N == {d \in Nat : d <= Len(bs) => \A m \in 0 .. d : m < d => Sum(bs, m) < Sum(bs, d)}
  <1>1. /\ Len(bs) \in Nat
        /\ \A n \in 1 .. Len(bs) : /\ bs[n] \in Positive
                                   /\ Sum(bs, n) = Sum(bs, n - 1) + bs[n]
        /\ \A n \in 0 .. Len(bs) : Sum(bs, n) \in Int
    BY LenProperties, ElementOfSeq, BatchesAreInts, PrefixSums
  <1>2. 0 \in N
    OBVIOUS
  <1>3. ASSUME NEW d \in Nat, d \in N
        PROVE  d + 1 \in N
    <2> SUFFICES ASSUME d + 1 <= Len(bs), NEW m \in 0 .. d
                 PROVE  Sum(bs, m) < Sum(bs, d + 1)
      BY <1>1
    <2>1. Sum(bs, d + 1) = Sum(bs, d) + bs[d + 1] /\ bs[d + 1] > 0 /\ bs[d + 1] \in Int
      <3>1. d + 1 \in 1 .. Len(bs) /\ (d + 1) - 1 = d
        BY <1>1
      <3> QED
        BY <1>1, <3>1 DEF Positive
    <2>2. m = d \/ Sum(bs, m) < Sum(bs, d)
      BY <1>1, <1>3
    <2>3. Sum(bs, m) \in Int /\ Sum(bs, d) \in Int
      BY <1>1
    <2> QED
      BY <2>1, <2>2, <2>3
  <1>4. Nat \subseteq N
    <2> HIDE DEF N
    <2> QED
      BY <1>2, <1>3, NumberInduction
  <1> QED
    BY <1>1, <1>4

(* The batches that n units use up are the first ones. *)
LEMMA UsedUpIs ==
    ASSUME NEW bs \in Seq(Positive), NEW n \in Nat
    PROVE  /\ UsedUp(bs, n) \in 0 .. Len(bs)
           /\ \A j \in 0 .. Len(bs) : Sum(bs, j) <= n <=> j <= UsedUp(bs, n)
  <1> DEFINE V == {j \in 1 .. Len(bs) + 1 : j = Len(bs) + 1 \/ Sum(bs, j) > n}
  <1>1. /\ Len(bs) \in Nat /\ DOMAIN bs = 1 .. Len(bs)
        /\ Sum(bs, 0) = 0
        /\ \A j \in 0 .. Len(bs) : Sum(bs, j) \in Int
    BY LenProperties, BatchesAreInts, PrefixSums
  <1>2. PICK m \in V : \A j \in V : m <= j
    <2>1. V \subseteq Nat /\ Len(bs) + 1 \in V
      BY <1>1
    <2> HIDE DEF V
    <2> QED
      BY <2>1, LeastNumber
  <1>3. ASSUME NEW j \in 0 .. Len(bs)
        PROVE  Sum(bs, j) <= n <=> j <= m - 1
    <2>1. CASE j < m
      <3>1. j \in 1 .. Len(bs) => ~ (Sum(bs, j) > n)
        BY <1>1, <1>2, <2>1
      <3> QED
        BY <1>1, <1>2, <2>1, <3>1
    <2>2. CASE m <= j
      <3>1. m \in 1 .. Len(bs) /\ Sum(bs, m) > n
        BY <1>1, <1>2, <2>2
      <3>2. m = j \/ Sum(bs, m) < Sum(bs, j)
        BY <1>1, <2>2, <3>1, PrefixesGrow
      <3>3. Sum(bs, m) \in Int /\ Sum(bs, j) \in Int
        BY <1>1, <3>1
      <3> QED
        BY <2>2, <3>1, <3>2, <3>3
    <2> QED
      BY <1>1, <1>2, <2>1, <2>2
  <1>4. {j \in DOMAIN bs : Sum(bs, j) <= n} = 1 .. m - 1
    BY <1>1, <1>2, <1>3
  <1>5. UsedUp(bs, n) = m - 1
    <2>1. 1 \in Int /\ m - 1 \in Nat
      BY <1>1, <1>2
    <2>2. Cardinality(1 .. m - 1) = m - 1
      <3>1. Cardinality(1 .. m - 1) = IF 1 > m - 1 THEN 0 ELSE (m - 1) - 1 + 1
        BY <2>1, FS_Interval
      <3> QED
        BY <2>1, <3>1
    <2> QED
      BY <1>4, <2>2, Zenon DEF UsedUp
  <1> QED
    BY <1>1, <1>2, <1>3, <1>5

(* What a consumption leaves: the first batch in part, the later ones whole. *)
LEMMA TakeLeaves ==
    ASSUME NEW bs \in Seq(Positive), NEW n \in Nat
    PROVE  LET r == Take(bs, n)
               gone == UsedUp(bs, n)
           IN  /\ r \in Seq(Positive)
               /\ Len(r) = Len(bs) - gone
               /\ \A j \in 1 .. Len(r) : r[j] = IF j = 1 THEN Sum(bs, gone + 1) - n ELSE bs[gone + j]
  <1> DEFINE r == Take(bs, n)
             gone == UsedUp(bs, n)
             Rest(j) == IF j = 1 THEN Sum(bs, gone + 1) - n ELSE bs[gone + j]
  <1>1. /\ Len(bs) \in Nat
        /\ \A j \in 0 .. Len(bs) : Sum(bs, j) \in Int
        /\ \A j \in 1 .. Len(bs) : /\ bs[j] \in Positive
                                   /\ Sum(bs, j) = Sum(bs, j - 1) + bs[j]
    BY LenProperties, ElementOfSeq, BatchesAreInts, PrefixSums
  <1>2. gone \in 0 .. Len(bs) /\ \A j \in 0 .. Len(bs) : Sum(bs, j) <= n <=> j <= gone
    BY UsedUpIs
  <1> HIDE DEF gone
  <1>3. ASSUME NEW j \in 1 .. Len(bs) - gone
        PROVE  Left(bs, n, gone + j) = Rest(j) /\ Rest(j) \in Positive
    <2> DEFINE before == Sum(bs, gone + j - 1)
               here == bs[gone + j]
    <2>1. gone + j \in 1 .. Len(bs) /\ gone + j - 1 \in 0 .. Len(bs)
      BY <1>1, <1>2
    <2>2. /\ before \in Int /\ here \in Positive
          /\ Sum(bs, gone + j) = before + here
          /\ Sum(bs, gone + j) > n
          /\ before <= n <=> j = 1
      <3>1. Sum(bs, gone + j) > n
        BY <1>1, <1>2, <2>1
      <3>2. before <= n <=> gone + j - 1 <= gone
        BY <1>2, <2>1
      <3> QED
        BY <1>1, <1>2, <2>1, <3>1, <3>2
    <2>3. Left(bs, n, gone + j) = here - Min({here, Max({0, n - before})})
      BY <1>2 DEF Left
    <2> HIDE DEF before, here
    <2>4. CASE j = 1
      <3>1. Max({0, n - before}) = n - before
        BY <2>2, <2>4, MaxOfTwo
      <3>2. Min({here, n - before}) = n - before
        BY <2>2, <2>4, MinOfTwo DEF Positive
      <3>3. Rest(j) = before + here - n
        <4>1. Rest(j) = Sum(bs, gone + j) - n
          BY <2>4
        <4> HIDE DEF Rest
        <4> QED
          BY <2>2, <4>1 DEF Positive
      <3>4. Left(bs, n, gone + j) = here - (n - before)
        BY <2>3, <3>1, <3>2
      <3> HIDE DEF Rest
      <3> QED
        BY <2>2, <3>3, <3>4 DEF Positive
    <2>5. CASE j # 1
      <3>1. Max({0, n - before}) = 0
        BY <2>2, <2>5, MaxOfTwo
      <3>2. Min({here, 0}) = 0
        BY <2>2, MinOfTwo DEF Positive
      <3>3. Rest(j) = here
        BY <2>5 DEF here
      <3>4. Left(bs, n, gone + j) = here - 0
        BY <2>3, <3>1, <3>2
      <3> HIDE DEF Rest
      <3> QED
        BY <2>2, <3>3, <3>4 DEF Positive
    <2> QED
      BY <2>4, <2>5
  <1>4. r = [j \in 1 .. Len(bs) - gone |-> Rest(j)]
    BY <1>3 DEF Take, gone
  <1>5. r \in Seq(Positive) /\ Len(r) = Len(bs) - gone
    <2>1. Len(bs) - gone \in Nat
      BY <1>1, <1>2
    <2>2. r \in [1 .. Len(bs) - gone -> Positive]
      BY <1>3, <1>4
    <2> HIDE DEF r, Rest
    <2> QED
      BY <2>1, <2>2
  <1> QED
    BY <1>1, <1>2, <1>4, <1>5 DEF gone

(* What a consumption leaves, in sum. *)
LEMMA TakeSum ==
    ASSUME NEW bs \in Seq(Positive), NEW n \in Nat
    PROVE  LET r == Take(bs, n)
           IN  /\ Shortfall(bs, n) \in Nat
               /\ Sum(r, Len(r)) = Sum(bs, Len(bs)) - n + Shortfall(bs, n)
               /\ n <= Sum(bs, Len(bs)) => Shortfall(bs, n) = 0
  <1> DEFINE r == Take(bs, n)
             gone == UsedUp(bs, n)
             J == {j \in Nat : j <= Len(r) => Sum(r, j) = IF j = 0 THEN 0 ELSE Sum(bs, gone + j) - n}
  <1>1. /\ Len(bs) \in Nat
        /\ \A j \in 0 .. Len(bs) : Sum(bs, j) \in Int
        /\ \A j \in 1 .. Len(bs) : /\ bs[j] \in Positive
                                   /\ Sum(bs, j) = Sum(bs, j - 1) + bs[j]
    BY LenProperties, ElementOfSeq, BatchesAreInts, PrefixSums
  <1>2. gone \in 0 .. Len(bs) /\ \A j \in 0 .. Len(bs) : Sum(bs, j) <= n <=> j <= gone
    BY UsedUpIs
  <1>3. /\ r \in Seq(Positive) /\ Len(r) = Len(bs) - gone
        /\ \A j \in 1 .. Len(r) : r[j] = IF j = 1 THEN Sum(bs, gone + 1) - n ELSE bs[gone + j]
    BY TakeLeaves, Zenon
  <1> HIDE DEF r, gone
  <1>4. /\ Sum(r, 0) = 0
        /\ \A j \in 1 .. Len(r) : Sum(r, j) = Sum(r, j - 1) + r[j]
        /\ \A j \in 0 .. Len(r) : Sum(r, j) \in Int
    BY <1>3, BatchesAreInts, PrefixSums
  <1>5. 0 \in J
    BY <1>4
  <1>6. ASSUME NEW j \in Nat, j \in J
        PROVE  j + 1 \in J
    <2> SUFFICES ASSUME j + 1 <= Len(r)
                 PROVE  Sum(r, j + 1) = Sum(bs, gone + (j + 1)) - n
      OBVIOUS
    <2>1. j + 1 \in 1 .. Len(r) /\ (j + 1) - 1 = j /\ gone + (j + 1) \in 1 .. Len(bs)
      BY <1>1, <1>2, <1>3
    <2>2. Sum(r, j + 1) = Sum(r, j) + r[j + 1]
      BY <1>4, <2>1
    <2>3. CASE j = 0
      BY <1>1, <1>3, <1>4, <2>1, <2>2, <2>3
    <2>4. CASE j # 0
      <3>1. r[j + 1] = bs[gone + (j + 1)]
        BY <1>3, <2>1, <2>4
      <3>2. Sum(r, j) = Sum(bs, gone + j) - n
        BY <1>3, <1>6, <2>1, <2>4
      <3>3. Sum(bs, gone + (j + 1)) = Sum(bs, gone + j) + bs[gone + (j + 1)]
        <4>1. (gone + (j + 1)) - 1 = gone + j
          BY <1>2
        <4> QED
          BY <1>1, <2>1, <4>1
      <3>4. Sum(bs, gone + j) \in Int /\ bs[gone + (j + 1)] \in Int
        BY <1>1, <1>2, <2>1 DEF Positive
      <3> QED
        BY <2>2, <3>1, <3>2, <3>3, <3>4
    <2> QED
      BY <2>3, <2>4
  <1>7. Nat \subseteq J
    <2> HIDE DEF J
    <2> QED
      BY <1>5, <1>6, NumberInduction
  <1>8. Sum(r, Len(r)) = IF Len(r) = 0 THEN 0 ELSE Sum(bs, Len(bs)) - n
    <2>1. Len(r) \in Nat /\ gone + Len(r) = Len(bs)
      BY <1>1, <1>2, <1>3
    <2> QED
      BY <1>7, <2>1
  <1>9. Sum(bs, Len(bs)) \in Int /\ (Len(r) = 0 <=> Sum(bs, Len(bs)) <= n)
    BY <1>1, <1>2, <1>3
  <1>10. Shortfall(bs, n) = IF Sum(bs, Len(bs)) <= n THEN n - Sum(bs, Len(bs)) ELSE 0
    BY <1>9, MaxOfTwo DEF Shortfall
  <1> QED
    BY <1>8, <1>9, <1>10 DEF r

(* A batch more. *)
LEMMA InsertAdds ==
    ASSUME NEW bs \in Seq(Positive), NEW n \in Positive, NEW p \in 1 .. Len(bs) + 1
    PROVE  LET r == InsertAt(bs, p, n)
           IN  /\ r \in Seq(Positive)
               /\ Sum(r, Len(r)) = Sum(bs, Len(bs)) + n
  <1> DEFINE r == InsertAt(bs, p, n)
             J == {j \in Nat : j <= Len(r) => Sum(r, j) = IF j < p THEN Sum(bs, j)
                                                          ELSE Sum(bs, j - 1) + n}
             before == SubSeq(bs, 1, p - 1)
             after == SubSeq(bs, p, Len(bs))
  <1>1. /\ Len(bs) \in Nat
        /\ Sum(bs, 0) = 0
        /\ \A j \in 0 .. Len(bs) : Sum(bs, j) \in Int
        /\ \A j \in 1 .. Len(bs) : /\ bs[j] \in Positive
                                   /\ Sum(bs, j) = Sum(bs, j - 1) + bs[j]
    BY LenProperties, ElementOfSeq, BatchesAreInts, PrefixSums
  <1>2. /\ before \in Seq(Positive) /\ Len(before) = p - 1
        /\ \A j \in 1 .. p - 1 : before[j] = bs[j]
    BY <1>1
  <1>3. /\ after \in Seq(Positive) /\ Len(after) = Len(bs) - p + 1
        /\ \A j \in 1 .. Len(bs) - p + 1 : after[j] = bs[p + j - 1]
    BY <1>1
  <1>4. /\ r \in Seq(Positive) /\ Len(r) = Len(bs) + 1
        /\ \A j \in 1 .. Len(r) : r[j] = IF j < p THEN bs[j] ELSE IF j = p THEN n ELSE bs[j - 1]
    <2>1. r = (before \o <<n>>) \o after
      BY DEF InsertAt
    <2> HIDE DEF r, before, after
    <2> DEFINE first == before \o <<n>>
    <2>2. /\ first \in Seq(Positive) /\ Len(first) = p
          /\ \A j \in 1 .. p : first[j] = IF j < p THEN bs[j] ELSE n
      BY <1>1, <1>2
    <2> HIDE DEF first
    <2>3. /\ r \in Seq(Positive) /\ Len(r) = p + Len(after)
          /\ \A j \in 1 .. Len(r) : r[j] = IF j <= p THEN first[j] ELSE after[j - p]
      BY <1>3, <2>1, <2>2 DEF first
    <2>4. ASSUME NEW j \in 1 .. Len(r), j > p
          PROVE  r[j] = bs[j - 1]
      <3>1. j - p \in 1 .. Len(bs) - p + 1 /\ p + (j - p) - 1 = j - 1
        BY <1>1, <1>3, <2>3, <2>4
      <3>2. r[j] = after[j - p]
        BY <2>3, <2>4
      <3> QED
        BY <1>3, <3>1, <3>2, Zenon
    <2>5. Len(r) = Len(bs) + 1
      BY <1>1, <1>3, <2>3
    <2> QED
      BY <2>2, <2>3, <2>4, <2>5
  <1> HIDE DEF r
  <1>5. /\ Sum(r, 0) = 0
        /\ \A j \in 1 .. Len(r) : Sum(r, j) = Sum(r, j - 1) + r[j]
    BY <1>4, BatchesAreInts, PrefixSums
  <1>6. 0 \in J
    BY <1>1, <1>5
  <1>7. ASSUME NEW j \in Nat, j \in J
        PROVE  j + 1 \in J
    <2> SUFFICES ASSUME j + 1 <= Len(r)
                 PROVE  Sum(r, j + 1) = IF j + 1 < p THEN Sum(bs, j + 1) ELSE Sum(bs, j) + n
      OBVIOUS
    <2>1. Sum(r, j + 1) = Sum(r, j) + r[j + 1]
      <3>1. j + 1 \in 1 .. Len(r) /\ (j + 1) - 1 = j
        BY <1>1, <1>4
      <3> QED
        BY <1>5, <3>1
    <2>2. Sum(r, j) = IF j < p THEN Sum(bs, j) ELSE Sum(bs, j - 1) + n
      BY <1>1, <1>4, <1>7
    <2>3. j + 1 \in 1 .. Len(r) /\ j \in 0 .. Len(bs) /\ Sum(bs, j) \in Int
      BY <1>1, <1>4
    <2>4. CASE j + 1 < p
      <3>1. j + 1 \in 1 .. Len(bs) /\ (j + 1) - 1 = j
        BY <1>1, <2>4
      <3>2. Sum(bs, j + 1) = Sum(bs, j) + bs[j + 1]
        BY <1>1, <3>1
      <3> QED
        BY <1>4, <2>1, <2>2, <2>3, <2>4, <3>2
    <2>5. CASE j + 1 = p
      BY <1>4, <2>1, <2>2, <2>3, <2>5
    <2>6. CASE j + 1 > p
      <3>1. j \in 1 .. Len(bs) /\ (j + 1) - 1 = j
        BY <1>1, <2>3, <2>6
      <3>2. Sum(bs, j) = Sum(bs, j - 1) + bs[j] /\ Sum(bs, j - 1) \in Int /\ bs[j] \in Int
        BY <1>1, <3>1 DEF Positive
      <3>3. r[j + 1] = bs[j]
        BY <1>4, <2>3, <2>6, <3>1
      <3>4. Sum(r, j) = Sum(bs, j - 1) + n
        BY <2>2, <2>6
      <3> QED
        BY <2>1, <2>6, <3>2, <3>3, <3>4 DEF Positive
    <2> QED
      BY <2>3, <2>4, <2>5, <2>6
  <1>8. Nat \subseteq J
    <2> HIDE DEF J
    <2> QED
      BY <1>6, <1>7, NumberInduction
  <1>9. Len(r) \in J /\ Len(r) - 1 = Len(bs) /\ ~ (Len(r) < p)
    BY <1>1, <1>4, <1>8
  <1> QED
    BY <1>4, <1>9 DEF r

(* The part of an ingredient's stock that is in one warehouse. *)
LEMMA TotalChanges ==
    ASSUME NEW q \in [Cell -> Int], NEW t \in [Cell -> Int], NEW i \in Ingredient,
           NEW w \in Warehouse, \A v \in Warehouse : v # w => t[<<i, v>>] = q[<<i, v>>]
    PROVE  /\ Total(q, i) \in Int
           /\ Total(t, i) = Total(q, i) - q[<<i, w>>] + t[<<i, w>>]
  <1> DEFINE f == [v \in Warehouse |-> q[<<i, v>>]]
             g == [v \in Warehouse |-> t[<<i, v>>]]
  <1>1. \A v \in Warehouse : f[v] \in Int /\ g[v] \in Int
    BY DEF Cell
  <1>2. SumFunctionOnSet(g, Warehouse) = SumFunctionOnSet(f, Warehouse) - f[w] + g[w]
    <2>1. \A v \in Warehouse : v # w => g[v] = f[v]
      OBVIOUS
    <2> HIDE DEF f, g
    <2> QED
      BY <1>1, <2>1, SumChanges, RecipeAssumption
  <1>3. SumFunctionOnSet(f, Warehouse) \in Int
    BY <1>1, SumType, RecipeAssumption
  <1> QED
    BY <1>2, <1>3 DEF Total

LEMMA TotalKept ==
    ASSUME NEW q, NEW t, NEW i, \A v \in Warehouse : t[<<i, v>>] = q[<<i, v>>]
    PROVE  Total(t, i) = Total(q, i)
  <1>1. [v \in Warehouse |-> t[<<i, v>>]] = [v \in Warehouse |-> q[<<i, v>>]]
    OBVIOUS
  <1> QED
    BY <1>1, Zenon DEF Total

-----------------------------------------------------------------------------
(* The services, with any quantities: those of sales, transfers and counts in
   Next, those of purchase orders and stock counts in DocumentsNext. *)
Services ==
    \/ \E i \in Ingredient, w \in Warehouse, n \in Positive :
          ReceiveStock(i, w, n) \/ ConsumeStock(i, w, n)
    \/ \E i \in Ingredient, v, w \in Warehouse, n \in Positive : TransferStock(i, v, w, n)
    \/ \E p \in Product, n \in Positive : Sell(p, n) \/ Restock(p, n)
    \/ \E p \in Product : ToggleAvailability(p)

Books == TypeOK /\ StockReconciles

LEMMA AdjustIsService ==
    ASSUME Books, NEW i \in Ingredient, NEW w \in Warehouse, NEW new \in Int,
           AdjustStock(i, w, new)
    PROVE  [Services]_vars
  <1> DEFINE delta == new - quantity[<<i, w>>]
  <1>1. delta \in Int
    BY DEF Books, TypeOK, Cell
  <1>2. \/ delta > 0 /\ ReceiveStock(i, w, delta)
        \/ delta < 0 /\ ConsumeStock(i, w, -delta)
        \/ UNCHANGED vars
    BY DEF AdjustStock
  <1> HIDE DEF delta
  <1>3. delta > 0 => delta \in Positive
    BY <1>1 DEF Positive
  <1>4. delta < 0 => -delta \in Positive
    BY <1>1 DEF Positive
  <1> QED
    BY <1>2, <1>3, <1>4, Zenon DEF Services

LEMMA NextIsService == Books /\ Next => [Services]_vars
  <1>1. Amount \subseteq Positive /\ 0 .. MaxQuantity \subseteq Int
    BY DEF Amount, Positive
  <1> QED
    BY <1>1, AdjustIsService, Zenon DEF Next, Services

(* What a service does to one cell. *)
Kept(c) ==
    /\ quantity'[c] = quantity[c] /\ moved'[c] = moved[c]
    /\ batches'[c] = batches[c] /\ short'[c] = short[c]

TakenFrom(c, n) ==
    /\ quantity'[c] = quantity[c] - n /\ moved'[c] = moved[c] - n
    /\ batches'[c] = Take(batches[c], n)
    /\ short'[c] = short[c] + Shortfall(batches[c], n)

PutInto(c, n) ==
    /\ quantity'[c] = quantity[c] + n /\ moved'[c] = moved[c] + n
    /\ \E p \in 1 .. Len(batches[c]) + 1 : batches'[c] = InsertAt(batches[c], p, n)
    /\ short'[c] = short[c]

AreFunctions ==
    /\ quantity = [c \in Cell |-> quantity[c]] /\ moved = [c \in Cell |-> moved[c]]
    /\ batches = [c \in Cell |-> batches[c]] /\ short = [c \in Cell |-> short[c]]

LEMMA PlacesFit ==
    ASSUME NEW i, NEW bs \in Seq(Positive)
    PROVE  Places(i, bs) \subseteq 1 .. Len(bs) + 1
  BY LenProperties DEF Places

LEMMA BatchesTyped ==
    ASSUME TypeOK, NEW c \in Cell
    PROVE  batches[c] \in Seq(Positive)
  BY DEF TypeOK, Positive

LEMMA ConsumedCells ==
    ASSUME TypeOK, NEW C \in SUBSET Cell, NEW n \in Positive, Consumed(C, n)
    PROVE  /\ AreFunctions'
           /\ \A c \in C : TakenFrom(c, n)
           /\ \A c \in Cell \ C : Kept(c)
  <1>1. /\ quantity' = [c \in Cell |-> quantity[c] - IF c \in C THEN n ELSE 0]
        /\ moved' = [c \in Cell |-> moved[c] - IF c \in C THEN n ELSE 0]
        /\ batches' = [c \in Cell |-> IF c \in C THEN Take(batches[c], n) ELSE batches[c]]
        /\ short' = [c \in Cell |-> IF c \in C THEN short[c] + Shortfall(batches[c], n)
                                    ELSE short[c]]
    BY Zenon DEF Consumed
  <1>2. AreFunctions'
    BY <1>1 DEF AreFunctions
  <1>3. \A c \in C : TakenFrom(c, n)
    BY <1>1 DEF TakenFrom
  <1>4. \A c \in Cell \ C : Kept(c)
    BY <1>1 DEF Kept, TypeOK
  <1> QED
    BY <1>2, <1>3, <1>4

LEMMA ReceivedCells ==
    ASSUME TypeOK, NEW C \in SUBSET Cell, NEW n \in Positive, Received(C, n)
    PROVE  /\ AreFunctions'
           /\ \A c \in C : PutInto(c, n)
           /\ \A c \in Cell \ C : Kept(c)
  <1>1. PICK place \in [C -> 1 .. MaxQuantity + MaxShort + 1] :
          /\ \A c \in C : place[c] \in Places(c[1], batches[c])
          /\ batches' = [c \in Cell |-> IF c \in C THEN InsertAt(batches[c], place[c], n)
                                        ELSE batches[c]]
    BY Zenon DEF Received
  <1>2. /\ quantity' = [c \in Cell |-> quantity[c] + IF c \in C THEN n ELSE 0]
        /\ moved' = [c \in Cell |-> moved[c] + IF c \in C THEN n ELSE 0]
        /\ short' = short
    BY Zenon DEF Received
  <1>3. \A c \in C : place[c] \in 1 .. Len(batches[c]) + 1
    BY <1>1, BatchesTyped, PlacesFit
  <1>4. AreFunctions'
    BY <1>1, <1>2 DEF AreFunctions, TypeOK
  <1>5. \A c \in C : PutInto(c, n)
    BY <1>1, <1>2, <1>3 DEF PutInto
  <1>6. \A c \in Cell \ C : Kept(c)
    BY <1>1, <1>2 DEF Kept, TypeOK
  <1> QED
    BY <1>4, <1>5, <1>6

LEMMA TransferCells ==
    ASSUME TypeOK, NEW i \in Ingredient, NEW v \in Warehouse, NEW w \in Warehouse,
           NEW n \in Positive, TransferStock(i, v, w, n)
    PROVE  /\ AreFunctions'
           /\ v # w
           /\ TakenFrom(<<i, v>>, n) /\ PutInto(<<i, w>>, n)
           /\ \A c \in Cell \ {<<i, v>>, <<i, w>>} : Kept(c)
  <1>1. PICK place \in Places(i, batches[<<i, w>>]) :
          batches' = [batches EXCEPT ![<<i, v>>] = Take(@, n), ![<<i, w>>] = InsertAt(@, place, n)]
    BY Zenon DEF TransferStock
  <1>2. /\ v # w
        /\ quantity' = [quantity EXCEPT ![<<i, v>>] = quantity[<<i, v>>] - n, ![<<i, w>>] = @ + n]
        /\ moved' = [moved EXCEPT ![<<i, v>>] = @ - n, ![<<i, w>>] = @ + n]
        /\ short' = [short EXCEPT ![<<i, v>>] = @ + Shortfall(batches[<<i, v>>], n)]
    BY Zenon DEF TransferStock
  <1>3. <<i, v>> \in Cell /\ <<i, w>> \in Cell /\ <<i, v>> # <<i, w>>
    BY <1>2 DEF Cell
  <1>4. place \in 1 .. Len(batches[<<i, w>>]) + 1
    BY <1>3, BatchesTyped, PlacesFit
  <1>5. AreFunctions'
    BY <1>1, <1>2 DEF AreFunctions, TypeOK
  <1>6. TakenFrom(<<i, v>>, n)
    BY <1>1, <1>2, <1>3 DEF TakenFrom, TypeOK
  <1>7. PutInto(<<i, w>>, n)
    BY <1>1, <1>2, <1>3, <1>4 DEF PutInto, TypeOK
  <1>8. \A c \in Cell \ {<<i, v>>, <<i, w>>} : Kept(c)
    BY <1>1, <1>2 DEF Kept, TypeOK
  <1> QED
    BY <1>2, <1>5, <1>6, <1>7, <1>8

LEMMA RecipeCells ==
    ASSUME NEW p \in Product
    PROVE  /\ Recipe[p] \subseteq Ingredient
           /\ Recipe[p] \X {Default} \in SUBSET Cell
  BY RecipeAssumption DEF Cell

LEMMA ServiceCells ==
    ASSUME TypeOK, Services
    PROVE  /\ AreFunctions'
           /\ \A c \in Cell : Kept(c) \/ \E n \in Positive : TakenFrom(c, n) \/ PutInto(c, n)
  <1> DEFINE Goal == /\ AreFunctions'
                     /\ \A c \in Cell : Kept(c) \/ \E n \in Positive : TakenFrom(c, n) \/ PutInto(c, n)
  <1>1. ASSUME NEW C \in SUBSET Cell, NEW n \in Positive, Consumed(C, n) \/ Received(C, n)
        PROVE  Goal
    BY <1>1, ConsumedCells, ReceivedCells, Zenon
  <1>2. ASSUME NEW i \in Ingredient, NEW w \in Warehouse, NEW n \in Positive,
               ReceiveStock(i, w, n) \/ ConsumeStock(i, w, n)
        PROVE  Goal
    <2>1. {<<i, w>>} \in SUBSET Cell
      BY DEF Cell
    <2> HIDE DEF Goal
    <2> QED
      BY <1>1, <1>2, <2>1, Zenon DEF ReceiveStock, ConsumeStock
  <1>3. ASSUME NEW i \in Ingredient, NEW v \in Warehouse, NEW w \in Warehouse, NEW n \in Positive,
               TransferStock(i, v, w, n)
        PROVE  Goal
    <2>1. /\ AreFunctions'
          /\ TakenFrom(<<i, v>>, n) /\ PutInto(<<i, w>>, n)
          /\ \A c \in Cell \ {<<i, v>>, <<i, w>>} : Kept(c)
      BY <1>3, TransferCells
    <2>2. ASSUME NEW c \in Cell
          PROVE  Kept(c) \/ TakenFrom(c, n) \/ PutInto(c, n)
      <3>1. CASE c = <<i, v>>
        BY <2>1, <3>1, Zenon
      <3>2. CASE c = <<i, w>>
        BY <2>1, <3>2, Zenon
      <3> QED
        BY <2>1, <3>1, <3>2, Zenon
    <2> QED
      BY <2>1, <2>2, Zenon
  <1>4. ASSUME NEW p \in Product, NEW n \in Positive, Sell(p, n) \/ Restock(p, n)
        PROVE  Goal
    <2> HIDE DEF Goal
    <2> QED
      BY <1>1, <1>4, RecipeCells, Zenon DEF Sell, Restock
  <1>5. ASSUME NEW p \in Product, ToggleAvailability(p)
        PROVE  Goal
    <2>1. UNCHANGED <<quantity, batches, moved, short>>
      BY <1>5, Zenon DEF ToggleAvailability, stockVars
    <2> QED
      BY <2>1 DEF AreFunctions, Kept, TypeOK
  <1> HIDE DEF Goal
  <1>6. Goal
    BY <1>2, <1>3, <1>4, <1>5, Zenon DEF Services
  <1> QED
    BY <1>6 DEF Goal

-----------------------------------------------------------------------------
(* The books *)

LEMMA SaleTyped ==
    ASSUME TypeOK, Services
    PROVE  sale' \in [Product -> {"open", "closed"}]
  <1>1. ASSUME NEW P, NEW value \in {"open", "closed"}, SetSale(P, value)
        PROVE  sale' \in [Product -> {"open", "closed"}]
    BY <1>1 DEF SetSale, TypeOK
  <1>2. ASSUME NEW i \in Ingredient, NEW v \in Warehouse, NEW w \in Warehouse, NEW n \in Positive,
               TransferStock(i, v, w, n)
        PROVE  sale' \in [Product -> {"open", "closed"}]
    <2> DEFINE closed == {p \in Product : sale[p] = "open" /\ i \in Recipe[p]
                                             /\ Total(quantity, i) - n <= 0}
               open == {p \in Product : /\ sale[p] # "open" \/ p \in closed
                                        /\ i \in Recipe[p]
                                        /\ \A j \in Recipe[p] : ~OutOfStock(j)}
    <2>1. sale' = [p \in Product |-> IF p \in open THEN "open"
                                      ELSE IF p \in closed THEN "closed" ELSE sale[p]]
      BY <1>2, Zenon DEF TransferStock
    <2> HIDE DEF open, closed
    <2> QED
      BY <2>1 DEF TypeOK
  <1>3. ASSUME NEW p \in Product, ToggleAvailability(p)
        PROVE  sale' \in [Product -> {"open", "closed"}]
    BY <1>3 DEF ToggleAvailability, TypeOK
  <1> QED
    BY <1>1, <1>2, <1>3, Zenon DEF Services, ReceiveStock, ConsumeStock, Sell, Restock

LEMMA BooksStep ==
    ASSUME Books, [Services]_vars
    PROVE  Books'
  <1> USE DEF Books
  <1>1. CASE UNCHANGED vars
    BY <1>1 DEF vars, stockVars, TypeOK, StockReconciles
  <1>2. CASE Services
    <2> DEFINE Good(c) ==
                 /\ quantity[c] \in Int /\ moved[c] \in Int /\ short[c] \in Nat
                 /\ batches[c] \in Seq(Positive)
                 /\ quantity[c] = moved[c]
                 /\ Sum(batches[c], Len(batches[c])) = quantity[c] + short[c]
    <2>1. ASSUME NEW c \in Cell
          PROVE  Good(c)'
      <3>1. Good(c)
        BY BatchesTyped DEF TypeOK, StockReconciles
      <3>2. CASE Kept(c)
        BY <3>1, <3>2 DEF Kept
      <3>3. ASSUME NEW n \in Positive, TakenFrom(c, n)
            PROVE  Good(c)'
        <4> DEFINE b == batches[c]
        <4>1. n \in Nat /\ n \in Int
          BY DEF Positive
        <4>2. /\ Take(b, n) \in Seq(Positive) /\ Shortfall(b, n) \in Nat
              /\ Sum(Take(b, n), Len(Take(b, n))) = Sum(b, Len(b)) - n + Shortfall(b, n)
          BY <3>1, <4>1, TakeSum, TakeLeaves
        <4>3. batches'[c] = Take(b, n)
          BY <3>3 DEF TakenFrom
        <4>4. Sum(batches'[c], Len(batches'[c])) = Sum(b, Len(b)) - n + Shortfall(b, n)
          BY <4>2, <4>3, Zenon
        <4> QED
          BY <3>1, <3>3, <4>1, <4>2, <4>4 DEF TakenFrom
      <3>4. ASSUME NEW n \in Positive, PutInto(c, n)
            PROVE  Good(c)'
        <4>1. n \in Nat /\ n \in Int
          BY DEF Positive
        <4>2. /\ batches'[c] \in Seq(Positive)
              /\ Sum(batches'[c], Len(batches'[c])) = Sum(batches[c], Len(batches[c])) + n
          BY <3>1, <3>4, InsertAdds, Zenon DEF PutInto
        <4> QED
          BY <3>1, <3>4, <4>1, <4>2 DEF PutInto
      <3> QED
        BY <1>2, <3>2, <3>3, <3>4, ServiceCells
    <2>2. AreFunctions' /\ sale' \in [Product -> {"open", "closed"}]
      BY <1>2, ServiceCells, SaleTyped
    <2>3. TypeOK'
      BY <2>1, <2>2 DEF TypeOK, AreFunctions, Positive
    <2> QED
      BY <2>1, <2>3 DEF StockReconciles
  <1> QED
    BY <1>1, <1>2

LEMMA BooksInit == Init => Books
  <1> SUFFICES ASSUME Init PROVE Books
    OBVIOUS
  <1>1. TypeOK
    BY DEF Init, TypeOK
  <1>2. <<>> \in Seq(Int) /\ Len(<<>>) = 0
    OBVIOUS
  <1>3. Sum(<<>>, Len(<<>>)) = 0
    BY <1>2, PrefixSums
  <1>4. \A c \in Cell : batches[c] = <<>> /\ quantity[c] = 0 /\ moved[c] = 0 /\ short[c] = 0
    BY DEF Init
  <1> QED
    BY <1>1, <1>3, <1>4 DEF Books, StockReconciles

-----------------------------------------------------------------------------
(* The order of the batches *)

TakesOldest ==
    \A c \in Cell :
        quantity'[c] < quantity[c] /\ batches'[c] # <<>> =>
            LET gone == Len(batches[c]) - Len(batches'[c])
            IN  Tail(batches'[c]) = SubSeq(batches[c], gone + 2, Len(batches[c]))

LEMMA TakeKeepsRest ==
    ASSUME NEW bs \in Seq(Positive), NEW n \in Nat, Take(bs, n) # <<>>
    PROVE  LET gone == Len(bs) - Len(Take(bs, n))
           IN  Tail(Take(bs, n)) = SubSeq(bs, gone + 2, Len(bs))
  <1> DEFINE r == Take(bs, n)
             gone == UsedUp(bs, n)
  <1>1. Len(bs) \in Nat /\ gone \in 0 .. Len(bs)
    BY UsedUpIs, LenProperties
  <1>2. /\ r \in Seq(Positive) /\ Len(r) = Len(bs) - gone
        /\ \A j \in 1 .. Len(r) : r[j] = IF j = 1 THEN Sum(bs, gone + 1) - n ELSE bs[gone + j]
    BY TakeLeaves, Zenon
  <1>3. r # <<>>
    OBVIOUS
  <1> HIDE DEF r, gone
  <1>4. /\ Tail(r) \in Seq(Positive) /\ Len(Tail(r)) = Len(r) - 1 /\ Len(r) \in Nat \ {0}
        /\ \A j \in 1 .. Len(r) - 1 : Tail(r)[j] = r[j + 1]
    BY <1>2, <1>3
  <1> DEFINE rest == SubSeq(bs, gone + 2, Len(bs))
  <1>5. /\ rest \in Seq(Positive) /\ Len(rest) = Len(bs) - gone - 1
        /\ \A j \in 1 .. Len(bs) - gone - 1 : rest[j] = bs[gone + j + 1]
    BY <1>1, <1>2, <1>4
  <1>6. ASSUME NEW j \in 1 .. Len(r) - 1
        PROVE  Tail(r)[j] = rest[j]
    <2>1. j + 1 \in 1 .. Len(r) /\ j + 1 # 1 /\ gone + (j + 1) = gone + j + 1
          /\ j \in 1 .. Len(bs) - gone - 1
      BY <1>1, <1>2, <1>4
    <2>2. Tail(r)[j] = bs[gone + (j + 1)]
      BY <1>2, <1>4, <2>1
    <2> QED
      BY <1>5, <2>1, <2>2, Zenon
  <1>7. Tail(r) = rest
    <2> HIDE DEF rest
    <2>1. Len(Tail(r)) = Len(rest)
      BY <1>1, <1>2, <1>4, <1>5
    <2> QED
      BY <1>4, <1>5, <1>6, <2>1, SeqEqual
  <1>8. Len(bs) - Len(r) = gone
    BY <1>1, <1>2
  <1> QED
    BY <1>7, <1>8, Zenon DEF r

LEMMA OldestStep ==
    ASSUME Books, Services
    PROVE  TakesOldest
  <1> SUFFICES ASSUME NEW c \in Cell, quantity'[c] < quantity[c], batches'[c] # <<>>
               PROVE  LET gone == Len(batches[c]) - Len(batches'[c])
                      IN  Tail(batches'[c]) = SubSeq(batches[c], gone + 2, Len(batches[c]))
    BY DEF TakesOldest
  <1>1. quantity[c] \in Int /\ batches[c] \in Seq(Positive)
    BY BatchesTyped DEF Books, TypeOK
  <1>2. PICK n \in Positive : TakenFrom(c, n)
    <2>1. \A n \in Positive : ~ PutInto(c, n)
      BY <1>1 DEF PutInto, Positive
    <2>2. ~ Kept(c)
      BY <1>1 DEF Kept
    <2> QED
      BY <2>1, <2>2, ServiceCells DEF Books
  <1>3. n \in Nat /\ batches'[c] = Take(batches[c], n)
    BY <1>2 DEF TakenFrom, Positive
  <1> QED
    BY <1>1, <1>3, TakeKeepsRest, Zenon

-----------------------------------------------------------------------------
(* Transfers *)

TransferBacked ==
    \A i \in Ingredient, v, w \in Warehouse :
        quantity'[<<i, v>>] < quantity[<<i, v>>] /\ quantity'[<<i, w>>] > quantity[<<i, w>>]
            => short' = short

LEMMA TransferBackedStep ==
    ASSUME Books, Services
    PROVE  TransferBacked
  <1> SUFFICES ASSUME NEW i \in Ingredient, NEW v \in Warehouse, NEW w \in Warehouse,
                      quantity'[<<i, v>>] < quantity[<<i, v>>],
                      quantity'[<<i, w>>] > quantity[<<i, w>>]
               PROVE  short' = short
    BY DEF TransferBacked
  <1>0. /\ \A c \in Cell : quantity[c] \in Int
        /\ \A n \in Positive : n \in Int /\ n > 0
        /\ <<i, v>> \in Cell /\ <<i, w>> \in Cell
    BY DEF Books, TypeOK, Positive, Cell
  <1>1. ASSUME NEW C \in SUBSET Cell, NEW n \in Positive, Consumed(C, n)
        PROVE  FALSE
    <2>1. TakenFrom(<<i, w>>, n) \/ Kept(<<i, w>>)
      BY <1>0, <1>1, ConsumedCells DEF Books
    <2> QED
      BY <1>0, <2>1 DEF TakenFrom, Kept
  <1>2. ASSUME NEW C \in SUBSET Cell, NEW n \in Positive, Received(C, n)
        PROVE  FALSE
    <2>1. PutInto(<<i, v>>, n) \/ Kept(<<i, v>>)
      BY <1>0, <1>2, ReceivedCells DEF Books
    <2> QED
      BY <1>0, <2>1 DEF PutInto, Kept
  <1>3. ASSUME NEW j \in Ingredient, NEW x \in Warehouse, NEW y \in Warehouse, NEW n \in Positive,
               TransferStock(j, x, y, n)
        PROVE  short' = short
    <2> DEFINE c == <<j, x>>
    <2>1. c \in Cell /\ n \in Nat
      BY DEF Cell, Positive
    <2>2. n <= quantity[c]
      BY <1>3 DEF TransferStock, CanTransfer
    <2>3. /\ batches[c] \in Seq(Positive) /\ short[c] \in Nat
          /\ Sum(batches[c], Len(batches[c])) = quantity[c] + short[c]
      BY <2>1, BatchesTyped DEF Books, TypeOK, StockReconciles
    <2>4. n <= Sum(batches[c], Len(batches[c]))
      BY <1>0, <2>1, <2>2, <2>3
    <2>5. Shortfall(batches[c], n) = 0
      BY <2>1, <2>3, <2>4, TakeSum
    <2>6. short' = [short EXCEPT ![c] = short[c] + Shortfall(batches[c], n)]
      BY <1>3, Zenon DEF TransferStock
    <2> QED
      BY <2>3, <2>5, <2>6 DEF Books, TypeOK
  <1>4. \A j \in Ingredient, x \in Warehouse : {<<j, x>>} \in SUBSET Cell
    BY DEF Cell
  <1>5. ASSUME NEW p \in Product, ToggleAvailability(p)
        PROVE  short' = short
    BY <1>5, Zenon DEF ToggleAvailability, stockVars
  <1> QED
    BY <1>1, <1>2, <1>3, <1>4, <1>5, RecipeCells, Zenon
    DEF Services, ReceiveStock, ConsumeStock, Sell, Restock

-----------------------------------------------------------------------------
(* Stock of all warehouses together *)

LEMMA TakenTotal ==
    ASSUME TypeOK, TypeOK', NEW i \in Ingredient, NEW w \in Warehouse, NEW n \in Positive,
           \A v \in Warehouse : v # w => Kept(<<i, v>>),
           TakenFrom(<<i, w>>, n) \/ PutInto(<<i, w>>, n)
    PROVE  /\ Total(quantity, i) \in Int
           /\ TakenFrom(<<i, w>>, n) => Total(quantity', i) = Total(quantity, i) - n
           /\ PutInto(<<i, w>>, n) => Total(quantity', i) = Total(quantity, i) + n
  <1>1. quantity \in [Cell -> Int] /\ quantity' \in [Cell -> Int]
    BY DEF TypeOK
  <1>2. \A v \in Warehouse : v # w => quantity'[<<i, v>>] = quantity[<<i, v>>]
    BY DEF Kept
  <1>3. /\ Total(quantity, i) \in Int
        /\ Total(quantity', i) = Total(quantity, i) - quantity[<<i, w>>] + quantity'[<<i, w>>]
    BY <1>1, <1>2, TotalChanges
  <1>4. quantity[<<i, w>>] \in Int /\ n \in Int
    BY <1>1 DEF Cell, Positive
  <1> QED
    BY <1>3, <1>4 DEF TakenFrom, PutInto

LEMMA TotalTyped ==
    ASSUME TypeOK, NEW i \in Ingredient
    PROVE  Total(quantity, i) \in Int
  BY TotalChanges, RecipeAssumption DEF TypeOK

LEMMA ServiceTotals ==
    ASSUME TypeOK, TypeOK', NEW I \in SUBSET Ingredient, NEW w \in Warehouse, NEW n \in Positive,
           NEW i \in Ingredient
    PROVE  /\ Consumed(I \X {w}, n) =>
                 /\ i \in I => Total(quantity', i) = Total(quantity, i) - n
                 /\ i \notin I => Total(quantity', i) = Total(quantity, i)
           /\ Received(I \X {w}, n) =>
                 /\ i \in I => Total(quantity', i) = Total(quantity, i) + n
                 /\ i \notin I => Total(quantity', i) = Total(quantity, i)
  <1> DEFINE C == I \X {w}
  <1>1. C \in SUBSET Cell /\ \A v \in Warehouse : <<i, v>> \in C <=> i \in I /\ v = w
    BY DEF Cell
  <1>2. \A v \in Warehouse : <<i, v>> \in Cell
    BY DEF Cell
  <1>3. Total(quantity, i) \in Int
    BY TotalTyped
  <1>4. ASSUME \A v \in Warehouse : Kept(<<i, v>>)
        PROVE  Total(quantity', i) = Total(quantity, i)
    <2>1. \A v \in Warehouse : quantity'[<<i, v>>] = quantity[<<i, v>>]
      BY <1>4 DEF Kept
    <2> QED
      BY <2>1, TotalKept
  <1> HIDE DEF C
  <1>5. ASSUME Consumed(C, n)
        PROVE  /\ i \in I => Total(quantity', i) = Total(quantity, i) - n
               /\ i \notin I => Total(quantity', i) = Total(quantity, i)
    <2>1. \A v \in Warehouse : IF i \in I /\ v = w THEN TakenFrom(<<i, v>>, n) ELSE Kept(<<i, v>>)
      BY <1>1, <1>2, <1>5, ConsumedCells
    <2>2. CASE i \in I
      BY <2>1, <2>2, TakenTotal
    <2>3. CASE i \notin I
      BY <1>3, <1>4, <2>1, <2>3
    <2> QED
      BY <2>2, <2>3
  <1>6. ASSUME Received(C, n)
        PROVE  /\ i \in I => Total(quantity', i) = Total(quantity, i) + n
               /\ i \notin I => Total(quantity', i) = Total(quantity, i)
    <2>1. \A v \in Warehouse : IF i \in I /\ v = w THEN PutInto(<<i, v>>, n) ELSE Kept(<<i, v>>)
      BY <1>1, <1>2, <1>6, ReceivedCells
    <2>2. CASE i \in I
      BY <2>1, <2>2, TakenTotal
    <2>3. CASE i \notin I
      BY <1>3, <1>4, <2>1, <2>3
    <2> QED
      BY <2>2, <2>3
  <1> QED
    BY <1>5, <1>6 DEF C

LEMMA TransferTotals ==
    ASSUME TypeOK, NEW i \in Ingredient, NEW v \in Warehouse, NEW w \in Warehouse,
           NEW n \in Positive, TransferStock(i, v, w, n), NEW j \in Ingredient
    PROVE  Total(quantity', j) = Total(quantity, j)
  <1> DEFINE a == <<i, v>>
             b == <<i, w>>
             between == [quantity EXCEPT ![a] = quantity[a] - n]
  <1>1. /\ a \in Cell /\ b \in Cell /\ v # w /\ a # b
        /\ quantity' = [quantity EXCEPT ![a] = quantity[a] - n, ![b] = @ + n]
    BY DEF TransferStock, Cell
  <1>2. quantity \in [Cell -> Int] /\ n \in Int
    BY DEF TypeOK, Positive
  <1>3. between \in [Cell -> Int] /\ quantity' \in [Cell -> Int]
    BY <1>1, <1>2
  <1>4. /\ between[a] = quantity[a] - n /\ between[b] = quantity[b]
        /\ quantity'[b] = quantity[b] + n
        /\ \A c \in Cell : c # a => between[c] = quantity[c]
        /\ \A c \in Cell : c # b => quantity'[c] = between[c]
    BY <1>1, <1>2
  <1> HIDE DEF between
  <1>5. CASE j = i
    <2>1. /\ \A x \in Warehouse : x # v => between[<<i, x>>] = quantity[<<i, x>>]
          /\ \A x \in Warehouse : x # w => quantity'[<<i, x>>] = between[<<i, x>>]
      BY <1>4 DEF Cell
    <2>2. /\ Total(quantity, i) \in Int
          /\ Total(between, i) = Total(quantity, i) - quantity[a] + between[a]
      BY <1>2, <1>3, <2>1, TotalChanges
    <2>3. Total(quantity', i) = Total(between, i) - between[b] + quantity'[b]
      BY <1>3, <2>1, TotalChanges
    <2>4. quantity[a] \in Int /\ quantity[b] \in Int
      BY <1>1, <1>2
    <2> QED
      BY <1>2, <1>4, <1>5, <2>2, <2>3, <2>4
  <1>6. CASE j # i
    <2>1. \A x \in Warehouse : quantity'[<<j, x>>] = quantity[<<j, x>>]
      BY <1>4, <1>6 DEF Cell
    <2> QED
      BY <2>1, TotalKept
  <1> QED
    BY <1>5, <1>6

LEMMA OneCell == \A i, w : {<<i, w>>} = {i} \X {w}
  OBVIOUS

-----------------------------------------------------------------------------
(* Products *)

ClosesAtStockout ==
    quantity' # quantity => \A i \in Ingredient :
        Total(quantity, i) > 0 /\ Total(quantity', i) <= 0 =>
            \A p \in Product : i \in Recipe[p] => sale'[p] # "open"

ReopensStocked ==
    quantity' # quantity =>
        \A p \in Product : sale[p] # "open" /\ sale'[p] = "open" =>
            \A i \in Recipe[p] : Total(quantity', i) > 0

LEMMA SaleSteps ==
    ASSUME TypeOK, TypeOK', Services
    PROVE  ClosesAtStockout /\ ReopensStocked
  <1> DEFINE Goal == ClosesAtStockout /\ ReopensStocked
  <1>0. /\ \A i \in Ingredient : Total(quantity, i) \in Int /\ Total(quantity', i) \in Int
        /\ \A p \in Product : Recipe[p] \subseteq Ingredient
        /\ Default \in Warehouse
    <2>1. \A i \in Ingredient : Total(quantity, i) \in Int
      BY TotalTyped
    <2>2. \A i \in Ingredient : Total(quantity', i) \in Int
      <3>1. quantity' \in [Cell -> Int]
        BY DEF TypeOK
      <3> QED
        BY <3>1, TotalChanges, RecipeAssumption
    <2> QED
      BY <2>1, <2>2, RecipeCells, RecipeAssumption
  <1>1. ASSUME NEW I \in SUBSET Ingredient, NEW w \in Warehouse, NEW n \in Positive,
               Consumed(I \X {w}, n), SetSale(Closes(I), "closed")
        PROVE  Goal
    <2>1. ASSUME NEW i \in Ingredient, Total(quantity, i) > 0, Total(quantity', i) <= 0,
                 NEW p \in Product, i \in Recipe[p]
          PROVE  sale'[p] # "open"
      <3>1. i \notin I => Total(quantity', i) = Total(quantity, i)
        BY <1>1, ServiceTotals
      <3>2. i \in I
        BY <1>0, <2>1, <3>1
      <3>3. sale[p] = "open" => p \in Closes(I)
        BY <2>1, <3>2 DEF Closes, OutOfStock
      <3> QED
        BY <1>1, <3>3 DEF SetSale
    <2>2. \A p \in Product : sale[p] # "open" => sale'[p] # "open"
      BY <1>1 DEF SetSale
    <2> QED
      BY <2>1, <2>2 DEF ClosesAtStockout, ReopensStocked
  <1>2. ASSUME NEW I \in SUBSET Ingredient, NEW w \in Warehouse, NEW n \in Positive,
               Received(I \X {w}, n), SetSale(Reopens(I), "open")
        PROVE  Goal
    <2>1. ASSUME NEW i \in Ingredient, Total(quantity, i) > 0
          PROVE  ~ (Total(quantity', i) <= 0)
      <3>1. Total(quantity', i) = Total(quantity, i) + n \/ Total(quantity', i) = Total(quantity, i)
        BY <1>2, ServiceTotals, Zenon
      <3>2. n \in Nat
        BY DEF Positive
      <3> QED
        BY <1>0, <2>1, <3>1, <3>2
    <2>2. ASSUME NEW p \in Product, sale[p] # "open", sale'[p] = "open", NEW i \in Recipe[p]
          PROVE  Total(quantity', i) > 0
      <3>1. p \in Reopens(I)
        BY <1>2, <2>2 DEF SetSale
      <3>2. ~ (Total(quantity', i) <= 0)
        BY <3>1 DEF Reopens, OutOfStock
      <3> QED
        BY <1>0, <3>2
    <2> QED
      BY <2>1, <2>2 DEF ClosesAtStockout, ReopensStocked
  <1>3. ASSUME NEW i \in Ingredient, NEW v \in Warehouse, NEW w \in Warehouse, NEW n \in Positive,
               TransferStock(i, v, w, n)
        PROVE  Goal
    <2>1. \A j \in Ingredient : Total(quantity', j) = Total(quantity, j)
      BY <1>3, TransferTotals
    <2>2. ASSUME NEW p \in Product, sale[p] # "open", sale'[p] = "open", NEW j \in Recipe[p]
          PROVE  Total(quantity', j) > 0
      <3> DEFINE closed == {q \in Product : sale[q] = "open" /\ i \in Recipe[q]
                                              /\ Total(quantity, i) - n <= 0}
                 open == {q \in Product : /\ sale[q] # "open" \/ q \in closed
                                          /\ i \in Recipe[q]
                                          /\ \A k \in Recipe[q] : ~OutOfStock(k)}
      <3>1. sale' = [q \in Product |-> IF q \in open THEN "open"
                                       ELSE IF q \in closed THEN "closed" ELSE sale[q]]
        BY <1>3, Zenon DEF TransferStock
      <3>2. p \in open
        <4> HIDE DEF open, closed
        <4> QED
          BY <2>2, <3>1
      <3>3. ~ (Total(quantity', j) <= 0)
        BY <3>2, Zenon DEF OutOfStock
      <3> QED
        BY <1>0, <3>3
    <2> QED
      BY <1>0, <2>1, <2>2 DEF ClosesAtStockout, ReopensStocked
  <1>4. ASSUME NEW p \in Product, ToggleAvailability(p)
        PROVE  Goal
    BY <1>4, Zenon DEF ToggleAvailability, stockVars, ClosesAtStockout, ReopensStocked
  <1> HIDE DEF Goal
  <1>5. ASSUME NEW i \in Ingredient, NEW w \in Warehouse, NEW n \in Positive,
               ReceiveStock(i, w, n) \/ ConsumeStock(i, w, n)
        PROVE  Goal
    <2>1. {i} \in SUBSET Ingredient
      OBVIOUS
    <2>2. CASE ReceiveStock(i, w, n)
      <3>1. Received({i} \X {w}, n) /\ SetSale(Reopens({i}), "open")
        BY <2>2, OneCell, Zenon DEF ReceiveStock
      <3> QED
        BY <1>2, <2>1, <3>1, Zenon
    <2>3. CASE ConsumeStock(i, w, n)
      <3>1. Consumed({i} \X {w}, n) /\ SetSale(Closes({i}), "closed")
        BY <2>3, OneCell, Zenon DEF ConsumeStock
      <3> QED
        BY <1>1, <2>1, <3>1, Zenon
    <2> QED
      BY <1>5, <2>2, <2>3
  <1>6. ASSUME NEW p \in Product, NEW n \in Positive, Sell(p, n) \/ Restock(p, n)
        PROVE  Goal
    <2>1. Recipe[p] \in SUBSET Ingredient /\ Default \in Warehouse
      BY <1>0
    <2> QED
      BY <1>1, <1>2, <1>6, <2>1, Zenon DEF Sell, Restock
  <1>7. Goal
    BY <1>3, <1>4, <1>5, <1>6, Zenon DEF Services
  <1> QED
    BY <1>7 DEF Goal

-----------------------------------------------------------------------------
(* Documents: the inductive invariant of the deliveries *)

Full == \A i \in Lines \ belated : delivered[i] >= line[i].ordered

(* What a delivery read from the lines was booked by then; what it has just
   booked is enough for what it records next; and it closes the order only if
   everything that was asked for had come. *)
DeliverySound(c) ==
    /\ Doing(c, "stock") \/ Doing(c, "record") =>
          /\ \A i \in Ingredient : task[c].seen[i] <= delivered[i]
          /\ \A i \in task[c].todo : task[c].seen[i] < task[c].post[i]
    /\ Doing(c, "record") =>
          task[c].at \in Ingredient /\ task[c].post[task[c].at] <= delivered[task[c].at]
    /\ Doing(c, "status") /\ task[c].closes => Full

DeliveriesSound ==
    /\ ReceiptsBacked
    /\ purchase = "received" => Full
    /\ \A c \in Client : DeliverySound(c)

-----------------------------------------------------------------------------
(* Types *)

DocTypes == quantity \in [Cell -> Int] /\ DocumentsTypeOK

Request == Entry \cup Receipt \cup Listing \cup Applying

(* Only a delivery, a count being set up, or one being applied has these
   positions. *)
LEMMA RequestKinds ==
    ASSUME NEW r \in Request
    PROVE  /\ r.pc \in {"add", "save"} => r \in Entry
           /\ r.pc \in {"lines", "stock", "record", "check", "status"} => r \in Receipt
           /\ r.pc \in {"expected", "counted"} => r \in Listing
           /\ r.pc \in {"load", "adjust", "finish"} => r \in Applying
  BY DEF Request, Entry, Receipt, Listing, Applying

LEMMA DoingTyped ==
    ASSUME DocTypes, NEW c \in Client, NEW pc, Doing(c, pc)
    PROVE  /\ task[c] \in Request /\ task[c].pc = pc
  BY DEF DocTypes, DocumentsTypeOK, Doing, Request

(* Whatever a document moves, a service of the stock moves it. *)
LEMMA DocumentsServices ==
    ASSUME Books, DocTypes, DeliveriesSound, [DocumentsNext]_<<vars, documentVars>>
    PROVE  [Services]_vars
  <1>1. ASSUME NEW c \in Client, NEW i \in Ingredient, ReceiveLine(c, i)
        PROVE  Services
    <2>1. task[c] \in Receipt /\ Doing(c, "stock") /\ i \in task[c].todo
      BY <1>1, DoingTyped, RequestKinds DEF ReceiveLine
    <2>2. task[c].seen[i] < task[c].post[i]
      BY <2>1 DEF DeliveriesSound, DeliverySound
    <2>3. Delta(c, i) \in Positive
      BY <2>1, <2>2 DEF Delta, Receipt, Positive
    <2>4. ReceiveStock(i, Depot, Delta(c, i))
      BY <1>1 DEF ReceiveLine
    <2> QED
      BY <2>3, <2>4, DocumentsAssumption, Zenon DEF Services
  <1>2. ASSUME NEW c \in Client, NEW i \in Ingredient, AdjustLine(c, i)
        PROVE  [Services]_vars
    <2>1. task[c] \in Applying
      BY <1>2, DoingTyped, RequestKinds DEF AdjustLine
    <2>2. task[c].seen[i] \in Int /\ AdjustStock(i, Depot, task[c].seen[i])
      BY <1>2, <2>1 DEF AdjustLine, Adjust, Applying
    <2> QED
      BY <2>2, AdjustIsService, DocumentsAssumption
  <1>3. CASE StockMoves
    BY <1>3, NextIsService DEF StockMoves
  <1>4. CASE UNCHANGED vars
    BY <1>4
  <1> QED
    BY <1>1, <1>2, <1>3, <1>4
    DEF DocumentsNext, PurchaseCreate, PurchaseApprove, BeginAddLine, BeginCountSave, AddLine,
        BeginReceive, LoadLines, RecordLine, CheckLines, SavePurchase, CountCreate, ReadExpected,
        CreateCountLine, CountSave, BeginApply, LoadCount, FinishApply, BreakOff

LEMMA DocumentsBooks ==
    ASSUME Books, DocTypes, DeliveriesSound, [DocumentsNext]_<<vars, documentVars>>
    PROVE  Books'
  BY DocumentsServices, BooksStep

(* Which request a client has after the step. *)
LEMMA RequestTyped ==
    ASSUME DocTypes, DeliveriesSound, NEW c \in Client, NEW r \in Request \cup {Idle},
           task' = [task EXCEPT ![c] = r]
    PROVE  task' \in [Client -> Entry \cup Receipt \cup Listing \cup Applying \cup {Idle}]
  BY DEF DocTypes, DocumentsTypeOK, Request

(* The steps of a delivery. *)
LEMMA DeliveryTyped ==
    ASSUME DocTypes, DeliveriesSound, NEW c \in Client, quantity' \in [Cell -> Int],
           \/ LoadLines(c) \/ CheckLines(c) \/ RecordLine(c) \/ SavePurchase(c)
           \/ \E i \in Ingredient : ReceiveLine(c, i)
    PROVE  DocTypes'
  <1> USE DEF DocTypes, DocumentsTypeOK
  <1>0. task[c] \in Receipt
    BY DoingTyped, RequestKinds
    DEF LoadLines, CheckLines, RecordLine, SavePurchase, ReceiveLine
  <1>1. CASE LoadLines(c)
    <2> DEFINE new == {i \in Lines : task[c].post[i] > line[i].received}
               r == [task[c] EXCEPT !.seen = [i \in Ingredient |-> line[i].received],
                                    !.todo = new, !.pc = "stock"]
    <2>1. new \subseteq Ingredient
      BY DEF Lines
    <2>2. r \in Receipt
      <3> HIDE DEF new
      <3> QED
        BY <1>0, <2>1 DEF Receipt, Line
    <2>3. task' = [task EXCEPT ![c] = Idle] \/ task' = [task EXCEPT ![c] = r]
      BY <1>1 DEF LoadLines, Finish
    <2> HIDE DEF new, r
    <2>4. task' \in [Client -> Entry \cup Receipt \cup Listing \cup Applying \cup {Idle}]
      BY <2>2, <2>3, RequestTyped DEF Request
    <2> QED
      BY <1>1, <2>4 DEF LoadLines, purchaseVars, countVars
  <1>2. CASE CheckLines(c)
    <2>1. AllReceived(c) \in BOOLEAN
      BY Zenon DEF AllReceived
    <2> DEFINE r == [task[c] EXCEPT !.closes = AllReceived(c), !.pc = "status"]
    <2>2. r \in Receipt
      BY <1>0, <2>1 DEF Receipt
    <2>3. task' = [task EXCEPT ![c] = r]
      BY <1>2 DEF CheckLines
    <2> HIDE DEF r
    <2>4. task' \in [Client -> Entry \cup Receipt \cup Listing \cup Applying \cup {Idle}]
      BY <2>2, <2>3, RequestTyped DEF Request
    <2> QED
      BY <1>2, <2>4 DEF CheckLines, purchaseVars, countVars
  <1>3. ASSUME NEW i \in Ingredient, ReceiveLine(c, i)
        PROVE  DocTypes'
    <2> DEFINE r == [task[c] EXCEPT !.at = i, !.pc = "record"]
    <2>1. r \in Receipt
      BY <1>0 DEF Receipt
    <2>2. task' = [task EXCEPT ![c] = r]
      BY <1>3 DEF ReceiveLine
    <2> HIDE DEF r
    <2>3. task' \in [Client -> Entry \cup Receipt \cup Listing \cup Applying \cup {Idle}]
      BY <2>1, <2>2, RequestTyped DEF Request
    <2>4. Delta(c, i) \in Nat
      <3>1. Doing(c, "stock") /\ i \in task[c].todo
        BY <1>3 DEF ReceiveLine
      <3>2. task[c].seen[i] < task[c].post[i]
        BY <3>1 DEF DeliveriesSound, DeliverySound
      <3> QED
        BY <1>0, <3>2 DEF Delta, Receipt
    <2>5. delivered' = [delivered EXCEPT ![i] = delivered[i] + Delta(c, i)] /\ Touch
      BY <1>3 DEF ReceiveLine
    <2>6. delivered' \in [Ingredient -> Nat]
      BY <2>4, <2>5
    <2>7. touched' \subseteq Ingredient
      BY <2>5 DEF Touch
    <2> QED
      BY <1>3, <2>3, <2>6, <2>7 DEF ReceiveLine
  <1>4. CASE RecordLine(c)
    <2> DEFINE rest == task[c].todo \ {task[c].at}
               r == [task[c] EXCEPT !.todo = rest, !.at = Idle,
                                    !.pc = IF rest = {} THEN "check" ELSE "stock"]
    <2>1. r \in Receipt
      BY <1>0 DEF Receipt
    <2>2. task' = [task EXCEPT ![c] = r]
      BY <1>4 DEF RecordLine, AfterLine
    <2> HIDE DEF rest, r
    <2>3. task' \in [Client -> Entry \cup Receipt \cup Listing \cup Applying \cup {Idle}]
      BY <2>1, <2>2, RequestTyped DEF Request
    <2>4. line' \in [Ingredient -> Line]
      BY <1>0, <1>4 DEF RecordLine, Receipt, Line
    <2> QED
      BY <1>4, <2>3, <2>4 DEF RecordLine, countVars
  <1>5. CASE SavePurchase(c)
    BY <1>5 DEF SavePurchase, Finish, countVars
  <1> QED
    BY <1>1, <1>2, <1>3, <1>4, <1>5

(* The steps of a count. *)
LEMMA CountTyped ==
    ASSUME DocTypes, DeliveriesSound, NEW c \in Client, quantity' \in [Cell -> Int],
           \/ CountCreate(c) \/ CreateCountLine(c) \/ CountSave(c)
           \/ BeginApply(c) \/ LoadCount(c) \/ FinishApply(c)
           \/ \E i \in Ingredient : ReadExpected(c, i) \/ AdjustLine(c, i)
    PROVE  DocTypes'
  <1> USE DocumentsAssumption DEF DocTypes, DocumentsTypeOK
  <1>1. ASSUME NEW r \in Request \cup {Idle}, task' = [task EXCEPT ![c] = r]
        PROVE  task' \in [Client -> Entry \cup Receipt \cup Listing \cup Applying \cup {Idle}]
    BY <1>1, RequestTyped
  <1>2. CASE CountCreate(c)
    <2>1. [pc |-> "expected", at |-> Idle, expected |-> 0, todo |-> Ingredient] \in Request
      BY DEF Request, Listing
    <2> QED
      BY <1>1, <1>2, <2>1 DEF CountCreate, Begin, purchaseVars
  <1>3. CASE BeginApply(c)
    <2>1. [pc |-> "load", seen |-> [i \in Ingredient |-> 0], todo |-> {}] \in Request
      BY DEF Request, Applying
    <2> QED
      BY <1>1, <1>3, <2>1 DEF BeginApply, Begin, purchaseVars, countVars
  <1>4. ASSUME NEW i \in Ingredient, ReadExpected(c, i)
        PROVE  DocTypes'
    <2> DEFINE r == [task[c] EXCEPT !.at = i, !.pc = "counted", !.expected = quantity[<<i, Depot>>]]
    <2>1. task[c] \in Listing
      BY <1>4, DoingTyped, RequestKinds DEF ReadExpected
    <2>2. r \in Request
      BY <2>1 DEF Request, Listing, Cell
    <2>3. task' = [task EXCEPT ![c] = r]
      BY <1>4 DEF ReadExpected
    <2> HIDE DEF r
    <2> QED
      BY <1>1, <1>4, <2>2, <2>3 DEF ReadExpected, purchaseVars, countVars
  <1>5. CASE CreateCountLine(c)
    <2> DEFINE rest == task[c].todo \ {task[c].at}
               r == [task[c] EXCEPT !.todo = rest, !.at = Idle, !.pc = "expected"]
    <2>1. task[c] \in Listing
      BY <1>5, DoingTyped, RequestKinds DEF CreateCountLine
    <2>2. r \in Request
      BY <2>1 DEF Request, Listing
    <2>3. task' = [task EXCEPT ![c] = Idle] \/ task' = [task EXCEPT ![c] = r]
      BY <1>5 DEF CreateCountLine, Finish
    <2>4. counts' \in [Ingredient -> CountLine]
      BY <1>5, <2>1 DEF CreateCountLine, CountLine, Listing, Cell
    <2> HIDE DEF r, rest
    <2> QED
      BY <1>1, <1>5, <2>2, <2>3, <2>4 DEF CreateCountLine, purchaseVars
  <1>6. CASE CountSave(c)
    <2>1. task[c] \in Entry
      BY <1>6, DoingTyped, RequestKinds DEF CountSave
    <2> QED
      BY <1>6, <2>1 DEF CountSave, Finish, CountLine, Entry, purchaseVars
  <1>7. CASE LoadCount(c)
    <2> DEFINE differ == {i \in Ingredient : counts[i].listed /\ counts[i].counted # counts[i].expected}
               r == [task[c] EXCEPT !.seen = [i \in Ingredient |-> counts[i].counted],
                                    !.todo = differ,
                                    !.pc = IF differ = {} THEN "finish" ELSE "adjust"]
    <2>1. task[c] \in Applying
      BY <1>7, DoingTyped, RequestKinds DEF LoadCount
    <2>2. differ \subseteq Ingredient
      OBVIOUS
    <2>3. task' = [task EXCEPT ![c] = r]
      BY <1>7 DEF LoadCount
    <2> HIDE DEF differ
    <2>4. r \in Request
      BY <2>1, <2>2 DEF Request, Applying, CountLine
    <2> HIDE DEF r
    <2> QED
      BY <1>1, <1>7, <2>3, <2>4 DEF LoadCount, purchaseVars
  <1>8. ASSUME NEW i \in Ingredient, AdjustLine(c, i)
        PROVE  DocTypes'
    <2> DEFINE rest == task[c].todo \ {i}
               r == [task[c] EXCEPT !.todo = rest,
                                    !.pc = IF rest = {} THEN "finish" ELSE "adjust"]
    <2>1. task[c] \in Applying
      BY <1>8, DoingTyped, RequestKinds DEF AdjustLine
    <2>2. r \in Request
      BY <2>1 DEF Request, Applying
    <2>3. task' = [task EXCEPT ![c] = r]
      BY <1>8 DEF AdjustLine
    <2> HIDE DEF rest, r
    <2> QED
      BY <1>1, <1>8, <2>2, <2>3 DEF AdjustLine, purchaseVars, countVars
  <1>9. CASE FinishApply(c)
    BY <1>9 DEF FinishApply, Finish, purchaseVars
  <1> QED
    BY <1>2, <1>3, <1>4, <1>5, <1>6, <1>7, <1>8, <1>9

LEMMA DocTypesStep ==
    ASSUME Books, DocTypes, DeliveriesSound, [DocumentsNext]_<<vars, documentVars>>
    PROVE  DocTypes'
  <1>0. quantity' \in [Cell -> Int]
    BY DocumentsBooks DEF Books, TypeOK
  <1>1. CASE PurchaseCreate \/ PurchaseApprove
    BY <1>0, <1>1 DEF PurchaseCreate, PurchaseApprove, countVars, DocTypes, DocumentsTypeOK
  <1>2. ASSUME NEW c \in Client, NEW r \in Request, Begin(c, r), UNCHANGED <<purchaseVars, countVars>>
        PROVE  DocTypes'
    BY <1>0, <1>2 DEF Begin, purchaseVars, countVars, DocTypes, DocumentsTypeOK, Request
  <1>3. ASSUME NEW c \in Client, NEW i \in Ingredient, NEW n \in Quantity,
               BeginAddLine(c, i, n) \/ BeginCountSave(c, i, n)
        PROVE  DocTypes'
    BY <1>2, <1>3 DEF BeginAddLine, BeginCountSave, Entry, Quantity, Request
  <1>4. ASSUME NEW c \in Client, NEW post \in [Ingredient -> Quantity], BeginReceive(c, post)
        PROVE  DocTypes'
    <2>1. [pc |-> "lines", post |-> post, seen |-> [i \in Ingredient |-> 0],
           todo |-> {}, at |-> Idle, closes |-> FALSE] \in Receipt
      BY DEF Receipt, Quantity
    <2> QED
      BY <1>2, <1>4, <2>1 DEF BeginReceive, Request
  <1>5. ASSUME NEW c \in Client, AddLine(c)
        PROVE  DocTypes'
    <2>1. task[c].at \in Ingredient /\ task[c].n \in Nat
      BY <1>5, DoingTyped, RequestKinds DEF AddLine, Entry
    <2> QED
      BY <1>0, <1>5, <2>1 DEF AddLine, Finish, Line, countVars, DocTypes, DocumentsTypeOK
  <1>6. ASSUME NEW c \in Client, BreakOff(c)
        PROVE  DocTypes'
    BY <1>0, <1>6 DEF BreakOff, Finish, purchaseVars, countVars, DocTypes, DocumentsTypeOK
  <1>7. CASE StockMoves
    BY <1>0, <1>7 DEF StockMoves, Touch, purchaseVars, DocTypes, DocumentsTypeOK
  <1>8. CASE UNCHANGED <<vars, documentVars>>
    BY <1>0, <1>8 DEF documentVars, purchaseVars, countVars, DocTypes, DocumentsTypeOK
  <1> QED
    BY <1>0, <1>1, <1>3, <1>4, <1>5, <1>6, <1>7, <1>8, DeliveryTyped, CountTyped DEF DocumentsNext

-----------------------------------------------------------------------------
(* Deliveries *)

LEMMA DocumentsInitSound == DocumentsInit => DocTypes /\ DeliveriesSound
  <1> SUFFICES ASSUME DocumentsInit PROVE DocTypes /\ DeliveriesSound
    OBVIOUS
  <1>1. DocTypes
    <2>1. quantity \in [Cell -> Int]
      BY DEF DocumentsInit, Init
    <2>2. NoLine \in CountLine
      BY DEF NoLine, CountLine
    <2>3. [ordered |-> 0, received |-> 0] \in Line
      BY DEF Line
    <2>4. frozen \in BOOLEAN
      BY DEF DocumentsInit
    <2> QED
      BY <2>1, <2>2, <2>3, <2>4 DEF DocTypes, DocumentsTypeOK, DocumentsInit
  <1>2. \A c \in Client : DeliverySound(c)
    BY DEF DeliverySound, Doing, DocumentsInit
  <1> QED
    BY <1>1, <1>2 DEF DeliveriesSound, ReceiptsBacked, DocumentsInit

(* Nothing that happens takes goods back, and only CheckLines and SavePurchase
   see whether an order is full; so a step that keeps the lines, or adds one
   that is excepted, leaves the other requests sound. *)
LEMMA OthersSound ==
    ASSUME DocTypes, DeliveriesSound, NEW d \in Client, task'[d] = task[d],
           \A i \in Ingredient : delivered[i] <= delivered'[i] /\ delivered'[i] \in Nat,
           (\E c \in Client : Doing(c, "status")) /\ Full => Full'
    PROVE  DeliverySound(d)'
  <1>1. DeliverySound(d)
    BY DEF DeliveriesSound
  <1>2. \A pc : Doing(d, pc)' <=> Doing(d, pc)
    BY DEF Doing
  <1>3. ASSUME Doing(d, "stock") \/ Doing(d, "record")
        PROVE  \A i \in Ingredient : task[d].seen[i] <= delivered'[i]
    <2>1. task[d] \in Receipt
      BY <1>3, DoingTyped, RequestKinds
    <2> QED
      BY <1>1, <1>3, <2>1 DEF DeliverySound, Receipt, DocTypes, DocumentsTypeOK
  <1>4. ASSUME Doing(d, "record")
        PROVE  task[d].post[task[d].at] <= delivered'[task[d].at]
    <2>1. task[d] \in Receipt
      BY <1>4, DoingTyped, RequestKinds
    <2>2. task[d].at \in Ingredient /\ task[d].post[task[d].at] <= delivered[task[d].at]
      BY <1>1, <1>4 DEF DeliverySound
    <2> QED
      BY <2>1, <2>2 DEF Receipt, DocTypes, DocumentsTypeOK
  <1> QED
    BY <1>1, <1>2, <1>3, <1>4 DEF DeliverySound

LEMMA DeliveriesSoundStep ==
    ASSUME DocTypes, DeliveriesSound, [DocumentsNext]_<<vars, documentVars>>
    PROVE  DeliveriesSound'
  <1> USE DEF DocTypes, DocumentsTypeOK
  <1>1. ASSUME NEW c \in Client, UNCHANGED purchaseVars,
               \A d \in Client \ {c} : task'[d] = task[d],
               ~Doing(c, "stock")', ~Doing(c, "record")',
               Doing(c, "status")' /\ task'[c].closes => Full
        PROVE  DeliveriesSound'
    <2>1. Full' <=> Full
      BY <1>1 DEF Full, Lines, purchaseVars
    <2>2. \A d \in Client \ {c} : DeliverySound(d)'
      BY <1>1, <2>1, OthersSound DEF purchaseVars
    <2>3. DeliverySound(c)'
      BY <1>1, <2>1 DEF DeliverySound
    <2>4. ReceiptsBacked' /\ (purchase' = "received" => Full')
      BY <1>1, <2>1 DEF DeliveriesSound, ReceiptsBacked, purchaseVars
    <2> QED
      BY <2>2, <2>3, <2>4 DEF DeliveriesSound
  <1>2. ASSUME NEW c \in Client, NEW r, task' = [task EXCEPT ![c] = r],
               r # Idle => r.pc \notin {"stock", "record", "status"}, UNCHANGED purchaseVars
        PROVE  DeliveriesSound'
    <2>1. \A pc \in {"stock", "record", "status"} : ~Doing(c, pc)'
      BY <1>2 DEF Doing
    <2> QED
      BY <1>1, <1>2, <2>1
  <1>3. ASSUME task' = task, UNCHANGED <<line, delivered, belated>>,
               purchase' # "received" \/ purchase' = purchase
        PROVE  DeliveriesSound'
    <2>1. Full' <=> Full
      BY <1>3 DEF Full, Lines
    <2>2. \A d \in Client : DeliverySound(d)'
      BY <1>3, <2>1, OthersSound
    <2> QED
      BY <1>3, <2>1, <2>2 DEF DeliveriesSound, ReceiptsBacked
  <1>4. ASSUME NEW c \in Client, NEW i \in Ingredient, NEW n \in Quantity,
               BeginAddLine(c, i, n) \/ BeginCountSave(c, i, n)
        PROVE  DeliveriesSound'
    <2>1. PICK r \in {[pc |-> "add", at |-> i, n |-> n], [pc |-> "save", at |-> i, n |-> n]} :
             task' = [task EXCEPT ![c] = r] /\ UNCHANGED purchaseVars
      BY <1>4 DEF BeginAddLine, BeginCountSave, Begin
    <2>2. r.pc \in {"add", "save"}
      BY <2>1
    <2> QED
      BY <1>2, <2>1, <2>2
  <1>5. ASSUME NEW c \in Client, NEW post, BeginReceive(c, post)
        PROVE  DeliveriesSound'
    <2> DEFINE r == [pc |-> "lines", post |-> post, seen |-> [i \in Ingredient |-> 0],
                     todo |-> {}, at |-> Idle, closes |-> FALSE]
    <2>1. task' = [task EXCEPT ![c] = r] /\ r.pc = "lines"
      BY <1>5 DEF BeginReceive, Begin
    <2> HIDE DEF r
    <2> QED
      BY <1>2, <1>5, <2>1 DEF BeginReceive
  <1>6. ASSUME NEW c \in Client,
               \/ CountCreate(c) \/ CreateCountLine(c) \/ BeginApply(c) \/ LoadCount(c)
               \/ \E i \in Ingredient : ReadExpected(c, i) \/ AdjustLine(c, i)
        PROVE  DeliveriesSound'
    <2>1. UNCHANGED purchaseVars /\ \A d \in Client \ {c} : task'[d] = task[d]
      BY <1>6 DEF CountCreate, CreateCountLine, BeginApply, LoadCount, ReadExpected, AdjustLine,
                  Begin, Finish
    <2>2. task'[c] # Idle => task'[c].pc \in {"expected", "counted", "load", "adjust", "finish"}
      <3>1. CASE CountCreate(c) \/ BeginApply(c)
        BY <3>1 DEF CountCreate, BeginApply, Begin
      <3>2. CASE LoadCount(c)
        <4>1. task[c] \in Applying
          BY <3>2, DoingTyped, RequestKinds DEF LoadCount
        <4> DEFINE differ == {i \in Ingredient :
                                 counts[i].listed /\ counts[i].counted # counts[i].expected}
        <4>2. task' = [task EXCEPT ![c].seen = [i \in Ingredient |-> counts[i].counted],
                                   ![c].todo = differ,
                                   ![c].pc = IF differ = {} THEN "finish" ELSE "adjust"]
          BY <3>2 DEF LoadCount
        <4> HIDE DEF differ
        <4> QED
          BY <4>1, <4>2 DEF Applying
      <3>3. ASSUME NEW i \in Ingredient, AdjustLine(c, i)
            PROVE  task'[c].pc \in {"adjust", "finish"}
        <4>1. task[c] \in Applying
          BY <3>3, DoingTyped, RequestKinds DEF AdjustLine
        <4> DEFINE rest == task[c].todo \ {i}
        <4>2. task' = [task EXCEPT ![c].todo = rest,
                                   ![c].pc = IF rest = {} THEN "finish" ELSE "adjust"]
          BY <3>3 DEF AdjustLine
        <4> HIDE DEF rest
        <4> QED
          BY <4>1, <4>2 DEF Applying
      <3>4. CASE CreateCountLine(c)
        <4>1. task[c] \in Listing
          BY <3>4, DoingTyped, RequestKinds DEF CreateCountLine
        <4> QED
          BY <3>4, <4>1 DEF CreateCountLine, Finish, Listing
      <3>5. ASSUME NEW i \in Ingredient, ReadExpected(c, i)
            PROVE  task'[c].pc = "counted"
        <4>1. task[c] \in Listing
          BY <3>5, DoingTyped, RequestKinds DEF ReadExpected
        <4> QED
          BY <3>5, <4>1 DEF ReadExpected, Listing
      <3> QED
        BY <1>6, <3>1, <3>2, <3>3, <3>4, <3>5
    <2>3. \A pc \in {"stock", "record", "status"} : ~Doing(c, pc)'
      BY <2>2 DEF Doing
    <2> QED
      BY <1>1, <2>1, <2>3
  <1>7. ASSUME NEW c \in Client, CountSave(c) \/ FinishApply(c) \/ BreakOff(c)
        PROVE  DeliveriesSound'
    BY <1>2, <1>7 DEF CountSave, FinishApply, BreakOff, Finish
  <1>8. ASSUME NEW c \in Client, LoadLines(c)
        PROVE  DeliveriesSound'
    <2>1. task[c] \in Receipt
      BY <1>8, DoingTyped, RequestKinds DEF LoadLines
    <2>2. CASE task' = [task EXCEPT ![c] = Idle]
      BY <1>2, <1>8, <2>2 DEF LoadLines
    <2>3. CASE task' # [task EXCEPT ![c] = Idle]
      <3> DEFINE new == {i \in Lines : task[c].post[i] > line[i].received}
                 r == [task[c] EXCEPT !.seen = [i \in Ingredient |-> line[i].received],
                                      !.todo = new, !.pc = "stock"]
      <3>1. task' = [task EXCEPT ![c] = r] /\ UNCHANGED purchaseVars
        BY <1>8, <2>3 DEF LoadLines, Finish
      <3>2. /\ r.pc = "stock" /\ r.todo = new
            /\ r.seen = [i \in Ingredient |-> line[i].received] /\ r.post = task[c].post
        BY <2>1 DEF Receipt
      <3>3. \A i \in new : r.seen[i] < r.post[i]
        BY <2>1, <3>2 DEF Lines, Line, Receipt
      <3>4. \A i \in Ingredient : r.seen[i] <= delivered[i]
        BY <3>2 DEF DeliveriesSound, ReceiptsBacked
      <3> HIDE DEF new, r
      <3>5. task'[c] = r /\ \A d \in Client \ {c} : task'[d] = task[d]
        BY <3>1
      <3>6. DeliverySound(c)'
        BY <3>1, <3>2, <3>3, <3>4, <3>5 DEF DeliverySound, Doing, purchaseVars
      <3>7. Full' <=> Full
        BY <3>1 DEF Full, Lines, purchaseVars
      <3>8. \A d \in Client \ {c} : DeliverySound(d)'
        BY <3>1, <3>5, <3>7, OthersSound DEF purchaseVars
      <3> QED
        BY <3>1, <3>6, <3>7, <3>8 DEF DeliveriesSound, ReceiptsBacked, purchaseVars
    <2> QED
      BY <2>2, <2>3
  <1>9. ASSUME NEW c \in Client, NEW i \in Ingredient, ReceiveLine(c, i)
        PROVE  DeliveriesSound'
    <2> DEFINE r == [task[c] EXCEPT !.at = i, !.pc = "record"]
               n == Delta(c, i)
    <2>1. task[c] \in Receipt /\ Doing(c, "stock") /\ i \in task[c].todo
      BY <1>9, DoingTyped, RequestKinds DEF ReceiveLine
    <2>2. /\ task[c].seen[i] < task[c].post[i] /\ task[c].seen[i] <= delivered[i]
          /\ task[c].seen[i] \in Nat /\ task[c].post[i] \in Nat /\ delivered[i] \in Nat
      BY <2>1 DEF DeliveriesSound, DeliverySound, Receipt
    <2>3. n \in Nat /\ task[c].post[i] <= delivered[i] + n
      BY <2>2 DEF Delta
    <2>4. /\ task' = [task EXCEPT ![c] = r] /\ delivered' = [delivered EXCEPT ![i] = @ + n]
          /\ UNCHANGED <<purchase, line, belated>>
      BY <1>9 DEF ReceiveLine
    <2>5. /\ r.pc = "record" /\ r.at = i /\ r.post = task[c].post /\ r.seen = task[c].seen
          /\ r.todo = task[c].todo
      BY <2>1 DEF Receipt
    <2> HIDE DEF r, n
    <2>6. \A j \in Ingredient : delivered[j] <= delivered'[j] /\ delivered'[j] \in Nat
      BY <2>3, <2>4
    <2>7. Full => Full'
      BY <2>4, <2>6 DEF Full, Lines, Line
    <2>8. \A d \in Client \ {c} : DeliverySound(d)'
      BY <2>4, <2>6, <2>7, OthersSound
    <2>9. DeliverySound(c)'
      <3>1. task'[c] = r
        BY <2>4
      <3>2. \A j \in Ingredient : task[c].seen[j] <= delivered[j] /\ task[c].seen[j] \in Nat
        BY <2>1 DEF DeliveriesSound, DeliverySound, Receipt
      <3>3. \A j \in Ingredient : r.seen[j] <= delivered'[j]
        BY <2>5, <2>6, <3>2
      <3>4. r.post[i] <= delivered'[i]
        BY <2>3, <2>4, <2>5
      <3>5. \A j \in r.todo : r.seen[j] < r.post[j]
        BY <2>1, <2>5 DEF DeliveriesSound, DeliverySound
      <3> QED
        BY <2>5, <3>1, <3>3, <3>4, <3>5 DEF DeliverySound, Doing
    <2>10. ReceiptsBacked'
      BY <2>4, <2>6 DEF DeliveriesSound, ReceiptsBacked, Line
    <2> QED
      BY <2>4, <2>7, <2>8, <2>9, <2>10 DEF DeliveriesSound
  <1>10. ASSUME NEW c \in Client, RecordLine(c)
         PROVE  DeliveriesSound'
    <2> DEFINE rest == task[c].todo \ {task[c].at}
               r == [task[c] EXCEPT !.todo = rest, !.at = Idle,
                                    !.pc = IF rest = {} THEN "check" ELSE "stock"]
               i == task[c].at
    <2>1. task[c] \in Receipt /\ Doing(c, "record")
      BY <1>10, DoingTyped, RequestKinds DEF RecordLine
    <2>2. /\ i \in Ingredient /\ task[c].post[i] <= delivered[i] /\ task[c].post[i] \in Nat
          /\ \A j \in Ingredient : task[c].seen[j] <= delivered[j]
          /\ \A j \in task[c].todo : task[c].seen[j] < task[c].post[j]
      BY <2>1 DEF DeliveriesSound, DeliverySound, Receipt
    <2>3. /\ task' = [task EXCEPT ![c] = r]
          /\ line' = [line EXCEPT ![i].received = task[c].post[i]]
          /\ UNCHANGED <<purchase, delivered, belated>>
      BY <1>10 DEF RecordLine, AfterLine
    <2>4. /\ r.pc \in {"check", "stock"} /\ r.post = task[c].post /\ r.seen = task[c].seen
          /\ r.todo \subseteq task[c].todo
      BY <2>1 DEF Receipt
    <2> HIDE DEF r, rest, i
    <2>5. \A j \in Ingredient : line'[j].ordered = line[j].ordered
      BY <2>3 DEF Line
    <2>6. Full' <=> Full
      BY <2>3, <2>5 DEF Full, Lines
    <2>7. \A d \in Client \ {c} : DeliverySound(d)'
      BY <2>3, <2>6, OthersSound
    <2>8. DeliverySound(c)'
      BY <2>2, <2>3, <2>4 DEF DeliverySound, Doing
    <2>9. ReceiptsBacked'
      BY <2>2, <2>3 DEF DeliveriesSound, ReceiptsBacked, Line
    <2> QED
      BY <2>3, <2>6, <2>7, <2>8, <2>9 DEF DeliveriesSound
  <1>11. ASSUME NEW c \in Client, CheckLines(c)
         PROVE  DeliveriesSound'
    <2>1. task[c] \in Receipt
      BY <1>11, DoingTyped, RequestKinds DEF CheckLines
    <2>2. /\ task'[c].pc = "status" /\ task'[c].closes = AllReceived(c)
          /\ UNCHANGED purchaseVars /\ \A d \in Client \ {c} : task'[d] = task[d]
      BY <1>11, <2>1 DEF CheckLines, Receipt
    <2>3. AllReceived(c) => Full
      BY DEF AllReceived, Full, Lines, Line, DeliveriesSound, ReceiptsBacked
    <2> QED
      BY <1>1, <2>2, <2>3 DEF Doing
  <1>12. ASSUME NEW c \in Client, SavePurchase(c)
         PROVE  DeliveriesSound'
    <2>1. /\ task' = [task EXCEPT ![c] = Idle] /\ UNCHANGED <<line, delivered, belated>>
          /\ purchase' = "received" => Full
      BY <1>12 DEF SavePurchase, Finish, DeliveriesSound, DeliverySound
    <2>2. Full' <=> Full
      BY <2>1 DEF Full, Lines
    <2>3. \A d \in Client \ {c} : DeliverySound(d)'
      BY <2>1, <2>2, OthersSound
    <2>4. DeliverySound(c)'
      BY <2>1 DEF DeliverySound, Doing
    <2> QED
      BY <2>1, <2>2, <2>3, <2>4 DEF DeliveriesSound, ReceiptsBacked
  <1>13. ASSUME NEW c \in Client, AddLine(c)
         PROVE  DeliveriesSound'
    <2> DEFINE i == task[c].at
    <2>1. i \in Ingredient /\ task[c].n \in Nat
      BY <1>13, DoingTyped, RequestKinds DEF AddLine, Entry
    <2>2. /\ task' = [task EXCEPT ![c] = Idle] /\ UNCHANGED <<purchase, delivered>>
          /\ line' = [line EXCEPT ![i] = [ordered |-> task[c].n, received |-> 0]]
      BY <1>13 DEF AddLine, Finish
    <2>3. belated \subseteq belated'
          /\ (purchase # "draft" \/ (\E d \in Client : Doing(d, "status")) => i \in belated')
      BY <1>13 DEF AddLine
    <2> HIDE DEF i
    <2>4. i \in belated' /\ Full => Full'
      BY <2>1, <2>2, <2>3 DEF Full, Lines
    <2>5. \A d \in Client \ {c} : DeliverySound(d)'
      BY <2>2, <2>3, <2>4, OthersSound
    <2>6. DeliverySound(c)'
      BY <2>2 DEF DeliverySound, Doing
    <2>7. ReceiptsBacked'
      BY <2>1, <2>2 DEF DeliveriesSound, ReceiptsBacked
    <2> QED
      BY <2>2, <2>3, <2>4, <2>5, <2>6, <2>7 DEF DeliveriesSound
  <1> QED
    BY <1>3, <1>4, <1>5, <1>6, <1>7, <1>8, <1>9, <1>10, <1>11, <1>12, <1>13
    DEF DocumentsNext, PurchaseCreate, PurchaseApprove, StockMoves, documentVars, purchaseVars


-----------------------------------------------------------------------------
(* Counts: the inductive invariant *)

AtDepot(i) == quantity[<<i, Depot>>]

SettingUp(c) == Doing(c, "expected") \/ Doing(c, "counted")

Correcting(c) == Doing(c, "adjust") \/ Doing(c, "finish")

(* The lines about which a count is to be right. *)
Undisturbed == {i \in Ingredient \ (touched \cup late) : counts[i].listed}

(* A line is listed once, with the stock of the moment. *)
ListingSound(c) ==
    /\ SettingUp(c) => \A i \in task[c].todo : ~counts[i].listed
    /\ Doing(c, "counted") =>
          /\ task[c].at \in task[c].todo
          /\ task[c].at \notin touched => task[c].expected = AtDepot(task[c].at)

(* What a request still has to correct it will correct to what was counted;
   the rest is as it was counted. *)
ApplyingSound(c) ==
    Correcting(c) =>
        /\ frozen
        /\ Doing(c, "finish") => task[c].todo = {}
        /\ \A i \in task[c].todo : counts[i].listed
        /\ \A i \in Undisturbed :
              /\ i \in task[c].todo => task[c].seen[i] = counts[i].counted
              /\ i \notin task[c].todo => AtDepot(i) = counts[i].counted

(* Until it is corrected, the stock of a line is what was expected. *)
LinesSound ==
    \A i \in Undisturbed :
        /\ AtDepot(i) \in {counts[i].expected, counts[i].counted}
        /\ ~frozen => AtDepot(i) = counts[i].expected
        /\ count = "applied" => AtDepot(i) = counts[i].counted

CountSound ==
    /\ count = "none" => /\ \A i \in Ingredient : ~counts[i].listed
                         /\ \A c \in Client : /\ ~SettingUp(c) /\ ~Correcting(c)
                                              /\ ~Doing(c, "load")
    /\ count = "applied" => frozen
    /\ LinesSound
    /\ \A c \in Client : ListingSound(c) /\ ApplyingSound(c)
    /\ \A c, d \in Client : SettingUp(c) /\ SettingUp(d) => c = d

LEMMA CountInit == DocumentsInit => CountSound
  <1> SUFFICES ASSUME DocumentsInit PROVE CountSound
    OBVIOUS
  <1>1. \A i \in Ingredient : ~counts[i].listed
    BY DEF DocumentsInit, NoLine
  <1>2. \A c \in Client : \A pc : ~Doing(c, pc)
    BY DEF DocumentsInit, Doing
  <1>3. Undisturbed = {}
    BY <1>1 DEF Undisturbed
  <1>4. count # "applied"
    BY DEF DocumentsInit
  <1> QED
    BY <1>1, <1>2, <1>3, <1>4
    DEF CountSound, LinesSound, ListingSound, ApplyingSound, SettingUp, Correcting

LEMMA CountClientTyped ==
    ASSUME DocTypes, NEW c \in Client
    PROVE  /\ SettingUp(c) => task[c] \in Listing
           /\ Correcting(c) => task[c] \in Applying
  BY DoingTyped, RequestKinds DEF SettingUp, Correcting

(* A step that leaves the count alone: nobody begins to set it up or to apply
   it, and stock that moves is noted. *)
LEMMA CountLeftAlone ==
    ASSUME DocTypes, CountSound, UNCHANGED <<count, counts, frozen, late>>,
           \A c \in Client : SettingUp(c)' \/ Correcting(c)' => task'[c] = task[c],
           count = "none" => \A c \in Client : Doing(c, "load")' => task'[c] = task[c],
           count # "none" => /\ touched \subseteq touched'
                             /\ \A i \in Ingredient \ touched' : AtDepot(i)' = AtDepot(i)
    PROVE  CountSound'
  <1>1. \A c \in Client : task'[c] = task[c] =>
            /\ \A pc : Doing(c, pc)' <=> Doing(c, pc)
            /\ SettingUp(c)' <=> SettingUp(c)
            /\ Correcting(c)' <=> Correcting(c)
    BY DEF Doing, SettingUp, Correcting
  <1>2. CASE count = "none"
    <2>1. /\ \A i \in Ingredient : ~counts'[i].listed
          /\ \A c \in Client : ~SettingUp(c)' /\ ~Correcting(c)' /\ ~Doing(c, "load")'
      BY <1>1, <1>2 DEF CountSound
    <2>2. Undisturbed' = {} /\ count' = "none"
      BY <1>2, <2>1 DEF Undisturbed
    <2>3. \A c \in Client : ~Doing(c, "counted")'
      BY <2>1 DEF SettingUp
    <2> QED
      BY <2>1, <2>2, <2>3 DEF CountSound, LinesSound, ListingSound, ApplyingSound
  <1>3. CASE count # "none"
    <2>1. /\ Undisturbed' \subseteq Undisturbed
          /\ \A i \in Undisturbed' : AtDepot(i)' = AtDepot(i)
      BY <1>3 DEF Undisturbed
    <2>2. LinesSound'
      BY <2>1 DEF CountSound, LinesSound
    <2>3. ASSUME NEW c \in Client
          PROVE  ListingSound(c)' /\ ApplyingSound(c)'
      <3>1. CASE task'[c] = task[c]
        <4>1. SettingUp(c) => task[c].todo \subseteq Ingredient
          BY CountClientTyped DEF Listing
        <4>2. ListingSound(c) /\ ApplyingSound(c)
          BY DEF CountSound
        <4>3. ListingSound(c)'
          BY <1>1, <1>3, <3>1, <4>1, <4>2 DEF ListingSound, SettingUp
        <4>4. ApplyingSound(c)'
          BY <1>1, <2>1, <3>1, <4>2 DEF ApplyingSound
        <4> QED
          BY <4>3, <4>4
      <3>2. CASE task'[c] # task[c]
        BY <3>2 DEF ListingSound, ApplyingSound, SettingUp
      <3> QED
        BY <3>1, <3>2
    <2>4. \A c, d \in Client : SettingUp(c)' /\ SettingUp(d)' => c = d
      BY <1>1 DEF CountSound
    <2> QED
      BY <1>3, <2>2, <2>3, <2>4 DEF CountSound
  <1> QED
    BY <1>2, <1>3

(* A client that is not the one of the step: lines are added or lines that are
   not its own to correct become as they were counted. *)
LEMMA CountOthers ==
    ASSUME DocTypes, CountSound, NEW d \in Client, task'[d] = task[d],
           frozen => frozen', UNCHANGED touched, late \subseteq late',
           \A i \in Ingredient : counts[i].listed => counts'[i].listed,
           \A i \in Ingredient : ~counts[i].listed => /\ AtDepot(i)' = AtDepot(i)
                                                      /\ counts'[i].listed => ~SettingUp(d),
           Correcting(d) => \A i \in Undisturbed' :
               \/ AtDepot(i)' = AtDepot(i) /\ i \in Undisturbed /\ counts'[i] = counts[i]
               \/ /\ AtDepot(i)' = counts'[i].counted
                  /\ i \in Undisturbed => counts'[i].counted = counts[i].counted
    PROVE  ListingSound(d)' /\ ApplyingSound(d)'
  <1>1. /\ \A pc : Doing(d, pc)' <=> Doing(d, pc)
        /\ SettingUp(d)' <=> SettingUp(d)
        /\ Correcting(d)' <=> Correcting(d)
    BY DEF Doing, SettingUp, Correcting
  <1>2. /\ SettingUp(d) => task[d].todo \subseteq Ingredient
        /\ Correcting(d) => task[d].todo \subseteq Ingredient
    BY CountClientTyped DEF Listing, Applying
  <1>3. ListingSound(d) /\ ApplyingSound(d)
    BY DEF CountSound
  <1>4. ListingSound(d)'
    BY <1>1, <1>2, <1>3 DEF ListingSound, SettingUp
  <1>5. ASSUME Correcting(d)
        PROVE  ApplyingSound(d)'
    <2>1. /\ frozen' /\ (Doing(d, "finish")' => task'[d].todo = {})
          /\ \A i \in task'[d].todo : i \in Ingredient /\ counts[i].listed /\ counts'[i].listed
      BY <1>1, <1>2, <1>3, <1>5 DEF ApplyingSound
    <2>2. ASSUME NEW i \in Undisturbed'
          PROVE  /\ i \in task'[d].todo => task'[d].seen[i] = counts'[i].counted
                 /\ i \notin task'[d].todo => AtDepot(i)' = counts'[i].counted
      <3>1. i \in task'[d].todo => i \in Undisturbed
        BY <2>1, <2>2 DEF Undisturbed
      <3>2. i \in Undisturbed => /\ i \in task[d].todo => task[d].seen[i] = counts[i].counted
                                 /\ i \notin task[d].todo => AtDepot(i) = counts[i].counted
        BY <1>3, <1>5 DEF ApplyingSound
      <3> QED
        BY <1>5, <3>1, <3>2
    <2> QED
      BY <2>1, <2>2 DEF ApplyingSound
  <1>6. ~Correcting(d) => ApplyingSound(d)'
    BY <1>1 DEF ApplyingSound
  <1> QED
    BY <1>4, <1>5, <1>6

(* An adjustment sets the stock. *)
LEMMA AdjustSets ==
    ASSUME TypeOK, NEW i \in Ingredient, NEW w \in Warehouse, NEW new \in Int,
           AdjustStock(i, w, new)
    PROVE  /\ quantity'[<<i, w>>] = new
           /\ \A c \in Cell \ {<<i, w>>} : quantity'[c] = quantity[c]
  <1> DEFINE cell == <<i, w>>
             delta == new - quantity[cell]
  <1>1. cell \in Cell /\ quantity[cell] \in Int /\ \A c \in Cell : quantity[c] \in Int
    BY DEF TypeOK, Cell
  <1>2. CASE delta > 0 /\ ReceiveStock(i, w, delta)
    <2>1. quantity' = [c \in Cell |-> quantity[c] + IF c \in {cell} THEN delta ELSE 0]
      BY <1>2, Zenon DEF ReceiveStock, Received
    <2> QED
      BY <1>1, <2>1
  <1>3. CASE delta < 0 /\ ConsumeStock(i, w, -delta)
    <2>1. quantity' = [c \in Cell |-> quantity[c] - IF c \in {cell} THEN -delta ELSE 0]
      BY <1>3, Zenon DEF ConsumeStock, Consumed
    <2> QED
      BY <1>1, <2>1
  <1>4. CASE delta = 0 /\ UNCHANGED vars
    BY <1>1, <1>4 DEF vars, stockVars
  <1> QED
    BY <1>2, <1>3, <1>4 DEF AdjustStock

-----------------------------------------------------------------------------
(* Counts: the steps *)

(* A request that does not count begins, goes on or ends. *)
LEMMA CountPurchases ==
    ASSUME DocTypes, CountSound, NEW c \in Client, UNCHANGED <<vars, countVars>>,
           NEW r, task' = [task EXCEPT ![c] = r],
           r # Idle => /\ r.pc \notin {"expected", "counted", "adjust", "finish"}
                       /\ r.pc = "load" => count # "none"
    PROVE  CountSound'
  <1>1. ~SettingUp(c)' /\ ~Correcting(c)' /\ \A d \in Client \ {c} : task'[d] = task[d]
    BY DEF SettingUp, Correcting, Doing, DocTypes, DocumentsTypeOK
  <1>2. /\ UNCHANGED <<count, counts, frozen, late>> /\ touched' = touched
        /\ \A i \in Ingredient : AtDepot(i)' = AtDepot(i)
    BY DEF countVars, vars, stockVars, AtDepot
  <1>3. count = "none" => ~Doing(c, "load")'
    BY DEF Doing, DocTypes, DocumentsTypeOK
  <1> QED
    BY <1>1, <1>2, <1>3, CountLeftAlone

LEMMA CountMoves ==
    ASSUME DocTypes, CountSound, Touch, UNCHANGED <<count, counts, frozen, late>>,
           \A c \in Client : SettingUp(c)' \/ Correcting(c)' \/ Doing(c, "load")' => task'[c] = task[c]
    PROVE  CountSound'
  <1>1. count # "none" => /\ touched \subseteq touched'
                          /\ \A i \in Ingredient \ touched' : AtDepot(i)' = AtDepot(i)
    BY DEF Touch, AtDepot
  <1> QED
    BY <1>1, CountLeftAlone

LEMMA CountCreated ==
    ASSUME DocTypes, CountSound, NEW c \in Client, CountCreate(c)
    PROVE  CountSound'
  <1> DEFINE r == [pc |-> "expected", at |-> Idle, expected |-> 0, todo |-> Ingredient]
  <1>1. /\ count = "none" /\ count' = "open"
        /\ task' = [task EXCEPT ![c] = r]
        /\ UNCHANGED <<counts, touched, frozen, late>> /\ quantity' = quantity
    BY DEF CountCreate, Begin, vars, stockVars
  <1>2. /\ \A i \in Ingredient : ~counts[i].listed
        /\ \A d \in Client : ~SettingUp(d) /\ ~Correcting(d)
    BY <1>1 DEF CountSound
  <1>3. task'[c] = r /\ \A d \in Client \ {c} : task'[d] = task[d]
    BY <1>1 DEF DocTypes, DocumentsTypeOK
  <1>4. /\ ~Correcting(c)' /\ ~Doing(c, "counted")'
        /\ \A i \in task'[c].todo : ~counts'[i].listed
    BY <1>1, <1>2, <1>3 DEF Correcting, Doing
  <1>5. \A d \in Client \ {c} : ~SettingUp(d)' /\ ~Correcting(d)' /\ ~Doing(d, "counted")'
    BY <1>2, <1>3 DEF SettingUp, Correcting, Doing
  <1>6. Undisturbed' = {}
    BY <1>1, <1>2 DEF Undisturbed
  <1>7. \A d \in Client : ListingSound(d)' /\ ApplyingSound(d)'
    BY <1>4, <1>5 DEF ListingSound, ApplyingSound
  <1> QED
    BY <1>1, <1>5, <1>6, <1>7 DEF CountSound, LinesSound

LEMMA CountRead ==
    ASSUME DocTypes, CountSound, NEW c \in Client, NEW i \in Ingredient, ReadExpected(c, i)
    PROVE  CountSound'
  <1> DEFINE r == [task[c] EXCEPT !.at = i, !.pc = "counted", !.expected = quantity[<<i, Depot>>]]
  <1>1. /\ Doing(c, "expected") /\ i \in task[c].todo
        /\ task' = [task EXCEPT ![c] = r]
        /\ UNCHANGED <<count, counts, touched, frozen, late>> /\ quantity' = quantity
    BY DEF ReadExpected, vars, stockVars, countVars
  <1>2. task[c] \in Listing
    BY <1>1, CountClientTyped DEF SettingUp
  <1>3. r.pc = "counted" /\ r.at = i /\ r.expected = AtDepot(i) /\ r.todo = task[c].todo
    BY <1>2 DEF Listing, AtDepot
  <1>4. task'[c] = r /\ \A d \in Client \ {c} : task'[d] = task[d]
    BY <1>1 DEF DocTypes, DocumentsTypeOK
  <1> HIDE DEF r
  <1>5. SettingUp(c) /\ ~Correcting(c)'
    BY <1>1, <1>3, <1>4 DEF SettingUp, Correcting, Doing
  <1>6. \A d \in Client : SettingUp(d)' => SettingUp(d)
    BY <1>4, <1>5 DEF SettingUp, Doing
  <1>7. ListingSound(c)'
    BY <1>1, <1>3, <1>4, <1>5 DEF CountSound, ListingSound, AtDepot
  <1>8. ApplyingSound(c)'
    BY <1>5 DEF ApplyingSound
  <1>9. /\ \A j \in Ingredient : AtDepot(j)' = AtDepot(j)
        /\ Undisturbed' = Undisturbed /\ Undisturbed \subseteq Ingredient
    BY <1>1 DEF AtDepot, Undisturbed
  <1>10. \A d \in Client \ {c} : ListingSound(d)' /\ ApplyingSound(d)'
    BY <1>1, <1>4, <1>9, CountOthers
  <1>11. LinesSound'
    BY <1>1, <1>9 DEF CountSound, LinesSound, Undisturbed
  <1>12. count # "none"
    BY <1>5 DEF CountSound
  <1> QED
    BY <1>1, <1>6, <1>7, <1>8, <1>10, <1>11, <1>12 DEF CountSound

LEMMA CountListed ==
    ASSUME DocTypes, CountSound, NEW c \in Client, CreateCountLine(c)
    PROVE  CountSound'
  <1> DEFINE i == task[c].at
             rest == task[c].todo \ {i}
             r == [task[c] EXCEPT !.todo = rest, !.at = Idle, !.pc = "expected"]
             new == [expected |-> task[c].expected, counted |-> quantity[<<i, Depot>>], listed |-> TRUE]
  <1>1. /\ Doing(c, "counted")
        /\ counts' = [counts EXCEPT ![i] = new]
        /\ task' = [task EXCEPT ![c] = Idle] \/ task' = [task EXCEPT ![c] = r]
        /\ UNCHANGED <<count, touched, frozen, late>> /\ quantity' = quantity
    BY DEF CreateCountLine, Finish, vars, stockVars
  <1>2. task[c] \in Listing /\ SettingUp(c) /\ ListingSound(c)
    BY <1>1, CountClientTyped DEF SettingUp, CountSound
  <1>3. /\ i \in task[c].todo /\ i \in Ingredient
        /\ \A j \in task[c].todo : ~counts[j].listed
        /\ i \notin touched => new.expected = AtDepot(i)
        /\ new.counted = AtDepot(i) /\ new.listed
    BY <1>1, <1>2 DEF ListingSound, Listing, AtDepot
  <1>4. r.pc = "expected" /\ r.todo = rest
    BY <1>2 DEF Listing
  <1>5. /\ task'[c] \in {Idle, r}
        /\ \A d \in Client \ {c} : task'[d] = task[d]
    BY <1>1 DEF DocTypes, DocumentsTypeOK
  <1>6. rest \subseteq task[c].todo /\ i \notin rest
    OBVIOUS
  <1> HIDE DEF r, new, i, rest
  <1>7. /\ counts'[i] = new
        /\ \A j \in Ingredient \ {i} : counts'[j] = counts[j]
    BY <1>1, <1>3 DEF DocTypes, DocumentsTypeOK
  <1>8. \A d \in Client \ {c} : ~SettingUp(d)
    BY <1>2 DEF CountSound
  <1>9. /\ \A j \in Ingredient : AtDepot(j)' = AtDepot(j)
        /\ \A j \in Undisturbed' : j = i \/ j \in Undisturbed
        /\ i \notin Undisturbed
    BY <1>1, <1>3, <1>7 DEF AtDepot, Undisturbed
  <1>10. \A d \in Client \ {c} : ListingSound(d)' /\ ApplyingSound(d)'
    <2> SUFFICES ASSUME NEW d \in Client \ {c} PROVE ListingSound(d)' /\ ApplyingSound(d)'
      OBVIOUS
    <2>1. \A j \in Ingredient : counts[j].listed => counts'[j].listed
      BY <1>3, <1>7
    <2>2. \A j \in Undisturbed' :
               \/ AtDepot(j)' = AtDepot(j) /\ j \in Undisturbed /\ counts'[j] = counts[j]
               \/ /\ AtDepot(j)' = counts'[j].counted
                  /\ j \in Undisturbed => counts'[j].counted = counts[j].counted
      BY <1>3, <1>7, <1>9 DEF Undisturbed
    <2> QED
      BY <1>1, <1>5, <1>8, <1>9, <2>1, <2>2, CountOthers
  <1>11. ~Correcting(c)' /\ ~Doing(c, "counted")'
    BY <1>4, <1>5 DEF Correcting, Doing
  <1>12. ListingSound(c)'
    <2>1. SettingUp(c)' => task'[c] = r
      BY <1>5 DEF SettingUp, Doing
    <2>2. \A j \in rest : ~counts'[j].listed
      BY <1>2, <1>3, <1>6, <1>7 DEF Listing
    <2> QED
      BY <1>4, <1>11, <2>1, <2>2 DEF ListingSound
  <1>13. ApplyingSound(c)'
    BY <1>11 DEF ApplyingSound
  <1>14. LinesSound'
    <2>1. ASSUME NEW j \in Undisturbed'
          PROVE  /\ AtDepot(j)' \in {counts'[j].expected, counts'[j].counted}
                 /\ ~frozen' => AtDepot(j)' = counts'[j].expected
                 /\ count' = "applied" => AtDepot(j)' = counts'[j].counted
      <3>1. CASE j = i
        BY <1>1, <1>3, <1>7, <1>9, <2>1, <3>1 DEF Undisturbed
      <3>2. CASE j # i
        BY <1>1, <1>7, <1>9, <2>1, <3>2 DEF Undisturbed, CountSound, LinesSound
      <3> QED
        BY <3>1, <3>2
    <2> QED
      BY <2>1 DEF LinesSound
  <1>15. \A d \in Client : SettingUp(d)' => d = c
    BY <1>5, <1>8 DEF SettingUp, Doing
  <1>16. count' # "none" /\ (count' = "applied" => frozen')
    BY <1>1, <1>2 DEF CountSound
  <1> QED
    BY <1>10, <1>12, <1>13, <1>14, <1>15, <1>16 DEF CountSound

LEMMA CountSaved ==
    ASSUME DocTypes, CountSound, NEW c \in Client, CountSave(c)
    PROVE  CountSound'
  <1> DEFINE i == task[c].at
  <1>1. /\ Doing(c, "save")
        /\ counts' = [counts EXCEPT ![i].counted = task[c].n]
        /\ late' = IF frozen THEN late \cup {i} ELSE late
        /\ task' = [task EXCEPT ![c] = Idle]
        /\ UNCHANGED <<count, touched, frozen>> /\ quantity' = quantity
    BY DEF CountSave, Finish, vars, stockVars
  <1>2. i \in Ingredient
    BY <1>1, DoingTyped, RequestKinds DEF Entry
  <1>3. task'[c] = Idle /\ \A d \in Client \ {c} : task'[d] = task[d]
    BY <1>1 DEF DocTypes, DocumentsTypeOK
  <1> HIDE DEF i
  <1>4. /\ \A j \in Ingredient : /\ counts'[j].listed = counts[j].listed
                                 /\ counts'[j].expected = counts[j].expected
        /\ \A j \in Ingredient \ {i} : counts'[j] = counts[j]
    BY <1>1, <1>2 DEF DocTypes, DocumentsTypeOK, CountLine
  <1>5. /\ \A j \in Ingredient : AtDepot(j)' = AtDepot(j)
        /\ Undisturbed' \subseteq Undisturbed
        /\ frozen => i \notin Undisturbed'
        /\ late \subseteq late'
    BY <1>1, <1>4 DEF AtDepot, Undisturbed
  <1>6. \A d \in Client : Correcting(d) => frozen
    BY DEF CountSound, ApplyingSound
  <1>7. \A d \in Client \ {c} : ListingSound(d)' /\ ApplyingSound(d)'
    <2> SUFFICES ASSUME NEW d \in Client \ {c} PROVE ListingSound(d)' /\ ApplyingSound(d)'
      OBVIOUS
    <2>1. frozen => \A j \in Undisturbed' : j \in Undisturbed /\ counts'[j] = counts[j]
      BY <1>4, <1>5 DEF Undisturbed
    <2> QED
      BY <1>1, <1>3, <1>4, <1>5, <1>6, <2>1, CountOthers DEF Undisturbed
  <1>8. ~SettingUp(c)' /\ ~Correcting(c)' /\ ~Doing(c, "counted")' /\ ~Doing(c, "load")'
    BY <1>3 DEF SettingUp, Correcting, Doing
  <1>9. ListingSound(c)' /\ ApplyingSound(c)'
    BY <1>8 DEF ListingSound, ApplyingSound
  <1>10. LinesSound'
    <2>1. count = "applied" => frozen
      BY DEF CountSound
    <2>2. ASSUME NEW j \in Undisturbed'
          PROVE  /\ AtDepot(j)' \in {counts'[j].expected, counts'[j].counted}
                 /\ ~frozen' => AtDepot(j)' = counts'[j].expected
                 /\ count' = "applied" => AtDepot(j)' = counts'[j].counted
      <3>1. /\ j \in Undisturbed /\ j \in Ingredient
            /\ frozen => counts'[j] = counts[j]
        BY <1>4, <1>5, <2>2 DEF Undisturbed
      <3>2. /\ AtDepot(j) \in {counts[j].expected, counts[j].counted}
            /\ ~frozen => AtDepot(j) = counts[j].expected
            /\ count = "applied" => AtDepot(j) = counts[j].counted
        BY <3>1 DEF CountSound, LinesSound
      <3> QED
        BY <1>1, <1>4, <1>5, <2>1, <3>1, <3>2
    <2> QED
      BY <2>2 DEF LinesSound
  <1>11. \A d \in Client \ {c} : /\ SettingUp(d)' <=> SettingUp(d)
                                 /\ Correcting(d)' <=> Correcting(d)
                                 /\ Doing(d, "load")' <=> Doing(d, "load")
    BY <1>3 DEF SettingUp, Correcting, Doing
  <1>12. /\ count' = "none" => /\ \A j \in Ingredient : ~counts'[j].listed
                               /\ \A d \in Client : /\ ~SettingUp(d)' /\ ~Correcting(d)'
                                                    /\ ~Doing(d, "load")'
         /\ count' = "applied" => frozen'
         /\ \A d, e \in Client : SettingUp(d)' /\ SettingUp(e)' => d = e
    BY <1>1, <1>4, <1>8, <1>11 DEF CountSound
  <1> QED
    BY <1>7, <1>9, <1>10, <1>12 DEF CountSound

LEMMA CountLoaded ==
    ASSUME DocTypes, CountSound, NEW c \in Client, LoadCount(c)
    PROVE  CountSound'
  <1> DEFINE differ == {i \in Ingredient : counts[i].listed /\ counts[i].counted # counts[i].expected}
             r == [task[c] EXCEPT !.seen = [i \in Ingredient |-> counts[i].counted],
                                  !.todo = differ,
                                  !.pc = IF differ = {} THEN "finish" ELSE "adjust"]
  <1>1. /\ Doing(c, "load") /\ task' = [task EXCEPT ![c] = r]
        /\ frozen' = TRUE
        /\ UNCHANGED <<count, counts, touched, late>> /\ quantity' = quantity
    BY DEF LoadCount, vars, stockVars
  <1>2. task[c] \in Applying
    BY <1>1, DoingTyped, RequestKinds
  <1>3. /\ r.seen = [i \in Ingredient |-> counts[i].counted] /\ r.todo = differ
        /\ r.pc \in {"finish", "adjust"} /\ (r.pc = "finish" => differ = {})
    <2> HIDE DEF differ
    <2> QED
      BY <1>2 DEF Applying
  <1>4. task'[c] = r /\ \A d \in Client \ {c} : task'[d] = task[d]
    BY <1>1 DEF DocTypes, DocumentsTypeOK
  <1>5. /\ \A i \in differ : i \in Ingredient /\ counts[i].listed
        /\ \A i \in Undisturbed : i \notin differ => counts[i].counted = counts[i].expected
    BY DEF Undisturbed
  <1> HIDE DEF r, differ
  <1>6. /\ \A i \in Ingredient : AtDepot(i)' = AtDepot(i)
        /\ Undisturbed' = Undisturbed /\ Undisturbed \subseteq Ingredient
    BY <1>1 DEF AtDepot, Undisturbed
  <1>7. \A d \in Client \ {c} : ListingSound(d)' /\ ApplyingSound(d)'
    BY <1>1, <1>4, <1>6, CountOthers
  <1>8. ~SettingUp(c)' /\ ~Doing(c, "counted")'
    BY <1>3, <1>4 DEF SettingUp, Doing
  <1>9. ListingSound(c)'
    BY <1>8 DEF ListingSound
  <1>10. ApplyingSound(c)'
    <2>1. Doing(c, "finish")' => differ = {}
      BY <1>3, <1>4 DEF Doing
    <2>2. ASSUME NEW i \in Undisturbed
          PROVE  /\ i \in differ => r.seen[i] = counts[i].counted
                 /\ i \notin differ => AtDepot(i) = counts[i].counted
      BY <1>3, <1>5, <1>6 DEF CountSound, LinesSound
    <2>3. /\ \A i \in Undisturbed' :
               /\ i \in task'[c].todo => task'[c].seen[i] = counts'[i].counted
               /\ i \notin task'[c].todo => AtDepot(i)' = counts'[i].counted
      BY <1>1, <1>3, <1>4, <1>6, <2>2
    <2> QED
      BY <1>1, <1>3, <1>4, <1>5, <2>1, <2>3 DEF ApplyingSound
  <1>11. LinesSound'
    BY <1>1, <1>6 DEF CountSound, LinesSound
  <1>12. count # "none"
    BY <1>1 DEF CountSound
  <1> QED
    BY <1>1, <1>4, <1>7, <1>8, <1>9, <1>10, <1>11, <1>12 DEF CountSound, SettingUp, Doing

LEMMA CountAdjusted ==
    ASSUME Books, DocTypes, CountSound, NEW c \in Client, NEW i \in Ingredient, AdjustLine(c, i)
    PROVE  CountSound'
  <1> DEFINE rest == task[c].todo \ {i}
             r == [task[c] EXCEPT !.todo = rest,
                                  !.pc = IF rest = {} THEN "finish" ELSE "adjust"]
  <1>1. /\ Doing(c, "adjust") /\ i \in task[c].todo
        /\ AdjustStock(i, Depot, task[c].seen[i])
        /\ task' = [task EXCEPT ![c] = r]
        /\ UNCHANGED <<count, counts, touched, frozen, late>>
    BY DEF AdjustLine, Adjust, countVars
  <1>2. task[c] \in Applying /\ Correcting(c) /\ ApplyingSound(c)
    BY <1>1, CountClientTyped DEF Correcting, CountSound
  <1>3. /\ AtDepot(i)' = task[c].seen[i]
        /\ \A j \in Ingredient \ {i} : AtDepot(j)' = AtDepot(j)
    <2>1. task[c].seen[i] \in Int
      BY <1>2 DEF Applying
    <2>2. /\ quantity'[<<i, Depot>>] = task[c].seen[i]
          /\ \A x \in Cell \ {<<i, Depot>>} : quantity'[x] = quantity[x]
      BY <1>1, <2>1, AdjustSets, DocumentsAssumption DEF Books
    <2>3. \A j \in Ingredient \ {i} : <<j, Depot>> \in Cell \ {<<i, Depot>>}
      BY DocumentsAssumption DEF Cell
    <2> QED
      BY <2>2, <2>3 DEF AtDepot
  <1>4. /\ r.seen = task[c].seen /\ r.todo = rest
        /\ r.pc \in {"finish", "adjust"} /\ (r.pc = "finish" => rest = {})
    <2> HIDE DEF rest
    <2> QED
      BY <1>2 DEF Applying
  <1>5. task'[c] = r /\ \A d \in Client \ {c} : task'[d] = task[d]
    BY <1>1 DEF DocTypes, DocumentsTypeOK
  <1>6. rest \subseteq task[c].todo /\ \A j : j \in rest <=> j \in task[c].todo /\ j # i
    OBVIOUS
  <1> HIDE DEF r, rest
  <1>7. /\ frozen /\ counts[i].listed /\ \A j \in task[c].todo : counts[j].listed
        /\ \A j \in Undisturbed : /\ j \in task[c].todo => task[c].seen[j] = counts[j].counted
                                  /\ j \notin task[c].todo => AtDepot(j) = counts[j].counted
    BY <1>1, <1>2 DEF ApplyingSound
  <1>8. Undisturbed' = Undisturbed /\ Undisturbed \subseteq Ingredient
    BY <1>1 DEF Undisturbed
  <1>9. i \in Undisturbed => AtDepot(i)' = counts[i].counted
    BY <1>1, <1>3, <1>7
  <1>10. \A d \in Client \ {c} : ListingSound(d)' /\ ApplyingSound(d)'
    <2> SUFFICES ASSUME NEW d \in Client \ {c} PROVE ListingSound(d)' /\ ApplyingSound(d)'
      OBVIOUS
    <2>1. \A j \in Ingredient : ~counts[j].listed => AtDepot(j)' = AtDepot(j)
      BY <1>3, <1>7
    <2>2. \A j \in Undisturbed' :
               \/ AtDepot(j)' = AtDepot(j) /\ j \in Undisturbed /\ counts'[j] = counts[j]
               \/ /\ AtDepot(j)' = counts'[j].counted
                  /\ j \in Undisturbed => counts'[j].counted = counts[j].counted
      BY <1>1, <1>3, <1>8, <1>9
    <2> QED
      BY <1>1, <1>5, <2>1, <2>2, CountOthers
  <1>11. ~SettingUp(c)' /\ ~Doing(c, "counted")' /\ ~Doing(c, "load")'
    BY <1>4, <1>5 DEF SettingUp, Doing
  <1>12. ListingSound(c)'
    BY <1>11 DEF ListingSound
  <1>13. ApplyingSound(c)'
    <2>1. Doing(c, "finish")' => rest = {}
      BY <1>4, <1>5 DEF Doing
    <2>2. ASSUME NEW j \in Undisturbed'
          PROVE  /\ j \in task'[c].todo => task'[c].seen[j] = counts'[j].counted
                 /\ j \notin task'[c].todo => AtDepot(j)' = counts'[j].counted
      <3>1. CASE j = i
        BY <1>1, <1>4, <1>5, <1>6, <1>8, <1>9, <3>1
      <3>2. CASE j # i
        BY <1>1, <1>3, <1>4, <1>5, <1>6, <1>7, <1>8, <3>2
      <3> QED
        BY <3>1, <3>2
    <2>3. \A j \in task'[c].todo : counts'[j].listed
      BY <1>1, <1>4, <1>5, <1>6, <1>7
    <2> QED
      BY <1>1, <1>4, <1>5, <1>7, <2>1, <2>2, <2>3 DEF ApplyingSound
  <1>14. LinesSound'
    <2>1. ASSUME NEW j \in Undisturbed'
          PROVE  /\ AtDepot(j)' \in {counts'[j].expected, counts'[j].counted}
                 /\ ~frozen' => AtDepot(j)' = counts'[j].expected
                 /\ count' = "applied" => AtDepot(j)' = counts'[j].counted
      <3>1. CASE j = i
        BY <1>1, <1>7, <1>8, <1>9, <3>1
      <3>2. CASE j # i
        BY <1>1, <1>3, <1>8, <3>2 DEF CountSound, LinesSound
      <3> QED
        BY <3>1, <3>2
    <2> QED
      BY <2>1 DEF LinesSound
  <1>15. \A d \in Client : SettingUp(d)' => SettingUp(d)
    BY <1>5, <1>11 DEF SettingUp, Doing
  <1>16. count # "none"
    BY <1>2 DEF CountSound
  <1> QED
    BY <1>1, <1>7, <1>10, <1>12, <1>13, <1>14, <1>15, <1>16 DEF CountSound

LEMMA CountFinished ==
    ASSUME DocTypes, CountSound, NEW c \in Client, FinishApply(c)
    PROVE  CountSound'
  <1>1. /\ Doing(c, "finish") /\ count' = "applied"
        /\ task' = [task EXCEPT ![c] = Idle]
        /\ UNCHANGED <<counts, touched, frozen, late>> /\ quantity' = quantity
    BY DEF FinishApply, Finish, vars, stockVars
  <1>2. task'[c] = Idle /\ \A d \in Client \ {c} : task'[d] = task[d]
    BY <1>1 DEF DocTypes, DocumentsTypeOK
  <1>3. /\ \A i \in Ingredient : AtDepot(i)' = AtDepot(i)
        /\ Undisturbed' = Undisturbed /\ Undisturbed \subseteq Ingredient
    BY <1>1 DEF AtDepot, Undisturbed
  <1>4. frozen /\ \A i \in Undisturbed : AtDepot(i) = counts[i].counted
    BY <1>1 DEF CountSound, ApplyingSound, Correcting
  <1>5. LinesSound'
    BY <1>1, <1>3, <1>4 DEF LinesSound
  <1>6. \A d \in Client \ {c} : ListingSound(d)' /\ ApplyingSound(d)'
    BY <1>1, <1>2, <1>3, CountOthers
  <1>7. ~SettingUp(c)' /\ ~Correcting(c)' /\ ~Doing(c, "counted")'
    BY <1>2 DEF SettingUp, Correcting, Doing
  <1>8. ListingSound(c)' /\ ApplyingSound(c)'
    BY <1>7 DEF ListingSound, ApplyingSound
  <1>9. \A d \in Client : SettingUp(d)' => SettingUp(d)
    BY <1>2, <1>7 DEF SettingUp, Doing
  <1> QED
    BY <1>1, <1>4, <1>5, <1>6, <1>8, <1>9 DEF CountSound

LEMMA CountSoundStep ==
    ASSUME Books, DocTypes, CountSound, [DocumentsNext]_<<vars, documentVars>>
    PROVE  CountSound'
  <1> USE DEF DocTypes, DocumentsTypeOK
  <1>1. ASSUME NEW c \in Client, NEW r, task' = [task EXCEPT ![c] = r],
               UNCHANGED <<vars, countVars>>,
               r # Idle => /\ r.pc \notin {"expected", "counted", "adjust", "finish"}
                           /\ r.pc = "load" => count # "none"
        PROVE  CountSound'
    BY <1>1, CountPurchases
  <1>2. ASSUME task' = task, UNCHANGED <<vars, countVars>>
        PROVE  CountSound'
    <2>1. /\ UNCHANGED <<count, counts, frozen, late>> /\ touched' = touched
          /\ \A i \in Ingredient : AtDepot(i)' = AtDepot(i)
      BY <1>2 DEF countVars, vars, stockVars, AtDepot
    <2> QED
      BY <1>2, <2>1, CountLeftAlone
  <1>3. ASSUME NEW c \in Client, NEW i \in Ingredient, NEW n \in Quantity,
               BeginAddLine(c, i, n) \/ BeginCountSave(c, i, n)
        PROVE  CountSound'
    <2>1. PICK r \in {[pc |-> "add", at |-> i, n |-> n], [pc |-> "save", at |-> i, n |-> n]} :
             task' = [task EXCEPT ![c] = r] /\ UNCHANGED <<vars, countVars>>
      BY <1>3 DEF BeginAddLine, BeginCountSave, Begin
    <2>2. r.pc \in {"add", "save"}
      BY <2>1
    <2> QED
      BY <1>1, <2>1, <2>2
  <1>4. ASSUME NEW c \in Client, NEW post, BeginReceive(c, post)
        PROVE  CountSound'
    <2> DEFINE r == [pc |-> "lines", post |-> post, seen |-> [i \in Ingredient |-> 0],
                     todo |-> {}, at |-> Idle, closes |-> FALSE]
    <2>1. task' = [task EXCEPT ![c] = r] /\ r.pc = "lines"
      BY <1>4 DEF BeginReceive, Begin
    <2> HIDE DEF r
    <2> QED
      BY <1>1, <1>4, <2>1 DEF BeginReceive
  <1>5. ASSUME NEW c \in Client, BeginApply(c)
        PROVE  CountSound'
    <2> DEFINE r == [pc |-> "load", seen |-> [i \in Ingredient |-> 0], todo |-> {}]
    <2>1. task' = [task EXCEPT ![c] = r] /\ r.pc = "load" /\ count # "none"
      BY <1>5 DEF BeginApply, Begin
    <2> HIDE DEF r
    <2> QED
      BY <1>1, <1>5, <2>1 DEF BeginApply
  <1>6. ASSUME NEW c \in Client, AddLine(c) \/ SavePurchase(c) \/ BreakOff(c)
        PROVE  CountSound'
    BY <1>1, <1>6 DEF AddLine, SavePurchase, BreakOff, Finish
  <1>7. ASSUME NEW c \in Client, CheckLines(c)
        PROVE  CountSound'
    <2> DEFINE r == [task[c] EXCEPT !.closes = AllReceived(c), !.pc = "status"]
    <2>1. task[c] \in Receipt
      BY <1>7, DoingTyped, RequestKinds DEF CheckLines
    <2>2. task' = [task EXCEPT ![c] = r] /\ r.pc = "status" /\ UNCHANGED <<vars, countVars>>
      BY <1>7, <2>1 DEF CheckLines, Receipt
    <2> HIDE DEF r
    <2> QED
      BY <1>1, <2>2
  <1>8. ASSUME NEW c \in Client, RecordLine(c)
        PROVE  CountSound'
    <2> DEFINE rest == task[c].todo \ {task[c].at}
               r == [task[c] EXCEPT !.todo = rest, !.at = Idle,
                                    !.pc = IF rest = {} THEN "check" ELSE "stock"]
    <2>1. task[c] \in Receipt
      BY <1>8, DoingTyped, RequestKinds DEF RecordLine
    <2>2. task' = [task EXCEPT ![c] = r] /\ UNCHANGED <<vars, countVars>>
      BY <1>8 DEF RecordLine, AfterLine
    <2>3. r.pc \in {"check", "stock"}
      <3> HIDE DEF rest
      <3> QED
        BY <2>1 DEF Receipt
    <2> HIDE DEF r
    <2> QED
      BY <1>1, <2>2, <2>3
  <1>9. ASSUME NEW c \in Client, LoadLines(c)
        PROVE  CountSound'
    <2> DEFINE new == {i \in Lines : task[c].post[i] > line[i].received}
               r == [task[c] EXCEPT !.seen = [i \in Ingredient |-> line[i].received],
                                    !.todo = new, !.pc = "stock"]
    <2>1. task[c] \in Receipt
      BY <1>9, DoingTyped, RequestKinds DEF LoadLines
    <2>2. /\ task' = [task EXCEPT ![c] = Idle] \/ task' = [task EXCEPT ![c] = r]
          /\ UNCHANGED <<vars, countVars>>
      BY <1>9 DEF LoadLines, Finish
    <2>3. r.pc = "stock"
      <3> HIDE DEF new
      <3> QED
        BY <2>1 DEF Receipt
    <2> HIDE DEF r
    <2> QED
      BY <1>1, <2>2, <2>3
  <1>10. ASSUME NEW c \in Client, NEW i \in Ingredient, ReceiveLine(c, i)
         PROVE  CountSound'
    <2> DEFINE r == [task[c] EXCEPT !.at = i, !.pc = "record"]
    <2>1. task[c] \in Receipt
      BY <1>10, DoingTyped, RequestKinds DEF ReceiveLine
    <2>2. /\ task' = [task EXCEPT ![c] = r] /\ r.pc = "record"
          /\ Touch /\ UNCHANGED <<count, counts, frozen, late>>
      BY <1>10, <2>1 DEF ReceiveLine, Receipt
    <2> HIDE DEF r
    <2>3. \A d \in Client : SettingUp(d)' \/ Correcting(d)' \/ Doing(d, "load")' => task'[d] = task[d]
      BY <2>2 DEF SettingUp, Correcting, Doing
    <2> QED
      BY <2>2, <2>3, CountMoves
  <1>11. CASE StockMoves
    BY <1>11, CountMoves DEF StockMoves
  <1>12. CASE PurchaseCreate \/ PurchaseApprove
    BY <1>2, <1>12 DEF PurchaseCreate, PurchaseApprove
  <1>13. CASE UNCHANGED <<vars, documentVars>>
    BY <1>2, <1>13 DEF documentVars
  <1> QED
    BY <1>3, <1>4, <1>5, <1>6, <1>7, <1>8, <1>9, <1>10, <1>11, <1>12, <1>13,
       CountCreated, CountRead, CountListed, CountSaved, CountLoaded, CountAdjusted, CountFinished
    DEF DocumentsNext

-----------------------------------------------------------------------------
(* The theorems about the stock services, whoever calls them *)

DocumentsInv == Books /\ DocTypes /\ DeliveriesSound /\ CountSound

LEMMA DocumentsInvariant == DocumentsSpec => []DocumentsInv
  <1>1. DocumentsInit => DocumentsInv
    BY BooksInit, DocumentsInitSound, CountInit DEF DocumentsInv, DocumentsInit
  <1>2. DocumentsInv /\ [DocumentsNext]_<<vars, documentVars>> => DocumentsInv'
    BY DocumentsBooks, DocTypesStep, DeliveriesSoundStep, CountSoundStep DEF DocumentsInv
  <1> QED
    BY <1>1, <1>2, PTL DEF DocumentsSpec

LEMMA StockInvariant == Spec => []Books
  <1>1. Books /\ [Next]_vars => Books'
    BY NextIsService, BooksStep DEF Services
  <1> QED
    BY <1>1, BooksInit, PTL DEF Spec

(* The parts of the stock keep their types, under documents as well. *)
THEOREM StockTypeCorrect == (Spec => []TypeOK) /\ (DocumentsSpec => []TypeOK)
  <1>1. (Books => TypeOK) /\ (DocumentsInv => TypeOK)
    BY DEF Books, DocumentsInv
  <1> QED
    BY <1>1, StockInvariant, DocumentsInvariant, PTL

(* The books always agree: quantity, movements, batches and shortfalls of every
   cell (apps/inventory/services.py). *)
THEOREM StockAgrees == (Spec => []StockReconciles) /\ (DocumentsSpec => []StockReconciles)
  <1>1. (Books => StockReconciles) /\ (DocumentsInv => StockReconciles)
    BY DEF Books, DocumentsInv
  <1> QED
    BY <1>1, StockInvariant, DocumentsInvariant, PTL

(* What one step of the services promises, it promises wherever it is taken. *)
LEMMA ServiceSteps ==
    ASSUME Books, [Services]_vars
    PROVE  [TakesOldest /\ TransferBacked /\ ClosesAtStockout /\ ReopensStocked]_vars
  BY BooksStep, OldestStep, TransferBackedStep, SaleSteps DEF Books

LEMMA StockSteps ==
    /\ Spec => [][TakesOldest /\ TransferBacked /\ ClosesAtStockout /\ ReopensStocked]_vars
    /\ DocumentsSpec => [][TakesOldest /\ TransferBacked /\ ClosesAtStockout /\ ReopensStocked]_vars
  <1>1. Books /\ [Next]_vars =>
            [TakesOldest /\ TransferBacked /\ ClosesAtStockout /\ ReopensStocked]_vars
    BY NextIsService, ServiceSteps
  <1>2. DocumentsInv /\ [DocumentsNext]_<<vars, documentVars>> =>
            [TakesOldest /\ TransferBacked /\ ClosesAtStockout /\ ReopensStocked]_vars
    BY DocumentsServices, ServiceSteps DEF DocumentsInv
  <1> QED
    BY <1>1, <1>2, StockInvariant, DocumentsInvariant, PTL DEF Spec, DocumentsSpec

(* Consumption takes the oldest batches first (consume_stock, transfer_stock). *)
THEOREM OldestTakenFirst == (Spec => OldestFirst) /\ (DocumentsSpec => OldestFirst)
  <1>1. [TakesOldest /\ TransferBacked /\ ClosesAtStockout /\ ReopensStocked]_vars
            => [TakesOldest]_vars
    OBVIOUS
  <1> QED
    BY <1>1, StockSteps, PTL DEF OldestFirst, TakesOldest

(* A transfer never adds to a shortfall (transfer_stock): a consequence of the
   books, by which what a cell has on hand is there in batches. *)
THEOREM TransfersAreBacked == (Spec => TransfersBacked) /\ (DocumentsSpec => TransfersBacked)
  <1>1. [TakesOldest /\ TransferBacked /\ ClosesAtStockout /\ ReopensStocked]_vars
            => [TransferBacked]_vars
    OBVIOUS
  <1> QED
    BY <1>1, StockSteps, PTL DEF TransfersBacked, TransferBacked

(* No product stays open for sale when one of its ingredients is used up
   (_check_critical_level, _disable_products_for). *)
THEOREM StockoutsClose == (Spec => StockoutCloses) /\ (DocumentsSpec => StockoutCloses)
  <1>1. [TakesOldest /\ TransferBacked /\ ClosesAtStockout /\ ReopensStocked]_vars
            => [ClosesAtStockout]_vars
    OBVIOUS
  <1> QED
    BY <1>1, StockSteps, PTL DEF StockoutCloses, ClosesAtStockout

(* Stock that comes in reopens only what can be made (_reopen_products_for). *)
THEOREM StockedReopen == (Spec => ReopenedWhenStocked) /\ (DocumentsSpec => ReopenedWhenStocked)
  <1>1. [TakesOldest /\ TransferBacked /\ ClosesAtStockout /\ ReopensStocked]_vars
            => [ReopensStocked]_vars
    OBVIOUS
  <1> QED
    BY <1>1, StockSteps, PTL DEF ReopenedWhenStocked, ReopensStocked

-----------------------------------------------------------------------------
(* The theorems about the documents *)

(* Whatever the requests do to the documents, these keep their types. *)
THEOREM DocumentsTypeCorrect == DocumentsSpec => []DocumentsTypeOK
  <1>1. DocumentsInv => DocumentsTypeOK
    BY DEF DocumentsInv, DocTypes
  <1> QED
    BY <1>1, DocumentsInvariant, PTL

(* No line of an order claims goods that did not come into stock, however its
   deliveries overlap, are sent twice or break off (purchase_receive). *)
THEOREM ReceiptsAreBacked == DocumentsSpec => []ReceiptsBacked
  <1>1. DocumentsInv => ReceiptsBacked
    BY DEF DocumentsInv, DeliveriesSound
  <1> QED
    BY <1>1, DocumentsInvariant, PTL

(* An order is closed only when every line that was there in time has been
   delivered in full (purchase_receive). *)
THEOREM ClosedOrdersAreFull == DocumentsSpec => []ClosedInFull
  <1>1. DocumentsInv => ClosedInFull
    BY DEF DocumentsInv, DeliveriesSound, ClosedInFull, Full
  <1> QED
    BY <1>1, DocumentsInvariant, PTL

(* Once a count is applied, by one request or by several that overlapped, the
   stock that nobody else moved is what was counted (count_apply). *)
THEOREM CountsConverge == DocumentsSpec => []CountConverges
  <1>1. DocumentsInv => CountConverges
    BY DEF DocumentsInv, CountSound, LinesSound, CountConverges, Undisturbed, AtDepot
  <1> QED
    BY <1>1, DocumentsInvariant, PTL
=============================================================================
