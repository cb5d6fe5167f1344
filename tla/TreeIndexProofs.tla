--------------------------- MODULE TreeIndexProofs ---------------------------
(***************************************************************************)
(* Theorems about TreeIndex: for any prices and totals, the two slices     *)
(* stay in step and in order, so that the binary search finds its place,   *)
(* the pointer cross holds stays on its level, and the queries are exact.  *)
(***************************************************************************)
EXTENDS TreeIndex, DataFacts, SequenceTheorems, FiniteSetTheorems

LevelValues == Totals \cup {NoOrders}

LEMMA LevelTypes ==
    /\ NoOrders \in LevelValues /\ Totals \subseteq LevelValues /\ NoOrders \notin Totals
    /\ \A v \in LevelValues : v \in Int
  BY TotalsAssumption DEF LevelValues, NoOrders

-----------------------------------------------------------------------------
(* The halving *)

Ascends(k) == \A i, j \in 1 .. Len(k) : i < j => k[i] < k[j]

\* The keys below price are those before place i.
IsPlace(k, price, i) ==
    /\ i \in 1 .. (Len(k) + 1)
    /\ \A n \in 1 .. (i - 1) : k[n] < price
    /\ \A n \in i .. Len(k) : ~(k[n] < price)

\* A middle lies in the first half but not at its end.
LEMMA Middle ==
    ASSUME NEW i \in Int, NEW j \in Int, i < j
    PROVE  (i + j) \div 2 \in Int /\ i <= (i + j) \div 2 /\ (i + j) \div 2 < j
OBVIOUS

\* The loop goes on with one of the halves.
LEMMA HalvingEquation ==
    ASSUME Len(keys) \in Nat, NEW price,
           NEW i \in 1 .. (Len(keys) + 1), NEW j \in 1 .. (Len(keys) + 1)
    PROVE  LET h == (i + j) \div 2
           IN  Halving(price)[<<i, j>>] =
                   IF i >= j THEN i
                   ELSE IF keys[h] < price THEN Halving(price)[<<h + 1, j>>]
                   ELSE Halving(price)[<<i, h>>]
<1> DEFINE D == (1 .. (Len(keys) + 1)) \X (1 .. (Len(keys) + 1))
           h(r) == (r[1] + r[2]) \div 2
           stop == {r \in D : r[1] >= r[2]}
           base == [r \in D |-> r[1]]
           next == [r \in D |-> IF keys[h(r)] < price THEN <<h(r) + 1, r[2]>> ELSE <<r[1], h(r)>>]
           measure == [r \in D |-> IF r[1] >= r[2] THEN 0 ELSE r[2] - r[1]]
           Walk(f) == [r \in D |-> IF r[1] >= r[2] THEN r[1]
                                   ELSE IF keys[h(r)] < price THEN f[<<h(r) + 1, r[2]>>]
                                   ELSE f[<<r[1], h(r)>>]]
<1>1. measure \in [D -> Nat]
  OBVIOUS
<1>2. \A r \in D : r \notin stop => next[r] \in D /\ measure[next[r]] < measure[r]
  <2> TAKE r \in D
  <2> HAVE r \notin stop
  <2> DEFINE m == h(r)
  <2>1. /\ r[1] \in 1 .. (Len(keys) + 1) /\ r[2] \in 1 .. (Len(keys) + 1) /\ r[1] < r[2]
        /\ measure[r] = r[2] - r[1]
    OBVIOUS
  <2>2. m \in Int /\ r[1] <= m /\ m < r[2]
    BY <2>1, Middle
  <2>3. next[r] = IF keys[m] < price THEN <<m + 1, r[2]>> ELSE <<r[1], m>>
    OBVIOUS
  <2> HIDE DEF m, next
  <2>4. CASE keys[m] < price
    <3>1. next[r] = <<m + 1, r[2]>> /\ next[r] \in D
      BY <2>1, <2>2, <2>3, <2>4
    <3>2. measure[next[r]] = IF m + 1 >= r[2] THEN 0 ELSE r[2] - (m + 1)
      BY <3>1
    <3>. QED BY <2>1, <2>2, <3>1, <3>2
  <2>5. CASE ~(keys[m] < price)
    <3>1. next[r] = <<r[1], m>> /\ next[r] \in D
      BY <2>1, <2>2, <2>3, <2>5
    <3>2. measure[next[r]] = IF r[1] >= m THEN 0 ELSE m - r[1]
      BY <3>1
    <3>. QED BY <2>1, <2>2, <3>1, <3>2
  <2>. QED BY <2>4, <2>5
<1>3. GoesDown(D, stop, next, measure)
  <2> HIDE DEF D, stop, next, measure
  <2>. QED BY <1>1, <1>2 DEF GoesDown
<1>4. \E f : Walks(f, D, stop, base, next)
  <2> HIDE DEF D, stop, base, next, measure
  <2>. QED BY <1>3, Descent, Zenon
<1>5. \A f : [r \in D |-> IF r \in stop THEN base[r] ELSE f[next[r]]] = Walk(f)
  OBVIOUS
<1>6. \E f : f = Walk(f)
  <2> HIDE DEF D, stop, base, next, Walk
  <2>. QED BY <1>4, <1>5 DEF Walks
<1>7. Halving(price) = CHOOSE f : f = Walk(f)
  BY DEF Halving
<1>8. Halving(price) = Walk(Halving(price))
  <2> HIDE DEF Walk
  <2>. QED BY <1>6, <1>7
<1>9. <<i, j>> \in D
  OBVIOUS
<1>. QED BY <1>8, <1>9

\* On ascending keys the search finds the place of a price.
LEMMA SearchFinds ==
    ASSUME NEW K, K \subseteq Int, keys \in Seq(K), Ascends(keys), NEW price \in Int
    PROVE  IsPlace(keys, price, Search(price))
<1> DEFINE N == Len(keys)
           f == Halving(price)
           Left(i, j) == /\ i \in 1 .. (N + 1) /\ j \in 1 .. (N + 1) /\ i <= j
                         /\ \A n \in 1 .. (i - 1) : keys[n] < price
                         /\ \A n \in j .. N : ~(keys[n] < price)
           P(d) == \A i, j \in Int : Left(i, j) /\ j - i = d => IsPlace(keys, price, f[<<i, j>>])
           Bad == {d \in Nat : ~P(d)}
<1>1. N \in Nat /\ \A n \in 1 .. N : keys[n] \in Int
  <2>1. N \in Nat /\ keys \in [1 .. N -> K]
    BY LenProperties
  <2>. QED BY <2>1
<1>2. SUFFICES \A d \in Nat : P(d)
  <2>1. Left(1, N + 1) /\ (N + 1) - 1 = N
    BY <1>1
  <2>2. IsPlace(keys, price, f[<<1, N + 1>>])
    <3> HIDE DEF f, Left
    <3>. QED BY <1>1, <1>2, <2>1
  <2>. QED BY <2>2 DEF Search
<1>3. SUFFICES ASSUME Bad # {} PROVE FALSE
  OBVIOUS
<1>4. PICK d \in Bad : \A e \in Bad : d <= e
  <2> HIDE DEF P
  <2>. QED BY <1>3, LeastNat
<1>5. d \in Nat /\ ~P(d) /\ \A e \in Nat : e < d => P(e)
  <2> HIDE DEF P
  <2>. QED BY <1>4
<1>6. PICK i \in Int, j \in Int : Left(i, j) /\ j - i = d /\ ~IsPlace(keys, price, f[<<i, j>>])
  BY <1>5
<1> DEFINE h == (i + j) \div 2
<1>7. f[<<i, j>>] = IF i >= j THEN i ELSE IF keys[h] < price THEN f[<<h + 1, j>>] ELSE f[<<i, h>>]
  <2>1. i \in 1 .. (N + 1) /\ j \in 1 .. (N + 1)
    BY <1>6
  <2>. QED BY <1>1, <2>1, HalvingEquation
<1>8. i < j
  <2>1. i = j => IsPlace(keys, price, i)
    BY <1>1, <1>6 DEF IsPlace
  <2>. QED BY <1>6, <1>7, <2>1
<1>9. h \in Int /\ i <= h /\ h < j
  BY <1>8, Middle
<1> HIDE DEF h, f, P, Bad
<1>10. h \in 1 .. N
  BY <1>1, <1>6, <1>9
<1>11. CASE keys[h] < price
  <2>1. \A n \in 1 .. h : keys[n] < price
    <3> TAKE n \in 1 .. h
    <3>1. n \in 1 .. N /\ (n = h \/ keys[n] < keys[h])
      BY <1>1, <1>10 DEF Ascends
    <3>. QED BY <1>1, <1>10, <1>11, <3>1
  <2>2. Left(h + 1, j)
    BY <1>1, <1>6, <1>9, <1>10, <2>1
  <2>3. P(j - (h + 1))
    BY <1>5, <1>6, <1>9
  <2>4. IsPlace(keys, price, f[<<h + 1, j>>])
    <3> HIDE DEF Left
    <3>. QED BY <1>9, <2>2, <2>3 DEF P
  <2>. QED BY <1>6, <1>7, <1>8, <1>11, <2>4
<1>12. CASE ~(keys[h] < price)
  <2>1. \A n \in h .. N : ~(keys[n] < price)
    <3> TAKE n \in h .. N
    <3>1. n \in 1 .. N /\ (n = h \/ keys[h] < keys[n])
      BY <1>1, <1>10 DEF Ascends
    <3>. QED BY <1>1, <1>10, <1>12, <3>1
  <2>2. Left(i, h)
    BY <1>1, <1>6, <1>9, <1>10, <2>1
  <2>3. P(h - i)
    BY <1>5, <1>6, <1>9
  <2>4. IsPlace(keys, price, f[<<i, h>>])
    <3> HIDE DEF Left
    <3>. QED BY <1>9, <2>2, <2>3 DEF P
  <2>. QED BY <1>6, <1>7, <1>8, <1>12, <2>4
<1>. QED BY <1>11, <1>12

\* The search finds a price that is among the keys, and no other.
LEMMA PosFacts ==
    ASSUME keys \in Seq(Prices), Ascends(keys), NEW price \in Prices
    PROVE  /\ IsPlace(keys, price, Pos(price))
           /\ \A i \in 1 .. Len(keys) : keys[i] = price => Pos(price) = i
           /\ Present(price) <=> price \in ToSet(keys)
<1>1. IsPlace(keys, price, Pos(price))
  BY PricesAssumption, SearchFinds DEF Pos
<1> DEFINE p == Pos(price)
<1>2. Len(keys) \in Nat /\ DOMAIN keys = 1 .. Len(keys) /\ \A n \in 1 .. Len(keys) : keys[n] \in Int
  BY ElementOfSeq, LenProperties, PricesAssumption
<1>3. /\ p \in 1 .. (Len(keys) + 1)
      /\ \A n \in 1 .. (p - 1) : keys[n] < price
      /\ \A n \in p .. Len(keys) : ~(keys[n] < price)
  BY <1>1 DEF IsPlace
<1>4. price \in Int
  BY PricesAssumption
<1> HIDE DEF p
<1>5. ASSUME NEW i \in 1 .. Len(keys), keys[i] = price PROVE p = i
  <2>1. ~(i < p)
    BY <1>2, <1>3, <1>4, <1>5
  <2>2. ~(p < i)
    <3> SUFFICES ASSUME p < i PROVE FALSE
      OBVIOUS
    <3>1. keys[p] < keys[i] /\ p \in 1 .. Len(keys)
      BY <1>2, <1>3 DEF Ascends
    <3>. QED BY <1>2, <1>3, <1>5, <3>1
  <2>. QED BY <1>2, <1>3, <2>1, <2>2
<1>6. Present(price) <=> (p <= Len(keys) /\ keys[p] = price)
  BY DEF Present, p
<1>7. Present(price) <=> price \in ToSet(keys)
  BY <1>2, <1>3, <1>5, <1>6 DEF ToSet
<1>. QED BY <1>1, <1>5, <1>7 DEF p

-----------------------------------------------------------------------------
(* The two slices in step *)

\* The keys ascend, and at each one's place is its level, of the levels f.
AtKeys(k, l, f) ==
    /\ k \in Seq(Prices) /\ l \in Seq(LevelValues) /\ Len(l) = Len(k)
    /\ Ascends(k)
    /\ ToSet(k) = DOMAIN f
    /\ \A i \in 1 .. Len(k) : l[i] = f[k[i]]

LEMMA AtKeysFacts ==
    ASSUME NEW k, NEW l, NEW f, AtKeys(k, l, f)
    PROVE  /\ Len(k) \in Nat /\ DOMAIN k = 1 .. Len(k) /\ DOMAIN l = 1 .. Len(k)
           /\ \A i \in 1 .. Len(k) : k[i] \in Prices /\ k[i] \in Int /\ l[i] \in LevelValues
           /\ \A i \in 1 .. Len(k) : k[i] \in DOMAIN f /\ l[i] = f[k[i]]
           /\ \A p \in DOMAIN f : \E i \in 1 .. Len(k) : k[i] = p
           /\ \A i, j \in 1 .. Len(k) : k[i] = k[j] => i = j
<1>1. /\ k \in Seq(Prices) /\ l \in Seq(LevelValues) /\ Len(l) = Len(k)
      /\ Ascends(k) /\ ToSet(k) = DOMAIN f /\ \A i \in 1 .. Len(k) : l[i] = f[k[i]]
  BY DEF AtKeys
<1>2. /\ Len(k) \in Nat /\ k \in [1 .. Len(k) -> Prices] /\ DOMAIN k = 1 .. Len(k)
  BY <1>1, LenProperties
<1>3. l \in [1 .. Len(k) -> LevelValues] /\ DOMAIN l = 1 .. Len(k)
  BY <1>1, LenProperties
<1>4. \A i \in 1 .. Len(k) : k[i] \in Prices /\ k[i] \in Int /\ l[i] \in LevelValues
  BY <1>2, <1>3, PricesAssumption
<1>5. DOMAIN f = {k[i] : i \in 1 .. Len(k)}
  BY <1>1, <1>2 DEF ToSet
<1>6. ASSUME NEW i \in 1 .. Len(k), NEW j \in 1 .. Len(k), k[i] = k[j] PROVE i = j
  <2>1. ~(i < j) /\ ~(j < i)
    BY <1>1, <1>4, <1>6 DEF Ascends
  <2>. QED BY <1>2, <2>1
<1>. QED BY <1>1, <1>2, <1>3, <1>4, <1>5, <1>6

\* A level changes in its place.
LEMMA Sets ==
    ASSUME NEW k, NEW l, NEW f, AtKeys(k, l, f), NEW i \in 1 .. Len(k), NEW v \in LevelValues
    PROVE  AtKeys(k, [l EXCEPT ![i] = v], With(f, k[i], v))
<1> DEFINE m == [l EXCEPT ![i] = v]
           g == With(f, k[i], v)
<1>1. /\ k \in Seq(Prices) /\ l \in Seq(LevelValues) /\ Len(l) = Len(k)
      /\ Ascends(k) /\ ToSet(k) = DOMAIN f
  BY DEF AtKeys
<1>2. /\ m \in Seq(LevelValues) /\ Len(m) = Len(l)
      /\ \A j \in 1 .. Len(l) : m[j] = IF j = i THEN v ELSE l[j]
  BY <1>1, ExceptSeq
<1>3. k[i] \in DOMAIN f
  BY AtKeysFacts
<1>4. DOMAIN g = DOMAIN f /\ \A p \in DOMAIN f : g[p] = IF p = k[i] THEN v ELSE f[p]
  BY <1>3 DEF With
<1> HIDE DEF m, g
<1>5. \A j \in 1 .. Len(k) : m[j] = g[k[j]]
  BY <1>1, <1>2, <1>4, AtKeysFacts
<1>6. AtKeys(k, m, g)
  BY <1>1, <1>2, <1>4, <1>5 DEF AtKeys
<1>. QED BY <1>6 DEF m, g

\* A price and its level are inserted in both slices at the price's place.
LEMMA Inserts ==
    ASSUME NEW k, NEW l, NEW f, AtKeys(k, l, f), NEW price \in Prices, price \notin DOMAIN f,
           NEW i, IsPlace(k, price, i), NEW v \in LevelValues
    PROVE  AtKeys(InsertAt(k, i, price), InsertAt(l, i, v), With(f, price, v))
<1> DEFINE q == InsertAt(k, i, price)
           m == InsertAt(l, i, v)
           g == With(f, price, v)
           N == Len(k)
<1>1. /\ k \in Seq(Prices) /\ l \in Seq(LevelValues) /\ Len(l) = N
      /\ Ascends(k) /\ ToSet(k) = DOMAIN f
  BY DEF AtKeys
<1>2. /\ i \in 1 .. (N + 1) /\ price \in Int
      /\ \A n \in 1 .. (i - 1) : k[n] < price
      /\ \A n \in i .. N : ~(k[n] < price)
  BY PricesAssumption DEF IsPlace
<1>3. /\ q \in Seq(Prices) /\ Len(q) = N + 1
      /\ \A j \in 1 .. (i - 1) : q[j] = k[j]
      /\ q[i] = price
      /\ \A j \in i .. N : q[j + 1] = k[j]
  <2>1. q = WithOne(k, i, price)
    BY DEF InsertAt, WithOne
  <2>2. k \in Seq(Prices) /\ i \in 1 .. (Len(k) + 1)
    BY <1>1, <1>2
  <2> HIDE DEF q
  <2>3. q \in Seq(Prices) /\ Len(q) = Len(k) + 1
    BY <2>1, <2>2, WithOneFacts
  <2>4. (\A j \in 1 .. (i - 1) : q[j] = k[j]) /\ q[i] = price
    BY <2>1, <2>2, WithOneFacts
  <2>5. \A j \in i .. Len(k) : q[j + 1] = k[j]
    BY <2>1, <2>2, WithOneFacts
  <2>. QED BY <2>3, <2>4, <2>5
<1>4. /\ m \in Seq(LevelValues) /\ Len(m) = N + 1
      /\ \A j \in 1 .. (i - 1) : m[j] = l[j]
      /\ m[i] = v
      /\ \A j \in i .. N : m[j + 1] = l[j]
  <2>1. m = WithOne(l, i, v)
    BY DEF InsertAt, WithOne
  <2>2. l \in Seq(LevelValues) /\ i \in 1 .. (Len(l) + 1)
    BY <1>1, <1>2
  <2> HIDE DEF m
  <2>3. m \in Seq(LevelValues) /\ Len(m) = Len(l) + 1
    BY <2>1, <2>2, WithOneFacts
  <2>4. (\A j \in 1 .. (i - 1) : m[j] = l[j]) /\ m[i] = v
    BY <2>1, <2>2, WithOneFacts
  <2>5. \A j \in i .. Len(l) : m[j + 1] = l[j]
    BY <2>1, <2>2, WithOneFacts
  <2>. QED BY <1>1, <2>3, <2>4, <2>5
<1>5. /\ N \in Nat /\ \A j \in 1 .. N : k[j] \in Int /\ k[j] \in DOMAIN f /\ l[j] = f[k[j]]
      /\ \A p \in DOMAIN f : \E j \in 1 .. N : k[j] = p
  BY AtKeysFacts
<1>6. \A n \in i .. N : price < k[n]
  BY <1>2, <1>5
<1>7. DOMAIN g = DOMAIN f \cup {price} /\ g[price] = v /\ \A p \in DOMAIN f : g[p] = f[p]
  BY DEF With
<1> HIDE DEF q, m, g, N
<1>8. \A a, b \in 1 .. (N + 1) : a < b => q[a] < q[b]
  <2> TAKE a, b \in 1 .. (N + 1)
  <2> HAVE a < b
  <2>1. /\ a < i => a \in 1 .. (i - 1) /\ a \in 1 .. N
        /\ a > i => a - 1 \in i .. N /\ a - 1 \in 1 .. N
        /\ b < i => b \in 1 .. (i - 1) /\ b \in 1 .. N
        /\ b > i => b - 1 \in i .. N /\ b - 1 \in 1 .. N
    BY <1>2, <1>5
  <2>2. \A c, d \in 1 .. N : c < d => k[c] < k[d]
    BY <1>1 DEF Ascends, N
  <2>3. /\ a < i => q[a] = k[a]
        /\ a = i => q[a] = price
        /\ a > i => q[a] = k[a - 1]
        /\ b < i => q[b] = k[b]
        /\ b = i => q[b] = price
        /\ b > i => q[b] = k[b - 1]
    <3>1. \A j \in Int : j + 1 - 1 = j /\ (j - 1) + 1 = j
      OBVIOUS
    <3>2. \A j \in 1 .. (N + 1) : /\ j < i => j \in 1 .. (i - 1)
                                  /\ j > i => j - 1 \in i .. N
      BY <1>2, <1>5
    <3>3. \A j \in 1 .. (N + 1) : j > i => q[j] = k[j - 1]
      <4> TAKE j \in 1 .. (N + 1)
      <4> HAVE j > i
      <4>1. j - 1 \in i .. N /\ (j - 1) + 1 = j
        BY <1>5, <3>2
      <4>. QED BY <1>3, <4>1
    <3>. QED BY <1>3, <3>2, <3>3
  <2>4. a \in Int /\ b \in Int /\ i \in Int /\ price \in Int
    BY <1>2, <1>5
  <2>5. CASE b < i
    BY <2>1, <2>2, <2>3, <2>4, <2>5
  <2>6. CASE b = i
    BY <1>2, <2>1, <2>3, <2>4, <2>6
  <2>7. CASE b > i /\ a < i
    <3>1. k[a] < price /\ price < k[b - 1] /\ k[a] \in Int /\ k[b - 1] \in Int
      BY <1>2, <1>5, <1>6, <2>1, <2>7
    <3>. QED BY <2>3, <2>4, <2>7, <3>1
  <2>8. CASE b > i /\ a = i
    BY <1>6, <2>1, <2>3, <2>4, <2>8
  <2>9. CASE a > i
    BY <2>1, <2>2, <2>3, <2>4, <2>9
  <2>. QED BY <2>4, <2>5, <2>6, <2>7, <2>8, <2>9
<1>9. \A j \in 1 .. (N + 1) : q[j] \in DOMAIN g /\ m[j] = g[q[j]]
  <2> TAKE j \in 1 .. (N + 1)
  <2>1. (j < i => j \in 1 .. N) /\ (j > i => j - 1 \in 1 .. N) /\ j \in Int /\ i \in Int
    BY <1>2, <1>5
  <2>2. CASE j < i
    <3>1. q[j] = k[j] /\ m[j] = l[j] /\ j \in 1 .. N
      BY <1>3, <1>4, <2>1, <2>2
    <3>. QED BY <1>5, <1>7, <3>1
  <2>3. CASE j = i
    BY <1>3, <1>4, <1>7, <2>3
  <2>4. CASE j > i
    <3>1. q[j] = k[j - 1] /\ m[j] = l[j - 1] /\ j - 1 \in 1 .. N
      BY <1>3, <1>4, <2>1, <2>4
    <3>. QED BY <1>5, <1>7, <3>1
  <2>. QED BY <2>1, <2>2, <2>3, <2>4
<1>10. \A p \in DOMAIN g : \E j \in 1 .. (N + 1) : q[j] = p
  <2> TAKE p \in DOMAIN g
  <2>1. CASE p = price
    BY <1>2, <1>3, <2>1
  <2>2. CASE p # price
    <3>1. PICK j \in 1 .. N : k[j] = p
      BY <1>5, <1>7, <2>2
    <3>2. CASE j < i
      <4>1. j \in 1 .. (i - 1) /\ j \in 1 .. (N + 1)
        BY <1>2, <1>5, <3>2
      <4>. QED BY <1>3, <3>1, <4>1
    <3>3. CASE ~(j < i)
      <4>1. j \in i .. N /\ j + 1 \in 1 .. (N + 1)
        BY <1>2, <1>5, <3>3
      <4>. QED BY <1>3, <3>1, <4>1
    <3>. QED BY <3>2, <3>3
  <2>. QED BY <2>1, <2>2
<1>11. ToSet(q) = DOMAIN g
  <2>1. DOMAIN q = 1 .. (N + 1)
    BY <1>3, LenProperties
  <2>2. ToSet(q) = {q[j] : j \in 1 .. (N + 1)}
    BY <2>1 DEF ToSet
  <2> HIDE DEF q, g, N
  <2>. QED BY <1>9, <1>10, <2>2
<1>12. AtKeys(q, m, g)
  BY <1>3, <1>4, <1>8, <1>9, <1>11 DEF AtKeys, Ascends
<1>. QED BY <1>12 DEF q, m, g

\* A price and its level are removed from both slices.
LEMMA Removes ==
    ASSUME NEW k, NEW l, NEW f, AtKeys(k, l, f), NEW i \in 1 .. Len(k)
    PROVE  AtKeys(RemoveAt(k, i), RemoveAt(l, i), Without(f, k[i]))
<1> DEFINE q == RemoveAt(k, i)
           m == RemoveAt(l, i)
           g == Without(f, k[i])
           N == Len(k)
<1>1. /\ k \in Seq(Prices) /\ l \in Seq(LevelValues) /\ Len(l) = N
      /\ Ascends(k) /\ ToSet(k) = DOMAIN f
  BY DEF AtKeys
<1>2. /\ q \in Seq(Prices) /\ Len(q) = N - 1
      /\ \A j \in 1 .. (N - 1) : q[j] = IF j < i THEN k[j] ELSE k[j + 1]
  <2>1. q = LessOne(k, i)
    BY DEF RemoveAt, LessOne
  <2>. QED BY <1>1, <2>1, LessOneFacts
<1>3. /\ m \in Seq(LevelValues) /\ Len(m) = N - 1
      /\ \A j \in 1 .. (N - 1) : m[j] = IF j < i THEN l[j] ELSE l[j + 1]
  <2>1. m = LessOne(l, i)
    BY DEF RemoveAt, LessOne
  <2>. QED BY <1>1, <2>1, LessOneFacts
<1>4. /\ N \in Nat /\ \A j \in 1 .. N : k[j] \in Int /\ k[j] \in DOMAIN f /\ l[j] = f[k[j]]
      /\ \A p \in DOMAIN f : \E j \in 1 .. N : k[j] = p
      /\ \A a, b \in 1 .. N : k[a] = k[b] => a = b
  BY AtKeysFacts
<1>5. DOMAIN g = DOMAIN f \ {k[i]} /\ \A p \in DOMAIN g : g[p] = f[p]
  BY DEF Without
<1>6. i \in 1 .. N
  OBVIOUS
<1> DEFINE from(j) == IF j < i THEN j ELSE j + 1
<1>7. \A j \in 1 .. (N - 1) : /\ from(j) \in 1 .. N /\ from(j) # i
                              /\ q[j] = k[from(j)] /\ m[j] = l[from(j)]
  <2> TAKE j \in 1 .. (N - 1)
  <2> DEFINE fj == from(j)
  <2>1. /\ j < i => fj = j
        /\ ~(j < i) => fj = j + 1
    OBVIOUS
  <2>2. fj \in 1 .. N /\ fj # i
    <3> HIDE DEF fj, q, m, g, N
    <3>. QED BY <1>4, <1>6, <2>1
  <2>3. q[j] = (IF j < i THEN k[j] ELSE k[j + 1]) /\ m[j] = (IF j < i THEN l[j] ELSE l[j + 1])
    <3> HIDE DEF q, m, N
    <3>. QED BY <1>2, <1>3
  <2>. QED BY <2>2, <2>3
<1>8. \A a, b \in 1 .. (N - 1) : a < b => from(a) < from(b)
  BY <1>4, <1>6
<1>9. \A n \in 1 .. N : n # i => \E j \in 1 .. (N - 1) : from(j) = n
  <2> TAKE n \in 1 .. N
  <2> HAVE n # i
  <2>1. CASE n < i
    <3>1. n \in 1 .. (N - 1) /\ from(n) = n
      BY <1>4, <1>6, <2>1
    <3>. QED BY <3>1
  <2>2. CASE n > i
    <3>1. n - 1 \in 1 .. (N - 1) /\ from(n - 1) = n
      BY <1>4, <1>6, <2>2
    <3>. QED BY <3>1
  <2>. QED BY <1>4, <1>6, <2>1, <2>2
<1> HIDE DEF q, m, g, N, from
<1>10. \A a, b \in 1 .. (N - 1) : a < b => q[a] < q[b]
  BY <1>1, <1>7, <1>8 DEF Ascends, N
<1>11. \A j \in 1 .. (N - 1) : q[j] \in DOMAIN g /\ m[j] = g[q[j]]
  <2> TAKE j \in 1 .. (N - 1)
  <2> DEFINE n == from(j)
  <2>1. n \in 1 .. N /\ n # i /\ q[j] = k[n] /\ m[j] = l[n]
    BY <1>7
  <2> HIDE DEF n
  <2>2. k[n] \in DOMAIN f /\ l[n] = f[k[n]] /\ k[n] # k[i]
    BY <1>4, <1>6, <2>1
  <2>. QED BY <1>5, <2>1, <2>2
<1>12. \A p \in DOMAIN g : \E j \in 1 .. (N - 1) : q[j] = p
  <2> TAKE p \in DOMAIN g
  <2>1. PICK n \in 1 .. N : k[n] = p /\ n # i
    BY <1>4, <1>5
  <2>2. PICK j \in 1 .. (N - 1) : from(j) = n
    BY <1>9, <2>1
  <2>. QED BY <1>7, <2>1, <2>2
<1>13. ToSet(q) = DOMAIN g
  <2>1. DOMAIN q = 1 .. (N - 1)
    BY <1>2, LenProperties
  <2>. QED BY <1>11, <1>12, <2>1 DEF ToSet
<1>14. AtKeys(q, m, g)
  BY <1>2, <1>3, <1>10, <1>11, <1>13 DEF AtKeys, Ascends
<1>. QED BY <1>14 DEF q, m, g

-----------------------------------------------------------------------------
(* The inductive invariant *)

\* lv, the pointer of cross, points to the level of the price it was taken for.
HeldAtItsPrice == held # None => keys[held.at] = held.price

IInv == TypeOK /\ LevelsAtTheirKeys /\ HeldAtItsPrice

\* The levels that the slices should show.
AllLevels ==
    [p \in DOMAIN rested \cup Ghost |-> IF p \in Ghost THEN NoOrders ELSE rested[p]]

\* The same, with cross holding lv or None.
LevelsOf(f, h) ==
    LET ghost == IF h # None /\ h.price \notin DOMAIN f THEN {h.price} ELSE {}
    IN  [p \in DOMAIN f \cup ghost |-> IF p \in ghost THEN NoOrders ELSE f[p]]

LEMMA AllLevelsIs == AllLevels = LevelsOf(rested, held)
  BY DEF AllLevels, LevelsOf, Ghost

Pointers(k) == [price : Prices, at : 1 .. Len(k)]
RestedTypes(f) == DOMAIN f \subseteq Prices /\ f \in [DOMAIN f -> Totals]

LEMMA NoPointer ==
    ASSUME NEW k, NEW h \in Pointers(k) PROVE h # None
<1>1. DOMAIN h = {"price", "at"} /\ DOMAIN None = {"price"}
  BY DEF Pointers, None
<1>2. "at" # "price"
  OBVIOUS
<1>. QED BY <1>1, <1>2

\* What the invariant says, in terms of the slices.
LEMMA InvIs ==
    IInv <=> /\ side \in {"Bid", "Ask"}
             /\ AtKeys(keys, lvls, LevelsOf(rested, held))
             /\ held \in Pointers(keys) \cup {None}
             /\ RestedTypes(rested)
             /\ HeldAtItsPrice
<1>1. ASSUME IInv
      PROVE  /\ side \in {"Bid", "Ask"}
             /\ AtKeys(keys, lvls, LevelsOf(rested, held))
             /\ held \in Pointers(keys) \cup {None}
             /\ RestedTypes(rested)
             /\ HeldAtItsPrice
  <2>1. TypeOK /\ LevelsAtTheirKeys /\ HeldAtItsPrice
    BY <1>1 DEF IInv
  <2>2. keys \in Seq(Prices) /\ Len(keys) \in Nat /\ DOMAIN keys = 1 .. Len(keys)
    BY <2>1, LenProperties DEF TypeOK
  <2>3. lvls \in Seq(LevelValues) /\ Len(lvls) = Len(keys)
    <3>1. lvls \in [1 .. Len(keys) -> LevelValues]
      BY <2>1 DEF TypeOK, LevelValues
    <3>2. lvls \in Seq(LevelValues)
      BY <2>2, <3>1, SeqDef
    <3>. QED BY <2>2, <3>1, <3>2, LenProperties
  <2>4. /\ \A i, j \in 1 .. Len(keys) : i < j => keys[i] < keys[j]
        /\ ToSet(keys) = DOMAIN rested \cup Ghost
        /\ \A i \in 1 .. Len(keys) :
              lvls[i] = IF keys[i] \in Ghost THEN NoOrders ELSE rested[keys[i]]
    BY <2>1 DEF LevelsAtTheirKeys
  <2>5. \A i \in 1 .. Len(keys) : keys[i] \in DOMAIN rested \cup Ghost
    BY <2>2, <2>4 DEF ToSet
  <2>6. ToSet(keys) = DOMAIN AllLevels /\ \A i \in 1 .. Len(keys) : lvls[i] = AllLevels[keys[i]]
    BY <2>4, <2>5 DEF AllLevels
  <2>7. AtKeys(keys, lvls, AllLevels)
    BY <2>2, <2>3, <2>4, <2>6 DEF AtKeys, Ascends
  <2>. QED BY <2>1, <2>7, AllLevelsIs DEF TypeOK, Pointers, RestedTypes
<1>2. ASSUME /\ side \in {"Bid", "Ask"}
             /\ AtKeys(keys, lvls, LevelsOf(rested, held))
             /\ held \in Pointers(keys) \cup {None}
             /\ RestedTypes(rested)
             /\ HeldAtItsPrice
      PROVE  IInv
  <2>1. AtKeys(keys, lvls, AllLevels)
    BY <1>2, AllLevelsIs
  <2>2. /\ keys \in Seq(Prices) /\ lvls \in Seq(LevelValues) /\ Len(lvls) = Len(keys)
        /\ Ascends(keys) /\ ToSet(keys) = DOMAIN AllLevels
    BY <2>1 DEF AtKeys
  <2>3. \A i \in 1 .. Len(keys) : keys[i] \in DOMAIN AllLevels /\ lvls[i] = AllLevels[keys[i]]
    BY <2>1, AtKeysFacts
  <2>4. lvls \in [1 .. Len(keys) -> Totals \cup {NoOrders}]
    BY <2>2, LenProperties DEF LevelValues
  <2>5. TypeOK
    BY <1>2, <2>2, <2>4 DEF TypeOK, Pointers, RestedTypes
  <2>6. DOMAIN AllLevels = DOMAIN rested \cup Ghost
    BY DEF AllLevels
  <2>7. \A i \in 1 .. Len(keys) :
              lvls[i] = IF keys[i] \in Ghost THEN NoOrders ELSE rested[keys[i]]
    BY <2>3 DEF AllLevels
  <2>8. LevelsAtTheirKeys
    BY <2>2, <2>6, <2>7 DEF LevelsAtTheirKeys, Ascends
  <2>. QED BY <1>2, <2>5, <2>8 DEF IInv
<1>. QED BY <1>1, <1>2

\* The levels of a tree whose levels are all known, and of one with a drained level.
LEMMA LevelsKnown ==
    /\ \A f : LevelsOf(f, None) = [p \in DOMAIN f |-> f[p]]
    /\ \A f, h : h.price \in DOMAIN f => LevelsOf(f, h) = [p \in DOMAIN f |-> f[p]]
    /\ \A f, h : h # None /\ h.price \notin DOMAIN f =>
           LevelsOf(f, h) = With(f, h.price, NoOrders)
<1>1. ASSUME NEW f, NEW h, h # None, h.price \notin DOMAIN f
      PROVE  LevelsOf(f, h) = With(f, h.price, NoOrders)
  BY <1>1 DEF LevelsOf, With
<1>. QED BY <1>1 DEF LevelsOf

LEMMA WithTypes ==
    ASSUME NEW f, RestedTypes(f), NEW p \in Prices, NEW t \in Totals
    PROVE  /\ RestedTypes(With(f, p, t)) /\ RestedTypes(Without(f, p))
           /\ p \in DOMAIN With(f, p, t) /\ DOMAIN With(f, p, t) = DOMAIN f \cup {p}
           /\ DOMAIN Without(f, p) = DOMAIN f \ {p}
  BY DEF RestedTypes, With, Without

LEMMA InitInv == Init => IInv
<1> SUFFICES ASSUME Init PROVE IInv
  OBVIOUS
<1>1. side \in {"Bid", "Ask"} /\ keys = <<>> /\ lvls = <<>> /\ held = None
      /\ rested = [p \in {} |-> NoOrders]
  BY DEF Init
<1>2. DOMAIN rested = {} /\ RestedTypes(rested)
  BY <1>1 DEF RestedTypes
<1>3. DOMAIN LevelsOf(rested, held) = {}
  BY <1>1, <1>2, LevelsKnown
<1>4. /\ <<>> \in Seq(Prices) /\ <<>> \in Seq(LevelValues) /\ Len(<<>>) = 0
      /\ DOMAIN <<>> = {}
  OBVIOUS
<1>5. AtKeys(keys, lvls, LevelsOf(rested, held))
  BY <1>1, <1>3, <1>4 DEF AtKeys, Ascends, ToSet
<1>. QED BY <1>1, <1>2, <1>5, InvIs DEF HeldAtItsPrice

\* A step keeps the invariant if it leaves slices, pointer and levels like this.
LEMMA InvNext ==
    ASSUME side' \in {"Bid", "Ask"},
           AtKeys(keys', lvls', LevelsOf(rested', held')),
           held' \in Pointers(keys') \cup {None},
           RestedTypes(rested'),
           held' # None => keys'[held'.at] = held'.price
    PROVE  IInv'
<1>1. (IInv <=> /\ side \in {"Bid", "Ask"}
                /\ AtKeys(keys, lvls, LevelsOf(rested, held))
                /\ held \in Pointers(keys) \cup {None}
                /\ RestedTypes(rested)
                /\ HeldAtItsPrice)'
  BY InvIs, PTL
<1>. QED BY <1>1 DEF HeldAtItsPrice

\* A function of levels is what it is made of.
LEMMA SameLevels ==
    ASSUME NEW f, RestedTypes(f)
    PROVE  [p \in DOMAIN f |-> f[p]] = f
  BY DEF RestedTypes

\* Without a pointer, the slices show the levels the book has filled.
LEMMA IdleFacts ==
    ASSUME IInv, held = None
    PROVE  /\ side \in {"Bid", "Ask"} /\ RestedTypes(rested) /\ AtKeys(keys, lvls, rested)
           /\ \A price \in Prices :
                 /\ IsPlace(keys, price, Pos(price))
                 /\ Present(price) <=> price \in DOMAIN rested
                 /\ Present(price) => Pos(price) \in 1 .. Len(keys) /\ keys[Pos(price)] = price
<1>1. /\ side \in {"Bid", "Ask"} /\ RestedTypes(rested)
      /\ AtKeys(keys, lvls, LevelsOf(rested, held))
  BY InvIs
<1>2. LevelsOf(rested, held) = rested
  BY <1>1, LevelsKnown, SameLevels
<1>3. keys \in Seq(Prices) /\ Ascends(keys) /\ ToSet(keys) = DOMAIN rested
  BY <1>1, <1>2 DEF AtKeys
<1>4. Len(keys) \in Nat
  BY <1>3, LenProperties
<1>5. ASSUME NEW price \in Prices
      PROVE  /\ IsPlace(keys, price, Pos(price))
             /\ Present(price) <=> price \in DOMAIN rested
             /\ Present(price) => Pos(price) \in 1 .. Len(keys) /\ keys[Pos(price)] = price
  <2>1. IsPlace(keys, price, Pos(price)) /\ (Present(price) <=> price \in ToSet(keys))
    BY <1>3, PosFacts
  <2>2. Pos(price) \in 1 .. (Len(keys) + 1)
    BY <2>1 DEF IsPlace
  <2>3. Present(price) => Pos(price) \in 1 .. Len(keys) /\ keys[Pos(price)] = price
    <3> DEFINE i == Pos(price)
    <3>1. Present(price) => i <= Len(keys) /\ keys[i] = price
      BY DEF Present
    <3> HIDE DEF i
    <3>2. i \in 1 .. (Len(keys) + 1)
      BY <2>2 DEF i
    <3>3. Present(price) => i \in 1 .. Len(keys) /\ keys[i] = price
      BY <1>4, <3>1, <3>2
    <3>. QED BY <3>3 DEF i
  <2>. QED BY <1>3, <2>1, <2>3
<1>. QED BY <1>1, <1>2, <1>5

LEMMA RestInv ==
    ASSUME IInv, NEW price \in Prices, NEW t \in Totals, Rest(price, t)
    PROVE  IInv'
<1> DEFINE i == Pos(price)
<1>1. held = None /\ held' = held /\ side' = side /\ rested' = With(rested, price, t)
      /\ keys' = KeysWith(price) /\ lvls' = LevelsWith(price, t)
  BY DEF Rest
<1>2. /\ side \in {"Bid", "Ask"} /\ RestedTypes(rested) /\ AtKeys(keys, lvls, rested)
      /\ IsPlace(keys, price, i)
      /\ Present(price) <=> price \in DOMAIN rested
      /\ Present(price) => i \in 1 .. Len(keys) /\ keys[i] = price
  BY <1>1, IdleFacts
<1>3. RestedTypes(rested')
  BY <1>1, <1>2, WithTypes
<1>4. t \in LevelValues
  BY LevelTypes
<1>5. AtKeys(keys', lvls', rested')
  <2>1. CASE Present(price)
    <3>1. keys' = keys /\ lvls' = [lvls EXCEPT ![i] = t]
      BY <1>1, <2>1 DEF KeysWith, LevelsWith
    <3>2. AtKeys(keys, [lvls EXCEPT ![i] = t], With(rested, keys[i], t))
      BY <1>2, <1>4, <2>1, Sets
    <3>. QED BY <1>1, <1>2, <2>1, <3>1, <3>2
  <2>2. CASE ~Present(price)
    <3>1. keys' = InsertAt(keys, i, price) /\ lvls' = InsertAt(lvls, i, t)
      BY <1>1, <2>2 DEF KeysWith, LevelsWith
    <3>2. AtKeys(InsertAt(keys, i, price), InsertAt(lvls, i, t), With(rested, price, t))
      BY <1>2, <1>4, <2>2, Inserts
    <3>. QED BY <1>1, <3>1, <3>2
  <2>. QED BY <2>1, <2>2
<1>6. LevelsOf(rested', held') = rested'
  BY <1>1, <1>3, LevelsKnown, SameLevels
<1>. QED BY <1>1, <1>2, <1>3, <1>5, <1>6, InvNext

\* unlinkLevel keeps a level that has orders and removes one that has none.
LEMMA UnlinkFacts ==
    ASSUME IInv, held = None, NEW price \in Prices, HasLevel(price), NEW v \in LevelValues,
           UnlinkLevel(price, [lvls EXCEPT ![Pos(price)] = v])
    PROVE  AtKeys(keys', lvls', IF v = NoOrders THEN Without(rested, price)
                                ELSE With(rested, price, v))
<1> DEFINE i == Pos(price)
           l == [lvls EXCEPT ![i] = v]
<1>1. Present(price) /\ i \in 1 .. Len(keys) /\ keys[i] = price /\ AtKeys(keys, lvls, rested)
  BY IdleFacts DEF HasLevel
<1>2. AtKeys(keys, l, With(rested, price, v))
  BY <1>1, Sets
<1>3. l[i] = v
  <2>1. DOMAIN lvls = 1 .. Len(keys)
    BY <1>1, AtKeysFacts
  <2> HIDE DEF i
  <2>. QED BY <1>1, <2>1
<1>4. CASE v = NoOrders
  <2>1. keys' = RemoveAt(keys, i) /\ lvls' = RemoveAt(l, i)
    <3> HIDE DEF l
    <3>. QED BY <1>1, <1>3, <1>4 DEF UnlinkLevel, l
  <2>2. AtKeys(keys', lvls', Without(With(rested, price, v), price))
    BY <1>1, <1>2, <2>1, Removes
  <2>3. Without(With(rested, price, v), price) = Without(rested, price)
    BY DEF With, Without
  <2>. QED BY <1>4, <2>2, <2>3
<1>5. CASE v # NoOrders
  <2>1. keys' = keys /\ lvls' = l
    <3> HIDE DEF l
    <3>. QED BY <1>1, <1>3, <1>5 DEF UnlinkLevel, l
  <2>. QED BY <1>2, <1>5, <2>1
<1>. QED BY <1>4, <1>5

LEMMA ReduceInv ==
    ASSUME IInv, NEW price \in Prices, NEW t \in Totals, Reduce(price, t)
    PROVE  IInv'
<1>1. /\ held = None /\ held' = held /\ side' = side /\ rested' = With(rested, price, t)
      /\ HasLevel(price) /\ UnlinkLevel(price, [lvls EXCEPT ![Pos(price)] = t])
  BY DEF Reduce
<1>2. t \in LevelValues /\ t # NoOrders
  BY LevelTypes
<1>3. AtKeys(keys', lvls', rested')
  BY <1>1, <1>2, UnlinkFacts
<1>4. side \in {"Bid", "Ask"} /\ RestedTypes(rested')
  BY <1>1, IdleFacts, WithTypes
<1>5. LevelsOf(rested', held') = rested'
  BY <1>1, <1>4, LevelsKnown, SameLevels
<1>. QED BY <1>1, <1>3, <1>4, <1>5, InvNext

LEMMA DrainInv ==
    ASSUME IInv, NEW price \in Prices, Drain(price)
    PROVE  IInv'
<1>1. /\ held = None /\ held' = held /\ side' = side /\ rested' = Without(rested, price)
      /\ HasLevel(price) /\ UnlinkLevel(price, [lvls EXCEPT ![Pos(price)] = NoOrders])
  BY DEF Drain
<1>2. AtKeys(keys', lvls', rested')
  BY <1>1, LevelTypes, UnlinkFacts
<1>3. side \in {"Bid", "Ask"} /\ RestedTypes(rested)
  BY <1>1, IdleFacts
<1>4. RestedTypes(rested')
  BY <1>1, <1>3 DEF RestedTypes, Without
<1>5. LevelsOf(rested', held') = rested'
  BY <1>1, <1>4, LevelsKnown, SameLevels
<1>. QED BY <1>1, <1>2, <1>3, <1>4, <1>5, InvNext

LEMMA TakeLevelInv ==
    ASSUME IInv, TakeLevel
    PROVE  IInv'
<1> DEFINE b == BestPrice
           i == Pos(b)
<1>1. /\ held = None /\ keys # <<>> /\ Present(b)
      /\ held' = [price |-> b, at |-> i]
      /\ side' = side /\ keys' = keys /\ lvls' = lvls /\ rested' = rested
  BY DEF TakeLevel, HasLevel
<1>2. /\ side \in {"Bid", "Ask"} /\ RestedTypes(rested) /\ AtKeys(keys, lvls, rested)
  BY <1>1, IdleFacts
<1>3. b \in Prices
  <2>1. keys \in Seq(Prices)
    BY <1>2 DEF AtKeys
  <2>2. Len(keys) \in Nat \ {0} /\ \A n \in 1 .. Len(keys) : keys[n] \in Prices
    BY <1>1, <2>1, EmptySeq, ElementOfSeq
  <2>3. Last(keys) \in Prices /\ Head(keys) \in Prices
    BY <1>1, <2>1, <2>2, HeadTailProperties DEF Last
  <2>. QED BY <2>3 DEF BestPrice
<1>4. b \in DOMAIN rested /\ i \in 1 .. Len(keys) /\ keys[i] = b
  BY <1>1, <1>3, IdleFacts
<1> HIDE DEF b, i
<1>5. held' \in Pointers(keys') /\ held'.price = b /\ held'.at = i
  BY <1>1, <1>3, <1>4 DEF Pointers
<1>6. LevelsOf(rested', held') = rested'
  BY <1>1, <1>2, <1>4, <1>5, LevelsKnown, SameLevels
<1>. QED BY <1>1, <1>2, <1>4, <1>5, <1>6, InvNext

\* With a pointer, its place is that of its price, and its level has orders or is the
\* one that cross has drained.
LEMMA HeldFacts ==
    ASSUME IInv, held # None
    PROVE  /\ side \in {"Bid", "Ask"} /\ RestedTypes(rested) /\ held \in Pointers(keys)
           /\ held.price \in Prices /\ held.at \in 1 .. Len(keys)
           /\ keys[held.at] = held.price
           /\ held.price \in DOMAIN rested <=> lvls[held.at] # NoOrders
           /\ held.price \in DOMAIN rested => AtKeys(keys, lvls, rested)
           /\ held.price \notin DOMAIN rested =>
                  AtKeys(keys, lvls, With(rested, held.price, NoOrders))
<1>1. /\ side \in {"Bid", "Ask"} /\ RestedTypes(rested) /\ held \in Pointers(keys)
      /\ AtKeys(keys, lvls, LevelsOf(rested, held)) /\ keys[held.at] = held.price
  BY InvIs DEF HeldAtItsPrice
<1>2. held.price \in Prices /\ held.at \in 1 .. Len(keys)
  BY <1>1 DEF Pointers
<1>3. held.price \in DOMAIN rested => LevelsOf(rested, held) = rested
  BY <1>1, LevelsKnown, SameLevels
<1>4. held.price \notin DOMAIN rested => LevelsOf(rested, held) = With(rested, held.price, NoOrders)
  BY LevelsKnown
<1>5. lvls[held.at] = LevelsOf(rested, held)[held.price]
  BY <1>1, <1>2, AtKeysFacts
<1>6. held.price \in DOMAIN rested => lvls[held.at] \in Totals
  BY <1>1, <1>3, <1>5 DEF RestedTypes
<1>7. held.price \notin DOMAIN rested => lvls[held.at] = NoOrders
  BY <1>4, <1>5 DEF With
<1>. QED BY <1>1, <1>2, <1>3, <1>4, <1>6, <1>7, LevelTypes

LEMMA FillHeldInv ==
    ASSUME IInv, NEW t \in Totals, FillHeld(t)
    PROVE  IInv'
<1> DEFINE i == held.at
           price == held.price
<1>1. /\ held # None /\ lvls[i] # NoOrders /\ held' = held /\ side' = side /\ keys' = keys
      /\ lvls' = [lvls EXCEPT ![i] = t] /\ rested' = With(rested, price, t)
  BY DEF FillHeld
<1>2. /\ side \in {"Bid", "Ask"} /\ RestedTypes(rested) /\ held \in Pointers(keys)
      /\ price \in Prices /\ i \in 1 .. Len(keys) /\ keys[i] = price
      /\ AtKeys(keys, lvls, rested)
  BY <1>1, HeldFacts
<1>3. AtKeys(keys', lvls', rested')
  BY <1>1, <1>2, LevelTypes, Sets
<1>4. RestedTypes(rested') /\ held'.price \in DOMAIN rested'
  BY <1>1, <1>2, WithTypes
<1>5. LevelsOf(rested', held') = rested'
  BY <1>4, LevelsKnown, SameLevels
<1>. QED BY <1>1, <1>2, <1>3, <1>4, <1>5, InvNext

LEMMA DrainHeldInv ==
    ASSUME IInv, DrainHeld
    PROVE  IInv'
<1> DEFINE i == held.at
           price == held.price
<1>1. /\ held # None /\ lvls[i] # NoOrders /\ held' = held /\ side' = side /\ keys' = keys
      /\ lvls' = [lvls EXCEPT ![i] = NoOrders] /\ rested' = Without(rested, price)
  BY DEF DrainHeld
<1>2. /\ side \in {"Bid", "Ask"} /\ RestedTypes(rested) /\ held \in Pointers(keys)
      /\ price \in Prices /\ i \in 1 .. Len(keys) /\ keys[i] = price
      /\ AtKeys(keys, lvls, rested)
  BY <1>1, HeldFacts
<1>3. AtKeys(keys', lvls', With(rested, price, NoOrders))
  BY <1>1, <1>2, LevelTypes, Sets
<1>4. RestedTypes(rested') /\ held'.price = price /\ price \notin DOMAIN rested'
  BY <1>1, <1>2 DEF RestedTypes, Without
<1>5. LevelsOf(rested', held') = With(rested', price, NoOrders)
  BY <1>1, <1>4, LevelsKnown
<1>6. With(rested', price, NoOrders) = With(rested, price, NoOrders)
  BY <1>1 DEF With, Without
<1>. QED BY <1>1, <1>2, <1>3, <1>4, <1>5, <1>6, InvNext

LEMMA LeaveHeldInv ==
    ASSUME IInv, LeaveHeld
    PROVE  IInv'
<1> DEFINE i == held.at
           price == held.price
<1>1. /\ held # None /\ held' = None /\ side' = side /\ rested' = rested
      /\ UnlinkLevel(price, lvls)
  BY DEF LeaveHeld
<1>2. /\ side \in {"Bid", "Ask"} /\ RestedTypes(rested)
      /\ price \in Prices /\ i \in 1 .. Len(keys) /\ keys[i] = price
      /\ price \in DOMAIN rested <=> lvls[i] # NoOrders
  BY <1>1, HeldFacts
<1>3. Present(price) /\ Pos(price) = i
  <2>1. keys \in Seq(Prices) /\ Ascends(keys)
    BY InvIs DEF AtKeys
  <2>2. Pos(price) = i
    BY <1>2, <2>1, PosFacts
  <2>3. i <= Len(keys)
    <3>1. Len(keys) \in Nat
      BY <2>1, LenProperties
    <3> HIDE DEF i
    <3>. QED BY <1>2, <3>1
  <2>. QED BY <1>2, <2>2, <2>3 DEF Present
<1>4. AtKeys(keys', lvls', rested)
  <2>1. CASE lvls[i] = NoOrders
    <3>1. keys' = RemoveAt(keys, i) /\ lvls' = RemoveAt(lvls, i)
      BY <1>1, <1>3, <2>1 DEF UnlinkLevel
    <3>2. AtKeys(keys, lvls, With(rested, price, NoOrders)) /\ price \notin DOMAIN rested
      BY <1>1, <1>2, <2>1, HeldFacts
    <3>3. AtKeys(keys', lvls', Without(With(rested, price, NoOrders), price))
      BY <1>2, <3>1, <3>2, Removes
    <3>4. Without(With(rested, price, NoOrders), price) = rested
      <4>1. Without(With(rested, price, NoOrders), price) = [p \in DOMAIN rested |-> rested[p]]
        BY <3>2 DEF With, Without
      <4>. QED BY <1>2, <4>1, SameLevels
    <3>. QED BY <3>3, <3>4
  <2>2. CASE lvls[i] # NoOrders
    <3>1. keys' = keys /\ lvls' = lvls
      BY <1>1, <1>3, <2>2 DEF UnlinkLevel
    <3>2. AtKeys(keys, lvls, rested)
      BY <1>1, <1>2, <2>2, HeldFacts
    <3>. QED BY <3>1, <3>2
  <2>. QED BY <2>1, <2>2
<1>5. LevelsOf(rested', held') = rested'
  BY <1>1, <1>2, LevelsKnown, SameLevels
<1>. QED BY <1>1, <1>2, <1>4, <1>5, InvNext

LEMMA NextInv == IInv /\ [Next]_vars => IInv'
<1> SUFFICES ASSUME IInv, [Next]_vars PROVE IInv'
  OBVIOUS
<1>1. ASSUME NEW p \in Prices, NEW t \in Totals, Rest(p, t) PROVE IInv'
  BY <1>1, RestInv
<1>2. ASSUME NEW p \in Prices, NEW t \in Totals, Reduce(p, t) PROVE IInv'
  BY <1>2, ReduceInv
<1>3. ASSUME NEW p \in Prices, Drain(p) PROVE IInv'
  BY <1>3, DrainInv
<1>4. CASE TakeLevel
  BY <1>4, TakeLevelInv
<1>5. ASSUME NEW t \in Totals, FillHeld(t) PROVE IInv'
  BY <1>5, FillHeldInv
<1>6. CASE DrainHeld
  BY <1>6, DrainHeldInv
<1>7. CASE LeaveHeld
  BY <1>7, LeaveHeldInv
<1>8. CASE UNCHANGED vars
  BY <1>8 DEF vars, IInv, TypeOK, LevelsAtTheirKeys, HeldAtItsPrice, Ghost
<1>. QED BY <1>1, <1>2, <1>3, <1>4, <1>5, <1>6, <1>7, <1>8 DEF Next

-----------------------------------------------------------------------------
(* The queries *)

\* What the queries rely on: the keys' places, and the levels there.
LEMMA QueryFacts ==
    ASSUME IInv
    PROVE  /\ keys \in Seq(Prices) /\ Len(keys) \in Nat /\ Ascends(keys)
           /\ DOMAIN keys = 1 .. Len(keys)
           /\ \A i \in 1 .. Len(keys) : keys[i] \in Prices /\ keys[i] \in Int
           /\ \A i, j \in 1 .. Len(keys) : keys[i] = keys[j] => i = j
           /\ ToSet(keys) = DOMAIN rested \cup Ghost /\ Ghost \cap DOMAIN rested = {}
           /\ \A i \in 1 .. Len(keys) :
                  TotalOf(lvls[i]) = IF keys[i] \in Ghost THEN 0 ELSE rested[keys[i]]
           /\ \A i \in 1 .. Len(keys) : keys[i] \notin Ghost => keys[i] \in DOMAIN rested
           /\ \A p \in DOMAIN rested : rested[p] \in Nat
           /\ IsFiniteSet(DOMAIN rested) /\ Cardinality(DOMAIN rested \cup Ghost) = Len(keys)
<1>1. /\ AtKeys(keys, lvls, LevelsOf(rested, held)) /\ LevelsAtTheirKeys /\ RestedTypes(rested)
  BY InvIs DEF IInv
<1>2. /\ keys \in Seq(Prices) /\ Len(keys) \in Nat /\ Ascends(keys)
      /\ DOMAIN keys = 1 .. Len(keys)
      /\ \A i \in 1 .. Len(keys) : keys[i] \in Prices /\ keys[i] \in Int
      /\ \A i, j \in 1 .. Len(keys) : keys[i] = keys[j] => i = j
  BY <1>1, AtKeysFacts DEF AtKeys
<1>3. /\ ToSet(keys) = DOMAIN rested \cup Ghost /\ Ghost \cap DOMAIN rested = {}
  BY <1>1 DEF LevelsAtTheirKeys, Ghost
<1>4. \A p \in DOMAIN rested : rested[p] \in Totals /\ rested[p] \in Nat
  BY <1>1, TotalsAssumption DEF RestedTypes
<1>5. \A i \in 1 .. Len(keys) : keys[i] \notin Ghost => keys[i] \in DOMAIN rested
  BY <1>2, <1>3 DEF ToSet
<1>6. ASSUME NEW i \in 1 .. Len(keys)
      PROVE  TotalOf(lvls[i]) = IF keys[i] \in Ghost THEN 0 ELSE rested[keys[i]]
  <2>1. lvls[i] = IF keys[i] \in Ghost THEN NoOrders ELSE rested[keys[i]]
    BY <1>1 DEF LevelsAtTheirKeys
  <2>2. keys[i] \notin Ghost => rested[keys[i]] # NoOrders
    BY <1>4, <1>5, LevelTypes
  <2>. QED BY <2>1, <2>2 DEF TotalOf
<1>7. IsFiniteSet(ToSet(keys)) /\ Cardinality(ToSet(keys)) = Len(keys)
  <2> DEFINE f == [i \in 1 .. Len(keys) |-> keys[i]]
  <2>1. ToSet(keys) = {keys[i] : i \in 1 .. Len(keys)}
    BY <1>2 DEF ToSet
  <2>2. f \in [1 .. Len(keys) -> ToSet(keys)]
    BY <2>1
  <2>3. IsInjective(f)
    BY <1>2 DEF IsInjective
  <2>4. \A t \in ToSet(keys) : \E i \in 1 .. Len(keys) : f[i] = t
    BY <2>1
  <2>5. ExistsBijection(1 .. Len(keys), ToSet(keys))
    <3> HIDE DEF f
    <3>. QED BY <2>2, <2>3, <2>4 DEF ExistsBijection, Bijection, Injection, Surjection
  <2>6. IsFiniteSet(1 .. Len(keys)) /\ Cardinality(1 .. Len(keys)) = Len(keys)
    <3> DEFINE M == Len(keys)
    <3>1. M \in Nat
      BY <1>2
    <3> HIDE DEF M
    <3>2. IsFiniteSet(1 .. M) /\ Cardinality(1 .. M) = IF 1 <= M THEN M - 1 + 1 ELSE 0
      BY <3>1, FS_Interval
    <3>3. IsFiniteSet(1 .. M) /\ Cardinality(1 .. M) = M
      BY <3>1, <3>2
    <3>. QED BY <3>3 DEF M
  <2>. QED BY <2>5, <2>6, FS_Bijection
<1>8. IsFiniteSet(DOMAIN rested)
  BY <1>3, <1>7, FS_Subset
<1>. QED BY <1>2, <1>3, <1>4, <1>5, <1>6, <1>7, <1>8

\* From the key the search finds the walk takes every level of the range, each once.
LEMMA SumsExact ==
    ASSUME IInv, NEW lo \in Int, NEW hi \in Int
    PROVE  SumRange(lo, hi) =
               SumFunctionOnSet(rested, {p \in DOMAIN rested : lo <= p /\ p <= hi})
<1> DEFINE N == Len(keys)
           i0 == Search(lo)
           range == {p \in DOMAIN rested : lo <= p /\ p <= hi}
           taken == {i \in i0 .. N : \A k \in i0 .. i : keys[k] <= hi}
           tot == [i \in taken |-> TotalOf(lvls[i])]
           part == [i \in taken |-> {keys[i]} \cap DOMAIN rested]
<1>1. /\ N \in Nat /\ Ascends(keys) /\ keys \in Seq(Prices) /\ DOMAIN keys = 1 .. N
      /\ \A i \in 1 .. N : keys[i] \in Int
      /\ \A i, j \in 1 .. N : keys[i] = keys[j] => i = j
      /\ ToSet(keys) = DOMAIN rested \cup Ghost /\ Ghost \cap DOMAIN rested = {}
      /\ \A i \in 1 .. N : TotalOf(lvls[i]) = IF keys[i] \in Ghost THEN 0 ELSE rested[keys[i]]
      /\ \A i \in 1 .. N : keys[i] \notin Ghost => keys[i] \in DOMAIN rested
      /\ \A p \in DOMAIN rested : rested[p] \in Int
      /\ IsFiniteSet(DOMAIN rested)
  BY QueryFacts
<1>2. /\ i0 \in 1 .. (N + 1)
      /\ \A n \in 1 .. (i0 - 1) : keys[n] < lo
      /\ \A n \in i0 .. N : ~(keys[n] < lo)
  BY <1>1, PricesAssumption, SearchFinds DEF IsPlace
<1>3. SumRange(lo, hi) = SumFunctionOnSet(tot, taken)
  BY DEF SumRange, TotalsAt
<1> HIDE DEF i0, N, tot
<1>4. \A i \in 1 .. N : i \in taken <=> (lo <= keys[i] /\ keys[i] <= hi)
  <2> TAKE i \in 1 .. N
  <2>1. i \in i0 .. N <=> lo <= keys[i]
    <3>1. i \in 1 .. (i0 - 1) \/ i \in i0 .. N
      BY <1>1, <1>2
    <3>2. ~(i \in 1 .. (i0 - 1) /\ i \in i0 .. N)
      BY <1>1, <1>2
    <3>. QED BY <1>1, <1>2, <3>1, <3>2
  <2>2. ASSUME i \in i0 .. N, keys[i] <= hi, NEW k \in i0 .. i PROVE keys[k] <= hi
    <3>1. k \in 1 .. N /\ (k = i \/ k < i)
      BY <1>1, <1>2, <2>2
    <3>2. k < i => keys[k] < keys[i]
      BY <1>1, <3>1 DEF Ascends, N
    <3>. QED BY <1>1, <2>2, <3>1, <3>2
  <2>3. i \in i0 .. N => i \in i0 .. i
    BY <1>2
  <2>. QED BY <2>1, <2>2, <2>3
<1>5. taken \subseteq 1 .. N /\ IsFiniteSet(taken)
  <2>1. taken \subseteq 1 .. N
    BY <1>1, <1>2
  <2>2. IsFiniteSet(1 .. N)
    BY <1>1, FS_Interval
  <2>. QED BY <2>1, <2>2, FS_Subset
<1> HIDE DEF taken
<1>6. ASSUME NEW i \in taken
      PROVE  part[i] \subseteq range /\ tot[i] = SumFunctionOnSet(rested, part[i])
  <2>1. i \in 1 .. N /\ lo <= keys[i] /\ keys[i] <= hi /\ tot[i] = TotalOf(lvls[i])
    BY <1>4, <1>5 DEF tot
  <2>2. CASE keys[i] \in Ghost
    <3>1. part[i] = {} /\ tot[i] = 0
      BY <1>1, <2>1, <2>2
    <3>. QED BY <3>1, SumOfNone
  <2>3. CASE keys[i] \notin Ghost
    <3>1. keys[i] \in DOMAIN rested /\ part[i] = {keys[i]} /\ tot[i] = rested[keys[i]]
      BY <1>1, <2>1, <2>3
    <3>2. SumFunctionOnSet(rested, {keys[i]}) = rested[keys[i]]
      <4> DEFINE p == keys[i]
      <4>1. p \in DOMAIN rested /\ rested[p] \in Int
        BY <1>1, <3>1
      <4>2. IsFiniteSet({}) /\ {} \cup {p} = {p}
        BY FS_EmptySet
      <4> HIDE DEF p
      <4>3. \A y \in {} \cup {p} : rested[y] \in Int
        BY <4>1
      <4>4. SumFunctionOnSet(rested, {} \cup {p}) = SumFunctionOnSet(rested, {}) + rested[p]
        BY <4>2, <4>3, SumWith
      <4>. QED BY <4>1, <4>2, <4>4, SumOfNone DEF p
    <3>. QED BY <2>1, <3>1, <3>2
  <2>. QED BY <2>2, <2>3
<1>7. PartSums(rested, tot, range, taken, part)
  <2>1. \A i, j \in taken : i # j => part[i] \cap part[j] = {}
    BY <1>1, <1>5
  <2>2. IsFiniteSet(range) /\ \A p \in range : rested[p] \in Int
    BY <1>1, FS_Subset
  <2> HIDE DEF part, range
  <2>. QED BY <1>5, <1>6, <2>1, <2>2 DEF PartSums
<1>8. AllParts(taken, part) = range
  <2>1. ASSUME NEW p \in range PROVE \E i \in taken : p \in part[i]
    <3>1. PICK i \in 1 .. N : keys[i] = p
      BY <1>1 DEF ToSet
    <3>. QED BY <1>4, <3>1
  <2> HIDE DEF part, range
  <2>. QED BY <1>6, <2>1 DEF AllParts
<1>9. SumFunctionOnSet(tot, taken) = SumFunctionOnSet(rested, AllParts(taken, part))
  <2> HIDE DEF part, range
  <2>. QED BY <1>7, SumOfParts
<1>. QED BY <1>3, <1>8, <1>9

\* The i-th best key is the i-th from the side's end.
LEMMA DepthExact ==
    ASSUME IInv, NEW n \in Nat
    PROVE  LET d == Depth(n)
               listed == {d[i].price : i \in 1 .. Len(d)}
           IN  /\ Len(d) = Min({n, Cardinality(DOMAIN rested \cup Ghost)})
               /\ \A i, j \in 1 .. Len(d) : i < j => Better(d[i].price, d[j].price)
               /\ \A i \in 1 .. Len(d) :
                     d[i].qty = IF d[i].price \in Ghost THEN 0 ELSE rested[d[i].price]
               /\ \A p \in (DOMAIN rested) \ listed, q \in listed : Better(q, p)
               /\ d # <<>> => BestPrice = d[1].price
<1> DEFINE N == Len(keys)
           d == Depth(n)
           m == Min({n, N})
           listed == {d[i].price : i \in 1 .. Len(d)}
           All == IF side = "Ask" THEN Listed ELSE Reverse(Listed)
           place(i) == IF side = "Ask" THEN i ELSE (N - i) + 1
<1>1. /\ N \in Nat /\ Ascends(keys) /\ keys \in Seq(Prices) /\ DOMAIN keys = 1 .. N
      /\ \A i \in 1 .. N : keys[i] \in Int
      /\ ToSet(keys) = DOMAIN rested \cup Ghost
      /\ \A i \in 1 .. N : TotalOf(lvls[i]) = IF keys[i] \in Ghost THEN 0 ELSE rested[keys[i]]
      /\ Cardinality(DOMAIN rested \cup Ghost) = N
      /\ side \in {"Bid", "Ask"}
  BY QueryFacts, InvIs
<1>2. m \in Nat /\ m <= N /\ m <= n /\ (m = N \/ m = n)
  <2>1. (m = n \/ m = N) /\ m <= n /\ m <= N
    <3>1. n \in Int /\ N \in Int
      BY <1>1
    <3> HIDE DEF N
    <3>. QED BY <3>1, MinOfTwo
  <2> HIDE DEF m
  <2>. QED BY <1>1, <2>1
<1>3. /\ \A i \in 1 .. N : place(i) \in 1 .. N /\ place(place(i)) = i
      /\ \A i, j \in 1 .. N : i < j => Better(keys[place(i)], keys[place(j)])
  <2>1. \A i \in 1 .. N : place(i) \in 1 .. N /\ place(place(i)) = i
    BY <1>1
  <2>2. ASSUME NEW i \in 1 .. N, NEW j \in 1 .. N, i < j
        PROVE  Better(keys[place(i)], keys[place(j)])
    <3>1. CASE side = "Ask"
      <4>1. place(i) = i /\ place(j) = j /\ side # "Bid"
        BY <3>1
      <4>2. keys[i] < keys[j]
        BY <1>1, <2>2 DEF Ascends
      <4>. QED BY <4>1, <4>2 DEF Better
    <3>2. CASE side = "Bid"
      <4> DEFINE a == place(i)
                 b == place(j)
      <4>1. a \in 1 .. N /\ b \in 1 .. N /\ b < a
        BY <1>1, <2>2, <3>2
      <4> HIDE DEF a, b, N
      <4>2. keys[b] < keys[a] /\ keys[a] \in Int /\ keys[b] \in Int
        BY <1>1, <4>1 DEF Ascends, N
      <4>3. keys[a] > keys[b]
        BY <4>2
      <4>. QED BY <3>2, <4>3 DEF Better, a, b, N
    <3>. QED BY <1>1, <3>1, <3>2
  <2>. QED BY <2>1, <2>2
<1>4. \A i \in 1 .. N : All[i] = [price |-> keys[place(i)], qty |-> TotalOf(lvls[place(i)])]
  <2>1. /\ \A i \in 1 .. N : Listed[i] = [price |-> keys[i], qty |-> TotalOf(lvls[i])]
        /\ DOMAIN Listed = 1 .. N
    BY DEF Listed
  <2>2. Len(Listed) = N
    BY <1>1 DEF Listed
  <2>3. ASSUME NEW i \in 1 .. N, side # "Ask" PROVE All[i] = Listed[place(i)]
    BY <2>2, <2>3 DEF Reverse
  <2> HIDE DEF N
  <2>. QED BY <1>3, <2>1, <2>3
<1>5. Len(d) = m /\ \A i \in 1 .. m : d[i] = All[i]
  <2> DEFINE S == {All[i] : i \in 1 .. m}
  <2>1. \A i \in 1 .. m : All[i] \in S
    OBVIOUS
  <2>2. d = SubSeq(All, 1, m)
    BY DEF Depth
  <2> HIDE DEF S, All, d, m
  <2>3. Len(d) = (IF 1 <= m THEN m - 1 + 1 ELSE 0) /\ \A i \in 1 .. (m - 1 + 1) : d[i] = All[1 + i - 1]
    BY <1>2, <2>1, <2>2, SubSeqProperties
  <2>. QED BY <1>2, <2>3
<1>6. ASSUME NEW i \in 1 .. m
      PROVE  /\ i \in 1 .. N /\ place(i) \in 1 .. N
             /\ d[i].price = keys[place(i)] /\ d[i].qty = TotalOf(lvls[place(i)])
  <2>1. i \in 1 .. N /\ d[i] = All[i]
    <3>1. i \in 1 .. N
      <4> HIDE DEF d, All, m, N, listed, place
      <4>. QED BY <1>1, <1>2
    <3>2. d[i] = All[i]
      <4> HIDE DEF d, All, m, N, listed, place
      <4>. QED BY <1>5
    <3>. QED BY <3>1, <3>2
  <2>2. place(i) \in 1 .. N
    BY <1>3, <2>1
  <2>3. d[i] = [price |-> keys[place(i)], qty |-> TotalOf(lvls[place(i)])]
    <3> HIDE DEF d, All, m, N, place
    <3>. QED BY <1>4, <2>1
  <2> HIDE DEF d, All, m, N, place
  <2>. QED BY <2>1, <2>2, <2>3
<1>7. d # <<>> => 1 \in 1 .. m
  <2>1. m = 0 => d = <<>>
    <3>1. d = SubSeq(All, 1, m)
      BY DEF Depth
    <3> HIDE DEF d, All, m
    <3>. QED BY <3>1, SubSeqEmpty
  <2> HIDE DEF m, d
  <2>. QED BY <1>2, <2>1
<1>8. 1 \in 1 .. m => BestPrice = d[1].price
  <2> SUFFICES ASSUME 1 \in 1 .. m PROVE BestPrice = d[1].price
    OBVIOUS
  <2>1. d[1].price = keys[place(1)] /\ 1 \in 1 .. N
    BY <1>6
  <2>2. Last(keys) = keys[N] /\ Head(keys) = keys[1]
    BY <1>1, <2>1 DEF Last
  <2>3. place(1) = IF side = "Ask" THEN 1 ELSE N
    BY <1>1
  <2> HIDE DEF d, place, N
  <2>. QED BY <1>1, <2>1, <2>2, <2>3 DEF BestPrice
<1> HIDE DEF d, All, m, N, place
<1>9. Len(d) = Min({n, Cardinality(DOMAIN rested \cup Ghost)})
  BY <1>1, <1>5 DEF m
<1>10. \A i, j \in 1 .. Len(d) : i < j => Better(d[i].price, d[j].price)
  BY <1>3, <1>5, <1>6
<1>11. \A i \in 1 .. Len(d) :
           d[i].qty = IF d[i].price \in Ghost THEN 0 ELSE rested[d[i].price]
  BY <1>1, <1>5, <1>6
<1>12. ASSUME NEW p \in (DOMAIN rested) \ listed, NEW q \in listed PROVE Better(q, p)
  <2>1. PICK i \in 1 .. m : q = keys[place(i)]
    BY <1>5, <1>6
  <2>2. PICK j \in 1 .. N : p = keys[j]
    BY <1>1 DEF ToSet
  <2>3. place(j) \in 1 .. N /\ place(place(j)) = j
    BY <1>3
  <2>4. place(j) \notin 1 .. m
    BY <1>5, <1>6, <2>2, <2>3
  <2>5. i \in 1 .. N /\ i < place(j)
    BY <1>1, <1>2, <1>6, <2>3, <2>4
  <2>. QED BY <1>3, <2>1, <2>2, <2>3, <2>5
<1>. QED BY <1>7, <1>8, <1>9, <1>10, <1>11, <1>12 DEF d

-----------------------------------------------------------------------------
(* The theorems *)

\* The tree's invariant holds in every state, while cross holds a level and when not.
THEOREM TreeInvariant == Spec => []IInv
<1>1. Init => IInv
  BY InitInv
<1>2. IInv /\ [Next]_vars => IInv'
  BY NextInv
<1>. QED BY <1>1, <1>2, PTL DEF Spec

\* The slices keep their types and one length.
THEOREM TypeCorrect == Spec => []TypeOK
<1>1. IInv => TypeOK
  BY DEF IInv
<1>. QED BY <1>1, TreeInvariant, PTL

\* The keys ascend, and at each key's place is that price's level.
THEOREM SlicesInStep == Spec => []LevelsAtTheirKeys
<1>1. IInv => LevelsAtTheirKeys
  BY DEF IInv
<1>. QED BY <1>1, TreeInvariant, PTL

\* The pointer that cross keeps over many calls of the sink stays on the level of the
\* price it was taken for, also when that level is drained and not yet unlinked.
THEOREM PointerStaysOnLevel == Spec => []HeldAtItsPrice
<1>1. IInv => HeldAtItsPrice
  BY DEF IInv
<1>. QED BY <1>1, TreeInvariant, PTL

\* The FOK check's sum, by binary search and walk, is the sum over the range.
THEOREM SumsOverRanges == Spec => []RangeSumsExact
<1>1. IInv => RangeSumsExact
  <2> SUFFICES ASSUME IInv, NEW lo \in Bounds, NEW hi \in Bounds
               PROVE  SumRange(lo, hi) =
                          SumFunctionOnSet(rested, {p \in DOMAIN rested : lo <= p /\ p <= hi})
    BY DEF RangeSumsExact
  <2>1. lo \in Int /\ hi \in Int
    BY BoundsAssumption
  <2>. QED BY <2>1, SumsExact
<1>. QED BY <1>1, TreeInvariant, PTL

\* depth lists the best n prices with their totals, best first.
THEOREM DepthListsBest == Spec => []DepthIsBestFirst
<1>1. IInv => DepthIsBestFirst
  <2> SUFFICES ASSUME IInv, NEW n \in 0 .. (Len(keys) + 1)
               PROVE  LET d == Depth(n)
                          listed == {d[i].price : i \in 1 .. Len(d)}
                      IN  /\ Len(d) = Min({n, Cardinality(DOMAIN rested \cup Ghost)})
                          /\ \A i, j \in 1 .. Len(d) : i < j => Better(d[i].price, d[j].price)
                          /\ \A i \in 1 .. Len(d) :
                                d[i].qty = IF d[i].price \in Ghost THEN 0 ELSE rested[d[i].price]
                          /\ \A p \in (DOMAIN rested) \ listed, q \in listed : Better(q, p)
                          /\ d # <<>> => BestPrice = d[1].price
    BY DEF DepthIsBestFirst
  <2>1. n \in Nat
    BY QueryFacts
  <2>. QED BY <2>1, DepthExact
<1>. QED BY <1>1, TreeInvariant, PTL

=============================================================================
