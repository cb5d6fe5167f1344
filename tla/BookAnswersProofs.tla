-------------------------- MODULE BookAnswersProofs --------------------------
(***************************************************************************)
(* What BookAnswers does to a book: a book in order stays in order, within *)
(* its limit, and its listing put back one order at a time is the book     *)
(* again.                                                                  *)
(***************************************************************************)
EXTENDS BookAnswers, DataFacts

-----------------------------------------------------------------------------
(* Sequences *)

\* A sequence, whatever its elements are.
IsSeq(q) == q \in Seq({q[i] : i \in 1 .. Len(q)})

\* A sequence over some set is one.
LEMMA SeqIsSeq ==
    ASSUME NEW E, NEW q \in Seq(E)
    PROVE  IsSeq(q) /\ Len(q) \in Nat
BY DEF IsSeq

\* Two sequences in a row are one.
LEMMA ConcatIsSeq ==
    ASSUME NEW p, NEW q, IsSeq(p), IsSeq(q)
    PROVE  /\ IsSeq(p \o q) /\ Len(p \o q) = Len(p) + Len(q)
           /\ \A i \in 1 .. Len(p) : (p \o q)[i] = p[i]
           /\ \A i \in 1 .. Len(q) : (p \o q)[Len(p) + i] = q[i]
<1> DEFINE E == {p[i] : i \in 1 .. Len(p)} \cup {q[i] : i \in 1 .. Len(q)}
<1>1. p \in Seq(E) /\ q \in Seq(E)
  BY DEF IsSeq
<1> HIDE DEF E
<1>2. IsSeq(p \o q)
  <2>1. p \o q \in Seq(E)
    BY <1>1
  <2>. QED BY <2>1, SeqIsSeq
<1>3. /\ Len(p \o q) = Len(p) + Len(q)
      /\ \A i \in 1 .. (Len(p) + Len(q)) :
            (p \o q)[i] = IF i <= Len(p) THEN p[i] ELSE q[i - Len(p)]
  BY <1>1, ConcatProperties
<1>4. Len(p) \in Nat /\ Len(q) \in Nat
  BY <1>1
<1>5. \A i \in 1 .. Len(q) : (p \o q)[Len(p) + i] = q[i]
  <2> TAKE i \in 1 .. Len(q)
  <2>1. Len(p) + i \in 1 .. (Len(p) + Len(q)) /\ ~(Len(p) + i <= Len(p)) /\ Len(p) + i - Len(p) = i
    BY <1>4
  <2>. QED BY <2>1, <1>3
<1>6. \A i \in 1 .. Len(p) : (p \o q)[i] = p[i]
  BY <1>3, <1>4
<1>. QED BY <1>2, <1>3, <1>5, <1>6

\* So is one with an element behind.
LEMMA AppendIsSeq ==
    ASSUME NEW q, IsSeq(q), NEW x
    PROVE  /\ IsSeq(Append(q, x)) /\ Len(Append(q, x)) = Len(q) + 1
           /\ \A i \in 1 .. Len(q) : Append(q, x)[i] = q[i]
           /\ Append(q, x)[Len(q) + 1] = x
<1> DEFINE E == {q[i] : i \in 1 .. Len(q)} \cup {x}
<1>1. q \in Seq(E) /\ x \in E
  BY DEF IsSeq
<1> HIDE DEF E
<1>2. IsSeq(Append(q, x))
  <2>1. Append(q, x) \in Seq(E)
    BY <1>1
  <2>. QED BY <2>1, SeqIsSeq
<1>3. /\ Len(Append(q, x)) = Len(q) + 1
      /\ \A i \in 1 .. Len(q) : Append(q, x)[i] = q[i]
      /\ Append(q, x)[Len(q) + 1] = x
  BY <1>1, AppendProperties
<1>. QED BY <1>2, <1>3

\* Sequences of one length with the same elements are one sequence.
LEMMA SameSeq ==
    ASSUME NEW p, NEW q, IsSeq(p), IsSeq(q), Len(p) = Len(q),
           \A i \in 1 .. Len(p) : p[i] = q[i]
    PROVE  p = q
<1> DEFINE E == {p[i] : i \in 1 .. Len(p)} \cup {q[i] : i \in 1 .. Len(q)}
<1>1. p \in Seq(E) /\ q \in Seq(E)
  BY DEF IsSeq
<1> HIDE DEF E
<1>. QED BY <1>1, SeqEqual

-----------------------------------------------------------------------------
(* Keep *)

\* r is q without the elements outside S: f says where each element of r was in q.
Embeds(f, r, q, S) ==
    /\ f \in [1 .. Len(r) -> 1 .. Len(q)]
    /\ \A i, j \in 1 .. Len(r) : i < j => f[i] < f[j]
    /\ \A i \in 1 .. Len(r) : r[i] = q[f[i]] /\ r[i] \in S
    /\ \A k \in 1 .. Len(q) : q[k] \in S => \E i \in 1 .. Len(r) : f[i] = k
KeptOf(r, q, S) ==
    /\ Len(r) <= Len(q)
    /\ (\E k \in 1 .. Len(q) : q[k] \notin S) => Len(r) < Len(q)
    /\ \E f : Embeds(f, r, q, S)

\* One more element kept.
LEMMA KeepMore ==
    ASSUME NEW X, NEW q \in Seq(X), NEW S, NEW n \in 1 .. Len(q), NEW r \in Seq(X),
           KeptOf(r, SubSeq(q, 1, n - 1), S), q[n] \in S
    PROVE  KeptOf(Append(r, q[n]), SubSeq(q, 1, n), S)
<1> DEFINE p == SubSeq(q, 1, n - 1)
           p1 == SubSeq(q, 1, n)
           x == q[n]
           r1 == Append(r, x)
<1>1. p \in Seq(X) /\ p1 \in Seq(X) /\ Len(p) = n - 1 /\ Len(p1) = n
  OBVIOUS
<1>2. (\A k \in 1 .. (n - 1) : p1[k] = p[k]) /\ p1[n] = x /\ x \in X
  OBVIOUS
<1>3. /\ r1 \in Seq(X) /\ Len(r1) = Len(r) + 1 /\ Len(r) \in Nat
      /\ r1[Len(r) + 1] = x /\ \A i \in 1 .. Len(r) : r1[i] = r[i]
  BY <1>2
<1>4. KeptOf(r, p, S) /\ x \in S
  OBVIOUS
<1> HIDE DEF p, p1, r1, x
<1>5. PICK f : Embeds(f, r, p, S)
  BY <1>4 DEF KeptOf
<1> DEFINE m == Len(r)
           g == [i \in 1 .. (m + 1) |-> IF i <= m THEN f[i] ELSE n]
<1>6. f \in [1 .. m -> 1 .. (n - 1)] /\ n \in Nat /\ m \in Nat
  BY <1>1, <1>3, <1>5 DEF Embeds
<1>7. g \in [1 .. (m + 1) -> 1 .. n] /\ g[m + 1] = n /\ \A i \in 1 .. m : g[i] = f[i]
  BY <1>6
<1> HIDE DEF g
<1>8. \A i, j \in 1 .. (m + 1) : i < j => g[i] < g[j]
  <2> TAKE i, j \in 1 .. (m + 1)
  <2> HAVE i < j
  <2>1. i \in 1 .. m /\ g[i] = f[i] /\ f[i] \in 1 .. (n - 1)
    BY <1>6, <1>7
  <2>2. CASE j = m + 1
    BY <2>1, <2>2, <1>7, <1>6
  <2>3. CASE j \in 1 .. m
    <3>1. f[i] < f[j]
      BY <1>5, <2>1, <2>3 DEF Embeds
    <3>2. g[j] = f[j]
      BY <2>3, <1>7
    <3>. QED BY <2>1, <3>1, <3>2
  <2>4. j = m + 1 \/ j \in 1 .. m
    <3> HIDE DEF m
    <3>. QED BY <1>6
  <2>. QED BY <2>2, <2>3, <2>4
<1>9. \A i \in 1 .. (m + 1) : r1[i] = p1[g[i]] /\ r1[i] \in S
  <2> TAKE i \in 1 .. (m + 1)
  <2>1. CASE i = m + 1
    BY <2>1, <1>2, <1>3, <1>4, <1>7
  <2>2. CASE i \in 1 .. m
    <3>1. r[i] = p[f[i]] /\ r[i] \in S
      BY <1>5, <2>2 DEF Embeds
    <3>2. p1[f[i]] = p[f[i]]
      BY <1>2, <1>6, <2>2
    <3>. QED BY <2>2, <3>1, <3>2, <1>3, <1>7
  <2>. QED BY <1>6, <2>1, <2>2
<1>10. \A k \in 1 .. n : p1[k] \in S => \E i \in 1 .. (m + 1) : g[i] = k
  <2> TAKE k \in 1 .. n
  <2> HAVE p1[k] \in S
  <2>1. CASE k = n
    BY <2>1, <1>7, <1>6
  <2>2. CASE k \in 1 .. (n - 1)
    <3>1. PICK i \in 1 .. m : f[i] = k
      BY <2>2, <1>1, <1>2, <1>5 DEF Embeds
    <3>. QED BY <3>1, <1>7, <1>6
  <2>. QED BY <1>6, <2>1, <2>2
<1>11. Embeds(g, r1, p1, S)
  BY <1>1, <1>3, <1>7, <1>8, <1>9, <1>10 DEF Embeds
<1>12. (\E k \in 1 .. n : p1[k] \notin S) => m + 1 < n
  <2>1. ASSUME NEW k \in 1 .. n, p1[k] \notin S PROVE m + 1 < n
    <3>1. k \in 1 .. (n - 1) /\ p[k] \notin S
      BY <2>1, <1>2, <1>4
    <3>2. m < n - 1
      BY <3>1, <1>1, <1>4 DEF KeptOf
    <3>. QED BY <3>2, <1>6
  <2>. QED BY <2>1
<1>13. m <= n - 1
  BY <1>1, <1>4 DEF KeptOf
<1>14. KeptOf(r1, p1, S)
  <2>1. m + 1 <= n
    BY <1>6, <1>13
  <2>2. Len(r1) = m + 1 /\ Len(p1) = n
    BY <1>1, <1>3
  <2> HIDE DEF m
  <2>. QED BY <2>1, <2>2, <1>11, <1>12 DEF KeptOf
<1>. QED BY <1>14 DEF r1, p1, x

\* One more element dropped.
LEMMA KeepLess ==
    ASSUME NEW X, NEW q \in Seq(X), NEW S, NEW n \in 1 .. Len(q), NEW r \in Seq(X),
           KeptOf(r, SubSeq(q, 1, n - 1), S), q[n] \notin S
    PROVE  KeptOf(r, SubSeq(q, 1, n), S)
<1> DEFINE p == SubSeq(q, 1, n - 1)
           p1 == SubSeq(q, 1, n)
<1>1. p \in Seq(X) /\ p1 \in Seq(X) /\ Len(p) = n - 1 /\ Len(p1) = n
  OBVIOUS
<1>2. (\A k \in 1 .. (n - 1) : p1[k] = p[k]) /\ p1[n] = q[n]
  OBVIOUS
<1>3. KeptOf(r, p, S) /\ q[n] \notin S /\ n \in Nat /\ Len(r) \in Nat
  OBVIOUS
<1> HIDE DEF p, p1
<1>4. PICK f : Embeds(f, r, p, S)
  BY <1>3 DEF KeptOf
<1>5. Embeds(f, r, p1, S)
  <2>1. f \in [1 .. Len(r) -> 1 .. (n - 1)]
    BY <1>1, <1>4 DEF Embeds
  <2>2. f \in [1 .. Len(r) -> 1 .. n] /\ \A i \in 1 .. Len(r) : p1[f[i]] = p[f[i]]
    BY <2>1, <1>2, <1>3
  <2>3. \A k \in 1 .. n : p1[k] \in S => k \in 1 .. (n - 1) /\ p[k] \in S
    BY <1>2, <1>3
  <2>4. \A k \in 1 .. n : p1[k] \in S => \E i \in 1 .. Len(r) : f[i] = k
    BY <2>3, <1>1, <1>4 DEF Embeds
  <2>. QED BY <1>1, <1>4, <2>2, <2>4 DEF Embeds
<1>6. Len(r) < n
  BY <1>1, <1>3 DEF KeptOf
<1>. QED BY <1>1, <1>3, <1>5, <1>6 DEF KeptOf, p1

\* Keep keeps the elements of S, in their order.
LEMMA KeepFacts ==
    ASSUME NEW X, NEW q \in Seq(X), NEW S
    PROVE  Keep(q, S) \in Seq(X) /\ KeptOf(Keep(q, S), q, S)
<1> DEFINE n == Len(q)
           step == [a \in (1 .. n) \X Seq(X) |->
                       IF q[a[1]] \in S THEN Append(a[2], q[a[1]]) ELSE a[2]]
           Kept(f) == f = [i \in 0 .. Len(q) |->
                             IF i = 0 THEN <<>>
                             ELSE IF q[i] \in S THEN Append(f[i - 1], q[i]) ELSE f[i - 1]]
           kept == CHOOSE f : Kept(f)
<1>1. n \in Nat /\ \A i \in 1 .. n : q[i] \in X
  OBVIOUS
<1>2. step \in [(1 .. n) \X Seq(X) -> Seq(X)]
  BY <1>1
<1>3. PICK f : Steps(f, n, Seq(X), <<>>, step)
  <2> HIDE DEF step, n
  <2>1. <<>> \in Seq(X)
    OBVIOUS
  <2>. QED BY <1>1, <1>2, <2>1, StepsExist
<1>4. \A i \in 1 .. n : f[i - 1] \in Seq(X) /\ step[<<i, f[i - 1]>>] =
                           IF q[i] \in S THEN Append(f[i - 1], q[i]) ELSE f[i - 1]
  BY <1>3, <1>1 DEF Steps
<1>5. Kept(f)
  <2>1. f \in [0 .. n -> Seq(X)] /\ f[0] = <<>>
    BY <1>3 DEF Steps
  <2>2. \A i \in 1 .. n : f[i] = IF q[i] \in S THEN Append(f[i - 1], q[i]) ELSE f[i - 1]
    BY <1>3, <1>4 DEF Steps
  <2> DEFINE G == [i \in 0 .. n |-> IF i = 0 THEN <<>>
                                   ELSE IF q[i] \in S THEN Append(f[i - 1], q[i]) ELSE f[i - 1]]
  <2>3. \A i \in 0 .. n : i = 0 \/ i \in 1 .. n
    BY <1>1
  <2>4. \A i \in 0 .. n : f[i] = G[i]
    <3> TAKE i \in 0 .. n
    <3> HIDE DEF n
    <3>1. CASE i = 0
      BY <3>1, <2>1
    <3>2. CASE i \in 1 .. n
      BY <3>2, <2>2, <1>1
    <3>. QED BY <2>3, <3>1, <3>2
  <2>5. f = G
    <3>1. f = [i \in 0 .. n |-> f[i]]
      BY <2>1
    <3>2. G = [i \in 0 .. n |-> G[i]]
      OBVIOUS
    <3> HIDE DEF G, n
    <3>. QED BY <2>4, <3>1, <3>2
  <2>. QED BY <2>5
<1>6. Kept(kept)
  BY <1>5
<1>7. Keep(q, S) = kept[n]
  BY DEF Keep
<1> HIDE DEF kept, step
<1>12. \A i \in 0 .. n : kept[i] = IF i = 0 THEN <<>>
                                   ELSE IF q[i] \in S THEN Append(kept[i - 1], q[i]) ELSE kept[i - 1]
  BY <1>6
<1> HIDE DEF n, Kept
<1> DEFINE Good == {i \in 0 .. n : kept[i] \in Seq(X) /\ KeptOf(kept[i], SubSeq(q, 1, i), S)}
<1>8. 0 \in Good
  <2>1. kept[0] = <<>> /\ SubSeq(q, 1, 0) = <<>> /\ 0 \in 0 .. n
    BY <1>12, <1>1
  <2> DEFINE e == <<>>
  <2>2. Embeds(e, e, e, S)
    BY DEF Embeds
  <2>3. Len(e) = 0 /\ 1 .. Len(e) = {} /\ Len(e) <= Len(e) /\ e \in Seq(X)
    OBVIOUS
  <2>4. kept[0] = e /\ SubSeq(q, 1, 0) = e
    BY <2>1
  <2> HIDE DEF e
  <2>5. KeptOf(e, e, S)
    BY <2>2, <2>3 DEF KeptOf
  <2>6. kept[0] \in Seq(X) /\ KeptOf(kept[0], SubSeq(q, 1, 0), S)
    BY <2>3, <2>4, <2>5
  <2>. QED BY <2>1, <2>6
<1>9. ASSUME NEW i \in 1 .. n, i - 1 \in Good PROVE i \in Good
  <2>1. kept[i] = IF q[i] \in S THEN Append(kept[i - 1], q[i]) ELSE kept[i - 1]
    BY <1>12, <1>1
  <2>2. kept[i - 1] \in Seq(X) /\ KeptOf(kept[i - 1], SubSeq(q, 1, i - 1), S)
    BY <1>9
  <2>3. CASE q[i] \in S
    <3>1. KeptOf(Append(kept[i - 1], q[i]), SubSeq(q, 1, i), S)
      BY <2>2, <2>3, KeepMore DEF n
    <3>2. Append(kept[i - 1], q[i]) \in Seq(X)
      BY <2>2, <1>1
    <3>3. i \in 0 .. n
      BY <1>1
    <3>. QED BY <2>1, <2>3, <3>1, <3>2, <3>3
  <2>4. CASE q[i] \notin S
    <3>1. KeptOf(kept[i - 1], SubSeq(q, 1, i), S)
      BY <2>2, <2>4, KeepLess DEF n
    <3>2. i \in 0 .. n
      BY <1>1
    <3>. QED BY <2>1, <2>2, <2>4, <3>1, <3>2
  <2>. QED BY <2>3, <2>4
<1> HIDE DEF Good
<1>13. \A i \in 0 .. n : i \in Good
  BY <1>1, <1>8, <1>9, CountUp
<1>10. n \in Good
  BY <1>1, <1>13
<1>11. SubSeq(q, 1, n) = q
  BY DEF n
<1>. QED BY <1>7, <1>10, <1>11 DEF Good

-----------------------------------------------------------------------------
(* Books in order *)

Orders(prices) == [id : Nat, side : Sides, price : prices, qty : Nat \ {0}, tif : Tifs]

\* A side's orders: none is better than one before it.
Queue(prices, side, q) ==
    /\ q \in Seq(Orders(prices))
    /\ \A i \in 1 .. Len(q) : q[i].side = side
    /\ \A i, j \in 1 .. Len(q) : i < j => ~Better(side, q[j].price, q[i].price)

\* No two orders have one id.
OneEach(b) ==
    \A s, t \in Sides : \A i \in 1 .. Len(b[s]), j \in 1 .. Len(b[t]) :
        b[s][i].id = b[t][j].id => s = t /\ i = j

BookOK(prices, b) ==
    /\ b \in [Sides -> Seq(Orders(prices))]
    /\ \A s \in Sides : Queue(prices, s, b[s])
    /\ OneEach(b)

HasId(b, id) == \E s \in Sides : \E i \in 1 .. Len(b[s]) : b[s][i].id = id
Total(b) == Len(b["Bid"]) + Len(b["Ask"])

\* r has only orders of q, in their order, though their quantities may differ.
Within(f, r, q) ==
    /\ f \in [1 .. Len(r) -> 1 .. Len(q)]
    /\ \A i, j \in 1 .. Len(r) : i < j => f[i] < f[j]
    /\ \A i \in 1 .. Len(r) :
          r[i].id = q[f[i]].id /\ r[i].side = q[f[i]].side /\ r[i].price = q[f[i]].price
Thinned(r, q) == Len(r) <= Len(q) /\ \E f : Within(f, r, q)

\* An order has one place.
LEMMA OnePlace ==
    ASSUME NEW b, OneEach(b), NEW s \in Sides, NEW t \in Sides, NEW i \in 1 .. Len(b[s]),
           NEW j \in 1 .. Len(b[t]), b[s][i].id = b[t][j].id
    PROVE  s = t /\ i = j
BY DEF OneEach

\* Fewer orders are still in order.
LEMMA ThinnedQueue ==
    ASSUME NEW prices, NEW side, NEW q, Queue(prices, side, q),
           NEW r \in Seq(Orders(prices)), Thinned(r, q)
    PROVE  Queue(prices, side, r)
<1>1. PICK f : Within(f, r, q)
  BY DEF Thinned
<1>2. f \in [1 .. Len(r) -> 1 .. Len(q)]
  BY <1>1 DEF Within
<1>3. ASSUME NEW i \in 1 .. Len(r) PROVE r[i].side = side
  BY <1>1, <1>2, <1>3 DEF Within, Queue
<1>4. ASSUME NEW i \in 1 .. Len(r), NEW j \in 1 .. Len(r), i < j
      PROVE  ~Better(side, r[j].price, r[i].price)
  <2>1. f[i] < f[j] /\ f[i] \in 1 .. Len(q) /\ f[j] \in 1 .. Len(q)
    BY <1>1, <1>2, <1>4 DEF Within
  <2>2. ~Better(side, q[f[j]].price, q[f[i]].price)
    BY <2>1 DEF Queue
  <2>. QED BY <2>2, <1>1 DEF Within
<1>. QED BY <1>3, <1>4 DEF Queue

\* Each id of them was there.
LEMMA ThinnedIds ==
    ASSUME NEW r, NEW q, Thinned(r, q), NEW i \in 1 .. Len(r)
    PROVE  \E k \in 1 .. Len(q) : q[k].id = r[i].id
<1>1. PICK f : Within(f, r, q)
  BY DEF Thinned
<1>. QED BY <1>1 DEF Within

\* A book with fewer orders on both sides is in order.
LEMMA ThinnedBook ==
    ASSUME NEW prices, NEW b, BookOK(prices, b), 
           NEW c \in [Sides -> Seq(Orders(prices))], \A s \in Sides : Thinned(c[s], b[s])
    PROVE  /\ BookOK(prices, c) /\ Total(c) <= Total(b)
           /\ \A id : HasId(c, id) => HasId(b, id)
<1>1. \A s \in Sides : Queue(prices, s, c[s])
  BY ThinnedQueue DEF BookOK
<1>2. ASSUME NEW s \in Sides, NEW t \in Sides, NEW i \in 1 .. Len(c[s]), NEW j \in 1 .. Len(c[t]),
             c[s][i].id = c[t][j].id
      PROVE  s = t /\ i = j
  <2>1. PICK f : Within(f, c[s], b[s])
    BY DEF Thinned
  <2>2. PICK g : Within(g, c[t], b[t])
    BY DEF Thinned
  <2>3. /\ f[i] \in 1 .. Len(b[s]) /\ c[s][i].id = b[s][f[i]].id
        /\ g[j] \in 1 .. Len(b[t]) /\ c[t][j].id = b[t][g[j]].id
    BY <2>1, <2>2 DEF Within
  <2>7. OneEach(b)
    BY DEF BookOK
  <2>4. s = t /\ f[i] = g[j]
    <3>1. b[s][f[i]].id = b[t][g[j]].id
      BY <2>3, <1>2
    <3>. QED BY <2>3, <2>7, <3>1, OnePlace
  <2>6. ASSUME i # j PROVE FALSE
    <3>1. j \in 1 .. Len(c[s]) /\ f[j] \in 1 .. Len(b[s]) /\ c[s][j].id = b[s][f[j]].id
      BY <2>1, <2>4 DEF Within
    <3>2. f[i] = f[j]
      <4>1. b[s][f[i]].id = b[s][f[j]].id
        <5>1. c[s][i].id = c[s][j].id
          BY <2>4, <1>2
        <5>. QED BY <2>3, <3>1, <5>1
      <4>2. \A k, l \in 1 .. Len(b[s]) : b[s][k].id = b[s][l].id => k = l
        BY <2>7, OnePlace
      <4>. QED BY <2>3, <3>1, <4>1, <4>2
    <3>3. i < j \/ j < i
      BY <2>6, <3>1
    <3>4. f[i] < f[j] \/ f[j] < f[i]
      BY <2>1, <3>1, <3>3 DEF Within
    <3>. QED BY <3>2, <3>4, <2>3
  <2>. QED BY <2>4, <2>6
<1>3. BookOK(prices, c)
  BY <1>1, <1>2 DEF BookOK, OneEach
<1>4. ASSUME NEW id, HasId(c, id) PROVE HasId(b, id)
  BY <1>4, ThinnedIds DEF HasId
<1>5. Total(c) <= Total(b)
  <2>1. \A s \in Sides : Len(c[s]) \in Nat /\ Len(b[s]) \in Nat /\ Len(c[s]) <= Len(b[s])
    BY DEF Thinned, BookOK, Queue
  <2>2. "Bid" \in Sides /\ "Ask" \in Sides
    BY DEF Sides
  <2>3. /\ Len(c["Bid"]) \in Nat /\ Len(b["Bid"]) \in Nat /\ Len(c["Bid"]) <= Len(b["Bid"])
        /\ Len(c["Ask"]) \in Nat /\ Len(b["Ask"]) \in Nat /\ Len(c["Ask"]) <= Len(b["Ask"])
    BY <2>1, <2>2
  <2> DEFINE cb == Len(c["Bid"])
             ca == Len(c["Ask"])
             bb == Len(b["Bid"])
             ba == Len(b["Ask"])
  <2>4. cb \in Nat /\ ca \in Nat /\ bb \in Nat /\ ba \in Nat /\ cb <= bb /\ ca <= ba
    BY <2>3
  <2>5. Total(c) = cb + ca /\ Total(b) = bb + ba
    BY DEF Total
  <2> HIDE DEF cb, ca, bb, ba
  <2>. QED BY <2>4, <2>5
<1>. QED BY <1>3, <1>4, <1>5

\* What is kept of a queue is within it.
LEMMA KeptIsThinned ==
    ASSUME NEW q, NEW r, NEW S, KeptOf(r, q, S)
    PROVE  Thinned(r, q)
<1>1. PICK f : Embeds(f, r, q, S)
  BY DEF KeptOf
<1>2. Within(f, r, q)
  BY <1>1 DEF Embeds, Within
<1>. QED BY <1>2 DEF KeptOf, Thinned

-----------------------------------------------------------------------------
(* The listing of a book *)

\* The bids come first.
Listed(prices, b) ==
    /\ All(b) \in Seq(Orders(prices)) /\ Len(All(b)) = Total(b) /\ Total(b) \in Nat
    /\ Len(All(b)) = Len(b["Bid"]) + Len(b["Ask"])
    /\ Len(b["Bid"]) \in Nat /\ Len(b["Ask"]) \in Nat
    /\ \A i \in 1 .. Len(b["Bid"]) : All(b)[i] = b["Bid"][i]
    /\ \A i \in 1 .. Len(b["Ask"]) : All(b)[Len(b["Bid"]) + i] = b["Ask"][i]

\* The listing of a book in order.
LEMMA AllFacts ==
    ASSUME NEW prices, NEW b, BookOK(prices, b)
    PROVE  Listed(prices, b)
<1>1. b["Bid"] \in Seq(Orders(prices)) /\ b["Ask"] \in Seq(Orders(prices))
  BY DEF BookOK, Queue, Sides
<1>2. IsSeq(b["Bid"]) /\ IsSeq(b["Ask"]) /\ Len(b["Bid"]) \in Nat /\ Len(b["Ask"]) \in Nat
  BY <1>1, SeqIsSeq
<1>3. b["Bid"] \o b["Ask"] \in Seq(Orders(prices))
  BY <1>1
<1> DEFINE bids == b["Bid"]
           asks == b["Ask"]
<1>4. All(b) = bids \o asks /\ Total(b) = Len(bids) + Len(asks)
  BY DEF All, Total
<1>5. /\ IsSeq(bids) /\ IsSeq(asks) /\ Len(bids) \in Nat /\ Len(asks) \in Nat
      /\ bids \o asks \in Seq(Orders(prices))
  BY <1>2, <1>3
<1>6. SUFFICES /\ All(b) \in Seq(Orders(prices)) /\ Len(All(b)) = Total(b) /\ Total(b) \in Nat
               /\ Len(All(b)) = Len(bids) + Len(asks)
               /\ \A i \in 1 .. Len(bids) : All(b)[i] = bids[i]
               /\ \A i \in 1 .. Len(asks) : All(b)[Len(bids) + i] = asks[i]
               /\ Len(bids) \in Nat /\ Len(asks) \in Nat
  BY DEF Listed
<1> HIDE DEF bids, asks
<1>7. /\ Len(bids \o asks) = Len(bids) + Len(asks)
      /\ \A i \in 1 .. Len(bids) : (bids \o asks)[i] = bids[i]
      /\ \A i \in 1 .. Len(asks) : (bids \o asks)[Len(bids) + i] = asks[i]
  BY <1>5, ConcatIsSeq
<1>. QED BY <1>4, <1>5, <1>7

\* A book has a number of orders.
LEMMA TotalNat ==
    ASSUME NEW prices, NEW b, BookOK(prices, b)
    PROVE  Total(b) \in Nat
BY AllFacts DEF Listed

\* The ids in it are those of the two sides.
LEMMA IdsFacts ==
    ASSUME NEW prices, NEW b, BookOK(prices, b)
    PROVE  \A id : id \in Ids(b) <=> HasId(b, id)
<1> TAKE id
<1> DEFINE bids == b["Bid"]
           asks == b["Ask"]
           n == Len(bids)
<1>1. /\ Len(All(b)) = n + Len(asks) /\ n \in Nat /\ Len(asks) \in Nat
      /\ \A i \in 1 .. n : All(b)[i] = bids[i]
      /\ \A i \in 1 .. Len(asks) : All(b)[n + i] = asks[i]
  <2>1. Listed(prices, b)
    BY AllFacts
  <2>. QED BY <2>1 DEF Listed
<1> HIDE DEF n
<1>2. ASSUME id \in Ids(b) PROVE HasId(b, id)
  <2>1. PICK i \in 1 .. Len(All(b)) : All(b)[i].id = id
    BY <1>2 DEF Ids
  <2>2. CASE i <= n
    <3>1. i \in 1 .. n
      BY <1>1, <2>2
    <3>2. bids[i].id = id
      BY <1>1, <2>1, <3>1
    <3>. QED BY <3>1, <3>2 DEF HasId, Sides, n
  <2>3. CASE i > n
    <3>1. i - n \in 1 .. Len(asks) /\ n + (i - n) = i
      BY <1>1, <2>3
    <3>2. asks[i - n].id = id
      BY <1>1, <2>1, <3>1
    <3>. QED BY <3>1, <3>2 DEF HasId, Sides
  <2>. QED BY <1>1, <2>2, <2>3
<1>3. ASSUME HasId(b, id) PROVE id \in Ids(b)
  <2>1. PICK s \in Sides : \E i \in 1 .. Len(b[s]) : b[s][i].id = id
    BY <1>3 DEF HasId
  <2>2. PICK i \in 1 .. Len(b[s]) : b[s][i].id = id
    BY <2>1
  <2>3. CASE s = "Bid"
    <3>3. i \in 1 .. n
      BY <2>3 DEF n
    <3>1. i \in 1 .. n /\ i \in 1 .. Len(All(b))
      BY <1>1, <3>3
    <3>2. All(b)[i].id = id
      BY <1>1, <2>2, <2>3, <3>1
    <3>. QED BY <3>1, <3>2 DEF Ids
  <2>4. CASE s = "Ask"
    <3>1. i \in 1 .. Len(asks) /\ n + i \in 1 .. Len(All(b))
      BY <1>1, <2>4
    <3>2. All(b)[n + i].id = id
      BY <1>1, <2>2, <2>4, <3>1
    <3>. QED BY <3>1, <3>2 DEF Ids
  <2>. QED BY <2>3, <2>4 DEF Sides
<1>. QED BY <1>2, <1>3

\* No id is there twice, so there are as many ids as orders.
LEMMA IdsCount ==
    ASSUME NEW prices, NEW b, BookOK(prices, b)
    PROVE  IsFiniteSet(Ids(b)) /\ Cardinality(Ids(b)) = Total(b)
<1> DEFINE bids == b["Bid"]
           asks == b["Ask"]
           n == Len(bids)
           m == Len(All(b))
           f == [i \in 1 .. m |-> All(b)[i].id]
<1>1. /\ m = n + Len(asks) /\ m = Total(b) /\ n \in Nat /\ Len(asks) \in Nat
      /\ \A i \in 1 .. n : All(b)[i] = bids[i]
      /\ \A i \in 1 .. Len(asks) : All(b)[n + i] = asks[i]
  <2>1. Listed(prices, b)
    BY AllFacts
  <2>. QED BY <2>1 DEF Listed
<1> HIDE DEF n, m
<1>2. ASSUME NEW i \in 1 .. m
      PROVE  \/ i \in 1 .. n /\ All(b)[i] = bids[i]
             \/ i - n \in 1 .. Len(asks) /\ All(b)[i] = asks[i - n]
  <2>1. CASE i <= n
    BY <1>1, <2>1
  <2>2. CASE i > n
    <3>1. i - n \in 1 .. Len(asks) /\ n + (i - n) = i
      BY <1>1, <2>2
    <3>. QED BY <1>1, <3>1
  <2>. QED BY <1>1, <2>1, <2>2
<1>3. ASSUME NEW i \in 1 .. m, NEW j \in 1 .. m, All(b)[i].id = All(b)[j].id PROVE i = j
  <2>1. \A s, t \in Sides : \A k \in 1 .. Len(b[s]), l \in 1 .. Len(b[t]) :
            b[s][k].id = b[t][l].id => s = t /\ k = l
    BY DEF BookOK, OneEach
  <2>2. "Bid" \in Sides /\ "Ask" \in Sides
    BY DEF Sides
  <2>3. CASE i \in 1 .. n /\ All(b)[i] = bids[i]
    <3>1. CASE j \in 1 .. n /\ All(b)[j] = bids[j]
      BY <1>3, <2>1, <2>2, <2>3, <3>1 DEF n
    <3>2. CASE j - n \in 1 .. Len(asks) /\ All(b)[j] = asks[j - n]
      <4>1. bids[i].id = asks[j - n].id
        BY <1>3, <2>3, <3>2
      <4>. QED BY <4>1, <2>1, <2>2, <2>3, <3>2 DEF n
    <3>. QED BY <1>2, <3>1, <3>2
  <2>4. CASE i - n \in 1 .. Len(asks) /\ All(b)[i] = asks[i - n]
    <3>1. CASE j \in 1 .. n /\ All(b)[j] = bids[j]
      <4>1. asks[i - n].id = bids[j].id
        BY <1>3, <2>4, <3>1
      <4>. QED BY <4>1, <2>1, <2>2, <2>4, <3>1 DEF n
    <3>2. CASE j - n \in 1 .. Len(asks) /\ All(b)[j] = asks[j - n]
      <4>1. asks[i - n].id = asks[j - n].id
        BY <1>3, <2>4, <3>2
      <4>2. i - n = j - n
        BY <4>1, <2>1, <2>2, <2>4, <3>2
      <4>. QED BY <4>2, <1>1
    <3>. QED BY <1>2, <3>1, <3>2
  <2>. QED BY <1>2, <2>3, <2>4
<1>4. f \in Bijection(1 .. m, Ids(b))
  <2>1. f \in [1 .. m -> Ids(b)]
    BY DEF Ids, m
  <2>2. \A x, y \in 1 .. m : x # y => f[x] # f[y]
    BY <1>3
  <2>3. \A id \in Ids(b) : \E x \in 1 .. m : f[x] = id
    BY DEF Ids, m
  <2> HIDE DEF f
  <2>. QED BY <2>1, <2>2, <2>3 DEF Bijection, Injection, Surjection, IsInjective
<1>5. ExistsBijection(1 .. m, Ids(b))
  BY <1>4 DEF ExistsBijection
<1>6. IsFiniteSet(1 .. m) /\ Cardinality(1 .. m) = m
  <2>1. m \in Nat
    BY <1>1
  <2>. QED BY <2>1, FS_Interval
<1>7. IsFiniteSet(Ids(b)) /\ Cardinality(Ids(b)) = m
  BY <1>5, <1>6, FS_Bijection
<1>. QED BY <1>1, <1>7

-----------------------------------------------------------------------------
(* Insert *)

\* r is q with o at place p.
InsertedAt(r, q, p, o) ==
    /\ p \in 1 .. (Len(q) + 1) /\ Len(r) = Len(q) + 1
    /\ \A k \in 1 .. Len(r) : r[k] = IF k < p THEN q[k] ELSE IF k = p THEN o ELSE q[k - 1]

\* The fields of the orders of a queue.
LEMMA QueueFacts ==
    ASSUME NEW prices, prices \subseteq Int, NEW side, NEW q, Queue(prices, side, q)
    PROVE  /\ q \in Seq(Orders(prices)) /\ Len(q) \in Nat
           /\ \A k \in 1 .. Len(q) :
                 /\ q[k] \in Orders(prices) /\ q[k].price \in Int /\ q[k].price \in prices
                 /\ q[k].side = side /\ q[k].qty \in Nat /\ q[k].qty > 0
                 /\ q[k].id \in Nat /\ q[k].tif \in Tifs
           /\ \A i, j \in 1 .. Len(q) : i < j => ~Better(side, q[j].price, q[i].price)
<1>1. q \in Seq(Orders(prices)) /\ Len(q) \in Nat
  BY DEF Queue
<1>2. \A k \in 1 .. Len(q) : q[k] \in Orders(prices)
  BY <1>1
<1>3. ASSUME NEW o \in Orders(prices)
      PROVE  /\ o.price \in Int /\ o.price \in prices /\ o.qty \in Nat /\ o.qty > 0
             /\ o.id \in Nat /\ o.tif \in Tifs
  <2>1. o.price \in prices /\ o.qty \in Nat \ {0} /\ o.id \in Nat /\ o.tif \in Tifs
    BY DEF Orders
  <2>2. o.qty \in Nat /\ o.qty > 0
    BY <2>1
  <2>3. o.price \in Int
    BY <2>1
  <2>. QED BY <2>1, <2>2, <2>3, Zenon
<1>. QED BY <1>1, <1>2, <1>3 DEF Queue

\* The place is behind every order as good, and the others are worse.
LEMMA InsertPlace ==
    ASSUME NEW prices, prices \subseteq Int, NEW q, NEW o \in Orders(prices),
           Queue(prices, o.side, q)
    PROVE  LET p == Max({0} \cup AsGood(q, o)) + 1
               r == InsertAt(q, p, o)
           IN  /\ r \in Seq(Orders(prices)) /\ InsertedAt(r, q, p, o)
               /\ \A k \in 1 .. Len(q) : k < p => ~Better(o.side, o.price, q[k].price)
               /\ \A k \in 1 .. Len(q) : k >= p => Better(o.side, o.price, q[k].price)
               /\ (\A k \in 1 .. Len(q) : ~Better(o.side, o.price, q[k].price)) => p = Len(q) + 1
<1> DEFINE good == AsGood(q, o)
           top == Max({0} \cup good)
           p == top + 1
           r == WithOne(q, p, o)
           n == Len(q)
<1>1. /\ q \in Seq(Orders(prices)) /\ n \in Nat /\ o.side \in Sides /\ o.price \in Int
      /\ \A k \in 1 .. n : q[k].price \in Int
  <2>1. o.side \in Sides /\ o.price \in Int
    BY DEF Orders
  <2>. QED BY <2>1, QueueFacts
<1>2. good = {k \in 1 .. n : ~Better(o.side, o.price, q[k].price)}
  BY DEF AsGood
<1> HIDE DEF good
<1>3. top \in {0} \cup good /\ \A x \in {0} \cup good : x <= top
  <2>1. {0} \cup good \subseteq Int /\ {0} \cup good # {} /\ \A x \in {0} \cup good : x <= n
    <3>1. good \subseteq 1 .. n
      BY <1>2
    <3>. QED BY <3>1, <1>1
  <2>2. n \in Int
    BY <1>1
  <2> HIDE DEF n
  <2>. QED BY <2>1, <2>2, MaxFacts
<1> HIDE DEF top
<1>4. top \in 0 .. n
  BY <1>1, <1>2, <1>3
<1>5. p \in 1 .. (n + 1) /\ p \in Nat
  BY <1>1, <1>4
<1>6. /\ r \in Seq(Orders(prices)) /\ Len(r) = n + 1
      /\ \A k \in 1 .. (p - 1) : r[k] = q[k]
      /\ r[p] = o
      /\ \A k \in p .. n : r[k + 1] = q[k]
  <2> HIDE DEF p, r
  <2>1. p \in 1 .. (Len(q) + 1)
    BY <1>5
  <2>2. /\ WithOne(q, p, o) \in Seq(Orders(prices)) /\ Len(WithOne(q, p, o)) = Len(q) + 1
        /\ \A k \in 1 .. (p - 1) : WithOne(q, p, o)[k] = q[k]
        /\ WithOne(q, p, o)[p] = o
        /\ \A k \in p .. Len(q) : WithOne(q, p, o)[k + 1] = q[k]
    <3> DEFINE X == Orders(prices)
    <3>1. q \in Seq(X) /\ o \in X
      BY <1>1
    <3> HIDE DEF X
    <3>2. /\ WithOne(q, p, o) \in Seq(X) /\ Len(WithOne(q, p, o)) = Len(q) + 1
          /\ \A k \in 1 .. (p - 1) : WithOne(q, p, o)[k] = q[k]
          /\ WithOne(q, p, o)[p] = o
          /\ \A k \in p .. Len(q) : WithOne(q, p, o)[k + 1] = q[k]
      BY <3>1, <2>1, WithOneFacts
    <3>. QED BY <3>2 DEF X
  <2>. QED BY <2>2 DEF r
<1> HIDE DEF r
<1>7. InsertedAt(r, q, p, o)
  <2> HIDE DEF p, n
  <2>1. ASSUME NEW k \in 1 .. (n + 1)
        PROVE  r[k] = IF k < p THEN q[k] ELSE IF k = p THEN o ELSE q[k - 1]
    <3>1. CASE k < p
      BY <1>5, <1>6, <1>1, <3>1
    <3>2. CASE k = p
      BY <1>5, <1>6, <1>1, <3>2
    <3>3. CASE k > p
      <4>1. k - 1 \in p .. n /\ (k - 1) + 1 = k
        BY <1>1, <1>5, <3>3
      <4>2. r[k] = q[k - 1]
        BY <4>1, <1>6
      <4>. QED BY <4>2, <1>5, <3>3
    <3>. QED BY <1>5, <1>1, <3>1, <3>2, <3>3
  <2>. QED BY <2>1, <1>5, <1>6 DEF InsertedAt, n
<1>8. ASSUME NEW k \in 1 .. n, k < p PROVE ~Better(o.side, o.price, q[k].price)
  <2>1. top \in 1 .. n /\ k <= top /\ ~Better(o.side, o.price, q[top].price)
    BY <1>2, <1>3, <1>4, <1>8
  <2>2. k = top \/ ~Better(o.side, q[top].price, q[k].price)
    BY <2>1 DEF Queue
  <2>. QED BY <1>1, <2>1, <2>2 DEF Better, Sides
<1>9. ASSUME NEW k \in 1 .. n, k >= p PROVE Better(o.side, o.price, q[k].price)
  BY <1>2, <1>3, <1>4, <1>9
<1>10. (\A k \in 1 .. n : ~Better(o.side, o.price, q[k].price)) => p = n + 1
  <2>1. ASSUME \A k \in 1 .. n : ~Better(o.side, o.price, q[k].price) PROVE top = n
    <3>1. n \in {0} \cup good
      BY <1>1, <1>2, <2>1
    <3>2. n <= top
      BY <1>3, <3>1
    <3>. QED BY <1>1, <1>4, <3>2
  <2>. QED BY <2>1
<1>11. InsertAt(q, p, o) = r
  BY DEF InsertAt, WithOne, r
<1>. QED BY <1>6, <1>7, <1>8, <1>9, <1>10, <1>11 DEF good, top

\* The queue is in order with it.
LEMMA InsertQueue ==
    ASSUME NEW prices, prices \subseteq Int, NEW q, NEW o \in Orders(prices),
           Queue(prices, o.side, q)
    PROVE  LET r == InsertAt(q, Max({0} \cup AsGood(q, o)) + 1, o)
           IN  Queue(prices, o.side, r) /\ \E p \in 1 .. (Len(q) + 1) : InsertedAt(r, q, p, o)
<1> DEFINE p == Max({0} \cup AsGood(q, o)) + 1
           r == InsertAt(q, p, o)
           s == o.side
           n == Len(q)
<1>7. /\ q \in Seq(Orders(prices)) /\ n \in Nat
      /\ \A k \in 1 .. n : q[k].price \in Int /\ q[k].side = s
      /\ \A i, j \in 1 .. n : i < j => ~Better(s, q[j].price, q[i].price)
  BY QueueFacts
<1>1. /\ r \in Seq(Orders(prices)) /\ InsertedAt(r, q, p, o)
      /\ \A k \in 1 .. n : k < p => ~Better(s, o.price, q[k].price)
      /\ \A k \in 1 .. n : k >= p => Better(s, o.price, q[k].price)
  BY InsertPlace
<1>2. /\ q \in Seq(Orders(prices)) /\ n \in Nat /\ s \in Sides /\ o.price \in Int
      /\ \A k \in 1 .. n : q[k].price \in Int /\ q[k].side = s
      /\ \A i, j \in 1 .. n : i < j => ~Better(s, q[j].price, q[i].price)
  <2>1. s \in Sides /\ o.price \in Int
    BY DEF Orders
  <2>. QED BY <2>1, <1>7
<1> HIDE DEF p, r, n
<1>3. /\ p \in 1 .. (n + 1) /\ Len(r) = n + 1 /\ r[p] = o /\ p \in Nat
      /\ \A k \in 1 .. (n + 1) : k < p => k \in 1 .. n /\ r[k] = q[k]
      /\ \A k \in 1 .. (n + 1) : k > p => k - 1 \in 1 .. n /\ r[k] = q[k - 1]
  BY <1>1, <1>2 DEF InsertedAt, n
<1>4. \A k \in 1 .. (n + 1) : r[k].side = s
  BY <1>2, <1>3
<1>5. ASSUME NEW i \in 1 .. (n + 1), NEW j \in 1 .. (n + 1), i < j
      PROVE  ~Better(s, r[j].price, r[i].price)
  <2>1. CASE j < p
    <3>1. i < p
      BY <1>3, <1>5, <2>1
    <3>2. i \in 1 .. n /\ r[i] = q[i] /\ j \in 1 .. n /\ r[j] = q[j]
      BY <1>3, <2>1, <3>1
    <3>. QED BY <1>2, <1>5, <3>2
  <2>2. CASE j = p
    BY <1>1, <1>3, <1>5, <2>2
  <2>3. CASE j > p /\ i < p
    <3>1. i \in 1 .. n /\ r[i] = q[i] /\ j - 1 \in 1 .. n /\ r[j] = q[j - 1] /\ i < j - 1
      BY <1>3, <2>3
    <3>. QED BY <1>2, <3>1
  <2>4. CASE j > p /\ i = p
    <3>1. j - 1 \in 1 .. n /\ r[j] = q[j - 1] /\ j - 1 >= p /\ r[i] = o
      BY <1>3, <2>4
    <3>2. Better(s, o.price, q[j - 1].price)
      BY <1>1, <3>1
    <3>. QED BY <1>2, <3>1, <3>2 DEF Better
  <2>5. CASE j > p /\ i > p
    <3>1. i - 1 \in 1 .. n /\ r[i] = q[i - 1] /\ j - 1 \in 1 .. n /\ r[j] = q[j - 1] /\ i - 1 < j - 1
      BY <1>3, <1>5, <2>5
    <3>. QED BY <1>2, <3>1
  <2>. QED BY <1>3, <2>1, <2>2, <2>3, <2>4, <2>5
<1>6. Queue(prices, s, r)
  BY <1>1, <1>3, <1>4, <1>5 DEF Queue
<1>. QED BY <1>1, <1>3, <1>6 DEF n, r, p

\* A book in order is in order with an order of a new id.
LEMMA InsertBook ==
    ASSUME NEW prices, prices \subseteq Int, NEW b, BookOK(prices, b),
           NEW o \in Orders(prices), ~HasId(b, o.id)
    PROVE  BookOK(prices, Insert(b, o)) /\ Total(Insert(b, o)) = Total(b) + 1
<1> DEFINE c == Insert(b, o)
           r == InsertAt(b[o.side], Max({0} \cup AsGood(b[o.side], o)) + 1, o)
<1>1. o.side \in Sides /\ b \in [Sides -> Seq(Orders(prices))]
  BY DEF Orders, BookOK
<1>2. c = [b EXCEPT ![o.side] = r]
  BY DEF Insert
<1>3. Queue(prices, o.side, r) /\ \E p \in 1 .. (Len(b[o.side]) + 1) : InsertedAt(r, b[o.side], p, o)
  BY <1>1, InsertQueue DEF BookOK
<1> HIDE DEF c, r
<1>4. r \in Seq(Orders(prices)) /\ c \in [Sides -> Seq(Orders(prices))] /\ c[o.side] = r
  BY <1>1, <1>2, <1>3 DEF Queue
<1>5. \A s \in Sides : s # o.side => c[s] = b[s]
  BY <1>1, <1>2
<1>6. \A s \in Sides : Queue(prices, s, c[s])
  BY <1>3, <1>4, <1>5 DEF BookOK
<1>7. PICK p \in 1 .. (Len(b[o.side]) + 1) : InsertedAt(r, b[o.side], p, o)
  BY <1>3
<1> DEFINE q == b[o.side]
<1>8. q \in Seq(Orders(prices)) /\ Len(q) \in Nat /\ p \in 1 .. (Len(q) + 1) /\ InsertedAt(r, q, p, o)
  BY <1>1, <1>7
<1>9. ASSUME NEW i \in 1 .. Len(r)
      PROVE  \/ i = p /\ r[i] = o
             \/ i < p /\ i \in 1 .. Len(q) /\ r[i] = q[i]
             \/ i > p /\ i - 1 \in 1 .. Len(q) /\ r[i] = q[i - 1]
  <2> HIDE DEF q
  <2>1. /\ p \in 1 .. (Len(q) + 1) /\ Len(r) = Len(q) + 1
        /\ r[i] = IF i < p THEN q[i] ELSE IF i = p THEN o ELSE q[i - 1]
    BY <1>8 DEF InsertedAt
  <2> DEFINE n == Len(q)
  <2>2. n \in Nat /\ p \in 1 .. (n + 1) /\ i \in 1 .. (n + 1)
    BY <1>8, <2>1
  <2> HIDE DEF n
  <2>3. CASE i < p
    <3>1. i \in 1 .. n
      BY <2>2, <2>3
    <3>. QED BY <2>1, <2>3, <3>1 DEF n
  <2>4. CASE i = p
    BY <2>1, <2>2, <2>4
  <2>5. CASE i > p
    <3>1. i - 1 \in 1 .. n /\ ~(i < p) /\ i # p
      BY <2>2, <2>5
    <3>. QED BY <2>1, <2>5, <3>1 DEF n
  <2>. QED BY <2>2, <2>3, <2>4, <2>5
<1>10. OneEach(b) /\ \A s \in Sides : \A i \in 1 .. Len(b[s]) : b[s][i].id # o.id
  BY DEF BookOK, HasId
<1>11. ASSUME NEW i \in 1 .. Len(r), NEW j \in 1 .. Len(r), r[i].id = r[j].id PROVE i = j
  <2>1. \A k \in 1 .. Len(q), l \in 1 .. Len(q) : q[k].id = q[l].id => k = l
    BY <1>1, <1>10, OnePlace
  <2>2. \A k \in 1 .. Len(q) : q[k].id # o.id
    BY <1>1, <1>10
  <2>3. Len(r) \in Nat /\ p \in Nat
    BY <1>4, <1>8
  <2> HIDE DEF q
  <2>4. CASE i = p /\ r[i] = o
    BY <1>9, <1>11, <2>2, <2>4
  <2>5. CASE i < p /\ i \in 1 .. Len(q) /\ r[i] = q[i]
    <3>1. CASE j = p /\ r[j] = o
      BY <1>11, <2>2, <2>5, <3>1
    <3>2. CASE j < p /\ j \in 1 .. Len(q) /\ r[j] = q[j]
      BY <1>11, <2>1, <2>5, <3>2
    <3>3. CASE j > p /\ j - 1 \in 1 .. Len(q) /\ r[j] = q[j - 1]
      <4>1. i = j - 1
        BY <1>11, <2>1, <2>5, <3>3
      <4>. QED BY <4>1, <2>3, <2>5, <3>3
    <3>. QED BY <1>9, <3>1, <3>2, <3>3
  <2>6. CASE i > p /\ i - 1 \in 1 .. Len(q) /\ r[i] = q[i - 1]
    <3>1. CASE j = p /\ r[j] = o
      BY <1>11, <2>2, <2>6, <3>1
    <3>2. CASE j < p /\ j \in 1 .. Len(q) /\ r[j] = q[j]
      <4>1. i - 1 = j
        BY <1>11, <2>1, <2>6, <3>2
      <4>. QED BY <4>1, <2>3, <2>6, <3>2
    <3>3. CASE j > p /\ j - 1 \in 1 .. Len(q) /\ r[j] = q[j - 1]
      <4>1. i - 1 = j - 1
        BY <1>11, <2>1, <2>6, <3>3
      <4>. QED BY <4>1, <2>3
    <3>. QED BY <1>9, <3>1, <3>2, <3>3
  <2>. QED BY <1>9, <2>4, <2>5, <2>6
<1>12. ASSUME NEW i \in 1 .. Len(r) PROVE r[i].id = o.id \/ \E k \in 1 .. Len(q) : q[k].id = r[i].id
  <2> HIDE DEF q
  <2>. QED BY <1>9
<1>13. ASSUME NEW s \in Sides, NEW t \in Sides, NEW i \in 1 .. Len(c[s]), NEW j \in 1 .. Len(c[t]),
              c[s][i].id = c[t][j].id
       PROVE  s = t /\ i = j
  <2>1. CASE s = o.side /\ t = o.side
    BY <1>4, <1>11, <1>13, <2>1
  <2>2. CASE s # o.side /\ t # o.side
    BY <1>5, <1>10, <1>13, <2>2, OnePlace
  <2>3. CASE s = o.side /\ t # o.side
    <3>1. i \in 1 .. Len(r) /\ j \in 1 .. Len(b[t]) /\ r[i].id = b[t][j].id
      BY <1>4, <1>5, <1>13, <2>3
    <3>2. PICK k \in 1 .. Len(q) : q[k].id = b[t][j].id
      BY <1>10, <1>12, <3>1
    <3>. QED BY <1>1, <1>10, <2>3, <3>1, <3>2, OnePlace
  <2>4. CASE s # o.side /\ t = o.side
    <3>1. j \in 1 .. Len(r) /\ i \in 1 .. Len(b[s]) /\ r[j].id = b[s][i].id
      BY <1>4, <1>5, <1>13, <2>4
    <3>2. PICK k \in 1 .. Len(q) : q[k].id = b[s][i].id
      BY <1>10, <1>12, <3>1
    <3>. QED BY <1>1, <1>10, <2>4, <3>1, <3>2, OnePlace
  <2>. QED BY <2>1, <2>2, <2>3, <2>4
<1>14. BookOK(prices, c)
  BY <1>4, <1>6, <1>13 DEF BookOK, OneEach
<1>15. Total(c) = Total(b) + 1
  <2> DEFINE cb == Len(c["Bid"])
             ca == Len(c["Ask"])
             bb == Len(b["Bid"])
             ba == Len(b["Ask"])
  <2>1. bb \in Nat /\ ba \in Nat
    BY <1>1 DEF Sides
  <2>2. Len(r) = Len(q) + 1
    BY <1>8 DEF InsertedAt
  <2>3. CASE o.side = "Bid"
    <3>1. cb = bb + 1 /\ ca = ba
      BY <1>4, <1>5, <2>2, <2>3 DEF Sides
    <3>2. Total(c) = cb + ca /\ Total(b) = bb + ba
      BY DEF Total
    <3> HIDE DEF cb, ca, bb, ba
    <3>. QED BY <3>1, <3>2, <2>1
  <2>4. CASE o.side = "Ask"
    <3>1. ca = ba + 1 /\ cb = bb
      BY <1>4, <1>5, <2>2, <2>4 DEF Sides
    <3>2. Total(c) = cb + ca /\ Total(b) = bb + ba
      BY DEF Total
    <3> HIDE DEF cb, ca, bb, ba
    <3>. QED BY <3>1, <3>2, <2>1
  <2>. QED BY <1>1, <2>3, <2>4 DEF Sides
<1>. QED BY <1>14, <1>15 DEF c

-----------------------------------------------------------------------------
(* The listing put back *)

\* A listing of a book: bids, then asks, each side in order, no id twice.
ListOK(prices, os) ==
    /\ os \in Seq(Orders(prices))
    /\ \A i, j \in 1 .. Len(os) : i < j =>
          /\ os[i].id # os[j].id
          /\ ~(os[i].side = "Ask" /\ os[j].side = "Bid")
          /\ os[i].side = os[j].side => ~Better(os[i].side, os[j].price, os[i].price)

\* Where an order of the listing comes from.
LEMMA FromSide ==
    ASSUME NEW prices, NEW b, BookOK(prices, b), NEW i \in 1 .. Len(All(b))
    PROVE  \/ /\ i \in 1 .. Len(b["Bid"]) /\ All(b)[i] = b["Bid"][i]
              /\ All(b)[i].side = "Bid"
           \/ /\ i - Len(b["Bid"]) \in 1 .. Len(b["Ask"])
              /\ All(b)[i] = b["Ask"][i - Len(b["Bid"])] /\ All(b)[i].side = "Ask"
<1> DEFINE bids == b["Bid"]
           asks == b["Ask"]
           n == Len(bids)
           m == Len(asks)
<1>1. /\ Len(All(b)) = n + m /\ n \in Nat /\ m \in Nat
      /\ \A k \in 1 .. n : All(b)[k] = bids[k]
      /\ \A k \in 1 .. m : All(b)[n + k] = asks[k]
  <2>1. Listed(prices, b)
    BY AllFacts
  <2>. QED BY <2>1 DEF Listed
<1>2. (\A k \in 1 .. n : bids[k].side = "Bid") /\ (\A k \in 1 .. m : asks[k].side = "Ask")
  BY DEF BookOK, Queue, Sides
<1>3. i \in 1 .. (n + m)
  BY <1>1
<1>4. SUFFICES \/ i \in 1 .. n /\ All(b)[i] = bids[i] /\ All(b)[i].side = "Bid"
               \/ i - n \in 1 .. m /\ All(b)[i] = asks[i - n] /\ All(b)[i].side = "Ask"
  OBVIOUS
<1> HIDE DEF n, m, bids, asks
<1>5. CASE i <= n
  <2>1. i \in 1 .. n
    BY <1>1, <1>3, <1>5
  <2>. QED BY <1>1, <1>2, <2>1
<1>6. CASE i > n
  <2>1. i - n \in 1 .. m /\ n + (i - n) = i
    BY <1>1, <1>3, <1>6
  <2>2. All(b)[n + (i - n)] = asks[i - n]
    BY <1>1, <2>1
  <2>. QED BY <1>2, <2>1, <2>2
<1>. QED BY <1>1, <1>3, <1>5, <1>6

\* The listing of a book in order is one.
LEMMA ListingOK ==
    ASSUME NEW prices, NEW b, BookOK(prices, b)
    PROVE  ListOK(prices, All(b))
<1> DEFINE os == All(b)
           bids == b["Bid"]
           asks == b["Ask"]
           n == Len(bids)
           m == Len(asks)
<1>1. os \in Seq(Orders(prices)) /\ n \in Nat /\ m \in Nat
  <2>1. Listed(prices, b)
    BY AllFacts
  <2>. QED BY <2>1 DEF Listed
<1>2. OneEach(b) /\ Queue(prices, "Bid", bids) /\ Queue(prices, "Ask", asks)
  BY DEF BookOK, Sides
<1>3. \A i \in 1 .. Len(os) : \/ i \in 1 .. n /\ os[i] = bids[i] /\ os[i].side = "Bid"
                              \/ i - n \in 1 .. m /\ os[i] = asks[i - n] /\ os[i].side = "Ask"
  BY FromSide
<1>4. \A s, t \in Sides : \A i \in 1 .. Len(b[s]), j \in 1 .. Len(b[t]) :
          b[s][i].id = b[t][j].id => s = t /\ i = j
  BY <1>2 DEF OneEach
<1>5. \A i \in 1 .. n, j \in 1 .. n : bids[i].id = bids[j].id => i = j
  BY <1>4 DEF Sides
<1>6. \A i \in 1 .. m, j \in 1 .. m : asks[i].id = asks[j].id => i = j
  BY <1>4 DEF Sides
<1>7. \A i \in 1 .. n, j \in 1 .. m : bids[i].id # asks[j].id
  BY <1>4 DEF Sides
<1>8. \A i, j \in 1 .. n : i < j => ~Better("Bid", bids[j].price, bids[i].price)
  BY <1>2 DEF Queue
<1>9. \A i, j \in 1 .. m : i < j => ~Better("Ask", asks[j].price, asks[i].price)
  BY <1>2 DEF Queue
<1>10. Len(os) \in Nat
  BY <1>1
<1> HIDE DEF os, bids, asks, n, m
<1>11. ASSUME NEW i \in 1 .. Len(os), NEW j \in 1 .. Len(os), i < j
       PROVE  /\ os[i].id # os[j].id
              /\ ~(os[i].side = "Ask" /\ os[j].side = "Bid")
              /\ os[i].side = os[j].side => ~Better(os[i].side, os[j].price, os[i].price)
  <2>1. CASE i \in 1 .. n /\ os[i] = bids[i] /\ os[i].side = "Bid"
    <3>1. CASE j \in 1 .. n /\ os[j] = bids[j] /\ os[j].side = "Bid"
      <4>1. i # j
        BY <1>11
      <4>. QED BY <1>11, <2>1, <3>1, <4>1, <1>5, <1>8
    <3>2. CASE j - n \in 1 .. m /\ os[j] = asks[j - n] /\ os[j].side = "Ask"
      BY <2>1, <3>2, <1>7
    <3>. QED BY <1>3, <3>1, <3>2
  <2>2. CASE i - n \in 1 .. m /\ os[i] = asks[i - n] /\ os[i].side = "Ask"
    <3>1. CASE j \in 1 .. n /\ os[j] = bids[j] /\ os[j].side = "Bid"
      BY <1>1, <1>11, <2>2, <3>1
    <3>2. CASE j - n \in 1 .. m /\ os[j] = asks[j - n] /\ os[j].side = "Ask"
      <4>1. i - n < j - n /\ i - n # j - n
        BY <1>1, <1>11
      <4>. QED BY <2>2, <3>2, <4>1, <1>6, <1>9
    <3>. QED BY <1>3, <3>1, <3>2
  <2>. QED BY <1>3, <2>1, <2>2
<1>. QED BY <1>1, <1>11 DEF ListOK, os

\* The beginning of a listing is one.
LEMMA ListPrefix ==
    ASSUME NEW prices, NEW os, ListOK(prices, os), NEW n \in 0 .. Len(os)
    PROVE  ListOK(prices, SubSeq(os, 1, n))
<1> DEFINE p == SubSeq(os, 1, n)
<1>1. os \in Seq(Orders(prices))
  BY DEF ListOK
<1>2. p \in Seq(Orders(prices)) /\ Len(p) = n /\ \A i \in 1 .. n : p[i] = os[i]
  BY <1>1
<1> HIDE DEF p
<1>3. \A i \in 1 .. n : i \in 1 .. Len(os)
  BY <1>1
<1>4. ListOK(prices, p)
  BY <1>2, <1>3 DEF ListOK
<1>. QED BY <1>4 DEF p

\* A book is known from its listing.
LEMMA ListingIsBook ==
    ASSUME NEW prices, NEW b, BookOK(prices, b), NEW c, BookOK(prices, c), All(b) = All(c)
    PROVE  b = c
<1> DEFINE n == Len(b["Bid"])
           m == Len(c["Bid"])
           k == Len(b["Ask"])
           l == Len(c["Ask"])
<1>1. /\ Len(All(b)) = n + k /\ n \in Nat /\ k \in Nat
      /\ \A i \in 1 .. n : All(b)[i] = b["Bid"][i]
      /\ \A i \in 1 .. k : All(b)[n + i] = b["Ask"][i]
  <2>1. Listed(prices, b)
    BY AllFacts
  <2>. QED BY <2>1 DEF Listed
<1>2. /\ Len(All(c)) = m + l /\ m \in Nat /\ l \in Nat
      /\ \A i \in 1 .. m : All(c)[i] = c["Bid"][i]
      /\ \A i \in 1 .. l : All(c)[m + i] = c["Ask"][i]
  <2>1. Listed(prices, c)
    BY AllFacts
  <2>. QED BY <2>1 DEF Listed
<1>3. \A i \in 1 .. Len(All(b)) :
          \/ i \in 1 .. n /\ All(b)[i].side = "Bid"
          \/ i - n \in 1 .. k /\ All(b)[i].side = "Ask"
  BY FromSide
<1>4. \A i \in 1 .. Len(All(c)) :
          \/ i \in 1 .. m /\ All(c)[i].side = "Bid"
          \/ i - m \in 1 .. l /\ All(c)[i].side = "Ask"
  BY FromSide
<1> DEFINE os == All(b)
<1>5. /\ Len(os) = n + k /\ Len(os) = m + l /\ n \in Nat /\ m \in Nat /\ k \in Nat /\ l \in Nat
      /\ \A i \in 1 .. Len(os) : /\ os[i].side = "Bid" => i \in 1 .. n /\ i \in 1 .. m
                                 /\ os[i].side = "Ask" => i - n \in 1 .. k /\ i - m \in 1 .. l
                                 /\ os[i].side \in {"Bid", "Ask"}
  BY <1>1, <1>2, <1>3, <1>4
<1>6. n = m /\ k = l
  <2> HIDE DEF n, m, k, l, os
  <2>1. ASSUME n < m PROVE FALSE
    <3>1. m \in 1 .. Len(os) /\ ~(m \in 1 .. n) /\ ~(m - m \in 1 .. l)
      BY <1>5, <2>1
    <3>. QED BY <1>5, <3>1
  <2>2. ASSUME m < n PROVE FALSE
    <3>1. n \in 1 .. Len(os) /\ ~(n \in 1 .. m) /\ ~(n - n \in 1 .. k)
      BY <1>5, <2>2
    <3>. QED BY <1>5, <3>1
  <2>. QED BY <1>5, <2>1, <2>2
<1>7. /\ b \in [Sides -> Seq(Orders(prices))] /\ c \in [Sides -> Seq(Orders(prices))]
      /\ IsSeq(b["Bid"]) /\ IsSeq(b["Ask"]) /\ IsSeq(c["Bid"]) /\ IsSeq(c["Ask"])
  BY SeqIsSeq DEF BookOK, Sides
<1>8. b["Bid"] = c["Bid"]
  <2>1. \A i \in 1 .. n : b["Bid"][i] = c["Bid"][i]
    BY <1>1, <1>2, <1>6
  <2>. QED BY <2>1, <1>6, <1>7, SameSeq
<1>9. b["Ask"] = c["Ask"]
  <2>1. \A i \in 1 .. k : b["Ask"][i] = c["Ask"][i]
    <3> TAKE i \in 1 .. k
    <3>1. All(b)[n + i] = b["Ask"][i] /\ All(c)[m + i] = c["Ask"][i] /\ n + i = m + i
      BY <1>1, <1>2, <1>6
    <3>. QED BY <3>1
  <2>. QED BY <2>1, <1>6, <1>7, SameSeq
<1>10. \A s \in Sides : b[s] = c[s]
  BY <1>8, <1>9 DEF Sides
<1>. QED BY <1>7, <1>10

\* An order that comes last in the listing is put behind all the others of its side.
LEMMA InsertLast ==
    ASSUME NEW prices, prices \subseteq Int, NEW b, BookOK(prices, b),
           NEW o \in Orders(prices), ListOK(prices, Append(All(b), o))
    PROVE  BookOK(prices, Insert(b, o)) /\ All(Insert(b, o)) = Append(All(b), o)
<1> DEFINE s == o.side
           q == b[s]
           p == Max({0} \cup AsGood(q, o)) + 1
           r == InsertAt(q, p, o)
           c == Insert(b, o)
           bids == b["Bid"]
           asks == b["Ask"]
           n == Len(bids)
           k == Len(asks)
           os == All(b)
           os1 == Append(os, o)
<1>1. s \in Sides /\ b \in [Sides -> Seq(Orders(prices))] /\ Queue(prices, s, q)
  BY DEF Orders, BookOK
<1>2. /\ os \in Seq(Orders(prices)) /\ Len(os) = n + k /\ n \in Nat /\ k \in Nat
      /\ \A i \in 1 .. n : os[i] = bids[i]
      /\ \A i \in 1 .. k : os[n + i] = asks[i]
  <2>1. Listed(prices, b)
    BY AllFacts
  <2>. QED BY <2>1 DEF Listed
<1> HIDE DEF n, k
<1>3. /\ Len(os1) = n + k + 1 /\ os1[n + k + 1] = o
      /\ \A i \in 1 .. (n + k) : os1[i] = os[i]
  <2>1. IsSeq(os)
    BY <1>2, SeqIsSeq
  <2> HIDE DEF os
  <2>2. /\ Len(Append(os, o)) = Len(os) + 1
        /\ \A i \in 1 .. Len(os) : Append(os, o)[i] = os[i]
        /\ Append(os, o)[Len(os) + 1] = o
    BY <2>1, AppendIsSeq
  <2>. QED BY <2>2, <1>2
<1>4. \A i \in 1 .. (n + k) :
          /\ os[i].id # o.id /\ ~(os[i].side = "Ask" /\ s = "Bid")
          /\ os[i].side = s => ~Better(s, o.price, os[i].price)
  <2> TAKE i \in 1 .. (n + k)
  <2>1. \A j, l \in 1 .. Len(os1) : j < l =>
          /\ os1[j].id # os1[l].id
          /\ ~(os1[j].side = "Ask" /\ os1[l].side = "Bid")
          /\ os1[j].side = os1[l].side => ~Better(os1[j].side, os1[l].price, os1[j].price)
    BY DEF ListOK
  <2>2. i \in 1 .. Len(os1) /\ n + k + 1 \in 1 .. Len(os1) /\ i < n + k + 1
    BY <1>2, <1>3
  <2> HIDE DEF os1, os, s
  <2>3. /\ os1[i].id # os1[n + k + 1].id
        /\ ~(os1[i].side = "Ask" /\ os1[n + k + 1].side = "Bid")
        /\ os1[i].side = os1[n + k + 1].side
             => ~Better(os1[i].side, os1[n + k + 1].price, os1[i].price)
    BY <2>1, <2>2
  <2>4. os1[i] = os[i] /\ os1[n + k + 1] = o
    BY <1>3
  <2>. QED BY <2>3, <2>4 DEF s
<1>5. ~HasId(b, o.id)
  <2>1. \A id \in Ids(b) : id # o.id
    BY <1>2, <1>4 DEF Ids
  <2>. QED BY <2>1, IdsFacts
<1>6. BookOK(prices, c)
  BY <1>5, InsertBook
<1>7. c = [b EXCEPT ![s] = r]
  BY DEF Insert
<1>8. /\ r \in Seq(Orders(prices)) /\ InsertedAt(r, q, p, o)
      /\ (\A i \in 1 .. Len(q) : ~Better(s, o.price, q[i].price)) => p = Len(q) + 1
  BY <1>1, InsertPlace
<1>9. /\ (\A i \in 1 .. n : os[i].side = "Bid") /\ (\A i \in 1 .. k : os[n + i].side = "Ask")
  <2>1. (\A i \in 1 .. n : bids[i].side = "Bid") /\ (\A i \in 1 .. k : asks[i].side = "Ask")
    BY DEF BookOK, Queue, Sides, n, k
  <2>. QED BY <1>2, <2>1
<1> HIDE DEF r, c, p, os, os1
<1>10. \A i \in 1 .. Len(q) : ~Better(s, o.price, q[i].price)
  <2>1. CASE s = "Bid"
    <3>1. q = bids
      BY <2>1
    <3>2. ASSUME NEW i \in 1 .. n PROVE ~Better(s, o.price, bids[i].price)
      <4>1. i \in 1 .. (n + k)
        BY <1>2
      <4>. QED BY <4>1, <2>1, <1>2, <1>4, <1>9
    <3>. QED BY <3>1, <3>2 DEF n
  <2>2. CASE s = "Ask"
    <3>1. q = asks
      BY <2>2
    <3>2. ASSUME NEW i \in 1 .. k PROVE ~Better(s, o.price, asks[i].price)
      <4>1. n + i \in 1 .. (n + k)
        BY <1>2
      <4>. QED BY <4>1, <2>2, <1>2, <1>4, <1>9
    <3>. QED BY <3>1, <3>2 DEF k
  <2>. QED BY <1>1, <2>1, <2>2 DEF Sides
<1>11. /\ Len(r) = Len(q) + 1 /\ r[Len(q) + 1] = o
       /\ \A i \in 1 .. Len(q) : r[i] = q[i]
  <2>1. Len(q) \in Nat
    BY <1>1
  <2> HIDE DEF q
  <2>2. /\ p = Len(q) + 1 /\ Len(r) = Len(q) + 1
        /\ \A i \in 1 .. Len(r) : r[i] = IF i < p THEN q[i] ELSE IF i = p THEN o ELSE q[i - 1]
    BY <1>8, <1>10 DEF InsertedAt
  <2> DEFINE m == Len(q)
  <2>3. m \in Nat /\ p = m + 1 /\ m + 1 \in 1 .. Len(r) /\ \A i \in 1 .. m : i \in 1 .. Len(r) /\ i < p
    BY <2>1, <2>2
  <2> HIDE DEF m
  <2>4. r[m + 1] = o
    BY <2>2, <2>3
  <2>5. \A i \in 1 .. m : r[i] = q[i]
    BY <2>2, <2>3
  <2>. QED BY <2>2, <2>4, <2>5 DEF m
<1>12. /\ All(c) \in Seq(Orders(prices)) /\ Len(All(c)) = Len(c["Bid"]) + Len(c["Ask"])
       /\ \A i \in 1 .. Len(c["Bid"]) : All(c)[i] = c["Bid"][i]
       /\ \A i \in 1 .. Len(c["Ask"]) : All(c)[Len(c["Bid"]) + i] = c["Ask"][i]
  <2>1. Listed(prices, c)
    BY <1>6, AllFacts
  <2>. QED BY <2>1 DEF Listed
<1>13. IsSeq(All(c)) /\ IsSeq(os1)
  BY <1>2, <1>12, SeqIsSeq, AppendIsSeq DEF os1
<1>14. CASE s = "Bid"
  <2>1. k = 0
    <3>1. ASSUME k # 0 PROVE FALSE
      <4>1. n + 1 \in 1 .. (n + k) /\ 1 \in 1 .. k
        BY <1>2, <3>1
      <4>. QED BY <4>1, <1>4, <1>9, <1>14
    <3>. QED BY <3>1
  <2>2. c["Bid"] = r /\ c["Ask"] = asks /\ q = bids
    BY <1>1, <1>7, <1>14 DEF Sides
  <2>3. Len(r) = n + 1 /\ r[n + 1] = o /\ \A i \in 1 .. n : r[i] = bids[i]
    BY <1>11, <2>2 DEF n
  <2>4. Len(All(c)) = n + 1 /\ Len(os1) = n + 1
    <3>1. Len(All(c)) = Len(r) + k
      BY <1>12, <2>2 DEF k
    <3>. QED BY <3>1, <1>2, <1>3, <2>1, <2>3
  <2>5. ASSUME NEW i \in 1 .. (n + 1) PROVE All(c)[i] = os1[i]
    <3>1. All(c)[i] = r[i]
      BY <1>12, <2>2, <2>3
    <3>2. CASE i = n + 1
      <4>1. n + k + 1 = i
        BY <1>2, <2>1, <3>2
      <4>2. os1[i] = o /\ r[i] = o
        BY <1>3, <2>3, <3>2, <4>1
      <4>. QED BY <3>1, <4>2
    <3>3. CASE i \in 1 .. n
      <4>1. i \in 1 .. (n + k)
        BY <1>2, <3>3
      <4>. QED BY <3>1, <3>3, <4>1, <1>2, <1>3, <2>3
    <3>. QED BY <1>2, <3>2, <3>3
  <2>6. All(c) = os1
    BY <2>4, <2>5, <1>13, SameSeq
  <2>. QED BY <2>6, <1>6 DEF c, os1, os
<1>15. CASE s = "Ask"
  <2>2. c["Ask"] = r /\ c["Bid"] = bids /\ q = asks
    BY <1>1, <1>7, <1>15 DEF Sides
  <2>3. Len(r) = k + 1 /\ r[k + 1] = o /\ \A i \in 1 .. k : r[i] = asks[i]
    BY <1>11, <2>2 DEF k
  <2>4. Len(All(c)) = n + (k + 1) /\ Len(os1) = n + (k + 1)
    <3>1. Len(All(c)) = n + Len(r)
      BY <1>12, <2>2 DEF n
    <3>. QED BY <3>1, <1>2, <1>3, <2>3
  <2>5. ASSUME NEW i \in 1 .. (n + (k + 1)) PROVE All(c)[i] = os1[i]
    <3>1. CASE i \in 1 .. n
      <4>1. i \in 1 .. (n + k)
        BY <1>2, <3>1
      <4>2. All(c)[i] = bids[i]
        BY <1>12, <2>2, <3>1 DEF n
      <4>. QED BY <3>1, <4>1, <4>2, <1>2, <1>3
    <3>2. CASE i > n
      <4>1. i - n \in 1 .. (k + 1) /\ n + (i - n) = i
        BY <1>2, <3>2
      <4>2. All(c)[n + (i - n)] = r[i - n]
        BY <1>12, <2>2, <2>3, <4>1 DEF n
      <4>3. CASE i = n + k + 1
        <5>1. i - n = k + 1
          BY <1>2, <4>3
        <5>. QED BY <4>1, <4>2, <4>3, <5>1, <1>3, <2>3
      <4>4. CASE i <= n + k
        <5>1. i \in 1 .. (n + k) /\ i - n \in 1 .. k
          BY <1>2, <3>2, <4>4
        <5>2. os1[i] = os[n + (i - n)] /\ os[n + (i - n)] = asks[i - n]
          BY <1>2, <1>3, <4>1, <5>1
        <5>3. r[i - n] = asks[i - n]
          BY <2>3, <5>1
        <5>. QED BY <4>1, <4>2, <5>2, <5>3
      <4>. QED BY <1>2, <4>3, <4>4
    <3>. QED BY <1>2, <3>1, <3>2
  <2>6. All(c) = os1
    BY <2>4, <2>5, <1>13, SameSeq
  <2>. QED BY <2>6, <1>6 DEF c, os1, os
<1>. QED BY <1>1, <1>14, <1>15 DEF Sides

-----------------------------------------------------------------------------
(* Matching *)

Taker(t) ==
    /\ t.id \in Nat /\ t.side \in Sides /\ t.bounded \in BOOLEAN /\ t.bound \in Int
    /\ t.qty \in Nat

\* If whatever stands before a kept element is kept too, Keep takes a prefix.
LEMMA KeepPrefix ==
    ASSUME NEW X, NEW q \in Seq(X), NEW S,
           \A j, k \in 1 .. Len(q) : j < k /\ q[k] \in S => q[j] \in S
    PROVE  \A i \in 1 .. Len(Keep(q, S)) : Keep(q, S)[i] = q[i] /\ q[i] \in S
<1> DEFINE r == Keep(q, S)
           m == Len(r)
           n == Len(q)
<1>1. r \in Seq(X) /\ KeptOf(r, q, S)
  BY KeepFacts
<1> HIDE DEF r
<1>2. PICK f : Embeds(f, r, q, S)
  BY <1>1 DEF KeptOf
<1>3. /\ m \in Nat /\ n \in Nat /\ f \in [1 .. m -> 1 .. n]
      /\ \A i, j \in 1 .. m : i < j => f[i] < f[j]
      /\ \A i \in 1 .. m : r[i] = q[f[i]] /\ r[i] \in S
      /\ \A k \in 1 .. n : q[k] \in S => \E i \in 1 .. m : f[i] = k
  <2>1. m \in Nat /\ n \in Nat
    BY <1>1
  <2>. QED BY <2>1, <1>2 DEF Embeds
<1>4. \A j, k \in 1 .. n : j < k /\ q[k] \in S => q[j] \in S
  OBVIOUS
<1> HIDE DEF m, n
<1> DEFINE Good == {0} \cup {i \in 1 .. m : f[i] = i}
<1>5. 0 \in Good
  OBVIOUS
<1>6. ASSUME NEW i \in 1 .. m, i - 1 \in Good PROVE i \in Good
  <2>1. f[i] >= i
    <3>1. CASE i = 1
      BY <1>3, <3>1
    <3>2. CASE i > 1
      <4>1. i - 1 \in 1 .. m /\ f[i - 1] = i - 1 /\ f[i - 1] < f[i] /\ f[i] \in 1 .. n
        BY <1>3, <1>6, <3>2
      <4>. QED BY <4>1
    <3>. QED BY <3>1, <3>2
  <2>2. ASSUME f[i] > i PROVE FALSE
    <3>1. f[i] \in 1 .. n /\ q[f[i]] \in S /\ i \in 1 .. n
      BY <1>3, <2>2
    <3>2. q[i] \in S
      BY <1>4, <2>2, <3>1
    <3>3. PICK l \in 1 .. m : f[l] = i
      BY <1>3, <3>1, <3>2
    <3>4. CASE l >= i
      <4>1. l = i \/ f[i] < f[l]
        BY <1>3, <3>4
      <4>. QED BY <4>1, <2>2, <3>1, <3>3
    <3>5. CASE l < i
      <4>1. i - 1 \in 1 .. m /\ f[i - 1] = i - 1 /\ (l = i - 1 \/ l < i - 1)
        BY <1>3, <1>6, <3>5
      <4>2. l = i - 1 \/ f[l] < f[i - 1]
        BY <1>3, <4>1
      <4>. QED BY <4>1, <4>2, <3>3
    <3>. QED BY <3>4, <3>5
  <2>3. f[i] \in 1 .. n
    BY <1>3
  <2>4. f[i] = i
    BY <2>1, <2>2, <2>3
  <2>. QED BY <2>4
<1> HIDE DEF Good
<1>7. \A i \in 0 .. m : i \in Good
  BY <1>3, <1>5, <1>6, CountUp
<1>8. ASSUME NEW i \in 1 .. m PROVE r[i] = q[i] /\ q[i] \in S
  <2>1. i \in Good
    BY <1>3, <1>7
  <2>2. f[i] = i
    BY <2>1 DEF Good
  <2>. QED BY <2>2, <1>3
<1>. QED BY <1>8 DEF r, m

\* r is the front of q.
FrontOf(prices, side, q, r) ==
    /\ Queue(prices, side, q)
    /\ r \in Seq(Orders(prices)) /\ Len(r) <= Len(q)
    /\ \A i \in 1 .. Len(r) : r[i] = q[i]

\* The reach of a taker is the front of the other side.
LEMMA ReachFacts ==
    ASSUME NEW prices, prices \subseteq Int, NEW b, BookOK(prices, b), NEW t, Taker(t)
    PROVE  /\ Other(t.side) \in Sides
           /\ FrontOf(prices, Other(t.side), b[Other(t.side)], Reach(b, t))
<1> DEFINE side == Other(t.side)
           q == b[side]
           S == {o \in ToSet(q) : t.bounded => ~Better(t.side, o.price, t.bound)}
           r == Reach(b, t)
<1>1. side \in Sides /\ t.side \in Sides /\ side # t.side
  BY DEF Other, Sides, Taker
<1>2. Queue(prices, side, q)
  BY <1>1 DEF BookOK
<1>3. r = Keep(q, S)
  BY DEF Reach
<1>4. /\ q \in Seq(Orders(prices)) /\ \A k \in 1 .. Len(q) : q[k].price \in Int
      /\ \A i, j \in 1 .. Len(q) : i < j => ~Better(side, q[j].price, q[i].price)
  BY <1>2, QueueFacts
<1>5. \A k \in 1 .. Len(q) : q[k] \in S <=> (t.bounded => ~Better(t.side, q[k].price, t.bound))
  BY <1>4 DEF ToSet
<1> HIDE DEF r, S
<1>6. r \in Seq(Orders(prices)) /\ KeptOf(r, q, S)
  BY <1>3, <1>4, KeepFacts
<1>7. ASSUME NEW j \in 1 .. Len(q), NEW k \in 1 .. Len(q), j < k, q[k] \in S PROVE q[j] \in S
  <2>1. ~Better(side, q[k].price, q[j].price)
    BY <1>4, <1>7
  <2>2. q[j].price \in Int /\ q[k].price \in Int /\ t.bound \in Int
    BY <1>4 DEF Taker
  <2>3. ~Better(t.side, q[k].price, t.bound) => ~Better(t.side, q[j].price, t.bound)
    <3> DEFINE x == q[j].price
               y == q[k].price
               z == t.bound
    <3>1. x \in Int /\ y \in Int /\ z \in Int /\ ~Better(side, y, x)
      BY <2>1, <2>2
    <3> HIDE DEF x, y, z
    <3>2. ~Better(t.side, y, z) => ~Better(t.side, x, z)
      BY <3>1, <1>1 DEF Better, Other, Sides
    <3>. QED BY <3>2 DEF x, y, z
  <2>. QED BY <1>5, <1>7, <2>3
<1>8. \A i \in 1 .. Len(r) : r[i] = q[i]
  BY <1>3, <1>4, <1>7, KeepPrefix
<1>9. Len(r) <= Len(q)
  BY <1>6 DEF KeptOf
<1>. QED BY <1>1, <1>2, <1>6, <1>8, <1>9 DEF r, FrontOf

\* The quantity ahead of an order, and what it gives to a taker.
LEMMA FillFacts ==
    ASSUME NEW prices, prices \subseteq Int, NEW q \in Seq(Orders(prices)), NEW n \in Nat
    PROVE  /\ \A i \in 1 .. (Len(q) + 1) : Ahead(q, i) \in Nat
           /\ Depth(q) \in Nat
           /\ \A i \in 1 .. Len(q) : FillOf(q, i, n) \in 0 .. q[i].qty /\ q[i].qty \in Nat
<1> DEFINE m == Len(q)
           f == [k \in 1 .. m |-> q[k].qty]
<1>1. m \in Nat /\ \A k \in 1 .. m : q[k].qty \in Nat
  <2>1. \A k \in 1 .. m : q[k] \in Orders(prices)
    OBVIOUS
  <2>2. \A o \in Orders(prices) : o.qty \in Nat
    BY DEF Orders
  <2>. QED BY <2>1, <2>2
<1>2. ASSUME NEW i \in 1 .. (m + 1) PROVE Ahead(q, i) \in Nat
  <2>1. IsFiniteSet(1 .. (i - 1))
    BY <1>1, FS_Interval
  <2>2. \A x \in 1 .. (i - 1) : f[x] \in Nat
    BY <1>1
  <2>3. Ahead(q, i) = SumFunctionOnSet(f, 1 .. (i - 1))
    BY DEF Ahead
  <2> HIDE DEF f
  <2>. QED BY <2>1, <2>2, <2>3, SumNat
<1>3. Depth(q) \in Nat
  <2>1. m + 1 \in 1 .. (m + 1)
    BY <1>1
  <2>. QED BY <2>1, <1>2 DEF Depth
<1>4. ASSUME NEW i \in 1 .. m PROVE FillOf(q, i, n) \in 0 .. q[i].qty
  <2> DEFINE x == q[i].qty
             y == n - Ahead(q, i)
             least == Min({x, y})
             fill == Max({0, least})
  <2>1. i \in 1 .. (m + 1)
    BY <1>1
  <2>2. x \in Nat /\ y \in Int /\ x \in Int
    BY <1>1, <1>2, <2>1
  <2> HIDE DEF x, y
  <2>3. (least = x \/ least = y) /\ least <= x /\ least <= y
    BY <2>2, MinOfTwo
  <2>4. least \in Int /\ 0 \in Int
    BY <2>2, <2>3
  <2> HIDE DEF least
  <2>5. (fill = 0 \/ fill = least) /\ 0 <= fill
    BY <2>4, MaxOfTwo
  <2>6. FillOf(q, i, n) = fill
    BY DEF FillOf, fill, least, x, y
  <2> HIDE DEF fill
  <2>7. fill \in 0 .. x
    BY <2>2, <2>3, <2>4, <2>5
  <2>. QED BY <2>6, <2>7 DEF x
<1>. QED BY <1>1, <1>2, <1>3, <1>4

\* The fills leave a book in order, with no more orders than before.
LEMMA FilledFacts ==
    ASSUME NEW prices, prices \subseteq Int, NEW b, BookOK(prices, b), NEW t, Taker(t)
    PROVE  /\ BookOK(prices, Filled(b, t)) /\ Total(Filled(b, t)) <= Total(b)
           /\ \A id : HasId(Filled(b, t), id) => HasId(b, id)
<1>17. Other(t.side) \in Sides /\ FrontOf(prices, Other(t.side), b[Other(t.side)], Reach(b, t))
  BY ReachFacts
<1> DEFINE r == Reach(b, t)
           side == Other(t.side)
           q == b[side]
           reduced == [i \in 1 .. Len(q) |->
                         IF i <= Len(r) THEN [q[i] EXCEPT !.qty = @ - FillOf(r, i, t.qty)] ELSE q[i]]
           kept == Keep(reduced, {o \in ToSet(reduced) : o.qty > 0})
           c == Filled(b, t)
<1>1. /\ side \in Sides /\ Queue(prices, side, q)
      /\ r \in Seq(Orders(prices)) /\ Len(r) <= Len(q)
      /\ \A i \in 1 .. Len(r) : r[i] = q[i]
  BY <1>17 DEF FrontOf
<1>2. c = [b EXCEPT ![side] = kept]
  BY DEF Filled
<1> HIDE DEF side, r, c
<1>3. /\ q \in Seq(Orders(prices)) /\ Len(q) \in Nat
      /\ \A i \in 1 .. Len(q) : q[i] \in Orders(prices)
  BY <1>1, QueueFacts
<1>4. \A i \in 1 .. Len(r) : FillOf(r, i, t.qty) \in 0 .. r[i].qty /\ r[i].qty \in Nat
  BY <1>1, FillFacts DEF Taker
<1> DEFINE R == [id : Nat, side : Sides, price : prices, qty : Nat, tif : Tifs]
<1>5. ASSUME NEW o \in Orders(prices), NEW n \in 0 .. o.qty
      PROVE  /\ [o EXCEPT !.qty = @ - n] \in R /\ o \in R
             /\ [o EXCEPT !.qty = @ - n].id = o.id /\ [o EXCEPT !.qty = @ - n].side = o.side
             /\ [o EXCEPT !.qty = @ - n].price = o.price
  BY DEF Orders
<1> HIDE DEF q
<1>6. ASSUME NEW i \in 1 .. Len(q)
      PROVE  /\ reduced[i] \in R /\ reduced[i].id = q[i].id
             /\ reduced[i].side = q[i].side /\ reduced[i].price = q[i].price
  <2>1. reduced[i] = IF i <= Len(r) THEN [q[i] EXCEPT !.qty = @ - FillOf(r, i, t.qty)] ELSE q[i]
    OBVIOUS
  <2> HIDE DEF reduced, R
  <2>2. Len(r) \in Nat
    BY <1>1
  <2>3. CASE i <= Len(r)
    <3>1. i \in 1 .. Len(r)
      BY <2>2, <2>3
    <3>2. q[i] \in Orders(prices) /\ FillOf(r, i, t.qty) \in 0 .. q[i].qty
      BY <1>1, <1>3, <1>4, <3>1
    <3>. QED BY <2>1, <2>3, <3>2, <1>5
  <2>4. CASE ~(i <= Len(r))
    <3>1. 0 \in 0 .. q[i].qty /\ q[i] \in Orders(prices)
      BY <1>3 DEF Orders
    <3>. QED BY <2>1, <2>4, <3>1, <1>5
  <2>. QED BY <2>3, <2>4
<1>7. reduced \in Seq(R) /\ Len(reduced) = Len(q)
  <2>1. reduced \in [1 .. Len(q) -> R]
    <3> HIDE DEF R
    <3>. QED BY <1>6
  <2> HIDE DEF reduced, R
  <2>. QED BY <1>3, <2>1
<1> HIDE DEF reduced, R
<1> DEFINE S == {o \in ToSet(reduced) : o.qty > 0}
<1>8. kept \in Seq(R) /\ KeptOf(kept, reduced, S)
  <2>1. Keep(reduced, S) \in Seq(R) /\ KeptOf(Keep(reduced, S), reduced, S)
    <3> HIDE DEF S
    <3>. QED BY <1>7, KeepFacts
  <2>. QED BY <2>1
<1>9. \A o \in S : o.qty > 0
  OBVIOUS
<1> HIDE DEF kept, S
<1>10. PICK f : Embeds(f, kept, reduced, S)
  BY <1>8 DEF KeptOf
<1>11. kept \in Seq(Orders(prices))
  <2>1. ASSUME NEW i \in 1 .. Len(kept) PROVE kept[i] \in Orders(prices)
    <3>1. kept[i] \in R /\ kept[i].qty > 0
      BY <1>8, <1>9, <1>10 DEF Embeds
    <3>. QED BY <3>1 DEF R, Orders
  <2>2. Len(kept) \in Nat /\ kept = [i \in 1 .. Len(kept) |-> kept[i]]
    BY <1>8
  <2> DEFINE n == Len(kept)
  <2>3. kept \in [1 .. n -> Orders(prices)] /\ n \in Nat
    BY <2>1, <2>2
  <2> HIDE DEF n
  <2>. QED BY <2>3
<1>12. Thinned(kept, q)
  <2>1. f \in [1 .. Len(kept) -> 1 .. Len(q)]
    BY <1>7, <1>10 DEF Embeds
  <2>2. Within(f, kept, q)
    BY <2>1, <1>6, <1>10 DEF Embeds, Within
  <2>3. Len(kept) <= Len(q)
    BY <1>7, <1>8 DEF KeptOf
  <2>. QED BY <2>2, <2>3 DEF Thinned
<1>13. b \in [Sides -> Seq(Orders(prices))]
  BY DEF BookOK
<1>14. c \in [Sides -> Seq(Orders(prices))]
  BY <1>1, <1>2, <1>11, <1>13
<1>15. ASSUME NEW s \in Sides PROVE Thinned(c[s], b[s])
  <2>1. CASE s = side
    BY <2>1, <1>1, <1>2, <1>12, <1>13 DEF q
  <2>2. CASE s # side
    <3>1. c[s] = b[s] /\ Len(b[s]) \in Nat
      BY <2>2, <1>1, <1>2, <1>13
    <3> DEFINE g == [i \in 1 .. Len(b[s]) |-> i]
    <3>2. Within(g, b[s], b[s])
      BY <3>1 DEF Within
    <3>3. Len(b[s]) <= Len(b[s])
      BY <3>1
    <3>. QED BY <3>1, <3>2, <3>3 DEF Thinned
  <2>. QED BY <2>1, <2>2
<1>16. /\ BookOK(prices, c) /\ Total(c) <= Total(b)
       /\ \A id : HasId(c, id) => HasId(b, id)
  BY <1>14, <1>15, ThinnedBook
<1>. QED BY <1>16 DEF c

-----------------------------------------------------------------------------
(* Answers *)

\* Sequences of elements of E strung together are one.
LEMMA FlattenFacts ==
    ASSUME NEW E, NEW ss \in Seq(Seq(E))
    PROVE  FlattenSeq(ss) \in Seq(E)
<1> DEFINE n == Len(ss)
           step == [a \in (1 .. n) \X Seq(E) |-> IF a[1] = 1 THEN ss[a[1]] ELSE a[2] \o ss[a[1]]]
           Flat(f) == f = [i \in 1 .. Len(ss) |-> IF i = 1 THEN ss[i] ELSE f[i - 1] \o ss[i]]
           flat == CHOOSE f : Flat(f)
<1>1. n \in Nat /\ \A i \in 1 .. n : ss[i] \in Seq(E)
  OBVIOUS
<1>2. CASE n = 0
  <2>1. FlattenSeq(ss) = ss /\ ss = <<>>
    BY <1>2 DEF FlattenSeq
  <2>. QED BY <2>1
<1>3. CASE n # 0
  <2>1. FlattenSeq(ss) = flat[n]
    BY <1>3 DEF FlattenSeq
  <2>2. step \in [(1 .. n) \X Seq(E) -> Seq(E)]
    <3>1. ASSUME NEW a \in (1 .. n) \X Seq(E)
          PROVE  (IF a[1] = 1 THEN ss[a[1]] ELSE a[2] \o ss[a[1]]) \in Seq(E)
      <4>1. ss[a[1]] \in Seq(E) /\ a[2] \in Seq(E)
        BY <1>1
      <4>. QED BY <4>1
    <3>. QED BY <3>1
  <2>3. PICK f : Steps(f, n, Seq(E), <<>>, step)
    <3> HIDE DEF step, n
    <3>1. <<>> \in Seq(E)
      OBVIOUS
    <3>. QED BY <1>1, <2>2, <3>1, StepsExist
  <2> DEFINE g == [i \in 1 .. n |-> f[i]]
             G == [i \in 1 .. n |-> IF i = 1 THEN ss[i] ELSE g[i - 1] \o ss[i]]
  <2>4. f \in [0 .. n -> Seq(E)] /\ \A i \in 1 .. n : f[i] = step[<<i, f[i - 1]>>]
    BY <2>3 DEF Steps
  <2>5. \A i \in 1 .. n : f[i - 1] \in Seq(E)
    <3> TAKE i \in 1 .. n
    <3> HIDE DEF step, n
    <3>1. i - 1 \in 0 .. n
      BY <1>1
    <3>. QED BY <2>4, <3>1
  <2>6. \A i \in 1 .. n : f[i] = IF i = 1 THEN ss[i] ELSE f[i - 1] \o ss[i]
    BY <2>4, <2>5
  <2>7. \A i \in 1 .. n : g[i] = G[i]
    <3> TAKE i \in 1 .. n
    <3>1. CASE i = 1
      BY <3>1, <2>6
    <3>2. CASE i # 1
      <4>1. i - 1 \in 1 .. n
        BY <1>1, <3>2
      <4>2. g[i] = f[i] /\ g[i - 1] = f[i - 1] /\ G[i] = g[i - 1] \o ss[i]
        BY <3>2, <4>1
      <4> HIDE DEF g, G
      <4>. QED BY <3>2, <4>2, <2>6
    <3>. QED BY <3>1, <3>2
  <2>8. Flat(g)
    <3>1. g = [i \in 1 .. n |-> g[i]] /\ G = [i \in 1 .. n |-> G[i]]
      OBVIOUS
    <3>2. g = G
      <4> HIDE DEF g, G
      <4>. QED BY <2>7, <3>1
    <3>. QED BY <3>2
  <2>9. Flat(flat)
    BY <2>8
  <2> HIDE DEF flat
  <2>10. \A i \in 1 .. n : flat[i] = IF i = 1 THEN ss[i] ELSE flat[i - 1] \o ss[i]
    BY <2>9
  <2> DEFINE Good == {0} \cup {i \in 1 .. n : flat[i] \in Seq(E)}
  <2>11. 0 \in Good
    OBVIOUS
  <2>12. ASSUME NEW i \in 1 .. n, i - 1 \in Good PROVE i \in Good
    <3>1. CASE i = 1
      BY <3>1, <1>1, <2>10
    <3>2. CASE i # 1
      <4>1. i - 1 # 0
        BY <3>2
      <4>2. flat[i - 1] \in Seq(E) /\ ss[i] \in Seq(E)
        BY <4>1, <1>1, <2>12
      <4>3. flat[i] = flat[i - 1] \o ss[i]
        BY <2>10, <3>2
      <4>4. flat[i] \in Seq(E)
        BY <4>2, <4>3
      <4>. QED BY <4>4
    <3>. QED BY <3>1, <3>2
  <2> HIDE DEF Good, n
  <2>13. \A i \in 0 .. n : i \in Good
    BY <1>1, <2>11, <2>12, CountUp
  <2>14. n \in Good
    BY <1>1, <2>13
  <2>. QED BY <1>3, <2>1, <2>14 DEF Good
<1>. QED BY <1>2, <1>3

\* The events of the fills are a sequence.
LEMMA FillEventsFacts ==
    ASSUME NEW q, NEW t, Len(q) \in Nat
    PROVE  IsSeq(FillEvents(q, t))
<1> DEFINE n == Len(q)
           fill(i) == FillOf(q, i, t.qty)
           trade(i) == [kind |-> "Trade", maker |-> q[i].id, taker |-> t.id,
                        price |-> q[i].price, qty |-> fill(i)]
           closed(i) == [kind |-> "Closed", id |-> q[i].id, reason |-> "Filled"]
           E == {trade(i) : i \in 1 .. n} \cup {closed(i) : i \in 1 .. n}
           ev == [i \in 1 .. n |-> IF fill(i) = 0 THEN <<>>
                                   ELSE IF fill(i) = q[i].qty THEN <<trade(i), closed(i)>>
                                   ELSE <<trade(i)>>]
<1>1. FillEvents(q, t) = FlattenSeq(ev)
  BY DEF FillEvents
<1>2. \A i \in 1 .. n : trade(i) \in E /\ closed(i) \in E
  OBVIOUS
<1> HIDE DEF trade, closed, E, fill
<1>3. \A i \in 1 .. n : ev[i] \in Seq(E)
  <2> TAKE i \in 1 .. n
  <2>1. <<>> \in Seq(E) /\ <<trade(i), closed(i)>> \in Seq(E) /\ <<trade(i)>> \in Seq(E)
    BY <1>2
  <2>. QED BY <2>1
<1>4. ev \in Seq(Seq(E))
  <2>1. ev \in [1 .. n -> Seq(E)]
    BY <1>3
  <2> HIDE DEF ev, n
  <2>2. n \in Nat
    BY DEF n
  <2>. QED BY <2>1, <2>2
<1> HIDE DEF ev
<1>5. FlattenSeq(ev) \in Seq(E)
  BY <1>4, FlattenFacts
<1>. QED BY <1>1, <1>5, SeqIsSeq

\* What an execution leaves: the fills, and where the remainder may rest.
Executed(prices, b, t) ==
    /\ Remainder(b, t) \in Nat
    /\ BookOK(prices, Filled(b, t)) /\ Total(Filled(b, t)) <= Total(b)
    /\ Total(Filled(b, t)) \in Nat
    /\ \A x : IsSeq(Append(FillEvents(Reach(b, t), t), x))
    /\ \A tif \in Tifs : Remainder(b, t) # 0 /\ t.bound \in prices =>
          LET c == Insert(Filled(b, t), [id |-> t.id, side |-> t.side, price |-> t.bound,
                                         qty |-> Remainder(b, t), tif |-> tif])
          IN  BookOK(prices, c) /\ Total(c) = Total(Filled(b, t)) + 1

\* It is so for any taker whose id does not rest.
LEMMA ExecuteFacts ==
    ASSUME NEW prices, prices \subseteq Int, NEW b, BookOK(prices, b), NEW t, Taker(t),
           ~HasId(b, t.id)
    PROVE  Executed(prices, b, t)
<1> DEFINE r == Reach(b, t)
           c == Filled(b, t)
           left == Remainder(b, t)
<1>1. FrontOf(prices, Other(t.side), b[Other(t.side)], r)
  BY ReachFacts
<1>2. r \in Seq(Orders(prices)) /\ Len(r) \in Nat
  BY <1>1 DEF FrontOf
<1>3. Depth(r) \in Nat
  BY <1>2, FillFacts DEF Taker
<1>4. left \in Nat
  <2> DEFINE x == t.qty - Depth(r)
  <2>1. x \in Int /\ 0 \in Int
    BY <1>3 DEF Taker
  <2>2. left = Max({0, x})
    BY DEF Remainder
  <2> HIDE DEF x, left
  <2>3. (Max({0, x}) = 0 \/ Max({0, x}) = x) /\ 0 <= Max({0, x})
    BY <2>1, MaxOfTwo
  <2>. QED BY <2>1, <2>2, <2>3
<1>5. /\ BookOK(prices, c) /\ Total(c) <= Total(b)
      /\ \A id : HasId(c, id) => HasId(b, id)
  BY FilledFacts
<1>6. Total(c) \in Nat
  BY <1>5, TotalNat
<1>7. ASSUME NEW x PROVE IsSeq(Append(FillEvents(r, t), x))
  BY <1>2, FillEventsFacts, AppendIsSeq
<1>8. ASSUME NEW tif \in Tifs, left # 0, t.bound \in prices
      PROVE  LET o == [id |-> t.id, side |-> t.side, price |-> t.bound, qty |-> left, tif |-> tif]
             IN  BookOK(prices, Insert(c, o)) /\ Total(Insert(c, o)) = Total(c) + 1
  <2> DEFINE o == [id |-> t.id, side |-> t.side, price |-> t.bound, qty |-> left, tif |-> tif]
  <2>1. o \in Orders(prices) /\ o.id = t.id
    <3> HIDE DEF left
    <3>. QED BY <1>4, <1>8 DEF Orders, Taker
  <2>2. ~HasId(c, o.id)
    BY <1>5, <2>1
  <2> HIDE DEF o, c, left
  <2>3. BookOK(prices, Insert(c, o)) /\ Total(Insert(c, o)) = Total(c) + 1
    BY <1>5, <2>1, <2>2, InsertBook
  <2>. QED BY <2>3 DEF o
<1>. QED BY <1>4, <1>5, <1>6, <1>7, <1>8 DEF Executed

\* A book in order without an order.
LEMMA WithoutFacts ==
    ASSUME NEW prices, prices \subseteq Int, NEW b, BookOK(prices, b), NEW id
    PROVE  /\ BookOK(prices, Without(b, id)) /\ ~HasId(Without(b, id), id)
           /\ Total(Without(b, id)) <= Total(b)
           /\ HasId(b, id) => Total(Without(b, id)) < Total(b)
<1> DEFINE c == Without(b, id)
           S(s) == {o \in ToSet(b[s]) : o.id # id}
<1>1. b \in [Sides -> Seq(Orders(prices))]
  BY DEF BookOK
<1>2. c = [s \in Sides |-> Keep(b[s], S(s))]
  BY <1>1 DEF Without
<1>3. \A s \in Sides : \A k \in 1 .. Len(b[s]) : b[s][k] \in S(s) <=> b[s][k].id # id
  BY <1>1 DEF ToSet
<1>9. \A s \in Sides : \A o \in S(s) : o.id # id
  OBVIOUS
<1> HIDE DEF c, S
<1>4. ASSUME NEW s \in Sides
      PROVE  c[s] \in Seq(Orders(prices)) /\ KeptOf(c[s], b[s], S(s))
  <2>1. b[s] \in Seq(Orders(prices)) /\ c[s] = Keep(b[s], S(s))
    BY <1>1, <1>2
  <2>. QED BY <2>1, KeepFacts
<1>5. c \in [Sides -> Seq(Orders(prices))]
  BY <1>2, <1>4
<1>6. BookOK(prices, c) /\ Total(c) <= Total(b)
  BY <1>4, <1>5, KeptIsThinned, ThinnedBook
<1>7. ~HasId(c, id)
  <2>1. ASSUME NEW s \in Sides, NEW i \in 1 .. Len(c[s]) PROVE c[s][i].id # id
    <3>1. PICK f : Embeds(f, c[s], b[s], S(s))
      BY <1>4 DEF KeptOf
    <3>2. c[s][i] \in S(s)
      BY <3>1 DEF Embeds
    <3>. QED BY <3>2, <1>9
  <2>. QED BY <2>1 DEF HasId
<1>8. ASSUME HasId(b, id) PROVE Total(c) < Total(b)
  <2>1. PICK s \in Sides : \E i \in 1 .. Len(b[s]) : b[s][i].id = id
    BY <1>8 DEF HasId
  <2>2. \E k \in 1 .. Len(b[s]) : b[s][k] \notin S(s)
    BY <2>1, <1>3
  <2>3. Len(c[s]) < Len(b[s])
    BY <2>2, <1>4 DEF KeptOf
  <2> DEFINE cb == Len(c["Bid"])
             ca == Len(c["Ask"])
             bb == Len(b["Bid"])
             ba == Len(b["Ask"])
  <2>4. cb \in Nat /\ ca \in Nat /\ bb \in Nat /\ ba \in Nat
    BY <1>1, <1>5 DEF Sides
  <2>5. cb <= bb /\ ca <= ba
    BY <1>4 DEF KeptOf, Sides
  <2>6. cb < bb \/ ca < ba
    BY <2>3 DEF Sides
  <2>7. Total(c) = cb + ca /\ Total(b) = bb + ba
    BY DEF Total
  <2> HIDE DEF cb, ca, bb, ba
  <2>. QED BY <2>4, <2>5, <2>6, <2>7
<1>. QED BY <1>6, <1>7, <1>8 DEF c

\* Find's order: the one with the id.
LEMMA FindFacts ==
    ASSUME NEW prices, prices \subseteq Int, NEW b, BookOK(prices, b), NEW id, id \in Ids(b)
    PROVE  Find(b, id) \in Orders(prices) /\ Find(b, id).id = id
<1> DEFINE P(i) == i \in 1 .. Len(All(b)) /\ All(b)[i].id = id
           k == CHOOSE i \in 1 .. Len(All(b)) : All(b)[i].id = id
<1>1. \E i \in 1 .. Len(All(b)) : All(b)[i].id = id
  BY DEF Ids
<1>2. k \in 1 .. Len(All(b)) /\ All(b)[k].id = id
  BY <1>1
<1>3. Find(b, id) = All(b)[k]
  BY DEF Find
<1>4. All(b) \in Seq(Orders(prices))
  <2>1. Listed(prices, b)
    BY AllFacts
  <2>. QED BY <2>1 DEF Listed
<1> HIDE DEF k
<1>. QED BY <1>2, <1>3, <1>4

\* b with the quantity n for the order id of a side.
Reduced(b, side, id, n) ==
    [b EXCEPT ![side] =
        [i \in 1 .. Len(@) |-> IF @[i].id = id THEN [@[i] EXCEPT !.qty = n] ELSE @[i]]]

\* A quantity reduced in its place.
LEMMA ReducedFacts ==
    ASSUME NEW prices, prices \subseteq Int, NEW b, BookOK(prices, b), NEW side \in Sides,
           NEW id, NEW n \in Nat \ {0}
    PROVE  BookOK(prices, Reduced(b, side, id, n)) /\ Total(Reduced(b, side, id, n)) <= Total(b)
<1> DEFINE q == b[side]
           r == [i \in 1 .. Len(q) |-> IF q[i].id = id THEN [q[i] EXCEPT !.qty = n] ELSE q[i]]
           c == [b EXCEPT ![side] = r]
<1>1. /\ b \in [Sides -> Seq(Orders(prices))] /\ q \in Seq(Orders(prices)) /\ Len(q) \in Nat
      /\ \A i \in 1 .. Len(q) : q[i] \in Orders(prices)
  BY QueueFacts DEF BookOK
<1>2. ASSUME NEW o \in Orders(prices)
      PROVE  /\ [o EXCEPT !.qty = n] \in Orders(prices) /\ [o EXCEPT !.qty = n].id = o.id
             /\ [o EXCEPT !.qty = n].side = o.side /\ [o EXCEPT !.qty = n].price = o.price
  BY DEF Orders
<1> HIDE DEF q
<1>3. ASSUME NEW i \in 1 .. Len(q)
      PROVE  /\ r[i] \in Orders(prices) /\ r[i].id = q[i].id
             /\ r[i].side = q[i].side /\ r[i].price = q[i].price
  <2>1. r[i] = IF q[i].id = id THEN [q[i] EXCEPT !.qty = n] ELSE q[i]
    OBVIOUS
  <2> HIDE DEF r
  <2>. QED BY <2>1, <1>1, <1>2
<1>4. r \in Seq(Orders(prices)) /\ Len(r) = Len(q)
  <2>1. r \in [1 .. Len(q) -> Orders(prices)]
    BY <1>3
  <2> HIDE DEF r
  <2>. QED BY <2>1, <1>1
<1> HIDE DEF r
<1>5. Thinned(r, q)
  <2> DEFINE g == [i \in 1 .. Len(q) |-> i]
  <2>1. Within(g, r, q)
    BY <1>1, <1>3, <1>4 DEF Within
  <2>2. Len(r) <= Len(q)
    BY <1>1, <1>4
  <2>. QED BY <2>1, <2>2 DEF Thinned
<1>6. c \in [Sides -> Seq(Orders(prices))]
  BY <1>1, <1>4
<1>7. ASSUME NEW s \in Sides PROVE Thinned(c[s], b[s])
  <2>1. CASE s = side
    BY <2>1, <1>1, <1>5 DEF q
  <2>2. CASE s # side
    <3>1. c[s] = b[s] /\ Len(b[s]) \in Nat
      BY <2>2, <1>1
    <3> DEFINE g == [i \in 1 .. Len(b[s]) |-> i]
    <3>2. Within(g, b[s], b[s])
      BY <3>1 DEF Within
    <3>3. Len(b[s]) <= Len(b[s])
      BY <3>1
    <3>. QED BY <3>1, <3>2, <3>3 DEF Thinned
  <2>. QED BY <2>1, <2>2
<1> HIDE DEF c
<1>8. BookOK(prices, c) /\ Total(c) <= Total(b)
  BY <1>6, <1>7, ThinnedBook
<1>. QED BY <1>8 DEF c, r, q, Reduced

\* What every answer is: a sequence of events, and a book in order within its limit.
AnswerOK(prices, max, a) ==
    BookOK(prices, a.book) /\ Total(a.book) <= max /\ IsSeq(a.out)

\* A refusal leaves the book alone.
LEMMA RefuseFacts ==
    ASSUME NEW prices, NEW max, NEW b, BookOK(prices, b), Total(b) <= max, NEW c, NEW reason
    PROVE  AnswerOK(prices, max, Refuse(b, c, reason))
<1>1. IsSeq(<<[kind |-> "Rejected", id |-> c.id, reason |-> reason]>>)
  BY DEF IsSeq
<1>. QED BY <1>1 DEF Refuse, AnswerOK

\* The answer to a new order.
LEMMA NewFacts ==
    ASSUME NEW cfg, NEW prices, prices \subseteq Int, cfg.prices \subseteq prices,
           cfg.max \in Nat, NEW b, BookOK(prices, b), Total(b) <= cfg.max,
           NEW c \in Requests, c.kind = "New"
    PROVE  AnswerOK(prices, cfg.max, AnswerNew(cfg, b, c))
<1> DEFINE limit == c.otype = "Limit"
           t == [id |-> c.id, side |-> c.side, bounded |-> limit, bound |-> c.price, qty |-> c.qty]
           depth == Depth(Reach(b, t))
           rests == limit /\ c.tif \in {"Gtc", "PostOnly"}
           left == Remainder(b, t)
           fills == FillEvents(Reach(b, t), t)
           a == Execute(b, t, c.tif, rests,
                        LAMBDA n : [kind |-> "Accepted", id |-> c.id, leaves |-> n])
<1>1. /\ c.id \in Nat /\ c.side \in Sides /\ c.price \in Int /\ c.qty \in Nat /\ c.tif \in Tifs
  BY DEF Requests
<1>2. Taker(t) /\ t.id = c.id /\ t.bound = c.price /\ t.side = c.side
  BY <1>1 DEF Taker
<1>3. \A reason : AnswerOK(prices, cfg.max, Refuse(b, c, reason))
  BY RefuseFacts
<1>4. ASSUME limit => c.price \in cfg.prices, c.id \notin Ids(b), ~(Cardinality(Ids(b)) >= cfg.max)
      PROVE  AnswerOK(prices, cfg.max, a)
  <2>1. ~HasId(b, t.id)
    BY <1>2, <1>4, IdsFacts
  <2>2. Total(b) < cfg.max /\ Total(b) \in Nat
    <3>1. Cardinality(Ids(b)) = Total(b) /\ Total(b) \in Nat
      BY IdsCount, TotalNat
    <3>. QED BY <1>4, <3>1
  <2>3. Executed(prices, b, t)
    <3> HIDE DEF t
    <3>. QED BY <1>2, <2>1, ExecuteFacts
  <2> HIDE DEF t
  <2>4. a = IF left = 0
            THEN [out |-> Append(fills, [kind |-> "Closed", id |-> t.id, reason |-> "Filled"]),
                  book |-> Filled(b, t)]
            ELSE IF rests
            THEN [out |-> Append(fills, [kind |-> "Accepted", id |-> c.id, leaves |-> left]),
                  book |-> Insert(Filled(b, t), [id |-> t.id, side |-> t.side, price |-> t.bound,
                                                 qty |-> left, tif |-> c.tif])]
            ELSE [out |-> Append(fills, [kind |-> "Closed", id |-> t.id, reason |-> "Expired"]),
                  book |-> Filled(b, t)]
    BY DEF Execute
  <2> HIDE DEF a, left, fills
  <2>5. \A x : IsSeq(Append(fills, x))
    BY <2>3 DEF Executed, fills
  <2>6. BookOK(prices, Filled(b, t)) /\ Total(Filled(b, t)) <= Total(b) /\ Total(Filled(b, t)) \in Nat
    BY <2>3 DEF Executed
  <2>7. Total(Filled(b, t)) <= cfg.max
    BY <2>2, <2>6
  <2>8. CASE left # 0 /\ rests
    <3> DEFINE o == [id |-> t.id, side |-> t.side, price |-> t.bound, qty |-> left, tif |-> c.tif]
    <3>1. t.bound \in prices
      BY <1>2, <1>4, <2>8
    <3>2. BookOK(prices, Insert(Filled(b, t), o)) /\ Total(Insert(Filled(b, t), o)) = Total(Filled(b, t)) + 1
      BY <1>1, <2>3, <2>8, <3>1 DEF Executed, left
    <3>3. Total(Insert(Filled(b, t), o)) <= cfg.max
      BY <2>2, <2>6, <3>2
    <3>4. a.book = Insert(Filled(b, t), o) /\ IsSeq(a.out)
      BY <2>4, <2>5, <2>8
    <3> HIDE DEF o
    <3>. QED BY <3>2, <3>3, <3>4 DEF AnswerOK
  <2>9. CASE ~(left # 0 /\ rests)
    <3>1. a.book = Filled(b, t) /\ IsSeq(a.out)
      BY <2>4, <2>5, <2>9
    <3>. QED BY <2>6, <2>7, <3>1 DEF AnswerOK
  <2>. QED BY <2>8, <2>9
<1>5. AnswerNew(cfg, b, c) =
        IF c.qty = 0 THEN Refuse(b, c, "InvalidQty")
        ELSE IF limit /\ c.price \notin cfg.prices THEN Refuse(b, c, "InvalidPrice")
        ELSE IF c.id \in Ids(b) THEN Refuse(b, c, "DuplicateOrderId")
        ELSE IF Cardinality(Ids(b)) >= cfg.max THEN Refuse(b, c, "BookFull")
        ELSE IF limit /\ c.tif = "PostOnly" /\ depth > 0
             THEN Refuse(b, c, "PostOnlyWouldCross")
        ELSE IF limit /\ c.tif = "Fok" /\ depth < c.qty
             THEN Refuse(b, c, "FokCannotFill")
        ELSE a
  BY DEF AnswerNew
<1> HIDE DEF a, depth, limit
<1>6. CASE (limit => c.price \in cfg.prices) /\ c.id \notin Ids(b) /\ ~(Cardinality(Ids(b)) >= cfg.max)
  BY <1>3, <1>4, <1>5, <1>6
<1>7. CASE ~((limit => c.price \in cfg.prices) /\ c.id \notin Ids(b) /\ ~(Cardinality(Ids(b)) >= cfg.max))
  BY <1>3, <1>5, <1>7
<1>. QED BY <1>6, <1>7

\* The answer to a cancel.
LEMMA CancelFacts ==
    ASSUME NEW prices, prices \subseteq Int, NEW max \in Nat, NEW b, BookOK(prices, b),
           Total(b) <= max, NEW c
    PROVE  AnswerOK(prices, max, AnswerCancel(b, c))
<1> DEFINE a == [out |-> <<[kind |-> "Closed", id |-> c.id, reason |-> "Cancelled"]>>,
                 book |-> Without(b, c.id)]
<1>1. IsSeq(<<[kind |-> "Closed", id |-> c.id, reason |-> "Cancelled"]>>)
  BY DEF IsSeq
<1>2. BookOK(prices, Without(b, c.id)) /\ Total(Without(b, c.id)) <= Total(b)
  BY WithoutFacts
<1>3. Total(Without(b, c.id)) \in Nat /\ Total(b) \in Nat
  BY <1>2, TotalNat
<1>4. AnswerOK(prices, max, a)
  BY <1>1, <1>2, <1>3 DEF AnswerOK
<1>5. AnswerCancel(b, c) = IF c.id \notin Ids(b) THEN Refuse(b, c, "UnknownOrderId") ELSE a
  BY DEF AnswerCancel
<1> HIDE DEF a
<1>. QED BY <1>4, <1>5, RefuseFacts

\* The answer to a replacement.
LEMMA ReplaceFacts ==
    ASSUME NEW cfg, NEW prices, prices \subseteq Int, cfg.prices \subseteq prices,
           cfg.max \in Nat, NEW b, BookOK(prices, b), Total(b) <= cfg.max,
           NEW c \in Requests, c.kind = "Replace"
    PROVE  AnswerOK(prices, cfg.max, AnswerReplace(cfg, b, c))
<1> DEFINE f == Find(b, c.id)
           t == [id |-> c.id, side |-> f.side, bounded |-> TRUE, bound |-> c.price, qty |-> c.qty]
           event(n) == [kind |-> "Replaced", id |-> c.id, price |-> c.price, qty |-> n]
           w == Without(b, c.id)
           left == Remainder(w, t)
           fills == FillEvents(Reach(w, t), t)
           a == Execute(w, t, f.tif, TRUE, event)
           inPlace == [out |-> <<event(c.qty)>>,
                       book |-> [b EXCEPT ![f.side] =
                          [i \in 1 .. Len(@) |->
                             IF @[i].id = c.id THEN [@[i] EXCEPT !.qty = c.qty] ELSE @[i]]]]
<1>1. c.id \in Nat /\ c.price \in Int /\ c.qty \in Nat
  BY DEF Requests
<1>2. \A reason : AnswerOK(prices, cfg.max, Refuse(b, c, reason))
  BY RefuseFacts
<1>3. AnswerReplace(cfg, b, c) =
        IF c.id \notin Ids(b) THEN Refuse(b, c, "UnknownOrderId")
        ELSE IF c.qty = 0 THEN Refuse(b, c, "InvalidQty")
        ELSE IF c.price \notin cfg.prices THEN Refuse(b, c, "InvalidPrice")
        ELSE IF c.price = f.price /\ c.qty <= f.qty THEN inPlace ELSE a
  BY DEF AnswerReplace
<1>4. ASSUME c.id \in Ids(b) PROVE f \in Orders(prices) /\ f.side \in Sides /\ f.tif \in Tifs
  <2>1. f \in Orders(prices)
    BY <1>4, FindFacts
  <2>. QED BY <2>1 DEF Orders
<1>5. Total(b) \in Nat
  BY TotalNat
<1>6. ASSUME c.id \in Ids(b), c.qty # 0 PROVE AnswerOK(prices, cfg.max, inPlace)
  <2>1. c.qty \in Nat \ {0} /\ f.side \in Sides
    BY <1>1, <1>4, <1>6
  <2>2. BookOK(prices, inPlace.book) /\ Total(inPlace.book) <= Total(b)
    <3>1. inPlace.book = Reduced(b, f.side, c.id, c.qty)
      BY DEF Reduced
    <3> HIDE DEF f, inPlace
    <3>. QED BY <2>1, <3>1, ReducedFacts
  <2>3. IsSeq(<<event(c.qty)>>)
    BY DEF IsSeq
  <2>4. IsSeq(inPlace.out)
    BY <2>3
  <2> HIDE DEF inPlace
  <2>5. Total(inPlace.book) \in Nat
    BY <2>2, TotalNat
  <2>. QED BY <1>5, <2>2, <2>4, <2>5 DEF AnswerOK
<1>7. ASSUME c.id \in Ids(b), c.price \in cfg.prices PROVE AnswerOK(prices, cfg.max, a)
  <2>1. /\ BookOK(prices, w) /\ ~HasId(w, c.id) /\ Total(w) < Total(b)
    BY <1>7, WithoutFacts, IdsFacts
  <2>2. Total(w) \in Nat
    BY <2>1, TotalNat
  <2>3. Taker(t) /\ t.id = c.id /\ t.bound = c.price /\ t.side = f.side /\ f.tif \in Tifs
    <3> HIDE DEF f
    <3>. QED BY <1>1, <1>4, <1>7 DEF Taker
  <2>4. Executed(prices, w, t)
    <3> HIDE DEF t, w
    <3>. QED BY <2>1, <2>3, ExecuteFacts
  <2> HIDE DEF t, w, f
  <2>5. a = IF left = 0
            THEN [out |-> Append(fills, [kind |-> "Closed", id |-> t.id, reason |-> "Filled"]),
                  book |-> Filled(w, t)]
            ELSE [out |-> Append(fills, event(left)),
                  book |-> Insert(Filled(w, t), [id |-> t.id, side |-> t.side, price |-> t.bound,
                                                 qty |-> left, tif |-> f.tif])]
    BY DEF Execute
  <2> HIDE DEF a, left, fills, event
  <2>6. \A x : IsSeq(Append(fills, x))
    BY <2>4 DEF Executed, fills
  <2>7. BookOK(prices, Filled(w, t)) /\ Total(Filled(w, t)) <= Total(w) /\ Total(Filled(w, t)) \in Nat
    BY <2>4 DEF Executed
  <2>8. CASE left = 0
    <3>1. a.book = Filled(w, t) /\ IsSeq(a.out)
      BY <2>5, <2>6, <2>8
    <3>2. Total(Filled(w, t)) <= cfg.max
      BY <1>5, <2>1, <2>2, <2>7
    <3>. QED BY <2>7, <3>1, <3>2 DEF AnswerOK
  <2>9. CASE left # 0
    <3> DEFINE o == [id |-> t.id, side |-> t.side, price |-> t.bound, qty |-> left, tif |-> f.tif]
    <3>1. t.bound \in prices
      BY <2>3, <1>7
    <3>2. BookOK(prices, Insert(Filled(w, t), o)) /\ Total(Insert(Filled(w, t), o)) = Total(Filled(w, t)) + 1
      BY <2>3, <2>4, <2>9, <3>1 DEF Executed, left
    <3>3. Total(Insert(Filled(w, t), o)) <= cfg.max
      BY <1>5, <2>1, <2>2, <2>7, <3>2
    <3>4. a.book = Insert(Filled(w, t), o) /\ IsSeq(a.out)
      BY <2>5, <2>6, <2>9
    <3> HIDE DEF o
    <3>. QED BY <3>2, <3>3, <3>4 DEF AnswerOK
  <2>. QED BY <2>8, <2>9
<1> HIDE DEF a, inPlace, f
<1>. QED BY <1>2, <1>3, <1>6, <1>7

\* A book in order within its limit stays so, whatever it is asked.
LEMMA AnswerFacts ==
    ASSUME NEW cfg, NEW prices, prices \subseteq Int, cfg.prices \subseteq prices,
           cfg.max \in Nat, NEW b, BookOK(prices, b), Total(b) <= cfg.max, NEW c \in Requests
    PROVE  AnswerOK(prices, cfg.max, Answer(cfg, b, c))
<1>1. c.kind = "New" \/ c.kind = "Cancel" \/ c.kind = "Replace"
  BY DEF Requests
<1>2. CASE c.kind = "New"
  BY <1>2, NewFacts DEF Answer
<1>3. CASE c.kind = "Cancel"
  BY <1>3, CancelFacts DEF Answer
<1>4. CASE c.kind = "Replace"
  BY <1>4, ReplaceFacts DEF Answer
<1>. QED BY <1>1, <1>2, <1>3, <1>4

=============================================================================
