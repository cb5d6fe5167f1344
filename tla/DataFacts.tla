------------------------------ MODULE DataFacts ------------------------------
(***************************************************************************)
(* Facts about data that several proof modules need: the least and the     *)
(* greatest element of a set, which stand in for induction, quotient and   *)
(* remainder, functions defined by recursion, sums over finite sets, and   *)
(* what inserting into a sequence and removing from it do.                 *)
(***************************************************************************)
EXTENDS Integers, Sequences, FiniteSetsExt, Functions,
        WellFoundedInduction, SequenceTheorems, FiniteSetTheorems, TLAPS

\* A set of naturals that is not empty has a least element.  A proof by induction on
\* n looks at the least n that is a counterexample.
LEMMA LeastNat ==
    ASSUME NEW T, T \subseteq Nat, T # {}
    PROVE  \E m \in T : \A n \in T : m <= n
<1> DEFINE R == {p \in Nat \X Nat : p[1] < p[2]}
<1>1. IsWellFoundedOn(R, Nat)
  BY NatLessThanWellFounded, Zenon DEF OpToRel
<1> HIDE DEF R
<1>2. PICK m \in T : \A n \in T : ~(<<n, m>> \in R)
  BY <1>1, WFMin, Zenon
<1>3. \A n \in T : ~(n < m)
  BY <1>2 DEF R
<1>. QED BY <1>3

\* So has a set of integers that is bounded below.
LEMMA LeastInt ==
    ASSUME NEW T, T \subseteq Int, T # {}, NEW lo \in Int, \A x \in T : lo <= x
    PROVE  \E m \in T : \A n \in T : m <= n
<1> DEFINE S == {d \in Nat : lo + d \in T}
<1>1. \A x \in T : x - lo \in Nat /\ lo + (x - lo) = x
  OBVIOUS
<1>2. S \subseteq Nat /\ S # {}
  BY <1>1
<1>3. PICK m \in S : \A n \in S : m <= n
  <2> HIDE DEF S
  <2>. QED BY <1>2, LeastNat
<1>4. \A x \in T : lo + m <= x
  BY <1>1, <1>3
<1>. QED BY <1>4

\* And a set of integers that is bounded above has a greatest one.
LEMMA GreatestInt ==
    ASSUME NEW T, T \subseteq Int, T # {}, NEW hi \in Int, \A x \in T : x <= hi
    PROVE  \E m \in T : \A n \in T : n <= m
<1> DEFINE S == {d \in Nat : hi - d \in T}
<1>1. \A x \in T : hi - x \in Nat /\ hi - (hi - x) = x
  OBVIOUS
<1>2. S \subseteq Nat /\ S # {}
  BY <1>1
<1>3. PICK m \in S : \A n \in S : m <= n
  <2> HIDE DEF S
  <2>. QED BY <1>2, LeastNat
<1>4. \A x \in T : x <= hi - m
  <2> TAKE x \in T
  <2>1. m <= hi - x
    BY <1>1, <1>3
  <2>. QED BY <2>1
<1>. QED BY <1>4

\* Min and Max of such a set are those elements.
LEMMA MinFacts ==
    ASSUME NEW T, T \subseteq Int, T # {}, NEW lo \in Int, \A x \in T : lo <= x
    PROVE  Min(T) \in T /\ \A x \in T : Min(T) <= x
<1>1. \E m \in T : \A n \in T : m <= n
  BY LeastInt
<1>. QED BY <1>1 DEF Min

LEMMA MaxFacts ==
    ASSUME NEW T, T \subseteq Int, T # {}, NEW hi \in Int, \A x \in T : x <= hi
    PROVE  Max(T) \in T /\ \A x \in T : x <= Max(T)
<1>1. \E m \in T : \A n \in T : n <= m
  BY GreatestInt
<1>. QED BY <1>1 DEF Max

\* The greater and the lesser of two integers.
LEMMA MaxOfTwo ==
    \A a, b \in Int : /\ Max({a, b}) = a \/ Max({a, b}) = b
                      /\ a <= Max({a, b}) /\ b <= Max({a, b})
<1> TAKE a, b \in Int
<1>1. \E c \in {a, b} : \A x \in {a, b} : x <= c
  OBVIOUS
<1>2. Max({a, b}) \in {a, b} /\ \A x \in {a, b} : x <= Max({a, b})
  BY <1>1, MaxFacts
<1>. QED BY <1>2

LEMMA MinOfTwo ==
    \A a, b \in Int : /\ Min({a, b}) = a \/ Min({a, b}) = b
                      /\ Min({a, b}) <= a /\ Min({a, b}) <= b
<1> TAKE a, b \in Int
<1>1. \E c \in {a, b} : \A x \in {a, b} : c <= x
  OBVIOUS
<1>2. Min({a, b}) \in {a, b} /\ \A x \in {a, b} : Min({a, b}) <= x
  BY <1>1, MinFacts
<1>. QED BY <1>2

\* Going round a ring of n places, up by less than n or down.
LEMMA WrapUp ==
    ASSUME NEW n \in Nat \ {0}, NEW a \in 0 .. (n - 1), NEW b \in 0 .. n
    PROVE  (a + b) % n = IF a + b < n THEN a + b ELSE a + b - n
OBVIOUS

LEMMA WrapDown ==
    ASSUME NEW n \in Nat \ {0}, NEW a \in 0 .. (n - 1), NEW b \in 0 .. (n - 1)
    PROVE  (a - b) % n = IF b <= a THEN a - b ELSE a - b + n
OBVIOUS

-----------------------------------------------------------------------------
(* Division *)

\* The only multiple of n between -n and n is 0.
LEMMA ProductBetween ==
    ASSUME NEW n \in Nat \ {0}, NEW x \in Int, -n < n * x, n * x < n
    PROVE  x = 0
<1>1. CASE x >= 1
  <2>1. n * x >= n
    BY <1>1
  <2>. QED BY <2>1
<1>2. CASE x <= -1
  <2>1. n * x <= -n
    BY <1>2
  <2>. QED BY <2>1
<1>. QED BY <1>1, <1>2

\* Quotient and remainder,
LEMMA DivMod ==
    ASSUME NEW n \in Nat \ {0}, NEW a \in Int
    PROVE  a \div n \in Int /\ a % n \in 0 .. (n - 1) /\ a = (a \div n) * n + (a % n)
OBVIOUS

\* which are unique.
LEMMA DivModOf ==
    ASSUME NEW n \in Nat \ {0}, NEW q \in Int, NEW r \in 0 .. (n - 1)
    PROVE  (q * n + r) \div n = q /\ (q * n + r) % n = r
<1> DEFINE a == q * n + r
           p == a \div n
           s == a % n
<1>1. a \in Int
  OBVIOUS
<1>2. p \in Int /\ s \in 0 .. (n - 1) /\ a = p * n + s
  BY <1>1, DivMod
<1> HIDE DEF p, s
<1>3. n * (q - p) = s - r
  BY <1>2
<1>4. q - p = 0
  BY <1>2, <1>3, ProductBetween
<1>5. q = p /\ s = r
  BY <1>2, <1>3, <1>4
<1>. QED BY <1>5 DEF p, s

\* Places in blocks of n are ordered by block, then by place in the block.
LEMMA BlockOrder ==
    ASSUME NEW n \in Nat \ {0}, NEW p \in Int, NEW q \in Int,
           NEW r \in 0 .. (n - 1), NEW s \in 0 .. (n - 1)
    PROVE  (p * n + r < q * n + s) <=> (p < q \/ (p = q /\ r < s))
<1>1. CASE p < q
  <2>1. n * (q - p) >= n
    BY <1>1
  <2>2. q * n - p * n >= n
    BY <2>1
  <2>. QED BY <1>1, <2>2
<1>2. CASE p = q
  BY <1>2
<1>3. CASE q < p
  <2>1. n * (p - q) >= n
    BY <1>3
  <2>2. p * n - q * n >= n
    BY <2>1
  <2>. QED BY <1>3, <2>2
<1>. QED BY <1>1, <1>2, <1>3

\* The number of blocks of n that a places take.
LEMMA CeilDiv ==
    ASSUME NEW n \in Nat \ {0}, NEW a \in Nat
    PROVE  LET m == (a + n - 1) \div n
           IN  /\ m \in Nat /\ (a > 0 => m > 0)
               /\ \A i \in 0 .. (a - 1) : i \div n \in 0 .. (m - 1)
<1> DEFINE b == a + n - 1
           m == b \div n
           r == b % n
<1>1. b \in Nat
  OBVIOUS
<1>2. m \in Int /\ r \in 0 .. (n - 1) /\ b = m * n + r
  BY <1>1, DivMod
<1> HIDE DEF m, r
<1>3. ASSUME NEW i \in Nat, NEW c \in Int, i <= c PROVE i \div n \in Nat /\ i \div n <= c \div n
  <2> DEFINE p == i \div n
             s == i % n
             q == c \div n
             t == c % n
  <2>1. p \in Int /\ s \in 0 .. (n - 1) /\ i = p * n + s
    BY DivMod
  <2>2. q \in Int /\ t \in 0 .. (n - 1) /\ c = q * n + t
    BY DivMod
  <2> HIDE DEF p, q, s, t
  <2>3. ~(q < p)
    BY <1>3, <2>1, <2>2, BlockOrder
  <2>4. ~(p < 0)
    <3>1. SUFFICES ASSUME p < 0 PROVE FALSE
      OBVIOUS
    <3>2. p * n + s < 0 * n + 0
      BY <2>1, <3>1, BlockOrder
    <3>. QED BY <2>1, <3>2
  <2>. QED BY <2>1, <2>2, <2>3, <2>4 DEF p, q
<1>4. m \in Nat
  BY <1>1, <1>3 DEF m
<1>5. \A i \in 0 .. (a - 1) : i \div n \in Nat /\ i \div n < m
  <2> TAKE i \in 0 .. (a - 1)
  <2>1. i + n \in Int /\ i + n <= b
    OBVIOUS
  <2>2. i \div n \in Nat /\ (i + n) \div n <= m
    BY <1>1, <1>3, <2>1 DEF m
  <2>3. (i + n) \div n = i \div n + 1
    <3>1. i \div n \in Int /\ i % n \in 0 .. (n - 1) /\ i = (i \div n) * n + (i % n)
      BY DivMod
    <3> DEFINE p == i \div n
               s == i % n
    <3> HIDE DEF p, s
    <3>2. i + n = (p + 1) * n + s /\ p + 1 \in Int /\ s \in 0 .. (n - 1)
      BY <3>1 DEF p, s
    <3>3. ((p + 1) * n + s) \div n = p + 1
      BY <3>2, DivModOf
    <3>4. (i + n) \div n = p + 1
      BY <3>2, <3>3
    <3>. QED BY <3>4 DEF p
  <2>. QED BY <1>2, <2>2, <2>3
<1>6. a > 0 => m > 0
  BY <1>4, <1>5
<1>. QED BY <1>4, <1>5, <1>6 DEF m

-----------------------------------------------------------------------------
(* Recursive functions on the naturals *)

\* f starts with a and goes on from each value by g.
Iterates(f, S, a, g) == f \in [Nat -> S] /\ f[0] = a /\ \A n \in Nat : f[n + 1] = g[f[n]]

\* There is such a function.
LEMMA Iteration ==
    ASSUME NEW S, NEW a \in S, NEW g \in [S -> S]
    PROVE  \E f : Iterates(f, S, a, g)
<1> DEFINE Upto(n) == {f \in [0 .. n -> S] : /\ f[0] = a
                                             /\ \A i \in 0 .. (n - 1) : f[i + 1] = g[f[i]]}
<1>1. \A n \in Nat : Upto(n) # {}
  <2> DEFINE Bad == {n \in Nat : Upto(n) = {}}
  <2>1. SUFFICES ASSUME Bad # {} PROVE FALSE
    OBVIOUS
  <2>2. PICK m \in Bad : \A n \in Bad : m <= n
    <3>1. Bad \subseteq Nat
      OBVIOUS
    <3> HIDE DEF Bad
    <3>. QED BY <2>1, <3>1, LeastNat
  <2>3. CASE m = 0
    <3>1. [i \in 0 .. 0 |-> a] \in Upto(0)
      OBVIOUS
    <3>. QED BY <2>3, <3>1
  <2>4. CASE m # 0
    <3>a. m \in Nat /\ m - 1 \in Nat /\ ~(m <= m - 1)
      BY <2>2, <2>4
    <3>b. m - 1 \notin Bad
      BY <2>2, <3>a
    <3>1. m \in Nat /\ m - 1 \in Nat /\ Upto(m - 1) # {}
      BY <3>a, <3>b
    <3>2. PICK f \in [0 .. (m - 1) -> S] :
                /\ f[0] = a
                /\ \A i \in 0 .. (m - 2) : f[i + 1] = g[f[i]]
      BY <3>1
    <3> DEFINE h == [i \in 0 .. m |-> IF i = m THEN g[f[m - 1]] ELSE f[i]]
    <3>3. h \in [0 .. m -> S]
      BY <3>1, <3>2
    <3>4. h[0] = a
      BY <2>4, <3>1, <3>2
    <3>5. \A i \in 0 .. (m - 1) : h[i + 1] = g[h[i]]
      <4> TAKE i \in 0 .. (m - 1)
      <4>1. CASE i = m - 1
        BY <4>1, <3>1
      <4>2. CASE i # m - 1
        BY <4>2, <3>1, <3>2
      <4>. QED BY <4>1, <4>2
    <3>6. h \in Upto(m)
      BY <3>3, <3>4, <3>5
    <3>. QED BY <3>6, <2>2
  <2>. QED BY <2>3, <2>4
<1>2. \A n \in Nat : \A f \in Upto(n), h \in Upto(n + 1) : f[n] = h[n]
  <2> SUFFICES ASSUME NEW n \in Nat, NEW f \in Upto(n), NEW h \in Upto(n + 1),
                      f[n] # h[n]
               PROVE  FALSE
    OBVIOUS
  <2> DEFINE Bad == {i \in 0 .. n : f[i] # h[i]}
  <2>0. n \in Bad
    OBVIOUS
  <2>1. Bad \subseteq Nat /\ Bad # {}
    <3>1. Bad \subseteq Nat
      OBVIOUS
    <3>. QED BY <2>0, <3>1, Zenon
  <2>2. PICK i \in Bad : \A j \in Bad : i <= j
    <3> HIDE DEF Bad
    <3>. QED BY <2>1, LeastNat
  <2>3. i # 0
    OBVIOUS
  <2>4. i - 1 \in 0 .. (n - 1) /\ ~(i <= i - 1)
    BY <2>3
  <2>5. f[i - 1] = h[i - 1]
    BY <2>2, <2>4
  <2>6. f[(i - 1) + 1] = g[f[i - 1]] /\ h[(i - 1) + 1] = g[h[i - 1]]
    BY <2>4
  <2>. QED BY <2>2, <2>4, <2>5, <2>6
<1> DEFINE G(n) == CHOOSE f \in Upto(n) : TRUE
           F == [n \in Nat |-> G(n)[n]]
<1>3. \A n \in Nat : G(n) \in Upto(n)
  <2> HIDE DEF Upto
  <2>. QED BY <1>1, Zenon
<1> HIDE DEF G
<1>4. \A n \in Nat : F[n] \in S
  BY <1>3
<1>5. F[0] = a
  BY <1>3
<1>6. \A n \in Nat : F[n + 1] = g[F[n]]
  <2> TAKE n \in Nat
  <2>1. n + 1 \in Nat /\ F[n + 1] = G(n + 1)[n + 1] /\ F[n] = G(n)[n]
    OBVIOUS
  <2>2. G(n)[n] = G(n + 1)[n]
    <3> HIDE DEF Upto
    <3>. QED BY <2>1, <1>2, <1>3
  <2>3. G(n + 1)[n + 1] = g[G(n + 1)[n]]
    BY <2>1, <1>3
  <2>. QED BY <2>1, <2>2, <2>3
<1>7. F \in [Nat -> S]
  BY <1>4
<1>8. Iterates(F, S, a, g)
  <2> HIDE DEF F
  <2>. QED BY <1>5, <1>6, <1>7 DEF Iterates
<1>. QED BY <1>8

\* f is base at the points of stop; at the others, step makes it of what it is at next.
Recurs(f, D, V, stop, base, step, next) ==
    /\ f \in [D -> V]
    /\ f = [d \in D |-> IF d \in stop THEN base[d] ELSE step[<<d, f[next[d]]>>]]

\* Until it stops, each step of next goes down in the measure.
GoesDown(D, stop, next, measure) ==
    /\ measure \in [D -> Nat]
    /\ \A d \in D : d \notin stop => next[d] \in D /\ measure[next[d]] < measure[d]

\* Such a recursion defines a function.
LEMMA Recursion ==
    ASSUME NEW D, NEW V, NEW stop, NEW base \in [D -> V], NEW step \in [D \X V -> V],
           NEW next, NEW measure, GoesDown(D, stop, next, measure)
    PROVE  \E f : Recurs(f, D, V, stop, base, step, next)
<1> DEFINE g == [h \in [D -> V] |-> [d \in D |-> IF d \in stop THEN base[d]
                                                 ELSE IF next[d] \in D THEN step[<<d, h[next[d]]>>]
                                                 ELSE base[d]]]
           T == [D -> V]
<1> SUFFICES ASSUME measure \in [D -> Nat],
                    \A d \in D : d \notin stop => next[d] \in D /\ measure[next[d]] < measure[d]
             PROVE  \E f : Recurs(f, D, V, stop, base, step, next)
  BY DEF GoesDown
<1>2. ASSUME NEW h \in T
      PROVE  [d \in D |-> IF d \in stop THEN base[d]
                          ELSE IF next[d] \in D THEN step[<<d, h[next[d]]>>]
                          ELSE base[d]] \in T
  <2>1. ASSUME NEW d \in D
        PROVE  (IF d \in stop THEN base[d]
                ELSE IF next[d] \in D THEN step[<<d, h[next[d]]>>] ELSE base[d]) \in V
    <3>1. next[d] \in D => <<d, h[next[d]]>> \in D \X V
      OBVIOUS
    <3>. QED BY <3>1
  <2>. QED BY <2>1
<1>3. g \in [T -> T]
  BY <1>2
<1> HIDE DEF g, T
<1>4. PICK F : Iterates(F, T, base, g)
  <2>1. base \in T
    BY DEF T
  <2>. QED BY <1>3, <2>1, Iteration, Zenon
<1>5. \A n \in Nat, d \in D :
          F[n + 1][d] = IF d \in stop THEN base[d] ELSE step[<<d, F[n][next[d]]>>]
  <2> TAKE n \in Nat, d \in D
  <2>1. F[n] \in T /\ F[n + 1] = g[F[n]]
    BY <1>4 DEF Iterates
  <2>. QED BY <2>1 DEF g, T
<1> DEFINE f == [d \in D |-> F[measure[d] + 1][d]]
<1>6. \A d \in D : \A n \in Nat : n > measure[d] => F[n][d] = f[d]
  <2> DEFINE Wrong(d) == \E n \in Nat : n > measure[d] /\ F[n][d] # f[d]
             Bad == {m \in Nat : \E d \in D : measure[d] = m /\ Wrong(d)}
  <2> HIDE DEF f
  <2>1. SUFFICES ASSUME Bad # {} PROVE FALSE
    OBVIOUS
  <2>2. PICK m \in Bad : \A k \in Bad : m <= k
    <3>1. Bad \subseteq Nat
      OBVIOUS
    <3> HIDE DEF Bad
    <3>. QED BY <2>1, <3>1, LeastNat
  <2>3. PICK d \in D, n \in Nat : measure[d] = m /\ n > m /\ F[n][d] # f[d]
    OBVIOUS
  <2>4. m \in Nat /\ n - 1 \in Nat /\ (n - 1) + 1 = n
    BY <2>3
  <2>5. F[n][d] = IF d \in stop THEN base[d] ELSE step[<<d, F[n - 1][next[d]]>>]
    <3>1. F[(n - 1) + 1][d] = IF d \in stop THEN base[d] ELSE step[<<d, F[n - 1][next[d]]>>]
      BY <1>5, <2>4
    <3>. QED BY <2>4, <3>1
  <2>6. f[d] = IF d \in stop THEN base[d] ELSE step[<<d, F[m][next[d]]>>]
    BY <1>5, <2>3, <2>4 DEF f
  <2>7. d \notin stop
    BY <2>3, <2>5, <2>6
  <2> DEFINE e == next[d]
  <2>8. e \in D /\ measure[e] < m /\ measure[e] \in Nat
    BY <2>3, <2>7
  <2>9. measure[e] \notin Bad
    <3>1. ~(m <= measure[e])
      BY <2>4, <2>8
    <3> HIDE DEF Bad
    <3>. QED BY <2>2, <3>1
  <2>10. ~Wrong(e)
    BY <2>8, <2>9
  <2>11. F[n - 1][e] = f[e] /\ F[m][e] = f[e]
    BY <2>3, <2>4, <2>8, <2>10
  <2>. QED BY <2>3, <2>5, <2>6, <2>7, <2>11
<1>7. \A d \in D : f[d] = IF d \in stop THEN base[d] ELSE step[<<d, f[next[d]]>>]
  <2> TAKE d \in D
  <2>1. f[d] = IF d \in stop THEN base[d] ELSE step[<<d, F[measure[d]][next[d]]>>]
    BY <1>5
  <2> HIDE DEF f
  <2>2. d \notin stop => F[measure[d]][next[d]] = f[next[d]]
    BY <1>6
  <2>. QED BY <2>1, <2>2
<1>8. f \in [D -> V]
  <2>1. \A n \in Nat : F[n] \in [D -> V]
    BY <1>4 DEF Iterates, T
  <2>2. \A d \in D : F[measure[d] + 1][d] \in V
    BY <2>1
  <2>. QED BY <2>2
<1>9. f = [d \in D |-> f[d]]
  OBVIOUS
<1> HIDE DEF f
<1>10. Recurs(f, D, V, stop, base, step, next)
  BY <1>7, <1>8, <1>9 DEF Recurs
<1>. QED BY <1>10

\* f is base at the points of stop and goes on by next at the others.
Walks(f, D, stop, base, next) == f = [d \in D |-> IF d \in stop THEN base[d] ELSE f[next[d]]]

\* A walk is a recursion that hands its value on unchanged.
LEMMA Descent ==
    ASSUME NEW D, NEW stop, NEW base, NEW next, NEW measure, GoesDown(D, stop, next, measure)
    PROVE  \E f : Walks(f, D, stop, base, next)
<1> DEFINE V == {base[d] : d \in D}
           start == [d \in D |-> base[d]]
           step == [p \in D \X V |-> p[2]]
<1>1. start \in [D -> V] /\ step \in [D \X V -> V]
  OBVIOUS
<1> HIDE DEF V, start, step
<1>2. PICK f : Recurs(f, D, V, stop, start, step, next)
  BY <1>1, Recursion, Zenon
<1>3. /\ f \in [D -> V]
      /\ f = [d \in D |-> IF d \in stop THEN start[d] ELSE step[<<d, f[next[d]]>>]]
  BY <1>2 DEF Recurs
<1>4. ASSUME NEW d \in D
      PROVE  f[d] = IF d \in stop THEN base[d] ELSE f[next[d]]
  <2>1. d \notin stop => next[d] \in D
    BY DEF GoesDown
  <2>2. start[d] = base[d]
    BY DEF start
  <2>3. d \notin stop => step[<<d, f[next[d]]>>] = f[next[d]]
    <3> SUFFICES ASSUME d \notin stop PROVE step[<<d, f[next[d]]>>] = f[next[d]]
      OBVIOUS
    <3>1. <<d, f[next[d]]>> \in D \X V
      BY <1>3, <2>1
    <3>. QED BY <3>1 DEF step
  <2>4. f[d] = IF d \in stop THEN start[d] ELSE step[<<d, f[next[d]]>>]
    BY <1>3
  <2>. QED BY <2>2, <2>3, <2>4
<1>5. f = [d \in D |-> f[d]]
  BY <1>3
<1>6. Walks(f, D, stop, base, next)
  BY <1>4, <1>5 DEF Walks
<1>. QED BY <1>6

\* What holds of 0, and of each number if of the one before it, holds up to n.
LEMMA CountUp ==
    ASSUME NEW n \in Nat, NEW Good, 0 \in Good, \A i \in 1 .. n : i - 1 \in Good => i \in Good
    PROVE  \A i \in 0 .. n : i \in Good
<1> DEFINE Bad == {i \in 0 .. n : i \notin Good}
<1>1. SUFFICES ASSUME Bad # {} PROVE FALSE
  OBVIOUS
<1>2. PICK i \in Bad : \A j \in Bad : i <= j
  <2>1. Bad \subseteq Nat
    OBVIOUS
  <2> HIDE DEF Bad
  <2>. QED BY <1>1, <2>1, LeastNat
<1>3. i \in 1 .. n /\ i - 1 \in 0 .. n /\ ~(i <= i - 1)
  OBVIOUS
<1>. QED BY <1>2, <1>3

\* f begins with base and each value is made of its number and the one before.
Steps(f, n, V, base, step) ==
    /\ f \in [0 .. n -> V]
    /\ f[0] = base
    /\ \A i \in 1 .. n : f[i] = step[<<i, f[i - 1]>>]

\* There is such a function.
LEMMA StepsExist ==
    ASSUME NEW n \in Nat, NEW V, NEW base \in V, NEW step \in [(1 .. n) \X V -> V]
    PROVE  \E f : Steps(f, n, V, base, step)
<1> DEFINE Good == {k \in 0 .. n : \E f : Steps(f, k, V, base, step)}
<1>1. 0 \in Good
  <2> DEFINE f == [i \in 0 .. 0 |-> base]
  <2>1. Steps(f, 0, V, base, step)
    BY DEF Steps
  <2>. QED BY <2>1
<1>2. ASSUME NEW k \in 1 .. n, k - 1 \in Good PROVE k \in Good
  <2>1. PICK f : Steps(f, k - 1, V, base, step)
    BY <1>2
  <2> DEFINE v == step[<<k, f[k - 1]>>]
             g == [i \in 0 .. k |-> IF i < k THEN f[i] ELSE v]
  <2>2. f[k - 1] \in V
    BY <2>1 DEF Steps
  <2>3. v \in V
    BY <2>2
  <2> HIDE DEF v
  <2>4. g \in [0 .. k -> V] /\ g[0] = base
    BY <2>1, <2>3 DEF Steps
  <2>5. ASSUME NEW i \in 1 .. k PROVE g[i] = step[<<i, g[i - 1]>>]
    <3>1. CASE i = k
      <4>1. g[k] = v /\ g[k - 1] = f[k - 1]
        OBVIOUS
      <4>. QED BY <3>1, <4>1 DEF v
    <3>2. CASE i < k
      <4>1. i \in 1 .. (k - 1) /\ g[i] = f[i] /\ g[i - 1] = f[i - 1]
        BY <3>2
      <4>. QED BY <2>1, <4>1 DEF Steps
    <3>. QED BY <3>1, <3>2
  <2>6. Steps(g, k, V, base, step)
    BY <2>4, <2>5 DEF Steps
  <2>. QED BY <2>6
<1> HIDE DEF Good
<1>3. n \in Good
  BY <1>1, <1>2, CountUp
<1>. QED BY <1>3 DEF Good

-----------------------------------------------------------------------------
(* Sums over finite sets *)

\* Among finite sets there is one that, less any of its elements, is no longer among
\* them.  A proof by induction on a finite set looks at such a counterexample.
LEMMA SmallestSet ==
    ASSUME NEW T, T # {}, \A R \in T : IsFiniteSet(R)
    PROVE  \E R \in T : \A x \in R : R \ {x} \notin T
<1> DEFINE Sizes == {Cardinality(R) : R \in T}
<1>1. \A R \in T : Cardinality(R) \in Nat
  BY FS_CardinalityType
<1>2. Sizes \subseteq Nat /\ Sizes # {}
  BY <1>1
<1>3. PICK m \in Sizes : \A k \in Sizes : m <= k
  <2> HIDE DEF Sizes
  <2>. QED BY <1>2, LeastNat
<1>4. PICK R \in T : Cardinality(R) = m
  OBVIOUS
<1>5. ASSUME NEW x \in R, R \ {x} \in T PROVE FALSE
  <2>1. Cardinality(R \ {x}) = Cardinality(R) - 1
    BY FS_RemoveElement
  <2>2. m <= Cardinality(R \ {x}) /\ m \in Nat
    BY <1>1, <1>3, <1>4, <1>5
  <2>. QED BY <1>4, <2>1, <2>2
<1>. QED BY <1>4, <1>5

\* The element SumFunctionOnSet takes out of a set first.
Pick(S) == CHOOSE x \in S : TRUE

\* The sums of f over the subsets of S.
Sums(sum, f, S) ==
    /\ sum \in [SUBSET S -> Int]
    /\ sum = [R \in SUBSET S |-> IF R = {} THEN 0 ELSE f[Pick(R)] + sum[R \ {Pick(R)}]]

\* SumFunctionOnSet is defined by such a recursion.
LEMMA SumIsRecursive ==
    ASSUME NEW f, NEW S, IsFiniteSet(S), \A x \in S : f[x] \in Int
    PROVE  \E sum : Sums(sum, f, S) /\ SumFunctionOnSet(f, S) = sum[S]
<1> DEFINE D == SUBSET S
           stop == {{}}
           base == [R \in D |-> 0]
           next == [R \in D |-> R \ {Pick(R)}]
           step == [p \in D \X Int |-> IF p[1] = {} THEN 0 ELSE f[Pick(p[1])] + p[2]]
           measure == [R \in D |-> Cardinality(R)]
<1>1. \A R \in D : R # {} => Pick(R) \in R
  BY DEF Pick
<1>2. base \in [D -> Int]
  OBVIOUS
<1>3. step \in [D \X Int -> Int]
  <2>1. ASSUME NEW p \in D \X Int
        PROVE  (IF p[1] = {} THEN 0 ELSE f[Pick(p[1])] + p[2]) \in Int
    BY <1>1
  <2>. QED BY <2>1
<1>4. GoesDown(D, stop, next, measure)
  <2>1. \A R \in D : IsFiniteSet(R)
    BY FS_Subset
  <2>2. measure \in [D -> Nat]
    BY <2>1, FS_CardinalityType
  <2>3. ASSUME NEW R \in D, R \notin stop
        PROVE  next[R] \in D /\ measure[next[R]] < measure[R]
    <3>1. Pick(R) \in R
      BY <1>1, <2>3
    <3>2. next[R] = R \ {Pick(R)} /\ R \ {Pick(R)} \in D
      OBVIOUS
    <3>3. Cardinality(R \ {Pick(R)}) = Cardinality(R) - 1 /\ Cardinality(R) \in Nat
      BY <2>1, <3>1, FS_RemoveElement, FS_CardinalityType
    <3>. QED BY <3>2, <3>3
  <2>. QED BY <2>2, <2>3 DEF GoesDown
<1> HIDE DEF base, step, measure, next
<1>5. PICK sum : Recurs(sum, D, Int, stop, base, step, next)
  BY <1>2, <1>3, <1>4, Recursion, Zenon
<1>6. sum \in [D -> Int]
  BY <1>5 DEF Recurs
<1>7. ASSUME NEW R \in D
      PROVE  sum[R] = IF R = {} THEN 0 ELSE f[Pick(R)] + sum[R \ {Pick(R)}]
  <2>1. sum[R] = IF R \in stop THEN base[R] ELSE step[<<R, sum[next[R]]>>]
    <3>1. sum = [d \in D |-> IF d \in stop THEN base[d] ELSE step[<<d, sum[next[d]]>>]]
      BY <1>5 DEF Recurs
    <3>. QED BY <3>1
  <2>2. next[R] = R \ {Pick(R)} /\ next[R] \in D
    BY DEF next
  <2>3. <<R, sum[next[R]]>> \in D \X Int
    BY <1>6, <2>2
  <2>4. R # {} => step[<<R, sum[next[R]]>>] = f[Pick(R)] + sum[next[R]]
    BY <2>3 DEF step
  <2>. QED BY <2>1, <2>2, <2>4 DEF base
<1>8. Sums(sum, f, S)
  <2>1. sum = [R \in D |-> sum[R]]
    BY <1>6
  <2>2. sum = [R \in D |-> IF R = {} THEN 0 ELSE f[Pick(R)] + sum[R \ {Pick(R)}]]
    BY <1>7, <2>1
  <2>. QED BY <1>6, <2>2 DEF Sums
<1> DEFINE Def(h) == h = [R \in SUBSET S |-> IF R = {} THEN 0
                                             ELSE f[Pick(R)] + h[R \ {Pick(R)}]]
           chosen == CHOOSE h : Def(h)
<1>9. Def(chosen)
  <2>1. Def(sum)
    BY <1>8 DEF Sums
  <2> HIDE DEF Def
  <2>. QED BY <2>1
<1>10. SumFunctionOnSet(f, S) = chosen[S]
  BY DEF SumFunctionOnSet, FoldFunctionOnSet, MapThenFoldSet, Pick
<1> HIDE DEF chosen
<1>11. \A R \in D : chosen[R] = sum[R]
  <2> DEFINE Bad == {n \in Nat : \E R \in D : Cardinality(R) = n /\ chosen[R] # sum[R]}
  <2>1. SUFFICES ASSUME NEW R \in D, chosen[R] # sum[R] PROVE FALSE
    OBVIOUS
  <2>2. \A Q \in D : IsFiniteSet(Q) /\ Cardinality(Q) \in Nat
    BY FS_Subset, FS_CardinalityType
  <2>3. Bad \subseteq Nat /\ Cardinality(R) \in Bad
    BY <2>1, <2>2
  <2>4. PICK m \in Bad : \A k \in Bad : m <= k
    <3> HIDE DEF Bad
    <3>1. Bad # {}
      BY <2>3
    <3>. QED BY <2>3, <3>1, LeastNat
  <2>5. PICK Q \in D : Cardinality(Q) = m /\ chosen[Q] # sum[Q]
    OBVIOUS
  <2>6. /\ chosen[Q] = IF Q = {} THEN 0 ELSE f[Pick(Q)] + chosen[Q \ {Pick(Q)}]
        /\ sum[Q] = IF Q = {} THEN 0 ELSE f[Pick(Q)] + sum[Q \ {Pick(Q)}]
    <3>1. chosen[Q] = IF Q = {} THEN 0 ELSE f[Pick(Q)] + chosen[Q \ {Pick(Q)}]
      BY <1>9
    <3>. QED BY <1>7, <3>1
  <2>7. Q # {} /\ chosen[Q \ {Pick(Q)}] # sum[Q \ {Pick(Q)}]
    BY <2>5, <2>6
  <2>8. /\ Q \ {Pick(Q)} \in D /\ Cardinality(Q \ {Pick(Q)}) = m - 1 /\ m - 1 \in Nat
    <3>1. Pick(Q) \in Q
      BY <1>1, <2>7
    <3>2. Cardinality(Q \ {Pick(Q)}) = Cardinality(Q) - 1
      BY <2>2, <3>1, FS_RemoveElement
    <3>3. Q \ {Pick(Q)} \in D
      OBVIOUS
    <3>. QED BY <2>2, <2>5, <3>2, <3>3
  <2>9. m - 1 \in Bad
    BY <2>7, <2>8
  <2>10. m \in Nat /\ ~(m <= m - 1)
    BY <2>3, <2>8
  <2> HIDE DEF Bad
  <2>. QED BY <2>4, <2>9, <2>10
<1>12. SumFunctionOnSet(f, S) = sum[S]
  BY <1>10, <1>11
<1>. QED BY <1>8, <1>12

\* The sums of f over the subsets of S are its sums over these sets.
LEMMA SumOfPart ==
    ASSUME NEW f, NEW S, IsFiniteSet(S), NEW sum, Sums(sum, f, S), \A x \in S : f[x] \in Int,
           NEW R \in SUBSET S
    PROVE  SumFunctionOnSet(f, R) = sum[R]
<1>1. IsFiniteSet(R) /\ \A x \in R : f[x] \in Int
  BY FS_Subset
<1>2. PICK part : Sums(part, f, R) /\ SumFunctionOnSet(f, R) = part[R]
  BY <1>1, SumIsRecursive
<1>3. \A Q \in SUBSET R : part[Q] = sum[Q]
  <2> DEFINE Bad == {Q \in SUBSET R : part[Q] # sum[Q]}
  <2>1. SUFFICES ASSUME Bad # {} PROVE FALSE
    OBVIOUS
  <2>2. \A Q \in Bad : IsFiniteSet(Q)
    BY <1>1, FS_Subset
  <2>3. PICK Q \in Bad : \A x \in Q : Q \ {x} \notin Bad
    <3> HIDE DEF Bad
    <3>. QED BY <2>1, <2>2, SmallestSet
  <2>4. Q \in SUBSET R /\ Q \in SUBSET S /\ part[Q] # sum[Q]
    OBVIOUS
  <2>5. /\ part[Q] = IF Q = {} THEN 0 ELSE f[Pick(Q)] + part[Q \ {Pick(Q)}]
        /\ sum[Q] = IF Q = {} THEN 0 ELSE f[Pick(Q)] + sum[Q \ {Pick(Q)}]
    BY <1>2, <2>4 DEF Sums
  <2>6. Q # {} /\ part[Q \ {Pick(Q)}] # sum[Q \ {Pick(Q)}]
    BY <2>4, <2>5
  <2>7. Pick(Q) \in Q
    BY <2>6 DEF Pick
  <2>. QED BY <2>3, <2>4, <2>6, <2>7
<1>. QED BY <1>2, <1>3

\* A sum is an integer, and that of no numbers is 0.
LEMMA SumType ==
    ASSUME NEW f, NEW S, IsFiniteSet(S), \A x \in S : f[x] \in Int
    PROVE  SumFunctionOnSet(f, S) \in Int
<1>1. PICK sum : Sums(sum, f, S) /\ SumFunctionOnSet(f, S) = sum[S]
  BY SumIsRecursive
<1>. QED BY <1>1 DEF Sums

LEMMA SumOfNone ==
    ASSUME NEW f PROVE SumFunctionOnSet(f, {}) = 0
<1>1. IsFiniteSet({}) /\ \A x \in {} : f[x] \in Int
  BY FS_EmptySet
<1>2. PICK sum : Sums(sum, f, {}) /\ SumFunctionOnSet(f, {}) = sum[{}]
  BY <1>1, SumIsRecursive
<1>. QED BY <1>2 DEF Sums

\* Any element may be taken out first.
LEMMA SumWithout ==
    ASSUME NEW f, NEW S, IsFiniteSet(S), \A x \in S : f[x] \in Int, NEW x \in S
    PROVE  /\ SumFunctionOnSet(f, S) = f[x] + SumFunctionOnSet(f, S \ {x})
           /\ f[x] \in Int /\ SumFunctionOnSet(f, S \ {x}) \in Int
<1>1. PICK sum : Sums(sum, f, S)
  BY SumIsRecursive
<1>2. \A R \in SUBSET S : SumFunctionOnSet(f, R) = sum[R]
  BY <1>1, SumOfPart
<1>3. \A R \in SUBSET S : sum[R] \in Int
  BY <1>1 DEF Sums
<1>4. \A R \in SUBSET S : R # {} => Pick(R) \in R /\ sum[R] = f[Pick(R)] + sum[R \ {Pick(R)}]
  BY <1>1 DEF Sums, Pick
<1> DEFINE Bad == {R \in SUBSET S : \E y \in R : sum[R] # f[y] + sum[R \ {y}]}
<1>5. Bad = {}
  <2>1. SUFFICES ASSUME Bad # {} PROVE FALSE
    OBVIOUS
  <2>2. \A R \in Bad : IsFiniteSet(R)
    BY FS_Subset
  <2>3. PICK R \in Bad : \A y \in R : R \ {y} \notin Bad
    <3> HIDE DEF Bad
    <3>. QED BY <2>1, <2>2, SmallestSet
  <2>4. PICK y \in R : sum[R] # f[y] + sum[R \ {y}]
    OBVIOUS
  <2> DEFINE z == Pick(R)
  <2>5. R \in SUBSET S /\ z \in R /\ sum[R] = f[z] + sum[R \ {z}]
    BY <1>4, <2>4
  <2>6. z # y
    BY <2>4, <2>5
  <2>7. R \ {z} \in SUBSET S /\ R \ {z} \notin Bad /\ y \in R \ {z}
    BY <2>3, <2>5, <2>6
  <2>8. R \ {y} \in SUBSET S /\ R \ {y} \notin Bad /\ z \in R \ {y}
    BY <2>3, <2>5, <2>6
  <2> HIDE DEF z
  <2>9. sum[R \ {z}] = f[y] + sum[(R \ {z}) \ {y}] /\ sum[R \ {y}] = f[z] + sum[(R \ {y}) \ {z}]
    BY <2>7, <2>8
  <2>10. sum[(R \ {z}) \ {y}] = sum[(R \ {y}) \ {z}]
    <3>1. (R \ {z}) \ {y} = (R \ {y}) \ {z}
      OBVIOUS
    <3>. QED BY <3>1, Zenon
  <2>11. f[y] \in Int /\ f[z] \in Int /\ sum[(R \ {y}) \ {z}] \in Int
    BY <1>3, <2>5
  <2> DEFINE rest == sum[(R \ {y}) \ {z}]
  <2> HIDE DEF rest
  <2>12. sum[R] = f[z] + (f[y] + rest) /\ sum[R \ {y}] = f[z] + rest /\ rest \in Int
    BY <2>5, <2>9, <2>10, <2>11 DEF rest
  <2>. QED BY <2>4, <2>11, <2>12
<1>6. sum[S] = f[x] + sum[S \ {x}]
  BY <1>5
<1>. QED BY <1>2, <1>3, <1>6

\* A new element adds its number.
LEMMA SumWith ==
    ASSUME NEW f, NEW S, IsFiniteSet(S), NEW x, x \notin S, \A y \in S \cup {x} : f[y] \in Int
    PROVE  /\ SumFunctionOnSet(f, S \cup {x}) = SumFunctionOnSet(f, S) + f[x]
           /\ SumFunctionOnSet(f, S) \in Int
<1>1. IsFiniteSet(S \cup {x}) /\ (S \cup {x}) \ {x} = S
  BY FS_AddElement
<1>2. /\ SumFunctionOnSet(f, S \cup {x}) = f[x] + SumFunctionOnSet(f, (S \cup {x}) \ {x})
      /\ f[x] \in Int /\ SumFunctionOnSet(f, (S \cup {x}) \ {x}) \in Int
  BY <1>1, SumWithout
<1>3. SumFunctionOnSet(f, (S \cup {x}) \ {x}) = SumFunctionOnSet(f, S)
  BY <1>1
<1>. QED BY <1>2, <1>3

\* Only the numbers of the elements matter.
LEMMA SumSame ==
    ASSUME NEW f, NEW g, NEW S, IsFiniteSet(S), \A x \in S : f[x] \in Int /\ g[x] = f[x]
    PROVE  SumFunctionOnSet(g, S) = SumFunctionOnSet(f, S)
<1> DEFINE Bad == {R \in SUBSET S : SumFunctionOnSet(g, R) # SumFunctionOnSet(f, R)}
<1>1. SUFFICES ASSUME Bad # {} PROVE FALSE
  OBVIOUS
<1>2. \A R \in Bad : IsFiniteSet(R)
  BY FS_Subset
<1>3. PICK R \in Bad : \A x \in R : R \ {x} \notin Bad
  <2> HIDE DEF Bad
  <2>. QED BY <1>1, <1>2, SmallestSet
<1>4. R \in SUBSET S /\ IsFiniteSet(R) /\ SumFunctionOnSet(g, R) # SumFunctionOnSet(f, R)
  BY <1>2
<1>5. R # {}
  BY <1>4, SumOfNone
<1>6. PICK x \in R : TRUE
  BY <1>5
<1>7. SumFunctionOnSet(g, R \ {x}) = SumFunctionOnSet(f, R \ {x})
  BY <1>3, <1>4
<1>8. /\ SumFunctionOnSet(f, R) = f[x] + SumFunctionOnSet(f, R \ {x})
      /\ SumFunctionOnSet(g, R) = g[x] + SumFunctionOnSet(g, R \ {x})
  BY <1>4, SumWithout
<1>. QED BY <1>4, <1>7, <1>8

\* Numbers that are not negative have such a sum, and no number alone is above it.
LEMMA SumNat ==
    ASSUME NEW f, NEW S, IsFiniteSet(S), \A x \in S : f[x] \in Nat
    PROVE  SumFunctionOnSet(f, S) \in Nat
<1> DEFINE Bad == {R \in SUBSET S : SumFunctionOnSet(f, R) \notin Nat}
<1>1. SUFFICES ASSUME Bad # {} PROVE FALSE
  OBVIOUS
<1>2. \A R \in Bad : IsFiniteSet(R)
  BY FS_Subset
<1>3. PICK R \in Bad : \A x \in R : R \ {x} \notin Bad
  <2> HIDE DEF Bad
  <2>. QED BY <1>1, <1>2, SmallestSet
<1>4. R \in SUBSET S /\ IsFiniteSet(R) /\ SumFunctionOnSet(f, R) \notin Nat
  BY <1>2
<1>5. R # {}
  BY <1>4, SumOfNone
<1>6. PICK x \in R : TRUE
  BY <1>5
<1>7. SumFunctionOnSet(f, R \ {x}) \in Nat
  BY <1>3, <1>4
<1>8. SumFunctionOnSet(f, R) = f[x] + SumFunctionOnSet(f, R \ {x}) /\ f[x] \in Nat
  BY <1>4, SumWithout
<1>. QED BY <1>4, <1>7, <1>8

\* What changing, adding or taking out one element does to a sum.
LEMMA SumChange ==
    ASSUME NEW f, NEW g, NEW S, NEW R, IsFiniteSet(S), NEW x, R \ {x} = S \ {x},
           \A y \in S : f[y] \in Int, \A y \in R : g[y] \in Int,
           \A y \in S \ {x} : g[y] = f[y]
    PROVE  /\ SumFunctionOnSet(g, R) = SumFunctionOnSet(f, S)
                  + ((IF x \in R THEN g[x] ELSE 0) - (IF x \in S THEN f[x] ELSE 0))
           /\ SumFunctionOnSet(f, S) \in Int /\ SumFunctionOnSet(g, R) \in Int
<1> DEFINE B == S \ {x}
           b == SumFunctionOnSet(f, B)
<1>1. IsFiniteSet(B) /\ IsFiniteSet(R) /\ b \in Int
  <2>1. IsFiniteSet(B)
    BY FS_Subset
  <2>2. IsFiniteSet(B \cup {x})
    BY <2>1, FS_AddElement
  <2>3. IsFiniteSet(R)
    <3>1. R \subseteq B \cup {x}
      OBVIOUS
    <3>. QED BY <2>2, <3>1, FS_Subset
  <2>4. \A y \in B : f[y] \in Int
    OBVIOUS
  <2>. QED BY <2>1, <2>3, <2>4, SumType
<1>2. SumFunctionOnSet(g, B) = b
  <2>1. \A y \in B : f[y] \in Int /\ g[y] = f[y]
    OBVIOUS
  <2>. QED BY <1>1, <2>1, SumSame
<1>3. SumFunctionOnSet(f, S) = (IF x \in S THEN f[x] ELSE 0) + b
  <2>1. CASE x \in S
    BY <2>1, SumWithout
  <2>2. CASE x \notin S
    <3>1. B = S
      BY <2>2
    <3>2. SumFunctionOnSet(f, S) = b
      BY <3>1
    <3>. QED BY <1>1, <2>2, <3>2
  <2>. QED BY <2>1, <2>2
<1>4. SumFunctionOnSet(g, R) = (IF x \in R THEN g[x] ELSE 0) + b
  <2>1. R \ {x} = B
    OBVIOUS
  <2>2. CASE x \in R
    <3>1. SumFunctionOnSet(g, R) = g[x] + SumFunctionOnSet(g, R \ {x})
      BY <1>1, <2>2, SumWithout
    <3>. QED BY <1>2, <2>1, <2>2, <3>1
  <2>3. CASE x \notin R
    <3>1. R = B
      BY <2>1, <2>3
    <3>. QED BY <1>1, <1>2, <2>3, <3>1
  <2>. QED BY <2>2, <2>3
<1> HIDE DEF b, B
<1>. QED BY <1>1, <1>3, <1>4

\* Sets that share nothing add up.
LEMMA SumOfUnion ==
    ASSUME NEW f, NEW A, NEW B, IsFiniteSet(A), IsFiniteSet(B), A \cap B = {},
           \A x \in A \cup B : f[x] \in Int
    PROVE  /\ SumFunctionOnSet(f, A \cup B) = SumFunctionOnSet(f, A) + SumFunctionOnSet(f, B)
           /\ SumFunctionOnSet(f, A) \in Int /\ SumFunctionOnSet(f, B) \in Int
<1> DEFINE Adds(R) == SumFunctionOnSet(f, A \cup R)
                          = SumFunctionOnSet(f, A) + SumFunctionOnSet(f, R)
           Bad == {R \in SUBSET B : ~Adds(R)}
<1>1. SumFunctionOnSet(f, A) \in Int
  BY SumType
<1>2. \A R \in SUBSET B : IsFiniteSet(R) /\ SumFunctionOnSet(f, R) \in Int
  BY FS_Subset, SumType
<1>3. Bad = {}
  <2>1. SUFFICES ASSUME Bad # {} PROVE FALSE
    OBVIOUS
  <2>2. \A R \in Bad : IsFiniteSet(R)
    BY <1>2
  <2>3. PICK R \in Bad : \A x \in R : R \ {x} \notin Bad
    <3> HIDE DEF Bad
    <3>. QED BY <2>1, <2>2, SmallestSet
  <2>4. R \in SUBSET B /\ ~Adds(R)
    OBVIOUS
  <2>5. R # {}
    <3>1. A \cup {} = A
      OBVIOUS
    <3>2. Adds({})
      BY <1>1, <3>1, SumOfNone
    <3>. QED BY <2>4, <3>2
  <2>6. PICK x \in R : TRUE
    BY <2>5
  <2>7. Adds(R \ {x})
    BY <2>3, <2>4
  <2>8. /\ SumFunctionOnSet(f, R) = f[x] + SumFunctionOnSet(f, R \ {x})
        /\ f[x] \in Int /\ SumFunctionOnSet(f, R \ {x}) \in Int
    BY <1>2, <2>4, SumWithout
  <2>9. SumFunctionOnSet(f, A \cup R) = f[x] + SumFunctionOnSet(f, A \cup (R \ {x}))
    <3>1. IsFiniteSet(A \cup R) /\ \A y \in A \cup R : f[y] \in Int
      BY <1>2, <2>4, FS_Union
    <3>2. SumFunctionOnSet(f, A \cup R) = f[x] + SumFunctionOnSet(f, (A \cup R) \ {x})
      BY <2>6, <3>1, SumWithout
    <3>3. (A \cup R) \ {x} = A \cup (R \ {x})
      BY <2>4, <2>6
    <3>. QED BY <3>2, <3>3
  <2>. QED BY <1>1, <2>4, <2>7, <2>8, <2>9
<1>4. B \notin Bad
  BY <1>3
<1>. QED BY <1>1, <1>2, <1>4

\* A sum of naturals over a part is at most the sum over the whole.
LEMMA SumMonotone ==
    ASSUME NEW f, NEW S, IsFiniteSet(S), \A x \in S : f[x] \in Nat, NEW R \in SUBSET S
    PROVE  /\ SumFunctionOnSet(f, R) <= SumFunctionOnSet(f, S)
           /\ SumFunctionOnSet(f, R) \in Nat /\ SumFunctionOnSet(f, S) \in Nat
<1>1. IsFiniteSet(R) /\ IsFiniteSet(S \ R) /\ R \cap (S \ R) = {} /\ R \cup (S \ R) = S
  BY FS_Subset
<1>2. /\ SumFunctionOnSet(f, S \ R) \in Nat /\ SumFunctionOnSet(f, R) \in Nat
      /\ SumFunctionOnSet(f, S) \in Nat
  BY <1>1, SumNat
<1>3. SumFunctionOnSet(f, R \cup (S \ R)) = SumFunctionOnSet(f, R) + SumFunctionOnSet(f, S \ R)
  BY <1>1, SumOfUnion
<1>. QED BY <1>1, <1>2, <1>3

\* g gives the sums of f over disjoint parts, named by the members of R.
PartSums(f, g, U, R, part) ==
    /\ IsFiniteSet(U) /\ IsFiniteSet(R)
    /\ \A x \in U : f[x] \in Int
    /\ \A p \in R : part[p] \subseteq U /\ g[p] = SumFunctionOnSet(f, part[p])
    /\ \A p, q \in R : p # q => part[p] \cap part[q] = {}

AllParts(R, part) == UNION {part[p] : p \in R}

\* The sums of the parts add up to the sum over all.
LEMMA SumOfParts ==
    ASSUME NEW f, NEW g, NEW U, NEW R, NEW part, PartSums(f, g, U, R, part)
    PROVE  SumFunctionOnSet(g, R) = SumFunctionOnSet(f, AllParts(R, part))
<1> USE DEF PartSums, AllParts
<1> DEFINE All(Q) == UNION {part[p] : p \in Q}
           Adds(Q) == SumFunctionOnSet(g, Q) = SumFunctionOnSet(f, All(Q))
           Bad == {Q \in SUBSET R : ~Adds(Q)}
<1>1. SUFFICES ASSUME Bad # {} PROVE FALSE
  OBVIOUS
<1>2. \A Q \in SUBSET R : IsFiniteSet(Q)
  BY FS_Subset
<1>3. PICK Q \in Bad : \A p \in Q : Q \ {p} \notin Bad
  <2> HIDE DEF Bad
  <2>1. \A Q \in Bad : IsFiniteSet(Q)
    BY <1>2 DEF Bad
  <2>. QED BY <1>1, <2>1, SmallestSet
<1>4. Q \in SUBSET R /\ ~Adds(Q)
  OBVIOUS
<1>5. Q # {}
  <2>1. All({}) = {}
    OBVIOUS
  <2>2. Adds({})
    BY <2>1, SumOfNone
  <2>. QED BY <1>4, <2>2
<1>6. PICK p \in Q : TRUE
  BY <1>5
<1>7. Adds(Q \ {p})
  BY <1>3, <1>4
<1>8. /\ IsFiniteSet(part[p]) /\ part[p] \subseteq U
      /\ IsFiniteSet(All(Q \ {p})) /\ All(Q \ {p}) \subseteq U
      /\ All(Q) = part[p] \cup All(Q \ {p})
      /\ part[p] \cap All(Q \ {p}) = {}
  <2>1. part[p] \subseteq U /\ All(Q \ {p}) \subseteq U
    BY <1>4
  <2>2. All(Q) = part[p] \cup All(Q \ {p})
    BY <1>6
  <2>3. part[p] \cap All(Q \ {p}) = {}
    BY <1>4
  <2>. QED BY <2>1, <2>2, <2>3, FS_Subset
<1>9. \A q \in Q : g[q] \in Int
  <2> TAKE q \in Q
  <2>1. part[q] \subseteq U /\ g[q] = SumFunctionOnSet(f, part[q])
    BY <1>4
  <2>2. IsFiniteSet(part[q])
    BY <2>1, FS_Subset
  <2>. QED BY <2>1, <2>2, SumType
<1>10. SumFunctionOnSet(g, Q) = g[p] + SumFunctionOnSet(g, Q \ {p})
  BY <1>2, <1>4, <1>6, <1>9, SumWithout
<1>11. SumFunctionOnSet(f, All(Q))
           = SumFunctionOnSet(f, part[p]) + SumFunctionOnSet(f, All(Q \ {p}))
  <2> DEFINE A == part[p]
             B == All(Q \ {p})
  <2>1. /\ IsFiniteSet(A) /\ IsFiniteSet(B) /\ A \cap B = {} /\ All(Q) = A \cup B
        /\ \A x \in A \cup B : f[x] \in Int
    BY <1>8
  <2> HIDE DEF A, B, All
  <2>2. SumFunctionOnSet(f, A \cup B) = SumFunctionOnSet(f, A) + SumFunctionOnSet(f, B)
    BY <2>1, SumOfUnion
  <2>. QED BY <2>1, <2>2 DEF A, B
<1>12. g[p] = SumFunctionOnSet(f, part[p])
  BY <1>4
<1> HIDE DEF All
<1>. QED BY <1>4, <1>7, <1>10, <1>11, <1>12

-----------------------------------------------------------------------------
(* Sums modulo n *)

\* A remainder may be taken before or after adding.
LEMMA ModPlus ==
    ASSUME NEW n \in Nat \ {0}, NEW a \in Int, NEW b \in Int
    PROVE  ((a % n) + b) % n = (a + b) % n
<1> DEFINE q == a \div n
           r == a % n
           p == (r + b) \div n
           s == (r + b) % n
<1>1. q \in Int /\ r \in 0 .. (n - 1) /\ a = q * n + r
  BY DivMod
<1>2. p \in Int /\ s \in 0 .. (n - 1) /\ r + b = p * n + s
  BY <1>1, DivMod
<1> HIDE DEF q, r, p, s
<1>3. a + b = (q + p) * n + s /\ q + p \in Int
  BY <1>1, <1>2
<1>4. ((q + p) * n + s) % n = s
  BY <1>2, <1>3, DivModOf
<1>. QED BY <1>3, <1>4 DEF r, s

\* Numbers below n are their own remainders.
LEMMA ModSmall ==
    ASSUME NEW n \in Nat \ {0}, NEW a \in 0 .. (n - 1)
    PROVE  a % n = a
OBVIOUS

\* A remainder is never more than the number.
LEMMA ModAtMost ==
    ASSUME NEW n \in Nat \ {0}, NEW a \in Nat
    PROVE  a % n \in 0 .. (n - 1) /\ a % n <= a
<1> DEFINE q == a \div n
           r == a % n
<1>1. q \in Int /\ r \in 0 .. (n - 1) /\ a = q * n + r
  BY DivMod
<1> HIDE DEF q, r
<1>2. ~(q * n + r < 0 * n + 0)
  BY <1>1
<1>3. ~(q < 0)
  BY <1>1, <1>2, BlockOrder
<1>4. q * n >= 0
  BY <1>1, <1>3
<1>5. r \in 0 .. (n - 1) /\ r <= a
  BY <1>1, <1>4
<1>. QED BY <1>5 DEF r

\* Adding remainders is adding, modulo n.
LEMMA SumMod ==
    ASSUME NEW n \in Nat \ {0}, NEW f, NEW g, NEW S, IsFiniteSet(S),
           \A x \in S : f[x] \in Int /\ g[x] = f[x] % n
    PROVE  SumFunctionOnSet(g, S) % n = SumFunctionOnSet(f, S) % n
<1> DEFINE Same(R) == SumFunctionOnSet(g, R) % n = SumFunctionOnSet(f, R) % n
           Bad == {R \in SUBSET S : ~Same(R)}
<1>1. SUFFICES ASSUME Bad # {} PROVE FALSE
  OBVIOUS
<1>2. \A R \in Bad : IsFiniteSet(R)
  BY FS_Subset
<1>3. PICK R \in Bad : \A x \in R : R \ {x} \notin Bad
  <2> HIDE DEF Bad
  <2>. QED BY <1>1, <1>2, SmallestSet
<1>4. R \in SUBSET S /\ IsFiniteSet(R) /\ ~Same(R)
  BY <1>2
<1>5. R # {}
  BY <1>4, SumOfNone
<1>6. PICK x \in R : TRUE
  BY <1>5
<1>7. Same(R \ {x})
  BY <1>3, <1>4
<1>8. \A y \in R : f[y] \in Int /\ g[y] \in Int
  BY <1>4, DivMod
<1> DEFINE a == SumFunctionOnSet(f, R \ {x})
           b == SumFunctionOnSet(g, R \ {x})
<1>9. /\ SumFunctionOnSet(f, R) = f[x] + a /\ a \in Int /\ f[x] \in Int
      /\ SumFunctionOnSet(g, R) = g[x] + b /\ b \in Int /\ g[x] \in Int
  BY <1>4, <1>6, <1>8, SumWithout
<1>10. g[x] = f[x] % n
  BY <1>4
<1> HIDE DEF a, b
<1> DEFINE u == f[x]
           v == g[x]
<1> HIDE DEF u, v
<1>11. u \in Int /\ v = u % n /\ a \in Int /\ b \in Int
  BY <1>9, <1>10 DEF u, v
<1>12. (v + b) % n = (u + b) % n
  BY <1>11, ModPlus
<1>13. (u + b) % n = ((b % n) + u) % n /\ (u + a) % n = ((a % n) + u) % n
  <2>1. u + b = b + u /\ u + a = a + u
    BY <1>11
  <2>2. ((b % n) + u) % n = (b + u) % n /\ ((a % n) + u) % n = (a + u) % n
    BY <1>11, ModPlus
  <2>. QED BY <2>1, <2>2
<1>14. b % n = a % n
  BY <1>7 DEF a, b
<1>15. (v + b) % n = (u + a) % n
  BY <1>12, <1>13, <1>14
<1>. QED BY <1>4, <1>9, <1>15 DEF u, v

-----------------------------------------------------------------------------
(* Sequences *)

\* RemoveAt and InsertAt of SequencesExt, under names no module has.
LessOne(s, i) == SubSeq(s, 1, i - 1) \o SubSeq(s, i + 1, Len(s))
WithOne(s, i, e) == SubSeq(s, 1, i - 1) \o <<e>> \o SubSeq(s, i, Len(s))

\* Removing one element shifts those behind it by one place.
LEMMA LessOneFacts ==
  ASSUME NEW S, NEW s \in Seq(S), NEW i \in 1 .. Len(s)
  PROVE  /\ LessOne(s, i) \in Seq(S)
         /\ Len(LessOne(s, i)) = Len(s) - 1
         /\ \A k \in 1 .. (Len(s) - 1) :
                LessOne(s, i)[k] = IF k < i THEN s[k] ELSE s[k + 1]
<1> DEFINE a == SubSeq(s, 1, i - 1)
           b == SubSeq(s, i + 1, Len(s))
<1>1. a \in Seq(S) /\ Len(a) = i - 1 /\ \A k \in 1 .. (i - 1) : a[k] = s[k]
  OBVIOUS
<1>2. b \in Seq(S) /\ Len(b) = Len(s) - i /\ \A k \in 1 .. (Len(s) - i) : b[k] = s[i + k]
  OBVIOUS
<1>3. LessOne(s, i) = a \o b
  BY DEF LessOne
<1> HIDE DEF a, b
<1>4. /\ a \o b \in Seq(S)
      /\ Len(a \o b) = Len(a) + Len(b)
      /\ \A k \in 1 .. (Len(a) + Len(b)) :
             (a \o b)[k] = IF k <= Len(a) THEN a[k] ELSE b[k - Len(a)]
  BY <1>1, <1>2, ConcatProperties
<1> QED
  BY <1>1, <1>2, <1>3, <1>4

\* Inserting one moves those from its place on back by one.
LEMMA WithOneFacts ==
  ASSUME NEW S, NEW s \in Seq(S), NEW i \in 1 .. (Len(s) + 1), NEW e \in S
  PROVE  /\ WithOne(s, i, e) \in Seq(S)
         /\ Len(WithOne(s, i, e)) = Len(s) + 1
         /\ \A k \in 1 .. (i - 1) : WithOne(s, i, e)[k] = s[k]
         /\ WithOne(s, i, e)[i] = e
         /\ \A k \in i .. Len(s) : WithOne(s, i, e)[k + 1] = s[k]
<1> DEFINE a == SubSeq(s, 1, i - 1)
           m == <<e>>
           b == SubSeq(s, i, Len(s))
<1>1. a \in Seq(S) /\ Len(a) = i - 1 /\ \A k \in 1 .. (i - 1) : a[k] = s[k]
  OBVIOUS
<1>2. b \in Seq(S) /\ Len(b) = Len(s) - i + 1 /\ \A k \in 1 .. (Len(s) - i + 1) : b[k] = s[i + k - 1]
  OBVIOUS
<1>3. m \in Seq(S) /\ Len(m) = 1 /\ m[1] = e
  OBVIOUS
<1>4. WithOne(s, i, e) = (a \o m) \o b
  BY DEF WithOne
<1> HIDE DEF a, b, m
<1>5. /\ a \o m \in Seq(S)
      /\ Len(a \o m) = i
      /\ \A k \in 1 .. i : (a \o m)[k] = IF k < i THEN s[k] ELSE e
  <2>1. /\ a \o m \in Seq(S)
        /\ Len(a \o m) = Len(a) + Len(m)
        /\ \A k \in 1 .. (Len(a) + Len(m)) :
               (a \o m)[k] = IF k <= Len(a) THEN a[k] ELSE m[k - Len(a)]
    BY <1>1, <1>3, ConcatProperties
  <2>2. Len(a) + Len(m) = i
    BY <1>1, <1>3
  <2>3. \A k \in 1 .. i : (k < i => k <= Len(a) /\ a[k] = s[k]) /\ (k = i => k - Len(a) = 1)
    BY <1>1
  <2>. QED BY <1>1, <1>3, <2>1, <2>2, <2>3
<1> DEFINE c == a \o m
<1> HIDE DEF c
<1>6. c \in Seq(S) /\ Len(c) = i /\ \A k \in 1 .. i : c[k] = IF k < i THEN s[k] ELSE e
  BY <1>5 DEF c
<1>7. /\ c \o b \in Seq(S)
      /\ Len(c \o b) = Len(c) + Len(b)
      /\ \A k \in 1 .. (Len(c) + Len(b)) :
             (c \o b)[k] = IF k <= Len(c) THEN c[k] ELSE b[k - Len(c)]
  <2>1. b \in Seq(S) /\ c \in Seq(S)
    BY <1>2, <1>6
  <2>. QED BY <2>1, ConcatProperties
<1>. QED BY <1>2, <1>4, <1>6, <1>7 DEF c

=============================================================================
