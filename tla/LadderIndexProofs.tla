-------------------------- MODULE LadderIndexProofs --------------------------
(***************************************************************************)
(* Theorems about LadderIndex: for every range, word size and level total, *)
(* bitmap, summary and count match the levels, the cursor is on the best   *)
(* one after any rescan, and sums and listings read from the bitmap are    *)
(* those of the levels.                                                    *)
(***************************************************************************)
EXTENDS LadderIndex, DataFacts, FiniteSetTheorems

Bits == 0 .. (WordBits - 1)
At(w, x) == w * WordBits + x

-----------------------------------------------------------------------------
(* Words and bits *)

LEMMA WordBitFacts ==
    /\ \A i \in Int : WordOf(i) \in Int /\ BitOf(i) \in Bits /\ At(WordOf(i), BitOf(i)) = i
    /\ \A w \in Int, x \in Bits : At(w, x) \in Int /\ WordOf(At(w, x)) = w /\ BitOf(At(w, x)) = x
    /\ \A w, v \in Int, x, y \in Bits : At(w, x) < At(v, y) <=> (w < v \/ (w = v /\ x < y))
<1>1. WordBits \in Nat \ {0}
  BY WordBitsAssumption
<1>2. \A i \in Int : WordOf(i) \in Int /\ BitOf(i) \in Bits /\ At(WordOf(i), BitOf(i)) = i
  BY <1>1, DivMod DEF WordOf, BitOf, Bits, At
<1>3. \A w \in Int, x \in Bits : At(w, x) \in Int /\ WordOf(At(w, x)) = w /\ BitOf(At(w, x)) = x
  BY <1>1, DivModOf DEF WordOf, BitOf, Bits, At
<1>4. \A w, v \in Int, x, y \in Bits : At(w, x) < At(v, y) <=> (w < v \/ (w = v /\ x < y))
  BY <1>1, BlockOrder DEF Bits, At
<1>. QED BY <1>2, <1>3, <1>4

\* Indexes are ordered by word, then by bit.
LEMMA WordOrder ==
    /\ \A x \in Bits : x \in Int /\ 0 <= x
    /\ 0 \in Bits /\ At(0, 0) = 0
    /\ \A w, v \in Int, x, y \in Bits : At(w, x) <= At(v, y) <=> (w < v \/ (w = v /\ x <= y))
<1>1. \A x \in Bits : x \in Int /\ 0 <= x
  BY WordBitsAssumption DEF Bits
<1>2. 0 \in Bits /\ At(0, 0) = 0
  BY WordBitsAssumption DEF Bits, At
<1>3. ASSUME NEW w \in Int, NEW v \in Int, NEW x \in Bits, NEW y \in Bits
      PROVE  At(w, x) <= At(v, y) <=> (w < v \/ (w = v /\ x <= y))
  <2>1. At(v, y) < At(w, x) <=> (v < w \/ (v = w /\ y < x))
    BY WordBitFacts
  <2>2. At(w, x) \in Int /\ At(v, y) \in Int
    BY WordBitFacts
  <2> HIDE DEF At
  <2>. QED BY <1>1, <2>1, <2>2
<1>. QED BY <1>1, <1>2, <1>3

\* Every index has its word, and every word its word of the summary.
LEMMA WordRange ==
    /\ NumWords \in Nat
    /\ \A i \in Indexes : i \in Nat /\ WordOf(i) \in Words
    /\ \A w \in Words : w \in Nat /\ w < NumWords /\ WordOf(w) \in SummaryWords
<1>1. WordBits \in Nat \ {0} /\ Span \in Nat
  BY WordBitsAssumption, SpanAssumption
<1>2. NumWords \in Nat /\ \A i \in 0 .. (Span - 1) : i \div WordBits \in 0 .. (NumWords - 1)
  BY <1>1, CeilDiv DEF NumWords
<1>3. \A w \in 0 .. (NumWords - 1) :
          w \div WordBits \in 0 .. ((NumWords + WordBits - 1) \div WordBits - 1)
  BY <1>1, <1>2, CeilDiv
<1>4. \A w \in Words : w \in Nat /\ w < NumWords
  BY <1>2 DEF Words
<1>5. \A i \in Indexes : i \in Nat
  BY <1>1 DEF Indexes
<1>. QED BY <1>2, <1>3, <1>4, <1>5 DEF Indexes, Words, SummaryWords, WordOf

-----------------------------------------------------------------------------
(* rescan *)

Bitmaps == [Words -> SUBSET Bits]
Summaries == [SummaryWords -> SUBSET Bits]

\* Index i is marked in bitmap b.
Mark(b, i) == WordOf(i) \in Words /\ BitOf(i) \in b[WordOf(i)]

\* s is the summary of b.
Summarises(s, b) ==
    \A v \in SummaryWords, x \in Bits :
        x \in s[v] <=> At(v, x) \in Words /\ b[At(v, x)] # {}

\* The summary bits that the walk upward looks at from word n, and what it finds.
BitsUp(s, n) == {x \in s[WordOf(n)] : x >= BitOf(n)}

NextUp(b, s, w, ahead) ==
    IF ahead # {} THEN At(w, Lowest(ahead)) * WordBits + Lowest(b[At(w, Lowest(ahead))])
                  ELSE SeekUp(b, s)[w * WordBits + WordBits]

\* The walk upward goes from a word to a later one.
LEMMA SeekUpEquation ==
    ASSUME NEW b, NEW s, NEW n \in Nat
    PROVE  SeekUp(b, s)[n] = IF n >= NumWords THEN NIL ELSE NextUp(b, s, WordOf(n), BitsUp(s, n))
<1> DEFINE ahead(k) == {x \in s[WordOf(k)] : x >= BitOf(k)}
           nw(k) == WordOf(k) * WordBits + Lowest(ahead(k))
           stop == {k \in Nat : k >= NumWords \/ ahead(k) # {}}
           base == [k \in Nat |-> IF k >= NumWords THEN NIL ELSE nw(k) * WordBits + Lowest(b[nw(k)])]
           next == [k \in Nat |-> WordOf(k) * WordBits + WordBits]
           measure == [k \in Nat |-> IF k >= NumWords THEN 0 ELSE NumWords - k]
           Walk(f) == [k \in Nat |-> IF k >= NumWords THEN NIL
                                     ELSE IF ahead(k) # {} THEN nw(k) * WordBits + Lowest(b[nw(k)])
                                     ELSE f[WordOf(k) * WordBits + WordBits]]
<1>1. measure \in [Nat -> Nat]
  BY WordRange
<1>2. \A k \in Nat : next[k] \in Nat /\ next[k] > k
  <2> TAKE k \in Nat
  <2>1. WordOf(k) \in Int /\ BitOf(k) \in Bits /\ k = WordOf(k) * WordBits + BitOf(k)
    BY WordBitFacts DEF At
  <2>2. next[k] \in Int
    BY <2>1, WordBitsAssumption
  <2>3. next[k] > k
    BY <2>1, WordBitsAssumption DEF Bits
  <2>. QED BY <2>2, <2>3
<1>3. \A k \in Nat : k \notin stop => next[k] \in Nat /\ measure[next[k]] < measure[k]
  <2> TAKE k \in Nat
  <2> HAVE k \notin stop
  <2> DEFINE m == next[k]
  <2>1. m \in Nat /\ m > k
    BY <1>2
  <2>2. k < NumWords
    BY WordRange
  <2> HIDE DEF m, stop, next
  <2>3. measure[m] < measure[k]
    BY <2>1, <2>2, WordRange
  <2>. QED BY <2>1, <2>3 DEF m
<1>4. GoesDown(Nat, stop, next, measure)
  <2> HIDE DEF stop, next, measure
  <2>. QED BY <1>1, <1>3 DEF GoesDown
<1>5. \E f : Walks(f, Nat, stop, base, next)
  <2> HIDE DEF stop, base, next, measure
  <2>. QED BY <1>4, Descent, Zenon
<1>6. \A f : [k \in Nat |-> IF k \in stop THEN base[k] ELSE f[next[k]]] = Walk(f)
  OBVIOUS
<1>7. \E f : f = Walk(f)
  <2> HIDE DEF stop, base, next, Walk
  <2>. QED BY <1>5, <1>6 DEF Walks
<1>8. SeekUp(b, s) = CHOOSE f : f = Walk(f)
  BY DEF SeekUp
<1>9. SeekUp(b, s) = Walk(SeekUp(b, s))
  <2> HIDE DEF Walk
  <2>. QED BY <1>7, <1>8
<1>. QED BY <1>9 DEF NextUp, BitsUp, At

\* The lowest, the highest bit of a word that is not empty.
LEMMA LowestFacts ==
    ASSUME NEW T, T \subseteq Bits, T # {}
    PROVE  Lowest(T) \in T /\ \A x \in T : Lowest(T) <= x
<1>1. T \subseteq Int /\ 0 \in Int /\ \A x \in T : 0 <= x
  BY WordBitsAssumption DEF Bits
<1>. QED BY <1>1, MinFacts, Zenon DEF Lowest

LEMMA HighestFacts ==
    ASSUME NEW T, T \subseteq Bits, T # {}
    PROVE  Highest(T) \in T /\ \A x \in T : x <= Highest(T)
<1>1. T \subseteq Int /\ WordBits \in Int /\ \A x \in T : x <= WordBits
  BY WordBitsAssumption DEF Bits
<1>. QED BY <1>1, MaxFacts, Zenon DEF Highest

\* Where index r stands to the marks in the words from n up.
FirstFrom(b, n, r) ==
    /\ r = NIL \/ (r \in Int /\ Mark(b, r) /\ WordOf(r) >= n)
    /\ \A i \in Int : Mark(b, i) /\ WordOf(i) >= n => r # NIL /\ r <= i

LEMMA SeekUpFinds ==
    ASSUME NEW b \in Bitmaps, NEW s \in Summaries, Summarises(s, b), NEW n \in Nat
    PROVE  FirstFrom(b, n, SeekUp(b, s)[n])
<1> DEFINE P(k) == FirstFrom(b, k, SeekUp(b, s)[k])
           Bad == {k \in Nat : ~P(k)}
<1>1. SUFFICES ASSUME Bad # {} PROVE FALSE
  OBVIOUS
<1>2. \A k \in Nat : k >= NumWords => P(k)
  <2> TAKE k \in Nat
  <2> HAVE k >= NumWords
  <2>1. SeekUp(b, s)[k] = NIL
    BY SeekUpEquation
  <2>2. \A i \in Int : ~(Mark(b, i) /\ WordOf(i) >= k)
    BY WordRange DEF Mark
  <2>. QED BY <2>1, <2>2 DEF FirstFrom
<1>3. PICK k \in Bad : \A j \in Bad : j <= k
  <2>1. Bad \subseteq Int /\ NumWords \in Int /\ \A j \in Bad : j <= NumWords
    BY <1>2, WordRange
  <2> HIDE DEF Bad
  <2>. QED BY <1>1, <2>1, GreatestInt
<1>4. k \in Nat /\ k < NumWords /\ ~(k >= NumWords) /\ k \in Words /\ ~P(k)
  BY <1>2, WordRange DEF Words
<1> DEFINE sw == WordOf(k)
           lo == BitOf(k)
           ahead == {x \in s[sw] : x >= lo}
           r == SeekUp(b, s)[k]
           step(y) == At(sw, y) * WordBits + Lowest(b[At(sw, y)])
<1>5. r = IF k >= NumWords THEN NIL
          ELSE IF ahead # {} THEN step(Lowest(ahead)) ELSE SeekUp(b, s)[sw * WordBits + WordBits]
  <2>1. r = IF k >= NumWords THEN NIL ELSE NextUp(b, s, sw, BitsUp(s, k))
    BY <1>4, SeekUpEquation
  <2>2. ahead = BitsUp(s, k)
    BY DEF BitsUp
  <2>3. step(Lowest(ahead)) = At(sw, Lowest(ahead)) * WordBits + Lowest(b[At(sw, Lowest(ahead))])
    OBVIOUS
  <2> HIDE DEF ahead, sw, step, r
  <2>. QED BY <2>1, <2>2, <2>3 DEF NextUp
<1>6. \A w \in Words : w \in Int /\ b[w] \subseteq Bits
  BY WordRange DEF Bitmaps
<1>7. sw \in SummaryWords /\ sw \in Int /\ lo \in Bits /\ k = At(sw, lo) /\ ahead \subseteq Bits
  BY <1>4, WordRange, WordBitFacts DEF Summaries
\* A marked word from k on in k's summary word is in ahead.
<1>8. ASSUME NEW i \in Int, Mark(b, i), WordOf(i) >= k
      PROVE  /\ WordOf(i) \in Words /\ WordOf(i) \in Int
             /\ BitOf(WordOf(i)) \in Bits /\ WordOf(WordOf(i)) \in Int
             /\ WordOf(i) = At(WordOf(WordOf(i)), BitOf(WordOf(i)))
             /\ WordOf(WordOf(i)) >= sw
             /\ WordOf(WordOf(i)) = sw => BitOf(WordOf(i)) \in ahead
  <2> DEFINE v == WordOf(i)
             p == WordOf(v)
             q == BitOf(v)
  <2>1. v \in Words /\ v \in Int /\ b[v] # {}
    BY <1>8, WordBitFacts DEF Mark
  <2>2. p \in Int /\ q \in Bits /\ v = At(p, q)
    BY <2>1, WordBitFacts
  <2> HIDE DEF v, p, q
  <2>3. ~(p < sw) /\ (p = sw => ~(q < lo))
    <3>1. ~(At(p, q) < At(sw, lo))
      BY <1>4, <1>7, <1>8, <2>1, <2>2 DEF v
    <3>. QED BY <1>7, <2>2, <3>1, WordBitFacts
  <2>4. p = sw => q \in ahead
    BY <1>7, <2>1, <2>2, <2>3 DEF Summarises, Bits
  <2>. QED BY <1>7, <2>1, <2>2, <2>3, <2>4 DEF v, p, q
<1>9. CASE ahead # {}
  <2> DEFINE y == Lowest(ahead)
             nw == At(sw, y)
             z == Lowest(b[nw])
  <2>1. y \in ahead /\ y \in Bits /\ \A x \in ahead : y <= x
    BY <1>7, <1>9, LowestFacts
  <2>2. nw \in Words /\ nw \in Int /\ b[nw] # {} /\ b[nw] \subseteq Bits
    <3>1. At(sw, y) \in Words /\ b[At(sw, y)] # {}
      BY <1>7, <2>1 DEF Summarises
    <3>. QED BY <1>6, <3>1
  <2>3. z \in b[nw] /\ z \in Bits /\ \A x \in b[nw] : z <= x
    BY <2>2, LowestFacts
  <2>4. r = At(nw, z)
    BY <1>4, <1>9, <1>5 DEF At
  <2> HIDE DEF y, nw, z, r, ahead
  <2>5. r \in Int /\ Mark(b, r) /\ WordOf(r) = nw
    BY <2>2, <2>3, <2>4, WordBitFacts DEF Mark
  <2>6. nw >= k
    <3>1. y >= lo
      BY <2>1 DEF ahead
    <3>2. ~(At(sw, y) < At(sw, lo))
      BY <1>7, <2>1, <3>1, WordBitFacts DEF Bits
    <3>. QED BY <1>4, <1>7, <2>2, <3>2 DEF nw
  <2>7. ASSUME NEW i \in Int, Mark(b, i), WordOf(i) >= k PROVE r # NIL /\ r <= i
    <3> DEFINE v == WordOf(i)
               x == BitOf(i)
    <3>1. i = At(v, x) /\ x \in b[v] /\ x \in Bits /\ v \in Int
      BY <2>7, WordBitFacts DEF Mark
    <3>2. ~(v < nw)
      <4>1. SUFFICES ASSUME v < nw PROVE FALSE
        OBVIOUS
      <4>2. /\ v = At(WordOf(v), BitOf(v)) /\ WordOf(v) \in Int /\ BitOf(v) \in Bits
            /\ WordOf(v) >= sw /\ (WordOf(v) = sw => BitOf(v) \in ahead)
        BY <1>8, <2>7
      <4>3. At(WordOf(v), BitOf(v)) < At(sw, y)
        BY <4>1, <4>2 DEF nw
      <4>4. WordOf(v) < sw \/ (WordOf(v) = sw /\ BitOf(v) < y)
        BY <1>7, <2>1, <4>2, <4>3, WordBitFacts
      <4>. QED BY <1>7, <2>1, <4>2, <4>4 DEF Bits
    <3>3. v = nw => ~(x < z)
      BY <2>3, <3>1 DEF Bits
    <3>4. ~(i < r)
      BY <2>2, <2>3, <2>4, <3>1, <3>2, <3>3, WordBitFacts
    <3>5. r # NIL
      <4>1. SUFFICES ASSUME r = NIL PROVE FALSE
        OBVIOUS
      <4>2. nw >= 0
        BY <1>4, <2>2, <2>6
      <4>3. ~(At(nw, z) < At(0, 0))
        BY <2>2, <2>3, <4>2, WordBitFacts, WordBitsAssumption DEF Bits
      <4>. QED BY <2>4, <4>1, <4>3, WordBitsAssumption DEF At, NIL
    <3>. QED BY <2>5, <3>4, <3>5
  <2>8. FirstFrom(b, k, r)
    BY <2>5, <2>6, <2>7 DEF FirstFrom
  <2>. QED BY <1>4, <2>8 DEF r
<1>10. CASE ahead = {}
  <2> DEFINE m == sw * WordBits + WordBits
  <2>1. r = SeekUp(b, s)[m]
    BY <1>4, <1>10, <1>5
  <2>2. m = At(sw + 1, 0) /\ 0 \in Bits
    BY <1>7, WordBitsAssumption DEF At, Bits
  <2>3. m \in Int /\ m > k
    BY <1>7, <2>2, WordBitFacts
  <2>4. P(m)
    <3>1. m \in Nat /\ m \notin Bad
      <4> HIDE DEF Bad, m
      <4>. QED BY <1>3, <1>4, <2>3
    <3>. QED BY <3>1
  <2> HIDE DEF r, m, ahead
  <2>5. ASSUME NEW i \in Int, Mark(b, i), WordOf(i) >= k PROVE WordOf(i) >= m
    <3> DEFINE v == WordOf(i)
    <3>1. /\ v = At(WordOf(v), BitOf(v)) /\ WordOf(v) \in Int /\ BitOf(v) \in Bits /\ v \in Int
          /\ WordOf(v) >= sw /\ WordOf(v) # sw
      BY <1>8, <1>10, <2>5
    <3>2. ~(At(WordOf(v), BitOf(v)) < At(sw + 1, 0))
      <4> DEFINE x == WordOf(v)
                 y == BitOf(v)
      <4>1. x \in Int /\ y \in Bits /\ x >= sw /\ x # sw /\ sw \in Int
        BY <1>7, <3>1
      <4> HIDE DEF x, y, sw
      <4>2. ~(x < sw + 1) /\ ~(y < 0) /\ sw + 1 \in Int
        BY <4>1 DEF Bits
      <4>3. ~(At(x, y) < At(sw + 1, 0))
        BY <2>2, <4>1, <4>2, WordBitFacts
      <4>. QED BY <4>3 DEF x, y
    <3>. QED BY <2>2, <2>3, <3>1, <3>2
  <2>6. FirstFrom(b, k, r)
    <3>1. FirstFrom(b, m, r)
      BY <2>1, <2>4
    <3>2. r = NIL \/ (r \in Int /\ Mark(b, r) /\ WordOf(r) >= k)
      <4>1. r \in Int => WordOf(r) \in Int
        BY WordBitFacts
      <4>. QED BY <1>4, <2>3, <3>1, <4>1 DEF FirstFrom
    <3>. QED BY <2>5, <3>1, <3>2 DEF FirstFrom
  <2>. QED BY <1>4, <2>6 DEF r
<1>. QED BY <1>9, <1>10

\* The summary bits that the walk downward looks at from word n, and what it finds.
BitsDown(s, n) == {x \in s[WordOf(n)] : x <= BitOf(n)}

NextDown(b, s, w, ahead) ==
    IF ahead # {} THEN At(w, Highest(ahead)) * WordBits + Highest(b[At(w, Highest(ahead))])
                  ELSE SeekDown(b, s)[w * WordBits - 1]

\* The walk downward goes from a word to an earlier one.
LEMMA SeekDownEquation ==
    ASSUME NEW b, NEW s, NEW n \in Int
    PROVE  SeekDown(b, s)[n] = IF n < 0 THEN NIL ELSE NextDown(b, s, WordOf(n), BitsDown(s, n))
<1> DEFINE ahead(k) == {x \in s[WordOf(k)] : x <= BitOf(k)}
           nw(k) == WordOf(k) * WordBits + Highest(ahead(k))
           stop == {k \in Int : k < 0 \/ ahead(k) # {}}
           base == [k \in Int |-> IF k < 0 THEN NIL ELSE nw(k) * WordBits + Highest(b[nw(k)])]
           next == [k \in Int |-> WordOf(k) * WordBits - 1]
           measure == [k \in Int |-> IF k < 0 THEN 0 ELSE k + 1]
           Walk(f) == [k \in Int |-> IF k < 0 THEN NIL
                                     ELSE IF ahead(k) # {} THEN nw(k) * WordBits + Highest(b[nw(k)])
                                     ELSE f[WordOf(k) * WordBits - 1]]
<1>1. measure \in [Int -> Nat]
  BY WordRange
<1>2. \A k \in Int : next[k] \in Int /\ next[k] < k
  <2> TAKE k \in Int
  <2>1. WordOf(k) \in Int /\ BitOf(k) \in Bits /\ k = WordOf(k) * WordBits + BitOf(k)
    BY WordBitFacts DEF At
  <2>2. next[k] \in Int
    BY <2>1, WordBitsAssumption
  <2>3. next[k] < k
    BY <2>1, WordBitsAssumption DEF Bits
  <2>. QED BY <2>2, <2>3
<1>3. \A k \in Int : k \notin stop => next[k] \in Int /\ measure[next[k]] < measure[k]
  <2> TAKE k \in Int
  <2> HAVE k \notin stop
  <2> DEFINE m == next[k]
  <2>1. m \in Int /\ m < k
    BY <1>2
  <2>2. k >= 0
    BY WordRange
  <2> HIDE DEF m, stop, next
  <2>3. measure[m] < measure[k]
    BY <2>1, <2>2, WordRange
  <2>. QED BY <2>1, <2>3 DEF m
<1>4. GoesDown(Int, stop, next, measure)
  <2> HIDE DEF stop, next, measure
  <2>. QED BY <1>1, <1>3 DEF GoesDown
<1>5. \E f : Walks(f, Int, stop, base, next)
  <2> HIDE DEF stop, base, next, measure
  <2>. QED BY <1>4, Descent, Zenon
<1>6. \A f : [k \in Int |-> IF k \in stop THEN base[k] ELSE f[next[k]]] = Walk(f)
  OBVIOUS
<1>7. \E f : f = Walk(f)
  <2> HIDE DEF stop, base, next, Walk
  <2>. QED BY <1>5, <1>6 DEF Walks
<1>8. SeekDown(b, s) = CHOOSE f : f = Walk(f)
  BY DEF SeekDown
<1>9. SeekDown(b, s) = Walk(SeekDown(b, s))
  <2> HIDE DEF Walk
  <2>. QED BY <1>7, <1>8
<1>. QED BY <1>9 DEF NextDown, BitsDown, At

\* The same to the marks in the words from n down.
LastUpto(b, n, r) ==
    /\ r = NIL \/ (r \in Int /\ Mark(b, r) /\ WordOf(r) <= n)
    /\ \A i \in Int : Mark(b, i) /\ WordOf(i) <= n => r # NIL /\ i <= r

LEMMA SeekDownFinds ==
    ASSUME NEW b \in Bitmaps, NEW s \in Summaries, Summarises(s, b), NEW n \in Int, n < NumWords
    PROVE  LastUpto(b, n, SeekDown(b, s)[n])
<1> DEFINE P(k) == LastUpto(b, k, SeekDown(b, s)[k])
           Bad == {k \in Int : k < NumWords /\ ~P(k)}
<1>1. SUFFICES ASSUME Bad # {} PROVE FALSE
  OBVIOUS
<1>2. \A k \in Int : k < 0 => P(k)
  <2> TAKE k \in Int
  <2> HAVE k < 0
  <2>1. SeekDown(b, s)[k] = NIL
    BY SeekDownEquation
  <2>2. \A i \in Int : ~(Mark(b, i) /\ WordOf(i) <= k)
    BY WordRange DEF Mark
  <2>. QED BY <2>1, <2>2 DEF LastUpto
<1>3. PICK k \in Bad : \A j \in Bad : k <= j
  <2>1. Bad \subseteq Int /\ 0 \in Int /\ \A j \in Bad : 0 <= j
    BY <1>2, WordRange
  <2> HIDE DEF Bad
  <2>. QED BY <1>1, <2>1, LeastInt
<1>4. k \in Int /\ k \in Nat /\ k < NumWords /\ ~(k < 0) /\ k \in Words /\ ~P(k)
  BY <1>2, WordRange DEF Words
<1> DEFINE sw == WordOf(k)
           hi == BitOf(k)
           ahead == {x \in s[sw] : x <= hi}
           r == SeekDown(b, s)[k]
           step(y) == At(sw, y) * WordBits + Highest(b[At(sw, y)])
<1>5. r = IF k < 0 THEN NIL
          ELSE IF ahead # {} THEN step(Highest(ahead)) ELSE SeekDown(b, s)[sw * WordBits - 1]
  <2>1. r = IF k < 0 THEN NIL ELSE NextDown(b, s, sw, BitsDown(s, k))
    BY <1>4, SeekDownEquation
  <2>2. ahead = BitsDown(s, k)
    BY DEF BitsDown
  <2>3. step(Highest(ahead)) = At(sw, Highest(ahead)) * WordBits + Highest(b[At(sw, Highest(ahead))])
    OBVIOUS
  <2> HIDE DEF ahead, sw, step, r
  <2>. QED BY <2>1, <2>2, <2>3 DEF NextDown
<1>6. \A w \in Words : w \in Int /\ b[w] \subseteq Bits
  BY WordRange DEF Bitmaps
<1>7. sw \in SummaryWords /\ sw \in Int /\ hi \in Bits /\ k = At(sw, hi) /\ ahead \subseteq Bits
  BY <1>4, WordRange, WordBitFacts DEF Summaries
\* A marked word up to k in k's summary word is in ahead.
<1>8. ASSUME NEW i \in Int, Mark(b, i), WordOf(i) <= k
      PROVE  /\ WordOf(i) \in Words /\ WordOf(i) \in Int
             /\ BitOf(WordOf(i)) \in Bits /\ WordOf(WordOf(i)) \in Int
             /\ WordOf(i) = At(WordOf(WordOf(i)), BitOf(WordOf(i)))
             /\ WordOf(WordOf(i)) <= sw
             /\ WordOf(WordOf(i)) = sw => BitOf(WordOf(i)) \in ahead
  <2> DEFINE v == WordOf(i)
             p == WordOf(v)
             q == BitOf(v)
  <2>1. v \in Words /\ v \in Int /\ b[v] # {}
    BY <1>8, WordBitFacts DEF Mark
  <2>2. p \in Int /\ q \in Bits /\ v = At(p, q)
    BY <2>1, WordBitFacts
  <2> HIDE DEF v, p, q
  <2>3. ~(sw < p) /\ (p = sw => ~(hi < q))
    <3>1. ~(At(sw, hi) < At(p, q))
      BY <1>4, <1>7, <1>8, <2>1, <2>2 DEF v
    <3>. QED BY <1>7, <2>2, <3>1, WordBitFacts
  <2>4. p = sw => q \in ahead
    BY <1>7, <2>1, <2>2, <2>3 DEF Summarises, Bits
  <2>. QED BY <1>7, <2>1, <2>2, <2>3, <2>4 DEF v, p, q
<1>9. CASE ahead # {}
  <2> DEFINE y == Highest(ahead)
             nw == At(sw, y)
             z == Highest(b[nw])
  <2>1. y \in ahead /\ y \in Bits /\ \A x \in ahead : x <= y
    BY <1>7, <1>9, HighestFacts
  <2>2. nw \in Words /\ nw \in Int /\ b[nw] # {} /\ b[nw] \subseteq Bits
    <3>1. At(sw, y) \in Words /\ b[At(sw, y)] # {}
      BY <1>7, <2>1 DEF Summarises
    <3>. QED BY <1>6, <3>1
  <2>3. z \in b[nw] /\ z \in Bits /\ \A x \in b[nw] : x <= z
    BY <2>2, HighestFacts
  <2>4. r = At(nw, z)
    BY <1>4, <1>9, <1>5 DEF At
  <2> HIDE DEF y, nw, z, r, ahead
  <2>5. r \in Int /\ Mark(b, r) /\ WordOf(r) = nw
    BY <2>2, <2>3, <2>4, WordBitFacts DEF Mark
  <2>6. nw <= k
    <3>1. y <= hi
      BY <2>1 DEF ahead
    <3>2. ~(At(sw, hi) < At(sw, y))
      BY <1>7, <2>1, <3>1, WordBitFacts DEF Bits
    <3>. QED BY <1>4, <1>7, <2>2, <3>2 DEF nw
  <2>7. ASSUME NEW i \in Int, Mark(b, i), WordOf(i) <= k PROVE r # NIL /\ i <= r
    <3> DEFINE v == WordOf(i)
               x == BitOf(i)
    <3>1. i = At(v, x) /\ x \in b[v] /\ x \in Bits /\ v \in Int
      BY <2>7, WordBitFacts DEF Mark
    <3>2. ~(nw < v)
      <4>1. SUFFICES ASSUME nw < v PROVE FALSE
        OBVIOUS
      <4>2. /\ v = At(WordOf(v), BitOf(v)) /\ WordOf(v) \in Int /\ BitOf(v) \in Bits
            /\ WordOf(v) <= sw /\ (WordOf(v) = sw => BitOf(v) \in ahead)
        BY <1>8, <2>7
      <4>3. At(sw, y) < At(WordOf(v), BitOf(v))
        BY <4>1, <4>2 DEF nw
      <4>4. sw < WordOf(v) \/ (WordOf(v) = sw /\ y < BitOf(v))
        BY <1>7, <2>1, <4>2, <4>3, WordBitFacts
      <4>. QED BY <1>7, <2>1, <4>2, <4>4 DEF Bits
    <3>3. v = nw => ~(z < x)
      BY <2>3, <3>1 DEF Bits
    <3>4. ~(r < i)
      BY <2>2, <2>3, <2>4, <3>1, <3>2, <3>3, WordBitFacts
    <3>5. r # NIL
      <4>1. SUFFICES ASSUME r = NIL PROVE FALSE
        OBVIOUS
      <4>2. nw >= 0
        BY <2>2, WordRange
      <4>3. ~(At(nw, z) < At(0, 0))
        BY <2>2, <2>3, <4>2, WordBitFacts, WordBitsAssumption DEF Bits
      <4>. QED BY <2>4, <4>1, <4>3, WordBitsAssumption DEF At, NIL
    <3>. QED BY <2>5, <3>4, <3>5
  <2>8. LastUpto(b, k, r)
    BY <2>5, <2>6, <2>7 DEF LastUpto
  <2>. QED BY <1>4, <2>8 DEF r
<1>10. CASE ahead = {}
  <2> DEFINE m == sw * WordBits - 1
  <2>1. r = SeekDown(b, s)[m]
    BY <1>4, <1>10, <1>5
  <2>2. m = At(sw - 1, WordBits - 1) /\ WordBits - 1 \in Bits
    BY <1>7, WordBitsAssumption DEF At, Bits
  <2>3. m \in Int /\ m < k
    <3>1. sw - 1 \in Int /\ sw - 1 < sw
      BY <1>7
    <3> DEFINE before == sw - 1
               top == WordBits - 1
    <3>2. before \in Int /\ before < sw /\ top \in Bits /\ m = At(before, top)
      BY <2>2, <3>1
    <3> HIDE DEF before, top, m
    <3>3. At(before, top) < At(sw, hi) /\ At(before, top) \in Int
      <4> HIDE DEF sw, hi
      <4>. QED BY <1>7, <3>2, WordBitFacts
    <3>. QED BY <1>7, <3>2, <3>3
  <2>4. P(m)
    <3>1. m \in Int /\ m < NumWords /\ ~(k <= m)
      <4> HIDE DEF m
      <4>. QED BY <1>4, <2>3, WordRange
    <3>2. m \notin Bad
      <4> HIDE DEF Bad, m
      <4>. QED BY <1>3, <3>1
    <3>. QED BY <3>1, <3>2
  <2> HIDE DEF r, m, ahead
  <2>5. ASSUME NEW i \in Int, Mark(b, i), WordOf(i) <= k PROVE WordOf(i) <= m
    <3> DEFINE v == WordOf(i)
    <3>1. /\ v = At(WordOf(v), BitOf(v)) /\ WordOf(v) \in Int /\ BitOf(v) \in Bits /\ v \in Int
          /\ WordOf(v) <= sw /\ WordOf(v) # sw
      BY <1>8, <1>10, <2>5
    <3>2. ~(At(sw - 1, WordBits - 1) < At(WordOf(v), BitOf(v)))
      <4>1. ~(sw - 1 < WordOf(v)) /\ ~(WordBits - 1 < BitOf(v))
        BY <1>7, <3>1, WordBitsAssumption DEF Bits
      <4>2. sw - 1 \in Int
        BY <1>7
      <4>. QED BY <2>2, <3>1, <4>1, <4>2, WordBitFacts
    <3>. QED BY <2>2, <2>3, <3>1, <3>2
  <2>6. LastUpto(b, k, r)
    <3>1. LastUpto(b, m, r)
      BY <2>1, <2>4
    <3>2. r = NIL \/ (r \in Int /\ Mark(b, r) /\ WordOf(r) <= k)
      <4>1. r \in Int => WordOf(r) \in Int
        BY WordBitFacts
      <4>. QED BY <1>4, <2>3, <3>1, <4>1 DEF LastUpto
    <3>. QED BY <2>5, <3>1, <3>2 DEF LastUpto
  <2>. QED BY <1>4, <2>6 DEF r
<1>. QED BY <1>9, <1>10

\* rescan upward finds the lowest mark from its start on, if there is one.
LEMMA RescanUpFinds ==
    ASSUME NEW b \in Bitmaps, NEW s \in Summaries, Summarises(s, b), NEW from \in Indexes
    PROVE  LET r == RescanUp(b, s, from)
           IN  /\ r = NIL \/ (r \in Int /\ Mark(b, r) /\ from <= r)
               /\ \A i \in Int : Mark(b, i) /\ from <= i => r # NIL /\ r <= i
<1> DEFINE w == WordOf(from)
           y == BitOf(from)
           here == {x \in b[w] : x >= y}
           r == RescanUp(b, s, from)
<1>1. /\ from \in Nat /\ w \in Words /\ w \in Nat /\ y \in Bits /\ from = At(w, y)
      /\ b[w] \subseteq Bits
  <2>1. from \in Nat /\ w \in Words /\ w \in Nat
    BY WordRange
  <2>. QED BY <2>1, WordBitFacts DEF Bitmaps
<1>2. \A i \in Int : Mark(b, i) => /\ WordOf(i) \in Int /\ BitOf(i) \in Bits
                                   /\ BitOf(i) \in b[WordOf(i)] /\ i = At(WordOf(i), BitOf(i))
  BY WordBitFacts DEF Mark
<1>3. \A i \in Int : Mark(b, i) /\ from <= i => WordOf(i) > w \/ (WordOf(i) = w /\ BitOf(i) >= y)
  <2> TAKE i \in Int
  <2> HAVE Mark(b, i) /\ from <= i
  <2>1. At(w, y) <= At(WordOf(i), BitOf(i))
    BY <1>1, <1>2
  <2>. QED BY <1>1, <1>2, <2>1, WordOrder
<1>4. r = IF here # {} THEN At(w, Lowest(here)) ELSE SeekUp(b, s)[w + 1]
  BY DEF RescanUp, At
<1>5. CASE here # {}
  <2> DEFINE z == Lowest(here)
  <2>1. z \in here /\ \A x \in here : z <= x
    BY <1>1, <1>5, LowestFacts
  <2>2. r = At(w, z) /\ z \in Bits /\ z \in b[w] /\ z >= y
    BY <1>1, <1>4, <1>5, <2>1
  <2> HIDE DEF z, r
  <2>3. r \in Int /\ Mark(b, r) /\ from <= r
    <3>1. At(w, y) <= At(w, z)
      BY <1>1, <2>2, WordOrder
    <3>2. w \in Int /\ At(w, z) \in Int /\ WordOf(At(w, z)) = w /\ BitOf(At(w, z)) = z
      BY <1>1, <2>2, WordBitFacts
    <3>3. Mark(b, r)
      BY <1>1, <2>2, <3>2 DEF Mark
    <3>. QED BY <1>1, <2>2, <3>1, <3>2, <3>3
  <2>4. ASSUME NEW i \in Int, Mark(b, i), from <= i PROVE r <= i
    <3>1. WordOf(i) > w \/ (WordOf(i) = w /\ z <= BitOf(i))
      BY <1>2, <1>3, <2>1, <2>4
    <3>2. At(w, z) <= At(WordOf(i), BitOf(i))
      BY <1>1, <1>2, <2>2, <2>4, <3>1, WordOrder
    <3>. QED BY <1>2, <2>2, <2>3, <2>4, <3>2
  <2>. QED BY <1>1, <2>3, <2>4 DEF NIL, r
<1>6. CASE here = {}
  <2>1. FirstFrom(b, w + 1, r)
    BY <1>1, <1>4, <1>6, SeekUpFinds
  <2> HIDE DEF r
  <2>2. ASSUME NEW i \in Int, Mark(b, i), from <= i PROVE WordOf(i) >= w + 1
    BY <1>1, <1>2, <1>3, <1>6, <2>2
  <2>3. ASSUME r \in Int, Mark(b, r), WordOf(r) >= w + 1 PROVE from <= r
    <3>1. At(w, y) <= At(WordOf(r), BitOf(r))
      BY <1>1, <1>2, <2>3, WordOrder
    <3>. QED BY <1>1, <1>2, <2>3, <3>1
  <2>. QED BY <2>1, <2>2, <2>3 DEF FirstFrom, r
<1>. QED BY <1>5, <1>6

\* rescan downward finds the highest mark up to its start.
LEMMA RescanDownFinds ==
    ASSUME NEW b \in Bitmaps, NEW s \in Summaries, Summarises(s, b), NEW from \in Indexes
    PROVE  LET r == RescanDown(b, s, from)
           IN  /\ r = NIL \/ (r \in Int /\ Mark(b, r) /\ r <= from)
               /\ \A i \in Int : Mark(b, i) /\ i <= from => r # NIL /\ i <= r
<1> DEFINE w == WordOf(from)
           y == BitOf(from)
           here == {x \in b[w] : x <= y}
           r == RescanDown(b, s, from)
<1>1. /\ from \in Nat /\ w \in Words /\ w \in Nat /\ w < NumWords /\ y \in Bits
      /\ from = At(w, y) /\ b[w] \subseteq Bits
  <2>1. from \in Nat /\ w \in Words /\ w \in Nat /\ w < NumWords
    BY WordRange
  <2>. QED BY <2>1, WordBitFacts DEF Bitmaps
<1>2. \A i \in Int : Mark(b, i) => /\ WordOf(i) \in Int /\ WordOf(i) \in Nat /\ BitOf(i) \in Bits
                                   /\ BitOf(i) \in b[WordOf(i)] /\ i = At(WordOf(i), BitOf(i))
  BY WordBitFacts, WordRange DEF Mark
<1>3. \A i \in Int : Mark(b, i) /\ i <= from => WordOf(i) < w \/ (WordOf(i) = w /\ BitOf(i) <= y)
  <2> TAKE i \in Int
  <2> HAVE Mark(b, i) /\ i <= from
  <2>1. At(WordOf(i), BitOf(i)) <= At(w, y)
    BY <1>1, <1>2
  <2>. QED BY <1>1, <1>2, <2>1, WordOrder
<1>4. r = IF here # {} THEN At(w, Highest(here)) ELSE SeekDown(b, s)[w - 1]
  BY DEF RescanDown, At
<1>5. CASE here # {}
  <2> DEFINE z == Highest(here)
  <2>1. z \in here /\ \A x \in here : x <= z
    BY <1>1, <1>5, HighestFacts
  <2>2. r = At(w, z) /\ z \in Bits /\ z \in b[w] /\ z <= y
    BY <1>1, <1>4, <1>5, <2>1
  <2> HIDE DEF z, r
  <2>3. r \in Int /\ Mark(b, r) /\ r <= from
    <3>1. At(w, z) <= At(w, y)
      BY <1>1, <2>2, WordOrder
    <3>2. w \in Int /\ At(w, z) \in Int /\ WordOf(At(w, z)) = w /\ BitOf(At(w, z)) = z
      BY <1>1, <2>2, WordBitFacts
    <3>3. Mark(b, r)
      BY <1>1, <2>2, <3>2 DEF Mark
    <3>. QED BY <1>1, <2>2, <3>1, <3>2, <3>3
  <2>4. ASSUME NEW i \in Int, Mark(b, i), i <= from PROVE i <= r /\ i # NIL /\ i >= 0
    <3>1. WordOf(i) < w \/ (WordOf(i) = w /\ BitOf(i) <= z)
      BY <1>2, <1>3, <2>1, <2>4
    <3>2. At(WordOf(i), BitOf(i)) <= At(w, z)
      BY <1>1, <1>2, <2>2, <2>4, <3>1, WordOrder
    <3>3. At(0, 0) <= At(WordOf(i), BitOf(i)) /\ At(0, 0) = 0
      BY <1>2, <2>4, WordOrder
    <3>. QED BY <1>2, <2>2, <2>3, <2>4, <3>2, <3>3 DEF NIL
  <2>. QED BY <2>3, <2>4 DEF NIL, r
<1>6. CASE here = {}
  <2>1. LastUpto(b, w - 1, r)
    <3>1. w - 1 \in Int /\ w - 1 < NumWords
      BY <1>1, WordRange
    <3>. QED BY <1>4, <1>6, <3>1, SeekDownFinds
  <2> HIDE DEF r
  <2>2. ASSUME NEW i \in Int, Mark(b, i), i <= from PROVE WordOf(i) <= w - 1
    BY <1>1, <1>2, <1>3, <1>6, <2>2
  <2>3. ASSUME r \in Int, Mark(b, r), WordOf(r) <= w - 1 PROVE r <= from
    <3>1. At(WordOf(r), BitOf(r)) <= At(w, y)
      BY <1>1, <1>2, <2>3, WordOrder
    <3>. QED BY <1>1, <1>2, <2>3, <3>1
  <2>. QED BY <2>1, <2>2, <2>3 DEF LastUpto, r
<1>. QED BY <1>5, <1>6

-----------------------------------------------------------------------------
(* The inductive invariant *)

\* The marked indexes are the levels that have orders.
BitsMatch == \A i \in Int : Mark(bits, i) <=> i \in filled

IInv ==
    /\ TypeOK
    /\ BitsMatch
    /\ Summarises(summary, bits)
    /\ count = Cardinality(filled)
    /\ BestIsBest

LEMMA FilledFinite ==
    ASSUME NEW T, T \subseteq Indexes
    PROVE  IsFiniteSet(T) /\ Cardinality(T) \in 0 .. Span
<1>1. IsFiniteSet(Indexes) /\ Cardinality(Indexes) = Span
  BY SpanAssumption, FS_Interval DEF Indexes
<1>2. IsFiniteSet(T) /\ Cardinality(T) <= Span
  BY <1>1, FS_Subset
<1>. QED BY <1>2, FS_CardinalityType, SpanAssumption

LEMMA InitInv == Init => IInv
<1> SUFFICES ASSUME Init PROVE IInv
  OBVIOUS
<1>1. TypeOK
  BY SpanAssumption DEF Init, TypeOK
<1>2. BitsMatch
  BY DEF Init, BitsMatch, Mark
<1>3. Summarises(summary, bits)
  BY DEF Init, Summarises
<1>4. count = Cardinality(filled) /\ BestIsBest
  BY FS_EmptySet DEF Init, BestIsBest
<1>. QED BY <1>1, <1>2, <1>3, <1>4 DEF IInv

\* Setting an index's bit, and its word's in the summary.
LEMMA BitSet ==
    ASSUME TypeOK, Summarises(summary, bits), NEW i \in Indexes,
           bits' = [bits EXCEPT ![WordOf(i)] = @ \cup {BitOf(i)}],
           summary' = [summary EXCEPT ![WordOf(WordOf(i))] = @ \cup {BitOf(WordOf(i))}]
    PROVE  /\ bits' \in Bitmaps /\ summary' \in Summaries
           /\ Summarises(summary', bits')
           /\ \A j \in Int : Mark(bits', j) <=> Mark(bits, j) \/ j = i
<1> DEFINE w == WordOf(i)
           x == BitOf(i)
<1>1. /\ w \in Words /\ w \in Int /\ x \in Bits /\ i \in Int /\ At(w, x) = i
      /\ WordOf(w) \in SummaryWords /\ BitOf(w) \in Bits /\ At(WordOf(w), BitOf(w)) = w
      /\ bits \in Bitmaps /\ summary \in Summaries
  <2>1. i \in Int /\ w \in Words /\ w \in Int /\ WordOf(w) \in SummaryWords
    BY WordRange
  <2>2. bits \in Bitmaps /\ summary \in Summaries
    BY DEF TypeOK, Bitmaps, Summaries, Bits
  <2>. QED BY <2>1, <2>2, WordBitFacts
<1>2. bits' \in Bitmaps /\ summary' \in Summaries
  BY <1>1 DEF Bitmaps, Summaries
<1>3. /\ bits'[w] = bits[w] \cup {x} /\ \A v \in Words : v # w => bits'[v] = bits[v]
      /\ summary'[WordOf(w)] = summary[WordOf(w)] \cup {BitOf(w)}
      /\ \A v \in SummaryWords : v # WordOf(w) => summary'[v] = summary[v]
  BY <1>1 DEF Bitmaps, Summaries
<1> HIDE DEF w, x
<1>4. \A j \in Int : Mark(bits', j) <=> Mark(bits, j) \/ j = i
  <2> TAKE j \in Int
  <2>1. j = i <=> WordOf(j) = w /\ BitOf(j) = x
    BY <1>1, WordBitFacts DEF w, x
  <2>. QED BY <1>1, <1>3, <2>1 DEF Mark
<1>5. ASSUME NEW v \in SummaryWords, NEW y \in Bits
      PROVE  y \in summary'[v] <=> At(v, y) \in Words /\ bits'[At(v, y)] # {}
  <2>1. v \in Int
    BY DEF SummaryWords
  <2>2. At(v, y) = w <=> v = WordOf(w) /\ y = BitOf(w)
    BY <1>1, <2>1, WordBitFacts
  <2>3. y \in summary'[v] <=> (y \in summary[v] \/ At(v, y) = w)
    BY <1>3, <2>2
  <2>4. y \in summary[v] <=> At(v, y) \in Words /\ bits[At(v, y)] # {}
    BY DEF Summarises
  <2>. QED BY <1>1, <1>3, <2>3, <2>4
<1>. QED BY <1>2, <1>4, <1>5 DEF Summarises

\* Clearing it, and the summary's when the word becomes empty.
BitsWithout(i) == [bits EXCEPT ![WordOf(i)] = @ \ {BitOf(i)}]

SummaryWithout(i) ==
    [summary EXCEPT ![WordOf(WordOf(i))] =
        IF BitsWithout(i)[WordOf(i)] = {} THEN @ \ {BitOf(WordOf(i))} ELSE @]

LEMMA BitCleared ==
    ASSUME TypeOK, Summarises(summary, bits), NEW i \in Indexes
    PROVE  /\ BitsWithout(i) \in Bitmaps /\ SummaryWithout(i) \in Summaries
           /\ Summarises(SummaryWithout(i), BitsWithout(i))
           /\ \A j \in Int : Mark(BitsWithout(i), j) <=> Mark(bits, j) /\ j # i
<1> DEFINE b == BitsWithout(i)
           s == SummaryWithout(i)
<1> DEFINE w == WordOf(i)
           x == BitOf(i)
<1>1. /\ w \in Words /\ w \in Int /\ x \in Bits /\ i \in Int /\ At(w, x) = i
      /\ WordOf(w) \in SummaryWords /\ BitOf(w) \in Bits /\ At(WordOf(w), BitOf(w)) = w
      /\ bits \in Bitmaps /\ summary \in Summaries
  <2>1. i \in Int /\ w \in Words /\ w \in Int /\ WordOf(w) \in SummaryWords
    BY WordRange
  <2>2. bits \in Bitmaps /\ summary \in Summaries
    BY DEF TypeOK, Bitmaps, Summaries, Bits
  <2>. QED BY <2>1, <2>2, WordBitFacts
<1>2. b \in Bitmaps
  BY <1>1 DEF Bitmaps, BitsWithout
<1>3. /\ b[w] = bits[w] \ {x} /\ \A v \in Words : v # w => b[v] = bits[v]
  BY <1>1 DEF Bitmaps, BitsWithout
<1>4. /\ summary[WordOf(w)] \subseteq Bits
      /\ s[WordOf(w)] = IF b[w] = {} THEN summary[WordOf(w)] \ {BitOf(w)} ELSE summary[WordOf(w)]
      /\ \A v \in SummaryWords : v # WordOf(w) => s[v] = summary[v]
  BY <1>1 DEF Summaries, SummaryWithout
<1>5. s \in Summaries
  BY <1>1, <1>4 DEF Summaries, SummaryWithout
<1> HIDE DEF w, x, b, s
<1>6. \A j \in Int : Mark(b, j) <=> Mark(bits, j) /\ j # i
  <2> TAKE j \in Int
  <2>1. j = i <=> WordOf(j) = w /\ BitOf(j) = x
    BY <1>1, WordBitFacts DEF w, x
  <2>. QED BY <1>1, <1>3, <2>1 DEF Mark
<1>7. ASSUME NEW v \in SummaryWords, NEW y \in Bits
      PROVE  y \in s[v] <=> At(v, y) \in Words /\ b[At(v, y)] # {}
  <2>1. v \in Int
    BY DEF SummaryWords
  <2>2. At(v, y) = w <=> v = WordOf(w) /\ y = BitOf(w)
    BY <1>1, <2>1, WordBitFacts
  <2>3. y \in s[v] <=> (y \in summary[v] /\ ~(At(v, y) = w /\ b[w] = {}))
    BY <1>4, <2>2
  <2>4. y \in summary[v] <=> At(v, y) \in Words /\ bits[At(v, y)] # {}
    BY DEF Summarises
  <2>. QED BY <1>1, <1>3, <2>3, <2>4
<1>. QED BY <1>2, <1>5, <1>6, <1>7 DEF Summarises, b, s

LEMMA BitmapTypes ==
    Bitmaps = [Words -> SUBSET (0 .. (WordBits - 1))]
    /\ Summaries = [SummaryWords -> SUBSET (0 .. (WordBits - 1))]
  BY DEF Bitmaps, Summaries, Bits

LEMMA RestInv ==
    ASSUME IInv, NEW i \in Indexes, NEW t \in Totals, Rest(i, t)
    PROVE  IInv'
<1>1. /\ TypeOK /\ BitsMatch /\ Summarises(summary, bits) /\ count = Cardinality(filled)
      /\ BestIsBest /\ LevelInsert(i)
      /\ filled' = filled \cup {i} /\ total' = [total EXCEPT ![i] = t] /\ side' = side
  BY DEF IInv, Rest
<1>2. filled' \subseteq Indexes /\ total' \in [Indexes -> Totals \cup {0}] /\ side' \in {"Bid", "Ask"}
  BY <1>1 DEF TypeOK
<1>3. CASE i \in filled
  <2>1. bits' = bits /\ summary' = summary /\ count' = count /\ best' = best /\ filled' = filled
    BY <1>1, <1>3 DEF LevelInsert
  <2>2. TypeOK'
    BY <1>1, <1>2, <2>1 DEF TypeOK
  <2>. QED BY <1>1, <2>1, <2>2 DEF IInv, BitsMatch, BestIsBest, Better
<1>4. CASE i \notin filled
  <2>1. /\ bits' = [bits EXCEPT ![WordOf(i)] = @ \cup {BitOf(i)}]
        /\ summary' = [summary EXCEPT ![WordOf(WordOf(i))] = @ \cup {BitOf(WordOf(i))}]
        /\ count' = count + 1
        /\ best' = IF best = NIL \/ Better(i, best) THEN i ELSE best
    BY <1>1, <1>4 DEF LevelInsert
  <2>2. /\ bits' \in Bitmaps /\ summary' \in Summaries /\ Summarises(summary', bits')
        /\ \A j \in Int : Mark(bits', j) <=> Mark(bits, j) \/ j = i
    BY <1>1, <2>1, BitSet
  <2>3. BitsMatch'
    BY <1>1, <2>2 DEF BitsMatch
  <2>4. count' = Cardinality(filled') /\ count' \in 0 .. Span
    <3>1. Cardinality(filled') = Cardinality(filled) + 1
      BY <1>1, <1>4, FilledFinite, FS_AddElement DEF TypeOK
    <3>. QED BY <1>1, <1>2, <2>1, <3>1, FilledFinite
  <2>5. best' \in Indexes \cup {NIL}
    BY <1>1, <2>1 DEF TypeOK
  <2>6. TypeOK'
    BY <1>2, <2>2, <2>4, <2>5, BitmapTypes DEF TypeOK
  <2>7. BestIsBest'
    <3>1. \A j \in filled' : j \in Int /\ best' \in Int
      BY <1>2, <2>5, WordRange DEF NIL
    <3>2. CASE filled = {}
      BY <1>1, <2>1, <3>1, <3>2 DEF BestIsBest, Better
    <3>3. CASE filled # {}
      <4>1. best \in filled /\ best # NIL /\ \A j \in filled : ~Better(j, best)
        BY <1>1, <3>3, WordRange DEF BestIsBest, TypeOK, NIL
      <4>2. i \in Int /\ best \in Int /\ \A j \in filled : j \in Int
        BY <1>1, <4>1, WordRange DEF TypeOK
      <4>3. best' \in filled' /\ \A j \in filled' : ~Better(j, best')
        BY <1>1, <2>1, <4>1, <4>2 DEF Better
      <4>. QED BY <1>1, <4>3 DEF BestIsBest, Better
    <3>. QED BY <3>2, <3>3
  <2>. QED BY <2>2, <2>3, <2>4, <2>6, <2>7 DEF IInv
<1>. QED BY <1>3, <1>4

LEMMA ReduceInv ==
    ASSUME IInv, NEW i \in Indexes, NEW t \in Totals, Reduce(i, t)
    PROVE  IInv'
<1>1. total' = [total EXCEPT ![i] = t] /\ UNCHANGED <<side, filled, bits, summary, count, best>>
  BY DEF Reduce
<1>2. TypeOK'
  BY <1>1 DEF IInv, TypeOK
<1>. QED BY <1>1, <1>2 DEF IInv, BitsMatch, BestIsBest, Better

\* The cursor moves only when its own level empties; every level left is behind it
\* then, which is where rescan looks.
LEMMA DrainInv ==
    ASSUME IInv, NEW i \in Indexes, Drain(i)
    PROVE  IInv'
<1> DEFINE b == BitsWithout(i)
           s == SummaryWithout(i)
<1>1. /\ TypeOK /\ BitsMatch /\ Summarises(summary, bits) /\ count = Cardinality(filled)
      /\ BestIsBest /\ i \in filled
      /\ filled' = filled \ {i} /\ total' = [total EXCEPT ![i] = 0] /\ side' = side
      /\ bits' = b /\ summary' = s /\ count' = count - 1
      /\ best' = IF count' = 0 THEN NIL ELSE IF i = best THEN Rescan(b, s, i) ELSE best
  BY DEF IInv, Drain, Clear, BitsWithout, SummaryWithout
<1>2. /\ b \in Bitmaps /\ s \in Summaries /\ Summarises(s, b)
      /\ \A j \in Int : Mark(b, j) <=> Mark(bits, j) /\ j # i
  BY <1>1, BitCleared
<1> HIDE DEF b, s
<1>3. /\ filled' \subseteq Indexes /\ total' \in [Indexes -> Totals \cup {0}]
      /\ side' \in {"Bid", "Ask"} /\ side \in {"Bid", "Ask"}
  BY <1>1 DEF TypeOK
<1>4. BitsMatch'
  BY <1>1, <1>2 DEF BitsMatch
<1>5. count' = Cardinality(filled') /\ count' \in 0 .. Span
  <2>1. Cardinality(filled') = Cardinality(filled) - 1
    BY <1>1, FilledFinite, FS_RemoveElement DEF TypeOK
  <2>. QED BY <1>1, <1>3, <2>1, FilledFinite
<1>6. \A j \in filled : j \in Int /\ j \in Indexes
  BY <1>1, WordRange DEF TypeOK
<1>7. \A j \in Int : Mark(b, j) <=> j \in filled'
  BY <1>1, <1>4 DEF BitsMatch
<1>8. count' = 0 <=> filled' = {}
  BY <1>3, <1>5, FilledFinite, FS_EmptySet
<1>9. ASSUME filled' # {}
      PROVE  best' \in filled' /\ \A j \in filled' : ~Better(j, best')
  <2>1. best \in filled /\ \A j \in filled : ~Better(j, best)
    BY <1>1 DEF BestIsBest
  <2>2. CASE i # best
    BY <1>1, <1>8, <1>9, <2>1, <2>2
  <2>3. CASE i = best
    <3>1. best' = Rescan(b, s, i)
      BY <1>1, <1>8, <1>9, <2>3
    <3>2. CASE side = "Ask"
      <4>1. \A j \in filled' : i <= j
        BY <1>1, <1>6, <2>1, <2>3, <3>2 DEF Better
      <4>2. best' = RescanUp(b, s, i)
        BY <3>1, <3>2 DEF Rescan
      <4>3. /\ best' = NIL \/ (best' \in Int /\ Mark(b, best') /\ i <= best')
            /\ \A j \in Int : Mark(b, j) /\ i <= j => best' # NIL /\ best' <= j
        BY <1>2, <4>2, RescanUpFinds
      <4>4. best' \in filled' /\ \A j \in filled' : best' <= j
        BY <1>1, <1>6, <1>7, <1>9, <4>1, <4>3
      <4>. QED BY <1>1, <1>6, <3>2, <4>4 DEF Better
    <3>3. CASE side = "Bid"
      <4>1. \A j \in filled' : j <= i
        BY <1>1, <1>6, <2>1, <2>3, <3>3 DEF Better
      <4>2. best' = RescanDown(b, s, i)
        BY <3>1, <3>3 DEF Rescan
      <4>3. /\ best' = NIL \/ (best' \in Int /\ Mark(b, best') /\ best' <= i)
            /\ \A j \in Int : Mark(b, j) /\ j <= i => best' # NIL /\ j <= best'
        BY <1>2, <4>2, RescanDownFinds
      <4>4. best' \in filled' /\ \A j \in filled' : j <= best'
        BY <1>1, <1>6, <1>7, <1>9, <4>1, <4>3
      <4>. QED BY <1>1, <1>6, <3>3, <4>4 DEF Better
    <3>. QED BY <1>3, <3>2, <3>3
  <2>. QED BY <2>2, <2>3
<1>10. best' \in Indexes \cup {NIL}
  BY <1>1, <1>3, <1>8, <1>9
<1>11. TypeOK'
  BY <1>1, <1>2, <1>3, <1>5, <1>10, BitmapTypes DEF TypeOK
<1>12. BestIsBest'
  BY <1>1, <1>8, <1>9 DEF BestIsBest, Better
<1>. QED BY <1>1, <1>2, <1>4, <1>5, <1>11, <1>12 DEF IInv

LEMMA NextInv == IInv /\ [Next]_vars => IInv'
<1> SUFFICES ASSUME IInv, [Next]_vars PROVE IInv'
  OBVIOUS
<1>1. ASSUME NEW i \in Indexes, NEW t \in Totals, Rest(i, t) PROVE IInv'
  BY <1>1, RestInv
<1>2. ASSUME NEW i \in Indexes, NEW t \in Totals, Reduce(i, t) PROVE IInv'
  BY <1>2, ReduceInv
<1>3. ASSUME NEW i \in Indexes, Drain(i) PROVE IInv'
  BY <1>3, DrainInv
<1>4. CASE UNCHANGED vars
  BY <1>4 DEF vars, IInv, TypeOK, BitsMatch, BestIsBest, Better
<1>. QED BY <1>1, <1>2, <1>3, <1>4 DEF Next

-----------------------------------------------------------------------------
(* The FOK check's sum *)

\* The levels of word w between two indexes, as the masks leave them.
Masked(first, last, w) ==
    {At(w, x) : x \in {y \in bits[w] :
                         /\ y >= BitOf(Max({first, w * WordBits}))
                         /\ y <= BitOf(Min({last, w * WordBits + WordBits - 1}))}}

\* In the words from first's to last's the masks keep what lies between them.
LEMMA MasksFit ==
  ASSUME IInv, NEW first \in Indexes, NEW last \in Indexes, first <= last,
         NEW w \in WordOf(first) .. WordOf(last)
  PROVE  Masked(first, last, w) = {i \in filled : WordOf(i) = w /\ first <= i /\ i <= last}
<1> DEFINE lo == Max({first, w * WordBits})
           hi == Min({last, w * WordBits + WordBits - 1})
<1>1. /\ first \in Int /\ last \in Int /\ w \in Int /\ w \in Words /\ WordBits \in Nat \ {0}
      /\ WordOf(first) \in Int /\ WordOf(last) \in Int /\ WordOf(first) <= w /\ w <= WordOf(last)
      /\ BitOf(first) \in Bits /\ BitOf(last) \in Bits
      /\ At(WordOf(first), BitOf(first)) = first /\ At(WordOf(last), BitOf(last)) = last
  <2>1. first \in Int /\ last \in Int /\ WordOf(first) \in Words /\ WordOf(last) \in Words
    BY WordRange
  <2>. QED BY <2>1, WordRange, WordBitFacts, WordBitsAssumption DEF Words
<1>2. BitOf(lo) = IF w = WordOf(first) THEN BitOf(first) ELSE 0
  <2>1. 0 \in Bits /\ At(w, 0) = w * WordBits
    BY <1>1, WordOrder DEF At
  <2>2. first <= At(w, 0) \/ At(w, 0) <= first
    BY <1>1, <2>1, WordBitFacts
  <2>3. lo \in {first, At(w, 0)} /\ first <= lo /\ At(w, 0) <= lo
    <3>1. At(w, 0) \in Int
      BY <1>1, <2>1, WordBitFacts
    <3>. QED BY <1>1, <2>1, <3>1, MaxOfTwo
  <2> HIDE DEF lo
  <2>4. CASE w = WordOf(first)
    <3>1. At(w, 0) <= first
      BY <1>1, <2>1, <2>4, WordOrder
    <3>2. lo = first
      BY <1>1, <2>1, <2>3, <3>1, WordBitFacts
    <3>. QED BY <2>4, <3>2
  <2>5. CASE w # WordOf(first)
    <3>1. ~(At(w, 0) <= first)
      BY <1>1, <2>1, <2>5, WordOrder
    <3>2. lo = At(w, 0)
      BY <2>3, <3>1
    <3>. QED BY <1>1, <2>1, <2>5, <3>2, WordBitFacts
  <2>. QED BY <2>4, <2>5
<1>3. BitOf(hi) = IF w = WordOf(last) THEN BitOf(last) ELSE WordBits - 1
  <2>1. WordBits - 1 \in Bits /\ At(w, WordBits - 1) = w * WordBits + WordBits - 1
    BY <1>1 DEF At, Bits
  <2>3. hi \in {last, At(w, WordBits - 1)} /\ hi <= last /\ hi <= At(w, WordBits - 1)
    <3>1. At(w, WordBits - 1) \in Int
      BY <1>1, <2>1, WordBitFacts
    <3>. QED BY <1>1, <2>1, <3>1, MinOfTwo
  <2>6. \A x \in Bits : x <= WordBits - 1
    BY <1>1 DEF Bits
  <2> HIDE DEF hi
  <2>4. CASE w = WordOf(last)
    <3>1. last <= At(w, WordBits - 1)
      BY <1>1, <2>1, <2>4, <2>6, WordOrder
    <3>2. hi = last
      BY <1>1, <2>1, <2>3, <3>1, WordBitFacts
    <3>. QED BY <2>4, <3>2
  <2>5. CASE w # WordOf(last)
    <3>1. ~(last <= At(w, WordBits - 1))
      BY <1>1, <2>1, <2>5, WordOrder
    <3>2. hi = At(w, WordBits - 1)
      BY <2>3, <3>1
    <3>. QED BY <1>1, <2>1, <2>5, <3>2, WordBitFacts
  <2>. QED BY <2>4, <2>5
<1>4. Masked(first, last, w) = {At(w, x) : x \in {y \in bits[w] : y >= BitOf(lo) /\ y <= BitOf(hi)}}
  BY DEF Masked
<1> HIDE DEF lo, hi
<1>5. TypeOK /\ BitsMatch /\ bits[w] \subseteq Bits /\ filled \subseteq Indexes
  BY <1>1, BitmapTypes DEF IInv, Bitmaps, TypeOK
<1>6. ASSUME NEW x \in Bits
      PROVE  (x >= BitOf(lo) <=> first <= At(w, x)) /\ (x <= BitOf(hi) <=> At(w, x) <= last)
  <2>1. x \in Int /\ 0 <= x /\ x <= WordBits - 1
    BY <1>1 DEF Bits
  <2>2. first <= At(w, x) <=> (WordOf(first) < w \/ (WordOf(first) = w /\ BitOf(first) <= x))
    BY <1>1, WordOrder
  <2>3. At(w, x) <= last <=> (w < WordOf(last) \/ (w = WordOf(last) /\ x <= BitOf(last)))
    BY <1>1, WordOrder
  <2>4. BitOf(first) \in Int /\ BitOf(last) \in Int
    BY <1>1, WordOrder
  <2> HIDE DEF At
  <2>. QED BY <1>1, <1>2, <1>3, <2>1, <2>2, <2>3, <2>4
<1>7. ASSUME NEW x \in Bits PROVE WordOf(At(w, x)) = w /\ (x \in bits[w] <=> At(w, x) \in filled)
  <2>1. At(w, x) \in Int /\ WordOf(At(w, x)) = w /\ BitOf(At(w, x)) = x
    BY <1>1, WordBitFacts
  <2>. QED BY <1>1, <1>5, <2>1 DEF BitsMatch, Mark
<1>8. ASSUME NEW i \in filled, WordOf(i) = w PROVE BitOf(i) \in Bits /\ At(w, BitOf(i)) = i
  BY <1>5, <1>8, WordRange, WordBitFacts
<1> HIDE DEF At
<1>. QED BY <1>4, <1>5, <1>6, <1>7, <1>8

\* Words and masks leave out nothing and take nothing twice.
LEMMA SumsExact ==
  ASSUME IInv, NEW lo \in Int, NEW hi \in Int
  PROVE  SumRange(lo, hi) = SumFunctionOnSet(total, {i \in filled : lo <= i /\ i <= hi})
<1> DEFINE first == Max({lo, 0})
           last == Min({hi, Span - 1})
           range == {i \in filled : lo <= i /\ i <= hi}
           part == [w \in Words |-> Masked(first, last, w)]
           sum == [w \in Words |-> SumFunctionOnSet(total, Masked(first, last, w))]
           R == WordOf(first) .. WordOf(last)
<1>1. /\ TypeOK /\ filled \subseteq Indexes /\ Span \in Nat \ {0}
      /\ \A i \in Indexes : total[i] \in Int
      /\ \A i \in filled : i \in Int /\ 0 <= i /\ i <= Span - 1
  <2>1. TypeOK /\ filled \subseteq Indexes /\ Span \in Nat \ {0}
    BY SpanAssumption DEF IInv, TypeOK
  <2>2. total \in [Indexes -> Totals \cup {0}] /\ \A t \in Totals \cup {0} : t \in Int
    BY <2>1, TotalsAssumption DEF TypeOK
  <2>3. \A i \in Indexes : i \in Int /\ 0 <= i /\ i <= Span - 1
    BY <2>1 DEF Indexes
  <2>. QED BY <2>1, <2>2, <2>3
<1>2. /\ first \in Nat /\ lo <= first /\ (first = lo \/ first = 0)
      /\ last \in Int /\ last <= Span - 1 /\ last <= hi /\ (last = hi \/ last = Span - 1)
  <2>3. Span - 1 \in Int
    BY <1>1
  <2>4. (first = lo \/ first = 0) /\ lo <= first /\ 0 <= first
    BY MaxOfTwo
  <2>5. (last = hi \/ last = Span - 1) /\ last <= hi /\ last <= Span - 1
    BY <2>3, MinOfTwo
  <2> HIDE DEF first, last
  <2>. QED BY <1>1, <2>3, <2>4, <2>5
<1>3. SumRange(lo, hi) = IF first > last THEN 0 ELSE SumFunctionOnSet(sum, R)
  BY DEF SumRange, Masked, At
<1> HIDE DEF first, last, sum
<1>4. range = {i \in filled : first <= i /\ i <= last}
  <2>1. \A i \in filled : (lo <= i /\ i <= hi) <=> (first <= i /\ i <= last)
    BY <1>1, <1>2
  <2>. QED BY <2>1
<1>5. CASE first > last
  <2>1. \A i \in filled : ~(first <= i /\ i <= last)
    BY <1>1, <1>2, <1>5
  <2>2. range = {}
    BY <1>4, <2>1
  <2>3. SumRange(lo, hi) = 0
    BY <1>3, <1>5
  <2>4. SumFunctionOnSet(total, range) = 0
    BY <2>2, SumOfNone
  <2>. QED BY <2>3, <2>4
<1>6. CASE first <= last
  <2>1. first \in Indexes /\ last \in Indexes
    BY <1>1, <1>2, <1>6 DEF Indexes
  <2>2. /\ WordOf(first) \in Nat /\ WordOf(last) \in Nat /\ R \subseteq Words /\ IsFiniteSet(R)
        /\ IsFiniteSet(filled)
    <3>1. WordOf(first) \in Words /\ WordOf(last) \in Words
      BY <2>1, WordRange
    <3>2. R \subseteq Words /\ WordOf(first) \in Int /\ WordOf(last) \in Int
      BY <3>1, WordRange DEF Words
    <3>3. IsFiniteSet(R)
      BY <3>2, FS_Interval
    <3>. QED BY <1>1, <3>1, <3>2, <3>3, WordRange, FilledFinite
  <2>3. \A w \in R : part[w] = {i \in filled : WordOf(i) = w /\ first <= i /\ i <= last}
    BY <1>6, <2>1, <2>2, MasksFit
  <2>4. \A w \in R : sum[w] = SumFunctionOnSet(total, part[w])
    BY <2>2 DEF sum
  <2>5. PartSums(total, sum, filled, R, part)
    <3> HIDE DEF part, R
    <3>1. \A x \in filled : total[x] \in Int
      BY <1>1
    <3>2. \A w \in R : part[w] \subseteq filled /\ sum[w] = SumFunctionOnSet(total, part[w])
      BY <2>3, <2>4
    <3>3. \A v, w \in R : v # w => part[v] \cap part[w] = {}
      BY <2>3
    <3>. QED BY <2>2, <3>1, <3>2, <3>3 DEF PartSums
  <2>6. AllParts(R, part) = range
    <3>1. ASSUME NEW i \in range PROVE WordOf(i) \in R
      <4>1. /\ i \in Int /\ first <= i /\ i <= last /\ i \in Indexes
            /\ first \in Int /\ last \in Int
        BY <1>1, <1>2, <1>4, WordRange
      <4>2. WordOf(first) <= WordOf(i) /\ WordOf(i) <= WordOf(last)
        <5>1. \A a, b \in Int : a <= b => WordOf(a) <= WordOf(b)
          <6> TAKE a, b \in Int
          <6>1. /\ WordOf(a) \in Int /\ WordOf(b) \in Int /\ BitOf(a) \in Bits /\ BitOf(b) \in Bits
                /\ At(WordOf(a), BitOf(a)) = a /\ At(WordOf(b), BitOf(b)) = b
            BY WordBitFacts
          <6>2. a <= b <=> (WordOf(a) < WordOf(b) \/ (WordOf(a) = WordOf(b) /\ BitOf(a) <= BitOf(b)))
            BY <6>1, WordOrder
          <6>. QED BY <6>1, <6>2
        <5>. QED BY <4>1, <5>1
      <4>. QED BY <2>2, <4>1, <4>2, WordBitFacts
    <3>2. \A w \in R : part[w] \subseteq range
      BY <1>4, <2>3
    <3>3. \A i \in range : i \in part[WordOf(i)]
      BY <1>4, <2>3, <3>1
    <3> HIDE DEF range, part, R
    <3>. QED BY <3>1, <3>2, <3>3 DEF AllParts
  <2>7. SumFunctionOnSet(sum, R) = SumFunctionOnSet(total, AllParts(R, part))
    <3> HIDE DEF part, R
    <3>. QED BY <2>5, SumOfParts
  <2>8. SumRange(lo, hi) = SumFunctionOnSet(sum, R)
    BY <1>2, <1>3, <1>6
  <2>9. SumRange(lo, hi) = SumFunctionOnSet(total, range)
    <3> HIDE DEF range, part, R
    <3>. QED BY <2>6, <2>7, <2>8
  <2>. QED BY <2>9
<1>. QED BY <1>1, <1>2, <1>5, <1>6

-----------------------------------------------------------------------------
(* depth *)

\* The sequence q has the indexes of S, best first.
Lists(q, S) ==
    /\ q \in Seq(Int) /\ Len(q) \in Nat
    /\ \A k \in 1 .. Len(q) : q[k] \in S
    /\ \A x \in S : \E k \in 1 .. Len(q) : q[k] = x
    /\ \A i, j \in 1 .. Len(q) : i < j => Better(q[i], q[j])

\* Two lists in a row are one when all of the first is better than all of the second.
LEMMA ListsInRow ==
    ASSUME NEW p, NEW A, Lists(p, A), NEW q, NEW B, Lists(q, B),
           \A x \in A, y \in B : Better(x, y)
    PROVE  Lists(p \o q, A \cup B)
<1> DEFINE r == p \o q
           m == Len(p)
           n == Len(q)
<1>1. p \in Seq(Int) /\ q \in Seq(Int) /\ m \in Nat /\ n \in Nat
  BY DEF Lists
<1>2. r \in Seq(Int) /\ Len(r) = m + n
  BY <1>1
<1>3. \A k \in 1 .. m : r[k] = p[k] /\ p[k] \in A
  BY <1>1 DEF Lists
<1>4. \A k \in 1 .. n : r[m + k] = q[k] /\ q[k] \in B
  <2> TAKE k \in 1 .. n
  <2>1. q[k] \in B
    BY DEF Lists
  <2>2. r[m + k] = q[k]
    BY <1>1
  <2>. QED BY <2>1, <2>2
<1>5. \A i, j \in 1 .. m : i < j => Better(p[i], p[j])
  BY DEF Lists
<1>6. \A i, j \in 1 .. n : i < j => Better(q[i], q[j])
  BY DEF Lists
<1>7. \A x \in A : \E k \in 1 .. m : p[k] = x
  BY DEF Lists
<1>8. \A x \in B : \E k \in 1 .. n : q[k] = x
  BY DEF Lists
<1> HIDE DEF r, m, n
<1>9. \A k \in 1 .. (m + n) : k \in 1 .. m \/ (k - m \in 1 .. n /\ k = m + (k - m))
  BY <1>1
<1>10. \A k \in 1 .. (m + n) : r[k] \in A \cup B
  BY <1>3, <1>4, <1>9
<1>11. \A x \in A \cup B : \E k \in 1 .. (m + n) : r[k] = x
  <2>1. \A k \in 1 .. m : k \in 1 .. (m + n)
    BY <1>1
  <2>2. \A k \in 1 .. n : m + k \in 1 .. (m + n)
    BY <1>1
  <2>. QED BY <1>3, <1>4, <1>7, <1>8, <2>1, <2>2
<1>12. ASSUME NEW i \in 1 .. (m + n), NEW j \in 1 .. (m + n), i < j
       PROVE  Better(r[i], r[j])
  <2>1. CASE j \in 1 .. m
    <3>1. i \in 1 .. m
      BY <1>1, <1>12, <2>1
    <3>. QED BY <1>3, <1>5, <1>12, <2>1, <3>1
  <2>2. CASE i \in 1 .. m /\ j \notin 1 .. m
    BY <1>3, <1>4, <1>9, <2>2
  <2>3. CASE i \notin 1 .. m /\ j \notin 1 .. m
    <3> DEFINE a == i - m
               b == j - m
    <3>1. a \in 1 .. n /\ b \in 1 .. n /\ i = m + a /\ j = m + b
      BY <1>9, <2>3
    <3>2. a < b
      BY <1>1, <1>12
    <3> HIDE DEF a, b
    <3>3. r[i] = q[a] /\ r[j] = q[b]
      BY <1>4, <3>1
    <3>. QED BY <1>6, <3>1, <3>2, <3>3
  <2>4. i \in 1 .. m \/ j \notin 1 .. m
    BY <1>1, <1>12
  <2>. QED BY <2>1, <2>2, <2>3, <2>4
<1>13. Len(r) \in Nat
  BY <1>1, <1>2
<1>14. Lists(r, A \cup B)
  BY <1>2, <1>10, <1>11, <1>12, <1>13 DEF Lists
<1>. QED BY <1>14 DEF r

\* The empty list, and a list of one.
LEMMA ShortLists ==
    /\ Lists(<<>>, {})
    /\ \A x \in Int : Lists(<<x>>, {x})
<1>1. Lists(<<>>, {})
  BY DEF Lists
<1>2. ASSUME NEW x \in Int PROVE Lists(<<x>>, {x})
  <2>1. <<x>> \in Seq(Int) /\ Len(<<x>>) = 1 /\ <<x>>[1] = x
    OBVIOUS
  <2>2. \A k \in 1 .. 1 : k = 1
    OBVIOUS
  <2> DEFINE q == <<x>>
  <2> HIDE DEF q
  <2>3. q \in Seq(Int) /\ Len(q) = 1 /\ q[1] = x
    BY <2>1 DEF q
  <2>4. Lists(q, {x})
    BY <2>2, <2>3 DEF Lists
  <2>. QED BY <2>4 DEF q
<1>. QED BY <1>1, <1>2

\* The list of a word's bits, as WordDepth reads them from bits of word w.
BitLists(f, w) ==
    f = [word \in SUBSET Bits |->
            IF word = {} THEN <<>>
            ELSE <<w * WordBits + FirstBit(word)>> \o f[word \ {FirstBit(word)}]]

\* The first bit is one of the word's, and its index better than those of the others.
LEMMA FirstBitFacts ==
    ASSUME side \in {"Bid", "Ask"}, NEW T, T \subseteq Bits, T # {}, NEW w \in Int
    PROVE  /\ FirstBit(T) \in T
           /\ \A x \in T \ {FirstBit(T)} : Better(At(w, FirstBit(T)), At(w, x))
<1> DEFINE f == FirstBit(T)
<1>1. f \in T /\ \A x \in T \ {f} : IF side = "Ask" THEN f < x ELSE x < f
  <2>1. \A x \in T : x \in Int
    BY DEF Bits
  <2>2. CASE side = "Ask"
    <3>1. f = Lowest(T)
      BY <2>2 DEF FirstBit
    <3> HIDE DEF f
    <3>2. f \in T /\ \A x \in T : f <= x
      BY <3>1, LowestFacts
    <3>. QED BY <2>1, <2>2, <3>2
  <2>3. CASE side = "Bid"
    <3>1. f = Highest(T)
      BY <2>3 DEF FirstBit
    <3> HIDE DEF f
    <3>2. f \in T /\ \A x \in T : x <= f
      BY <3>1, HighestFacts
    <3>. QED BY <2>1, <2>3, <3>2
  <2>. QED BY <2>2, <2>3
<1> HIDE DEF f
<1>2. ASSUME NEW x \in T \ {f} PROVE Better(At(w, f), At(w, x))
  <2>1. f \in Bits /\ x \in Bits
    BY <1>1
  <2>2. (At(w, f) < At(w, x) <=> f < x) /\ (At(w, x) < At(w, f) <=> x < f)
    BY <2>1, WordBitFacts
  <2>3. At(w, f) \in Int /\ At(w, x) \in Int
    BY <2>1, WordBitFacts
  <2>4. side # "Ask" => side = "Bid"
    OBVIOUS
  <2>. QED BY <1>1, <2>2, <2>3, <2>4 DEF Better
<1>3. f \in T /\ \A x \in T \ {f} : Better(At(w, f), At(w, x))
  BY <1>1, <1>2
<1>. QED BY <1>3 DEF f

\* WordDepth is such a list.
LEMMA WordDepthIsRecursive ==
    ASSUME side \in {"Bid", "Ask"}, NEW w \in Int
    PROVE  \E f : BitLists(f, w) /\ WordDepth(w) = f[bits[w]]
<1> DEFINE D == SUBSET Bits
           stop == {{}}
           base == [R \in D |-> <<>>]
           next == [R \in D |-> R \ {FirstBit(R)}]
           step == [p \in D \X Seq(Int) |-> IF p[1] = {} THEN <<>> ELSE <<At(w, FirstBit(p[1]))>> \o p[2]]
           measure == [R \in D |-> Cardinality(R)]
<1>1. \A R \in D : R # {} => FirstBit(R) \in R /\ At(w, FirstBit(R)) \in Int
  <2> TAKE R \in D
  <2> HAVE R # {}
  <2>1. FirstBit(R) \in R
    BY FirstBitFacts
  <2>. QED BY <2>1, WordBitFacts
<1>2. base \in [D -> Seq(Int)]
  OBVIOUS
<1>3. step \in [D \X Seq(Int) -> Seq(Int)]
  <2>1. ASSUME NEW p \in D \X Seq(Int)
        PROVE  (IF p[1] = {} THEN <<>> ELSE <<At(w, FirstBit(p[1]))>> \o p[2]) \in Seq(Int)
    <3>1. p[1] \in D /\ p[2] \in Seq(Int)
      OBVIOUS
    <3>2. CASE p[1] # {}
      <4> DEFINE v == At(w, FirstBit(p[1]))
      <4>1. v \in Int
        BY <1>1, <3>1, <3>2
      <4> HIDE DEF v
      <4>2. <<v>> \o p[2] \in Seq(Int)
        BY <3>1, <4>1
      <4>. QED BY <3>2, <4>2 DEF v
    <3>. QED BY <3>2
  <2>. QED BY <2>1
<1>4. GoesDown(D, stop, next, measure)
  <2>1. \A R \in D : IsFiniteSet(R)
    <3>1. IsFiniteSet(Bits)
      BY WordBitsAssumption, FS_Interval DEF Bits
    <3>. QED BY <3>1, FS_Subset
  <2>2. measure \in [D -> Nat]
    BY <2>1, FS_CardinalityType
  <2>3. ASSUME NEW R \in D, R \notin stop
        PROVE  next[R] \in D /\ measure[next[R]] < measure[R]
    <3>1. FirstBit(R) \in R
      BY <1>1, <2>3
    <3>2. next[R] = R \ {FirstBit(R)} /\ R \ {FirstBit(R)} \in D
      OBVIOUS
    <3>3. Cardinality(R \ {FirstBit(R)}) = Cardinality(R) - 1 /\ Cardinality(R) \in Nat
      BY <2>1, <3>1, FS_RemoveElement, FS_CardinalityType
    <3>. QED BY <3>2, <3>3
  <2>. QED BY <2>2, <2>3 DEF GoesDown
<1> HIDE DEF base, step, measure, next
<1>5. PICK f : Recurs(f, D, Seq(Int), stop, base, step, next)
  BY <1>2, <1>3, <1>4, Recursion, Zenon
<1>6. f \in [D -> Seq(Int)]
  BY <1>5 DEF Recurs
<1>7. ASSUME NEW R \in D
      PROVE  f[R] = IF R = {} THEN <<>> ELSE <<w * WordBits + FirstBit(R)>> \o f[R \ {FirstBit(R)}]
  <2>1. f[R] = IF R \in stop THEN base[R] ELSE step[<<R, f[next[R]]>>]
    <3>1. f = [d \in D |-> IF d \in stop THEN base[d] ELSE step[<<d, f[next[d]]>>]]
      BY <1>5 DEF Recurs
    <3>. QED BY <3>1
  <2>2. next[R] = R \ {FirstBit(R)} /\ next[R] \in D
    BY DEF next
  <2>3. <<R, f[next[R]]>> \in D \X Seq(Int)
    BY <1>6, <2>2
  <2>4. R # {} => step[<<R, f[next[R]]>>] = <<At(w, FirstBit(R))>> \o f[next[R]]
    BY <2>3 DEF step
  <2>. QED BY <2>1, <2>2, <2>4 DEF base, At
<1>8. BitLists(f, w)
  <2>1. f = [R \in D |-> f[R]]
    BY <1>6
  <2>2. f = [R \in D |-> IF R = {} THEN <<>> ELSE <<w * WordBits + FirstBit(R)>> \o f[R \ {FirstBit(R)}]]
    BY <1>7, <2>1
  <2>. QED BY <2>2 DEF BitLists
<1> DEFINE chosen == CHOOSE h : BitLists(h, w)
<1>9. WordDepth(w) = chosen[bits[w]]
  BY DEF WordDepth, BitLists, Bits
<1>10. BitLists(chosen, w)
  BY <1>8
<1>. QED BY <1>9, <1>10

\* WordDepth lists the marked indexes of its word.
LEMMA WordDepthLists ==
    ASSUME side \in {"Bid", "Ask"}, NEW w \in Int, bits[w] \subseteq Bits
    PROVE  Lists(WordDepth(w), {At(w, x) : x \in bits[w]})
<1>1. PICK f : BitLists(f, w) /\ WordDepth(w) = f[bits[w]]
  BY WordDepthIsRecursive
<1> DEFINE Idx(R) == {At(w, x) : x \in R}
           Bad == {R \in SUBSET Bits : ~Lists(f[R], Idx(R))}
<1>2. SUFFICES ASSUME Bad # {} PROVE FALSE
  <2>1. bits[w] \notin Bad
    BY <1>2
  <2>. QED BY <1>1, <2>1
<1>3. \A R \in SUBSET Bits : IsFiniteSet(R)
  <2>1. IsFiniteSet(Bits)
    BY WordBitsAssumption, FS_Interval DEF Bits
  <2>. QED BY <2>1, FS_Subset
<1>4. PICK R \in Bad : \A x \in R : R \ {x} \notin Bad
  <2>1. \A Q \in Bad : IsFiniteSet(Q)
    BY <1>3
  <2> HIDE DEF Bad
  <2>. QED BY <1>2, <2>1, SmallestSet
<1>5. f[R] = IF R = {} THEN <<>> ELSE <<At(w, FirstBit(R))>> \o f[R \ {FirstBit(R)}]
  <2>1. R \in SUBSET Bits
    BY <1>4
  <2>. QED BY <1>1, <2>1 DEF BitLists, At
<1>6. CASE R = {}
  <2>1. f[R] = <<>> /\ Idx(R) = {}
    BY <1>5, <1>6
  <2>. QED BY <1>4, <2>1, ShortLists
<1>7. CASE R # {}
  <2> DEFINE b == FirstBit(R)
             Q == R \ {b}
             v == At(w, b)
  <2>1. b \in R /\ \A x \in Q : Better(v, At(w, x))
    BY <1>4, <1>7, FirstBitFacts
  <2>2. v \in Int
    BY <1>4, <2>1, WordBitFacts
  <2>3. Lists(f[Q], Idx(Q))
    BY <1>4, <2>1
  <2>4. f[R] = <<v>> \o f[Q]
    BY <1>5, <1>7
  <2>5. Idx(R) = {v} \cup Idx(Q)
    BY <2>1
  <2>6. \A x \in {v}, y \in Idx(Q) : Better(x, y)
    BY <2>1
  <2> HIDE DEF b, Q, v, Idx
  <2>7. Lists(<<v>>, {v})
    BY <2>2, ShortLists
  <2>8. Lists(<<v>> \o f[Q], {v} \cup Idx(Q))
    BY <2>3, <2>6, <2>7, ListsInRow
  <2>9. Lists(f[R], Idx(R))
    BY <2>4, <2>5, <2>8
  <2>. QED BY <1>4, <2>9
<1>. QED BY <1>6, <1>7

\* The levels of the first k words in the order of the walk.
LevelLists(f) ==
    f = [k \in 0 .. NumWords |-> IF k = 0 THEN <<>> ELSE f[k - 1] \o WordDepth(WordAt(k))]

\* The levels with orders whose word is among the first k.
FilledUpto(k) == {i \in filled : \E j \in 1 .. k : WordOf(i) = WordAt(j)}

\* Each word is met once.
LEMMA WordAtFacts ==
    ASSUME side \in {"Bid", "Ask"}
    PROVE  /\ \A k \in 1 .. NumWords : WordAt(k) \in Words /\ WordAt(k) \in Int
           /\ \A w \in Words : \E k \in 1 .. NumWords : WordAt(k) = w
           /\ \A j, k \in 1 .. NumWords :
                 j < k => IF side = "Bid" THEN WordAt(j) > WordAt(k) ELSE WordAt(j) < WordAt(k)
<1>1. NumWords \in Nat
  BY WordRange
<1> USE DEF Words, WordAt
<1>2. \A k \in 1 .. NumWords : WordAt(k) \in Words /\ WordAt(k) \in Int
  BY <1>1
<1>3. ASSUME NEW w \in Words PROVE \E k \in 1 .. NumWords : WordAt(k) = w
  <2>1. CASE side = "Ask"
    <3>1. w + 1 \in 1 .. NumWords /\ WordAt(w + 1) = w
      BY <1>1, <2>1
    <3>. QED BY <3>1
  <2>2. CASE side # "Ask"
    <3>1. NumWords - w \in 1 .. NumWords /\ WordAt(NumWords - w) = w
      BY <1>1, <2>2
    <3>. QED BY <3>1
  <2>. QED BY <2>1, <2>2
<1>4. ASSUME NEW j \in 1 .. NumWords, NEW k \in 1 .. NumWords, j < k
      PROVE  IF side = "Bid" THEN WordAt(j) > WordAt(k) ELSE WordAt(j) < WordAt(k)
  BY <1>1, <1>4
<1>. QED BY <1>2, <1>3, <1>4

\* The marked indexes of a word are its levels with orders.
LEMMA WordFilled ==
    ASSUME IInv, NEW w \in Words
    PROVE  /\ bits[w] \subseteq Bits /\ w \in Int
           /\ {At(w, x) : x \in bits[w]} = {i \in filled : WordOf(i) = w}
<1>1. bits[w] \subseteq Bits /\ w \in Int
  BY WordRange DEF IInv, TypeOK, Bits
<1>2. \A i \in Int : Mark(bits, i) <=> i \in filled
  BY DEF IInv, BitsMatch
<1>3. filled \subseteq Int
  BY DEF IInv, TypeOK, Indexes
<1>4. ASSUME NEW x \in bits[w] PROVE At(w, x) \in filled /\ WordOf(At(w, x)) = w
  <2>1. At(w, x) \in Int /\ WordOf(At(w, x)) = w /\ BitOf(At(w, x)) = x
    BY <1>1, WordBitFacts
  <2>2. Mark(bits, At(w, x))
    BY <2>1 DEF Mark
  <2>. QED BY <1>2, <2>1, <2>2
<1>5. ASSUME NEW i \in filled, WordOf(i) = w PROVE BitOf(i) \in bits[w] /\ At(w, BitOf(i)) = i
  <2>1. Mark(bits, i) /\ i \in Int
    BY <1>2, <1>3
  <2>2. At(WordOf(i), BitOf(i)) = i
    BY <2>1, WordBitFacts
  <2>. QED BY <1>5, <2>1, <2>2 DEF Mark
<1>. QED BY <1>1, <1>4, <1>5

\* Word by word, the levels of the walk are those with orders, best first.
LEMMA WalkLists ==
    ASSUME IInv, NEW f, LevelLists(f)
    PROVE  \A k \in 0 .. NumWords : Lists(f[k], FilledUpto(k))
<1> DEFINE Good == {k \in 0 .. NumWords : Lists(f[k], FilledUpto(k))}
<1>1. NumWords \in Nat /\ side \in {"Bid", "Ask"}
  BY WordRange DEF IInv, TypeOK
<1>2. 0 \in Good
  <2>1. f[0] = <<>> /\ 0 \in 0 .. NumWords
    BY <1>1 DEF LevelLists
  <2>2. FilledUpto(0) = {}
    BY DEF FilledUpto
  <2>. QED BY <2>1, <2>2, ShortLists
<1>3. ASSUME NEW k \in 1 .. NumWords, k - 1 \in Good PROVE k \in Good
  <2> DEFINE w == WordAt(k)
             A == FilledUpto(k - 1)
             B == {At(w, x) : x \in bits[w]}
  <2>1. k \in 0 .. NumWords /\ k # 0 /\ k \in Nat
    BY <1>1
  <2>2. f[k] = f[k - 1] \o WordDepth(w)
    BY <2>1 DEF LevelLists
  <2>3. w \in Words /\ w \in Int
    BY <1>1, WordAtFacts
  <2>4. bits[w] \subseteq Bits /\ B = {i \in filled : WordOf(i) = w}
    BY <2>3, WordFilled
  <2>5. Lists(WordDepth(w), B)
    BY <1>1, <2>3, <2>4, WordDepthLists
  <2>6. Lists(f[k - 1], A)
    BY <1>3
  <2>7. FilledUpto(k) = A \cup B
    <3>1. \A j : j \in 1 .. k <=> j \in 1 .. (k - 1) \/ j = k
      BY <2>1
    <3>. QED BY <2>4, <3>1 DEF FilledUpto
  <2>8. ASSUME NEW x \in A, NEW y \in B PROVE Better(x, y)
    <3>1. PICK j \in 1 .. (k - 1) : WordOf(x) = WordAt(j)
      BY DEF FilledUpto
    <3>2. j \in 1 .. NumWords /\ j < k
      BY <1>1
    <3>3. x \in Int /\ y \in Int /\ WordOf(y) = w
      <4>1. filled \subseteq Int
        BY DEF IInv, TypeOK, Indexes
      <4>2. x \in filled /\ y \in filled /\ WordOf(y) = w
        BY <2>4 DEF FilledUpto
      <4>. QED BY <4>1, <4>2
    <3>4. IF side = "Bid" THEN WordOf(x) > WordOf(y) ELSE WordOf(x) < WordOf(y)
      BY <1>1, <3>1, <3>2, <3>3, WordAtFacts
    <3>5. /\ WordOf(x) \in Int /\ BitOf(x) \in Bits /\ At(WordOf(x), BitOf(x)) = x
          /\ WordOf(y) \in Int /\ BitOf(y) \in Bits /\ At(WordOf(y), BitOf(y)) = y
      BY <3>3, WordBitFacts
    <3>6. (WordOf(x) < WordOf(y) => x < y) /\ (WordOf(y) < WordOf(x) => y < x)
      <4>1. /\ WordOf(x) < WordOf(y) => At(WordOf(x), BitOf(x)) < At(WordOf(y), BitOf(y))
            /\ WordOf(y) < WordOf(x) => At(WordOf(y), BitOf(y)) < At(WordOf(x), BitOf(x))
        BY <3>5, WordBitFacts
      <4>. QED BY <3>5, <4>1
    <3>. QED BY <3>3, <3>4, <3>5, <3>6 DEF Better
  <2> HIDE DEF w, A, B
  <2>9. Lists(f[k - 1] \o WordDepth(w), A \cup B)
    BY <2>5, <2>6, <2>8, ListsInRow
  <2>10. Lists(f[k], FilledUpto(k))
    BY <2>2, <2>7, <2>9
  <2>. QED BY <2>1, <2>10
<1> HIDE DEF Good
<1>4. \A k \in 0 .. NumWords : k \in Good
  BY <1>1, <1>2, <1>3, CountUp
<1>. QED BY <1>4 DEF Good

\* The first m of a list of levels, with their totals.
FirstOf(q, m) == [k \in 1 .. m |-> [price |-> q[k], qty |-> total[q[k]]]]

\* The levels that Depth cuts after the n best.
LEMMA DepthIsRecursive ==
    ASSUME IInv
    PROVE  \E f : LevelLists(f) /\ \A n : Depth(n) =
              FirstOf(f[NumWords], Min({n, Len(f[NumWords])}))
<1> DEFINE V == Seq(Int)
           step == [p \in (1 .. NumWords) \X V |-> p[2] \o WordDepth(WordAt(p[1]))]
<1>1. NumWords \in Nat /\ side \in {"Bid", "Ask"}
  BY WordRange DEF IInv, TypeOK
<1>2. \A k \in 1 .. NumWords : WordDepth(WordAt(k)) \in V
  <2> TAKE k \in 1 .. NumWords
  <2> DEFINE w == WordAt(k)
  <2>1. w \in Words /\ w \in Int
    BY <1>1, WordAtFacts
  <2>2. bits[w] \subseteq Bits
    BY <2>1, WordFilled
  <2>3. Lists(WordDepth(w), {At(w, x) : x \in bits[w]})
    BY <1>1, <2>1, <2>2, WordDepthLists
  <2>. QED BY <2>3 DEF Lists
<1>3. step \in [(1 .. NumWords) \X V -> V]
  <2>1. ASSUME NEW p \in (1 .. NumWords) \X V PROVE p[2] \o WordDepth(WordAt(p[1])) \in V
    <3>1. p[2] \in V /\ WordDepth(WordAt(p[1])) \in V
      BY <1>2
    <3>. QED BY <3>1
  <2>. QED BY <2>1
<1>4. PICK g : Steps(g, NumWords, V, <<>>, step)
  <2> HIDE DEF step
  <2>1. <<>> \in V
    OBVIOUS
  <2> HIDE DEF V
  <2>. QED BY <1>1, <1>3, <2>1, StepsExist
<1>5. g \in [0 .. NumWords -> V] /\ g[0] = <<>>
      /\ \A k \in 1 .. NumWords : g[k] = step[<<k, g[k - 1]>>]
  BY <1>4 DEF Steps
<1>6. ASSUME NEW k \in 0 .. NumWords
      PROVE  g[k] = IF k = 0 THEN <<>> ELSE g[k - 1] \o WordDepth(WordAt(k))
  <2>1. CASE k # 0
    <3>1. k \in 1 .. NumWords /\ k - 1 \in 0 .. NumWords
      BY <1>1, <2>1
    <3>2. <<k, g[k - 1]>> \in (1 .. NumWords) \X V
      BY <1>5, <3>1
    <3>3. step[<<k, g[k - 1]>>] = g[k - 1] \o WordDepth(WordAt(k))
      BY <3>2
    <3> HIDE DEF step
    <3>. QED BY <1>5, <2>1, <3>1, <3>3
  <2>. QED BY <1>5, <2>1
<1> HIDE DEF step
<1>7. LevelLists(g)
  <2>1. g = [k \in 0 .. NumWords |-> g[k]]
    BY <1>5
  <2>2. g = [k \in 0 .. NumWords |-> IF k = 0 THEN <<>> ELSE g[k - 1] \o WordDepth(WordAt(k))]
    BY <1>6, <2>1
  <2>. QED BY <2>2 DEF LevelLists
<1> DEFINE chosen == CHOOSE f : LevelLists(f)
<1>8. LevelLists(chosen)
  BY <1>7
<1>9. ASSUME NEW n
      PROVE  Depth(n) = FirstOf(chosen[NumWords], Min({n, Len(chosen[NumWords])}))
  BY DEF Depth, LevelLists, FirstOf
<1>. QED BY <1>8, <1>9

\* A list has as many elements as its set.
LEMMA ListLength ==
    ASSUME IInv, NEW q, Lists(q, filled)
    PROVE  Len(q) = Cardinality(filled)
<1> DEFINE n == Len(q)
           f == [k \in 1 .. n |-> q[k]]
<1>1. n \in Nat /\ filled \subseteq Int
  BY DEF Lists, IInv, TypeOK, Indexes
<1>2. f \in [1 .. n -> filled]
  BY DEF Lists
<1>3. \A i, j \in 1 .. n : i # j => f[i] # f[j]
  <2> TAKE i \in 1 .. n, j \in 1 .. n
  <2> HAVE i # j
  <2>1. q[i] \in Int /\ q[j] \in Int
    BY <1>1, <1>2
  <2>2. i < j \/ j < i
    BY <1>1
  <2>3. Better(q[i], q[j]) \/ Better(q[j], q[i])
    BY <2>2 DEF Lists
  <2>. QED BY <2>1, <2>3 DEF Better
<1>4. \A x \in filled : \E k \in 1 .. n : f[k] = x
  <2> TAKE x \in filled
  <2>1. PICK k \in 1 .. n : q[k] = x
    BY DEF Lists
  <2>. QED BY <2>1
<1> HIDE DEF n, f
<1>5. f \in Bijection(1 .. n, filled)
  BY <1>2, <1>3, <1>4 DEF Bijection, Injection, Surjection, IsInjective
<1>6. ExistsBijection(1 .. n, filled)
  BY <1>5 DEF ExistsBijection
<1>7. IsFiniteSet(1 .. n) /\ Cardinality(1 .. n) = n
  <2>1. 1 \in Int /\ n \in Int /\ Cardinality(1 .. n) = IF 1 > n THEN 0 ELSE n - 1 + 1
    BY <1>1, FS_Interval
  <2>2. IsFiniteSet(1 .. n)
    BY <1>1, FS_Interval
  <2>. QED BY <1>1, <2>1, <2>2
<1>8. Cardinality(filled) = n
  BY <1>6, <1>7, FS_Bijection
<1>. QED BY <1>8 DEF n

\* depth gives the n best levels with their totals, best first, for any n.
LEMMA DepthLists ==
    ASSUME IInv, NEW n \in Nat
    PROVE  LET d == Depth(n)
               listed == {d[i].price : i \in 1 .. Len(d)}
           IN  /\ Len(d) = Min({n, Cardinality(filled)})
               /\ listed \subseteq filled
               /\ \A i, j \in 1 .. Len(d) : i < j => Better(d[i].price, d[j].price)
               /\ \A i \in 1 .. Len(d) : d[i].qty = total[d[i].price]
               /\ \A p \in filled \ listed, r \in listed : Better(r, p)
<1>1. PICK f : LevelLists(f) /\ Depth(n) = FirstOf(f[NumWords], Min({n, Len(f[NumWords])}))
  BY DepthIsRecursive
<1> DEFINE q == f[NumWords]
           m == Min({n, Len(q)})
           d == Depth(n)
           listed == {d[i].price : i \in 1 .. Len(d)}
<1>2. Lists(q, filled)
  <2>1. NumWords \in 0 .. NumWords /\ side \in {"Bid", "Ask"}
    BY WordRange DEF IInv, TypeOK
  <2>2. Lists(q, FilledUpto(NumWords))
    BY <1>1, <2>1, WalkLists
  <2>3. \A i \in filled : WordOf(i) \in Words
    BY WordRange DEF IInv, TypeOK
  <2>4. FilledUpto(NumWords) = filled
    BY <2>1, <2>3, WordAtFacts DEF FilledUpto
  <2>. QED BY <2>2, <2>4
<1>3. d = FirstOf(q, m)
  BY <1>1
<1> HIDE DEF q, d
<1>4. Len(q) = Cardinality(filled) /\ Len(q) \in Nat /\ q \in Seq(Int)
  BY <1>2, ListLength DEF Lists
<1>5. m \in Nat /\ m <= Len(q) /\ m = Min({n, Cardinality(filled)})
  <2>1. Len(q) \in Int /\ n \in Int
    BY <1>4
  <2>2. (m = n \/ m = Len(q)) /\ m <= Len(q)
    BY <2>1, MinOfTwo
  <2>. QED BY <1>4, <2>2
<1> HIDE DEF m
<1>6. /\ Len(d) = m
      /\ \A i \in 1 .. m : d[i].price = q[i] /\ d[i].qty = total[q[i]] /\ i \in 1 .. Len(q)
  BY <1>3, <1>4, <1>5 DEF FirstOf
<1>7. listed = {d[i].price : i \in 1 .. m}
  BY <1>6
<1> HIDE DEF listed
<1>8. /\ \A k \in 1 .. Len(q) : q[k] \in filled
      /\ \A x \in filled : \E k \in 1 .. Len(q) : q[k] = x
      /\ \A i, j \in 1 .. Len(q) : i < j => Better(q[i], q[j])
  BY <1>2 DEF Lists
<1>9. listed \subseteq filled
  BY <1>6, <1>7, <1>8
<1>10. \A i, j \in 1 .. m : i < j => Better(d[i].price, d[j].price)
  BY <1>6, <1>8
<1>11. ASSUME NEW x \in filled \ listed, NEW y \in listed PROVE Better(y, x)
  <2>1. PICK i \in 1 .. m : y = q[i] /\ i \in 1 .. Len(q)
    BY <1>6, <1>7
  <2>2. PICK j \in 1 .. Len(q) : q[j] = x
    BY <1>8
  <2>3. j \notin 1 .. m
    BY <1>6, <1>7, <2>2
  <2>4. i < j
    BY <1>4, <1>5, <2>3
  <2>. QED BY <1>8, <2>1, <2>2, <2>4
<1>12. \A i \in 1 .. m : d[i].qty = total[d[i].price]
  BY <1>6
<1>. QED BY <1>5, <1>6, <1>9, <1>10, <1>11, <1>12 DEF d, listed

\* What the parts of the invariant say of the bitmap, in the words of OccupancyMatches.
LEMMA OccupancyKnown == ASSUME IInv PROVE OccupancyMatches
<1>1. /\ TypeOK /\ BitsMatch /\ Summarises(summary, bits) /\ count = Cardinality(filled)
      /\ bits \in Bitmaps /\ summary \in Summaries
      /\ \A i \in filled : i \in Int
  BY BitmapTypes, WordRange DEF IInv, TypeOK
<1>2. ASSUME NEW w \in Words
      PROVE  bits[w] = {BitOf(i) : i \in {j \in filled : WordOf(j) = w}}
  <2>1. w \in Int /\ bits[w] \subseteq Bits
    BY <1>1, WordRange DEF Bitmaps
  <2>2. ASSUME NEW x \in bits[w]
        PROVE  At(w, x) \in filled /\ WordOf(At(w, x)) = w /\ BitOf(At(w, x)) = x
    <3>1. x \in Bits /\ At(w, x) \in Int /\ WordOf(At(w, x)) = w /\ BitOf(At(w, x)) = x
      BY <2>1, WordBitFacts
    <3>. QED BY <1>1, <3>1 DEF BitsMatch, Mark
  <2>3. ASSUME NEW i \in filled, WordOf(i) = w PROVE BitOf(i) \in bits[w]
    BY <1>1, <2>3 DEF BitsMatch, Mark
  <2>. QED BY <2>2, <2>3
<1>3. ASSUME NEW v \in SummaryWords
      PROVE  summary[v] = {BitOf(w) : w \in {u \in Words : WordOf(u) = v /\ bits[u] # {}}}
  <2>1. v \in Int /\ summary[v] \subseteq Bits
    BY <1>1 DEF Summaries, SummaryWords
  <2>2. ASSUME NEW x \in summary[v]
        PROVE  /\ At(v, x) \in Words /\ WordOf(At(v, x)) = v /\ BitOf(At(v, x)) = x
               /\ bits[At(v, x)] # {}
    <3>1. x \in Bits /\ At(v, x) \in Int /\ WordOf(At(v, x)) = v /\ BitOf(At(v, x)) = x
      BY <2>1, WordBitFacts
    <3>. QED BY <1>1, <3>1 DEF Summarises
  <2>3. ASSUME NEW u \in Words, WordOf(u) = v, bits[u] # {} PROVE BitOf(u) \in summary[v]
    <3>1. u \in Int /\ BitOf(u) \in Bits /\ At(v, BitOf(u)) = u
      BY <2>3, WordRange, WordBitFacts
    <3>. QED BY <1>1, <2>3, <3>1 DEF Summarises
  <2>. QED BY <2>2, <2>3
<1>. QED BY <1>1, <1>2, <1>3 DEF OccupancyMatches

-----------------------------------------------------------------------------
(* The theorems *)

\* The ladder's invariant holds in every state, whatever its span and word size.
THEOREM LadderInvariant == Spec => []IInv
<1>1. Init => IInv
  BY InitInv
<1>2. IInv /\ [Next]_vars => IInv'
  BY NextInv
<1>. QED BY <1>1, <1>2, PTL DEF Spec

\* The fields keep their types: the count stays within the span, the cursor on a level.
THEOREM TypeCorrect == Spec => []TypeOK
<1>1. IInv => TypeOK
  BY DEF IInv
<1>. QED BY <1>1, LadderInvariant, PTL

\* Bitmap, summary and count say which levels have orders, and nothing else.
THEOREM BitmapMatches == Spec => []OccupancyMatches
<1>1. IInv => OccupancyMatches
  BY OccupancyKnown
<1>. QED BY <1>1, LadderInvariant, PTL

\* The cursor is on the best level that has orders, after any rescan.
THEOREM CursorOnBest == Spec => []BestIsBest
<1>1. IInv => BestIsBest
  BY DEF IInv
<1>. QED BY <1>1, LadderInvariant, PTL

\* The FOK check's sum over the bitmap is the sum over the range.
THEOREM SumsOverRanges == Spec => []RangeSumsExact
<1>1. IInv => RangeSumsExact
  <2> SUFFICES ASSUME IInv, NEW lo \in -1 .. Span, NEW hi \in -1 .. Span
               PROVE  SumRange(lo, hi) =
                          SumFunctionOnSet(total, {i \in filled : lo <= i /\ i <= hi})
    BY DEF RangeSumsExact
  <2>1. lo \in Int /\ hi \in Int
    BY SpanAssumption
  <2>. QED BY <2>1, SumsExact
<1>. QED BY <1>1, LadderInvariant, PTL

\* Depth, whatever the n it stops after, gives the best levels with their totals, and
\* lists them best first.
THEOREM DepthListsBest == Spec => []DepthIsBestFirst
<1>1. IInv => DepthIsBestFirst
  <2> SUFFICES ASSUME IInv, NEW n \in 0 .. (Span + 1)
               PROVE  LET d == Depth(n)
                          listed == {d[i].price : i \in 1 .. Len(d)}
                      IN  /\ Len(d) = Min({n, Cardinality(filled)})
                          /\ listed \subseteq filled
                          /\ \A i, j \in 1 .. Len(d) : i < j => Better(d[i].price, d[j].price)
                          /\ \A i \in 1 .. Len(d) : d[i].qty = total[d[i].price]
                          /\ \A p \in filled \ listed, q \in listed : Better(q, p)
    BY DEF DepthIsBestFirst
  <2>1. n \in Nat
    BY SpanAssumption
  <2>. QED BY <2>1, DepthLists
<1>. QED BY <1>1, LadderInvariant, PTL

=============================================================================
