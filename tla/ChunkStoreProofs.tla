--------------------------- MODULE ChunkStoreProofs ---------------------------
(***************************************************************************)
(* Theorems about ChunkStore and about LadderReplace, which puts it        *)
(* together with two ladders: for any number of orders, levels, chunks and *)
(* slots, the chunks are partitioned between the levels' lists and the     *)
(* free list, every loc leads to its order, the slab always has a chunk to *)
(* hand out, the totals are the sums of what rests, and a level acts as a  *)
(* queue; for any span and word size the ladders are those of the store's  *)
(* levels, and the fast replace does to both what the helpers of the       *)
(* generic one do.                                                         *)
(***************************************************************************)
EXTENDS LadderReplace, DataFacts, SequenceTheorems, FiniteSetTheorems

\* The store has at least one chunk, and NIL is none.
LEMMA ChunksFacts ==
    /\ Cap \in Nat /\ Cap > 0 /\ MaxOrders <= Cap
    /\ Chunks \subseteq Nat /\ NIL \notin Chunks
    /\ IsFiniteSet(Chunks) /\ Cardinality(Chunks) = Cap
<1>1. MaxOrders \in Int /\ 1 \in Int /\ MaxOrders \in Nat
  BY MaxOrdersAssumption
<1>2. Cap \in Nat /\ Cap > 0 /\ MaxOrders <= Cap
  BY <1>1, MaxOfTwo DEF Cap
<1>3. Chunks \subseteq Nat /\ NIL \notin Chunks
  BY <1>2 DEF Chunks, NIL
<1>4. IsFiniteSet(Chunks) /\ Cardinality(Chunks) = Cap
  BY <1>2, FS_Interval DEF Chunks
<1>. QED BY <1>2, <1>3, <1>4

-----------------------------------------------------------------------------
(* Chains of chunks *)

Links == Chunks \cup {NIL}

\* q is what the next links pass from c on, in the array ch.
IsChain(ch, q, c) ==
    /\ q \in Seq(Chunks)
    /\ \A i, j \in 1 .. Len(q) : q[i] = q[j] => i = j
    /\ c = IF q = <<>> THEN NIL ELSE q[1]
    /\ \A i \in 1 .. Len(q) : ch[q[i]].next = IF i = Len(q) THEN NIL ELSE q[i + 1]

\* No chain is longer than there are chunks.
LEMMA ChainLength ==
    ASSUME NEW ch, NEW q, NEW c, IsChain(ch, q, c)
    PROVE  Len(q) \in 0 .. Cap
<1>1. q \in [1 .. Len(q) -> Chunks] /\ Len(q) \in Nat
  BY DEF IsChain
<1>2. q \in Injection(1 .. Len(q), Chunks)
  BY <1>1, Zenon DEF IsChain, Injection, IsInjective
<1>3. Cardinality(1 .. Len(q)) <= Cardinality(Chunks)
  BY <1>2, ChunksFacts, FS_Injection
<1>4. Cardinality(1 .. Len(q)) = Len(q)
  <2>1. \A n \in Nat : Cardinality(1 .. n) = n
    <3> TAKE n \in Nat
    <3>1. Cardinality(1 .. n) = IF 1 > n THEN 0 ELSE n - 1 + 1
      BY FS_Interval
    <3>. QED BY <3>1
  <2>. QED BY <1>1, <2>1
<1>. QED BY <1>1, <1>3, <1>4, ChunksFacts

\* Following the links goes on with the next one.
LEMMA FollowingEquation ==
    ASSUME \A c \in Chunks : chunk[c].next \in Links, NEW n \in 0 .. Cap, NEW c \in Links
    PROVE  Following[<<n, c>>] = IF n = 0 \/ c = NIL THEN <<>>
                                 ELSE <<c>> \o Following[<<n - 1, chunk[c].next>>]
<1> DEFINE D == (0 .. Cap) \X Links
           V == Seq(Links)
           stop == {r \in D : r[1] = 0 \/ r[2] = NIL}
           base == [r \in D |-> <<>>]
           step == [p \in D \X V |-> <<p[1][2]>> \o p[2]]
           next == [r \in D |-> <<r[1] - 1, chunk[r[2]].next>>]
           measure == [r \in D |-> r[1]]
           Walk(f) == [r \in D |-> IF r[1] = 0 \/ r[2] = NIL THEN <<>>
                                   ELSE <<r[2]>> \o f[<<r[1] - 1, chunk[r[2]].next>>]]
<1>1. base \in [D -> V] /\ measure \in [D -> Nat]
  OBVIOUS
<1>2. step \in [D \X V -> V]
  OBVIOUS
<1>3. \A r \in D : r \notin stop => next[r] \in D /\ measure[next[r]] < measure[r]
  <2> TAKE r \in D
  <2> HAVE r \notin stop
  <2>1. r[1] \in 1 .. Cap /\ r[2] \in Chunks
    BY DEF Links
  <2>2. next[r] = <<r[1] - 1, chunk[r[2]].next>>
    OBVIOUS
  <2>3. next[r] \in D
    <3>1. r[1] - 1 \in 0 .. Cap
      <4> DEFINE m == r[1]
      <4> HIDE DEF m
      <4>1. m \in 1 .. Cap
        BY <2>1 DEF m
      <4>2. m - 1 \in 0 .. Cap
        BY <4>1, ChunksFacts
      <4>. QED BY <4>2 DEF m
    <3>2. chunk[r[2]].next \in Links
      BY <2>1
    <3>. QED BY <2>2, <3>1, <3>2
  <2>4. measure[next[r]] = r[1] - 1
    BY <2>2, <2>3
  <2>. QED BY <2>1, <2>3, <2>4
<1>4. GoesDown(D, stop, next, measure)
  <2> HIDE DEF D, stop, next, measure
  <2>. QED BY <1>1, <1>3 DEF GoesDown
<1>5. PICK f : Recurs(f, D, V, stop, base, step, next)
  <2> HIDE DEF D, V, stop, base, step, next, measure
  <2>. QED BY <1>1, <1>2, <1>4, Recursion, Zenon
<1>6. f \in [D -> V] /\ \A r \in D : f[r] = IF r \in stop THEN base[r] ELSE step[<<r, f[next[r]]>>]
  <2> HIDE DEF D, V, stop, base, step, next
  <2>. QED BY <1>5, Zenon DEF Recurs
<1>7. ASSUME NEW r \in D
      PROVE  f[r] = IF r[1] = 0 \/ r[2] = NIL THEN <<>>
                    ELSE <<r[2]>> \o f[<<r[1] - 1, chunk[r[2]].next>>]
  <2>1. CASE r \in stop
    BY <1>6, <2>1, Zenon
  <2>2. CASE r \notin stop
    <3>1. f[r] = step[<<r, f[next[r]]>>]
      BY <1>6, <2>2, Zenon
    <3>2. next[r] \in D
      BY <1>3, <2>2
    <3>3. f[next[r]] \in V
      <4> HIDE DEF next, D, V
      <4>. QED BY <1>6, <3>2
    <3>4. next[r] = <<r[1] - 1, chunk[r[2]].next>>
      OBVIOUS
    <3>5. ASSUME NEW v \in V PROVE step[<<r, v>>] = <<r[2]>> \o v
      OBVIOUS
    <3>6. f[r] = <<r[2]>> \o f[next[r]]
      <4> HIDE DEF next, D, V, step
      <4>. QED BY <3>1, <3>3, <3>5
    <3>. QED BY <2>2, <3>4, <3>6
  <2>. QED BY <2>1, <2>2
<1>8. f = Walk(f)
  <2>1. f = [r \in D |-> f[r]]
    BY <1>6, Zenon
  <2>. QED BY <1>7, <2>1, Zenon
<1> DEFINE chosen == CHOOSE g : g = Walk(g)
<1>9. chosen = Walk(chosen)
  <2> HIDE DEF Walk
  <2>. QED BY <1>8
<1>10. Following = chosen
  BY DEF Following, Links
<1> HIDE DEF chosen
<1>11. <<n, c>> \in D
  OBVIOUS
<1>. QED BY <1>9, <1>10, <1>11

\* An element with what follows it is what begins there.
LEMMA RestOf ==
    ASSUME NEW S, NEW q \in Seq(S), NEW k \in 1 .. Len(q)
    PROVE  <<q[k]>> \o SubSeq(q, k + 1, Len(q)) = SubSeq(q, k, Len(q))
<1> DEFINE a == <<q[k]>>
           b == SubSeq(q, k + 1, Len(q))
           s == SubSeq(q, k, Len(q))
<1>1. a \in Seq(S) /\ Len(a) = 1 /\ a[1] = q[k]
  OBVIOUS
<1>2. b \in Seq(S) /\ Len(b) = Len(q) - k /\ \A i \in 1 .. (Len(q) - k) : b[i] = q[k + i]
  OBVIOUS
<1>3. s \in Seq(S) /\ Len(s) = Len(q) - k + 1 /\ \A i \in 1 .. (Len(q) - k + 1) : s[i] = q[k + i - 1]
  OBVIOUS
<1> HIDE DEF a, b, s
<1>4. /\ a \o b \in Seq(S)
      /\ Len(a \o b) = Len(a) + Len(b)
      /\ \A i \in 1 .. (Len(a) + Len(b)) : (a \o b)[i] = IF i <= Len(a) THEN a[i] ELSE b[i - Len(a)]
  BY <1>1, <1>2, ConcatProperties
<1>5. Len(q) \in Nat /\ Len(a \o b) = Len(s)
  BY <1>1, <1>2, <1>3, <1>4
<1>6. \A i \in 1 .. Len(s) : (a \o b)[i] = s[i]
  <2> TAKE i \in 1 .. Len(s)
  <2>1. i \in 1 .. (Len(a) + Len(b)) /\ i \in 1 .. (Len(q) - k + 1)
    BY <1>1, <1>2, <1>3
  <2>2. CASE i = 1
    BY <1>1, <1>3, <1>4, <2>1, <2>2
  <2>3. CASE i # 1
    <3>1. i - 1 \in 1 .. (Len(q) - k) /\ k + (i - 1) = k + i - 1 /\ ~(i <= Len(a)) /\ i - Len(a) = i - 1
      BY <1>1, <1>5, <2>1, <2>3
    <3>. QED BY <1>2, <1>3, <1>4, <2>1, <3>1
  <2>. QED BY <2>2, <2>3
<1>7. a \o b = s
  BY <1>3, <1>4, <1>5, <1>6, SeqEqual
<1>. QED BY <1>7 DEF a, b, s

\* What From passes is the chain that begins there.
LEMMA FromIs ==
    ASSUME \A c \in Chunks : chunk[c].next \in Links, NEW q, NEW first, IsChain(chunk, q, first)
    PROVE  From(first) = q
<1> DEFINE N == Len(q)
           At(k) == IF k = N + 1 THEN NIL ELSE q[k]
           Rest(k) == SubSeq(q, k, N)
           Good(k) == \A n \in 0 .. Cap : n >= N + 1 - k => Following[<<n, At(k)>>] = Rest(k)
           Bad == {d \in Nat : d <= N /\ ~Good(N + 1 - d)}
<1>1. /\ q \in Seq(Chunks) /\ N \in Nat /\ N <= Cap /\ At(1) = first
      /\ \A i \in 1 .. N : q[i] \in Chunks /\ q[i] # NIL /\ chunk[q[i]].next = At(i + 1)
  BY ChainLength, ChunksFacts DEF IsChain
<1>2. \A k \in 1 .. (N + 1) : At(k) \in Links
  BY <1>1 DEF Links
<1>3. Bad = {}
  <2>1. SUFFICES ASSUME Bad # {} PROVE FALSE
    OBVIOUS
  <2>2. PICK d \in Bad : \A e \in Bad : d <= e
    <3>1. Bad \subseteq Nat
      OBVIOUS
    <3> HIDE DEF Bad
    <3>. QED BY <2>1, <3>1, LeastNat
  <2> DEFINE k == N + 1 - d
  <2>3. d \in Nat /\ d <= N /\ k \in 1 .. (N + 1) /\ d = N + 1 - k
    BY <1>1
  <2>4. PICK n \in 0 .. Cap : n >= d /\ Following[<<n, At(k)>>] # Rest(k)
    BY <2>3
  <2>5. Following[<<n, At(k)>>] = IF n = 0 \/ At(k) = NIL THEN <<>>
                                  ELSE <<At(k)>> \o Following[<<n - 1, chunk[At(k)].next>>]
    <3> HIDE DEF At
    <3>. QED BY <1>2, <2>3, FollowingEquation
  <2>6. CASE d = 0
    <3>1. k = N + 1 /\ At(k) = NIL /\ Rest(k) = <<>>
      BY <1>1, <2>6
    <3>. QED BY <2>4, <2>5, <3>1
  <2>7. CASE d # 0
    <3>1. k \in 1 .. N /\ n # 0 /\ n - 1 \in 0 .. Cap /\ d - 1 \in Nat /\ ~(d <= d - 1) /\ d - 1 <= N
      <4> HIDE DEF At, Rest, Good, Bad
      <4>1. k \in 1 .. N /\ d - 1 \in Nat /\ ~(d <= d - 1) /\ d - 1 <= N
        BY <1>1, <2>3, <2>7
      <4>2. n # 0 /\ n - 1 \in 0 .. Cap
        BY <2>3, <2>4, <2>7, ChunksFacts
      <4>. QED BY <4>1, <4>2
    <3>2. At(k) = q[k] /\ q[k] # NIL /\ chunk[q[k]].next = At(k + 1)
      <4>1. k # N + 1
        <5> HIDE DEF N, k
        <5>. QED BY <1>1, <3>1
      <4>2. At(k) = q[k]
        BY <4>1
      <4> HIDE DEF At, Rest, Good, Bad, k
      <4>. QED BY <1>1, <3>1, <4>2
    <3>3. Good(k + 1)
      <4>1. d - 1 \notin Bad
        BY <2>2, <3>1
      <4>2. N + 1 - (d - 1) = k + 1
        BY <1>1, <2>3
      <4> HIDE DEF Good
      <4>. QED BY <3>1, <4>1, <4>2
    <3>4. Following[<<n - 1, At(k + 1)>>] = Rest(k + 1)
      <4>1. n - 1 >= N + 1 - (k + 1)
        <5>1. n \in Int /\ n >= d /\ d = N + 1 - k /\ N \in Int /\ k \in Int
          BY <1>1, <2>3, <2>4
        <5> HIDE DEF At, Rest, Good, Bad, k, N
        <5>. QED BY <5>1
      <4> HIDE DEF At, Rest
      <4>. QED BY <3>1, <3>3, <4>1
    <3>5. <<q[k]>> \o Rest(k + 1) = Rest(k)
      BY <1>1, <3>1, RestOf
    <3> HIDE DEF At, Rest, k
    <3>. QED BY <2>4, <2>5, <3>1, <3>2, <3>4, <3>5
  <2>. QED BY <2>6, <2>7
<1>4. Good(1)
  <2>1. N + 1 - N = 1 /\ N \in Nat /\ N <= N
    BY <1>1
  <2>2. N \notin Bad
    BY <1>3
  <2> HIDE DEF Good
  <2>. QED BY <2>1, <2>2
<1>5. Following[<<Cap, At(1)>>] = Rest(1)
  <2>1. Cap \in 0 .. Cap
    BY ChunksFacts
  <2>2. Cap >= N + 1 - 1
    <3> HIDE DEF N
    <3>. QED BY <1>1, <2>1
  <2>3. \A n \in 0 .. Cap : n >= N + 1 - 1 => Following[<<n, At(1)>>] = Rest(1)
    BY <1>4
  <2> HIDE DEF At, Rest, N
  <2>. QED BY <2>1, <2>2, <2>3
<1>6. Rest(1) = q
  BY <1>1
<1> HIDE DEF At, Rest
<1>. QED BY <1>1, <1>5, <1>6 DEF From

-----------------------------------------------------------------------------
(* Chains that grow and shrink *)

\* A chain is there in every array that has its links.
LEMMA ChainKept ==
    ASSUME NEW ch, NEW ch2, NEW q, NEW c, IsChain(ch, q, c),
           \A i \in 1 .. Len(q) : ch2[q[i]].next = ch[q[i]].next
    PROVE  IsChain(ch2, q, c)
BY DEF IsChain

\* A chunk linked behind the last one.
LEMMA ChainAppended ==
    ASSUME NEW ch, NEW ch2, NEW q, NEW h, IsChain(ch, q, h), NEW c \in Chunks,
           \A i \in 1 .. Len(q) : q[i] # c,
           ch2[c].next = NIL,
           \A i \in 1 .. Len(q) : ch2[q[i]].next = IF i = Len(q) THEN c ELSE ch[q[i]].next
    PROVE  IsChain(ch2, Append(q, c), IF q = <<>> THEN c ELSE h)
<1> DEFINE r == Append(q, c)
           n == Len(q)
<1>1. q \in Seq(Chunks) /\ n \in Nat /\ (q = <<>> <=> n = 0)
  BY DEF IsChain
<1>2. /\ r \in Seq(Chunks) /\ Len(r) = n + 1 /\ r # <<>>
      /\ \A i \in 1 .. (n + 1) : r[i] = IF i = n + 1 THEN c ELSE q[i]
  BY <1>1
<1> HIDE DEF r
<1>3. \A i, j \in 1 .. (n + 1) : r[i] = r[j] => i = j
  <2> TAKE i, j \in 1 .. (n + 1)
  <2>1. /\ i = n + 1 \/ i \in 1 .. n
        /\ j = n + 1 \/ j \in 1 .. n
    BY <1>1
  <2>. QED BY <1>1, <1>2, <2>1 DEF IsChain
<1>4. (IF q = <<>> THEN c ELSE h) = r[1]
  BY <1>1, <1>2 DEF IsChain
<1>5. \A i \in 1 .. (n + 1) : ch2[r[i]].next = IF i = n + 1 THEN NIL ELSE r[i + 1]
  <2> TAKE i \in 1 .. (n + 1)
  <2>1. CASE i = n + 1
    BY <1>2, <2>1
  <2>2. CASE i = n /\ i # n + 1
    BY <1>1, <1>2, <2>2
  <2>3. CASE i # n /\ i # n + 1
    <3>1. i \in 1 .. n /\ i + 1 \in 1 .. n /\ i # n + 1 /\ i + 1 # n + 1
      BY <1>1, <2>3
    <3>2. ch[q[i]].next = q[i + 1]
      BY <2>3, <3>1 DEF IsChain
    <3>. QED BY <1>2, <2>3, <3>1, <3>2
  <2>. QED BY <2>1, <2>2, <2>3
<1>. QED BY <1>2, <1>3, <1>4, <1>5 DEF IsChain, r

\* A chunk put in front.
LEMMA ChainPushed ==
    ASSUME NEW ch, NEW ch2, NEW q, NEW h, IsChain(ch, q, h), NEW c \in Chunks,
           \A i \in 1 .. Len(q) : q[i] # c,
           ch2[c].next = h,
           \A i \in 1 .. Len(q) : ch2[q[i]].next = ch[q[i]].next
    PROVE  IsChain(ch2, WithOne(q, 1, c), c)
<1> DEFINE r == WithOne(q, 1, c)
           n == Len(q)
<1>1. q \in Seq(Chunks) /\ n \in Nat /\ (q = <<>> <=> n = 0)
  BY DEF IsChain
<1>2. /\ r \in Seq(Chunks) /\ Len(r) = n + 1 /\ r[1] = c
      /\ \A k \in 1 .. n : r[k + 1] = q[k]
  <2>1. 1 \in 1 .. (Len(q) + 1)
    BY <1>1
  <2>2. /\ WithOne(q, 1, c) \in Seq(Chunks)
        /\ Len(WithOne(q, 1, c)) = Len(q) + 1
        /\ WithOne(q, 1, c)[1] = c
        /\ \A k \in 1 .. Len(q) : WithOne(q, 1, c)[k + 1] = q[k]
    BY <1>1, <2>1, WithOneFacts
  <2>. QED BY <2>2
<1> HIDE DEF r
<1>3. \A i \in 2 .. (n + 1) : i - 1 \in 1 .. n /\ r[i] = q[i - 1]
  <2> TAKE i \in 2 .. (n + 1)
  <2>1. i - 1 \in 1 .. n /\ (i - 1) + 1 = i
    BY <1>1
  <2>. QED BY <1>2, <2>1
<1>4. \A i, j \in 1 .. (n + 1) : r[i] = r[j] => i = j
  <2> TAKE i, j \in 1 .. (n + 1)
  <2>1. /\ i = 1 \/ i \in 2 .. (n + 1)
        /\ j = 1 \/ j \in 2 .. (n + 1)
    BY <1>1
  <2>2. CASE i = 1 /\ j = 1
    BY <2>2
  <2>3. CASE i = 1 /\ j \in 2 .. (n + 1)
    BY <1>2, <1>3, <2>3
  <2>4. CASE i \in 2 .. (n + 1) /\ j = 1
    BY <1>2, <1>3, <2>4
  <2>5. CASE i \in 2 .. (n + 1) /\ j \in 2 .. (n + 1)
    <3>1. r[i] = r[j] => i - 1 = j - 1
      BY <1>3, <2>5 DEF IsChain
    <3>. QED BY <1>1, <2>5, <3>1
  <2>. QED BY <2>1, <2>2, <2>3, <2>4, <2>5
<1>5. \A i \in 1 .. (n + 1) : ch2[r[i]].next = IF i = n + 1 THEN NIL ELSE r[i + 1]
  <2> TAKE i \in 1 .. (n + 1)
  <2>1. CASE i = 1
    <3>1. n = 0 => h = NIL
      BY <1>1 DEF IsChain
    <3>2. n # 0 => h = q[1] /\ r[2] = q[1]
      BY <1>1, <1>3 DEF IsChain
    <3>. QED BY <1>1, <1>2, <2>1, <3>1, <3>2
  <2>2. CASE i # 1
    <3>1. i \in 2 .. (n + 1) /\ i - 1 \in 1 .. n /\ r[i] = q[i - 1]
      BY <1>1, <1>3, <2>2
    <3>2. ch2[r[i]].next = IF i - 1 = n THEN NIL ELSE q[(i - 1) + 1]
      BY <3>1 DEF IsChain
    <3>3. i # n + 1 => i + 1 \in 2 .. (n + 1) /\ (i + 1) - 1 = i /\ (i - 1) + 1 = i
      BY <1>1, <3>1
    <3>4. i - 1 = n <=> i = n + 1
      BY <1>1, <3>1
    <3>5. i # n + 1 => r[i + 1] = q[i]
      BY <1>3, <3>3
    <3>. QED BY <3>2, <3>3, <3>4, <3>5
  <2>. QED BY <2>1, <2>2
<1>6. r # <<>>
  BY <1>1, <1>2
<1>. QED BY <1>2, <1>4, <1>5, <1>6 DEF IsChain, r

\* A chunk taken out: the one before it is linked to the one behind it.
LEMMA ChainDropped ==
    ASSUME NEW ch, NEW ch2, NEW q, NEW h, IsChain(ch, q, h), NEW k \in 1 .. Len(q),
           \A i \in 1 .. Len(q) : i # k =>
               ch2[q[i]].next = IF i = k - 1 THEN ch[q[k]].next ELSE ch[q[i]].next
    PROVE  IsChain(ch2, LessOne(q, k), IF k = 1 THEN ch[q[1]].next ELSE h)
<1> DEFINE r == LessOne(q, k)
           n == Len(q)
           At(i) == IF i < k THEN i ELSE i + 1
<1>1. q \in Seq(Chunks) /\ n \in Nat /\ n > 0 /\ k \in 1 .. n
  BY DEF IsChain
<1>2. /\ r \in Seq(Chunks) /\ Len(r) = n - 1
      /\ \A i \in 1 .. (n - 1) : r[i] = q[At(i)]
  <2>1. /\ r \in Seq(Chunks) /\ Len(r) = n - 1
        /\ \A i \in 1 .. (n - 1) : r[i] = IF i < k THEN q[i] ELSE q[i + 1]
    BY <1>1, LessOneFacts
  <2>. QED BY <2>1
<1> HIDE DEF r
<1>3. \A i \in 1 .. (n - 1) : At(i) \in 1 .. n /\ At(i) # k
  BY <1>1
<1>4. \A i, j \in 1 .. (n - 1) : r[i] = r[j] => i = j
  <2> TAKE i, j \in 1 .. (n - 1)
  <2>1. q[At(i)] = q[At(j)] => At(i) = At(j)
    <3> HIDE DEF At
    <3>. QED BY <1>3 DEF IsChain
  <2>2. At(i) = At(j) => i = j
    BY <1>1
  <2> HIDE DEF At
  <2>. QED BY <1>2, <2>1, <2>2
<1>5. (IF k = 1 THEN ch[q[1]].next ELSE h) = IF r = <<>> THEN NIL ELSE r[1]
  <2>1. r = <<>> <=> n = 1
    BY <1>1, <1>2
  <2>2. CASE n = 1
    <3>1. k = 1 /\ ch[q[1]].next = NIL
      BY <1>1, <2>2 DEF IsChain
    <3>. QED BY <2>1, <2>2, <3>1
  <2>3. CASE n # 1
    <3>1. 1 \in 1 .. (n - 1) /\ r[1] = q[At(1)] /\ q # <<>> /\ 1 \in 1 .. n
      BY <1>1, <1>2, <2>3
    <3>2. CASE k = 1
      <4>1. ch[q[1]].next = q[2] /\ At(1) = 2
        BY <1>1, <2>3, <3>1, <3>2 DEF IsChain
      <4>. QED BY <2>1, <2>3, <3>1, <3>2, <4>1
    <3>3. CASE k # 1
      <4>1. At(1) = 1 /\ h = q[1]
        BY <1>1, <3>1, <3>3 DEF IsChain
      <4>. QED BY <2>1, <2>3, <3>1, <3>3, <4>1
    <3>. QED BY <3>2, <3>3
  <2>. QED BY <2>2, <2>3
<1>6. \A i \in 1 .. (n - 1) : ch2[r[i]].next = IF i = n - 1 THEN NIL ELSE r[i + 1]
  <2> TAKE i \in 1 .. (n - 1)
  <2>a. \A j \in 1 .. n : ch[q[j]].next = IF j = n THEN NIL ELSE q[j + 1]
    BY DEF IsChain
  <2>b. r[i] = q[At(i)] /\ (i # n - 1 => i + 1 \in 1 .. (n - 1) /\ r[i + 1] = q[At(i + 1)])
    BY <1>1, <1>2
  <2>1. CASE i = k - 1
    <3>1. At(i) = i /\ i \in 1 .. n /\ i # k
      BY <1>1, <2>1
    <3>2. ch2[q[i]].next = ch[q[k]].next
      BY <2>1, <3>1
    <3>3. ch[q[k]].next = IF k = n THEN NIL ELSE q[k + 1]
      BY <1>1, <2>a
    <3>4. (k = n <=> i = n - 1) /\ At(i + 1) = k + 1
      BY <1>1, <2>1
    <3>. QED BY <2>b, <3>1, <3>2, <3>3, <3>4
  <2>2. CASE i < k - 1
    <3>1. At(i) = i /\ i \in 1 .. n /\ i # k /\ i # k - 1 /\ i # n /\ i # n - 1 /\ At(i + 1) = i + 1
      BY <1>1, <2>2
    <3>2. ch2[q[i]].next = q[i + 1]
      BY <2>a, <3>1
    <3>. QED BY <2>b, <3>1, <3>2
  <2>3. CASE i >= k
    <3>a. k \in Int /\ i \in Int /\ i <= n - 1 /\ 1 <= i /\ n \in Int /\ i >= k
      BY <1>1, <2>3
    <3>b. ~(i < k) /\ ~(i + 1 < k)
      BY <3>a
    <3>c. At(i) = i + 1 /\ At(i + 1) = (i + 1) + 1
      BY <3>b
    <3>d. i + 1 \in 1 .. n /\ i + 1 # k /\ i + 1 # k - 1 /\ (i + 1 = n <=> i = n - 1)
      BY <3>a
    <3>1. /\ At(i) = i + 1 /\ i + 1 \in 1 .. n /\ i + 1 # k /\ i + 1 # k - 1
          /\ (i + 1 = n <=> i = n - 1) /\ At(i + 1) = (i + 1) + 1
      BY <3>c, <3>d
    <3>2. ch2[q[i + 1]].next = ch[q[i + 1]].next
      BY <3>1
    <3>3. ch[q[i + 1]].next = IF i + 1 = n THEN NIL ELSE q[(i + 1) + 1]
      BY <2>a, <3>1
    <3>. QED BY <2>b, <3>1, <3>2, <3>3
  <2>4. i = k - 1 \/ i < k - 1 \/ i >= k
    BY <1>1
  <2>. QED BY <2>1, <2>2, <2>3, <2>4
<1>. QED BY <1>2, <1>4, <1>5, <1>6 DEF IsChain, r

-----------------------------------------------------------------------------
(* The lists *)

\* q is the list of level l, whose ends are those of e.
IsLevelList(ch, e, l, q) ==
    /\ IsChain(ch, q, e.head)
    /\ e.tail = IF q = <<>> THEN NIL ELSE q[Len(q)]
    /\ \A i \in 1 .. Len(q) : /\ ch[q[i]].level = l
                              /\ ch[q[i]].prev = IF i = 1 THEN NIL ELSE q[i - 1]

\* Q are the levels' lists and have the chunks of U, F is the free list and has the
\* others below us.
Lists(ch, lv, fr, us, U, Q, F) ==
    /\ IsChain(ch, F, fr)
    /\ Q \in [Levels -> Seq(Chunks)]
    /\ \A l \in Levels : IsLevelList(ch, lv[l], l, Q[l])
    /\ \A l \in Levels : \A i \in 1 .. Len(Q[l]) : Q[l][i] \in U
    /\ \A c \in U : /\ c \in Chunks /\ c < us /\ ch[c].level \in Levels
                    /\ \E i \in 1 .. Len(Q[ch[c].level]) : Q[ch[c].level][i] = c
    /\ \A i \in 1 .. Len(F) : F[i] < us /\ F[i] \notin U
    /\ \A c \in Chunks : c < us /\ c \notin U => \E i \in 1 .. Len(F) : F[i] = c

Linked(ch, lv, fr, us, U) == \E Q, F : Lists(ch, lv, fr, us, U, Q, F)

\* Lists R are Q, or have chunk c at the end of that of level l.
Grown(Q, R, l, c) == R = Q \/ R = [Q EXCEPT ![l] = Append(Q[l], c)]

\* Lists R are Q, or lack a chunk of that of level l.
Lessened(Q, R, l) == R = Q \/ \E k \in 1 .. Len(Q[l]) : R = [Q EXCEPT ![l] = LessOne(Q[l], k)]

\* The links and the level of chunk c are the same in both arrays.
SameLinks(ch2, ch, c) ==
    ch2[c].next = ch[c].next /\ ch2[c].prev = ch[c].prev /\ ch2[c].level = ch[c].level

SameEnds(lv2, lv) == \A l \in Levels : lv2[l].head = lv[l].head /\ lv2[l].tail = lv[l].tail

\* Lists are those of every array that has the links of the chunks handed out.
LEMMA ListsKept ==
    ASSUME NEW ch, NEW ch2, NEW lv, NEW lv2, NEW fr, NEW us, NEW U, NEW Q, NEW F,
           Lists(ch, lv, fr, us, U, Q, F),
           \A c \in Chunks : c < us => SameLinks(ch2, ch, c), SameEnds(lv2, lv)
    PROVE  Lists(ch2, lv2, fr, us, U, Q, F)
<1>1. Lists(ch, lv, fr, us, U, Q, F)
  OBVIOUS
<1>2. \A i \in 1 .. Len(F) : ch2[F[i]].next = ch[F[i]].next
  BY <1>1 DEF Lists, IsChain, SameLinks
<1>3. IsChain(ch2, F, fr)
  BY <1>1, <1>2, ChainKept DEF Lists
<1>4. \A l \in Levels : \A i \in 1 .. Len(Q[l]) : SameLinks(ch2, ch, Q[l][i])
  BY <1>1 DEF Lists
<1>5. ASSUME NEW l \in Levels PROVE IsLevelList(ch2, lv2[l], l, Q[l])
  <2>1. IsLevelList(ch, lv[l], l, Q[l])
    BY <1>1 DEF Lists
  <2>2. IsChain(ch2, Q[l], lv2[l].head)
    <3>1. IsChain(ch, Q[l], lv2[l].head)
      BY <2>1 DEF IsLevelList, SameEnds
    <3>. QED BY <1>4, <3>1, ChainKept DEF SameLinks
  <2>. QED BY <1>4, <2>1, <2>2 DEF IsLevelList, SameEnds, SameLinks
<1>6. \A c \in U : ch2[c].level = ch[c].level
  BY <1>1 DEF Lists, SameLinks
<1>. QED BY <1>1, <1>3, <1>5, <1>6 DEF Lists

LEMMA LinkedKept ==
    ASSUME NEW ch, NEW ch2, NEW lv, NEW lv2, NEW fr, NEW us, NEW U, Linked(ch, lv, fr, us, U),
           \A c \in Chunks : c < us => SameLinks(ch2, ch, c), SameEnds(lv2, lv)
    PROVE  Linked(ch2, lv2, fr, us, U)
BY ListsKept DEF Linked

\* Chunk c is linked behind the last one of level l.
TakesIn(ch2, ch, lv2, lv, l, c) ==
    /\ \A i \in Chunks :
          /\ ch2[i].next = IF i = c THEN NIL ELSE IF i = lv[l].tail THEN c ELSE ch[i].next
          /\ ch2[i].prev = IF i = c THEN lv[l].tail ELSE ch[i].prev
          /\ ch2[i].level = IF i = c THEN l ELSE ch[i].level
    /\ \A m \in Levels :
          /\ lv2[m].head = IF m = l /\ lv[l].tail = NIL THEN c ELSE lv[m].head
          /\ lv2[m].tail = IF m = l THEN c ELSE lv[m].tail

\* The chunk comes off the free list or is the first one never used.
Taken(fr, us) == IF fr # NIL THEN fr ELSE us
FreeAfter(ch, fr) == IF fr # NIL THEN ch[fr].next ELSE fr
UsedAfter(fr, us) == IF fr = NIL THEN us + 1 ELSE us

LEMMA ListsIn ==
    ASSUME NEW ch, NEW ch2, NEW lv, NEW lv2, NEW fr, NEW us \in Nat, NEW U, NEW Q, NEW F,
           Lists(ch, lv, fr, us, U, Q, F), NEW l \in Levels, NEW c \in Chunks,
           c = Taken(fr, us),
           TakesIn(ch2, ch, lv2, lv, l, c)
    PROVE  \E G : Lists(ch2, lv2, FreeAfter(ch, fr), UsedAfter(fr, us), U \cup {c},
                       [Q EXCEPT ![l] = Append(Q[l], c)], G)
<1> USE DEF Taken, FreeAfter, UsedAfter
<1>1. Lists(ch, lv, fr, us, U, Q, F)
  OBVIOUS
<1> DEFINE last == lv[l].tail
           q == Q[l]
           r == Append(q, c)
           R == [Q EXCEPT ![l] = r]
           G == IF fr # NIL THEN LessOne(F, 1) ELSE F
           V == U \cup {c}
           fr2 == IF fr # NIL THEN ch[fr].next ELSE fr
           us2 == IF fr = NIL THEN us + 1 ELSE us
<1>2. /\ IsChain(ch, F, fr) /\ F \in Seq(Chunks) /\ Len(F) \in Nat
      /\ fr = NIL <=> F = <<>>
      /\ fr = NIL <=> Len(F) = 0
      /\ fr # NIL => fr = F[1] /\ 1 \in 1 .. Len(F)
  <2>1. IsChain(ch, F, fr) /\ F \in Seq(Chunks) /\ Len(F) \in Nat
    BY <1>1 DEF Lists, IsChain
  <2>2. CASE F = <<>>
    BY <2>1, <2>2 DEF IsChain
  <2>3. CASE F # <<>>
    <3>1. Len(F) # 0 /\ 1 \in 1 .. Len(F) /\ fr = F[1] /\ fr \in Chunks
      BY <2>1, <2>3 DEF IsChain
    <3>. QED BY <2>1, <2>3, <3>1, ChunksFacts
  <2>. QED BY <2>2, <2>3
<1>3. c \notin U /\ c < us2 /\ us2 \in Nat /\ us <= us2
  <2>1. CASE fr = NIL
    <3>1. c = us
      BY <2>1
    <3>2. c \notin U
      BY <1>1, <3>1, ChunksFacts DEF Lists
    <3>. QED BY <2>1, <3>1, <3>2
  <2>2. CASE fr # NIL
    BY <1>1, <1>2, <2>2 DEF Lists
  <2>. QED BY <2>1, <2>2
<1>4. \A m \in Levels : \A i \in 1 .. Len(Q[m]) : Q[m][i] # c /\ Q[m][i] \in Chunks /\ Q[m][i] \in U
  BY <1>1, <1>3 DEF Lists
<1>5. q \in Seq(Chunks) /\ Len(q) \in Nat /\ IsLevelList(ch, lv[l], l, q) /\ (q = <<>> <=> last = NIL)
  <2>1. q \in Seq(Chunks) /\ Len(q) \in Nat /\ IsLevelList(ch, lv[l], l, q)
    BY <1>1 DEF Lists
  <2>2. q # <<>> => q[Len(q)] \in Chunks
    BY <2>1
  <2>. QED BY <2>1, <2>2, ChunksFacts DEF IsLevelList
<1>6. IsLevelList(ch2, lv2[l], l, r)
  <2> DEFINE n == Len(q)
  <2>1. /\ r \in Seq(Chunks) /\ Len(r) = n + 1 /\ r # <<>>
        /\ \A i \in 1 .. (n + 1) : r[i] = IF i = n + 1 THEN c ELSE q[i]
    BY <1>5
  <2>2. \A i \in 1 .. n : ch2[q[i]].next = IF i = n THEN c ELSE ch[q[i]].next
    <3> TAKE i \in 1 .. n
    <3>1. q # <<>> /\ q[n] = last /\ n \in 1 .. n
      BY <1>5 DEF IsLevelList
    <3>2. q[i] = last <=> i = n
      BY <1>5, <3>1 DEF IsLevelList, IsChain
    <3>. QED BY <1>4, <3>2 DEF TakesIn
  <2>3. IsChain(ch2, r, IF q = <<>> THEN c ELSE lv[l].head)
    <3>1. IsChain(ch, q, lv[l].head) /\ ch2[c].next = NIL
      BY <1>5 DEF IsLevelList, TakesIn
    <3>. QED BY <1>4, <2>2, <3>1, ChainAppended
  <2>4. lv2[l].head = (IF q = <<>> THEN c ELSE lv[l].head) /\ lv2[l].tail = c
    BY <1>5 DEF TakesIn
  <2>5. \A i \in 1 .. (n + 1) : /\ ch2[r[i]].level = l
                                /\ ch2[r[i]].prev = IF i = 1 THEN NIL ELSE r[i - 1]
    <3> TAKE i \in 1 .. (n + 1)
    <3>1. CASE i = n + 1
      <4>1. r[i] = c /\ ch2[c].level = l /\ ch2[c].prev = last
        BY <2>1, <3>1 DEF TakesIn
      <4>2. n = 0 => last = NIL
        BY <1>5
      <4>3. n # 0 => last = q[n] /\ r[n] = q[n] /\ i - 1 = n /\ i # 1
        BY <1>5, <2>1, <3>1 DEF IsLevelList
      <4>. QED BY <1>5, <3>1, <4>1, <4>2, <4>3
    <3>2. CASE i # n + 1
      <4>1. i \in 1 .. n /\ r[i] = q[i] /\ (i # 1 => i - 1 \in 1 .. (n + 1) /\ i - 1 # n + 1)
        BY <1>5, <2>1, <3>2
      <4>2. ch[q[i]].level = l /\ ch[q[i]].prev = IF i = 1 THEN NIL ELSE q[i - 1]
        BY <1>5, <4>1 DEF IsLevelList
      <4>3. ch2[q[i]].level = ch[q[i]].level /\ ch2[q[i]].prev = ch[q[i]].prev
        BY <1>4, <4>1 DEF TakesIn
      <4>. QED BY <2>1, <4>1, <4>2, <4>3
    <3>. QED BY <3>1, <3>2
  <2>. QED BY <2>1, <2>3, <2>4, <2>5 DEF IsLevelList
<1>7. ASSUME NEW m \in Levels, m # l PROVE IsLevelList(ch2, lv2[m], m, Q[m])
  <2>1. IsLevelList(ch, lv[m], m, Q[m])
    BY <1>1 DEF Lists
  <2>2. lv2[m].head = lv[m].head /\ lv2[m].tail = lv[m].tail
    BY <1>7 DEF TakesIn
  <2>3. ASSUME NEW i \in 1 .. Len(Q[m]) PROVE SameLinks(ch2, ch, Q[m][i])
    <3>1. ch[Q[m][i]].level = m
      BY <2>1 DEF IsLevelList
    <3>2. Q[m][i] # last
      <4>1. SUFFICES ASSUME Q[m][i] = last PROVE FALSE
        OBVIOUS
      <4>2. q # <<>> /\ last = q[Len(q)] /\ Len(q) \in 1 .. Len(q)
        BY <1>4, <1>5, <4>1, ChunksFacts DEF IsLevelList
      <4>3. ch[last].level = l
        BY <1>5, <4>2 DEF IsLevelList
      <4>. QED BY <1>7, <3>1, <4>1, <4>3
    <3>. QED BY <1>4, <3>2 DEF TakesIn, SameLinks
  <2>4. IsChain(ch2, Q[m], lv2[m].head)
    <3>1. IsChain(ch, Q[m], lv2[m].head)
      BY <2>1, <2>2 DEF IsLevelList
    <3>. QED BY <2>3, <3>1, ChainKept DEF SameLinks
  <2>. QED BY <2>1, <2>2, <2>3, <2>4 DEF IsLevelList, SameLinks
<1>8. IsChain(ch2, G, fr2)
  <2>1. ASSUME NEW i \in 1 .. Len(F), F[i] # c PROVE ch2[F[i]].next = ch[F[i]].next
    <3>1. F[i] \in Chunks /\ F[i] \notin U
      BY <1>1, <1>2 DEF Lists
    <3>2. F[i] # last
      <4>1. SUFFICES ASSUME F[i] = last PROVE FALSE
        OBVIOUS
      <4>2. q # <<>> /\ last = q[Len(q)] /\ Len(q) \in 1 .. Len(q)
        BY <1>5, <3>1, <4>1, ChunksFacts DEF IsLevelList
      <4>. QED BY <1>4, <3>1, <4>1, <4>2
    <3>. QED BY <2>1, <3>1, <3>2 DEF TakesIn
  <2>2. CASE fr = NIL
    <3>1. F = <<>> /\ G = F /\ fr2 = fr
      BY <1>2, <2>2
    <3>. QED BY <1>2, <3>1 DEF IsChain
  <2>3. CASE fr # NIL
    <3>1. fr = c /\ fr = F[1] /\ 1 \in 1 .. Len(F)
      BY <1>2, <2>3
    <3>2. \A i \in 1 .. Len(F) : i # 1 =>
              ch2[F[i]].next = IF i = 1 - 1 THEN ch[F[1]].next ELSE ch[F[i]].next
      BY <1>2, <2>1, <3>1 DEF IsChain
    <3>3. IsChain(ch2, LessOne(F, 1), IF 1 = 1 THEN ch[F[1]].next ELSE fr)
      BY <1>2, <3>1, <3>2, ChainDropped
    <3>. QED BY <2>3, <3>1, <3>3
  <2>. QED BY <2>2, <2>3
<1>9. R \in [Levels -> Seq(Chunks)] /\ \A m \in Levels : R[m] = IF m = l THEN r ELSE Q[m]
  <2>1. r \in Seq(Chunks) /\ Q \in [Levels -> Seq(Chunks)]
    BY <1>1, <1>5 DEF Lists
  <2>. QED BY <2>1
<1>10. /\ Len(r) = Len(q) + 1
       /\ \A i \in 1 .. Len(q) : r[i] = q[i]
       /\ r[Len(q) + 1] = c /\ Len(q) + 1 \in 1 .. (Len(q) + 1)
       /\ \A i \in 1 .. (Len(q) + 1) : i = Len(q) + 1 \/ i \in 1 .. Len(q)
  BY <1>5
<1> HIDE DEF R, r
<1>11. \A m \in Levels : \A i \in 1 .. Len(R[m]) : R[m][i] \in V
  BY <1>4, <1>9, <1>10
<1>12. \A b \in V : /\ b \in Chunks /\ b < us2 /\ ch2[b].level \in Levels
                   /\ \E i \in 1 .. Len(R[ch2[b].level]) : R[ch2[b].level][i] = b
  <2> TAKE b \in V
  <2>1. CASE b = c
    <3>1. ch2[c].level = l /\ R[l] = r
      BY <1>9 DEF TakesIn
    <3>2. \E i \in 1 .. Len(R[l]) : R[l][i] = c
      BY <1>10, <3>1
    <3>. QED BY <1>3, <2>1, <3>1, <3>2
  <2>2. CASE b # c
    <3>1. b \in U /\ b \in Chunks /\ b < us /\ ch[b].level \in Levels
      BY <1>1, <2>2 DEF Lists
    <3>2. b < us2
      BY <3>1, ChunksFacts
    <3>3. ch2[b].level = ch[b].level
      BY <2>2, <3>1 DEF TakesIn
    <3>4. PICK i \in 1 .. Len(Q[ch[b].level]) : Q[ch[b].level][i] = b
      BY <1>1, <3>1 DEF Lists
    <3>5. i \in 1 .. Len(R[ch[b].level]) /\ R[ch[b].level][i] = b
      <4> DEFINE m == ch[b].level
      <4> HIDE DEF m
      <4>1. m \in Levels /\ i \in 1 .. Len(Q[m]) /\ Q[m][i] = b
        BY <3>1, <3>4 DEF m
      <4>2. i \in 1 .. Len(R[m]) /\ R[m][i] = b
        <5>1. CASE m = l
          <6>1. i \in 1 .. (Len(q) + 1) /\ R[m] = r
            BY <1>5, <1>9, <4>1, <5>1
          <6>. QED BY <1>10, <4>1, <5>1, <6>1
        <5>2. CASE m # l
          BY <1>9, <4>1, <5>2
        <5>. QED BY <5>1, <5>2
      <4>. QED BY <4>2 DEF m
    <3>. QED BY <3>1, <3>2, <3>3, <3>5
  <2>. QED BY <2>1, <2>2
<1>13. \A i \in 1 .. Len(G) : G[i] < us2 /\ G[i] \notin V
  <2>1. CASE fr = NIL
    BY <1>2, <2>1
  <2>2. CASE fr # NIL
    <3>1. /\ Len(G) = Len(F) - 1
          /\ \A i \in 1 .. (Len(F) - 1) : G[i] = F[i + 1] /\ i + 1 \in 1 .. Len(F) /\ i + 1 # 1
      BY <1>2, <2>2, LessOneFacts
    <3>2. \A i \in 1 .. Len(F) : i # 1 => F[i] # c /\ F[i] < us /\ F[i] \notin U
      BY <1>1, <1>2, <2>2 DEF Lists, IsChain
    <3>. QED BY <2>2, <3>1, <3>2
  <2>. QED BY <2>1, <2>2
<1>14. \A b \in Chunks : b < us2 /\ b \notin V => \E i \in 1 .. Len(G) : G[i] = b
  <2> TAKE b \in Chunks
  <2> HAVE b < us2 /\ b \notin V
  <2>1. b < us /\ b \notin U /\ b # c
    BY ChunksFacts
  <2>2. PICK i \in 1 .. Len(F) : F[i] = b
    BY <1>1, <2>1 DEF Lists
  <2>3. CASE fr = NIL
    BY <2>2, <2>3
  <2>4. CASE fr # NIL
    <3>1. i # 1 /\ i - 1 \in 1 .. (Len(F) - 1) /\ (i - 1) + 1 = i
      <4>1. i # 1
        BY <1>2, <2>1, <2>2, <2>4
      <4> HIDE DEF G, V
      <4>. QED BY <1>2, <4>1
    <3>2. /\ Len(G) = Len(F) - 1
          /\ \A j \in 1 .. (Len(F) - 1) : G[j] = F[j + 1]
      BY <1>2, <2>4, LessOneFacts
    <3>3. G[i - 1] = b
      BY <2>2, <3>1, <3>2
    <3>. QED BY <3>1, <3>2, <3>3
  <2>. QED BY <2>3, <2>4
<1>15. \A m \in Levels : IsLevelList(ch2, lv2[m], m, R[m])
  BY <1>6, <1>7, <1>9
<1> HIDE DEF G, V, fr2, us2
<1>16. Lists(ch2, lv2, fr2, us2, V, R, G)
  BY <1>8, <1>9, <1>11, <1>12, <1>13, <1>14, <1>15 DEF Lists
<1>. QED BY <1>16 DEF V, fr2, us2, R, r

\* Chunk c of level l is linked out of its level and put in front of the free list.
LetsGo(ch2, ch, lv2, lv, fr, l, c) ==
    /\ \A i \in Chunks :
          /\ ch2[i].next = IF i = c THEN fr
                           ELSE IF i = ch[c].prev THEN ch[c].next ELSE ch[i].next
          /\ i # c => ch2[i].prev = IF i # ch[c].prev /\ i = ch[c].next THEN ch[c].prev
                                    ELSE ch[i].prev
          /\ ch2[i].level = ch[i].level
    /\ \A m \in Levels :
          /\ lv2[m].head = IF m = l /\ ch[c].prev = NIL THEN ch[c].next ELSE lv[m].head
          /\ lv2[m].tail = IF m = l /\ ch[c].next = NIL THEN ch[c].prev ELSE lv[m].tail

LEMMA ListsOut ==
    ASSUME NEW ch, NEW ch2, NEW lv, NEW lv2, NEW fr, NEW us, NEW U, NEW Q, NEW F,
           Lists(ch, lv, fr, us, U, Q, F), NEW c \in U, NEW l, l = ch[c].level,
           LetsGo(ch2, ch, lv2, lv, fr, l, c)
    PROVE  \E R, G : Lists(ch2, lv2, c, us, U \ {c}, R, G) /\ Lessened(Q, R, l)
<1>1. Lists(ch, lv, fr, us, U, Q, F)
  OBVIOUS
<1> DEFINE q == Q[l]
           n == Len(q)
<1>2. l \in Levels /\ c \in Chunks /\ c # NIL /\ c < us
  BY <1>1, ChunksFacts DEF Lists
<1>3. PICK k \in 1 .. n : q[k] = c
  BY <1>1 DEF Lists
<1>4. q \in Seq(Chunks) /\ n \in Nat /\ n = Len(q) /\ k \in 1 .. n
  BY <1>1, <1>2 DEF Lists
<1>5. IsLevelList(ch, lv[l], l, q) /\ IsChain(ch, q, lv[l].head)
  BY <1>1, <1>2 DEF Lists, IsLevelList
<1>a. \A i \in 1 .. n : q[i] \in Chunks /\ q[i] \in U /\ q[i] # NIL
  <2>1. \A i \in 1 .. n : q[i] \in Chunks /\ q[i] \in U
    BY <1>1, <1>2, <1>4 DEF Lists
  <2>. QED BY <2>1, ChunksFacts
<1> HIDE DEF q, n
<1>b. \A i, j \in 1 .. n : q[i] = q[j] <=> i = j
  BY <1>4, <1>5 DEF IsChain
<1>c. \A i \in 1 .. n : ch[q[i]].next = IF i = n THEN NIL ELSE q[i + 1]
  BY <1>4, <1>5 DEF IsChain
<1>d. \A i \in 1 .. n : ch[q[i]].prev = IF i = 1 THEN NIL ELSE q[i - 1]
  BY <1>4, <1>5 DEF IsLevelList
<1>e. \A i \in 1 .. n : ch[q[i]].level = l
  BY <1>4, <1>5 DEF IsLevelList
<1>f. \A i \in 1 .. n : q[i] = c <=> i = k
  BY <1>3, <1>4, <1>b
<1>6. ch[c].prev = IF k = 1 THEN NIL ELSE q[k - 1]
  BY <1>3, <1>4, <1>d
<1>6a. ch[c].next = IF k = n THEN NIL ELSE q[k + 1]
  BY <1>3, <1>4, <1>c
<1>6b. (k # 1 => k - 1 \in 1 .. n) /\ (k # n => k + 1 \in 1 .. n)
  BY <1>4
<1>6c. (ch[c].prev = NIL <=> k = 1) /\ (ch[c].next = NIL <=> k = n)
  BY <1>a, <1>6, <1>6a, <1>6b
<1>7. \A i \in 1 .. n : q[i] = ch[c].prev <=> i = k - 1
  <2>1. CASE k = 1
    <3>1. \A i \in 1 .. n : i # k - 1
      BY <1>4, <2>1
    <3>. QED BY <1>a, <1>6, <2>1, <3>1
  <2>2. CASE k # 1
    BY <1>b, <1>6, <1>6b, <2>2
  <2>. QED BY <2>1, <2>2
<1>7a. \A i \in 1 .. n : q[i] = ch[c].next <=> i = k + 1
  <2>1. CASE k = n
    <3>1. \A i \in 1 .. n : i # k + 1
      BY <1>4, <2>1
    <3>. QED BY <1>a, <1>6a, <2>1, <3>1
  <2>2. CASE k # n
    BY <1>b, <1>6a, <1>6b, <2>2
  <2>. QED BY <2>1, <2>2
<1> DEFINE r == LessOne(q, k)
           R == [Q EXCEPT ![l] = r]
           G == WithOne(F, 1, c)
           V == U \ {c}
           At(i) == IF i < k THEN i ELSE i + 1
<1>8. /\ r \in Seq(Chunks) /\ Len(r) = n - 1
      /\ \A i \in 1 .. (n - 1) : r[i] = q[At(i)] /\ At(i) \in 1 .. n /\ At(i) # k
  <2>1. /\ r \in Seq(Chunks) /\ Len(r) = n - 1
        /\ \A i \in 1 .. (n - 1) : r[i] = IF i < k THEN q[i] ELSE q[i + 1]
    BY <1>4, LessOneFacts
  <2>2. \A i \in 1 .. (n - 1) : At(i) \in 1 .. n /\ At(i) # k
    BY <1>4
  <2>. QED BY <2>1, <2>2
<1> HIDE DEF r
<1>9. IsChain(ch2, r, IF k = 1 THEN ch[q[1]].next ELSE lv[l].head)
  <2>1. \A i \in 1 .. Len(q) : i # k =>
            ch2[q[i]].next = IF i = k - 1 THEN ch[q[k]].next ELSE ch[q[i]].next
    <3> TAKE i \in 1 .. Len(q)
    <3> HAVE i # k
    <3>1. i \in 1 .. n /\ q[i] \in Chunks /\ q[i] # c /\ q[k] = c
      BY <1>3, <1>4, <1>a, <1>f
    <3>2. q[i] = ch[c].prev <=> i = k - 1
      BY <1>7, <3>1
    <3>. QED BY <3>1, <3>2 DEF LetsGo
  <2>2. IsChain(ch2, LessOne(q, k), IF k = 1 THEN ch[q[1]].next ELSE lv[l].head)
    BY <1>4, <1>5, <2>1, ChainDropped
  <2>. QED BY <2>2 DEF r
<1>10. IsLevelList(ch2, lv2[l], l, r)
  <2>1. lv2[l].head = IF k = 1 THEN ch[q[1]].next ELSE lv[l].head
    <3>1. k = 1 => q[1] = c
      BY <1>3
    <3>. QED BY <1>2, <1>6c, <3>1 DEF LetsGo
  <2>2. lv2[l].tail = IF r = <<>> THEN NIL ELSE r[Len(r)]
    <3>1. r = <<>> <=> n = 1
      <4>1. r = <<>> <=> Len(r) = 0
        <5>1. r \in Seq(Chunks)
          BY <1>8
        <5>. QED BY <5>1
      <4>. QED BY <1>4, <1>8, <4>1
    <3>2. lv[l].tail = q[n] /\ n \in 1 .. n /\ n > 0
      <4>1. n \in 1 .. n /\ n > 0 /\ q # <<>>
        BY <1>4
      <4>. QED BY <1>4, <1>5, <4>1 DEF IsLevelList
    <3>3. ch[c].next = NIL <=> k = n
      BY <1>6c
    <3>4. CASE n = 1
      <4>1. k = 1 /\ k = n
        BY <3>4
      <4>. QED BY <1>2, <1>6, <3>1, <3>3, <3>4, <4>1 DEF LetsGo
    <3>5. CASE n # 1 /\ k = n
      <4>1. r[n - 1] = q[n - 1] /\ k # 1 /\ r # <<>>
        <5>1. n - 1 \in 1 .. (n - 1) /\ k # 1 /\ n - 1 < k
          BY <1>4, <3>5
        <5>2. At(n - 1) = n - 1
          BY <5>1
        <5>. QED BY <1>8, <3>1, <3>5, <5>1, <5>2
      <4>. QED BY <1>2, <1>6, <1>8, <3>3, <3>5, <4>1 DEF LetsGo
    <3>6. CASE k # n
      <4>1. r[n - 1] = q[n] /\ r # <<>>
        <5>a. n - 1 \in 1 .. (n - 1) /\ n # 1 /\ ~(n - 1 < k) /\ (n - 1) + 1 = n
          BY <1>4, <3>6
        <5>1. n - 1 \in 1 .. (n - 1) /\ At(n - 1) = n /\ n # 1
          BY <5>a
        <5>. QED BY <1>8, <3>1, <5>1
      <4>. QED BY <1>2, <1>8, <3>2, <3>3, <3>6, <4>1 DEF LetsGo
    <3>. QED BY <3>4, <3>5, <3>6
  <2>3. ASSUME NEW i \in 1 .. Len(r)
        PROVE  ch2[r[i]].level = l /\ ch2[r[i]].prev = IF i = 1 THEN NIL ELSE r[i - 1]
    <3> DEFINE j == At(i)
    <3>1. i \in 1 .. (n - 1) /\ r[i] = q[j] /\ j \in 1 .. n /\ j # k
      BY <1>8
    <3>2. i # 1 => r[i - 1] = q[At(i - 1)]
      <4>1. i # 1 => i - 1 \in 1 .. (n - 1)
        BY <1>4, <3>1
      <4>. QED BY <1>8, <4>1
    <3>3. ch2[q[j]].level = l
      <4> HIDE DEF j
      <4>. QED BY <1>a, <1>e, <3>1 DEF LetsGo
    <3>4. ch2[q[j]].prev = IF j = k + 1 THEN ch[c].prev ELSE ch[q[j]].prev
      <4>1. q[j] \in Chunks /\ q[j] # c /\ (q[j] = ch[c].next <=> j = k + 1)
        <5> HIDE DEF j
        <5>. QED BY <1>a, <1>f, <1>7a, <3>1
      <4> HIDE DEF j
      <4>2. j = k + 1 => q[j] # ch[c].prev
        <5>1. k + 1 # k - 1
          BY <1>4
        <5>. QED BY <1>7, <3>1, <5>1
      <4>. QED BY <4>1, <4>2 DEF LetsGo
    <3>5. CASE i < k
      <4>1. j = i /\ j # k + 1 /\ (i # 1 => At(i - 1) = i - 1)
        BY <1>4, <3>1, <3>5
      <4>2. ch[q[j]].prev = IF j = 1 THEN NIL ELSE q[j - 1]
        BY <1>d, <3>1
      <4> HIDE DEF j, At
      <4>. QED BY <3>1, <3>2, <3>3, <3>4, <4>1, <4>2
    <3>6. CASE i = k
      <4>1. j = k + 1 /\ (i # 1 => At(i - 1) = k - 1)
        BY <1>4, <3>1, <3>6
      <4> HIDE DEF j, At
      <4>. QED BY <1>6, <3>1, <3>2, <3>3, <3>4, <3>6, <4>1
    <3>7. CASE i > k
      <4>1. j = i + 1 /\ j # k + 1 /\ i # 1 /\ At(i - 1) = i /\ j # 1 /\ j - 1 = i
        <5>1. /\ ~(i < k) /\ ~(i - 1 < k) /\ i + 1 # k + 1 /\ i # 1 /\ (i - 1) + 1 = i
              /\ i + 1 # 1 /\ (i + 1) - 1 = i
          BY <1>4, <3>7
        <5>. QED BY <5>1
      <4>2. ch[q[j]].prev = IF j = 1 THEN NIL ELSE q[j - 1]
        BY <1>d, <3>1
      <4> HIDE DEF j, At
      <4>. QED BY <3>1, <3>2, <3>3, <3>4, <4>1, <4>2
    <3>8. i < k \/ i = k \/ i > k
      BY <1>4, <3>1
    <3>. QED BY <3>5, <3>6, <3>7, <3>8
  <2>. QED BY <1>9, <2>1, <2>2, <2>3 DEF IsLevelList
<1>11. ASSUME NEW m \in Levels, m # l PROVE IsLevelList(ch2, lv2[m], m, Q[m])
  <2>1. IsLevelList(ch, lv[m], m, Q[m])
    BY <1>1 DEF Lists
  <2>2. lv2[m].head = lv[m].head /\ lv2[m].tail = lv[m].tail
    BY <1>11 DEF LetsGo
  <2>3. ASSUME NEW i \in 1 .. Len(Q[m]) PROVE SameLinks(ch2, ch, Q[m][i])
    <3>1. ch[Q[m][i]].level = m /\ Q[m][i] \in Chunks /\ Q[m][i] # NIL
      BY <1>1, <2>1, ChunksFacts DEF IsLevelList, Lists
    <3>2. Q[m][i] # c
      BY <1>11, <3>1
    <3>3. Q[m][i] # ch[c].prev
      BY <1>e, <1>6, <1>6b, <1>11, <3>1
    <3>4. Q[m][i] # ch[c].next
      BY <1>e, <1>6a, <1>6b, <1>11, <3>1
    <3>. QED BY <3>1, <3>2, <3>3, <3>4 DEF LetsGo, SameLinks
  <2>4. IsChain(ch2, Q[m], lv2[m].head)
    <3>1. IsChain(ch, Q[m], lv2[m].head)
      BY <2>1, <2>2 DEF IsLevelList
    <3>. QED BY <2>3, <3>1, ChainKept DEF SameLinks
  <2>. QED BY <2>1, <2>2, <2>3, <2>4 DEF IsLevelList, SameLinks
<1>12. /\ IsChain(ch, F, fr) /\ F \in Seq(Chunks) /\ Len(F) \in Nat
       /\ \A i \in 1 .. Len(F) : F[i] \in Chunks /\ F[i] < us /\ F[i] \notin U /\ F[i] # c
  BY <1>1 DEF Lists, IsChain
<1>13. IsChain(ch2, G, c)
  <2>1. ASSUME NEW i \in 1 .. Len(F) PROVE ch2[F[i]].next = ch[F[i]].next
    <3>1. F[i] # ch[c].prev
      BY <1>a, <1>6, <1>6b, <1>12, ChunksFacts
    <3>. QED BY <1>12, <3>1 DEF LetsGo
  <2>2. ch2[c].next = fr
    BY <1>2 DEF LetsGo
  <2>. QED BY <1>2, <1>12, <2>1, <2>2, ChainPushed
<1>14. /\ Len(G) = Len(F) + 1 /\ G[1] = c /\ \A i \in 1 .. Len(F) : G[i + 1] = F[i]
  <2>1. 1 \in 1 .. (Len(F) + 1) /\ F \in Seq(Chunks) /\ c \in Chunks
    BY <1>2, <1>12
  <2>. QED BY <2>1, WithOneFacts
<1> HIDE DEF G
<1>15. \A i \in 1 .. Len(G) : G[i] < us /\ G[i] \notin V
  <2> TAKE i \in 1 .. Len(G)
  <2>1. CASE i = 1
    BY <1>2, <1>14, <2>1
  <2>2. CASE i # 1
    <3>1. i - 1 \in 1 .. Len(F) /\ (i - 1) + 1 = i
      BY <1>12, <1>14, <2>2
    <3>. QED BY <1>12, <1>14, <3>1
  <2>. QED BY <2>1, <2>2
<1>16. \A b \in Chunks : b < us /\ b \notin V => \E i \in 1 .. Len(G) : G[i] = b
  <2> TAKE b \in Chunks
  <2> HAVE b < us /\ b \notin V
  <2>1. CASE b = c
    <3>1. 1 \in 1 .. Len(G)
      BY <1>12, <1>14
    <3>. QED BY <1>14, <2>1, <3>1
  <2>2. CASE b # c
    <3>1. PICK i \in 1 .. Len(F) : F[i] = b
      BY <1>1, <2>2 DEF Lists
    <3>2. i + 1 \in 1 .. Len(G) /\ G[i + 1] = b
      BY <1>12, <1>14, <3>1
    <3>. QED BY <3>2
  <2>. QED BY <2>1, <2>2
<1>17. R \in [Levels -> Seq(Chunks)] /\ \A m \in Levels : R[m] = IF m = l THEN r ELSE Q[m]
  <2>1. Q \in [Levels -> Seq(Chunks)]
    BY <1>1 DEF Lists
  <2>. QED BY <1>8, <2>1
<1> HIDE DEF R
<1>18. \A m \in Levels : \A i \in 1 .. Len(R[m]) : R[m][i] \in V
  <2> TAKE m \in Levels
  <2> TAKE i \in 1 .. Len(R[m])
  <2>1. CASE m = l
    <3>1. R[m] = r /\ i \in 1 .. (n - 1)
      BY <1>8, <1>17, <2>1
    <3>2. R[m][i] = q[At(i)] /\ At(i) \in 1 .. n /\ At(i) # k
      BY <1>8, <3>1
    <3> HIDE DEF At
    <3>. QED BY <1>a, <1>f, <3>2
  <2>2. CASE m # l
    <3>1. R[m] = Q[m] /\ i \in 1 .. Len(Q[m])
      BY <1>17, <2>2
    <3>2. R[m][i] \in U /\ ch[R[m][i]].level = m
      BY <1>1, <3>1 DEF Lists, IsLevelList
    <3>3. R[m][i] # c
      BY <2>2, <3>2
    <3>. QED BY <3>2, <3>3
  <2>. QED BY <2>1, <2>2
<1>19. \A b \in V : /\ b \in Chunks /\ b < us /\ ch2[b].level \in Levels
                   /\ \E i \in 1 .. Len(R[ch2[b].level]) : R[ch2[b].level][i] = b
  <2> TAKE b \in V
  <2> DEFINE m == ch[b].level
  <2>1. b \in Chunks /\ b < us /\ m \in Levels /\ b # c
    BY <1>1 DEF Lists
  <2>2. ch2[b].level = m
    BY <2>1 DEF LetsGo
  <2>3. PICK i \in 1 .. Len(Q[m]) : Q[m][i] = b
    BY <1>1 DEF Lists
  <2> HIDE DEF m
  <2>4. \E j \in 1 .. Len(R[m]) : R[m][j] = b
    <3>1. CASE m = l
      <4>1. i \in 1 .. n /\ q[i] = b /\ i # k /\ R[m] = r
        BY <1>3, <1>17, <2>1, <2>3, <3>1 DEF q, n
      <4>2. CASE i < k
        <5>1. i \in 1 .. (n - 1) /\ At(i) = i
          BY <1>4, <4>1, <4>2
        <5>. QED BY <1>8, <4>1, <5>1
      <4>3. CASE i > k
        <5>1. i - 1 \in 1 .. (n - 1) /\ At(i - 1) = i
          BY <1>4, <4>1, <4>3
        <5>. QED BY <1>8, <4>1, <5>1
      <4>. QED BY <1>4, <4>1, <4>2, <4>3
    <3>2. CASE m # l
      BY <1>17, <2>1, <2>3, <3>2 DEF q
    <3>. QED BY <3>1, <3>2
  <2>. QED BY <2>1, <2>2, <2>4
<1>20. \A m \in Levels : IsLevelList(ch2, lv2[m], m, R[m])
  BY <1>10, <1>11, <1>17
<1> HIDE DEF V
<1>21. Lists(ch2, lv2, c, us, V, R, G)
  BY <1>13, <1>15, <1>16, <1>17, <1>18, <1>19, <1>20 DEF Lists
<1>22. Lessened(Q, R, l)
  BY <1>3 DEF Lessened, R, r, q, n
<1>. QED BY <1>21, <1>22 DEF V

-----------------------------------------------------------------------------
(* Slots and locs *)

SlotValues == {DeadSlot} \cup [id : OrderIds, qty : 1 .. (QtyMod - 1)]
ChunkValues == [level : Levels \cup {NIL}, prev : Links, next : Links, head : Slots,
                tail : 0 .. ChunkSlots, live : 0 .. ChunkSlots, s : [Slots -> SlotValues]]
Places == [chunk : Chunks, slot : Slots]

Alive(k) == {i \in Slots : k.s[i].qty # 0}
LiveChunks(ch) == {c \in Chunks : Alive(ch[c]) # {}}

SlotAt(ch, place) == ch[place.chunk].s[place.slot]

\* The locs lc and the slots of ch lead to each other, the live slots of a chunk are
\* between its cursor and its tail, and a chunk that has any counts them.
Placed(ch, lc) ==
    /\ \A id \in DOMAIN lc : /\ lc[id] \in Places
                             /\ SlotAt(ch, lc[id]).id = id /\ SlotAt(ch, lc[id]).qty # 0
    /\ \A c \in Chunks : \A i \in Alive(ch[c]) :
          /\ ch[c].head <= i /\ i < ch[c].tail
          /\ ch[c].s[i].id \in DOMAIN lc /\ lc[ch[c].s[i].id] = [chunk |-> c, slot |-> i]
    /\ \A c \in LiveChunks(ch) : ch[c].live = Cardinality(Alive(ch[c]))

\* The slots of a chunk are finitely many numbers, and dead ones hold 0.
LEMMA SlotsFacts ==
    /\ ChunkSlots \in Nat /\ ChunkSlots > 0 /\ 0 \in Slots /\ Slots \subseteq Nat
    /\ IsFiniteSet(Slots) /\ Cardinality(Slots) = ChunkSlots
    /\ QtyMod \in Nat \ {0} /\ DeadSlot \in SlotValues /\ DeadSlot.qty = 0
    /\ \A v \in SlotValues : v.qty \in 0 .. (QtyMod - 1) /\ (v.qty # 0 => v.id \in OrderIds)
<1>1. ChunkSlots \in Nat /\ ChunkSlots > 0
  BY ChunkSlotsAssumption
<1>2. 0 \in Slots /\ Slots \subseteq Nat
  BY <1>1 DEF Slots
<1>3. IsFiniteSet(Slots) /\ Cardinality(Slots) = ChunkSlots
  BY <1>1, FS_Interval DEF Slots
<1>4. QtyMod \in Nat \ {0}
  BY QtyModAssumption
<1>5. DeadSlot \in SlotValues /\ DeadSlot.qty = 0
  BY DEF DeadSlot, SlotValues
<1>6. \A v \in SlotValues : v.qty \in 0 .. (QtyMod - 1) /\ (v.qty # 0 => v.id \in OrderIds)
  BY <1>4 DEF DeadSlot, SlotValues
<1>. QED BY <1>1, <1>2, <1>3, <1>4, <1>5, <1>6

\* A chunk has no more live slots than slots.
LEMMA AliveIsFinite ==
    ASSUME NEW k
    PROVE  /\ IsFiniteSet(Alive(k)) /\ Cardinality(Alive(k)) \in 0 .. ChunkSlots
           /\ Cardinality(Alive(k)) = 0 <=> Alive(k) = {}
<1>1. Alive(k) \in SUBSET Slots
  BY DEF Alive
<1>2. IsFiniteSet(Alive(k)) /\ Cardinality(Alive(k)) <= ChunkSlots
  BY <1>1, SlotsFacts, FS_Subset
<1>3. Cardinality(Alive(k)) \in Nat /\ (Cardinality(Alive(k)) = 0 <=> Alive(k) = {})
  BY <1>2, FS_CardinalityType, FS_EmptySet
<1>. QED BY <1>2, <1>3, SlotsFacts

\* Only slots, cursors, tails and counts matter; a cursor may pass dead slots.
LEMMA PlacedKept ==
    ASSUME NEW ch, NEW ch2, NEW lc, Placed(ch, lc),
           \A c \in Chunks : ch2[c].s = ch[c].s,
           \A c \in LiveChunks(ch) :
               /\ ch2[c].head = ch[c].head \/ \A i \in Alive(ch[c]) : ch2[c].head <= i
               /\ ch2[c].tail = ch[c].tail /\ ch2[c].live = ch[c].live
    PROVE  Placed(ch2, lc) /\ LiveChunks(ch2) = LiveChunks(ch)
<1>1. \A c \in Chunks : Alive(ch2[c]) = Alive(ch[c])
  BY DEF Alive
<1>2. LiveChunks(ch2) = LiveChunks(ch)
  BY <1>1 DEF LiveChunks
<1>3. ASSUME NEW id \in DOMAIN lc
      PROVE  lc[id] \in Places /\ SlotAt(ch2, lc[id]) = SlotAt(ch, lc[id])
  <2>1. lc[id] \in Places
    BY DEF Placed
  <2>2. lc[id].chunk \in Chunks
    BY <2>1 DEF Places
  <2>. QED BY <2>1, <2>2 DEF SlotAt
<1>4. ASSUME NEW c \in Chunks, NEW i \in Alive(ch2[c])
      PROVE  /\ ch2[c].head <= i /\ i < ch2[c].tail
             /\ ch2[c].s[i].id \in DOMAIN lc /\ lc[ch2[c].s[i].id] = [chunk |-> c, slot |-> i]
  <2>1. i \in Alive(ch[c]) /\ c \in LiveChunks(ch)
    BY <1>1 DEF LiveChunks
  <2>. QED BY <2>1 DEF Placed
<1>5. \A c \in LiveChunks(ch2) : ch2[c].live = Cardinality(Alive(ch2[c]))
  <2> TAKE c \in LiveChunks(ch2)
  <2>1. c \in LiveChunks(ch) /\ c \in Chunks
    BY <1>2 DEF LiveChunks
  <2>. QED BY <1>1, <2>1 DEF Placed
<1>. QED BY <1>2, <1>3, <1>4, <1>5 DEF Placed

\* An order put into the slot at the tail of chunk c.
Joined(ch, c, id, qty) ==
    [ch EXCEPT ![c].tail = @ + 1, ![c].live = @ + 1,
               ![c].s[ch[c].tail] = [id |-> id, qty |-> qty]]

IsJoined(r, ch, c, id, qty) ==
    /\ \A x \in Chunks : x # c => r[x] = ch[x]
    /\ r[c].level = ch[c].level /\ r[c].prev = ch[c].prev /\ r[c].next = ch[c].next
    /\ r[c].head = ch[c].head /\ r[c].tail = ch[c].tail + 1
    /\ r[c].live = ch[c].live + 1
    /\ r[c].s = [ch[c].s EXCEPT ![ch[c].tail] = [id |-> id, qty |-> qty]]
    /\ r = [x \in Chunks |-> r[x]]
    /\ r[c] = [ch[c] EXCEPT !.tail = ch[c].tail + 1, !.live = ch[c].live + 1,
                            !.s = [ch[c].s EXCEPT ![ch[c].tail] = [id |-> id, qty |-> qty]]]

LEMMA JoinedFields ==
    ASSUME NEW ch \in [Chunks -> ChunkValues], NEW c \in Chunks, NEW id, NEW qty
    PROVE  IsJoined(Joined(ch, c, id, qty), ch, c, id, qty)
<1>1. ch[c] \in ChunkValues
  OBVIOUS
<1>. QED BY <1>1 DEF IsJoined, Joined, ChunkValues

WithPlace(lc, id, place) ==
    [x \in DOMAIN lc \cup {id} |-> IF x = id THEN place ELSE lc[x]]

\* It is found there, and the chunk has a live order now.
LEMMA JoinedPlaced ==
    ASSUME NEW ch \in [Chunks -> ChunkValues], NEW lc, Placed(ch, lc), NEW c \in Chunks,
           NEW id \in OrderIds, id \notin DOMAIN lc, NEW qty \in 1 .. (QtyMod - 1),
           ch[c].tail \in Slots, ch[c].head <= ch[c].tail, ch[c].tail \notin Alive(ch[c]),
           ch[c].live = Cardinality(Alive(ch[c]))
    PROVE  LET r == Joined(ch, c, id, qty)
           IN  /\ r \in [Chunks -> ChunkValues]
               /\ Placed(r, WithPlace(lc, id, [chunk |-> c, slot |-> ch[c].tail]))
               /\ LiveChunks(r) = LiveChunks(ch) \cup {c}
               /\ \A x \in Chunks : SameLinks(r, ch, x)
               /\ \A x \in DOMAIN lc : SlotAt(r, lc[x]) = SlotAt(ch, lc[x])
               /\ SlotAt(r, [chunk |-> c, slot |-> ch[c].tail]).qty = qty
<1> DEFINE r == Joined(ch, c, id, qty)
           i == ch[c].tail
           place == [chunk |-> c, slot |-> i]
           lc2 == WithPlace(lc, id, place)
<1>1. /\ \A x \in Chunks : x # c => r[x] = ch[x]
      /\ r[c].level = ch[c].level /\ r[c].prev = ch[c].prev /\ r[c].next = ch[c].next
      /\ r[c].head = ch[c].head /\ r[c].tail = i + 1
      /\ r[c].live = ch[c].live + 1
      /\ r[c].s = [ch[c].s EXCEPT ![i] = [id |-> id, qty |-> qty]]
      /\ r = [x \in Chunks |-> r[x]]
      /\ r[c] = [ch[c] EXCEPT !.tail = i + 1, !.live = ch[c].live + 1,
                              !.s = [ch[c].s EXCEPT ![i] = [id |-> id, qty |-> qty]]]
  <2>1. IsJoined(r, ch, c, id, qty)
    BY JoinedFields
  <2> HIDE DEF r
  <2>. QED BY <2>1 DEF IsJoined
<1> HIDE DEF r
<1>2. ch[c] \in ChunkValues /\ i \in Slots /\ qty # 0 /\ qty \in Nat /\ i < i + 1
  <2> DEFINE j == ch[c].tail
  <2>1. j \in Slots /\ i = j
    OBVIOUS
  <2> HIDE DEF j
  <2>2. j < j + 1
    BY <2>1, SlotsFacts
  <2>3. ch[c] \in ChunkValues /\ i \in Slots /\ qty # 0 /\ qty \in Nat
    BY SlotsFacts
  <2>. QED BY <2>1, <2>2, <2>3
<1>3. ch[c].s \in [Slots -> SlotValues] /\ [id |-> id, qty |-> qty] \in SlotValues
  BY <1>2 DEF ChunkValues, SlotValues
<1>4. r[c].s \in [Slots -> SlotValues] /\ \A j \in Slots :
          r[c].s[j] = IF j = i THEN [id |-> id, qty |-> qty] ELSE ch[c].s[j]
  BY <1>1, <1>2, <1>3
<1>5. Alive(r[c]) = Alive(ch[c]) \cup {i}
  BY <1>2, <1>4 DEF Alive
<1>6. Cardinality(Alive(r[c])) = ch[c].live + 1 /\ ch[c].live + 1 \in 0 .. ChunkSlots
  <2>1. Cardinality(Alive(r[c])) = Cardinality(Alive(ch[c])) + 1
    <3>1. IsFiniteSet(Alive(ch[c])) /\ i \notin Alive(ch[c])
      BY AliveIsFinite
    <3> HIDE DEF r, i
    <3>. QED BY <1>5, <3>1, FS_AddElement
  <2>2. Cardinality(Alive(r[c])) \in 0 .. ChunkSlots
    BY AliveIsFinite
  <2>. QED BY <2>1, <2>2
<1>7. r \in [Chunks -> ChunkValues]
  <2>1. i + 1 \in 0 .. ChunkSlots
    BY <1>2, SlotsFacts DEF Slots
  <2>2. r[c] \in ChunkValues
    <3>1. r[c].s = [ch[c].s EXCEPT ![i] = [id |-> id, qty |-> qty]]
      BY <1>1
    <3>. QED BY <1>1, <1>2, <1>4, <1>6, <2>1, <3>1 DEF ChunkValues
  <2>3. \A x \in Chunks : r[x] \in ChunkValues
    BY <1>1, <2>2
  <2>. QED BY <1>1, <2>3
<1>8. LiveChunks(r) = LiveChunks(ch) \cup {c}
  BY <1>1, <1>5 DEF LiveChunks
<1>9. DOMAIN lc2 = DOMAIN lc \cup {id} /\ lc2[id] = place /\ \A x \in DOMAIN lc : lc2[x] = lc[x]
  BY DEF WithPlace
<1> HIDE DEF lc2
<1>9a. ASSUME NEW x \in DOMAIN lc PROVE SlotAt(r, lc[x]) = SlotAt(ch, lc[x])
  <2> DEFINE d == lc[x].chunk
             j == lc[x].slot
  <2>1. d \in Chunks /\ j \in Slots
    BY DEF Placed, Places
  <2>2. ch[d].s[j].qty # 0
    BY DEF Placed, SlotAt
  <2> HIDE DEF d, j
  <2>3. d = c => j # i
    BY <2>1, <2>2 DEF Alive
  <2>4. r[d].s[j] = ch[d].s[j]
    BY <1>1, <1>4, <2>1, <2>3
  <2>. QED BY <2>4 DEF SlotAt, d, j
<1>10. ASSUME NEW x \in DOMAIN lc2
       PROVE  lc2[x] \in Places /\ SlotAt(r, lc2[x]).id = x /\ SlotAt(r, lc2[x]).qty # 0
  <2>1. CASE x = id
    <3>1. place \in Places /\ SlotAt(r, place) = [id |-> id, qty |-> qty]
      BY <1>2, <1>4 DEF Places, SlotAt
    <3>. QED BY <1>2, <1>9, <2>1, <3>1
  <2>2. CASE x # id
    <3>1. x \in DOMAIN lc /\ lc2[x] = lc[x]
      BY <1>9, <2>2
    <3>2. lc[x] \in Places /\ SlotAt(ch, lc[x]).id = x /\ SlotAt(ch, lc[x]).qty # 0
      BY <3>1 DEF Placed
    <3>3. SlotAt(r, lc[x]) = SlotAt(ch, lc[x])
      BY <1>9a, <3>1
    <3>. QED BY <3>1, <3>2, <3>3
  <2>. QED BY <2>1, <2>2
<1>11. ASSUME NEW x \in Chunks, NEW j \in Alive(r[x])
       PROVE  /\ r[x].head <= j /\ j < r[x].tail
              /\ r[x].s[j].id \in DOMAIN lc2 /\ lc2[r[x].s[j].id] = [chunk |-> x, slot |-> j]
  <2>1. CASE x = c /\ j = i
    <3>1. r[x].s[j] = [id |-> id, qty |-> qty]
      BY <1>2, <1>4, <2>1
    <3>2. r[x].head = ch[c].head /\ r[x].tail = i + 1 /\ ch[c].head <= i /\ i < i + 1
      <4>1. r[c].head = ch[c].head /\ r[c].tail = i + 1
        BY <1>1
      <4>2. ch[c].head <= i /\ i < i + 1
        BY <1>2
      <4> HIDE DEF r, i
      <4>. QED BY <2>1, <4>1, <4>2
    <3>3. lc2[id] = [chunk |-> x, slot |-> j] /\ id \in DOMAIN lc2
      BY <1>9, <2>1
    <3> HIDE DEF r, i
    <3>. QED BY <2>1, <3>1, <3>2, <3>3
  <2>2. CASE ~(x = c /\ j = i)
    <3>1. j \in Alive(ch[x]) /\ j \in Slots /\ r[x].s[j] = ch[x].s[j]
      <4>1. j \in Slots
        BY DEF Alive
      <4>2. CASE x = c
        <5>1. j \in Alive(ch[c]) /\ j # i
          BY <1>5, <2>2, <4>2
        <5>. QED BY <1>4, <4>1, <4>2, <5>1
      <4>3. CASE x # c
        BY <1>1, <4>1, <4>3
      <4>. QED BY <4>2, <4>3
    <3>2. /\ ch[x].head <= j /\ j < ch[x].tail
          /\ ch[x].s[j].id \in DOMAIN lc /\ lc[ch[x].s[j].id] = [chunk |-> x, slot |-> j]
      BY <3>1 DEF Placed
    <3>3. r[x].head = ch[x].head /\ (r[x].tail = ch[x].tail \/ (x = c /\ r[x].tail = i + 1))
      BY <1>1
    <3>4. j < r[x].tail
      BY <1>2, <3>1, <3>2, <3>3, SlotsFacts
    <3>. QED BY <1>9, <3>1, <3>2, <3>3, <3>4
  <2>. QED BY <2>1, <2>2
<1>12. ASSUME NEW x \in LiveChunks(r) PROVE r[x].live = Cardinality(Alive(r[x]))
  <2>1. CASE x = c
    BY <1>1, <1>6, <2>1
  <2>2. CASE x # c
    <3>1. x \in LiveChunks(ch) /\ r[x] = ch[x]
      BY <1>1, <1>8, <2>2 DEF LiveChunks
    <3>. QED BY <3>1 DEF Placed
  <2>. QED BY <2>1, <2>2
<1>13. Placed(r, lc2)
  BY <1>10, <1>11, <1>12 DEF Placed
<1>14. \A x \in Chunks : SameLinks(r, ch, x)
  BY <1>1 DEF SameLinks
<1>15. SlotAt(r, place).qty = qty
  BY <1>2, <1>4 DEF SlotAt
<1>. QED BY <1>7, <1>8, <1>9a, <1>13, <1>14, <1>15 DEF r, lc2

\* What spending n of the order at place leaves of the slots.
Spent(ch, place, n) ==
    LET c == place.chunk
        left == ch[c].s[place.slot].qty - n
        died == left = 0
    IN  [ch EXCEPT ![c].s[place.slot] = IF died THEN DeadSlot ELSE [@ EXCEPT !.qty = left],
                   ![c].live = IF died THEN @ - 1 ELSE @]

\* loc without the order at place, if it died.
WithoutPlace(lc, died, place) ==
    [x \in {y \in DOMAIN lc : ~(died /\ lc[y] = place)} |-> lc[x]]

IsSpent(r, ch, place, n) ==
    LET c == place.chunk
        left == SlotAt(ch, place).qty - n
        slot == IF left = 0 THEN DeadSlot ELSE [SlotAt(ch, place) EXCEPT !.qty = left]
        count == IF left = 0 THEN ch[c].live - 1 ELSE ch[c].live
    IN  /\ \A x \in Chunks : x # c => r[x] = ch[x]
        /\ r[c] = [ch[c] EXCEPT !.s = [ch[c].s EXCEPT ![place.slot] = slot], !.live = count]
        /\ r[c].level = ch[c].level /\ r[c].prev = ch[c].prev /\ r[c].next = ch[c].next
        /\ r[c].head = ch[c].head /\ r[c].tail = ch[c].tail
        /\ r[c].live = count
        /\ r[c].s = [ch[c].s EXCEPT ![place.slot] = slot]
        /\ r = [x \in Chunks |-> r[x]]

LEMMA SpentFields ==
    ASSUME NEW ch \in [Chunks -> ChunkValues], NEW place \in Places, NEW n
    PROVE  IsSpent(Spent(ch, place, n), ch, place, n)
<1>1. place.chunk \in Chunks /\ ch[place.chunk] \in ChunkValues
  BY DEF Places
<1>. QED BY <1>1, Zenon DEF IsSpent, Spent, SlotAt, ChunkValues

\* The others stay where they are; the order goes if nothing is left of it, and its
\* chunk has no live order if it counts none.
LEMMA SpentPlaced ==
    ASSUME NEW ch \in [Chunks -> ChunkValues], NEW lc, Placed(ch, lc), NEW place \in Places,
           SlotAt(ch, place).qty # 0, NEW n \in 1 .. SlotAt(ch, place).qty
    PROVE  LET r == Spent(ch, place, n)
               c == place.chunk
               id == SlotAt(ch, place).id
               died == SlotAt(ch, place).qty - n = 0
               lc2 == WithoutPlace(lc, died, place)
           IN  /\ r \in [Chunks -> ChunkValues] /\ Placed(r, lc2)
               /\ LiveChunks(r) = IF died /\ r[c].live = 0 THEN LiveChunks(ch) \ {c}
                                  ELSE LiveChunks(ch)
               /\ id \in DOMAIN lc /\ lc[id] = place /\ c \in LiveChunks(ch)
               /\ DOMAIN lc2 = IF died THEN DOMAIN lc \ {id} ELSE DOMAIN lc
               /\ \A x \in DOMAIN lc2 : lc2[x] = lc[x]
               /\ \A x \in DOMAIN lc2 \ {id} : SlotAt(r, lc[x]) = SlotAt(ch, lc[x])
               /\ ~died => SlotAt(r, place).qty = SlotAt(ch, place).qty - n
               /\ \A x \in Chunks : SameLinks(r, ch, x)
<1> DEFINE r == Spent(ch, place, n)
           c == place.chunk
           i == place.slot
           old == SlotAt(ch, place)
           id == old.id
           left == old.qty - n
           died == left = 0
           slot == IF left = 0 THEN DeadSlot ELSE [old EXCEPT !.qty = left]
           count == IF left = 0 THEN ch[c].live - 1 ELSE ch[c].live
           lc2 == WithoutPlace(lc, died, place)
<1>1. /\ \A x \in Chunks : x # c => r[x] = ch[x]
      /\ r[c] = [ch[c] EXCEPT !.s = [ch[c].s EXCEPT ![i] = slot], !.live = count]
      /\ r[c].level = ch[c].level /\ r[c].prev = ch[c].prev /\ r[c].next = ch[c].next
      /\ r[c].head = ch[c].head /\ r[c].tail = ch[c].tail
      /\ r[c].live = count
      /\ r[c].s = [ch[c].s EXCEPT ![i] = slot]
      /\ r = [x \in Chunks |-> r[x]]
  <2>1. IsSpent(r, ch, place, n)
    BY SpentFields
  <2> HIDE DEF r
  <2>. QED BY <2>1 DEF IsSpent
<1>2. /\ c \in Chunks /\ i \in Slots /\ place = [chunk |-> c, slot |-> i]
      /\ ch[c] \in ChunkValues /\ ch[c].s \in [Slots -> SlotValues]
      /\ old = ch[c].s[i] /\ old \in SlotValues
  BY DEF Places, SlotAt, ChunkValues
<1>3. /\ old.qty \in 1 .. (QtyMod - 1) /\ n \in 1 .. old.qty
      /\ left \in 0 .. (QtyMod - 1) /\ old \in [id : OrderIds, qty : 1 .. (QtyMod - 1)]
  <2> HIDE DEF old
  <2>1. old.qty \in 0 .. (QtyMod - 1) /\ QtyMod \in Nat
    BY <1>2, SlotsFacts
  <2>2. old.qty # 0 /\ n \in 1 .. old.qty
    BY DEF old
  <2>3. old \in [id : OrderIds, qty : 1 .. (QtyMod - 1)]
    BY <1>2, <2>2 DEF SlotValues, DeadSlot
  <2>. QED BY <2>1, <2>2, <2>3
<1>4. i \in Alive(ch[c]) /\ c \in LiveChunks(ch)
  BY <1>2, <1>3, SlotsFacts DEF Alive, LiveChunks
<1>5. id \in DOMAIN lc /\ lc[id] = place
  BY <1>2, <1>4 DEF Placed
<1> HIDE DEF old, left, r
<1>6. slot \in SlotValues /\ (slot.qty = 0 <=> died) /\ (~died => slot.id = id /\ slot.qty = left)
  BY <1>3, SlotsFacts DEF SlotValues
<1> HIDE DEF slot
<1>7. r[c].s \in [Slots -> SlotValues] /\ \A j \in Slots :
          r[c].s[j] = IF j = i THEN slot ELSE ch[c].s[j]
  BY <1>1, <1>2, <1>6
<1>8. Alive(r[c]) = IF died THEN Alive(ch[c]) \ {i} ELSE Alive(ch[c])
  BY <1>4, <1>6, <1>7 DEF Alive
<1>9. count = Cardinality(Alive(r[c])) /\ count \in 0 .. ChunkSlots /\ (count = 0 <=> Alive(r[c]) = {})
  <2>1. ch[c].live = Cardinality(Alive(ch[c]))
    BY <1>4 DEF Placed
  <2>2. Cardinality(Alive(r[c])) = IF died THEN Cardinality(Alive(ch[c])) - 1 ELSE Cardinality(Alive(ch[c]))
    BY <1>4, <1>8, AliveIsFinite, FS_RemoveElement
  <2>3. count = Cardinality(Alive(r[c]))
    BY <2>1, <2>2
  <2>. QED BY <2>3, AliveIsFinite
<1>10. r \in [Chunks -> ChunkValues]
  <2>1. r[c] \in ChunkValues
    BY <1>1, <1>2, <1>7, <1>9 DEF ChunkValues
  <2>2. \A x \in Chunks : r[x] \in ChunkValues
    BY <1>1, <2>1
  <2>. QED BY <1>1, <2>2
<1>11. LiveChunks(r) = IF died /\ r[c].live = 0 THEN LiveChunks(ch) \ {c} ELSE LiveChunks(ch)
  <2>1. ~died => Alive(r[c]) # {}
    BY <1>4, <1>8
  <2>2. Alive(r[c]) = {} <=> died /\ r[c].live = 0
    BY <1>1, <1>9, <2>1
  <2>3. \A x \in Chunks : x # c => Alive(r[x]) = Alive(ch[x])
    BY <1>1
  <2> HIDE DEF count, died
  <2>. QED BY <1>4, <2>2, <2>3 DEF LiveChunks
<1>12. /\ DOMAIN lc2 = IF died THEN DOMAIN lc \ {id} ELSE DOMAIN lc
       /\ \A x \in DOMAIN lc2 : x \in DOMAIN lc /\ lc2[x] = lc[x] /\ ~(died /\ lc[x] = place)
  <2>1. \A x \in DOMAIN lc : lc[x] = place => x = id
    BY DEF Placed, old
  <2>2. DOMAIN lc2 = {y \in DOMAIN lc : ~(died /\ lc[y] = place)}
    BY DEF WithoutPlace
  <2>3. \A x \in DOMAIN lc2 : lc2[x] = lc[x]
    BY DEF WithoutPlace
  <2> HIDE DEF lc2, died
  <2>. QED BY <1>5, <2>1, <2>2, <2>3
<1> HIDE DEF lc2, died
<1>13. ASSUME NEW x \in DOMAIN lc, x # id
       PROVE  lc[x] \in Places /\ lc[x] # place /\ SlotAt(r, lc[x]) = SlotAt(ch, lc[x])
  <2> DEFINE d == lc[x].chunk
             j == lc[x].slot
  <2>1. lc[x] \in Places /\ lc[x] # place
    BY <1>13 DEF Placed, old
  <2>2. d \in Chunks /\ j \in Slots /\ (d = c => j # i)
    <3>1. lc[x] = [chunk |-> d, slot |-> j] /\ d \in Chunks /\ j \in Slots
      BY <2>1 DEF Places
    <3>. QED BY <1>2, <2>1, <3>1
  <2> HIDE DEF d, j
  <2>3. r[d].s[j] = ch[d].s[j]
    BY <1>1, <1>7, <2>2
  <2>. QED BY <2>1, <2>3 DEF SlotAt, d, j
<1>14. ~died => SlotAt(r, place) = slot
  BY <1>2, <1>7 DEF SlotAt
<1>15. ASSUME NEW x \in DOMAIN lc2
       PROVE  lc2[x] \in Places /\ SlotAt(r, lc2[x]).id = x /\ SlotAt(r, lc2[x]).qty # 0
  <2>1. CASE x = id
    <3>1. ~died /\ lc2[x] = place
      BY <1>5, <1>12, <2>1
    <3>. QED BY <1>6, <1>14, <2>1, <3>1
  <2>2. CASE x # id
    <3>1. x \in DOMAIN lc /\ lc2[x] = lc[x]
      BY <1>12
    <3>2. SlotAt(ch, lc[x]).id = x /\ SlotAt(ch, lc[x]).qty # 0
      BY <3>1 DEF Placed
    <3>. QED BY <1>13, <2>2, <3>1, <3>2
  <2>. QED BY <2>1, <2>2
<1>16. ASSUME NEW x \in Chunks, NEW j \in Alive(r[x])
       PROVE  /\ r[x].head <= j /\ j < r[x].tail
              /\ r[x].s[j].id \in DOMAIN lc2 /\ lc2[r[x].s[j].id] = [chunk |-> x, slot |-> j]
  <2>1. j \in Alive(ch[x]) /\ r[x].head = ch[x].head /\ r[x].tail = ch[x].tail
    BY <1>1, <1>8
  <2>2. /\ ch[x].head <= j /\ j < ch[x].tail
        /\ ch[x].s[j].id \in DOMAIN lc /\ lc[ch[x].s[j].id] = [chunk |-> x, slot |-> j]
    BY <2>1 DEF Placed
  <2>3. CASE x = c /\ j = i
    <3>1. ~died
      BY <1>8, <2>3
    <3>2. r[x].s[j] = slot
      BY <1>2, <1>7, <2>3
    <3>. QED BY <1>2, <1>5, <1>6, <1>12, <2>1, <2>2, <2>3, <3>1, <3>2
  <2>4. CASE ~(x = c /\ j = i)
    <3>1. r[x].s[j] = ch[x].s[j]
      BY <1>1, <1>7, <2>1, <2>4 DEF Alive
    <3>2. [chunk |-> x, slot |-> j] # place
      BY <1>2, <2>4
    <3>3. ch[x].s[j].id # id
      BY <1>5, <2>2, <3>2
    <3>4. ch[x].s[j].id \in DOMAIN lc2
      BY <1>12, <2>2, <3>3
    <3>. QED BY <1>12, <2>1, <2>2, <3>1, <3>4
  <2>. QED BY <2>3, <2>4
<1>17. ASSUME NEW x \in LiveChunks(r) PROVE r[x].live = Cardinality(Alive(r[x]))
  <2>1. CASE x = c
    BY <1>1, <1>9, <2>1
  <2>2. CASE x # c
    <3>1. x \in Chunks /\ r[x] = ch[x] /\ x \in LiveChunks(ch)
      BY <1>1, <2>2 DEF LiveChunks
    <3>. QED BY <3>1 DEF Placed
  <2>. QED BY <2>1, <2>2
<1>18. Placed(r, lc2)
  BY <1>15, <1>16, <1>17 DEF Placed
<1>19. \A x \in DOMAIN lc2 \ {id} : SlotAt(r, lc[x]) = SlotAt(ch, lc[x])
  BY <1>12, <1>13
<1>20. ~died => SlotAt(r, place).qty = left
  BY <1>6, <1>14
<1>21. \A x \in Chunks : SameLinks(r, ch, x)
  BY <1>1 DEF SameLinks
<1>. QED BY <1>4, <1>5, <1>10, <1>11, <1>12, <1>18, <1>19, <1>20, <1>21 DEF r, lc2, died, left, old

-----------------------------------------------------------------------------
(* Totals *)

\* The sum of the quantities of the orders of level m.
Total(ch, lc, m) ==
    SumFunctionOnSet([id \in DOMAIN lc |-> SlotAt(ch, lc[id]).qty],
                     {id \in DOMAIN lc : ch[lc[id].chunk].level = m})

\* From ch and lc to ch2 and lc2 no order but x changes, and x, of level l, by n.
Moves(ch, lc, ch2, lc2, x, l, n) ==
    /\ IsFiniteSet(DOMAIN lc) /\ n \in Int
    /\ \A id \in DOMAIN lc : SlotAt(ch, lc[id]).qty \in Int
    /\ \A id \in DOMAIN lc2 : SlotAt(ch2, lc2[id]).qty \in Int
    /\ DOMAIN lc2 \ {x} = DOMAIN lc \ {x}
    /\ \A id \in DOMAIN lc \ {x} : /\ SlotAt(ch2, lc2[id]).qty = SlotAt(ch, lc[id]).qty
                                   /\ ch2[lc2[id].chunk].level = ch[lc[id].chunk].level
    /\ x \in DOMAIN lc => ch[lc[x].chunk].level = l
    /\ x \in DOMAIN lc2 => ch2[lc2[x].chunk].level = l
    /\ n = (IF x \in DOMAIN lc2 THEN SlotAt(ch2, lc2[x]).qty ELSE 0)
             - (IF x \in DOMAIN lc THEN SlotAt(ch, lc[x]).qty ELSE 0)

LEMMA TotalsMove ==
    ASSUME NEW ch, NEW lc, NEW ch2, NEW lc2, NEW x, NEW l, NEW n,
           Moves(ch, lc, ch2, lc2, x, l, n), NEW m
    PROVE  /\ Total(ch2, lc2, m) = Total(ch, lc, m) + (IF m = l THEN n ELSE 0)
           /\ Total(ch, lc, m) \in Int
<1> DEFINE f == [id \in DOMAIN lc |-> SlotAt(ch, lc[id]).qty]
           g == [id \in DOMAIN lc2 |-> SlotAt(ch2, lc2[id]).qty]
           S == {id \in DOMAIN lc : ch[lc[id].chunk].level = m}
           R == {id \in DOMAIN lc2 : ch2[lc2[id].chunk].level = m}
           new == IF x \in R THEN g[x] ELSE 0
           old == IF x \in S THEN f[x] ELSE 0
<1>1. IsFiniteSet(S) /\ R \ {x} = S \ {x}
  BY FS_Subset DEF Moves
<1>2. /\ \A y \in S : f[y] \in Int
      /\ \A y \in R : g[y] \in Int
  BY DEF Moves
<1>3. \A y \in S \ {x} : g[y] = f[y]
  BY DEF Moves
<1>4. new - old = IF m = l THEN n ELSE 0
  <2>1. x \in DOMAIN lc => f[x] = SlotAt(ch, lc[x]).qty
    OBVIOUS
  <2>2. x \in DOMAIN lc2 => g[x] = SlotAt(ch2, lc2[x]).qty
    OBVIOUS
  <2> HIDE DEF f, g
  <2>3. CASE m = l
    BY <2>1, <2>2, <2>3 DEF Moves
  <2>4. CASE m # l
    BY <2>4 DEF Moves
  <2>. QED BY <2>3, <2>4
<1>5. Total(ch, lc, m) = SumFunctionOnSet(f, S) /\ Total(ch2, lc2, m) = SumFunctionOnSet(g, R)
  BY DEF Total
<1> HIDE DEF f, g, S, R
<1>6. /\ SumFunctionOnSet(g, R) = SumFunctionOnSet(f, S) + (new - old)
      /\ SumFunctionOnSet(f, S) \in Int
  BY <1>1, <1>2, <1>3, SumChange
<1>. QED BY <1>4, <1>5, <1>6

TotalsAre(ch, lc, lv) == \A m \in Levels : lv[m].total = Total(ch, lc, m) % QtyMod

\* The running totals follow when the one of level l takes the change.
LEMMA TotalsFollow ==
    ASSUME NEW ch, NEW lc, NEW ch2, NEW lc2, NEW x, NEW l, NEW n,
           Moves(ch, lc, ch2, lc2, x, l, n), NEW lv, NEW lv2, TotalsAre(ch, lc, lv),
           \A m \in Levels : lv2[m].total = IF m = l THEN (lv[m].total + n) % QtyMod
                                            ELSE lv[m].total
    PROVE  TotalsAre(ch2, lc2, lv2)
<1>1. QtyMod \in Nat \ {0} /\ n \in Int
  BY QtyModAssumption DEF Moves
<1>2. ASSUME NEW m \in Levels PROVE lv2[m].total = Total(ch2, lc2, m) % QtyMod
  <2>1. /\ Total(ch2, lc2, m) = Total(ch, lc, m) + (IF m = l THEN n ELSE 0)
        /\ Total(ch, lc, m) \in Int
    BY TotalsMove
  <2>2. lv[m].total = Total(ch, lc, m) % QtyMod
    BY DEF TotalsAre
  <2>3. CASE m = l
    <3>1. ((Total(ch, lc, m) % QtyMod) + n) % QtyMod = (Total(ch, lc, m) + n) % QtyMod
      BY <1>1, <2>1, ModPlus
    <3>. QED BY <2>1, <2>2, <2>3, <3>1
  <2>4. CASE m # l
    BY <2>1, <2>2, <2>4
  <2>. QED BY <2>3, <2>4
<1>. QED BY <1>2 DEF TotalsAre

\* They stay when no quantity and no level of an order changes.
LEMMA TotalsStay ==
    ASSUME NEW ch, NEW lc, NEW ch2, NEW lv, NEW lv2, TotalsAre(ch, lc, lv),
           \A id \in DOMAIN lc : /\ SlotAt(ch2, lc[id]) = SlotAt(ch, lc[id])
                                 /\ ch2[lc[id].chunk].level = ch[lc[id].chunk].level,
           \A m \in Levels : lv2[m].total = lv[m].total
    PROVE  TotalsAre(ch2, lc, lv2)
<1>1. ASSUME NEW m \in Levels PROVE Total(ch2, lc, m) = Total(ch, lc, m)
  <2>1. [id \in DOMAIN lc |-> SlotAt(ch2, lc[id]).qty] = [id \in DOMAIN lc |-> SlotAt(ch, lc[id]).qty]
    OBVIOUS
  <2>2. {id \in DOMAIN lc : ch2[lc[id].chunk].level = m} = {id \in DOMAIN lc : ch[lc[id].chunk].level = m}
    OBVIOUS
  <2>. QED BY <2>1, <2>2 DEF Total
<1>. QED BY <1>1 DEF TotalsAre

-----------------------------------------------------------------------------
(* Room *)

\* Every chunk with a live order has one of its own, so there are no more of them.
LEMMA ChunksWithinOrders ==
    ASSUME NEW ch, NEW lc, Placed(ch, lc), IsFiniteSet(DOMAIN lc)
    PROVE  /\ IsFiniteSet(LiveChunks(ch)) /\ Cardinality(LiveChunks(ch)) \in Nat
           /\ Cardinality(LiveChunks(ch)) <= Cardinality(DOMAIN lc)
           /\ Cardinality(DOMAIN lc) \in Nat
<1> DEFINE slot(c) == CHOOSE i \in Alive(ch[c]) : TRUE
           owner(c) == ch[c].s[slot(c)].id
           f == [c \in LiveChunks(ch) |-> owner(c)]
<1>1. \A c \in LiveChunks(ch) : slot(c) \in Alive(ch[c])
  BY DEF LiveChunks
<1> HIDE DEF slot
<1>2. ASSUME NEW c \in LiveChunks(ch) PROVE owner(c) \in DOMAIN lc /\ lc[owner(c)].chunk = c
  <2>1. c \in Chunks /\ slot(c) \in Alive(ch[c])
    BY <1>1 DEF LiveChunks
  <2>2. owner(c) \in DOMAIN lc /\ lc[owner(c)] = [chunk |-> c, slot |-> slot(c)]
    BY <2>1 DEF Placed
  <2> HIDE DEF owner
  <2>. QED BY <2>2
<1> HIDE DEF owner
<1>3. f \in Injection(LiveChunks(ch), DOMAIN lc)
  BY <1>2 DEF Injection, IsInjective
<1>4. IsFiniteSet(LiveChunks(ch))
  BY ChunksFacts, FS_Subset DEF LiveChunks
<1> HIDE DEF f
<1>. QED BY <1>3, <1>4, FS_Injection, FS_CardinalityType

\* So a chunk is left to hand out while an order may still rest.
LEMMA RoomLeft ==
    ASSUME NEW ch, NEW lv, NEW fr, NEW us \in 0 .. Cap, NEW lc,
           Linked(ch, lv, fr, us, LiveChunks(ch)), Placed(ch, lc), IsFiniteSet(DOMAIN lc),
           Cardinality(DOMAIN lc) < MaxOrders
    PROVE  /\ fr = NIL => us < Cap /\ us \in Chunks /\ us \notin LiveChunks(ch)
           /\ fr # NIL => fr \in Chunks /\ fr \notin LiveChunks(ch)
<1>1. PICK Q, F : Lists(ch, lv, fr, us, LiveChunks(ch), Q, F)
  BY DEF Linked
<1>2. CASE F = <<>>
  <2>1. fr = NIL /\ Len(F) = 0
    BY <1>1, <1>2 DEF Lists, IsChain
  <2>2. \A c \in LiveChunks(ch) : c \in Nat /\ c < us
    BY <1>1, ChunksFacts DEF Lists
  <2>3. \A c \in 0 .. (us - 1) : c \in LiveChunks(ch)
    <3>1. 0 .. (us - 1) \subseteq Chunks /\ \A c \in 0 .. (us - 1) : c < us
      BY ChunksFacts DEF Chunks
    <3>. QED BY <1>1, <2>1, <3>1 DEF Lists
  <2>4. LiveChunks(ch) = 0 .. (us - 1)
    <3>1. \A c \in Nat : c < us => c \in 0 .. (us - 1)
      OBVIOUS
    <3>2. \A c \in LiveChunks(ch) : c \in 0 .. (us - 1)
      BY <2>2, <3>1
    <3>. QED BY <2>3, <3>2
  <2>5. Cardinality(0 .. (us - 1)) = us
    <3>1. Cardinality(0 .. (us - 1)) = IF 0 > us - 1 THEN 0 ELSE us - 1 - 0 + 1
      BY FS_Interval
    <3>. QED BY <3>1
  <2>6. us <= Cardinality(DOMAIN lc) /\ Cardinality(DOMAIN lc) \in Nat
    BY <2>4, <2>5, ChunksWithinOrders
  <2>7. us < Cap
    <3> DEFINE n == Cardinality(DOMAIN lc)
    <3>1. n \in Nat /\ us <= n /\ n < MaxOrders
      BY <2>6
    <3> HIDE DEF n
    <3>. QED BY <3>1, ChunksFacts, MaxOrdersAssumption
  <2>8. us \in Chunks
    BY <2>7, ChunksFacts DEF Chunks
  <2>. QED BY <2>1, <2>2, <2>7, <2>8
<1>3. CASE F # <<>>
  <2>1. F \in Seq(Chunks) /\ fr = F[1] /\ Len(F) # 0 /\ Len(F) \in Nat
    BY <1>1, <1>3 DEF Lists, IsChain
  <2>2. 1 \in 1 .. Len(F) /\ fr \in Chunks
    BY <2>1
  <2>. QED BY <1>1, <2>1, <2>2, ChunksFacts DEF Lists
<1>. QED BY <1>2, <1>3

-----------------------------------------------------------------------------
(* The inductive invariant *)

\* What an order may still want; commands start with one of Qtys.
Quantities == 1 .. (QtyMod - 1)

\* Those are quantities, and a quantity is a number below the modulus.
LEMMA QuantitiesFacts ==
    Qtys \subseteq Quantities /\ \A q : q \in Quantities <=> q \in 1 .. (QtyMod - 1)
  BY QtysAssumption DEF Quantities

LevelValues == [head : Links, tail : Links, total : 0 .. (QtyMod - 1)]

\* The chunks that have a live order are those of the levels' lists, the locs lead to
\* the slots and the totals are the sums.  TotalsMatch and SlotsMatchLocs alone are not
\* inductive: that a push finds a chunk needs the free list, and that a dropped chunk
\* leaves its level whole needs the links of the others.
Good(ch, ln, us, fr, n, lv, lc) ==
    /\ ch \in [Chunks -> ChunkValues]
    /\ ln \in 0 .. Cap /\ us \in 0 .. Cap /\ us <= ln
    /\ fr \in Links
    /\ lv \in [Levels -> LevelValues]
    /\ lc = [id \in DOMAIN lc |-> lc[id]] /\ DOMAIN lc \subseteq OrderIds
    /\ IsFiniteSet(DOMAIN lc) /\ n = Cardinality(DOMAIN lc) /\ n <= MaxOrders
    /\ Linked(ch, lv, fr, us, LiveChunks(ch))
    /\ Placed(ch, lc)
    /\ TotalsAre(ch, lc, lv)

IInv == Good(chunk, len, used, freeChunk, live, lvl, loc)

\* Both ends of a level's list are chunks of that level with a live order.
LEMMA EndsFacts ==
    ASSUME NEW ch, NEW lv, NEW fr, NEW us, NEW U, Linked(ch, lv, fr, us, U), NEW l \in Levels
    PROVE  /\ lv[l].tail # NIL => lv[l].tail \in U /\ ch[lv[l].tail].level = l
           /\ lv[l].head # NIL => lv[l].head \in U /\ ch[lv[l].head].level = l
           /\ \A c \in U : c \in Chunks /\ c < us /\ ch[c].level \in Levels
<1>1. PICK Q, F : Lists(ch, lv, fr, us, U, Q, F)
  BY DEF Linked
<1> DEFINE q == Q[l]
<1>2. q \in Seq(Chunks) /\ Len(q) \in Nat /\ IsLevelList(ch, lv[l], l, q)
      /\ \A i \in 1 .. Len(q) : q[i] \in U /\ ch[q[i]].level = l
  BY <1>1 DEF Lists, IsLevelList
<1>3. q # <<>> => 1 \in 1 .. Len(q) /\ Len(q) \in 1 .. Len(q)
  BY <1>2
<1> HIDE DEF q
<1>4. /\ lv[l].tail # NIL => lv[l].tail \in U /\ ch[lv[l].tail].level = l
      /\ lv[l].head # NIL => lv[l].head \in U /\ ch[lv[l].head].level = l
  BY <1>2, <1>3 DEF IsLevelList, IsChain
<1>. QED BY <1>1, <1>4 DEF Lists

-----------------------------------------------------------------------------
(* Push *)

\* The chunk an order is pushed to, in the array where it is linked in, is the last
\* one of its level, has a free slot at its tail and is typed.
ReadyFor(ch, lv2, fr2, us2, c, l) ==
    /\ ch \in [Chunks -> ChunkValues] /\ c \in Chunks
    /\ Placed(ch, loc) /\ LiveChunks(ch) = LiveChunks(chunk)
    /\ \A x \in Chunks : ch[x].s = chunk[x].s
    /\ \A x \in LiveChunks(chunk) : ch[x].level = chunk[x].level
    /\ ch[c].level = l
    /\ ch[c].tail \in Slots /\ ch[c].head <= ch[c].tail /\ ch[c].tail \notin Alive(ch[c])
    /\ ch[c].live = Cardinality(Alive(ch[c]))
    /\ fr2 \in Links /\ us2 \in 0 .. Cap
    /\ \A Q, F : Lists(chunk, lvl, freeChunk, used, LiveChunks(chunk), Q, F) =>
           \E R, G : /\ Lists(ch, lv2, fr2, us2, LiveChunks(chunk) \cup {c}, R, G)
                     /\ Grown(Q, R, l, c)

\* Level l ends at a fresh chunk.
FreshEnds(lv2, l) ==
    \A m \in Levels :
        /\ lv2[m].head = IF m = l /\ lvl[l].tail = NIL THEN NextChunk ELSE lvl[m].head
        /\ lv2[m].tail = IF m = l THEN NextChunk ELSE lvl[m].tail

\* A fresh chunk is.
LEMMA FreshReady ==
    ASSUME IInv, live < MaxOrders, NEW l \in Levels, NEW lv2, FreshEnds(lv2, l)
    PROVE  ReadyFor(Appended(l, lvl[l].tail), lv2,
                    IF freeChunk # NIL THEN chunk[freeChunk].next ELSE freeChunk,
                    IF freeChunk = NIL THEN used + 1 ELSE used, NextChunk, l)
<1> DEFINE last == lvl[l].tail
           ch == Appended(l, last)
           c == NextChunk
           fr2 == IF freeChunk # NIL THEN chunk[freeChunk].next ELSE freeChunk
           us2 == IF freeChunk = NIL THEN used + 1 ELSE used
           U == LiveChunks(chunk)
<1>1. /\ chunk \in [Chunks -> ChunkValues] /\ freeChunk \in Links /\ used \in 0 .. Cap
      /\ Linked(chunk, lvl, freeChunk, used, U) /\ Placed(chunk, loc)
      /\ IsFiniteSet(DOMAIN loc) /\ Cardinality(DOMAIN loc) < MaxOrders
      /\ last \in Links
  BY DEF IInv, Good, LevelValues
<1>2. /\ freeChunk = NIL => used < Cap /\ used \in Chunks /\ used \notin U
      /\ freeChunk # NIL => freeChunk \in Chunks /\ freeChunk \notin U
  BY <1>1, RoomLeft
<1>3. c \in Chunks /\ c \notin U /\ c # NIL
  BY <1>2, ChunksFacts DEF NextChunk
<1>4. last # NIL => last \in U
  BY <1>1, EndsFacts
<1>5. last # c
  BY <1>3, <1>4
<1>6. c = (IF freeChunk # NIL THEN freeChunk ELSE used) /\ chunk[c] \in ChunkValues
  BY <1>1, <1>3 DEF NextChunk
<1> DEFINE fresh == [chunk[c] EXCEPT !.level = l, !.prev = last, !.next = NIL,
                                     !.head = 0, !.tail = 0, !.live = 0]
<1>7. /\ ch = [x \in Chunks |-> ch[x]]
      /\ ch[c] = fresh
      /\ \A x \in Chunks : x # c /\ x = last => ch[x] = [chunk[x] EXCEPT !.next = c]
      /\ \A x \in Chunks : x # c /\ x # last => ch[x] = chunk[x]
  <2> HIDE DEF fresh, last
  <2>1. ch = [x \in Chunks |-> IF x = c THEN fresh
                               ELSE IF x = last THEN [chunk[x] EXCEPT !.next = c]
                               ELSE chunk[x]]
    BY DEF Appended, fresh
  <2> HIDE DEF ch, c
  <2>. QED BY <1>3, <2>1
<1>8. /\ fresh \in ChunkValues
      /\ fresh.level = l /\ fresh.prev = last /\ fresh.next = NIL
      /\ fresh.head = 0 /\ fresh.tail = 0 /\ fresh.live = 0 /\ fresh.s = chunk[c].s
  <2>1. 0 \in Slots /\ 0 \in 0 .. ChunkSlots
    BY SlotsFacts
  <2> HIDE DEF last
  <2>. QED BY <1>1, <1>6, <2>1 DEF ChunkValues, Links
<1> HIDE DEF ch, c, fresh, last, fr2, us2
<1>9. ASSUME NEW x \in Chunks, x # c
      PROVE  /\ ch[x] \in ChunkValues
             /\ ch[x].level = chunk[x].level /\ ch[x].prev = chunk[x].prev
             /\ ch[x].next = IF x = last THEN c ELSE chunk[x].next
             /\ ch[x].head = chunk[x].head /\ ch[x].tail = chunk[x].tail
             /\ ch[x].live = chunk[x].live /\ ch[x].s = chunk[x].s
  <2>1. chunk[x] \in ChunkValues
    BY <1>1
  <2>. QED BY <1>3, <1>7, <1>9, <2>1 DEF ChunkValues, Links
<1>10. ch \in [Chunks -> ChunkValues]
  BY <1>7, <1>8, <1>9
<1>11. \A x \in Chunks : ch[x].s = chunk[x].s
  BY <1>7, <1>8, <1>9
<1>12. Placed(ch, loc) /\ LiveChunks(ch) = U
  <2>1. \A x \in U : /\ ch[x].head = chunk[x].head /\ ch[x].tail = chunk[x].tail
                     /\ ch[x].live = chunk[x].live
    BY <1>3, <1>9 DEF LiveChunks
  <2>. QED BY <1>1, <1>11, <2>1, PlacedKept
<1>13. Alive(ch[c]) = {} /\ Cardinality(Alive(ch[c])) = 0
  BY <1>3, <1>12, AliveIsFinite DEF LiveChunks
<1>14. TakesIn(ch, chunk, lv2, lvl, l, c)
  <2>1. ASSUME NEW x \in Chunks
        PROVE  /\ ch[x].next = IF x = c THEN NIL ELSE IF x = last THEN c ELSE chunk[x].next
               /\ ch[x].prev = IF x = c THEN last ELSE chunk[x].prev
               /\ ch[x].level = IF x = c THEN l ELSE chunk[x].level
    <3>1. CASE x = c
      BY <1>7, <1>8, <3>1
    <3>2. CASE x # c
      BY <1>9, <3>2
    <3>. QED BY <3>1, <3>2
  <2>2. ASSUME NEW m \in Levels
        PROVE  /\ lv2[m].head = IF m = l /\ last = NIL THEN c ELSE lvl[m].head
               /\ lv2[m].tail = IF m = l THEN c ELSE lvl[m].tail
    BY DEF FreshEnds, c, last
  <2>. QED BY <2>1, <2>2 DEF TakesIn, last
<1>15. ASSUME NEW Q, NEW F, Lists(chunk, lvl, freeChunk, used, U, Q, F)
       PROVE  \E R, G : Lists(ch, lv2, fr2, us2, U \cup {c}, R, G) /\ Grown(Q, R, l, c)
  <2>1. used \in Nat
    BY <1>1, ChunksFacts
  <2>2. c = Taken(freeChunk, used)
    BY <1>6 DEF Taken
  <2> DEFINE R == [Q EXCEPT ![l] = Append(Q[l], c)]
  <2> HIDE DEF U
  <2>3. \E G : Lists(ch, lv2, FreeAfter(chunk, freeChunk), UsedAfter(freeChunk, used),
                    U \cup {c}, R, G)
    BY <1>3, <1>14, <1>15, <2>1, <2>2, ListsIn
  <2>4. Grown(Q, R, l, c)
    BY DEF Grown
  <2> HIDE DEF R
  <2>. QED BY <2>3, <2>4 DEF fr2, us2, FreeAfter, UsedAfter
<1>16. fr2 \in Links /\ us2 \in 0 .. Cap
  <2>1. freeChunk # NIL => chunk[freeChunk].next \in Links
    BY <1>1 DEF ChunkValues, Links
  <2>2. freeChunk = NIL => used + 1 \in 0 .. Cap
    BY <1>1, <1>2, ChunksFacts
  <2>. QED BY <1>1, <2>1, <2>2 DEF fr2, us2
<1>17. \A x \in U : ch[x].level = chunk[x].level
  BY <1>3, <1>9 DEF LiveChunks
<1>18. ch[c].tail \in Slots /\ ch[c].head <= ch[c].tail /\ ch[c].level = l /\ ch[c].live = 0
  BY <1>7, <1>8, SlotsFacts
<1>. QED BY <1>3, <1>10, <1>11, <1>12, <1>13, <1>15, <1>16, <1>17, <1>18 DEF ReadyFor, ch, c, fr2, us2, last

\* A level's last chunk with room is.
LEMMA LastReady ==
    ASSUME IInv, NEW l \in Levels, lvl[l].tail # NIL, chunk[lvl[l].tail].tail # ChunkSlots,
           NEW lv2, SameEnds(lv2, lvl)
    PROVE  ReadyFor(chunk, lv2, freeChunk, used, lvl[l].tail, l)
<1> DEFINE c == lvl[l].tail
           U == LiveChunks(chunk)
<1>1. /\ chunk \in [Chunks -> ChunkValues] /\ freeChunk \in Links /\ used \in 0 .. Cap
      /\ Linked(chunk, lvl, freeChunk, used, U) /\ Placed(chunk, loc)
  BY DEF IInv, Good
<1>2. c \in U /\ chunk[c].level = l
  BY <1>1, EndsFacts
<1>3. c \in Chunks /\ chunk[c] \in ChunkValues /\ U \cup {c} = U
  BY <1>1, <1>2 DEF LiveChunks
<1> HIDE DEF c
<1>4. PICK i \in Alive(chunk[c]) : TRUE
  BY <1>2 DEF LiveChunks
<1>5. \A j \in Alive(chunk[c]) : chunk[c].head <= j /\ j < chunk[c].tail
  BY <1>1, <1>3 DEF Placed
<1>6. chunk[c].head \in Slots /\ chunk[c].tail \in 0 .. ChunkSlots
  BY <1>3 DEF ChunkValues
<1>7. chunk[c].tail \in Slots /\ chunk[c].head <= chunk[c].tail /\ chunk[c].tail \notin Alive(chunk[c])
  <2> DEFINE h == chunk[c].head
             t == chunk[c].tail
  <2>1. h \in Slots /\ t \in 0 .. ChunkSlots /\ t # ChunkSlots
    BY <1>6 DEF c
  <2>2. i \in Slots /\ h <= i /\ i < t
    BY <1>4, <1>5 DEF Alive
  <2>3. t \notin Alive(chunk[c])
    <3>1. ~(t < t)
      BY <2>1, SlotsFacts
    <3>. QED BY <1>5, <3>1
  <2> HIDE DEF h, t
  <2>4. t \in Slots /\ h <= t
    BY <2>1, <2>2, SlotsFacts DEF Slots
  <2>. QED BY <2>3, <2>4 DEF h, t
<1>8. chunk[c].live = Cardinality(Alive(chunk[c]))
  BY <1>1, <1>2 DEF Placed, c
<1>9. ASSUME NEW Q, NEW F, Lists(chunk, lvl, freeChunk, used, U, Q, F)
      PROVE  Lists(chunk, lv2, freeChunk, used, U, Q, F) /\ Grown(Q, Q, l, c)
  BY <1>9, ListsKept DEF SameLinks, Grown
<1>. QED BY <1>1, <1>2, <1>3, <1>7, <1>8, <1>9 DEF ReadyFor, c

\* A loc leads to a chunk that has a live order.
LEMMA LocFacts ==
    ASSUME NEW ch \in [Chunks -> ChunkValues], NEW lc, Placed(ch, lc), NEW id \in DOMAIN lc
    PROVE  /\ lc[id] \in Places /\ lc[id].chunk \in LiveChunks(ch)
           /\ SlotAt(ch, lc[id]).qty \in 1 .. (QtyMod - 1)
<1> DEFINE c == lc[id].chunk
           i == lc[id].slot
<1>1. lc[id] \in Places /\ SlotAt(ch, lc[id]).qty # 0
  BY DEF Placed
<1>2. c \in Chunks /\ i \in Slots
  BY <1>1 DEF Places
<1> HIDE DEF c, i
<1>3. ch[c].s[i] \in SlotValues
  BY <1>2 DEF ChunkValues
<1>4. ch[c].s[i].qty # 0
  BY <1>1 DEF SlotAt, c, i
<1>5. ch[c].s[i].qty \in 1 .. (QtyMod - 1)
  <2> DEFINE qty == ch[c].s[i].qty
  <2>1. qty \in 0 .. (QtyMod - 1) /\ qty # 0
    BY <1>3, <1>4, SlotsFacts
  <2> HIDE DEF qty
  <2>2. qty \in 1 .. (QtyMod - 1)
    BY <2>1, SlotsFacts
  <2>. QED BY <2>2 DEF qty
<1>6. c \in LiveChunks(ch)
  BY <1>2, <1>4 DEF LiveChunks, Alive
<1>. QED BY <1>1, <1>5, <1>6 DEF SlotAt, c, i

\* An order has joined the last chunk of level l, behind what that holds; the others
\* are where they were.
Joins(l, id, qty) ==
    /\ id \notin DOMAIN loc /\ DOMAIN loc' = DOMAIN loc \cup {id}
    /\ \A x \in DOMAIN loc : /\ loc'[x] = loc[x]
                              /\ SlotAt(chunk', loc[x]).qty = SlotAt(chunk, loc[x]).qty
                              /\ chunk'[loc[x].chunk].level = chunk[loc[x].chunk].level
    /\ loc'[id].chunk = lvl'[l].tail /\ chunk'[loc'[id].chunk].level = l
    /\ loc'[id].chunk \in Chunks /\ chunk'[loc'[id].chunk].tail = loc'[id].slot + 1
    /\ SlotAt(chunk', loc'[id]).qty = qty
    /\ \A Q, F : Lists(chunk, lvl, freeChunk, used, LiveChunks(chunk), Q, F) =>
           \E R, G : /\ Lists(chunk', lvl', freeChunk', used', LiveChunks(chunk'), R, G)
                     /\ Grown(Q, R, l, loc'[id].chunk)

LEMMA PushInv ==
    ASSUME IInv, NEW l \in Levels, NEW id \in OrderIds, NEW qty \in Quantities, Push(l, id, qty)
    PROVE  IInv' /\ Joins(l, id, qty)
<1> DEFINE last == lvl[l].tail
           full == last = NIL \/ chunk[last].tail = ChunkSlots
           c == IF full THEN NextChunk ELSE last
           ch == IF full THEN Appended(l, last) ELSE chunk
           place == [chunk |-> c, slot |-> ch[c].tail]
           U == LiveChunks(chunk)
<1>1. /\ id \notin DOMAIN loc /\ live < MaxOrders
      /\ chunk' = Joined(ch, c, id, qty)
      /\ lvl' = [lvl EXCEPT ![l].head = IF last = NIL THEN c ELSE @,
                            ![l].tail = c,
                            ![l].total = TotalWith(l, qty)]
      /\ live' = live + 1
      /\ loc' = WithPlace(loc, id, place)
      /\ freeChunk' = IF full /\ freeChunk # NIL THEN chunk[freeChunk].next ELSE freeChunk
      /\ used' = IF full THEN UsedAfterAlloc ELSE used
      /\ len' = Max({len, used'})
  BY Zenon DEF Push, LiveOrders, Joined, WithPlace
<1>2. /\ chunk \in [Chunks -> ChunkValues] /\ lvl \in [Levels -> LevelValues]
      /\ len \in 0 .. Cap /\ used \in 0 .. Cap /\ used <= len
      /\ DOMAIN loc \subseteq OrderIds /\ IsFiniteSet(DOMAIN loc)
      /\ live = Cardinality(DOMAIN loc)
      /\ Placed(chunk, loc) /\ TotalsAre(chunk, loc, lvl)
      /\ qty \in 1 .. (QtyMod - 1) /\ QtyMod \in Nat \ {0} /\ qty \in Int
  BY QuantitiesFacts, QtyModAssumption DEF IInv, Good
<1> HIDE DEF last, full, c, ch, place, U
<1>3. \A m \in Levels :
          /\ lvl'[m].head = IF m = l /\ last = NIL THEN c ELSE lvl[m].head
          /\ lvl'[m].tail = IF m = l THEN c ELSE lvl[m].tail
          /\ lvl'[m].total = IF m = l THEN (lvl[m].total + qty) % QtyMod ELSE lvl[m].total
  BY <1>1, <1>2 DEF LevelValues, TotalWith
<1>4. ReadyFor(ch, lvl', freeChunk', used', c, l)
  <2>1. CASE full
    <3>1. /\ c = NextChunk /\ ch = Appended(l, lvl[l].tail)
          /\ freeChunk' = IF freeChunk # NIL THEN chunk[freeChunk].next ELSE freeChunk
          /\ used' = IF freeChunk = NIL THEN used + 1 ELSE used
      BY <1>1, <2>1 DEF c, ch, last, UsedAfterAlloc
    <3>2. FreshEnds(lvl', l)
      BY <1>3, <3>1 DEF FreshEnds, last
    <3>3. ReadyFor(Appended(l, lvl[l].tail), lvl',
                   IF freeChunk # NIL THEN chunk[freeChunk].next ELSE freeChunk,
                   IF freeChunk = NIL THEN used + 1 ELSE used, NextChunk, l)
      BY <1>1, <3>2, FreshReady
    <3>. QED BY <3>1, <3>3
  <2>2. CASE ~full
    <3>1. /\ c = lvl[l].tail /\ ch = chunk /\ freeChunk' = freeChunk /\ used' = used
          /\ lvl[l].tail # NIL /\ chunk[lvl[l].tail].tail # ChunkSlots
      BY <1>1, <2>2 DEF c, ch, last, full
    <3>2. SameEnds(lvl', lvl)
      BY <1>3, <3>1 DEF SameEnds, last
    <3>3. ReadyFor(chunk, lvl', freeChunk, used, lvl[l].tail, l)
      BY <3>1, <3>2, LastReady
    <3>. QED BY <3>1, <3>3
  <2>. QED BY <2>1, <2>2
<1>5. /\ ch \in [Chunks -> ChunkValues] /\ c \in Chunks
      /\ Placed(ch, loc) /\ LiveChunks(ch) = U
      /\ \A x \in Chunks : ch[x].s = chunk[x].s
      /\ \A x \in U : ch[x].level = chunk[x].level
      /\ ch[c].level = l
      /\ ch[c].tail \in Slots /\ ch[c].head <= ch[c].tail /\ ch[c].tail \notin Alive(ch[c])
      /\ ch[c].live = Cardinality(Alive(ch[c]))
      /\ freeChunk' \in Links /\ used' \in 0 .. Cap
      /\ \A Q, F : Lists(chunk, lvl, freeChunk, used, U, Q, F) =>
             \E R, G : Lists(ch, lvl', freeChunk', used', U \cup {c}, R, G) /\ Grown(Q, R, l, c)
  BY <1>4 DEF ReadyFor, U
<1>6. /\ chunk' \in [Chunks -> ChunkValues]
      /\ Placed(chunk', loc')
      /\ LiveChunks(chunk') = U \cup {c}
      /\ \A x \in Chunks : SameLinks(chunk', ch, x)
      /\ \A x \in DOMAIN loc : SlotAt(chunk', loc[x]) = SlotAt(ch, loc[x])
      /\ SlotAt(chunk', place).qty = qty
  BY <1>1, <1>2, <1>5, JoinedPlaced DEF place
<1>7. \A Q, F : Lists(chunk, lvl, freeChunk, used, U, Q, F) =>
          \E R, G : /\ Lists(chunk', lvl', freeChunk', used', LiveChunks(chunk'), R, G)
                    /\ Grown(Q, R, l, c)
  <2>1. SameEnds(lvl', lvl')
    BY DEF SameEnds
  <2>. QED BY <1>5, <1>6, <2>1, ListsKept
<1>7a. Linked(chunk', lvl', freeChunk', used', LiveChunks(chunk'))
  BY <1>7 DEF IInv, Good, Linked, U
<1>8. /\ DOMAIN loc' = DOMAIN loc \cup {id} /\ loc'[id] = place
      /\ \A x \in DOMAIN loc : loc'[x] = loc[x]
      /\ loc' = [x \in DOMAIN loc' |-> loc'[x]]
  BY <1>1 DEF WithPlace
<1>9. /\ DOMAIN loc' \subseteq OrderIds /\ IsFiniteSet(DOMAIN loc')
      /\ live' = Cardinality(DOMAIN loc') /\ live' <= MaxOrders
  <2>1. IsFiniteSet(DOMAIN loc') /\ Cardinality(DOMAIN loc') = Cardinality(DOMAIN loc) + 1
    BY <1>1, <1>2, <1>8, FS_AddElement
  <2>2. live \in Nat
    BY <1>2, FS_CardinalityType
  <2>. QED BY <1>1, <1>2, <1>8, <2>1, <2>2, MaxOrdersAssumption
<1>10a. ASSUME NEW x \in DOMAIN loc
        PROVE  /\ SlotAt(chunk', loc'[x]) = SlotAt(chunk, loc[x])
               /\ SlotAt(chunk, loc[x]).qty \in Int
               /\ chunk'[loc'[x].chunk].level = chunk[loc[x].chunk].level
  <2>1. loc[x] \in Places /\ loc[x].chunk \in U /\ SlotAt(chunk, loc[x]).qty \in Int
    BY <1>2, LocFacts DEF U
  <2>2. loc[x].chunk \in Chunks
    BY <2>1 DEF Places
  <2>. QED BY <1>5, <1>6, <1>8, <2>1, <2>2 DEF SlotAt, SameLinks
<1>10. TotalsAre(chunk', loc', lvl')
  <2>2. chunk'[place.chunk].level = l
    BY <1>5, <1>6 DEF place, SameLinks
  <2>3. Moves(chunk, loc, chunk', loc', id, l, qty)
    <3>1. \A x \in DOMAIN loc' : SlotAt(chunk', loc'[x]).qty \in Int
      BY <1>2, <1>6, <1>8, <1>10a
    <3>2. DOMAIN loc' \ {id} = DOMAIN loc \ {id} /\ id \notin DOMAIN loc /\ id \in DOMAIN loc'
      BY <1>1, <1>8
    <3>3. SlotAt(chunk', loc'[id]).qty = qty /\ chunk'[loc'[id].chunk].level = l
      BY <1>6, <1>8, <2>2
    <3>4. qty = qty - 0
      BY <1>2
    <3>. QED BY <1>2, <1>10a, <3>1, <3>2, <3>3, <3>4 DEF Moves
  <2>. QED BY <1>2, <1>3, <2>3, TotalsFollow
<1>11. len' \in 0 .. Cap /\ used' <= len'
  <2>1. /\ Max({len, used'}) = len \/ Max({len, used'}) = used'
        /\ used' <= Max({len, used'})
    <3>1. len \in Int /\ used' \in Int
      BY <1>2, <1>5, ChunksFacts
    <3>. QED BY <3>1, MaxOfTwo
  <2>. QED BY <1>1, <1>2, <1>5, <2>1
<1>12. lvl' \in [Levels -> LevelValues]
  <2>1. c \in Links
    BY <1>5 DEF Links
  <2>2. TotalWith(l, qty) \in 0 .. (QtyMod - 1)
    <3>1. lvl[l].total + qty \in Int
      BY <1>2 DEF LevelValues
    <3>. QED BY <1>2, <3>1, DivMod DEF TotalWith
  <2>3. ASSUME NEW m \in Levels, m # l PROVE lvl'[m] \in LevelValues
    <3>1. lvl'[m] = lvl[m]
      BY <1>1, <1>2, <2>3
    <3>. QED BY <1>2, <3>1
  <2>4. lvl'[l] \in LevelValues
    <3>1. lvl'[l] = [lvl[l] EXCEPT !.head = IF last = NIL THEN c ELSE lvl[l].head,
                                   !.tail = c, !.total = TotalWith(l, qty)]
      BY <1>1, <1>2
    <3>2. lvl[l] \in LevelValues
      BY <1>2
    <3>. QED BY <2>1, <2>2, <3>1, <3>2 DEF LevelValues
  <2>5. lvl' = [m \in Levels |-> lvl'[m]]
    BY <1>1, <1>2
  <2>. QED BY <2>3, <2>4, <2>5
<1>13. Good(chunk', len', used', freeChunk', live', lvl', loc')
  BY <1>5, <1>6, <1>7a, <1>8, <1>9, <1>10, <1>11, <1>12 DEF Good
<1>14. chunk'[c].tail = ch[c].tail + 1
  <2>1. IsJoined(chunk', ch, c, id, qty)
    BY <1>1, <1>5, JoinedFields
  <2>. QED BY <2>1 DEF IsJoined
<1>15. Joins(l, id, qty)
  <2>1. loc'[id].chunk = c /\ loc'[id].slot = ch[c].tail /\ lvl'[l].tail = c
    BY <1>3, <1>8 DEF place
  <2>2. /\ \A x \in DOMAIN loc : /\ loc'[x] = loc[x]
                                 /\ SlotAt(chunk', loc[x]).qty = SlotAt(chunk, loc[x]).qty
                                 /\ chunk'[loc[x].chunk].level = chunk[loc[x].chunk].level
    BY <1>8, <1>10a
  <2>3. /\ chunk'[c].level = l /\ SlotAt(chunk', loc'[id]).qty = qty
        /\ c \in Chunks /\ id \notin DOMAIN loc /\ DOMAIN loc' = DOMAIN loc \cup {id}
    BY <1>1, <1>5, <1>6, <1>8 DEF SameLinks
  <2>. QED BY <1>7, <1>14, <2>1, <2>2, <2>3 DEF Joins, U
<1>. QED BY <1>13, <1>15 DEF IInv

-----------------------------------------------------------------------------
(* Quantity that leaves *)

\* The array c is linked out in has the links LetsGo asks for.
LEMMA UnlinkedFields ==
    ASSUME NEW ch \in [Chunks -> ChunkValues], NEW c \in Chunks, freeChunk \in Links
    PROVE  /\ Unlinked(ch, c) \in [Chunks -> ChunkValues]
           /\ \A x \in Chunks :
                 /\ Unlinked(ch, c)[x].s = ch[x].s /\ Unlinked(ch, c)[x].head = ch[x].head
                 /\ Unlinked(ch, c)[x].tail = ch[x].tail /\ Unlinked(ch, c)[x].live = ch[x].live
                 /\ Unlinked(ch, c)[x].level = ch[x].level
                 /\ Unlinked(ch, c)[x].next = IF x = c THEN freeChunk
                                              ELSE IF x = ch[c].prev THEN ch[c].next
                                              ELSE ch[x].next
                 /\ x # c => Unlinked(ch, c)[x].prev =
                                 IF x # ch[c].prev /\ x = ch[c].next THEN ch[c].prev
                                 ELSE ch[x].prev
<1> DEFINE r == Unlinked(ch, c)
<1>1. ch[c].prev \in Links /\ ch[c].next \in Links
  BY DEF ChunkValues
<1>2. r = [x \in Chunks |-> r[x]]
  BY DEF Unlinked
<1>3. ASSUME NEW x \in Chunks
      PROVE  /\ r[x] \in ChunkValues
             /\ r[x].s = ch[x].s /\ r[x].head = ch[x].head
             /\ r[x].tail = ch[x].tail /\ r[x].live = ch[x].live /\ r[x].level = ch[x].level
             /\ r[x].next = IF x = c THEN freeChunk
                            ELSE IF x = ch[c].prev THEN ch[c].next ELSE ch[x].next
             /\ x # c => r[x].prev = IF x # ch[c].prev /\ x = ch[c].next THEN ch[c].prev
                                     ELSE ch[x].prev
  <2>1. r[x] = IF x = c THEN [ch[x] EXCEPT !.next = freeChunk]
               ELSE IF x = ch[c].prev THEN [ch[x] EXCEPT !.next = ch[c].next]
               ELSE IF x = ch[c].next THEN [ch[x] EXCEPT !.prev = ch[c].prev]
               ELSE ch[x]
    BY DEF Unlinked
  <2> HIDE DEF r
  <2>2. ch[x] \in ChunkValues
    OBVIOUS
  <2>3. CASE x = c
    BY <1>1, <2>1, <2>2, <2>3 DEF ChunkValues
  <2>4. CASE x # c /\ x = ch[c].prev
    BY <1>1, <2>1, <2>2, <2>4 DEF ChunkValues
  <2>5. CASE x # c /\ x # ch[c].prev /\ x = ch[c].next
    BY <1>1, <2>1, <2>2, <2>5 DEF ChunkValues
  <2>6. CASE x # c /\ x # ch[c].prev /\ x # ch[c].next
    BY <1>1, <2>1, <2>2, <2>6 DEF ChunkValues
  <2>. QED BY <2>3, <2>4, <2>5, <2>6
<1> HIDE DEF r
<1>4. r \in [Chunks -> ChunkValues]
  BY <1>2, <1>3
<1>. QED BY <1>3, <1>4 DEF r

\* Spend is told the array, the level and the place of a live order.
Spends(ch, l, place, n) ==
    /\ ch \in [Chunks -> ChunkValues] /\ Placed(ch, loc)
    /\ \A x \in Chunks : SameLinks(ch, chunk, x) /\ ch[x].s = chunk[x].s
    /\ place \in Places /\ SlotAt(ch, place).qty # 0
    /\ l = ch[place.chunk].level
    /\ n \in 1 .. SlotAt(ch, place).qty

\* An order of level l gives n.
Takes(l, n) == \E ch, place : Spends(ch, l, place, n) /\ Spend(ch, l, place, n)

\* Of the order at place n has gone, and the order with it if that was all; the others
\* are where they were.
Gives(l, place, n) ==
    LET id == SlotAt(chunk, place).id
        died == SlotAt(chunk, place).qty - n = 0
    IN  /\ id \in DOMAIN loc /\ loc[id] = place /\ chunk[place.chunk].level = l /\ l \in Levels
        /\ DOMAIN loc' = IF died THEN DOMAIN loc \ {id} ELSE DOMAIN loc
        /\ \A x \in DOMAIN loc' : /\ loc'[x] = loc[x]
                                   /\ chunk'[loc[x].chunk].level = chunk[loc[x].chunk].level
        /\ \A x \in DOMAIN loc \ {id} : SlotAt(chunk', loc[x]).qty = SlotAt(chunk, loc[x]).qty
        /\ ~died => SlotAt(chunk', place).qty = SlotAt(chunk, place).qty - n
        /\ \A Q, F : Lists(chunk, lvl, freeChunk, used, LiveChunks(chunk), Q, F) =>
               \E R, G : /\ Lists(chunk', lvl', freeChunk', used', LiveChunks(chunk'), R, G)
                         /\ Lessened(Q, R, l)

LEMMA SpendInv ==
    ASSUME IInv, NEW ch, NEW l, NEW place, NEW n, Spends(ch, l, place, n),
           Spend(ch, l, place, n)
    PROVE  IInv' /\ Gives(l, place, n)
<1> DEFINE U == LiveChunks(chunk)
           c == place.chunk
           id == SlotAt(ch, place).id
           left == SlotAt(ch, place).qty - n
           died == left = 0
           r == Spent(ch, place, n)
           drop == died /\ r[c].live = 0
           lv == [lvl[l] EXCEPT !.total = (@ - n) % QtyMod]
<1>1. /\ chunk \in [Chunks -> ChunkValues] /\ lvl \in [Levels -> LevelValues]
      /\ freeChunk \in Links
      /\ len \in 0 .. Cap /\ used \in 0 .. Cap /\ used <= len
      /\ DOMAIN loc \subseteq OrderIds /\ IsFiniteSet(DOMAIN loc)
      /\ live = Cardinality(DOMAIN loc) /\ live <= MaxOrders
      /\ Linked(chunk, lvl, freeChunk, used, U)
      /\ TotalsAre(chunk, loc, lvl) /\ QtyMod \in Nat \ {0}
  BY QtyModAssumption DEF IInv, Good
<1>2. /\ ch \in [Chunks -> ChunkValues] /\ Placed(ch, loc)
      /\ \A x \in Chunks : SameLinks(ch, chunk, x) /\ ch[x].s = chunk[x].s
      /\ place \in Places /\ SlotAt(ch, place).qty # 0
      /\ l = ch[c].level
      /\ n \in 1 .. SlotAt(ch, place).qty
  BY DEF Spends
<1>3. /\ chunk' = IF drop THEN Unlinked(r, c) ELSE r
      /\ lvl' = [lvl EXCEPT ![l] = IF drop THEN LevelWithout(lv, r, c) ELSE lv]
      /\ freeChunk' = IF drop THEN c ELSE freeChunk
      /\ live' = IF died THEN live - 1 ELSE live
      /\ loc' = WithoutPlace(loc, died, place)
      /\ len' = len /\ used' = used
  BY Zenon DEF Spend, Spent, SlotAt, WithoutPlace, LiveOrders
<1>4. U = LiveChunks(ch)
  BY <1>2 DEF LiveChunks, Alive
<1>5. /\ r \in [Chunks -> ChunkValues] /\ Placed(r, loc')
      /\ LiveChunks(r) = IF drop THEN U \ {c} ELSE U
      /\ id \in DOMAIN loc /\ loc[id] = place /\ c \in U
      /\ DOMAIN loc' = IF died THEN DOMAIN loc \ {id} ELSE DOMAIN loc
      /\ \A x \in DOMAIN loc' : loc'[x] = loc[x]
      /\ \A x \in DOMAIN loc' \ {id} : SlotAt(r, loc[x]) = SlotAt(ch, loc[x])
      /\ ~died => SlotAt(r, place).qty = left
      /\ \A x \in Chunks : SameLinks(r, ch, x)
  <2> DEFINE lc2 == WithoutPlace(loc, died, place)
  <2>1. /\ r \in [Chunks -> ChunkValues] /\ Placed(r, lc2)
        /\ LiveChunks(r) = IF died /\ r[c].live = 0 THEN LiveChunks(ch) \ {c} ELSE LiveChunks(ch)
        /\ id \in DOMAIN loc /\ loc[id] = place /\ c \in LiveChunks(ch)
        /\ DOMAIN lc2 = IF died THEN DOMAIN loc \ {id} ELSE DOMAIN loc
        /\ \A x \in DOMAIN lc2 : lc2[x] = loc[x]
        /\ \A x \in DOMAIN lc2 \ {id} : SlotAt(r, loc[x]) = SlotAt(ch, loc[x])
        /\ ~died => SlotAt(r, place).qty = SlotAt(ch, place).qty - n
        /\ \A x \in Chunks : SameLinks(r, ch, x)
    BY <1>2, SpentPlaced
  <2>2. loc' = lc2
    BY <1>3
  <2> HIDE DEF lc2, r, id, c, U
  <2>. QED BY <1>4, <2>1, <2>2
<1>6. n \in Int /\ n > 0 /\ SlotAt(ch, place).qty \in Int /\ left \in Int
  <2>1. SlotAt(ch, loc[id]).qty \in 1 .. (QtyMod - 1)
    BY <1>2, <1>5, LocFacts
  <2> DEFINE qty == SlotAt(ch, place).qty
  <2>2. qty \in Int /\ n \in 1 .. qty
    BY <1>2, <1>5, <2>1
  <2> HIDE DEF qty
  <2>3. n \in Int /\ n > 0 /\ qty \in Int /\ qty - n \in Int
    BY <2>2
  <2>. QED BY <2>3 DEF qty
<1>7. c \in Chunks /\ l \in Levels
  <2>1. ASSUME NEW x \in U PROVE x \in Chunks /\ chunk[x].level \in Levels
    <3>1. PICK Q, F : Lists(chunk, lvl, freeChunk, used, U, Q, F)
      BY <1>1 DEF Linked
    <3>. QED BY <3>1 DEF Lists
  <2>. QED BY <1>1, <1>2, <1>5, <2>1 DEF SameLinks
<1>8. /\ lvl[l] \in LevelValues
      /\ lv \in LevelValues /\ lv.head = lvl[l].head /\ lv.tail = lvl[l].tail
      /\ lv.total = (lvl[l].total - n) % QtyMod
  <2>1. lvl[l] \in LevelValues /\ lvl[l].total \in Int
    BY <1>1, <1>7 DEF LevelValues
  <2>2. (lvl[l].total - n) % QtyMod \in 0 .. (QtyMod - 1)
    <3> DEFINE t == lvl[l].total
    <3> HIDE DEF t
    <3>1. t - n \in Int
      BY <1>6, <2>1 DEF t
    <3>2. (t - n) % QtyMod \in 0 .. (QtyMod - 1)
      BY <1>1, <3>1, DivMod
    <3>. QED BY <3>2 DEF t
  <2>. QED BY <2>1, <2>2 DEF LevelValues
<1> HIDE DEF r, lv, left, id, drop
<1>9. r[c].prev \in Links /\ r[c].next \in Links
  BY <1>5, <1>7 DEF ChunkValues
<1>10. /\ lvl' \in [Levels -> LevelValues]
       /\ \A m \in Levels :
             /\ lvl'[m].head = IF drop /\ m = l /\ r[c].prev = NIL THEN r[c].next ELSE lvl[m].head
             /\ lvl'[m].tail = IF drop /\ m = l /\ r[c].next = NIL THEN r[c].prev ELSE lvl[m].tail
             /\ lvl'[m].total = IF m = l THEN (lvl[m].total - n) % QtyMod ELSE lvl[m].total
  <2> DEFINE lw == IF drop THEN LevelWithout(lv, r, c) ELSE lv
  <2>1. /\ lw \in LevelValues /\ lw.total = lv.total
        /\ lw.head = IF drop /\ r[c].prev = NIL THEN r[c].next ELSE lv.head
        /\ lw.tail = IF drop /\ r[c].next = NIL THEN r[c].prev ELSE lv.tail
    BY <1>8, <1>9 DEF LevelWithout, LevelValues
  <2>2. lvl' = [lvl EXCEPT ![l] = lw]
    BY <1>3
  <2> HIDE DEF lw
  <2>3. \A m \in Levels : lvl'[m] = IF m = l THEN lw ELSE lvl[m]
    BY <1>1, <2>2
  <2>4. lvl' \in [Levels -> LevelValues]
    BY <1>1, <2>1, <2>2
  <2>. QED BY <1>8, <2>1, <2>3, <2>4
<1>11. /\ chunk' \in [Chunks -> ChunkValues]
       /\ Placed(chunk', loc') /\ LiveChunks(chunk') = LiveChunks(r)
       /\ \A x \in Chunks : chunk'[x].s = r[x].s /\ chunk'[x].level = r[x].level
  <2>1. CASE drop
    <3>1. /\ chunk' \in [Chunks -> ChunkValues]
          /\ \A x \in Chunks : /\ chunk'[x].s = r[x].s /\ chunk'[x].head = r[x].head
                               /\ chunk'[x].tail = r[x].tail /\ chunk'[x].live = r[x].live
                               /\ chunk'[x].level = r[x].level
      BY <1>1, <1>3, <1>5, <1>7, <2>1, UnlinkedFields
    <3>2. LiveChunks(r) \subseteq Chunks
      BY DEF LiveChunks
    <3>3. Placed(chunk', loc') /\ LiveChunks(chunk') = LiveChunks(r)
      BY <1>5, <3>1, <3>2, PlacedKept
    <3>. QED BY <3>1, <3>3
  <2>2. CASE ~drop
    BY <1>3, <1>5, <2>2
  <2>. QED BY <2>1, <2>2
<1>12. ASSUME NEW Q, NEW F, Lists(chunk, lvl, freeChunk, used, U, Q, F)
       PROVE  Lists(r, lvl, freeChunk, used, U, Q, F)
  <2>1. \A x \in Chunks : SameLinks(r, chunk, x)
    BY <1>2, <1>5 DEF SameLinks
  <2>2. SameEnds(lvl, lvl)
    BY DEF SameEnds
  <2>. QED BY <1>12, <2>1, <2>2, ListsKept
<1>13. ASSUME NEW Q, NEW F, Lists(chunk, lvl, freeChunk, used, U, Q, F)
       PROVE  \E R, G : /\ Lists(chunk', lvl', freeChunk', used', LiveChunks(chunk'), R, G)
                        /\ Lessened(Q, R, l)
  <2>a. Lists(r, lvl, freeChunk, used, U, Q, F)
    BY <1>12, <1>13
  <2>1. CASE drop
    <3>1. \A x \in Chunks :
              /\ chunk'[x].level = r[x].level
              /\ chunk'[x].next = IF x = c THEN freeChunk
                                  ELSE IF x = r[c].prev THEN r[c].next ELSE r[x].next
              /\ x # c => chunk'[x].prev = IF x # r[c].prev /\ x = r[c].next THEN r[c].prev
                                           ELSE r[x].prev
      BY <1>1, <1>3, <1>5, <1>7, <2>1, UnlinkedFields
    <3>2. \A m \in Levels :
              /\ lvl'[m].head = IF m = l /\ r[c].prev = NIL THEN r[c].next ELSE lvl[m].head
              /\ lvl'[m].tail = IF m = l /\ r[c].next = NIL THEN r[c].prev ELSE lvl[m].tail
      BY <1>10, <2>1
    <3>3. LetsGo(chunk', r, lvl', lvl, freeChunk, l, c)
      BY <3>1, <3>2 DEF LetsGo
    <3>4. l = r[c].level
      BY <1>2, <1>5, <1>7 DEF SameLinks
    <3>5. \E R, G : Lists(chunk', lvl', c, used, U \ {c}, R, G) /\ Lessened(Q, R, l)
      <4>. HIDE DEF U, c
      <4>1. c \in U
        BY <1>5
      <4>. QED BY <2>a, <3>3, <3>4, <4>1, ListsOut
    <3>6. freeChunk' = c /\ used' = used /\ LiveChunks(chunk') = U \ {c}
      BY <1>3, <1>5, <1>11, <2>1
    <3>. QED BY <3>5, <3>6
  <2>2. CASE ~drop
    <3>1. SameEnds(lvl', lvl)
      BY <1>10, <2>2 DEF SameEnds
    <3>2. chunk' = r /\ freeChunk' = freeChunk /\ used' = used /\ LiveChunks(chunk') = U
      BY <1>3, <1>5, <2>2
    <3>3. \A x \in Chunks : SameLinks(r, r, x)
      BY DEF SameLinks
    <3>4. Lists(r, lvl', freeChunk, used, U, Q, F)
      BY <2>a, <3>1, <3>3, ListsKept
    <3>. QED BY <3>2, <3>4 DEF Lessened
  <2>. QED BY <2>1, <2>2
<1>13a. Linked(chunk', lvl', freeChunk', used', LiveChunks(chunk'))
  BY <1>1, <1>13 DEF Linked
<1>14. /\ loc' = [x \in DOMAIN loc' |-> loc'[x]]
       /\ DOMAIN loc' \subseteq OrderIds /\ IsFiniteSet(DOMAIN loc')
       /\ live' = Cardinality(DOMAIN loc') /\ live' <= MaxOrders
  <2>1. loc' = [x \in DOMAIN loc' |-> loc'[x]]
    BY <1>3 DEF WithoutPlace
  <2>2. IsFiniteSet(DOMAIN loc') /\ DOMAIN loc' \subseteq OrderIds
    BY <1>1, <1>5, FS_Subset
  <2>3. live \in Nat
    BY <1>1, FS_CardinalityType
  <2>4. Cardinality(DOMAIN loc') = IF died THEN Cardinality(DOMAIN loc) - 1 ELSE Cardinality(DOMAIN loc)
    BY <1>1, <1>5, FS_RemoveElement
  <2>. QED BY <1>1, <1>3, <2>1, <2>2, <2>3, <2>4, MaxOrdersAssumption
<1>15a. ASSUME NEW x \in DOMAIN loc
        PROVE  /\ loc[x] \in Places /\ loc[x].chunk \in Chunks /\ loc[x].slot \in Slots
               /\ SlotAt(chunk, loc[x]) = SlotAt(ch, loc[x])
               /\ SlotAt(chunk, loc[x]).qty \in Int
               /\ chunk'[loc[x].chunk].level = chunk[loc[x].chunk].level
               /\ SlotAt(chunk', loc[x]) = SlotAt(r, loc[x])
  <2>1. loc[x] \in Places /\ SlotAt(ch, loc[x]).qty \in Int
    BY <1>2, LocFacts
  <2>2. loc[x].chunk \in Chunks /\ loc[x].slot \in Slots
    BY <2>1 DEF Places
  <2>. QED BY <1>2, <1>5, <1>11, <2>1, <2>2 DEF SlotAt, SameLinks
<1>15b. ASSUME NEW x \in DOMAIN loc \ {id}
        PROVE  /\ x \in DOMAIN loc' /\ loc'[x] = loc[x]
               /\ SlotAt(chunk', loc'[x]).qty = SlotAt(chunk, loc[x]).qty
               /\ chunk'[loc'[x].chunk].level = chunk[loc[x].chunk].level
  BY <1>5, <1>15a
<1>15. TotalsAre(chunk', loc', lvl')
  <2>3. SlotAt(chunk, loc[id]).qty = left + n /\ chunk[loc[id].chunk].level = l
    <3>1. SlotAt(chunk, loc[id]) = SlotAt(ch, place) /\ chunk[c].level = l
      BY <1>2, <1>5, <1>7, <1>15a DEF SameLinks
    <3> DEFINE qty == SlotAt(ch, place).qty
    <3>2. qty \in Int /\ left = qty - n
      BY <1>6 DEF left
    <3> HIDE DEF qty
    <3>3. qty = left + n
      BY <1>6, <3>2
    <3>. QED BY <1>5, <3>1, <3>3 DEF qty
  <2>4. ~died => SlotAt(chunk', loc'[id]).qty = left
    BY <1>5, <1>15a
  <2>5. Moves(chunk, loc, chunk', loc', id, l, -n)
    <3>1. \A x \in DOMAIN loc' : SlotAt(chunk', loc'[x]).qty \in Int
      <4> TAKE x \in DOMAIN loc'
      <4>1. CASE x = id
        BY <1>5, <1>6, <2>4, <4>1
      <4>2. CASE x # id
        BY <1>5, <1>15a, <1>15b, <4>2
      <4>. QED BY <4>1, <4>2
    <3>2. -n = (IF id \in DOMAIN loc' THEN SlotAt(chunk', loc'[id]).qty ELSE 0)
               - (IF id \in DOMAIN loc THEN SlotAt(chunk, loc[id]).qty ELSE 0)
      <4>1. CASE died
        <5>1. id \notin DOMAIN loc' /\ id \in DOMAIN loc
          BY <1>5, <4>1
        <5>. QED BY <1>6, <2>3, <4>1, <5>1
      <4>2. CASE ~died
        <5>1. id \in DOMAIN loc' /\ id \in DOMAIN loc
          BY <1>5, <4>2
        <5>. QED BY <1>6, <2>3, <2>4, <4>2, <5>1
      <4>. QED BY <4>1, <4>2
    <3>3. DOMAIN loc' \ {id} = DOMAIN loc \ {id}
      BY <1>5
    <3>4. id \in DOMAIN loc' => chunk'[loc'[id].chunk].level = l
      BY <1>5, <1>15a, <2>3
    <3>5. -n \in Int
      BY <1>6
    <3>. QED BY <1>1, <1>15a, <1>15b, <2>3, <3>1, <3>2, <3>3, <3>4, <3>5 DEF Moves
  <2>6. \A m \in Levels : lvl'[m].total = IF m = l THEN (lvl[m].total + (-n)) % QtyMod
                                          ELSE lvl[m].total
    <3> TAKE m \in Levels
    <3>1. lvl[m].total \in Int
      BY <1>1 DEF LevelValues
    <3>2. lvl[m].total - n = lvl[m].total + (-n)
      BY <1>6, <3>1
    <3>. QED BY <1>10, <3>2
  <2>. QED BY <1>1, <2>5, <2>6, TotalsFollow
<1>16. freeChunk' \in Links
  BY <1>1, <1>3, <1>7 DEF Links
<1>17. len' \in 0 .. Cap /\ used' \in 0 .. Cap /\ used' <= len'
  BY <1>1, <1>3
<1>18. Good(chunk', len', used', freeChunk', live', lvl', loc')
  BY <1>10, <1>11, <1>13a, <1>14, <1>15, <1>16, <1>17 DEF Good
<1>19. Gives(l, place, n)
  <2>1. SlotAt(ch, place) = SlotAt(chunk, place) /\ chunk[c].level = l
    BY <1>2, <1>5, <1>7, <1>15a DEF SameLinks
  <2>2. /\ id = SlotAt(chunk, place).id /\ left = SlotAt(chunk, place).qty - n
        /\ died <=> left = 0
    BY <2>1 DEF id, left
  <2> HIDE DEF died
  <2>3. /\ \A x \in DOMAIN loc' : x \in DOMAIN loc
        /\ ~died => SlotAt(chunk', place).qty = left
    BY <1>5, <1>15a
  <2>4. /\ \A x \in DOMAIN loc' : /\ loc'[x] = loc[x]
                                  /\ chunk'[loc[x].chunk].level = chunk[loc[x].chunk].level
        /\ \A x \in DOMAIN loc \ {id} : SlotAt(chunk', loc[x]).qty = SlotAt(chunk, loc[x]).qty
    BY <1>5, <1>15a, <1>15b, <2>3
  <2>. QED BY <1>5, <1>7, <1>13, <2>1, <2>2, <2>3, <2>4 DEF Gives, U
<1>. QED BY <1>18, <1>19 DEF IInv

\* Every live order can give up to all it has.
LEMMA OrderSpends ==
    ASSUME IInv, NEW id \in LiveOrders
    PROVE  /\ SlotOf(id) = SlotAt(chunk, loc[id]) /\ SlotOf(id).qty \in 1 .. (QtyMod - 1)
           /\ \A n \in 1 .. SlotOf(id).qty : Spends(chunk, LevelOf(id), loc[id], n)
<1>1. chunk \in [Chunks -> ChunkValues] /\ Placed(chunk, loc) /\ id \in DOMAIN loc
  BY DEF IInv, Good, LiveOrders
<1>2. /\ loc[id] \in Places /\ SlotAt(chunk, loc[id]).qty \in 1 .. (QtyMod - 1)
      /\ SlotOf(id) = SlotAt(chunk, loc[id])
  BY <1>1, LocFacts DEF SlotOf, SlotAt
<1>3. SlotAt(chunk, loc[id]).qty # 0
  <2> DEFINE qty == SlotAt(chunk, loc[id]).qty
  <2>1. qty \in 1 .. (QtyMod - 1)
    BY <1>2
  <2> HIDE DEF qty
  <2>2. qty # 0
    BY <2>1, SlotsFacts
  <2>. QED BY <2>2 DEF qty
<1>. QED BY <1>1, <1>2, <1>3 DEF Spends, SameLinks, LevelOf

\* unlink takes out all of a live order.
LEMMA UnlinkTakes ==
    ASSUME IInv, NEW id \in LiveOrders, Unlink(id)
    PROVE  /\ Spends(chunk, LevelOf(id), loc[id], SlotOf(id).qty)
           /\ Takes(LevelOf(id), SlotOf(id).qty)
<1> DEFINE qty == SlotOf(id).qty
<1>1. qty \in 1 .. (QtyMod - 1) /\ \A n \in 1 .. qty : Spends(chunk, LevelOf(id), loc[id], n)
  BY OrderSpends
<1>2. Spend(chunk, LevelOf(id), loc[id], qty)
  BY DEF Unlink
<1> HIDE DEF qty
<1>3. qty \in 1 .. qty
  BY <1>1, SlotsFacts
<1>. QED BY <1>1, <1>2, <1>3 DEF Takes, qty

\* A replacement in place takes out what it gives up.
LEMMA ShrinkTakes ==
    ASSUME IInv, NEW id \in LiveOrders, NEW qty \in Qtys, Shrink(id, qty)
    PROVE  /\ Spends(chunk, LevelOf(id), loc[id], SlotOf(id).qty - qty)
           /\ Takes(LevelOf(id), SlotOf(id).qty - qty)
<1> DEFINE old == SlotOf(id).qty
<1>1. old \in 1 .. (QtyMod - 1) /\ \A n \in 1 .. old : Spends(chunk, LevelOf(id), loc[id], n)
  BY OrderSpends
<1>2. Spend(chunk, LevelOf(id), loc[id], old - qty) /\ qty < old /\ qty \in 1 .. (QtyMod - 1)
  BY QtysAssumption DEF Shrink
<1> HIDE DEF old
<1>3. old - qty \in 1 .. old
  BY <1>1, <1>2, SlotsFacts
<1>. QED BY <1>1, <1>2, <1>3 DEF Takes, old

\* The front slot of a chunk with a live order is the first live one.
LEMMA FrontSlotFacts ==
    ASSUME chunk \in [Chunks -> ChunkValues], Placed(chunk, loc), NEW c \in LiveChunks(chunk)
    PROVE  FrontSlot(c) \in Alive(chunk[c]) /\ \A i \in Alive(chunk[c]) : FrontSlot(c) <= i
<1> DEFINE A == Alive(chunk[c])
           h == chunk[c].head
           at(d) == (h + d) % ChunkSlots
           D == {d \in Slots : chunk[c].s[at(d)].qty # 0}
           m == Min(D)
<1>1. c \in Chunks /\ chunk[c] \in ChunkValues /\ A # {}
  BY DEF LiveChunks
<1>2. h \in Slots /\ chunk[c].tail \in 0 .. ChunkSlots
  BY <1>1 DEF ChunkValues
<1>3. \A i \in A : i \in Slots /\ h <= i /\ chunk[c].s[i].qty # 0
  BY <1>1 DEF Placed, Alive
<1>4. \A i \in Slots : chunk[c].s[i].qty # 0 => i \in A
  BY DEF Alive
<1>5. FrontSlot(c) = at(m)
  BY DEF FrontSlot
<1> HIDE DEF A, h
<1>6. \A i \in Slots : h <= i => i - h \in Slots /\ at(i - h) = i
  <2> TAKE i \in Slots
  <2> HAVE h <= i
  <2>1. i - h \in Slots /\ h + (i - h) = i
    BY <1>2, SlotsFacts DEF Slots
  <2>2. i % ChunkSlots = i
    BY SlotsFacts, ModSmall DEF Slots
  <2>. QED BY <2>1, <2>2
<1>7. \A i \in A : i - h \in D
  BY <1>3, <1>6
<1>8. D \subseteq Int /\ D # {} /\ \A d \in D : 0 <= d
  BY <1>1, <1>7, SlotsFacts DEF Slots
<1>9. m \in D /\ \A d \in D : m <= d
  <2> HIDE DEF D
  <2>1. 0 \in Int
    OBVIOUS
  <2>. QED BY <1>8, <2>1, MinFacts
<1>10. m \in Slots /\ chunk[c].s[at(m)].qty # 0
  BY <1>9, Zenon
<1>11. at(m) \in Slots
  <2>a. m \in Slots
    BY <1>10, Zenon
  <2> HIDE DEF m
  <2>1. h + m \in Int /\ ChunkSlots \in Nat \ {0}
    BY <1>2, <2>a, SlotsFacts
  <2>2. (h + m) % ChunkSlots \in 0 .. (ChunkSlots - 1)
    BY <2>1, DivMod
  <2>. QED BY <2>2 DEF Slots
<1>12. ASSUME NEW i \in A PROVE at(m) <= i
  <2>1. m <= i - h /\ i \in Slots /\ h \in Slots /\ m \in Slots
    BY <1>2, <1>3, <1>7, <1>9, <1>10, Zenon
  <2> HIDE DEF m
  <2>2. h + m \in Slots /\ h + m <= i /\ h <= h + m
    BY <2>1, SlotsFacts DEF Slots
  <2>3. (h + m) % ChunkSlots = h + m
    BY <2>2, SlotsFacts, ModSmall DEF Slots
  <2>. QED BY <2>2, <2>3
<1> HIDE DEF at, m
<1>. QED BY <1>4, <1>5, <1>10, <1>11, <1>12 DEF A

\* Where the front order of a level is, and the array when the cursor stands there.
FrontPlace(l) == [chunk |-> lvl[l].head, slot |-> FrontSlot(lvl[l].head)]
CursorMoved(l) == [chunk EXCEPT ![lvl[l].head].head = FrontSlot(lvl[l].head)]

\* A fill spends the front order of its level.
LEMMA FillTakes ==
    ASSUME IInv, NEW l \in Levels, NEW n \in Quantities, Fill(l, n)
    PROVE  /\ lvl[l].head \in LiveChunks(chunk)
           /\ Spends(CursorMoved(l), l, FrontPlace(l), n)
           /\ Spend(CursorMoved(l), l, FrontPlace(l), n)
           /\ Takes(l, n)
<1> DEFINE c == lvl[l].head
           h == FrontSlot(c)
           ch == [chunk EXCEPT ![c].head = h]
           place == [chunk |-> c, slot |-> h]
<1>1. /\ chunk \in [Chunks -> ChunkValues] /\ Placed(chunk, loc)
      /\ Linked(chunk, lvl, freeChunk, used, LiveChunks(chunk))
  BY DEF IInv, Good
<1>2. c # NIL /\ n <= chunk[c].s[h].qty /\ Spend(ch, l, place, n)
  BY DEF Fill
<1>3. c \in LiveChunks(chunk) /\ c \in Chunks /\ chunk[c].level = l /\ chunk[c] \in ChunkValues
  BY <1>1, <1>2, EndsFacts
<1> HIDE DEF c
<1>4. h \in Alive(chunk[c]) /\ \A i \in Alive(chunk[c]) : h <= i
  BY <1>1, <1>3, FrontSlotFacts
<1> HIDE DEF h
<1>5. h \in Slots /\ chunk[c].s[h].qty # 0
  BY <1>4 DEF Alive
<1>6. /\ ch \in [Chunks -> ChunkValues]
      /\ \A x \in Chunks : /\ ch[x].s = chunk[x].s /\ ch[x].tail = chunk[x].tail
                           /\ ch[x].live = chunk[x].live /\ SameLinks(ch, chunk, x)
      /\ \A x \in Chunks : x # c => ch[x].head = chunk[x].head
      /\ ch[c].head = h
  <2>1. [chunk[c] EXCEPT !.head = h] \in ChunkValues
    BY <1>3, <1>5 DEF ChunkValues
  <2>2. /\ ch[c] = [chunk[c] EXCEPT !.head = h]
        /\ \A x \in Chunks : x # c => ch[x] = chunk[x]
    BY <1>1, <1>3
  <2>3. ch \in [Chunks -> ChunkValues]
    BY <1>1, <2>1
  <2> HIDE DEF ch
  <2>4. /\ ch[c].s = chunk[c].s /\ ch[c].tail = chunk[c].tail /\ ch[c].live = chunk[c].live
        /\ ch[c].next = chunk[c].next /\ ch[c].prev = chunk[c].prev /\ ch[c].level = chunk[c].level
        /\ ch[c].head = h
    BY <1>3, <2>2 DEF ChunkValues
  <2>. QED BY <2>2, <2>3, <2>4 DEF SameLinks
<1> HIDE DEF ch
<1>7. Placed(ch, loc)
  <2>1. \A x \in LiveChunks(chunk) :
            /\ ch[x].head = chunk[x].head \/ \A i \in Alive(chunk[x]) : ch[x].head <= i
            /\ ch[x].tail = chunk[x].tail /\ ch[x].live = chunk[x].live
    BY <1>4, <1>6 DEF LiveChunks
  <2>. QED BY <1>1, <1>6, <2>1, PlacedKept
<1>8. place \in Places /\ SlotAt(ch, place) = chunk[c].s[h]
  BY <1>3, <1>5, <1>6 DEF Places, SlotAt
<1>9. n \in 1 .. SlotAt(ch, place).qty
  <2>1. chunk[c].s[h] \in SlotValues
    BY <1>3, <1>5 DEF ChunkValues
  <2> DEFINE qty == chunk[c].s[h].qty
  <2>2. qty \in Int /\ n \in Int /\ n >= 1 /\ n <= qty
    <3>1. qty \in 0 .. (QtyMod - 1)
      BY <2>1, SlotsFacts
    <3>2. n \in 1 .. (QtyMod - 1)
      BY QuantitiesFacts
    <3>3. n <= qty
      BY <1>2
    <3> HIDE DEF qty
    <3>. QED BY <3>1, <3>2, <3>3
  <2> HIDE DEF qty
  <2>3. n \in 1 .. qty
    BY <2>2
  <2>. QED BY <1>8, <2>3 DEF qty
<1>10. Spends(ch, l, place, n)
  BY <1>3, <1>5, <1>6, <1>7, <1>8, <1>9 DEF Spends, SameLinks
<1> HIDE DEF place
<1>. QED BY <1>2, <1>3, <1>10 DEF Takes, FrontPlace, CursorMoved, place, ch, h, c

-----------------------------------------------------------------------------
(* The other steps *)

\* prefault writes only to chunks that were never handed out.
LEMMA PrefaultInv == ASSUME IInv, Prefault PROVE IInv'
<1> DEFINE U == LiveChunks(chunk)
           hit(x) == x >= used /\ (x - used) % TouchStride = 0
<1>1. /\ chunk \in [Chunks -> ChunkValues] /\ Placed(chunk, loc)
      /\ Linked(chunk, lvl, freeChunk, used, U)
      /\ used \in 0 .. Cap /\ TotalsAre(chunk, loc, lvl)
  BY DEF IInv, Good
<1>2. /\ len' = Cap
      /\ chunk' = [x \in Chunks |-> IF hit(x) THEN [chunk[x] EXCEPT !.live = 0] ELSE chunk[x]]
      /\ UNCHANGED <<used, freeChunk, live, lvl, loc>>
  BY DEF Prefault
<1>3. \A x \in U : x \in Chunks /\ ~hit(x)
  <2> TAKE x \in U
  <2>1. x < used /\ x \in Chunks
    <3>1. PICK Q, F : Lists(chunk, lvl, freeChunk, used, U, Q, F)
      BY <1>1 DEF Linked
    <3>. QED BY <3>1 DEF Lists
  <2>2. ~(x >= used)
    BY <1>1, <2>1, ChunksFacts
  <2>. QED BY <2>1, <2>2
<1> HIDE DEF hit
<1>4. ASSUME NEW x \in Chunks
      PROVE  /\ chunk'[x] \in ChunkValues /\ SameLinks(chunk', chunk, x)
             /\ chunk'[x].s = chunk[x].s /\ chunk'[x].head = chunk[x].head
             /\ chunk'[x].tail = chunk[x].tail
             /\ x \in U => chunk'[x] = chunk[x]
  <2>1. chunk[x] \in ChunkValues /\ 0 \in 0 .. ChunkSlots
    BY <1>1, SlotsFacts
  <2>2. chunk'[x] = chunk[x] \/ chunk'[x] = [chunk[x] EXCEPT !.live = 0]
    BY <1>2
  <2>3. x \in U => chunk'[x] = chunk[x]
    BY <1>2, <1>3
  <2>. QED BY <2>1, <2>2, <2>3 DEF ChunkValues, SameLinks
<1>5. chunk' \in [Chunks -> ChunkValues]
  <2>1. chunk' = [x \in Chunks |-> chunk'[x]]
    BY <1>2
  <2>. QED BY <1>4, <2>1
<1>6. Placed(chunk', loc) /\ LiveChunks(chunk') = U
  <2>1. \A x \in U : /\ chunk'[x].head = chunk[x].head /\ chunk'[x].tail = chunk[x].tail
                     /\ chunk'[x].live = chunk[x].live
    BY <1>3, <1>4
  <2>. QED BY <1>1, <1>4, <2>1, PlacedKept
<1>7. Linked(chunk', lvl, freeChunk, used, U)
  <2>1. SameEnds(lvl, lvl)
    BY DEF SameEnds
  <2>. QED BY <1>1, <1>4, <2>1, LinkedKept
<1>8. TotalsAre(chunk', loc, lvl)
  <2>1. ASSUME NEW id \in DOMAIN loc
        PROVE  /\ SlotAt(chunk', loc[id]) = SlotAt(chunk, loc[id])
               /\ chunk'[loc[id].chunk].level = chunk[loc[id].chunk].level
    <3>1. loc[id].chunk \in Chunks
      BY <1>1, LocFacts DEF Places
    <3>. QED BY <1>4, <3>1 DEF SlotAt, SameLinks
  <2>. QED BY <1>1, <2>1, TotalsStay
<1>9. Cap \in 0 .. Cap /\ used <= Cap
  BY <1>1, ChunksFacts
<1>10. Good(chunk', len', used', freeChunk', live', lvl', loc')
  BY <1>1, <1>2, <1>5, <1>6, <1>7, <1>8, <1>9 DEF IInv, Good
<1>. QED BY <1>10 DEF IInv

\* newStore's store is empty.
LEMMA InitInv == Init => IInv
<1> SUFFICES ASSUME Init PROVE IInv
  OBVIOUS
<1>1. /\ chunk = [c \in Chunks |-> ZeroChunk] /\ len = 0 /\ used = 0 /\ freeChunk = NIL
      /\ live = 0 /\ DOMAIN loc = {} /\ loc = [id \in DOMAIN loc |-> loc[id]]
      /\ lvl = [l \in Levels |-> [head |-> NIL, tail |-> NIL, total |-> 0]]
  BY DEF Init
<1>2. 0 \in Chunks /\ NIL \in Links /\ 0 \in 0 .. ChunkSlots /\ 0 \in 0 .. (QtyMod - 1)
      /\ 0 \in 0 .. Cap /\ 0 \in Links
  BY ChunksFacts, SlotsFacts DEF Links, Chunks
<1>3. ZeroChunk \in ChunkValues /\ Alive(ZeroChunk) = {}
  BY <1>2, SlotsFacts DEF ZeroChunk, ChunkValues, Alive
<1>4. chunk \in [Chunks -> ChunkValues] /\ LiveChunks(chunk) = {}
  BY <1>1, <1>3 DEF LiveChunks
<1>5. Placed(chunk, loc)
  BY <1>1, <1>4 DEF Placed, LiveChunks
<1>6. Linked(chunk, lvl, freeChunk, used, LiveChunks(chunk))
  <2> DEFINE Q == [l \in Levels |-> <<>>]
  <2>1. IsChain(chunk, <<>>, NIL)
    BY DEF IsChain
  <2>2. \A l \in Levels : IsLevelList(chunk, lvl[l], l, Q[l])
    BY <1>1, <2>1 DEF IsLevelList
  <2>3. \A c \in Chunks : ~(c < 0)
    BY ChunksFacts
  <2>4. Lists(chunk, lvl, freeChunk, used, {}, Q, <<>>)
    BY <1>1, <2>1, <2>2, <2>3 DEF Lists
  <2>. QED BY <1>4, <2>4 DEF Linked
<1>7. TotalsAre(chunk, loc, lvl)
  <2>1. ASSUME NEW m \in Levels PROVE lvl[m].total = Total(chunk, loc, m) % QtyMod
    <3>1. {id \in DOMAIN loc : chunk[loc[id].chunk].level = m} = {}
      BY <1>1
    <3>2. Total(chunk, loc, m) = 0
      BY <3>1, SumOfNone DEF Total
    <3>3. 0 % QtyMod = 0
      BY <1>2, QtyModAssumption, ModSmall
    <3>. QED BY <1>1, <3>2, <3>3
  <2>. QED BY <2>1 DEF TotalsAre
<1>8. lvl \in [Levels -> LevelValues]
  BY <1>1, <1>2 DEF LevelValues
<1>9. IsFiniteSet(DOMAIN loc) /\ Cardinality(DOMAIN loc) = 0 /\ DOMAIN loc \subseteq OrderIds
  BY <1>1, FS_EmptySet
<1>10. 0 <= MaxOrders /\ 0 <= 0
  BY MaxOrdersAssumption
<1>. QED BY <1>1, <1>2, <1>4, <1>5, <1>6, <1>7, <1>8, <1>9, <1>10 DEF IInv, Good

LEMMA NextInv == IInv /\ [Next]_vars => IInv'
<1> SUFFICES ASSUME IInv, [Next]_vars PROVE IInv'
  OBVIOUS
<1>1. CASE \E l \in Levels, id \in OrderIds, qty \in Qtys : Push(l, id, qty)
  BY <1>1, PushInv, QuantitiesFacts
<1>2. CASE \E id \in LiveOrders : Unlink(id)
  BY <1>2, UnlinkTakes, SpendInv DEF Takes
<1>3. CASE \E id \in LiveOrders, qty \in Qtys : Shrink(id, qty)
  BY <1>3, ShrinkTakes, SpendInv DEF Takes
<1>4. CASE \E l \in Levels, n \in Qtys : Fill(l, n)
  BY <1>4, FillTakes, SpendInv, QuantitiesFacts DEF Takes
<1>5. CASE Prefault
  BY <1>5, PrefaultInv
<1>6. CASE UNCHANGED vars
  BY <1>6 DEF vars, IInv
<1>. QED BY <1>1, <1>2, <1>3, <1>4, <1>5, <1>6 DEF Next

-----------------------------------------------------------------------------
(* The theorems *)

\* The store's invariant: the chunks that have live orders are those of the levels'
\* lists, the rest of those handed out is the free list, and locs, counters and totals
\* agree with the slots.
THEOREM Invariance == Spec => []IInv
<1>1. Init => IInv
  BY InitInv
<1>2. IInv /\ [Next]_vars => IInv'
  BY NextInv
<1>. QED BY <1>1, <1>2, PTL DEF Spec


\* The store's variables keep their types.
THEOREM TypeCorrect == Spec => []TypeOK
<1>1. IInv => TypeOK
  <2> SUFFICES ASSUME IInv PROVE TypeOK
    OBVIOUS
  <2>1. chunk \in [Chunks -> ChunkValues] /\ lvl \in [Levels -> LevelValues]
        /\ len \in 0 .. Cap /\ used \in 0 .. Cap /\ freeChunk \in Links
        /\ loc = [id \in DOMAIN loc |-> loc[id]] /\ DOMAIN loc \subseteq OrderIds
        /\ IsFiniteSet(DOMAIN loc) /\ live = Cardinality(DOMAIN loc) /\ live <= MaxOrders
        /\ Placed(chunk, loc)
    BY DEF IInv, Good
  <2>2. live \in 0 .. MaxOrders
    <3>1. live \in Nat
      BY <2>1, FS_CardinalityType
    <3>. QED BY <2>1, <3>1, MaxOrdersAssumption
  <2>3. \A id \in DOMAIN loc : loc[id] \in Places
    BY <2>1 DEF Placed
  <2>4. loc \in [DOMAIN loc -> Places]
    BY <2>1, <2>3
  <2>. QED BY <2>1, <2>2, <2>4 DEF TypeOK, ChunkValues, SlotValues, LevelValues, Links, Places, LiveOrders
<1>2. Spec => []IInv
  BY Invariance
<1>. QED BY <1>1, <1>2, PTL

\* What follows the ends of the lists, and which chunks it passes.
LEMMA ListsAre ==
    ASSUME IInv
    PROVE  \E Q, F : /\ Lists(chunk, lvl, freeChunk, used, LiveChunks(chunk), Q, F)
                     /\ \A l \in Levels : List(l) = Q[l]
                     /\ FreeList = F
<1>1. /\ Linked(chunk, lvl, freeChunk, used, LiveChunks(chunk))
      /\ chunk \in [Chunks -> ChunkValues]
  BY DEF IInv, Good
<1>2. PICK Q, F : Lists(chunk, lvl, freeChunk, used, LiveChunks(chunk), Q, F)
  BY <1>1 DEF Linked
<1>3. \A c \in Chunks : chunk[c].next \in Links
  BY <1>1 DEF ChunkValues
<1>4. ASSUME NEW l \in Levels PROVE List(l) = Q[l]
  <2>1. IsChain(chunk, Q[l], lvl[l].head)
    BY <1>2 DEF Lists, IsLevelList
  <2>. QED BY <1>3, <2>1, FromIs DEF List
<1>5. FreeList = F
  <2>1. IsChain(chunk, F, freeChunk)
    BY <1>2 DEF Lists
  <2>. QED BY <1>3, <2>1, FromIs DEF FreeList
<1>. QED BY <1>2, <1>4, <1>5

\* The chunks in use are those with a live order.
LEMMA InUseIsLive == IInv => InUse = LiveChunks(chunk)
<1> SUFFICES ASSUME IInv PROVE InUse = LiveChunks(chunk)
  OBVIOUS
<1> DEFINE U == LiveChunks(chunk)
<1>1. PICK Q, F : /\ Lists(chunk, lvl, freeChunk, used, U, Q, F)
                  /\ \A l \in Levels : List(l) = Q[l]
                  /\ FreeList = F
  BY ListsAre
<1> HIDE DEF U
<1>2. \A l \in Levels : Q[l] \in Seq(Chunks) /\ ToSet(List(l)) = {Q[l][i] : i \in 1 .. Len(Q[l])}
  BY <1>1 DEF Lists, ToSet
<1>3. ASSUME NEW c \in InUse PROVE c \in U
  <2>1. PICK l \in Levels : c \in ToSet(List(l))
    BY DEF InUse
  <2>2. PICK i \in 1 .. Len(Q[l]) : c = Q[l][i]
    BY <1>2, <2>1
  <2>. QED BY <1>1, <2>2 DEF Lists
<1>4. ASSUME NEW c \in U PROVE c \in InUse
  <2> DEFINE l == chunk[c].level
  <2>1. l \in Levels /\ \E i \in 1 .. Len(Q[l]) : Q[l][i] = c
    BY <1>1 DEF Lists
  <2> HIDE DEF l
  <2>2. c \in ToSet(List(l))
    BY <1>2, <2>1
  <2>. QED BY <2>1, <2>2 DEF InUse
<1>. QED BY <1>3, <1>4 DEF U

\* The chunks handed out are each in one level's list or in the free list, once, and
\* a level's list agrees in both directions and at both ends: allocChunk and dropChunk
\* never lose, share or misplace a chunk.
THEOREM ListsArePartition == Spec => []ListsPartitionChunks
<1>1. ASSUME IInv PROVE ListsPartitionChunks
  <2> DEFINE U == LiveChunks(chunk)
  <2>1. PICK Q, F : /\ Lists(chunk, lvl, freeChunk, used, U, Q, F)
                    /\ \A l \in Levels : List(l) = Q[l]
                    /\ FreeList = F
    BY <1>1, ListsAre
  <2>2. InUse = U /\ used \in 0 .. Cap
    BY <1>1, InUseIsLive DEF IInv, Good
  <2> HIDE DEF U
  <2>3. /\ F \in Seq(Chunks) /\ ToSet(F) = {F[i] : i \in 1 .. Len(F)}
        /\ \A i, j \in 1 .. Len(F) : F[i] = F[j] => i = j
    BY <2>1 DEF Lists, IsChain, ToSet
  <2>4. ASSUME NEW l \in Levels
        PROVE  /\ Q[l] \in Seq(Chunks) /\ Len(Q[l]) \in Nat
               /\ ToSet(Q[l]) = {Q[l][i] : i \in 1 .. Len(Q[l])}
               /\ \A i, j \in 1 .. Len(Q[l]) : Q[l][i] = Q[l][j] => i = j
               /\ IsLevelList(chunk, lvl[l], l, Q[l])
    BY <2>1 DEF Lists, IsLevelList, IsChain, ToSet
  <2>5. U \cup ToSet(F) = 0 .. (used - 1)
    <3>1. \A c \in U : c \in Chunks /\ c < used
      BY <2>1 DEF Lists
    <3>2. \A c \in ToSet(F) : c \in Chunks /\ c < used
      BY <2>1, <2>3 DEF Lists
    <3>3. \A c \in Chunks : c < used <=> c \in 0 .. (used - 1)
      BY <2>2, ChunksFacts
    <3>4. 0 .. (used - 1) \subseteq Chunks
      BY <2>2, ChunksFacts DEF Chunks
    <3>5. \A c \in Chunks : c < used => c \in U \/ c \in ToSet(F)
      BY <2>1, <2>3 DEF Lists
    <3>. QED BY <3>1, <3>2, <3>3, <3>4, <3>5
  <2>6. U \cap ToSet(F) = {}
    BY <2>1, <2>3 DEF Lists
  <2>7. IsInjective(F)
    BY <2>3 DEF IsInjective
  <2>8. ASSUME NEW l \in Levels
        PROVE  /\ IsInjective(Q[l])
               /\ lvl[l].tail = IF Q[l] = <<>> THEN NIL ELSE Last(Q[l])
               /\ \A i \in 1 .. Len(Q[l]) :
                     /\ chunk[Q[l][i]].level = l
                     /\ chunk[Q[l][i]].prev = IF i = 1 THEN NIL ELSE Q[l][i - 1]
    <3> DEFINE q == Q[l]
    <3>1. /\ q \in Seq(Chunks) /\ \A i, j \in 1 .. Len(q) : q[i] = q[j] => i = j
          /\ IsLevelList(chunk, lvl[l], l, q)
      BY <2>4
    <3> HIDE DEF q
    <3>2. IsInjective(q)
      BY <3>1 DEF IsInjective
    <3>3. Last(q) = q[Len(q)]
      BY DEF Last
    <3>. QED BY <3>1, <3>2, <3>3 DEF IsLevelList, q
  <2>9. ASSUME NEW l \in Levels, NEW m \in Levels \ {l} PROVE ToSet(Q[l]) \cap ToSet(Q[m]) = {}
    <3>1. ASSUME NEW x \in Levels, NEW c \in ToSet(Q[x]) PROVE chunk[c].level = x
      <4> DEFINE q == Q[x]
      <4>1. q \in Seq(Chunks) /\ \A i \in 1 .. Len(q) : chunk[q[i]].level = x
        BY <2>4, <2>8
      <4>2. c \in ToSet(q)
        OBVIOUS
      <4> HIDE DEF q
      <4>3. PICK i \in 1 .. Len(q) : c = q[i]
        BY <4>1, <4>2 DEF ToSet
      <4>. QED BY <4>1, <4>3
    <3>. QED BY <3>1
  <2>10. /\ InUse \cup ToSet(FreeList) = 0 .. (used - 1)
         /\ InUse \cap ToSet(FreeList) = {} /\ IsInjective(FreeList)
    BY <2>1, <2>2, <2>5, <2>6, <2>7
  <2>11. ASSUME NEW l \in Levels
         PROVE  LET q == List(l)
                IN  /\ IsInjective(q)
                    /\ \A m \in Levels \ {l} : ToSet(q) \cap ToSet(List(m)) = {}
                    /\ lvl[l].tail = IF q = <<>> THEN NIL ELSE Last(q)
                    /\ \A i \in 1 .. Len(q) :
                          /\ chunk[q[i]].level = l
                          /\ chunk[q[i]].prev = IF i = 1 THEN NIL ELSE q[i - 1]
    <3>1. List(l) = Q[l]
      BY <2>1
    <3>2. \A m \in Levels \ {l} : ToSet(Q[l]) \cap ToSet(List(m)) = {}
      BY <2>1, <2>9
    <3>. QED BY <2>8, <3>1, <3>2
  <2>. QED BY <2>10, <2>11 DEF ListsPartitionChunks
<1>2. Spec => []IInv
  BY Invariance
<1>. QED BY <1>1, <1>2, PTL

\* Every loc of the order map leads to its order, every live slot is between its
\* chunk's cursor and tail and has a loc, and the counters count them.
THEOREM LocsLeadToSlots == Spec => []SlotsMatchLocs
<1>1. ASSUME IInv PROVE SlotsMatchLocs
  <2> DEFINE U == LiveChunks(chunk)
  <2>1. /\ chunk \in [Chunks -> ChunkValues] /\ Placed(chunk, loc)
        /\ live = Cardinality(DOMAIN loc) /\ InUse = U
    BY <1>1, InUseIsLive DEF IInv, Good
  <2>2. ASSUME NEW id \in LiveOrders
        PROVE  loc[id].chunk \in InUse /\ SlotOf(id).id = id /\ SlotOf(id).qty # 0
    <3>1. id \in DOMAIN loc
      BY DEF LiveOrders
    <3>2. SlotOf(id) = SlotAt(chunk, loc[id])
      BY DEF SlotOf, SlotAt
    <3>. QED BY <2>1, <3>1, <3>2, LocFacts DEF Placed
  <2>3. \A c \in Chunks : LiveSlots(c) = Alive(chunk[c])
    BY DEF LiveSlots, Alive
  <2>4. ASSUME NEW c \in InUse
        PROVE  /\ LiveSlots(c) # {}
               /\ LiveSlots(c) \subseteq chunk[c].head .. (chunk[c].tail - 1)
               /\ chunk[c].live = Cardinality(LiveSlots(c))
               /\ \A i \in LiveSlots(c) :
                     /\ chunk[c].s[i].id \in LiveOrders
                     /\ loc[chunk[c].s[i].id] = [chunk |-> c, slot |-> i]
    <3>1. c \in Chunks /\ c \in U /\ LiveSlots(c) = Alive(chunk[c]) /\ Alive(chunk[c]) # {}
      BY <2>1, <2>3 DEF LiveChunks
    <3>2. \A i \in Alive(chunk[c]) :
              /\ i \in Slots /\ chunk[c].head <= i /\ i < chunk[c].tail
              /\ chunk[c].s[i].id \in DOMAIN loc
              /\ loc[chunk[c].s[i].id] = [chunk |-> c, slot |-> i]
      BY <2>1, <3>1 DEF Placed, Alive
    <3>3. chunk[c].head \in Slots /\ chunk[c].tail \in 0 .. ChunkSlots
      BY <2>1, <3>1 DEF ChunkValues
    <3>4. Alive(chunk[c]) \subseteq chunk[c].head .. (chunk[c].tail - 1)
      <4> DEFINE h == chunk[c].head
                 t == chunk[c].tail
      <4>a. h \in Slots /\ t \in 0 .. ChunkSlots
        BY <3>3
      <4>b. \A i \in Alive(chunk[c]) : i \in Slots /\ h <= i /\ i < t
        BY <3>2
      <4> HIDE DEF h, t
      <4>1. h \in Int /\ t \in Int
        BY <4>a, SlotsFacts
      <4>2. ASSUME NEW i \in Alive(chunk[c]) PROVE i \in Int /\ h <= i /\ i < t
        <5>1. i \in Slots /\ h <= i /\ i < t
          BY <4>b
        <5>. QED BY <5>1, SlotsFacts
      <4>3. Alive(chunk[c]) \subseteq h .. (t - 1)
        BY <4>1, <4>2
      <4>. QED BY <4>3 DEF h, t
    <3>5. chunk[c].live = Cardinality(Alive(chunk[c]))
      BY <2>1, <3>1 DEF Placed
    <3>. QED BY <3>1, <3>2, <3>4, <3>5 DEF LiveOrders
  <2>5. \A c \in Chunks \ InUse : LiveSlots(c) = {}
    BY <2>1, <2>3 DEF LiveChunks
  <2>. QED BY <2>1, <2>2, <2>4, <2>5 DEF SlotsMatchLocs, LiveOrders
<1>2. Spec => []IInv
  BY Invariance
<1>. QED BY <1>1, <1>2, PTL

\* What allocChunk relies on when it takes the next chunk without a check: chunks in
\* use never exceed live orders, so the slab made for MaxOrders always has one left.
THEOREM SlabSuffices == Spec => []ChunksWithinLiveOrders
<1>1. ASSUME IInv PROVE ChunksWithinLiveOrders
  <2> DEFINE U == LiveChunks(chunk)
  <2>1. /\ Placed(chunk, loc) /\ IsFiniteSet(DOMAIN loc) /\ live = Cardinality(DOMAIN loc)
        /\ used \in 0 .. Cap /\ used <= len /\ freeChunk \in Links
        /\ Linked(chunk, lvl, freeChunk, used, U)
    BY <1>1 DEF IInv, Good
  <2>2. Cardinality(InUse) <= live
    BY <1>1, <2>1, InUseIsLive, ChunksWithinOrders
  <2>3. ASSUME live < MaxOrders PROVE NextChunk < Cap
    <3>1. Cardinality(DOMAIN loc) < MaxOrders
      BY <2>1, <2>3
    <3>2. /\ freeChunk = NIL => used < Cap
          /\ freeChunk # NIL => freeChunk \in Chunks
      BY <2>1, <3>1, RoomLeft
    <3>3. \A c \in Chunks : c < Cap
      BY ChunksFacts DEF Chunks
    <3>. QED BY <3>2, <3>3 DEF NextChunk
  <2>. QED BY <2>1, <2>2, <2>3 DEF ChunksWithinLiveOrders
<1>2. Spec => []IInv
  BY Invariance
<1>. QED BY <1>1, <1>2, PTL

\* A level's running total is the sum of its live orders' quantities, as a uint64.
THEOREM TotalsAreSums == Spec => []TotalsMatch
<1>1. ASSUME IInv PROVE TotalsMatch
  <2>1. TotalsAre(chunk, loc, lvl)
    BY <1>1 DEF IInv, Good
  <2>2. ASSUME NEW l \in Levels
        PROVE  Total(chunk, loc, l) =
                   SumFunctionOnSet([id \in LiveOrders |-> SlotOf(id).qty],
                                    {id \in LiveOrders : LevelOf(id) = l})
    BY DEF Total, SlotAt, SlotOf, LevelOf, LiveOrders
  <2>. QED BY <2>1, <2>2 DEF TotalsAre, TotalsMatch
<1>2. Spec => []IInv
  BY Invariance
<1>. QED BY <1>1, <1>2, PTL

-----------------------------------------------------------------------------
(* The levels as queues *)

\* The lists are what the walks from the levels' heads pass.
ListsNamed ==
    \A Q, F : Lists(chunk, lvl, freeChunk, used, LiveChunks(chunk), Q, F) =>
                  \A l \in Levels : List(l) = Q[l]

LEMMA ListsAreNamed == IInv => ListsNamed
<1> SUFFICES ASSUME IInv, NEW Q, NEW F,
                    Lists(chunk, lvl, freeChunk, used, LiveChunks(chunk), Q, F),
                    NEW l \in Levels
             PROVE  List(l) = Q[l]
  BY DEF ListsNamed
<1>1. \A c \in Chunks : chunk[c].next \in Links
  BY DEF IInv, Good, ChunkValues
<1>2. IsChain(chunk, Q[l], lvl[l].head)
  BY DEF Lists, IsLevelList
<1>. QED BY <1>1, <1>2, FromIs DEF List

\* Lists Q and R have the chunks they share in the same order.
SameTurns(Q, R) ==
    \A m \in Levels : \A i, j \in 1 .. Len(Q[m]) : \A x, y \in 1 .. Len(R[m]) :
        Q[m][i] = R[m][x] /\ Q[m][j] = R[m][y] =>
            (i < j <=> x < y) /\ (i = j <=> x = y)

\* No list has a chunk twice.
Once(Q) == \A m \in Levels : /\ Q[m] \in Seq(Chunks)
                             /\ \A i, j \in 1 .. Len(Q[m]) : Q[m][i] = Q[m][j] => i = j

LEMMA ListsOnce ==
    ASSUME NEW ch, NEW lv, NEW fr, NEW us, NEW U, NEW Q, NEW F, Lists(ch, lv, fr, us, U, Q, F)
    PROVE  Once(Q) /\ Q \in [Levels -> Seq(Chunks)]
BY DEF Lists, IsLevelList, IsChain, Once

LEMMA TurnsGrown ==
    ASSUME NEW Q \in [Levels -> Seq(Chunks)], NEW R, Once(Q), Once(R),
           NEW l, NEW c \in Chunks, Grown(Q, R, l, c)
    PROVE  SameTurns(Q, R)
<1> SUFFICES ASSUME NEW m \in Levels, NEW i \in 1 .. Len(Q[m]), NEW j \in 1 .. Len(Q[m]),
                    NEW x \in 1 .. Len(R[m]), NEW y \in 1 .. Len(R[m]),
                    Q[m][i] = R[m][x], Q[m][j] = R[m][y]
             PROVE  i = x /\ j = y
  BY DEF SameTurns
<1>1. Q[m] \in Seq(Chunks) /\ Len(Q[m]) \in Nat
  OBVIOUS
<1>2. R[m] = Q[m] \/ R[m] = Append(Q[m], c)
  BY DEF Grown
<1>3. ASSUME NEW k \in 1 .. Len(Q[m]) PROVE k \in 1 .. Len(R[m]) /\ R[m][k] = Q[m][k]
  <2>1. CASE R[m] = Q[m]
    BY <2>1
  <2>2. CASE R[m] = Append(Q[m], c)
    <3> DEFINE q == Q[m]
    <3>1. q \in Seq(Chunks) /\ k \in 1 .. Len(q) /\ Len(q) \in Nat /\ R[m] = Append(q, c)
      BY <1>1, <2>2
    <3> HIDE DEF q
    <3>2. Len(Append(q, c)) = Len(q) + 1 /\ Append(q, c)[k] = q[k]
      BY <3>1
    <3>. QED BY <3>1, <3>2 DEF q
  <2>. QED BY <1>2, <2>1, <2>2
<1>4. R[m][i] = R[m][x] /\ R[m][j] = R[m][y] /\ i \in 1 .. Len(R[m]) /\ j \in 1 .. Len(R[m])
  BY <1>3
<1>. QED BY <1>4 DEF Once

LEMMA TurnsLessened ==
    ASSUME NEW Q \in [Levels -> Seq(Chunks)], NEW R, Once(Q), Once(R),
           NEW l \in Levels, Lessened(Q, R, l)
    PROVE  SameTurns(Q, R)
<1> SUFFICES ASSUME NEW m \in Levels, NEW i \in 1 .. Len(Q[m]), NEW j \in 1 .. Len(Q[m]),
                    NEW x \in 1 .. Len(R[m]), NEW y \in 1 .. Len(R[m]),
                    Q[m][i] = R[m][x], Q[m][j] = R[m][y]
             PROVE  (i < j <=> x < y) /\ (i = j <=> x = y)
  BY DEF SameTurns
<1>1. Q[m] \in Seq(Chunks) /\ Len(Q[m]) \in Nat
  OBVIOUS
<1>2. CASE R[m] = Q[m]
  <2>1. i = x /\ j = y
    BY <1>2 DEF Once
  <2>. QED BY <2>1
<1>3. CASE R[m] # Q[m]
  <2>1. m = l /\ \E k \in 1 .. Len(Q[l]) : R = [Q EXCEPT ![l] = LessOne(Q[l], k)]
    BY <1>3 DEF Lessened
  <2>2. PICK k \in 1 .. Len(Q[m]) : R[m] = LessOne(Q[m], k)
    BY <2>1
  <2> DEFINE At(z) == IF z < k THEN z ELSE z + 1
  <2>3. /\ Len(R[m]) = Len(Q[m]) - 1
        /\ \A z \in 1 .. (Len(Q[m]) - 1) : R[m][z] = IF z < k THEN Q[m][z] ELSE Q[m][z + 1]
    BY <1>1, <2>2, LessOneFacts
  <2>4. \A z \in 1 .. (Len(Q[m]) - 1) : R[m][z] = Q[m][At(z)] /\ At(z) \in 1 .. Len(Q[m])
    BY <1>1, <2>3
  <2>5. At(x) = i /\ At(y) = j
    <3>1. x \in 1 .. (Len(Q[m]) - 1) /\ y \in 1 .. (Len(Q[m]) - 1)
      BY <2>3
    <3> HIDE DEF At
    <3>2. /\ Q[m][At(x)] = Q[m][i] /\ At(x) \in 1 .. Len(Q[m])
          /\ Q[m][At(y)] = Q[m][j] /\ At(y) \in 1 .. Len(Q[m])
      BY <2>4, <3>1
    <3>. QED BY <3>2 DEF Once
  <2>6. x \in Int /\ y \in Int /\ k \in Int
    BY <1>1, <2>3
  <2>. QED BY <2>5, <2>6
<1>. QED BY <1>2, <1>3

\* Where a chunk with a live order is in its level's list.
LEMMA PlaceInList ==
    ASSUME NEW ch, NEW lv, NEW fr, NEW us, NEW Q, NEW F, NEW lc,
           Lists(ch, lv, fr, us, LiveChunks(ch), Q, F),
           ch \in [Chunks -> ChunkValues], Placed(ch, lc), NEW id \in DOMAIN lc
    PROVE  /\ ch[lc[id].chunk].level \in Levels
           /\ \E i \in 1 .. Len(Q[ch[lc[id].chunk].level]) :
                  Q[ch[lc[id].chunk].level][i] = lc[id].chunk
<1>1. lc[id].chunk \in LiveChunks(ch)
  BY LocFacts
<1>. QED BY <1>1 DEF Lists

\* Orders that stay where they are keep their turns.
LEMMA TurnsFollow ==
    ASSUME IInv, IInv', NEW Q, NEW F, NEW R, NEW G,
           Lists(chunk, lvl, freeChunk, used, LiveChunks(chunk), Q, F),
           Lists(chunk', lvl', freeChunk', used', LiveChunks(chunk'), R, G),
           SameTurns(Q, R), NEW ids, ids \subseteq DOMAIN loc, ids \subseteq DOMAIN loc',
           \A x \in ids : /\ loc'[x] = loc[x]
                          /\ chunk'[loc[x].chunk].level = chunk[loc[x].chunk].level
    PROVE  TurnsKept(ids)
<1>1. /\ \A l \in Levels : List(l) = Q[l]
      /\ \A l \in Levels : List(l)' = R[l]
  <2>1. ListsNamed /\ ListsNamed'
    <3>1. ListsNamed
      BY ListsAreNamed
    <3>2. ListsNamed'
      BY ListsAreNamed, PTL
    <3>. QED BY <3>1, <3>2
  <2>. QED BY <2>1 DEF ListsNamed
<1>2. /\ chunk \in [Chunks -> ChunkValues] /\ Placed(chunk, loc)
      /\ chunk' \in [Chunks -> ChunkValues] /\ Placed(chunk', loc')
  BY DEF IInv, Good
<1>2a. ASSUME NEW id \in DOMAIN loc
       PROVE  /\ chunk[loc[id].chunk].level \in Levels
              /\ \E i \in 1 .. Len(Q[chunk[loc[id].chunk].level]) :
                     Q[chunk[loc[id].chunk].level][i] = loc[id].chunk
  BY <1>2, PlaceInList
<1>2b. ASSUME NEW id \in DOMAIN loc'
       PROVE  /\ chunk'[loc'[id].chunk].level \in Levels
              /\ \E i \in 1 .. Len(R[chunk'[loc'[id].chunk].level]) :
                     R[chunk'[loc'[id].chunk].level][i] = loc'[id].chunk
  BY <1>2, PlaceInList
<1>3. ASSUME NEW a \in ids, NEW b \in ids PROVE Before(a, b)' <=> Before(a, b)
  <2> DEFINE c == loc[a].chunk
             d == loc[b].chunk
  <2>0. PICK m : m = LevelOf(a)
    OBVIOUS
  <2>1. /\ a \in DOMAIN loc /\ b \in DOMAIN loc /\ a \in DOMAIN loc' /\ b \in DOMAIN loc'
        /\ loc'[a] = loc[a] /\ loc'[b] = loc[b]
        /\ chunk[c].level = m /\ chunk'[loc'[a].chunk].level = m
        /\ chunk[d].level = LevelOf(b) /\ chunk'[loc'[b].chunk].level = LevelOf(b)
        /\ LevelOf(a)' = m /\ LevelOf(b)' = LevelOf(b)
    BY <1>3, <2>0 DEF LevelOf
  <2>2. /\ m \in Levels /\ \E i \in 1 .. Len(Q[m]) : Q[m][i] = c
        /\ \E x \in 1 .. Len(R[m]) : R[m][x] = c
    <3>1. m \in Levels /\ \E i \in 1 .. Len(Q[m]) : Q[m][i] = c
      BY <1>2a, <2>1
    <3>2. \E x \in 1 .. Len(R[m]) : R[m][x] = c
      BY <1>2b, <2>1
    <3>. QED BY <3>1, <3>2
  <2>3. LevelOf(b) = m => /\ \E j \in 1 .. Len(Q[m]) : Q[m][j] = d
                          /\ \E y \in 1 .. Len(R[m]) : R[m][y] = d
    <3>1. LevelOf(b) = m => \E j \in 1 .. Len(Q[m]) : Q[m][j] = d
      BY <1>2a, <2>1
    <3>2. LevelOf(b) = m => \E y \in 1 .. Len(R[m]) : R[m][y] = d
      BY <1>2b, <2>1
    <3>. QED BY <3>1, <3>2
  <2>4. Before(a, b) <=>
            /\ m = LevelOf(b)
            /\ \E i, j \in 1 .. Len(Q[m]) :
                  /\ Q[m][i] = c /\ Q[m][j] = d
                  /\ i < j \/ (i = j /\ loc[a].slot < loc[b].slot)
    BY <1>1, <2>0, <2>2 DEF Before
  <2>5. Before(a, b)' <=>
            /\ m = LevelOf(b)
            /\ \E x, y \in 1 .. Len(R[m]) :
                  /\ R[m][x] = c /\ R[m][y] = d
                  /\ x < y \/ (x = y /\ loc[a].slot < loc[b].slot)
    <3>1. List(m)' = R[m]
      BY <1>1, <2>2
    <3>. QED BY <2>1, <3>1 DEF Before
  <2> HIDE DEF c, d
  <2>6. CASE m = LevelOf(b)
    <3>1. PICK i \in 1 .. Len(Q[m]), j \in 1 .. Len(Q[m]) : Q[m][i] = c /\ Q[m][j] = d
      BY <2>2, <2>3, <2>6
    <3>2. PICK x \in 1 .. Len(R[m]), y \in 1 .. Len(R[m]) : R[m][x] = c /\ R[m][y] = d
      BY <2>2, <2>3, <2>6
    <3>3. (i < j <=> x < y) /\ (i = j <=> x = y)
      <4>1. Q[m][i] = R[m][x] /\ Q[m][j] = R[m][y]
        BY <3>1, <3>2
      <4>2. m \in Levels
        BY <2>2
      <4>. QED BY <4>1, <4>2 DEF SameTurns
    <3>4. Once(Q) /\ Once(R)
      BY ListsOnce
    <3>5. /\ \A z \in 1 .. Len(Q[m]) : (Q[m][z] = c => z = i) /\ (Q[m][z] = d => z = j)
          /\ \A z \in 1 .. Len(R[m]) : (R[m][z] = c => z = x) /\ (R[m][z] = d => z = y)
      <4>1. m \in Levels
        BY <2>2
      <4>2. \A z \in 1 .. Len(Q[m]) : (Q[m][z] = c => z = i) /\ (Q[m][z] = d => z = j)
        BY <3>1, <3>4, <4>1 DEF Once
      <4>3. \A z \in 1 .. Len(R[m]) : (R[m][z] = c => z = x) /\ (R[m][z] = d => z = y)
        BY <3>2, <3>4, <4>1 DEF Once
      <4>. QED BY <4>2, <4>3
    <3>6. Before(a, b) <=> i < j \/ (i = j /\ loc[a].slot < loc[b].slot)
      BY <2>4, <2>6, <3>1, <3>5
    <3>7. Before(a, b)' <=> x < y \/ (x = y /\ loc[a].slot < loc[b].slot)
      BY <2>5, <2>6, <3>2, <3>5
    <3>. QED BY <3>3, <3>6, <3>7
  <2>7. CASE m # LevelOf(b)
    BY <2>4, <2>5, <2>7
  <2>. QED BY <2>6, <2>7
<1>4. \A a \in ids : a \in LiveOrders' /\ LevelOf(a)' = LevelOf(a)
  BY DEF LiveOrders, LevelOf
<1>. QED BY <1>3, <1>4 DEF TurnsKept

\* An order that has joined comes last, and nothing else has changed.
LEMMA JoinedIsLast ==
    ASSUME IInv, IInv', NEW l \in Levels, NEW id, NEW qty, Joins(l, id, qty)
    PROVE  /\ LiveOrders' = LiveOrders \cup {id}
           /\ LevelOf(id)' = l /\ SlotOf(id).qty' = qty
           /\ \A a \in Queue(l) : Before(a, id)'
           /\ TurnsKept(LiveOrders) /\ QuantitiesKept(LiveOrders)
<1> DEFINE c == loc'[id].chunk
<1>1. /\ id \notin DOMAIN loc /\ DOMAIN loc' = DOMAIN loc \cup {id}
      /\ \A x \in DOMAIN loc : /\ loc'[x] = loc[x]
                               /\ SlotAt(chunk', loc[x]).qty = SlotAt(chunk, loc[x]).qty
                               /\ chunk'[loc[x].chunk].level = chunk[loc[x].chunk].level
      /\ c = lvl'[l].tail /\ chunk'[c].level = l /\ c \in Chunks
      /\ chunk'[c].tail = loc'[id].slot + 1
      /\ SlotAt(chunk', loc'[id]).qty = qty
  BY DEF Joins
<1>2. PICK Q, F : Lists(chunk, lvl, freeChunk, used, LiveChunks(chunk), Q, F)
  BY DEF IInv, Good, Linked
<1>3. PICK R, G : /\ Lists(chunk', lvl', freeChunk', used', LiveChunks(chunk'), R, G)
                  /\ Grown(Q, R, l, c)
  BY <1>2 DEF Joins
<1>4. LiveOrders' = LiveOrders \cup {id} /\ LevelOf(id)' = l /\ SlotOf(id).qty' = qty
  BY <1>1 DEF LiveOrders, LevelOf, SlotOf, SlotAt
<1>5. QuantitiesKept(LiveOrders)
  BY <1>1 DEF QuantitiesKept, LiveOrders, SlotOf, SlotAt
<1>6. TurnsKept(LiveOrders)
  <2>1. SameTurns(Q, R)
    BY <1>1, <1>2, <1>3, ListsOnce, TurnsGrown
  <2>2. DOMAIN loc \subseteq DOMAIN loc'
    BY <1>1
  <2>3. TurnsKept(DOMAIN loc)
    BY <1>1, <1>2, <1>3, <2>1, <2>2, TurnsFollow
  <2>. QED BY <2>3 DEF LiveOrders
<1>7. /\ chunk' \in [Chunks -> ChunkValues] /\ Placed(chunk', loc')
      /\ R[l] \in Seq(Chunks) /\ R[l] # <<>> /\ R[l][Len(R[l])] = c
  <2>1. chunk' \in [Chunks -> ChunkValues] /\ Placed(chunk', loc')
    BY DEF IInv, Good
  <2>2. R[l] \in Seq(Chunks) /\ c = IF R[l] = <<>> THEN NIL ELSE R[l][Len(R[l])]
    BY <1>1, <1>3 DEF Lists, IsLevelList
  <2>. QED BY <1>1, <2>1, <2>2, ChunksFacts
<1>8. List(l)' = R[l]
  <2>1. ListsNamed'
    BY ListsAreNamed, PTL
  <2>. QED BY <1>3, <2>1 DEF ListsNamed
<1>9. ASSUME NEW a \in Queue(l) PROVE Before(a, id)'
  <2>1. /\ a \in DOMAIN loc /\ a \in DOMAIN loc' /\ id \in DOMAIN loc' /\ a # id
        /\ chunk'[loc'[a].chunk].level = l
    BY <1>1 DEF Queue, LiveOrders, LevelOf
  <2>2. PICK x \in 1 .. Len(R[l]) : R[l][x] = loc'[a].chunk
    BY <1>3, <1>7, <2>1, PlaceInList
  <2>3. x < Len(R[l]) \/ (x = Len(R[l]) /\ loc'[a].slot < loc'[id].slot)
    <3>1. x \in Int /\ Len(R[l]) \in Nat /\ x <= Len(R[l])
      BY <1>7
    <3>2. ASSUME x = Len(R[l]) PROVE loc'[a].slot < loc'[id].slot
      <4>1. loc'[a].chunk = c
        BY <1>7, <2>2, <3>2
      <4>2. /\ loc'[a] \in Places /\ loc'[id] \in Places
            /\ SlotAt(chunk', loc'[a]).id = a /\ SlotAt(chunk', loc'[id]).id = id
            /\ SlotAt(chunk', loc'[a]).qty # 0
        BY <1>7, <2>1 DEF Placed
      <4>3. loc'[a].slot # loc'[id].slot
        BY <2>1, <4>1, <4>2 DEF SlotAt
      <4>4. /\ loc'[a].slot \in Alive(chunk'[c]) /\ loc'[a].slot \in Slots
            /\ loc'[id].slot \in Slots
        BY <4>1, <4>2 DEF Alive, SlotAt, Places
      <4>5. c \in Chunks /\ chunk'[c].tail = loc'[id].slot + 1
        BY <1>1
      <4> HIDE DEF c
      <4>6. \A i \in Alive(chunk'[c]) : i < chunk'[c].tail
        BY <1>7, <4>5 DEF Placed
      <4> DEFINE i == loc'[a].slot
                 j == loc'[id].slot
      <4>7. i # j /\ i \in Slots /\ j \in Slots /\ i < j + 1
        BY <4>3, <4>4, <4>5, <4>6
      <4> HIDE DEF i, j
      <4>8. i < j
        BY <4>7, SlotsFacts
      <4>. QED BY <4>8 DEF i, j
    <3>. QED BY <3>1, <3>2
  <2>4. Len(R[l]) \in 1 .. Len(R[l])
    BY <1>7
  <2>5. LevelOf(a)' = l /\ LevelOf(id)' = l
    BY <1>4, <2>1 DEF LevelOf
  <2>. QED BY <1>7, <1>8, <2>2, <2>3, <2>4, <2>5 DEF Before
<1>. QED BY <1>4, <1>5, <1>6, <1>9

\* An order that has given something has at most lost its quantity or its place.
LEMMA GivesAlone ==
    ASSUME IInv, IInv', NEW l, NEW place, NEW n, Gives(l, place, n),
           NEW id, id = SlotAt(chunk, place).id
    PROVE  /\ id \in LiveOrders /\ loc[id] = place /\ LevelOf(id) = l
           /\ SlotOf(id) = SlotAt(chunk, place)
           /\ LiveOrders' = IF SlotOf(id).qty - n = 0 THEN LiveOrders \ {id} ELSE LiveOrders
           /\ SlotOf(id).qty - n # 0 => SlotOf(id).qty' = SlotOf(id).qty - n
           /\ TurnsKept(LiveOrders') /\ QuantitiesKept(LiveOrders' \ {id})
<1> DEFINE left == SlotAt(chunk, place).qty - n
<1>1. /\ id \in DOMAIN loc /\ loc[id] = place /\ chunk[place.chunk].level = l /\ l \in Levels
      /\ DOMAIN loc' = IF left = 0 THEN DOMAIN loc \ {id} ELSE DOMAIN loc
      /\ \A x \in DOMAIN loc' : /\ loc'[x] = loc[x]
                                /\ chunk'[loc[x].chunk].level = chunk[loc[x].chunk].level
      /\ \A x \in DOMAIN loc \ {id} : SlotAt(chunk', loc[x]).qty = SlotAt(chunk, loc[x]).qty
      /\ left # 0 => SlotAt(chunk', place).qty = left
  BY DEF Gives
<1>2. PICK Q, F : Lists(chunk, lvl, freeChunk, used, LiveChunks(chunk), Q, F)
  BY DEF IInv, Good, Linked
<1>3. PICK R, G : /\ Lists(chunk', lvl', freeChunk', used', LiveChunks(chunk'), R, G)
                  /\ Lessened(Q, R, l)
  BY <1>2 DEF Gives
<1>4. SlotOf(id) = SlotAt(chunk, place) /\ LevelOf(id) = l
  BY <1>1 DEF SlotOf, SlotAt, LevelOf
<1>5. SlotOf(id).qty - n = left
  BY <1>4
<1> HIDE DEF left
<1>6. LiveOrders' = IF left = 0 THEN LiveOrders \ {id} ELSE LiveOrders
  BY <1>1 DEF LiveOrders
<1>7. left # 0 => SlotOf(id).qty' = left
  <2>1. left # 0 => loc'[id] = place
    BY <1>1
  <2>. QED BY <1>1, <2>1 DEF SlotOf, SlotAt
<1>8. QuantitiesKept(LiveOrders' \ {id})
  BY <1>1 DEF QuantitiesKept, LiveOrders, SlotOf, SlotAt
<1>9. TurnsKept(LiveOrders')
  <2>1. SameTurns(Q, R)
    BY <1>1, <1>2, <1>3, ListsOnce, TurnsLessened
  <2>2. DOMAIN loc' \subseteq DOMAIN loc
    BY <1>1
  <2>3. TurnsKept(DOMAIN loc')
    BY <1>1, <1>2, <1>3, <2>1, <2>2, TurnsFollow
  <2>. QED BY <2>3 DEF LiveOrders
<1>. QED BY <1>1, <1>4, <1>5, <1>6, <1>7, <1>8, <1>9 DEF LiveOrders

\* The order at the cursor comes first.
LEMMA FrontIsFirst ==
    ASSUME IInv, NEW l \in Levels, lvl[l].head \in LiveChunks(chunk),
           NEW front \in LiveOrders, loc[front] = FrontPlace(l), LevelOf(front) = l
    PROVE  \A a \in Queue(l) \ {front} : Before(front, a)
<1> DEFINE c == lvl[l].head
           h == FrontSlot(c)
<1>1. PICK Q, F : Lists(chunk, lvl, freeChunk, used, LiveChunks(chunk), Q, F)
  BY DEF IInv, Good, Linked
<1>2. chunk \in [Chunks -> ChunkValues] /\ Placed(chunk, loc)
  BY DEF IInv, Good
<1>3. c \in Chunks /\ h \in Alive(chunk[c]) /\ \A i \in Alive(chunk[c]) : h <= i
  BY <1>2, FrontSlotFacts DEF LiveChunks
<1>4. loc[front].chunk = c /\ loc[front].slot = h
  BY DEF FrontPlace
<1> HIDE DEF h
<1>5. Q[l] \in Seq(Chunks) /\ 1 \in 1 .. Len(Q[l]) /\ Q[l][1] = c
  <2>1. Q[l] \in Seq(Chunks) /\ c = IF Q[l] = <<>> THEN NIL ELSE Q[l][1]
    BY <1>1 DEF Lists, IsLevelList, IsChain
  <2> HIDE DEF c
  <2>2. Q[l] # <<>> /\ Q[l][1] = c
    BY <1>3, <2>1, ChunksFacts
  <2>. QED BY <2>1, <2>2
<1> HIDE DEF c
<1>6. List(l) = Q[l]
  BY <1>1, ListsAreNamed DEF ListsNamed
<1>7. ASSUME NEW a \in Queue(l) \ {front} PROVE Before(front, a)
  <2>1. a \in DOMAIN loc /\ a # front /\ LevelOf(a) = l /\ chunk[loc[a].chunk].level = l
        /\ front \in DOMAIN loc
    BY DEF Queue, LevelOf, LiveOrders
  <2>2. PICK j \in 1 .. Len(Q[l]) : Q[l][j] = loc[a].chunk
    BY <1>1, <1>2, <2>1, PlaceInList
  <2>3. 1 < j \/ (1 = j /\ loc[front].slot < loc[a].slot)
    <3>1. j \in Int /\ 1 <= j
      BY <1>5
    <3>2. ASSUME j = 1 PROVE h < loc[a].slot
      <4>1. loc[a].chunk = c
        BY <1>5, <2>2, <3>2
      <4>2. /\ loc[a] \in Places /\ SlotAt(chunk, loc[a]).id = a /\ SlotAt(chunk, loc[a]).qty # 0
            /\ SlotAt(chunk, loc[front]).id = front
        BY <1>2, <2>1 DEF Placed
      <4>3. loc[a].slot # h
        BY <1>4, <2>1, <4>1, <4>2 DEF SlotAt
      <4>4. loc[a].slot \in Alive(chunk[c]) /\ loc[a].slot \in Slots /\ h \in Slots
        BY <1>3, <4>1, <4>2 DEF Alive, SlotAt, Places
      <4>5. h <= loc[a].slot
        BY <1>3, <4>4
      <4> DEFINE i == loc[a].slot
      <4>6. i # h /\ i \in Slots /\ h \in Slots /\ h <= i
        BY <4>3, <4>4, <4>5
      <4> HIDE DEF i
      <4>7. h < i
        BY <4>6, SlotsFacts
      <4>. QED BY <4>7 DEF i
    <3>. QED BY <1>4, <3>1, <3>2
  <2>. QED BY <1>4, <1>5, <1>6, <2>1, <2>2, <2>3 DEF Before
<1>. QED BY <1>7

\* What one step does to the levels as queues.
LEMMA PushQueues ==
    ASSUME IInv, NEW l \in Levels, NEW id \in OrderIds, NEW qty \in Qtys, Push(l, id, qty)
    PROVE  /\ LiveOrders' = LiveOrders \cup {id}
           /\ LevelOf(id)' = l /\ SlotOf(id).qty' = qty
           /\ \A a \in Queue(l) : Before(a, id)'
           /\ TurnsKept(LiveOrders) /\ QuantitiesKept(LiveOrders)
<1>1. IInv' /\ Joins(l, id, qty)
  BY QuantitiesFacts, PushInv
<1>. QED BY <1>1, JoinedIsLast

LEMMA UnlinkQueues ==
    ASSUME IInv, NEW id \in LiveOrders, Unlink(id)
    PROVE  /\ LiveOrders' = LiveOrders \ {id}
           /\ TurnsKept(LiveOrders \ {id}) /\ QuantitiesKept(LiveOrders \ {id})
<1> DEFINE n == SlotOf(id).qty
<1>1. /\ Spends(chunk, LevelOf(id), loc[id], n) /\ Spend(chunk, LevelOf(id), loc[id], n)
      /\ n \in 1 .. (QtyMod - 1)
  BY UnlinkTakes, OrderSpends DEF Unlink
<1>2. IInv' /\ Gives(LevelOf(id), loc[id], n)
  BY <1>1, SpendInv
<1>3. id = SlotAt(chunk, loc[id]).id
  BY DEF IInv, Good, Placed, LiveOrders
<1> HIDE DEF n
<1>4. /\ LiveOrders' = IF SlotOf(id).qty - n = 0 THEN LiveOrders \ {id} ELSE LiveOrders
      /\ TurnsKept(LiveOrders') /\ QuantitiesKept(LiveOrders' \ {id})
  BY <1>2, <1>3, GivesAlone
<1>5. SlotOf(id).qty - n = 0
  <2>1. n - n = 0
    BY <1>1, SlotsFacts
  <2>. QED BY <2>1 DEF n
<1>6. LiveOrders' = LiveOrders \ {id} /\ LiveOrders' \ {id} = LiveOrders \ {id}
  BY <1>4, <1>5
<1>. QED BY <1>4, <1>6

LEMMA ShrinkQueues ==
    ASSUME IInv, NEW id \in LiveOrders, NEW qty \in Qtys, Shrink(id, qty)
    PROVE  /\ LiveOrders' = LiveOrders /\ SlotOf(id).qty' = qty
           /\ TurnsKept(LiveOrders) /\ QuantitiesKept(LiveOrders \ {id})
<1> DEFINE old == SlotOf(id).qty
           n == old - qty
<1>1. /\ Spends(chunk, LevelOf(id), loc[id], n) /\ Spend(chunk, LevelOf(id), loc[id], n)
      /\ old \in 1 .. (QtyMod - 1) /\ qty \in 1 .. (QtyMod - 1)
  BY ShrinkTakes, OrderSpends, QtysAssumption DEF Shrink
<1>2. IInv' /\ Gives(LevelOf(id), loc[id], n)
  BY <1>1, SpendInv
<1>3. id = SlotAt(chunk, loc[id]).id
  BY DEF IInv, Good, Placed, LiveOrders
<1> HIDE DEF n
<1>4. /\ LiveOrders' = IF old - n = 0 THEN LiveOrders \ {id} ELSE LiveOrders
      /\ old - n # 0 => SlotOf(id).qty' = old - n
      /\ TurnsKept(LiveOrders') /\ QuantitiesKept(LiveOrders' \ {id})
  BY <1>2, <1>3, GivesAlone
<1>5. old - n = qty /\ qty # 0
  <2> HIDE DEF old
  <2>. QED BY <1>1, SlotsFacts DEF n
<1> HIDE DEF old
<1>6. LiveOrders' = LiveOrders /\ SlotOf(id).qty' = qty
  BY <1>4, <1>5
<1>. QED BY <1>4, <1>6

LEMMA FillQueues ==
    ASSUME IInv, NEW l \in Levels, NEW n \in Qtys, Fill(l, n)
    PROVE  \E front \in Queue(l) :
               /\ \A a \in Queue(l) \ {front} : Before(front, a)
               /\ IF n = SlotOf(front).qty THEN LiveOrders' = LiveOrders \ {front}
                  ELSE /\ LiveOrders' = LiveOrders
                       /\ SlotOf(front).qty' = SlotOf(front).qty - n
               /\ TurnsKept(LiveOrders') /\ QuantitiesKept(LiveOrders \ {front})
<1>0. n \in Quantities
  BY QuantitiesFacts
<1>1. /\ lvl[l].head \in LiveChunks(chunk)
      /\ Spends(CursorMoved(l), l, FrontPlace(l), n)
      /\ Spend(CursorMoved(l), l, FrontPlace(l), n)
  BY <1>0, FillTakes
<1>2. IInv' /\ Gives(l, FrontPlace(l), n)
  BY <1>1, SpendInv
<1>3. PICK front : front = SlotAt(chunk, FrontPlace(l)).id
  OBVIOUS
<1>4. /\ front \in LiveOrders /\ loc[front] = FrontPlace(l) /\ LevelOf(front) = l
      /\ LiveOrders' = IF SlotOf(front).qty - n = 0 THEN LiveOrders \ {front} ELSE LiveOrders
      /\ SlotOf(front).qty - n # 0 => SlotOf(front).qty' = SlotOf(front).qty - n
      /\ TurnsKept(LiveOrders') /\ QuantitiesKept(LiveOrders' \ {front})
  BY <1>2, <1>3, GivesAlone
<1>5. front \in Queue(l) /\ \A a \in Queue(l) \ {front} : Before(front, a)
  BY <1>1, <1>4, FrontIsFirst DEF Queue
<1> DEFINE old == SlotOf(front).qty
<1>6. old \in 1 .. (QtyMod - 1) /\ n \in 1 .. (QtyMod - 1)
  BY <1>4, OrderSpends, QtysAssumption
<1>7. old - n = 0 <=> n = old
  <2> HIDE DEF old
  <2>. QED BY <1>6, SlotsFacts
<1>8. LiveOrders' \ {front} = LiveOrders \ {front}
  BY <1>4
<1>. QED BY <1>4, <1>5, <1>7, <1>8

LEMMA PrefaultQueues ==
    ASSUME IInv, Prefault
    PROVE  LiveOrders' = LiveOrders /\ TurnsKept(LiveOrders) /\ QuantitiesKept(LiveOrders)
<1>1. IInv'
  BY PrefaultInv
<1>2. /\ chunk' = [x \in Chunks |-> IF x >= used /\ (x - used) % TouchStride = 0
                                    THEN [chunk[x] EXCEPT !.live = 0] ELSE chunk[x]]
      /\ lvl' = lvl /\ loc' = loc /\ used' = used /\ freeChunk' = freeChunk
  BY DEF Prefault
<1>3. chunk \in [Chunks -> ChunkValues] /\ Placed(chunk, loc)
  BY DEF IInv, Good
<1>4. \A x \in Chunks : SameLinks(chunk', chunk, x) /\ chunk'[x].s = chunk[x].s
  BY <1>2, <1>3 DEF SameLinks, ChunkValues
<1>5. LiveChunks(chunk') = LiveChunks(chunk)
  BY <1>4 DEF LiveChunks, Alive
<1>6. PICK Q, F : Lists(chunk, lvl, freeChunk, used, LiveChunks(chunk), Q, F)
  BY DEF IInv, Good, Linked
<1>7. Lists(chunk', lvl', freeChunk', used', LiveChunks(chunk'), Q, F)
  <2>1. SameEnds(lvl', lvl)
    BY <1>2 DEF SameEnds
  <2>. QED BY <1>2, <1>4, <1>5, <1>6, <2>1, ListsKept
<1>8. SameTurns(Q, Q)
  BY <1>6, ListsOnce DEF SameTurns, Once
<1>9. \A id \in DOMAIN loc : loc[id].chunk \in Chunks
  BY <1>3 DEF Placed, Places
<1>10. TurnsKept(LiveOrders)
  <2>1. \A x \in DOMAIN loc : /\ loc'[x] = loc[x]
                              /\ chunk'[loc[x].chunk].level = chunk[loc[x].chunk].level
    BY <1>2, <1>4, <1>9 DEF SameLinks
  <2>2. DOMAIN loc' = DOMAIN loc
    BY <1>2
  <2>3. TurnsKept(DOMAIN loc)
    BY <1>1, <1>6, <1>7, <1>8, <2>1, <2>2, TurnsFollow
  <2>. QED BY <2>3 DEF LiveOrders
<1>11. QuantitiesKept(LiveOrders)
  BY <1>2, <1>4, <1>9 DEF QuantitiesKept, SlotOf, LiveOrders
<1>. QED BY <1>2, <1>10, <1>11 DEF LiveOrders

\* The linked, slotted, reused chunks of a level behave as a queue: an order that is
\* pushed comes behind all others of its level, a fill takes from the one before all
\* others, and whatever leaves or shrinks, the rest keep their turns and quantities.
THEOREM ActsLikeQueues == Spec => ActsAsQueues
<1> DEFINE PushOk ==
             \A l \in Levels, id \in OrderIds, qty \in Qtys :
               Push(l, id, qty) =>
                 /\ LiveOrders' = LiveOrders \cup {id}
                 /\ LevelOf(id)' = l /\ SlotOf(id).qty' = qty
                 /\ \A a \in Queue(l) : Before(a, id)'
                 /\ TurnsKept(LiveOrders) /\ QuantitiesKept(LiveOrders)
           UnlinkOk ==
             \A id \in LiveOrders :
               Unlink(id) =>
                 /\ LiveOrders' = LiveOrders \ {id}
                 /\ TurnsKept(LiveOrders \ {id}) /\ QuantitiesKept(LiveOrders \ {id})
           ShrinkOk ==
             \A id \in LiveOrders, qty \in Qtys :
               Shrink(id, qty) =>
                 /\ LiveOrders' = LiveOrders /\ SlotOf(id).qty' = qty
                 /\ TurnsKept(LiveOrders) /\ QuantitiesKept(LiveOrders \ {id})
           FillOk ==
             \A l \in Levels, n \in Qtys :
               Fill(l, n) => \E front \in Queue(l) :
                 /\ \A a \in Queue(l) \ {front} : Before(front, a)
                 /\ IF n = SlotOf(front).qty THEN LiveOrders' = LiveOrders \ {front}
                    ELSE /\ LiveOrders' = LiveOrders
                         /\ SlotOf(front).qty' = SlotOf(front).qty - n
                 /\ TurnsKept(LiveOrders') /\ QuantitiesKept(LiveOrders \ {front})
           PrefaultOk ==
             Prefault => /\ LiveOrders' = LiveOrders
                         /\ TurnsKept(LiveOrders) /\ QuantitiesKept(LiveOrders)
<1>1. ASSUME IInv PROVE PushOk /\ UnlinkOk /\ ShrinkOk /\ FillOk /\ PrefaultOk
  <2>1. PushOk
    BY <1>1, PushQueues
  <2>2. UnlinkOk
    BY <1>1, UnlinkQueues
  <2>3. ShrinkOk
    BY <1>1, ShrinkQueues
  <2>4. FillOk
    BY <1>1, FillQueues
  <2>5. PrefaultOk
    BY <1>1, PrefaultQueues
  <2>. QED BY <2>1, <2>2, <2>3, <2>4, <2>5
<1> HIDE DEF PushOk, UnlinkOk, ShrinkOk, FillOk, PrefaultOk
<1>2. Spec => [][PushOk /\ UnlinkOk /\ ShrinkOk /\ FillOk /\ PrefaultOk]_vars
  BY <1>1, Invariance, PTL
<1>. QED BY <1>2, PTL DEF ActsAsQueues, PushOk, UnlinkOk, ShrinkOk, FillOk, PrefaultOk

-----------------------------------------------------------------------------
(* Levels that lose and get orders *)

\* A level has lost an order, and if it was the last one its total is 0; the others are
\* as before.
LevelLoses(l) ==
    /\ \A m \in Levels \ {l} : lvl'[m] = lvl[m]
    /\ lvl[l].head # NIL
    /\ lvl'[l].total \in Nat
    /\ lvl'[l].head = NIL => lvl'[l].total = 0

\* A level has got an order.
LevelGains(l) ==
    /\ \A m \in Levels \ {l} : lvl'[m] = lvl[m]
    /\ lvl'[l].head # NIL
    /\ lvl'[l].total \in Nat

\* A chunk with a live order belongs to a level that has a head; a level without a head
\* has no quantity.
LEMMA HeadsFacts ==
    ASSUME NEW ch, NEW ln, NEW us, NEW fr, NEW n, NEW lv, NEW lc,
           Good(ch, ln, us, fr, n, lv, lc)
    PROVE  /\ \A c \in LiveChunks(ch) : ch[c].level \in Levels /\ lv[ch[c].level].head # NIL
           /\ \A l \in Levels : lv[l].total \in Nat /\ (lv[l].head = NIL => lv[l].total = 0)
<1>1. /\ ch \in [Chunks -> ChunkValues] /\ lv \in [Levels -> LevelValues]
      /\ Placed(ch, lc) /\ TotalsAre(ch, lc, lv)
      /\ QtyMod \in Nat \ {0}
  BY QtyModAssumption DEF Good
<1>2. PICK Q, F : Lists(ch, lv, fr, us, LiveChunks(ch), Q, F)
  BY DEF Good, Linked
<1>3. ASSUME NEW c \in LiveChunks(ch)
      PROVE  ch[c].level \in Levels /\ lv[ch[c].level].head # NIL
  <2> DEFINE l == ch[c].level
  <2>1. l \in Levels /\ \E i \in 1 .. Len(Q[l]) : Q[l][i] = c
    BY <1>2 DEF Lists
  <2> HIDE DEF l
  <2>2. IsChain(ch, Q[l], lv[l].head) /\ Q[l] \in Seq(Chunks)
    BY <1>2, <2>1 DEF Lists, IsLevelList
  <2>3. Q[l] # <<>> /\ Q[l][1] \in Chunks
    BY <2>1, <2>2
  <2>4. lv[l].head \in Chunks
    BY <2>2, <2>3 DEF IsChain
  <2>. QED BY <2>1, <2>4, ChunksFacts DEF l
<1>4. ASSUME NEW l \in Levels PROVE lv[l].total \in Nat
  BY <1>1 DEF LevelValues
<1>5. ASSUME NEW l \in Levels, lv[l].head = NIL PROVE lv[l].total = 0
  <2>1. {id \in DOMAIN lc : ch[lc[id].chunk].level = l} = {}
    BY <1>1, <1>3, <1>5, LocFacts
  <2>2. Total(ch, lc, l) = 0
    BY <2>1, SumOfNone DEF Total
  <2>3. 0 % QtyMod = 0
    BY <1>1, ModSmall
  <2>. QED BY <1>1, <2>2, <2>3 DEF TotalsAre
<1>. QED BY <1>3, <1>4, <1>5

\* Where quantity leaves, the level loses an order, and none comes.
LEMMA TakesLoses ==
    ASSUME IInv, NEW l, NEW n, Takes(l, n)
    PROVE  /\ IInv' /\ l \in Levels /\ LevelLoses(l)
           /\ LiveOrders' \subseteq LiveOrders /\ live' <= live
<1>1. PICK ch, place : Spends(ch, l, place, n) /\ Spend(ch, l, place, n)
  BY DEF Takes
<1>2. IInv'
  BY <1>1, SpendInv
<1>3. /\ place.chunk \in Chunks /\ place.slot \in Slots
      /\ chunk[place.chunk].s[place.slot].qty # 0 /\ l = chunk[place.chunk].level
  BY <1>1 DEF Spends, Places, SlotAt, SameLinks
<1>4. place.chunk \in LiveChunks(chunk)
  BY <1>3 DEF LiveChunks, Alive
<1>5. l \in Levels /\ lvl[l].head # NIL
  BY <1>3, <1>4, HeadsFacts DEF IInv
<1>6. lvl \in [Levels -> LevelValues] /\ lvl' \in [Levels -> LevelValues]
  BY <1>2 DEF IInv, Good
<1>7. \A m \in Levels \ {l} : lvl'[m] = lvl[m]
  BY <1>1, <1>6, Zenon DEF Spend
<1>8. lvl'[l].total \in Nat /\ (lvl'[l].head = NIL => lvl'[l].total = 0)
  BY <1>2, <1>5, HeadsFacts DEF IInv
<1>9. DOMAIN loc' \subseteq DOMAIN loc
  BY <1>1, Zenon DEF Spend, LiveOrders
<1>10. live' <= live
  <2>1. live \in Nat
    BY FS_CardinalityType DEF IInv, Good
  <2>2. live' = live - 1 \/ live' = live
    BY <1>1, Zenon DEF Spend
  <2>. QED BY <2>1, <2>2
<1>. QED BY <1>2, <1>5, <1>7, <1>8, <1>9, <1>10 DEF LevelLoses, LiveOrders

\* Where an order is pushed, its level gets one.
LEMMA PushGains ==
    ASSUME IInv, NEW l \in Levels, NEW id \in OrderIds, NEW qty \in Quantities, Push(l, id, qty)
    PROVE  IInv' /\ LevelGains(l) /\ LiveOrders' = LiveOrders \cup {id}
<1>1. IInv'
  BY PushInv
<1>2. lvl \in [Levels -> LevelValues]
  BY DEF IInv, Good
<1>3. \A m \in Levels \ {l} : lvl'[m] = lvl[m]
  BY <1>2, Zenon DEF Push
<1>4. DOMAIN loc' = DOMAIN loc \cup {id} /\ loc'[id].chunk \in Chunks
  <2>1. DOMAIN loc' = DOMAIN loc \cup {id}
    BY Zenon DEF Push, LiveOrders
  <2>2. loc'[id] \in Places
    BY <1>1, <2>1 DEF IInv, Good, Placed
  <2>. QED BY <2>1, <2>2 DEF Places
<1>5. lvl'[l].tail = loc'[id].chunk
  BY <1>2, Zenon DEF Push, LevelValues, LiveOrders
<1>6. lvl'[l].tail # NIL
  BY <1>4, <1>5, ChunksFacts
<1>7. lvl'[l].tail \in LiveChunks(chunk') /\ chunk'[lvl'[l].tail].level = l
  BY <1>1, <1>6, EndsFacts DEF IInv, Good
<1>8. lvl'[l].head # NIL /\ lvl'[l].total \in Nat
  BY <1>1, <1>7, HeadsFacts DEF IInv
<1>. QED BY <1>1, <1>3, <1>4, <1>8 DEF LevelGains, LiveOrders

-----------------------------------------------------------------------------
(* replace against the helpers *)

\* A live order is found at its place, which no other order has.
LEMMA LiveFacts ==
    ASSUME IInv, NEW id \in LiveOrders
    PROVE  /\ loc[id] \in Places /\ loc[id].chunk \in Chunks /\ loc[id].slot \in Slots
           /\ loc[id] = [chunk |-> loc[id].chunk, slot |-> loc[id].slot]
           /\ chunk[loc[id].chunk] \in ChunkValues
           /\ SlotOf(id).qty \in Quantities /\ SlotOf(id) \in SlotValues
           /\ LevelOf(id) \in Levels /\ lvl[LevelOf(id)] \in LevelValues
           /\ \A y \in LiveOrders : loc[y] = loc[id] => y = id
<1>1. /\ chunk \in [Chunks -> ChunkValues] /\ lvl \in [Levels -> LevelValues]
      /\ Placed(chunk, loc) /\ id \in DOMAIN loc
  BY DEF IInv, Good, LiveOrders
<1>2. /\ loc[id] \in Places /\ loc[id].chunk \in LiveChunks(chunk)
      /\ SlotAt(chunk, loc[id]).qty \in 1 .. (QtyMod - 1)
  BY <1>1, LocFacts
<1>3. loc[id].chunk \in Chunks /\ loc[id].slot \in Slots
      /\ loc[id] = [chunk |-> loc[id].chunk, slot |-> loc[id].slot]
  BY <1>2 DEF Places
<1>4. LevelOf(id) \in Levels
  BY <1>2, HeadsFacts DEF IInv, LevelOf
<1>5. \A y \in LiveOrders : loc[y] = loc[id] => y = id
  BY <1>1 DEF Placed, LiveOrders
<1>6. SlotOf(id) = SlotAt(chunk, loc[id])
  BY DEF SlotOf, SlotAt
<1>7. chunk[loc[id].chunk] \in ChunkValues /\ SlotOf(id) \in SlotValues
  BY <1>1, <1>3 DEF ChunkValues, SlotOf
<1>8. lvl[LevelOf(id)] \in LevelValues
  BY <1>1, <1>4
<1>9. SlotOf(id).qty \in Quantities
  BY <1>2, <1>6, QuantitiesFacts
<1>. QED BY <1>2, <1>3, <1>4, <1>5, <1>7, <1>8, <1>9

\* Leaving the book is unlink.
LEMMA LeaveIsUnlink ==
    ASSUME IInv, NEW id \in LiveOrders, NEW price, NEW qty, Leave(id, price, qty)
    PROVE  Unlink(id)
<1> DEFINE c == loc[id].chunk
           i == loc[id].slot
           k == chunk[c]
           l == k.level
           old == SlotOf(id).qty
           goes == k.live = 1
           gone == [k EXCEPT !.s[i] = DeadSlot, !.live = @ - 1,
                             !.next = IF goes THEN freeChunk ELSE @]
           spent == [chunk EXCEPT ![c].s[i] = DeadSlot, ![c].live = @ - 1]
           lv == [lvl[l] EXCEPT !.total = (@ - old) % QtyMod]
<1>1. /\ c \in Chunks /\ i \in Slots /\ k \in ChunkValues /\ loc[id] = [chunk |-> c, slot |-> i]
      /\ old \in Int /\ \A y \in LiveOrders : loc[y] = loc[id] => y = id
      /\ chunk \in [Chunks -> ChunkValues] /\ lvl \in [Levels -> LevelValues]
      /\ l \in Levels /\ k.s[i] \in SlotValues
  <2>1. SlotOf(id).qty \in Quantities /\ QtyMod \in Nat \ {0}
    BY LiveFacts, QtyModAssumption
  <2>2. old \in Int
    BY <2>1, QuantitiesFacts
  <2>. QED BY <2>2, LiveFacts DEF IInv, Good, LevelOf, SlotOf
<1>2. /\ chunk' = [IF goes THEN LinkedWithout(c) ELSE chunk EXCEPT ![c] = gone]
      /\ lvl' = [lvl EXCEPT
                   ![l].total = (@ - old) % QtyMod,
                   ![l].head = IF goes /\ k.prev = NIL THEN k.next ELSE @,
                   ![l].tail = IF goes /\ k.next = NIL THEN k.prev ELSE @]
      /\ freeChunk' = IF goes THEN c ELSE freeChunk
      /\ live' = live - 1
      /\ loc' = [x \in LiveOrders \ {id} |-> loc[x]]
      /\ UNCHANGED <<len, used>>
  BY Zenon DEF Leave
<1>3. k.s[i].qty = old /\ old - old = 0
  <2>1. k.s[i].qty = old
    BY Zenon DEF SlotOf, k, c, i, old
  <2>. HIDE DEF old
  <2>2. old - old = 0
    BY <1>1
  <2>. QED BY <2>1, <2>2
<1> HIDE DEF k, old
<1>4. /\ \A x \in Chunks : x # c => spent[x] = chunk[x]
      /\ spent[c] = [k EXCEPT !.s[i] = DeadSlot, !.live = @ - 1]
      /\ spent[c].prev = k.prev /\ spent[c].next = k.next /\ spent[c].live = k.live - 1
      /\ spent = [x \in Chunks |-> spent[x]]
  BY <1>1 DEF k, ChunkValues
<1> HIDE DEF spent, gone
<1>5. goes <=> spent[c].live = 0
  <2>1. k.live \in 0 .. ChunkSlots
    BY <1>1 DEF ChunkValues
  <2>2. k.live \in Int
    BY <2>1, SlotsFacts
  <2>. QED BY <1>4, <2>2
<1>6. chunk' = IF goes THEN Unlinked(spent, c) ELSE spent
  <2>1. CASE goes
    <3>1. gone = [spent[c] EXCEPT !.next = freeChunk]
      BY <1>1, <1>4, <2>1 DEF gone, ChunkValues
    <3>2. chunk' = [x \in Chunks |->
                      IF x = c THEN gone
                      ELSE IF x = k.prev THEN [chunk[x] EXCEPT !.next = k.next]
                      ELSE IF x = k.next THEN [chunk[x] EXCEPT !.prev = k.prev]
                      ELSE chunk[x]]
      BY <1>1, <1>2, <2>1, Zenon DEF LinkedWithout, k
    <3>3. Unlinked(spent, c) =
              [x \in Chunks |->
                  IF x = c THEN [spent[x] EXCEPT !.next = freeChunk]
                  ELSE IF x = k.prev THEN [spent[x] EXCEPT !.next = k.next]
                  ELSE IF x = k.next THEN [spent[x] EXCEPT !.prev = k.prev]
                  ELSE spent[x]]
      BY <1>4 DEF Unlinked
    <3>. QED BY <1>4, <2>1, <3>1, <3>2, <3>3, Zenon
  <2>2. CASE ~goes
    <3>1. gone = spent[c]
      BY <1>1, <1>4, <2>2 DEF gone, ChunkValues
    <3>2. chunk' = [chunk EXCEPT ![c] = gone]
      BY <1>2, <2>2
    <3>3. chunk' = [x \in Chunks |-> IF x = c THEN gone ELSE chunk[x]]
      BY <1>1, <3>2
    <3>. QED BY <1>4, <2>2, <3>1, <3>3
  <2>. QED BY <2>1, <2>2
<1>7. lvl' = [lvl EXCEPT ![l] = IF goes THEN LevelWithout(lv, spent, c) ELSE lv]
  <2>1. /\ lvl[l] \in LevelValues /\ lv \in [head : Links, tail : Links, total : {lv.total}]
        /\ lv.head = lvl[l].head /\ lv.tail = lvl[l].tail
    BY <1>1 DEF LevelValues
  <2>2. lvl'[l] = [lvl[l] EXCEPT !.total = lv.total,
                                 !.head = IF goes /\ k.prev = NIL THEN k.next ELSE @,
                                 !.tail = IF goes /\ k.next = NIL THEN k.prev ELSE @]
    BY <1>1, <1>2 DEF LevelValues
  <2>3. lvl'[l] = IF goes THEN LevelWithout(lv, spent, c) ELSE lv
    BY <1>4, <2>1, <2>2 DEF LevelWithout, LevelValues
  <2>4. lvl' = [lvl EXCEPT ![l] = lvl'[l]]
    BY <1>1, <1>2, Zenon
  <2>. QED BY <2>3, <2>4
<1>8. LiveOrders \ {id} = {y \in LiveOrders : loc[y] # [chunk |-> c, slot |-> i]}
  BY <1>1
<1>9. Spend(chunk, l, loc[id], old)
  <2>1. loc[id].chunk = c /\ loc[id].slot = i
    BY DEF c, i
  <2>2. [chunk EXCEPT
            ![c].s[i] = IF k.s[i].qty - old = 0 THEN DeadSlot
                        ELSE [@ EXCEPT !.qty = k.s[i].qty - old],
            ![c].live = IF k.s[i].qty - old = 0 THEN @ - 1 ELSE @] = spent
    BY <1>3 DEF spent
  <2>. QED BY <1>2, <1>3, <1>5, <1>6, <1>7, <1>8, <2>1, <2>2, Zenon DEF Spend, k
<1>. QED BY <1>9 DEF Unlink, LevelOf, k, old

\* A replacement in place that gives something up is the change Shrink makes.
LEMMA InPlaceIsShrink ==
    ASSUME IInv, NEW id \in LiveOrders, NEW qty \in Qtys, InPlace(id, qty)
    PROVE  \/ Shrink(id, qty) /\ loc' = loc
           \/ UNCHANGED bookVars
<1> DEFINE c == loc[id].chunk
           i == loc[id].slot
           l == LevelOf(id)
           old == SlotOf(id).qty
           n == old - qty
<1>1. /\ c \in Chunks /\ i \in Slots /\ chunk[c] \in ChunkValues
      /\ old \in Quantities /\ l \in Levels /\ lvl[l] \in LevelValues /\ SlotOf(id) \in SlotValues
  BY LiveFacts
<1>2. /\ chunk \in [Chunks -> ChunkValues] /\ lvl \in [Levels -> LevelValues]
      /\ loc = [x \in LiveOrders |-> loc[x]] /\ QtyMod \in Nat \ {0}
  BY QtyModAssumption DEF IInv, Good, LiveOrders
<1>3. /\ qty <= old
      /\ chunk' = [chunk EXCEPT ![c].s[i].qty = qty]
      /\ lvl' = [lvl EXCEPT ![l].total = (@ - n) % QtyMod]
      /\ UNCHANGED <<len, used, freeChunk, live, loc, ladder, op>>
  BY DEF InPlace
<1>4. chunk[c].s[i] = SlotOf(id) /\ chunk[c].s \in [Slots -> SlotValues] /\ chunk[c].s[i].qty = old
  BY <1>1 DEF SlotOf, ChunkValues
<1>5. old \in Int /\ qty \in Int /\ old >= 1 /\ qty >= 1
  <2>1. old \in Quantities /\ qty \in Quantities
    BY <1>1, QuantitiesFacts
  <2> HIDE DEF old
  <2>. QED BY <2>1, <1>2 DEF Quantities
<1> HIDE DEF old, l, c, i
<1>6. CASE qty = old
  <2>1. n = 0
    BY <1>5, <1>6
  <2>2. chunk' = chunk
    <3>1. [chunk[c].s[i] EXCEPT !.qty = qty] = chunk[c].s[i]
      BY <1>1, <1>4, <1>6 DEF SlotValues, DeadSlot
    <3>2. [chunk[c].s EXCEPT ![i] = chunk[c].s[i]] = chunk[c].s
      BY <1>1, <1>4
    <3>3. [chunk[c] EXCEPT !.s = chunk[c].s] = chunk[c]
      BY <1>1 DEF ChunkValues
    <3>4. chunk' = [chunk EXCEPT ![c] = [chunk[c] EXCEPT !.s = [chunk[c].s EXCEPT ![i] = [chunk[c].s[i] EXCEPT !.qty = qty]]]]
      BY <1>3
    <3>. QED BY <1>1, <1>2, <3>1, <3>2, <3>3, <3>4
  <2>3. lvl' = lvl
    <3>1. lvl[l].total \in 0 .. (QtyMod - 1)
      BY <1>1 DEF LevelValues
    <3>2. (lvl[l].total - n) % QtyMod = lvl[l].total
      BY <1>2, <2>1, <3>1, ModSmall
    <3>3. [lvl[l] EXCEPT !.total = lvl[l].total] = lvl[l]
      BY <1>1 DEF LevelValues
    <3> HIDE DEF n
    <3>4. lvl' = [lvl EXCEPT ![l] = [lvl[l] EXCEPT !.total = (lvl[l].total - n) % QtyMod]]
      BY <1>3
    <3>. QED BY <1>1, <1>2, <3>2, <3>3, <3>4
  <2>. QED BY <1>3, <2>2, <2>3 DEF bookVars, vars
<1>7. CASE qty # old
  <2>1. qty < old /\ old - n = qty /\ qty # 0 /\ n \in Int
    BY <1>3, <1>5, <1>7
  <2> HIDE DEF n
  <2>2. chunk' = [chunk EXCEPT ![c].s[i] = [@ EXCEPT !.qty = old - n], ![c].live = @]
    <3>1. chunk' = [chunk EXCEPT ![c] = [chunk[c] EXCEPT !.s = [chunk[c].s EXCEPT ![i] = [chunk[c].s[i] EXCEPT !.qty = qty]]]]
      BY <1>3
    <3>2. [chunk[c] EXCEPT !.s[i] = [@ EXCEPT !.qty = qty], !.live = @] =
              [chunk[c] EXCEPT !.s = [chunk[c].s EXCEPT ![i] = [chunk[c].s[i] EXCEPT !.qty = qty]]]
      BY <1>1 DEF ChunkValues
    <3>. QED BY <1>1, <1>2, <2>1, <3>1, <3>2
  <2>3. lvl' = [lvl EXCEPT ![l] = [lvl[l] EXCEPT !.total = (@ - n) % QtyMod]]
    BY <1>1, <1>2, <1>3
  <2>4. loc' = [x \in {y \in LiveOrders : ~(FALSE /\ loc[y] = loc[id])} |-> loc[x]]
    BY <1>2, <1>3
  <2>5. Spend(chunk, l, loc[id], n)
    <3>1. LET left == chunk[loc[id].chunk].s[loc[id].slot].qty - n
          IN  left # 0 /\ left = old - n
      <4>1. chunk[c].s[i].qty - n # 0 /\ chunk[c].s[i].qty - n = old - n
        BY <1>4, <2>1
      <4>. QED BY <4>1, Zenon DEF c, i
    <3>2. chunk' = [chunk EXCEPT ![loc[id].chunk].s[loc[id].slot] = [@ EXCEPT !.qty = old - n],
                                 ![loc[id].chunk].live = @]
      BY <2>2 DEF c, i
    <3>. QED BY <1>3, <2>3, <2>4, <3>1, <3>2, Zenon DEF Spend
  <2>. QED BY <1>3, <2>1, <2>5 DEF Shrink, l, old, n
<1>. QED BY <1>6, <1>7

\* What is on its way is an order that does not rest, and there is room for it.
OpGood ==
    op = NoOp \/ /\ op \in [id : OrderIds, side : Sides, price : Prices, left : 0 .. (QtyMod - 1)]
                 /\ op.id \notin LiveOrders /\ live < MaxOrders

\* Resting the remainder is push.
LEMMA RestIsPush ==
    ASSUME IInv, OpGood, RestRemainder
    PROVE  Push(<<op.side, op.price>>, op.id, op.left)
<1> DEFINE l == <<op.side, op.price>>
           last == lvl[l].tail
           full == last = NIL \/ chunk[last].tail = ChunkSlots
           n == NextChunk
           c == IF full THEN n ELSE last
           fresh == [chunk[n] EXCEPT !.level = l, !.prev = last, !.next = NIL,
                                     !.head = 0, !.tail = 0, !.live = 0]
           target == IF full THEN fresh ELSE chunk[last]
           slot == target.tail
           joined == [target EXCEPT !.tail = @ + 1, !.live = @ + 1,
                                    !.s[slot] = [id |-> op.id, qty |-> op.left]]
           ch == IF full THEN Appended(l, last) ELSE chunk
           fr2 == IF full /\ freeChunk # NIL THEN chunk[freeChunk].next ELSE freeChunk
<1>1. /\ op # NoOp /\ op.left > 0 /\ op.id \notin LiveOrders /\ live < MaxOrders
      /\ l \in Levels
      /\ chunk \in [Chunks -> ChunkValues] /\ lvl \in [Levels -> LevelValues]
      /\ len \in 0 .. Cap /\ used \in 0 .. Cap /\ used <= len
      /\ Linked(chunk, lvl, freeChunk, used, LiveChunks(chunk))
  BY LevelsAssumption, Zenon DEF RestRemainder, OpGood, IInv, Good
<1>2. /\ chunk' = [x \in Chunks |-> IF x = c THEN joined
                                    ELSE IF full /\ x = last THEN [chunk[x] EXCEPT !.next = n]
                                    ELSE chunk[x]]
      /\ lvl' = [lvl EXCEPT ![l].head = IF last = NIL THEN c ELSE @,
                            ![l].tail = c,
                            ![l].total = (@ + op.left) % QtyMod]
      /\ freeChunk' = fr2
      /\ used' = IF full /\ freeChunk = NIL THEN used + 1 ELSE used
      /\ len' = IF full /\ freeChunk = NIL /\ used = len THEN len + 1 ELSE len
      /\ live' = live + 1
      /\ loc' = [x \in LiveOrders \cup {op.id} |->
                    IF x = op.id THEN [chunk |-> c, slot |-> slot] ELSE loc[x]]
  BY Zenon DEF RestRemainder, NextChunk
<1>3. c \in Chunks
  <2>1. CASE full
    <3> DEFINE lv2 == [m \in Levels |-> [head |-> IF m = l /\ last = NIL THEN n ELSE lvl[m].head,
                                         tail |-> IF m = l THEN n ELSE lvl[m].tail]]
    <3>1. FreshEnds(lv2, l)
      BY DEF FreshEnds
    <3> HIDE DEF lv2
    <3>2. n \in Chunks
      BY <1>1, <3>1, FreshReady DEF ReadyFor
    <3>. QED BY <2>1, <3>2
  <2>2. CASE ~full
    <3>1. last # NIL /\ lvl[l] \in LevelValues
      BY <1>1, <2>2
    <3>2. last \in Links
      BY <3>1 DEF LevelValues
    <3>. QED BY <2>2, <3>1, <3>2 DEF Links
  <2>. QED BY <2>1, <2>2
<1> HIDE DEF l, n, last
<1>4. ch[c] = target /\ target \in [level : {target.level}, prev : {target.prev}, next : {target.next}, head : {target.head}, tail : {target.tail}, live : {target.live}, s : {target.s}]
  <2>1. CASE full
    <3>1. chunk[n] \in ChunkValues /\ c = n /\ target = fresh
      BY <1>1, <1>3, <2>1
    <3>2. ch[c] = fresh
      BY <1>3, <2>1, <3>1 DEF Appended, n
    <3>. QED BY <3>1, <3>2 DEF ChunkValues
  <2>2. CASE ~full
    <3>1. chunk[last] \in ChunkValues /\ c = last /\ target = chunk[last] /\ ch = chunk
      BY <1>1, <1>3, <2>2
    <3>. QED BY <3>1 DEF ChunkValues
  <2>. QED BY <2>1, <2>2
<1>5. \A x \in Chunks : x # c => ch[x] = IF full /\ x = last THEN [chunk[x] EXCEPT !.next = n]
                                         ELSE chunk[x]
  BY DEF Appended, n
<1>6. ch = [x \in Chunks |-> ch[x]]
  BY <1>1 DEF Appended
<1> HIDE DEF target, ch, full, c, joined
<1>7. chunk' = [ch EXCEPT ![c].tail = @ + 1, ![c].live = @ + 1,
                          ![c].s[slot] = [id |-> op.id, qty |-> op.left]]
  <2>1. [ch[c] EXCEPT !.tail = @ + 1, !.live = @ + 1,
                      !.s[slot] = [id |-> op.id, qty |-> op.left]] = joined
    BY <1>4 DEF joined
  <2>2. [ch EXCEPT ![c].tail = @ + 1, ![c].live = @ + 1,
                   ![c].s[slot] = [id |-> op.id, qty |-> op.left]]
          = [x \in Chunks |-> IF x = c THEN joined ELSE ch[x]]
    BY <1>3, <1>4, <1>6, <2>1
  <2>. QED BY <1>2, <1>5, <2>2
<1>8. used' = IF full THEN UsedAfterAlloc ELSE used
  BY <1>2 DEF UsedAfterAlloc
<1>9. len' = Max({len, used'})
  <2>1. len \in Int /\ used' \in Int /\ used \in Int
    BY <1>1, <1>2, ChunksFacts
  <2>2. used' <= len' /\ (len' = len \/ len' = used') /\ len <= len'
    BY <1>1, <1>2, <2>1
  <2>. QED BY <2>1, <2>2, MaxOfTwo
<1>10. slot = ch[c].tail
  BY <1>4
<1>11. lvl' = [lvl EXCEPT ![l].head = IF last = NIL THEN c ELSE @, ![l].tail = c,
                          ![l].total = TotalWith(l, op.left)]
  <2>1. lvl[l] \in LevelValues
    BY <1>1
  <2>. QED BY <1>1, <1>2, <2>1 DEF TotalWith, LevelValues
<1> HIDE DEF slot, fr2
<1>12. Push(l, op.id, op.left)
  <2>1. freeChunk' = IF full /\ freeChunk # NIL THEN chunk[freeChunk].next ELSE freeChunk
    BY <1>2 DEF fr2
  <2>. QED BY <1>1, <1>2, <1>7, <1>8, <1>9, <1>10, <1>11, <2>1, Zenon DEF Push, last, full, c, ch, n
<1>. QED BY <1>12 DEF l

-----------------------------------------------------------------------------
(* What a step does to the levels of the two sides *)

\* What that says of the occupied prices and the totals of both sides.
LEMMA LevelsOfSide ==
    ASSUME NEW s \in Sides, NEW p \in Prices, \A m \in Levels \ {<<s, p>>} : lvl'[m] = lvl[m]
    PROVE  /\ Occupied(s)' = IF lvl'[<<s, p>>].head = NIL THEN Occupied(s) \ {p}
                             ELSE Occupied(s) \cup {p}
           /\ LevelTotals(s)' = [LevelTotals(s) EXCEPT ![p] = lvl'[<<s, p>>].total]
           /\ Occupied(Opposite(s))' = Occupied(Opposite(s))
           /\ LevelTotals(Opposite(s))' = LevelTotals(Opposite(s))
           /\ Opposite(s) \in Sides \ {s}
<1> DEFINE t == Opposite(s)
<1>1. t \in Sides /\ t # s
  BY DEF Opposite, Sides
<1>2. /\ \A q \in Prices : q # p => lvl'[<<s, q>>] = lvl[<<s, q>>]
      /\ \A q \in Prices : lvl'[<<t, q>>] = lvl[<<t, q>>]
  BY <1>1, LevelsAssumption
<1>3. /\ Occupied(s) = {q \in Prices : lvl[<<s, q>>].head # NIL}
      /\ Occupied(s)' = {q \in Prices : lvl'[<<s, q>>].head # NIL}
      /\ Occupied(t) = {q \in Prices : lvl[<<t, q>>].head # NIL}
      /\ Occupied(t)' = {q \in Prices : lvl'[<<t, q>>].head # NIL}
  BY DEF Occupied
<1>4. /\ LevelTotals(s) = [q \in Prices |-> lvl[<<s, q>>].total]
      /\ LevelTotals(s)' = [q \in Prices |-> lvl'[<<s, q>>].total]
      /\ LevelTotals(t) = [q \in Prices |-> lvl[<<t, q>>].total]
      /\ LevelTotals(t)' = [q \in Prices |-> lvl'[<<t, q>>].total]
  BY DEF LevelTotals
<1> HIDE DEF t
<1>5. Occupied(t)' = Occupied(t) /\ LevelTotals(t)' = LevelTotals(t)
  BY <1>2, <1>3, <1>4
<1>6. LevelTotals(s)' = [LevelTotals(s) EXCEPT ![p] = lvl'[<<s, p>>].total]
  <2> DEFINE x == lvl'[<<s, p>>].total
  <2>1. [LevelTotals(s) EXCEPT ![p] = x] =
            [q \in Prices |-> IF q = p THEN x ELSE lvl[<<s, q>>].total]
    BY <1>4
  <2>2. \A q \in Prices : lvl'[<<s, q>>].total = IF q = p THEN x ELSE lvl[<<s, q>>].total
    BY <1>2
  <2> HIDE DEF x
  <2>. QED BY <1>4, <2>1, <2>2, Zenon DEF x
<1>7. CASE lvl'[<<s, p>>].head = NIL
  <2>1. Occupied(s)' = Occupied(s) \ {p}
    BY <1>2, <1>3, <1>7
  <2>. QED BY <1>1, <1>5, <1>6, <1>7, <2>1 DEF t
<1>8. CASE lvl'[<<s, p>>].head # NIL
  <2>1. Occupied(s)' = Occupied(s) \cup {p}
    BY <1>2, <1>3, <1>8
  <2>. QED BY <1>1, <1>5, <1>6, <1>8, <2>1 DEF t
<1>. QED BY <1>7, <1>8

\* The fields of the ladders that replace reads: the best price is that of the levels.
FieldsGood ==
    /\ ladder = [s \in Sides |-> ladder[s]]
    /\ \A s \in Sides :
          /\ ladder[s].summary = [w \in DOMAIN ladder[s].summary |-> ladder[s].summary[w]]
          /\ ladder[s].count \in Nat
          /\ ladder[s].best = NIL <=> Occupied(s) = {}
          /\ ladder[s].best # NIL =>
                /\ ladder[s].best \in Occupied(s)
                /\ \A p \in Occupied(s) : IF s = "Bid" THEN p <= ladder[s].best
                                          ELSE ladder[s].best <= p

\* Unmarked and Marked, by the fields of the side.
LEMMA UnmarkedFields ==
    ASSUME FieldsGood, NEW s \in Sides, NEW p \in Prices,
           UnmarkIfEmptied(<<s, p>>), lvl'[<<s, p>>].head = NIL
    PROVE  LET w == p \div WordBits
               v == w \div WordBits
               b == [ladder[s].bits EXCEPT ![w] = @ \ {p % WordBits}]
               sum == [ladder[s].summary EXCEPT
                          ![v] = IF b[w] = {} THEN @ \ {w % WordBits} ELSE @]
           IN  /\ ladder'[s].bits = b /\ ladder'[s].summary = sum
               /\ ladder'[s].count = ladder[s].count - 1
               /\ ladder'[s].best = BestAfter(s, p, b, sum)
               /\ \A t \in Sides \ {s} : ladder'[t] = ladder[t]
               /\ ladder' = [t \in Sides |-> ladder'[t]]
<1> DEFINE w == p \div WordBits
           v == w \div WordBits
           lad == ladder[s]
           b == [lad.bits EXCEPT ![w] = @ \ {p % WordBits}]
           less == [lad.summary EXCEPT ![v] = @ \ {w % WordBits}]
           sum == IF b[w] # {} THEN lad.summary ELSE less
           sum2 == [lad.summary EXCEPT ![v] = IF b[w] = {} THEN @ \ {w % WordBits} ELSE @]
<1>1. ladder' = [ladder EXCEPT ![s] = Unmarked(s, p)]
  BY DEF UnmarkIfEmptied
<1>2. Unmarked(s, p) = [bits |-> b, summary |-> sum, count |-> lad.count - 1,
                        best |-> BestAfter(s, p, b, sum)]
  BY DEF Unmarked
<1>3. sum = sum2
  <2>1. lad.summary = [x \in DOMAIN lad.summary |-> lad.summary[x]]
    BY DEF FieldsGood
  <2> HIDE DEF b, v, lad
  <2>2. CASE b[w] = {}
    BY <2>2
  <2>3. CASE b[w] # {}
    BY <2>1, <2>3
  <2>. QED BY <2>2, <2>3
<1> HIDE DEF b, sum, sum2, lad
<1>4. ladder'[s] = Unmarked(s, p) /\ (\A t \in Sides \ {s} : ladder'[t] = ladder[t])
      /\ ladder' = [t \in Sides |-> ladder'[t]]
  BY <1>1 DEF FieldsGood
<1>5. /\ ladder'[s].bits = b /\ ladder'[s].summary = sum2
      /\ ladder'[s].count = lad.count - 1 /\ ladder'[s].best = BestAfter(s, p, b, sum2)
  BY <1>2, <1>3, <1>4
<1>. QED BY <1>4, <1>5 DEF b, sum2, lad

\* The summary word of a price is that of its word, found in two steps or in one.
LEMMA MarkedFields ==
    ASSUME FieldsGood, NEW s \in Sides, NEW p \in Prices,
           MarkIfEmpty(<<s, p>>), lvl[<<s, p>>].head = NIL
    PROVE  LET w == p \div WordBits
           IN  /\ ladder'[s].bits = [ladder[s].bits EXCEPT ![w] = @ \cup {p % WordBits}]
               /\ ladder'[s].summary =
                      [ladder[s].summary EXCEPT ![w \div WordBits] = @ \cup {w % WordBits}]
               /\ ladder'[s].count = ladder[s].count + 1
               /\ ladder'[s].best = IF \/ ladder[s].best = NIL
                                       \/ s = "Bid" /\ p > ladder[s].best
                                       \/ s = "Ask" /\ p < ladder[s].best
                                    THEN p ELSE ladder[s].best
               /\ \A t \in Sides \ {s} : ladder'[t] = ladder[t]
               /\ ladder' = [t \in Sides |-> ladder'[t]]
<1> DEFINE w == p \div WordBits
           lad == ladder[s]
<1>1. ladder' = [ladder EXCEPT ![s] = Marked(s, p)]
  BY DEF MarkIfEmpty
<1>2. p \div (WordBits * WordBits) = w \div WordBits
  <2> DEFINE n == WordBits
             v == w \div n
             x == w % n
             y == p % n
  <2>1. n \in Nat \ {0} /\ p \in Int
    BY WordBitsAssumption DEF Prices
  <2> HIDE DEF n
  <2>2. w \in Int /\ y \in 0 .. (n - 1) /\ p = w * n + y
    BY <2>1, DivMod DEF n
  <2> HIDE DEF w, y
  <2>3. v \in Int /\ x \in 0 .. (n - 1) /\ w = v * n + x
    BY <2>1, <2>2, DivMod
  <2> HIDE DEF v, x
  <2>4. n * n \in Nat \ {0} /\ x * n + y \in 0 .. (n * n - 1) /\ p = v * (n * n) + (x * n + y)
    <3>1. n * n \in Nat \ {0} /\ x \in Nat /\ y \in Nat /\ x * n \in Nat
      BY <2>1, <2>2, <2>3
    <3>2. (n - 1) * n = n * n - n
      BY <2>1
    <3>3. x * n <= (n - 1) * n
      <4>1. x <= n - 1 /\ x \in Int /\ n - 1 \in Int /\ n \in Nat
        BY <2>1, <2>3
      <4>. QED BY <4>1
    <3>4. (v * n + x) * n = v * (n * n) + x * n
      BY <2>1, <2>3
    <3>. QED BY <2>1, <2>2, <2>3, <3>1, <3>2, <3>3, <3>4
  <2>5. (v * (n * n) + (x * n + y)) \div (n * n) = v
    BY <2>3, <2>4, DivModOf
  <2>. QED BY <2>4, <2>5 DEF n, v
<1>3. Marked(s, p) =
          [bits |-> [lad.bits EXCEPT ![w] = @ \cup {p % WordBits}],
           summary |-> [lad.summary EXCEPT ![w \div WordBits] = @ \cup {w % WordBits}],
           count |-> lad.count + 1,
           best |-> IF \/ lad.best = NIL
                       \/ s = "Bid" /\ p > lad.best
                       \/ s = "Ask" /\ p < lad.best
                    THEN p ELSE lad.best]
  BY <1>2 DEF Marked
<1> HIDE DEF w, lad
<1>4. ladder'[s] = Marked(s, p) /\ (\A t \in Sides \ {s} : ladder'[t] = ladder[t])
      /\ ladder' = [t \in Sides |-> ladder'[t]]
  BY <1>1 DEF FieldsGood
<1>. QED BY <1>3, <1>4 DEF w, lad

\* A price that is not marketable meets nothing on the other side.
LEMMA MeetsNothing ==
    ASSUME FieldsGood, NEW s \in Sides, NEW p \in Prices, ~Marketable(s, p)
    PROVE  \A q \in Occupied(Opposite(s)) : IF s = "Bid" THEN q > p ELSE q < p
<1> SUFFICES ASSUME NEW q \in Occupied(Opposite(s))
             PROVE  IF s = "Bid" THEN q > p ELSE q < p
  OBVIOUS
<1> DEFINE t == Opposite(s)
           best == ladder[t].best
<1>1. t \in Sides /\ (s = "Bid" => t = "Ask") /\ (s = "Ask" => t = "Bid") /\ q \in Occupied(t)
  BY DEF Opposite, Sides
<1>2. \A x \in Sides : Occupied(x) \subseteq Int
  BY SpanAssumption DEF Occupied, Prices
<1>3. p \in Int /\ q \in Int
  BY <1>1, <1>2, SpanAssumption DEF Prices
<1>4. best # NIL /\ best \in Occupied(t) /\ (IF t = "Bid" THEN q <= best ELSE best <= q)
  BY <1>1 DEF FieldsGood
<1>5. best \in Int
  BY <1>1, <1>2, <1>4
<1>6. ~(IF s = "Bid" THEN best <= p ELSE best >= p)
  BY <1>4 DEF Marketable
<1> HIDE DEF best, t
<1>7. CASE s = "Bid"
  BY <1>1, <1>3, <1>4, <1>5, <1>6, <1>7
<1>8. CASE s = "Ask"
  BY <1>1, <1>3, <1>4, <1>5, <1>6, <1>8
<1>. QED BY <1>7, <1>8 DEF Sides

\* The level of side s and price p loses an order and is unmarked when it is empty.
Loses(s, p) == LevelLoses(<<s, p>>) /\ UnmarkIfEmptied(<<s, p>>)

\* It gets one that can trade with nothing and is marked when it had none.
Gains(s, p) == LevelGains(<<s, p>>) /\ MarkIfEmpty(<<s, p>>) /\ ~Marketable(s, p)

\* The best bid is below the best ask, and stays there.
Uncrossed == \A bid \in Occupied("Bid"), ask \in Occupied("Ask") : bid < ask

LEMMA UncrossedLoses ==
    ASSUME Uncrossed, NEW s \in Sides, NEW p \in Prices, Loses(s, p)
    PROVE  Uncrossed'
<1>1. /\ Occupied(s)' \subseteq Occupied(s) \cup {p}
      /\ Occupied(Opposite(s))' = Occupied(Opposite(s))
  BY LevelsOfSide DEF Loses, LevelLoses
<1>2. p \in Occupied(s)
  BY DEF Loses, LevelLoses, Occupied
<1>3. CASE s = "Bid"
  BY <1>1, <1>2, <1>3 DEF Uncrossed, Opposite
<1>4. CASE s = "Ask"
  BY <1>1, <1>2, <1>4 DEF Uncrossed, Opposite
<1>. QED BY <1>3, <1>4 DEF Sides

LEMMA UncrossedGains ==
    ASSUME FieldsGood, Uncrossed, NEW s \in Sides, NEW p \in Prices, Gains(s, p)
    PROVE  Uncrossed'
<1>1. /\ Occupied(s)' = Occupied(s) \cup {p}
      /\ Occupied(Opposite(s))' = Occupied(Opposite(s))
  BY LevelsOfSide DEF Gains, LevelGains
<1>2. \A q \in Occupied(Opposite(s)) : IF s = "Bid" THEN q > p ELSE q < p
  BY MeetsNothing DEF Gains
<1>3. p \in Int /\ \A x \in Sides : Occupied(x) \subseteq Int
  BY SpanAssumption DEF Occupied, Prices
<1>4. Uncrossed'
  <2>1. CASE s = "Bid"
    <3>1. ASSUME NEW bid \in Occupied("Bid")', NEW ask \in Occupied("Ask")' PROVE bid < ask
      <4>1. ask \in Occupied("Ask") /\ ask > p /\ ask \in Int
        BY <1>1, <1>2, <1>3, <2>1 DEF Opposite, Sides
      <4>2. CASE bid = p
        BY <1>3, <4>1, <4>2
      <4>3. CASE bid \in Occupied("Bid")
        BY <4>1, <4>3 DEF Uncrossed
      <4>. QED BY <1>1, <2>1, <4>2, <4>3
    <3>. QED BY <3>1 DEF Uncrossed
  <2>2. CASE s = "Ask"
    <3>1. ASSUME NEW bid \in Occupied("Bid")', NEW ask \in Occupied("Ask")' PROVE bid < ask
      <4>1. bid \in Occupied("Bid") /\ bid < p
        BY <1>1, <1>2, <1>3, <2>2 DEF Opposite, Sides
      <4>2. CASE ask = p
        BY <4>1, <4>2
      <4>3. CASE ask \in Occupied("Ask")
        BY <4>1, <4>3 DEF Uncrossed
      <4>. QED BY <1>1, <2>2, <4>2, <4>3
    <3>. QED BY <3>1 DEF Uncrossed
  <2>. QED BY <2>1, <2>2 DEF Sides
<1>. QED BY <1>4

\* One lemma for each action.  An order that keeps its place empties no level.
LEMMA InPlaceStep ==
    ASSUME IInv, NEW id \in LiveOrders, NEW qty \in Qtys, InPlace(id, qty)
    PROVE  /\ IInv' /\ OpGood'
           /\ \/ UNCHANGED <<vars, ladder>>
              \/ \E s \in Sides, p \in Prices : Loses(s, p)
<1>1. OpGood'
  BY DEF InPlace, OpGood
<1>2. CASE Shrink(id, qty)
  <2>1. Takes(LevelOf(id), SlotOf(id).qty - qty)
    BY <1>2, ShrinkTakes
  <2>2. IInv' /\ LevelOf(id) \in Levels /\ LevelLoses(LevelOf(id))
    BY <2>1, TakesLoses
  <2>3. lvl \in [Levels -> LevelValues] /\ lvl[LevelOf(id)].head # NIL
    BY <2>2 DEF IInv, Good, LevelLoses
  <2>4. lvl'[LevelOf(id)].head # NIL /\ ladder' = ladder
    BY <2>2, <2>3 DEF InPlace, LevelValues
  <2>5. UnmarkIfEmptied(LevelOf(id))
    BY <2>4 DEF UnmarkIfEmptied
  <2>. QED BY <1>1, <2>2, <2>5, LevelsAssumption DEF Loses
<1>3. CASE UNCHANGED bookVars
  BY <1>1, <1>3 DEF IInv, bookVars, vars
<1>. QED BY <1>2, <1>3, InPlaceIsShrink

\* What leaves its place rests nowhere until it comes back, and its room is kept.
LEMMA LeaveStep ==
    ASSUME IInv, NEW id \in LiveOrders, NEW price \in Prices, NEW qty \in Qtys,
           Leave(id, price, qty)
    PROVE  /\ IInv' /\ OpGood' /\ op'.id = id /\ Unlink(id)
           /\ \E s \in Sides, p \in Prices : LevelOf(id) = <<s, p>> /\ Loses(s, p)
<1>1. Unlink(id) /\ Takes(LevelOf(id), SlotOf(id).qty)
  BY LeaveIsUnlink, UnlinkTakes
<1>2. UnmarkIfEmptied(LevelOf(id))
  BY Zenon DEF Leave, LevelOf
<1>3. LevelOf(id) \in Levels /\ id \in OrderIds
  BY LiveFacts DEF IInv, Good, LiveOrders
<1>4. /\ op' = [id |-> id, side |-> LevelOf(id)[1], price |-> price, left |-> qty]
      /\ live' = live - 1 /\ loc' = [x \in LiveOrders \ {id} |-> loc[x]]
  BY Zenon DEF Leave, LevelOf
<1>5. OpGood'
  <2>1. live' < MaxOrders
    <3>1. live \in Nat /\ live <= MaxOrders /\ MaxOrders \in Nat
      BY FS_CardinalityType, MaxOrdersAssumption DEF IInv, Good
    <3>. QED BY <1>4, <3>1
  <2>2. op'.id = id /\ id \notin LiveOrders'
    BY <1>4 DEF LiveOrders
  <2>3. qty \in 0 .. (QtyMod - 1) /\ LevelOf(id)[1] \in Sides
    BY <1>3, LevelsAssumption, QtysAssumption
  <2>. QED BY <1>3, <1>4, <2>1, <2>2, <2>3 DEF OpGood
<1>6. IInv' /\ LevelLoses(LevelOf(id))
  BY <1>1, TakesLoses
<1>7. PICK s \in Sides, p \in Prices : LevelOf(id) = <<s, p>>
  BY <1>3, LevelsAssumption
<1>8. Loses(s, p)
  BY <1>2, <1>6, <1>7 DEF Loses
<1>. QED BY <1>1, <1>4, <1>5, <1>6, <1>7, <1>8

\* A fill takes what the front order has, or what is wanted: it is a quantity.
LEMMA CrossStep ==
    ASSUME IInv, OpGood, FieldsGood, CrossFront
    PROVE  IInv' /\ OpGood' /\ \E s \in Sides, p \in Prices : Loses(s, p)
<1> DEFINE opp == Opposite(op.side)
           l == <<opp, ladder[opp].best>>
           c == lvl[l].head
           front == chunk[c].s[FrontSlot(c)].qty
           n == Min({front, op.left})
<1>1. /\ op # NoOp /\ op.left > 0 /\ Marketable(op.side, op.price)
      /\ Fill(l, n) /\ UnmarkIfEmptied(l) /\ op' = [op EXCEPT !.left = @ - n]
  BY Zenon DEF CrossFront
<1>2. /\ op \in [id : OrderIds, side : Sides, price : Prices, left : 0 .. (QtyMod - 1)]
      /\ op.id \notin LiveOrders /\ live < MaxOrders
  BY <1>1, Zenon DEF OpGood
<1>3. l \in Levels
  <2>1. opp \in Sides
    BY DEF Opposite, Sides
  <2>2. ladder[opp].best # NIL
    BY <1>1, Zenon DEF Marketable
  <2>3. ladder[opp].best \in Prices
    BY <2>1, <2>2 DEF FieldsGood, Occupied
  <2>. QED BY <2>1, <2>3, LevelsAssumption
<1> HIDE DEF l
<1>4. front \in 1 .. (QtyMod - 1)
  <2>1. /\ chunk \in [Chunks -> ChunkValues] /\ Placed(chunk, loc)
        /\ Linked(chunk, lvl, freeChunk, used, LiveChunks(chunk))
    BY DEF IInv, Good
  <2>2. c \in LiveChunks(chunk) /\ c \in Chunks
    <3>1. lvl[l].head # NIL
      BY <1>1 DEF Fill
    <3>2. lvl[l].head \in LiveChunks(chunk)
      BY <1>3, <2>1, <3>1, EndsFacts
    <3>. QED BY <3>2 DEF LiveChunks
  <2> HIDE DEF c
  <2>3. FrontSlot(c) \in Alive(chunk[c])
    BY <2>1, <2>2, FrontSlotFacts
  <2>4. FrontSlot(c) \in Slots /\ front # 0
    BY <2>3 DEF Alive
  <2>5. chunk[c].s[FrontSlot(c)] \in SlotValues
    BY <2>1, <2>2, <2>4 DEF ChunkValues
  <2>6. front \in 0 .. (QtyMod - 1)
    BY <2>5, SlotsFacts
  <2> HIDE DEF front
  <2>. QED BY <2>4, <2>6, SlotsFacts
<1> HIDE DEF front, c
<1>5. n \in 1 .. (QtyMod - 1) /\ n <= op.left /\ op.left \in 0 .. (QtyMod - 1)
  <2>1. op.left \in 0 .. (QtyMod - 1)
    BY <1>2
  <2>2. front \in Int /\ op.left \in Int /\ QtyMod \in Int
    BY <1>4, <2>1, QtyModAssumption
  <2>3. (n = front \/ n = op.left) /\ n <= front /\ n <= op.left
    BY <2>2, MinOfTwo
  <2>4. op.left \in 1 .. (QtyMod - 1)
    BY <1>1, <2>1, <2>2
  <2> HIDE DEF n
  <2>. QED BY <1>4, <2>1, <2>3, <2>4
<1> HIDE DEF n
<1>6. Takes(l, n)
  BY <1>1, <1>3, <1>5, FillTakes, QuantitiesFacts
<1>7. /\ IInv' /\ LevelLoses(l)
      /\ LiveOrders' \subseteq LiveOrders /\ live' <= live
  BY <1>6, TakesLoses
<1>8. OpGood'
  <2>1. op.left - n \in 0 .. (QtyMod - 1)
    BY <1>5, QtyModAssumption
  <2>2. op' \in [id : OrderIds, side : Sides, price : Prices, left : 0 .. (QtyMod - 1)]
        /\ op'.id = op.id
    BY <1>1, <1>2, <2>1
  <2>3. live' < MaxOrders
    <3>1. live \in Nat /\ live' \in Nat /\ MaxOrders \in Nat
      BY <1>7, FS_CardinalityType, MaxOrdersAssumption DEF IInv, Good
    <3>. QED BY <1>2, <1>7, <3>1
  <2>. QED BY <1>2, <1>7, <2>2, <2>3 DEF OpGood
<1>. QED BY <1>1, <1>3, <1>7, <1>8, LevelsAssumption DEF Loses

\* What rests is a quantity.
LEMMA RestStep ==
    ASSUME IInv, OpGood, RestRemainder
    PROVE  /\ IInv' /\ OpGood' /\ op.side \in Sides /\ op.price \in Prices
           /\ Push(<<op.side, op.price>>, op.id, op.left) /\ Gains(op.side, op.price)
<1>1. /\ op # NoOp /\ op.left > 0 /\ ~Marketable(op.side, op.price)
      /\ MarkIfEmpty(<<op.side, op.price>>) /\ op' = NoOp
  BY Zenon DEF RestRemainder
<1>2. /\ op.side \in Sides /\ op.price \in Prices /\ op.id \in OrderIds
      /\ op.left \in 0 .. (QtyMod - 1)
  BY <1>1 DEF OpGood
<1>3. op.left \in Quantities
  <2>1. op.left \in 1 .. (QtyMod - 1)
    BY <1>1, <1>2, QtyModAssumption
  <2>. QED BY <2>1, QuantitiesFacts
<1>4. Push(<<op.side, op.price>>, op.id, op.left)
  BY RestIsPush
<1>5. OpGood'
  BY <1>1 DEF OpGood
<1>6. <<op.side, op.price>> \in Levels
  BY <1>2, LevelsAssumption
<1>7. IInv' /\ LevelGains(<<op.side, op.price>>)
  BY <1>2, <1>3, <1>4, <1>6, PushGains
<1>. QED BY <1>1, <1>2, <1>4, <1>5, <1>7 DEF Gains

LEMMA RestNewStep ==
    ASSUME IInv, NEW l \in Levels, NEW id \in OrderIds, NEW qty \in Qtys, RestNew(l, id, qty)
    PROVE  IInv' /\ OpGood' /\ \E s \in Sides, p \in Prices : Gains(s, p)
<1>1. op' = NoOp /\ Push(l, id, qty) /\ MarkIfEmpty(l) /\ ~Marketable(l[1], l[2])
  BY DEF RestNew
<1>2. PICK s \in Sides, p \in Prices : l = <<s, p>>
  BY LevelsAssumption
<1>3. IInv' /\ LevelGains(l)
  BY <1>1, PushGains, QuantitiesFacts
<1>4. Gains(s, p)
  BY <1>1, <1>2, <1>3 DEF Gains
<1>. QED BY <1>1, <1>3, <1>4 DEF OpGood

LEMMA CancelStep ==
    ASSUME IInv, NEW id \in LiveOrders, Cancel(id)
    PROVE  IInv' /\ OpGood' /\ \E s \in Sides, p \in Prices : Loses(s, p)
<1>1. op' = NoOp /\ Unlink(id) /\ UnmarkIfEmptied(LevelOf(id))
  BY DEF Cancel
<1>2. IInv' /\ LevelOf(id) \in Levels /\ LevelLoses(LevelOf(id))
  BY <1>1, UnlinkTakes, TakesLoses
<1>. QED BY <1>1, <1>2, LevelsAssumption DEF OpGood, Loses

\* Every step of the book leaves the levels alone, or one of them loses or gets an order.
LEMMA BookStep ==
    ASSUME IInv, OpGood, FieldsGood, [BookNext]_bookVars
    PROVE  /\ IInv' /\ OpGood'
           /\ \/ UNCHANGED <<vars, ladder>>
              \/ \E s \in Sides, p \in Prices : Loses(s, p) \/ Gains(s, p)
<1>1. CASE \E id \in LiveOrders, qty \in Qtys : InPlace(id, qty)
  BY <1>1, InPlaceStep
<1>2. CASE \E id \in LiveOrders, qty \in Qtys : \E price \in Prices : Leave(id, price, qty)
  BY <1>2, LeaveStep
<1>3. CASE CrossFront
  BY <1>3, CrossStep
<1>4. CASE FinishFilled
  BY <1>4 DEF FinishFilled, vars, IInv, OpGood
<1>5. CASE RestRemainder
  BY <1>5, RestStep
<1>6. CASE \E l \in Levels, id \in OrderIds \ LiveOrders, qty \in Qtys : RestNew(l, id, qty)
  BY <1>6, RestNewStep
<1>7. CASE \E id \in LiveOrders : Cancel(id)
  BY <1>7, CancelStep
<1>8. CASE UNCHANGED bookVars
  BY <1>8 DEF bookVars, vars, IInv, OpGood, LiveOrders
<1>. QED BY <1>1, <1>2, <1>3, <1>4, <1>5, <1>6, <1>7, <1>8 DEF BookNext

\* No step but those three makes the changes the fast path is judged by.
LEMMA OtherSteps ==
    ASSUME IInv, OpGood, BookNext
    PROVE  /\ op = NoOp /\ op' = NoOp /\ loc' = loc =>
                  \E id \in LiveOrders, qty \in Qtys : Shrink(id, qty) \/ UNCHANGED bookVars
           /\ op = NoOp /\ op' # NoOp =>
                  \E id \in LiveOrders, qty \in Qtys, price \in Prices : Leave(id, price, qty)
           /\ op.left > 0 /\ op' = NoOp => RestRemainder
<1>1. NIL \notin OrderIds /\ NoOp.id = NIL /\ NoOp.left = 0
  BY OrderIdsAssumption DEF NoOp
<1>2. \A id \in LiveOrders : id # NIL
  BY <1>1 DEF IInv, Good, LiveOrders
<1>3. CASE \E id \in LiveOrders, qty \in Qtys : InPlace(id, qty)
  <2>1. op = NoOp /\ op' = NoOp
    BY <1>3 DEF InPlace
  <2>2. \E id \in LiveOrders, qty \in Qtys : Shrink(id, qty) \/ UNCHANGED bookVars
    BY <1>3, InPlaceIsShrink
  <2>. QED BY <1>1, <2>1, <2>2
<1>4. CASE \E id \in LiveOrders, qty \in Qtys : \E price \in Prices : Leave(id, price, qty)
  <2>1. op = NoOp
    BY <1>4, Zenon DEF Leave
  <2>2. PICK id \in LiveOrders : op'.id = id
    BY <1>4, LeaveStep
  <2>3. op' # NoOp
    BY <1>1, <1>2, <2>2
  <2>. QED BY <1>1, <1>4, <2>1, <2>3
<1>5. CASE CrossFront
  <2>1. op # NoOp /\ op' = [op EXCEPT !.left = op'.left]
    BY <1>5, Zenon DEF CrossFront
  <2>2. op'.id = op.id /\ op.id \in OrderIds
    BY <2>1 DEF OpGood
  <2>. QED BY <1>1, <2>1, <2>2
<1>6. CASE FinishFilled
  <2>1. op # NoOp /\ op.left = 0
    BY <1>6 DEF FinishFilled
  <2>. QED BY <2>1, <1>6 DEF FinishFilled
<1>7. CASE RestRemainder
  BY <1>1, <1>7, Zenon DEF RestRemainder
<1>8. CASE \E l \in Levels, id \in OrderIds \ LiveOrders, qty \in Qtys : RestNew(l, id, qty)
  <2>1. PICK l \in Levels, id \in OrderIds, qty \in Qtys : RestNew(l, id, qty)
    BY <1>8
  <2>2. op = NoOp /\ op' = NoOp /\ Push(l, id, qty)
    BY <2>1 DEF RestNew
  <2>3. id \notin DOMAIN loc /\ id \in DOMAIN loc'
    BY <2>2, Zenon DEF Push, LiveOrders
  <2>. QED BY <1>1, <2>2, <2>3
<1>9. CASE \E id \in LiveOrders : Cancel(id)
  <2>1. op = NoOp /\ op' = NoOp
    BY <1>9 DEF Cancel
  <2>2. loc' # loc
    <3>1. PICK id \in LiveOrders : Unlink(id)
      BY <1>9 DEF Cancel
    <3>2. SlotOf(id).qty - SlotOf(id).qty = 0
      <4>1. SlotOf(id).qty \in Quantities
        BY LiveFacts
      <4>2. SlotOf(id).qty \in 1 .. (QtyMod - 1)
        BY <4>1, QuantitiesFacts
      <4>3. SlotOf(id).qty \in Int
        BY <4>2, QtyModAssumption
      <4>. QED BY <4>3
    <3>3. id \notin DOMAIN loc'
      BY <3>1, <3>2, Zenon DEF Unlink, Spend, SlotOf
    <3>. QED BY <3>3 DEF LiveOrders
  <2>. QED BY <1>1, <2>1, <2>2
<1>. QED BY <1>3, <1>4, <1>5, <1>6, <1>7, <1>8, <1>9 DEF BookNext

-----------------------------------------------------------------------------
(* The ladders of the book *)

\* Facts about a ladder of either side, over the levels of the store.
BidLadder == INSTANCE LadderIndexProofs WITH
    Totals <- Nat, side <- "Bid", filled <- Occupied("Bid"), total <- LevelTotals("Bid"),
    bits <- ladder["Bid"].bits, summary <- ladder["Bid"].summary,
    count <- ladder["Bid"].count, best <- ladder["Bid"].best
AskLadder == INSTANCE LadderIndexProofs WITH
    Totals <- Nat, side <- "Ask", filled <- Occupied("Ask"), total <- LevelTotals("Ask"),
    bits <- ladder["Ask"].bits, summary <- ladder["Ask"].summary,
    count <- ladder["Ask"].count, best <- ladder["Ask"].best

\* They hold under what is assumed of the book's constants.
LEMMA LadderConstants ==
    /\ BidLadder!SpanAssumption /\ BidLadder!WordBitsAssumption /\ BidLadder!TotalsAssumption
    /\ AskLadder!SpanAssumption /\ AskLadder!WordBitsAssumption /\ AskLadder!TotalsAssumption
  BY SpanAssumption, WordBitsAssumption
     DEF BidLadder!SpanAssumption, BidLadder!WordBitsAssumption, BidLadder!TotalsAssumption,
         AskLadder!SpanAssumption, AskLadder!WordBitsAssumption, AskLadder!TotalsAssumption

\* The scans of both are the ones replace uses.
LEMMA BidScan == \A b, s, i : Bids!Rescan(b, s, i) = BidLadder!Rescan(b, s, i)
<1> TAKE b, s, i
<1>2. Bids!SeekDown(b, s) = BidLadder!SeekDown(b, s)
  BY DEF Bids!SeekDown, BidLadder!SeekDown, Bids!Highest, BidLadder!Highest,
         Bids!Max, BidLadder!Max,
         Bids!WordOf, BidLadder!WordOf, Bids!BitOf, BidLadder!BitOf, Bids!NIL, BidLadder!NIL
<1>3. Bids!RescanDown(b, s, i) = BidLadder!RescanDown(b, s, i)
  BY <1>2 DEF Bids!RescanDown, BidLadder!RescanDown, Bids!Highest, BidLadder!Highest,
         Bids!Max, BidLadder!Max,
         Bids!WordOf, BidLadder!WordOf, Bids!BitOf, BidLadder!BitOf
<1>. QED BY <1>3 DEF Bids!Rescan, BidLadder!Rescan

\* The same for asks.
LEMMA AskScan == \A b, s, i : Asks!Rescan(b, s, i) = AskLadder!Rescan(b, s, i)
<1> TAKE b, s, i
<1>2. Asks!SeekUp(b, s) = AskLadder!SeekUp(b, s)
  BY DEF Asks!SeekUp, AskLadder!SeekUp, Asks!Lowest, AskLadder!Lowest, Asks!Min, AskLadder!Min,
         Asks!NumWords, AskLadder!NumWords,
         Asks!WordOf, AskLadder!WordOf, Asks!BitOf, AskLadder!BitOf, Asks!NIL, AskLadder!NIL
<1>3. Asks!RescanUp(b, s, i) = AskLadder!RescanUp(b, s, i)
  BY <1>2 DEF Asks!RescanUp, AskLadder!RescanUp, Asks!Lowest, AskLadder!Lowest, Asks!Min, AskLadder!Min,
         Asks!WordOf, AskLadder!WordOf, Asks!BitOf, AskLadder!BitOf
<1>. QED BY <1>3 DEF Asks!Rescan, AskLadder!Rescan

\* The invariant of both ladders.
LaddersGood ==
    /\ ladder = [s \in Sides |-> ladder[s]]
    /\ BidLadder!IInv /\ AskLadder!IInv

\* What it says of the fields that replace reads.
LEMMA LadderFields ==
    ASSUME LaddersGood, NEW s \in Sides
    PROVE  /\ ladder[s].summary = [w \in DOMAIN ladder[s].summary |-> ladder[s].summary[w]]
           /\ ladder[s].count \in Nat
           /\ ladder[s].best = NIL <=> Occupied(s) = {}
           /\ ladder[s].best # NIL => ladder[s].best \in Occupied(s)
           /\ ladder[s].best # NIL =>
                  \A p \in Occupied(s) : IF s = "Bid" THEN p <= ladder[s].best
                                         ELSE ladder[s].best <= p
<1>1. Prices \subseteq Int /\ NIL \notin Prices /\ Occupied(s) \subseteq Prices
  BY SpanAssumption DEF Prices, NIL, Occupied
<1>2. CASE s = "Bid"
  <2>1. /\ ladder["Bid"].summary \in [BidLadder!SummaryWords -> SUBSET (0 .. (WordBits - 1))]
        /\ ladder["Bid"].count \in 0 .. Span
    BY DEF LaddersGood, BidLadder!IInv, BidLadder!TypeOK
  <2>2. IF Occupied("Bid") = {} THEN ladder["Bid"].best = NIL
        ELSE /\ ladder["Bid"].best \in Occupied("Bid")
             /\ \A p \in Occupied("Bid") : ~(p > ladder["Bid"].best)
    BY DEF LaddersGood, BidLadder!IInv, BidLadder!BestIsBest, BidLadder!Better, BidLadder!NIL, NIL
  <2>3. ladder["Bid"].count \in Nat
    BY <2>1, SpanAssumption
  <2>4. /\ ladder["Bid"].best = NIL <=> Occupied("Bid") = {}
        /\ ladder["Bid"].best # NIL => ladder["Bid"].best \in Occupied("Bid")
    BY <1>1, <1>2, <2>2
  <2>5. ASSUME ladder["Bid"].best # NIL, NEW p \in Occupied("Bid") PROVE p <= ladder["Bid"].best
    <3>1. p \in Int /\ ladder["Bid"].best \in Int
      BY <1>1, <1>2, <2>4, <2>5
    <3>2. ~(p > ladder["Bid"].best)
      BY <2>2
    <3>. QED BY <3>1, <3>2
  <2>. QED BY <1>2, <2>1, <2>3, <2>4, <2>5
<1>3. CASE s = "Ask"
  <2>1. /\ ladder["Ask"].summary \in [AskLadder!SummaryWords -> SUBSET (0 .. (WordBits - 1))]
        /\ ladder["Ask"].count \in 0 .. Span
    BY DEF LaddersGood, AskLadder!IInv, AskLadder!TypeOK
  <2>2. IF Occupied("Ask") = {} THEN ladder["Ask"].best = NIL
        ELSE /\ ladder["Ask"].best \in Occupied("Ask")
             /\ \A p \in Occupied("Ask") : ~(p < ladder["Ask"].best)
    BY DEF LaddersGood, AskLadder!IInv, AskLadder!BestIsBest, AskLadder!Better, AskLadder!NIL, NIL
  <2>3. ladder["Ask"].count \in Nat
    BY <2>1, SpanAssumption
  <2>4. /\ ladder["Ask"].best = NIL <=> Occupied("Ask") = {}
        /\ ladder["Ask"].best # NIL => ladder["Ask"].best \in Occupied("Ask")
    BY <1>1, <1>3, <2>2
  <2>5. ASSUME ladder["Ask"].best # NIL, NEW p \in Occupied("Ask") PROVE ladder["Ask"].best <= p
    <3>1. p \in Int /\ ladder["Ask"].best \in Int
      BY <1>1, <1>3, <2>4, <2>5
    <3>2. ~(p < ladder["Ask"].best)
      BY <2>2
    <3>. QED BY <3>1, <3>2
  <2>. QED BY <1>3, <2>1, <2>3, <2>4, <2>5
<1>. QED BY <1>2, <1>3 DEF Sides

LEMMA FieldsKnown == LaddersGood => FieldsGood
  BY LadderFields DEF LaddersGood, FieldsGood

\* An untouched ladder stays good.
LEMMA BidStays ==
    ASSUME BidLadder!IInv, ladder'["Bid"] = ladder["Bid"],
           Occupied("Bid")' = Occupied("Bid"), LevelTotals("Bid")' = LevelTotals("Bid")
    PROVE  BidLadder!IInv'
<1>1. UNCHANGED BidLadder!vars
  BY DEF BidLadder!vars
<1>. QED BY <1>1, LadderConstants, BidLadder!NextInv

\* The same for asks.
LEMMA AskStays ==
    ASSUME AskLadder!IInv, ladder'["Ask"] = ladder["Ask"],
           Occupied("Ask")' = Occupied("Ask"), LevelTotals("Ask")' = LevelTotals("Ask")
    PROVE  AskLadder!IInv'
<1>1. UNCHANGED AskLadder!vars
  BY DEF AskLadder!vars
<1>. QED BY <1>1, LadderConstants, AskLadder!NextInv

\* A bid level that has lost an order, the bid ladder after it.
LEMMA BidLoses ==
    ASSUME LaddersGood, NEW p \in Prices, LevelLoses(<<"Bid", p>>), UnmarkIfEmptied(<<"Bid", p>>)
    PROVE  IndexLoses("Bid", p) /\ BidLadder!IInv'
<1> DEFINE t == lvl'[<<"Bid", p>>].total
<1>1. "Bid" \in Sides /\ p \in BidLadder!Indexes /\ p \in Occupied("Bid") /\ t \in Nat
  BY DEF Sides, Prices, BidLadder!Indexes, LevelLoses, Occupied
<1>2. /\ LevelTotals("Bid")' = [LevelTotals("Bid") EXCEPT ![p] = t]
      /\ Occupied("Bid")' = IF lvl'[<<"Bid", p>>].head = NIL THEN Occupied("Bid") \ {p}
                            ELSE Occupied("Bid") \cup {p}
  BY <1>1, LevelsOfSide DEF LevelLoses
<1>3. CASE lvl'[<<"Bid", p>>].head # NIL
  <2>1. ladder' = ladder /\ Occupied("Bid")' = Occupied("Bid")
    BY <1>1, <1>2, <1>3 DEF UnmarkIfEmptied
  <2> HIDE DEF t
  <2>2. Bids!Reduce(p, t) /\ BidLadder!Reduce(p, t)
    BY <1>1, <1>2, <2>1 DEF Bids!Reduce, BidLadder!Reduce
  <2>3. BidLadder!IInv'
    BY <1>1, <2>2, LadderConstants, BidLadder!ReduceInv DEF LaddersGood
  <2>. QED BY <1>3, <2>2, <2>3 DEF IndexLoses, t
<1>4. CASE lvl'[<<"Bid", p>>].head = NIL
  <2> DEFINE w == p \div WordBits
             v == w \div WordBits
             b == [ladder["Bid"].bits EXCEPT ![w] = @ \ {p % WordBits}]
             sum == [ladder["Bid"].summary EXCEPT
                        ![v] = IF b[w] = {} THEN @ \ {w % WordBits} ELSE @]
  <2>1. /\ ladder'["Bid"].bits = b /\ ladder'["Bid"].summary = sum
        /\ ladder'["Bid"].count = ladder["Bid"].count - 1
        /\ ladder'["Bid"].best = BestAfter("Bid", p, b, sum)
    BY <1>1, <1>4, FieldsKnown, UnmarkedFields
  <2>2. BestAfter("Bid", p, b, sum) =
            IF ladder["Bid"].count = 1 THEN NIL
            ELSE IF p # ladder["Bid"].best THEN ladder["Bid"].best ELSE Bids!Rescan(b, sum, p)
    BY DEF BestAfter
  <2>3. Bids!Rescan(b, sum, p) = BidLadder!Rescan(b, sum, p)
    BY BidScan
  <2>4. ladder["Bid"].count = 1 <=> ladder'["Bid"].count = 0
    BY <1>1, <2>1, LadderFields
  <2>5. t = 0 /\ Occupied("Bid")' = Occupied("Bid") \ {p}
    BY <1>2, <1>4, Zenon DEF LevelLoses
  <2> HIDE DEF t
  <2>6. Bids!Drain(p)
    BY <1>1, <1>2, <2>1, <2>2, <2>4, <2>5
       DEF Bids!Drain, Bids!Clear, Bids!WordOf, Bids!BitOf, Bids!NIL, NIL
  <2>7. BidLadder!Drain(p)
    BY <1>1, <1>2, <2>1, <2>2, <2>3, <2>4, <2>5, Zenon
       DEF BidLadder!Drain, BidLadder!Clear, BidLadder!WordOf, BidLadder!BitOf, BidLadder!NIL, NIL
  <2>8. BidLadder!IInv'
    BY <1>1, <2>7, LadderConstants, BidLadder!DrainInv DEF LaddersGood
  <2>. QED BY <1>4, <2>6, <2>8 DEF IndexLoses
<1>. QED BY <1>3, <1>4

\* A bid level that has got an order.
LEMMA BidGains ==
    ASSUME LaddersGood, NEW p \in Prices, LevelGains(<<"Bid", p>>), MarkIfEmpty(<<"Bid", p>>)
    PROVE  IndexGains("Bid", p) /\ BidLadder!IInv'
<1> DEFINE t == lvl'[<<"Bid", p>>].total
<1>1. "Bid" \in Sides /\ p \in BidLadder!Indexes /\ t \in Nat
  BY DEF Sides, Prices, BidLadder!Indexes, LevelGains
<1>2. /\ LevelTotals("Bid")' = [LevelTotals("Bid") EXCEPT ![p] = t]
      /\ Occupied("Bid")' = Occupied("Bid") \cup {p}
  BY <1>1, LevelsOfSide DEF LevelGains
<1>3. p \in Occupied("Bid") <=> lvl[<<"Bid", p>>].head # NIL
  BY DEF Occupied
<1> HIDE DEF t
<1>4. CASE lvl[<<"Bid", p>>].head # NIL
  <2>1. ladder' = ladder
    BY <1>4 DEF MarkIfEmpty
  <2>2. Bids!Rest(p, t) /\ BidLadder!Rest(p, t)
    BY <1>2, <1>3, <1>4, <2>1
       DEF Bids!Rest, Bids!LevelInsert, BidLadder!Rest, BidLadder!LevelInsert
  <2>. QED BY <1>1, <2>2, LadderConstants, BidLadder!RestInv DEF LaddersGood, IndexGains, t
<1>5. CASE lvl[<<"Bid", p>>].head = NIL
  <2> DEFINE w == p \div WordBits
  <2>1. /\ ladder'["Bid"].bits = [ladder["Bid"].bits EXCEPT ![w] = @ \cup {p % WordBits}]
        /\ ladder'["Bid"].summary =
               [ladder["Bid"].summary EXCEPT ![w \div WordBits] = @ \cup {w % WordBits}]
        /\ ladder'["Bid"].count = ladder["Bid"].count + 1
        /\ ladder'["Bid"].best = IF ladder["Bid"].best = NIL \/ p > ladder["Bid"].best
                                 THEN p ELSE ladder["Bid"].best
    BY <1>1, <1>5, FieldsKnown, MarkedFields
  <2>2. Bids!Rest(p, t)
    BY <1>2, <1>3, <1>5, <2>1
       DEF Bids!Rest, Bids!LevelInsert, Bids!WordOf, Bids!BitOf, Bids!Better, Bids!NIL, NIL
  <2>3. BidLadder!Rest(p, t)
    BY <1>2, <1>3, <1>5, <2>1
       DEF BidLadder!Rest, BidLadder!LevelInsert, BidLadder!WordOf, BidLadder!BitOf,
           BidLadder!Better, BidLadder!NIL, NIL
  <2>. QED BY <1>1, <2>2, <2>3, LadderConstants, BidLadder!RestInv DEF LaddersGood, IndexGains, t
<1>. QED BY <1>4, <1>5

\* An ask level that has lost an order, the ask ladder after it.
LEMMA AskLoses ==
    ASSUME LaddersGood, NEW p \in Prices, LevelLoses(<<"Ask", p>>), UnmarkIfEmptied(<<"Ask", p>>)
    PROVE  IndexLoses("Ask", p) /\ AskLadder!IInv'
<1> DEFINE t == lvl'[<<"Ask", p>>].total
<1>1. "Ask" \in Sides /\ p \in AskLadder!Indexes /\ p \in Occupied("Ask") /\ t \in Nat
  BY DEF Sides, Prices, AskLadder!Indexes, LevelLoses, Occupied
<1>2. /\ LevelTotals("Ask")' = [LevelTotals("Ask") EXCEPT ![p] = t]
      /\ Occupied("Ask")' = IF lvl'[<<"Ask", p>>].head = NIL THEN Occupied("Ask") \ {p}
                            ELSE Occupied("Ask") \cup {p}
  BY <1>1, LevelsOfSide DEF LevelLoses
<1>3. CASE lvl'[<<"Ask", p>>].head # NIL
  <2>1. ladder' = ladder /\ Occupied("Ask")' = Occupied("Ask")
    BY <1>1, <1>2, <1>3 DEF UnmarkIfEmptied
  <2> HIDE DEF t
  <2>2. Asks!Reduce(p, t) /\ AskLadder!Reduce(p, t)
    BY <1>1, <1>2, <2>1 DEF Asks!Reduce, AskLadder!Reduce
  <2>3. AskLadder!IInv'
    BY <1>1, <2>2, LadderConstants, AskLadder!ReduceInv DEF LaddersGood
  <2>. QED BY <1>3, <2>2, <2>3 DEF IndexLoses, t
<1>4. CASE lvl'[<<"Ask", p>>].head = NIL
  <2> DEFINE w == p \div WordBits
             v == w \div WordBits
             b == [ladder["Ask"].bits EXCEPT ![w] = @ \ {p % WordBits}]
             sum == [ladder["Ask"].summary EXCEPT
                        ![v] = IF b[w] = {} THEN @ \ {w % WordBits} ELSE @]
  <2>1. /\ ladder'["Ask"].bits = b /\ ladder'["Ask"].summary = sum
        /\ ladder'["Ask"].count = ladder["Ask"].count - 1
        /\ ladder'["Ask"].best = BestAfter("Ask", p, b, sum)
    BY <1>1, <1>4, FieldsKnown, UnmarkedFields
  <2>2. BestAfter("Ask", p, b, sum) =
            IF ladder["Ask"].count = 1 THEN NIL
            ELSE IF p # ladder["Ask"].best THEN ladder["Ask"].best ELSE Asks!Rescan(b, sum, p)
    BY DEF BestAfter
  <2>3. Asks!Rescan(b, sum, p) = AskLadder!Rescan(b, sum, p)
    BY AskScan
  <2>4. ladder["Ask"].count = 1 <=> ladder'["Ask"].count = 0
    BY <1>1, <2>1, LadderFields
  <2>5. t = 0 /\ Occupied("Ask")' = Occupied("Ask") \ {p}
    BY <1>2, <1>4, Zenon DEF LevelLoses
  <2> HIDE DEF t
  <2>6. Asks!Drain(p)
    BY <1>1, <1>2, <2>1, <2>2, <2>4, <2>5
       DEF Asks!Drain, Asks!Clear, Asks!WordOf, Asks!BitOf, Asks!NIL, NIL
  <2>7. AskLadder!Drain(p)
    BY <1>1, <1>2, <2>1, <2>2, <2>3, <2>4, <2>5, Zenon
       DEF AskLadder!Drain, AskLadder!Clear, AskLadder!WordOf, AskLadder!BitOf, AskLadder!NIL, NIL
  <2>8. AskLadder!IInv'
    BY <1>1, <2>7, LadderConstants, AskLadder!DrainInv DEF LaddersGood
  <2>. QED BY <1>4, <2>6, <2>8 DEF IndexLoses
<1>. QED BY <1>3, <1>4

\* An ask level that has got an order.
LEMMA AskGains ==
    ASSUME LaddersGood, NEW p \in Prices, LevelGains(<<"Ask", p>>), MarkIfEmpty(<<"Ask", p>>)
    PROVE  IndexGains("Ask", p) /\ AskLadder!IInv'
<1> DEFINE t == lvl'[<<"Ask", p>>].total
<1>1. "Ask" \in Sides /\ p \in AskLadder!Indexes /\ t \in Nat
  BY DEF Sides, Prices, AskLadder!Indexes, LevelGains
<1>2. /\ LevelTotals("Ask")' = [LevelTotals("Ask") EXCEPT ![p] = t]
      /\ Occupied("Ask")' = Occupied("Ask") \cup {p}
  BY <1>1, LevelsOfSide DEF LevelGains
<1>3. p \in Occupied("Ask") <=> lvl[<<"Ask", p>>].head # NIL
  BY DEF Occupied
<1> HIDE DEF t
<1>4. CASE lvl[<<"Ask", p>>].head # NIL
  <2>1. ladder' = ladder
    BY <1>4 DEF MarkIfEmpty
  <2>2. Asks!Rest(p, t) /\ AskLadder!Rest(p, t)
    BY <1>2, <1>3, <1>4, <2>1
       DEF Asks!Rest, Asks!LevelInsert, AskLadder!Rest, AskLadder!LevelInsert
  <2>. QED BY <1>1, <2>2, LadderConstants, AskLadder!RestInv DEF LaddersGood, IndexGains, t
<1>5. CASE lvl[<<"Ask", p>>].head = NIL
  <2> DEFINE w == p \div WordBits
  <2>1. /\ ladder'["Ask"].bits = [ladder["Ask"].bits EXCEPT ![w] = @ \cup {p % WordBits}]
        /\ ladder'["Ask"].summary =
               [ladder["Ask"].summary EXCEPT ![w \div WordBits] = @ \cup {w % WordBits}]
        /\ ladder'["Ask"].count = ladder["Ask"].count + 1
        /\ ladder'["Ask"].best = IF ladder["Ask"].best = NIL \/ p < ladder["Ask"].best
                                 THEN p ELSE ladder["Ask"].best
    BY <1>1, <1>5, FieldsKnown, MarkedFields
  <2>2. Asks!Rest(p, t)
    BY <1>2, <1>3, <1>5, <2>1
       DEF Asks!Rest, Asks!LevelInsert, Asks!WordOf, Asks!BitOf, Asks!Better, Asks!NIL, NIL
  <2>3. AskLadder!Rest(p, t)
    BY <1>2, <1>3, <1>5, <2>1
       DEF AskLadder!Rest, AskLadder!LevelInsert, AskLadder!WordOf, AskLadder!BitOf,
           AskLadder!Better, AskLadder!NIL, NIL
  <2>. QED BY <1>1, <2>2, <2>3, LadderConstants, AskLadder!RestInv DEF LaddersGood, IndexGains, t
<1>. QED BY <1>4, <1>5

\* A level of either side loses an order.
LEMMA LosesFrom ==
    ASSUME LaddersGood, NEW s \in Sides, NEW p \in Prices, Loses(s, p)
    PROVE  IndexLoses(s, p) /\ Untouched(Opposite(s)) /\ LaddersGood'
<1> USE DEF Loses
<1>1. /\ Occupied(Opposite(s))' = Occupied(Opposite(s))
      /\ LevelTotals(Opposite(s))' = LevelTotals(Opposite(s))
      /\ Opposite(s) \in Sides \ {s}
      /\ Occupied(s)' = IF lvl'[<<s, p>>].head = NIL THEN Occupied(s) \ {p}
                        ELSE Occupied(s) \cup {p}
  BY LevelsOfSide DEF LevelLoses
<1>2. ladder'[Opposite(s)] = ladder[Opposite(s)] /\ ladder' = [t \in Sides |-> ladder'[t]]
  <2>1. CASE lvl'[<<s, p>>].head = NIL
    BY <1>1, <2>1, FieldsKnown, UnmarkedFields
  <2>2. CASE lvl'[<<s, p>>].head # NIL
    <3>1. ladder' = ladder
      BY <2>2 DEF UnmarkIfEmptied
    <3>. QED BY <3>1 DEF LaddersGood
  <2>. QED BY <2>1, <2>2
<1>3. Untouched(Opposite(s))
  BY <1>1, <1>2 DEF Untouched
<1>4. CASE s = "Bid"
  <2>1. IndexLoses("Bid", p) /\ BidLadder!IInv'
    BY <1>4, BidLoses
  <2>2. AskLadder!IInv'
    BY <1>1, <1>2, <1>4, AskStays DEF LaddersGood, Opposite
  <2>. QED BY <1>1, <1>2, <1>3, <1>4, <2>1, <2>2 DEF LaddersGood
<1>5. CASE s = "Ask"
  <2>1. IndexLoses("Ask", p) /\ AskLadder!IInv'
    BY <1>5, AskLoses
  <2>2. BidLadder!IInv'
    BY <1>1, <1>2, <1>5, BidStays DEF LaddersGood, Opposite
  <2>. QED BY <1>1, <1>2, <1>3, <1>5, <2>1, <2>2 DEF LaddersGood
<1>. QED BY <1>4, <1>5 DEF Sides

\* A level of either side gets an order.
LEMMA GainsAt ==
    ASSUME LaddersGood, NEW s \in Sides, NEW p \in Prices, Gains(s, p)
    PROVE  IndexGains(s, p) /\ Untouched(Opposite(s)) /\ LaddersGood'
<1> USE DEF Gains
<1>1. /\ Occupied(Opposite(s))' = Occupied(Opposite(s))
      /\ LevelTotals(Opposite(s))' = LevelTotals(Opposite(s))
      /\ Opposite(s) \in Sides \ {s}
      /\ Occupied(s)' = Occupied(s) \cup {p}
  BY LevelsOfSide DEF LevelGains
<1>2. ladder'[Opposite(s)] = ladder[Opposite(s)] /\ ladder' = [t \in Sides |-> ladder'[t]]
  <2>1. CASE lvl[<<s, p>>].head = NIL
    BY <1>1, <2>1, FieldsKnown, MarkedFields
  <2>2. CASE lvl[<<s, p>>].head # NIL
    <3>1. ladder' = ladder
      BY <2>2 DEF MarkIfEmpty
    <3>. QED BY <3>1 DEF LaddersGood
  <2>. QED BY <2>1, <2>2
<1>3. Untouched(Opposite(s))
  BY <1>1, <1>2 DEF Untouched
<1>4. CASE s = "Bid"
  <2>1. IndexGains("Bid", p) /\ BidLadder!IInv'
    BY <1>4, BidGains
  <2>2. AskLadder!IInv'
    BY <1>1, <1>2, <1>4, AskStays DEF LaddersGood, Opposite
  <2>. QED BY <1>1, <1>2, <1>3, <1>4, <2>1, <2>2 DEF LaddersGood
<1>5. CASE s = "Ask"
  <2>1. IndexGains("Ask", p) /\ AskLadder!IInv'
    BY <1>5, AskGains
  <2>2. BidLadder!IInv'
    BY <1>1, <1>2, <1>5, BidStays DEF LaddersGood, Opposite
  <2>. QED BY <1>1, <1>2, <1>3, <1>5, <2>1, <2>2 DEF LaddersGood
<1>. QED BY <1>4, <1>5 DEF Sides

\* That the best prices are enough to tell whether anything can trade needs the
\* ladders; that they stay apart needs the test before an order rests.
BookInv == IInv /\ OpGood /\ LaddersGood /\ Uncrossed

LEMMA BookInitInv == BookInit => BookInv
<1> SUFFICES ASSUME BookInit PROVE BookInv
  OBVIOUS
<1>1. IInv /\ op = NoOp
  BY InitInv DEF BookInit
<1>2. ladder = [s \in Sides |-> [bits |-> [w \in Bids!Words |-> {}],
                                 summary |-> [w \in Bids!SummaryWords |-> {}],
                                 count |-> 0, best |-> NIL]]
  BY DEF BookInit
<1>3. \A s \in Sides : Occupied(s) = {} /\ LevelTotals(s) = [p \in Prices |-> 0]
  <2>1. \A s \in Sides : \A p \in Prices : lvl[<<s, p>>] = [head |-> NIL, tail |-> NIL, total |-> 0]
    BY LevelsAssumption DEF BookInit, Init
  <2>. QED BY <2>1 DEF Occupied, LevelTotals
<1>4. BidLadder!IInv
  <2>1. BidLadder!Init
    BY <1>2, <1>3 DEF Sides, BidLadder!Init, BidLadder!Indexes, Prices, BidLadder!NIL, NIL,
           BidLadder!Words, BidLadder!SummaryWords, BidLadder!NumWords,
           Bids!Words, Bids!SummaryWords, Bids!NumWords
  <2>. QED BY <2>1, LadderConstants, BidLadder!InitInv
<1>5. AskLadder!IInv
  <2>1. AskLadder!Init
    BY <1>2, <1>3 DEF Sides, AskLadder!Init, AskLadder!Indexes, Prices, AskLadder!NIL, NIL,
           AskLadder!Words, AskLadder!SummaryWords, AskLadder!NumWords,
           Bids!Words, Bids!SummaryWords, Bids!NumWords
  <2>. QED BY <2>1, LadderConstants, AskLadder!InitInv
<1>6. ladder = [s \in Sides |-> ladder[s]]
  BY <1>2
<1>7. Uncrossed
  BY <1>3 DEF Uncrossed, Sides
<1>. QED BY <1>1, <1>4, <1>5, <1>6, <1>7 DEF BookInv, OpGood, LaddersGood

LEMMA BookNextInv == BookInv /\ [BookNext]_bookVars => BookInv'
<1> SUFFICES ASSUME BookInv, [BookNext]_bookVars PROVE BookInv'
  OBVIOUS
<1>1. IInv /\ OpGood /\ LaddersGood /\ Uncrossed /\ FieldsGood
  BY FieldsKnown DEF BookInv
<1>2. /\ IInv' /\ OpGood'
      /\ \/ UNCHANGED <<vars, ladder>>
         \/ \E s \in Sides, p \in Prices : Loses(s, p) \/ Gains(s, p)
  BY <1>1, BookStep
<1>3. CASE UNCHANGED <<vars, ladder>>
  <2>1. /\ \A s \in Sides : Occupied(s)' = Occupied(s)
        /\ \A s \in Sides : LevelTotals(s)' = LevelTotals(s)
    BY <1>3 DEF vars, Occupied, LevelTotals
  <2>2. BidLadder!IInv' /\ AskLadder!IInv'
    BY <1>1, <1>3, <2>1, BidStays, AskStays DEF LaddersGood, Sides
  <2>. QED BY <1>1, <1>2, <1>3, <2>1, <2>2 DEF BookInv, LaddersGood, Uncrossed, Sides
<1>4. CASE \E s \in Sides, p \in Prices : Loses(s, p)
  BY <1>1, <1>2, <1>4, LosesFrom, UncrossedLoses DEF BookInv
<1>5. CASE \E s \in Sides, p \in Prices : Gains(s, p)
  BY <1>1, <1>2, <1>5, GainsAt, UncrossedGains DEF BookInv
<1>. QED BY <1>2, <1>3, <1>4, <1>5

-----------------------------------------------------------------------------
(* The theorems about the book *)

\* The invariant of the book: the store's, and of both ladders that they are what their
\* levels ask for, also while an order is being replaced.
THEOREM BookInvariance == BookSpec => []BookInv
<1>1. BookInit => BookInv
  BY BookInitInv
<1>2. BookInv /\ [BookNext]_bookVars => BookInv'
  BY BookNextInv
<1>. QED BY <1>1, <1>2, PTL DEF BookSpec

\* Bitmap, summary, count and best price of both ladders are those of the levels of the
\* store, also in the middle of a replacement, and the best bid is below the best ask.
THEOREM LaddersMatch == BookSpec => []LaddersMatchStore
<1>1. BookInv => LaddersMatchStore
  <2> SUFFICES ASSUME BookInv PROVE LaddersMatchStore
    OBVIOUS
  <2>1. BidLadder!IInv /\ AskLadder!IInv /\ Uncrossed
    BY DEF BookInv, LaddersGood
  <2>2. Bids!OccupancyMatches
    <3>1. BidLadder!OccupancyMatches
      BY <2>1, LadderConstants, BidLadder!OccupancyKnown
    <3>. QED BY <3>1
         DEF Bids!OccupancyMatches, BidLadder!OccupancyMatches, Bids!Words, BidLadder!Words,
             Bids!SummaryWords, BidLadder!SummaryWords, Bids!NumWords, BidLadder!NumWords,
             Bids!BitOf, BidLadder!BitOf, Bids!WordOf, BidLadder!WordOf,
             Bids!Cardinality, BidLadder!Cardinality, Bids!IsFiniteSet, BidLadder!IsFiniteSet
  <2>3. Asks!OccupancyMatches
    <3>1. AskLadder!OccupancyMatches
      BY <2>1, LadderConstants, AskLadder!OccupancyKnown
    <3>. QED BY <3>1
         DEF Asks!OccupancyMatches, AskLadder!OccupancyMatches, Asks!Words, AskLadder!Words,
             Asks!SummaryWords, AskLadder!SummaryWords, Asks!NumWords, AskLadder!NumWords,
             Asks!BitOf, AskLadder!BitOf, Asks!WordOf, AskLadder!WordOf,
             Asks!Cardinality, AskLadder!Cardinality, Asks!IsFiniteSet, AskLadder!IsFiniteSet
  <2>4. Bids!BestIsBest
    <3>1. BidLadder!BestIsBest
      BY <2>1 DEF BidLadder!IInv
    <3>. QED BY <3>1 DEF Bids!BestIsBest, BidLadder!BestIsBest, Bids!Better, BidLadder!Better,
                         Bids!NIL, BidLadder!NIL
  <2>5. Asks!BestIsBest
    <3>1. AskLadder!BestIsBest
      BY <2>1 DEF AskLadder!IInv
    <3>. QED BY <3>1 DEF Asks!BestIsBest, AskLadder!BestIsBest, Asks!Better, AskLadder!Better,
                         Asks!NIL, AskLadder!NIL
  <2>. QED BY <2>1, <2>2, <2>3, <2>4, <2>5 DEF LaddersMatchStore, Uncrossed
<1>. QED BY <1>1, BookInvariance, PTL

\* The written-out stretches do what the helpers do at the same place: a reduction in
\* place that of Shrink, leaving the book that of Unlink and unlinkLevel, resting that of
\* levelInsert and Push; and what rests has met every order that it could trade with.
THEOREM FastPath == BookSpec => FastPathIsGeneric
<1> DEFINE InPlaceOk ==
             op = NoOp /\ op' = NoOp /\ loc' = loc =>
                 \E id \in LiveOrders, qty \in Qtys : Shrink(id, qty)
           LeaveOk ==
             \A s \in Sides, p \in Prices :
               op = NoOp /\ op' # NoOp /\ LevelOf(op'.id) = <<s, p>> =>
                 Unlink(op'.id) /\ IndexLoses(s, p) /\ Untouched(Opposite(s))
           RestOk ==
             \A s \in Sides, p \in Prices :
               op.side = s /\ op.price = p /\ op.left > 0 /\ op' = NoOp =>
                 /\ Push(<<s, p>>, op.id, op.left)
                 /\ IndexGains(s, p)
                 /\ Untouched(Opposite(s))
                 /\ \A q \in Occupied(Opposite(s)) : IF s = "Bid" THEN q > p ELSE q < p
<1>1. ASSUME BookInv, [BookNext]_bookVars PROVE [InPlaceOk /\ LeaveOk /\ RestOk]_bookVars
  <2>1. SUFFICES ASSUME BookNext, ~UNCHANGED bookVars PROVE InPlaceOk /\ LeaveOk /\ RestOk
    BY <1>1
  <2>2. IInv /\ OpGood /\ LaddersGood /\ FieldsGood
    BY <1>1, FieldsKnown DEF BookInv
  <2>3. InPlaceOk
    BY <2>1, <2>2, OtherSteps
  <2>4. LeaveOk
    BY <2>1, <2>2, OtherSteps, LeaveStep, LosesFrom
  <2>5. RestOk
    BY <2>1, <2>2, OtherSteps, RestStep, GainsAt, MeetsNothing DEF Gains
  <2>. QED BY <2>3, <2>4, <2>5
<1> HIDE DEF InPlaceOk, LeaveOk, RestOk
<1>2. BookSpec => [][InPlaceOk /\ LeaveOk /\ RestOk]_bookVars
  BY <1>1, BookInvariance, PTL DEF BookSpec
<1>. QED BY <1>2, PTL DEF FastPathIsGeneric, InPlaceOk, LeaveOk, RestOk

=============================================================================
