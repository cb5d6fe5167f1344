------------------------------ MODULE LadderIndex ------------------------------
(***************************************************************************)
(* The ladder of index.go: a level for every price of a range, an          *)
(* occupancy bitmap with a summary of its words, and a cursor on the best  *)
(* occupied level.  A word is the set of its bits that are 1; indexes are  *)
(* offsets from the base price.                                            *)
(*                                                                         *)
(* Of a level only its total is shown, and whether it has orders.  The     *)
(* book fills and empties levels between the calls of the index: it calls  *)
(* levelInsert before push, and unlinkLevel after an order has left.       *)
(***************************************************************************)
EXTENDS Integers, SequencesExt, FiniteSetsExt

CONSTANTS
    Span,       \* the number of prices, pmax - pmin + 1
    WordBits,   \* the bits of a word, 64 in the code
    Totals      \* the totals of levels that have orders

ASSUME SpanAssumption == Span \in Nat \ {0}
ASSUME WordBitsAssumption == WordBits \in Nat \ {0}
ASSUME TotalsAssumption == Totals \subseteq Nat

VARIABLES
    side,       \* the side the ladder serves
    filled,     \* the levels that have orders
    total,      \* total[i]: the level's quantity
    bits,       \* bits[w]: the bits of word w that are set
    summary,    \* summary[s]: the bits set in word s of the summary
    count,      \* ladderIndex.count
    best        \* ladderIndex.best: an index, or NIL

vars == <<side, filled, total, bits, summary, count, best>>

NIL == -1
Indexes == 0 .. (Span - 1)
NumWords == (Span + WordBits - 1) \div WordBits
Words == 0 .. (NumWords - 1)
SummaryWords == 0 .. ((NumWords + WordBits - 1) \div WordBits - 1)

WordOf(i) == i \div WordBits
BitOf(i) == i % WordBits

\* TrailingZeros64 and 63 - LeadingZeros64 of a word that is not 0.
Lowest(word) == Min(word)
Highest(word) == Max(word)

-----------------------------------------------------------------------------
(* rescan: the occupied index next to from, in a bitmap b with summary s *)

\* Mutation: only the next word is looked at, not the summary.
RescanUpOneWord(b, s, from) ==
    LET w == WordOf(from)
        here == {x \in b[w] : x >= BitOf(from)}
    IN  IF here # {} THEN w * WordBits + Lowest(here)
        ELSE IF w + 1 \in Words /\ b[w + 1] # {} THEN (w + 1) * WordBits + Lowest(b[w + 1])
        ELSE NIL

\* The walk over the summary: the lowest index in the words from n on.
SeekUp(b, s) ==
    LET seek[n \in Nat] ==
            LET sw == WordOf(n)
                ahead == {x \in s[sw] : x >= BitOf(n)}
                nw == sw * WordBits + Lowest(ahead)
            IN  IF n >= NumWords THEN NIL
                ELSE IF ahead # {} THEN nw * WordBits + Lowest(b[nw])
                ELSE seek[sw * WordBits + WordBits]
    IN  seek

\* Asks: upward, in the rest of the word and then by the summary from the next word.
RescanUp(b, s, from) ==
    LET w == WordOf(from)
        here == {x \in b[w] : x >= BitOf(from)}
    IN  IF here # {} THEN w * WordBits + Lowest(here) ELSE SeekUp(b, s)[w + 1]

\* Bids: the same downward.
SeekDown(b, s) ==
    LET seek[n \in Int] ==
            LET sw == WordOf(n)
                ahead == {x \in s[sw] : x <= BitOf(n)}
                nw == sw * WordBits + Highest(ahead)
            IN  IF n < 0 THEN NIL
                ELSE IF ahead # {} THEN nw * WordBits + Highest(b[nw])
                ELSE seek[sw * WordBits - 1]
    IN  seek

RescanDown(b, s, from) ==
    LET w == WordOf(from)
        here == {x \in b[w] : x <= BitOf(from)}
    IN  IF here # {} THEN w * WordBits + Highest(here) ELSE SeekDown(b, s)[w - 1]

Rescan(b, s, from) == IF side = "Ask" THEN RescanUp(b, s, from) ELSE RescanDown(b, s, from)

-----------------------------------------------------------------------------
(* levelInsert and clear *)

Better(i, j) == IF side = "Bid" THEN i > j ELSE i < j

\* Mutation: a level that has orders is counted again.
LevelInsertCounting(i) ==
    /\ bits' = [bits EXCEPT ![WordOf(i)] = @ \cup {BitOf(i)}]
    /\ summary' = [summary EXCEPT ![WordOf(WordOf(i))] = @ \cup {BitOf(WordOf(i))}]
    /\ count' = count + 1
    /\ best' = IF best = NIL \/ Better(i, best) THEN i ELSE best

LevelInsert(i) ==
    IF i \in filled THEN UNCHANGED <<bits, summary, count, best>>
    ELSE /\ bits' = [bits EXCEPT ![WordOf(i)] = @ \cup {BitOf(i)}]
         /\ summary' = [summary EXCEPT ![WordOf(WordOf(i))] = @ \cup {BitOf(WordOf(i))}]
         /\ count' = count + 1
         /\ best' = IF best = NIL \/ Better(i, best) THEN i ELSE best

\* Mutation: the summary bit is cleared with any bit of its word.
ClearSummaryAlways(i) ==
    LET w == WordOf(i)
        b == [bits EXCEPT ![w] = @ \ {BitOf(i)}]
        s == [summary EXCEPT ![WordOf(w)] = @ \ {BitOf(w)}]
    IN  /\ bits' = b /\ summary' = s
        /\ count' = count - 1
        /\ best' = IF count' = 0 THEN NIL ELSE IF i = best THEN Rescan(b, s, i) ELSE best

Clear(i) ==
    LET w == WordOf(i)
        b == [bits EXCEPT ![w] = @ \ {BitOf(i)}]
        s == [summary EXCEPT ![WordOf(w)] = IF b[w] = {} THEN @ \ {BitOf(w)} ELSE @]
    IN  /\ bits' = b /\ summary' = s
        /\ count' = count - 1
        /\ best' = IF count' = 0 THEN NIL ELSE IF i = best THEN Rescan(b, s, i) ELSE best

-----------------------------------------------------------------------------
(* What the book does with a level *)

\* rest: levelInsert, then push; the level's total becomes t.
Rest(i, t) ==
    /\ LevelInsert(i)
    /\ filled' = filled \cup {i}
    /\ total' = [total EXCEPT ![i] = t]
    /\ UNCHANGED side

\* An order leaves and the level is not empty: unlinkLevel returns at once.
Reduce(i, t) ==
    /\ i \in filled
    /\ total' = [total EXCEPT ![i] = t]
    /\ UNCHANGED <<side, filled, bits, summary, count, best>>

\* The last order leaves: unlinkLevel clears the level's bit.
Drain(i) ==
    /\ i \in filled
    /\ Clear(i)
    /\ filled' = filled \ {i}
    /\ total' = [total EXCEPT ![i] = 0]
    /\ UNCHANGED side

\* newLadderIndex, for a book's bids or its asks.
Init ==
    /\ side \in {"Bid", "Ask"}
    /\ filled = {}
    /\ total = [i \in Indexes |-> 0]
    /\ bits = [w \in Words |-> {}]
    /\ summary = [s \in SummaryWords |-> {}]
    /\ count = 0
    /\ best = NIL

Next ==
    \E i \in Indexes :
        \/ \E t \in Totals : Rest(i, t) \/ Reduce(i, t)
        \/ Drain(i)

Spec == Init /\ [][Next]_vars

-----------------------------------------------------------------------------
(* The queries of the book *)

\* Mutation: the last word is taken whole.
SumRangeWholeWords(lo, hi) ==
    LET first == Max({lo, 0})
        last == Min({hi, Span - 1})
        in(w) == {x \in bits[w] : x >= BitOf(Max({first, w * WordBits}))}
        sum == [w \in Words |->
                   SumFunctionOnSet(total, {w * WordBits + x : x \in in(w)})]
    IN  IF first > last THEN 0
        ELSE SumFunctionOnSet(sum, WordOf(first) .. WordOf(last))

\* sumRange: the words from lo to hi, the first and the last one masked.
SumRange(lo, hi) ==
    LET first == Max({lo, 0})
        last == Min({hi, Span - 1})
        in(w) == {x \in bits[w] :
                    /\ x >= BitOf(Max({first, w * WordBits}))
                    /\ x <= BitOf(Min({last, w * WordBits + WordBits - 1}))}
        sum == [w \in Words |->
                   SumFunctionOnSet(total, {w * WordBits + x : x \in in(w)})]
    IN  IF first > last THEN 0
        ELSE SumFunctionOnSet(sum, WordOf(first) .. WordOf(last))

\* Mutation: the bits of a word are read upward on both sides.
WordDepthUpward(w) ==
    LET list[word \in SUBSET (0 .. (WordBits - 1))] ==
            IF word = {} THEN <<>>
            ELSE <<w * WordBits + Lowest(word)>> \o list[word \ {Lowest(word)}]
    IN  list[bits[w]]

\* The bit of a word that comes first, and the occupied indexes of word w: that bit's,
\* then those of the word without it.
FirstBit(word) == IF side = "Ask" THEN Lowest(word) ELSE Highest(word)

WordDepth(w) ==
    LET list[word \in SUBSET (0 .. (WordBits - 1))] ==
            IF word = {} THEN <<>>
            ELSE <<w * WordBits + FirstBit(word)>> \o list[word \ {FirstBit(word)}]
    IN  list[bits[w]]

\* depth: word by word, the best n levels with their totals.
WordAt(k) == IF side = "Ask" THEN k - 1 ELSE NumWords - k

Depth(n) ==
    LET levels[k \in 0 .. NumWords] ==
            IF k = 0 THEN <<>> ELSE levels[k - 1] \o WordDepth(WordAt(k))
        all == levels[NumWords]
    IN  [k \in 1 .. Min({n, Len(all)}) |-> [price |-> all[k], qty |-> total[all[k]]]]

-----------------------------------------------------------------------------
(* Correctness *)

\* Types.
TypeOK ==
    /\ side \in {"Bid", "Ask"}
    /\ filled \subseteq Indexes
    /\ total \in [Indexes -> Totals \cup {0}]
    /\ bits \in [Words -> SUBSET (0 .. (WordBits - 1))]
    /\ summary \in [SummaryWords -> SUBSET (0 .. (WordBits - 1))]
    /\ count \in 0 .. Span
    /\ best \in Indexes \cup {NIL}

\* Bitmap, summary and count say which levels have orders, and nothing else.
OccupancyMatches ==
    /\ \A w \in Words : bits[w] = {BitOf(i) : i \in {j \in filled : WordOf(j) = w}}
    /\ \A s \in SummaryWords :
          summary[s] = {BitOf(w) : w \in {v \in Words : WordOf(v) = s /\ bits[v] # {}}}
    /\ count = Cardinality(filled)

\* The cursor is on the best level that has orders, however far away the next one
\* was when a level emptied.
BestIsBest ==
    IF filled = {} THEN best = NIL
    ELSE best \in filled /\ \A i \in filled : ~Better(i, best)

\* The FOK check's sum over the bitmap is the sum over the range, for every pair of
\* bounds in the ladder and beyond its ends.
RangeSumsExact ==
    \A lo, hi \in -1 .. Span :
        SumRange(lo, hi) =
            SumFunctionOnSet(total, {i \in filled : lo <= i /\ i <= hi})

\* depth gives exactly the best n levels with their totals, best first.
DepthIsBestFirst ==
    \A n \in 0 .. (Span + 1) :
        LET d == Depth(n)
            listed == {d[i].price : i \in 1 .. Len(d)}
        IN  /\ Len(d) = Min({n, Cardinality(filled)})
            /\ listed \subseteq filled
            /\ \A i, j \in 1 .. Len(d) : i < j => Better(d[i].price, d[j].price)
            /\ \A i \in 1 .. Len(d) : d[i].qty = total[d[i].price]
            /\ \A p \in filled \ listed, q \in listed : Better(q, p)

=============================================================================
