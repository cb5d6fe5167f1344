---------------------------- MODULE LadderReplace ----------------------------
(***************************************************************************)
(* The ladder's replace, which is written out over the chunks of the store *)
(* and the bitmaps of the two ladders instead of calling their helpers.    *)
(* It is put together with the store (ChunkStore) and two ladders          *)
(* (LadderIndex), and each of its stretches is compared with the helpers   *)
(* that replaceGeneric calls at the same place.                            *)
(*                                                                         *)
(* loc has the orders that rest; the entry that the order map keeps for an *)
(* order while it is replaced is the subject of OrderMap.  Refusals are in *)
(* OrderBook.                                                              *)
(***************************************************************************)
EXTENDS ChunkStore

CONSTANTS
    Span,       \* the number of prices
    WordBits    \* the bits of a word, 64 in the code

Sides == {"Bid", "Ask"}
Prices == 0 .. (Span - 1)

ASSUME SpanAssumption == Span \in Nat \ {0}
ASSUME WordBitsAssumption == WordBits \in Nat \ {0}
ASSUME LevelsAssumption == Levels = Sides \X Prices
ASSUME OrderIdsAssumption == NIL \notin OrderIds

VARIABLES
    ladder,     \* ladder[side] = [bits, summary, count, best]
    op          \* the replacement that has left its place, or NoOp

bookVars == <<vars, ladder, op>>

NoOp == [id |-> NIL, side |-> "Bid", price |-> 0, left |-> 0]
Opposite(side) == IF side = "Bid" THEN "Ask" ELSE "Bid"

Occupied(side) == {p \in Prices : lvl[<<side, p>>].head # NIL}

LevelTotals(side) == [p \in Prices |-> lvl[<<side, p>>].total]

\* The ladders of both sides, over the levels of the store.
Bids == INSTANCE LadderIndex WITH
    Totals <- Qtys, side <- "Bid", filled <- Occupied("Bid"), total <- LevelTotals("Bid"),
    bits <- ladder["Bid"].bits, summary <- ladder["Bid"].summary,
    count <- ladder["Bid"].count, best <- ladder["Bid"].best
Asks == INSTANCE LadderIndex WITH
    Totals <- Qtys, side <- "Ask", filled <- Occupied("Ask"), total <- LevelTotals("Ask"),
    bits <- ladder["Ask"].bits, summary <- ladder["Ask"].summary,
    count <- ladder["Ask"].count, best <- ladder["Ask"].best

-----------------------------------------------------------------------------
(* The bitmaps *)

\* Mutation: the best price is left to a later insertion.
BestWithoutScan(s, i, b, sum) ==
    IF ladder[s].count = 1 \/ i = ladder[s].best THEN NIL ELSE ladder[s].best

\* The best price when i has gone, in the bitmaps b and sum.
BestAfter(s, i, b, sum) ==
    IF ladder[s].count = 1 THEN NIL
    ELSE IF i # ladder[s].best THEN ladder[s].best
    ELSE IF s = "Bid" THEN Bids!Rescan(b, sum, i) ELSE Asks!Rescan(b, sum, i)

\* Price i has lost its last order.
Unmarked(s, i) ==
    LET w == i \div WordBits
        lad == ladder[s]
        b == [lad.bits EXCEPT ![w] = @ \ {i % WordBits}]
        sum == IF b[w] # {} THEN lad.summary
               ELSE [lad.summary EXCEPT ![w \div WordBits] = @ \ {w % WordBits}]
    IN  [bits |-> b, summary |-> sum, count |-> lad.count - 1,
         best |-> BestAfter(s, i, b, sum)]

\* Price j has its first order.
Marked(s, j) ==
    LET lad == ladder[s]
        ahead == \/ lad.best = NIL
                 \/ s = "Bid" /\ j > lad.best
                 \/ s = "Ask" /\ j < lad.best
    IN  [bits |-> [lad.bits EXCEPT ![j \div WordBits] = @ \cup {j % WordBits}],
         summary |-> [lad.summary EXCEPT ![j \div (WordBits * WordBits)] =
                        @ \cup {(j \div WordBits) % WordBits}],
         count |-> lad.count + 1,
         best |-> IF ahead THEN j ELSE lad.best]

\* An order has left level l, or is about to come to it.
UnmarkIfEmptied(l) ==
    ladder' = IF lvl'[l].head = NIL THEN [ladder EXCEPT ![l[1]] = Unmarked(l[1], l[2])]
              ELSE ladder
MarkIfEmpty(l) ==
    ladder' = IF lvl[l].head = NIL THEN [ladder EXCEPT ![l[1]] = Marked(l[1], l[2])]
              ELSE ladder

\* The opposite best price is one that an order of this side and price trades with.
Marketable(side, price) ==
    LET best == ladder[Opposite(side)].best
    IN  best # NIL /\ IF side = "Bid" THEN best <= price ELSE best >= price

-----------------------------------------------------------------------------
(* replace *)

\* The order keeps its place.
InPlace(id, qty) ==
    LET l == LevelOf(id)
        old == SlotOf(id).qty
    IN  /\ op = NoOp
        /\ qty <= old
        /\ chunk' = [chunk EXCEPT ![loc[id].chunk].s[loc[id].slot].qty = qty]
        /\ lvl' = [lvl EXCEPT ![l].total = (@ - (old - qty)) % QtyMod]
        /\ UNCHANGED <<len, used, freeChunk, live, loc, ladder, op>>

\* Mutation: the chunk behind still names c as the one before it.
HalfLinkedWithout(c) ==
    [x \in Chunks |-> IF x = chunk[c].prev THEN [chunk[x] EXCEPT !.next = chunk[c].next]
                      ELSE chunk[x]]

\* The neighbours of chunk c linked to each other.
LinkedWithout(c) ==
    [x \in Chunks |-> IF x = chunk[c].prev THEN [chunk[x] EXCEPT !.next = chunk[c].next]
                      ELSE IF x = chunk[c].next THEN [chunk[x] EXCEPT !.prev = chunk[c].prev]
                      ELSE chunk[x]]

\* The order leaves its place; its chunk goes with the last of its orders.
Leave(id, price, qty) ==
    LET c == loc[id].chunk
        ch == chunk[c]
        l == ch.level
        old == SlotOf(id).qty
        goes == ch.live = 1
        gone == [ch EXCEPT !.s[loc[id].slot] = DeadSlot, !.live = @ - 1,
                           !.next = IF goes THEN freeChunk ELSE @]
    IN  /\ op = NoOp
        /\ ~(price = l[2] /\ qty <= old)
        /\ chunk' = [IF goes THEN LinkedWithout(c) ELSE chunk EXCEPT ![c] = gone]
        /\ lvl' = [lvl EXCEPT
                     ![l].total = (@ - old) % QtyMod,
                     ![l].head = IF goes /\ ch.prev = NIL THEN ch.next ELSE @,
                     ![l].tail = IF goes /\ ch.next = NIL THEN ch.prev ELSE @]
        /\ freeChunk' = IF goes THEN c ELSE freeChunk
        /\ live' = live - 1
        /\ loc' = [x \in LiveOrders \ {id} |-> loc[x]]
        /\ UnmarkIfEmptied(l)
        /\ op' = [id |-> id, side |-> l[1], price |-> price, left |-> qty]
        /\ UNCHANGED <<len, used>>

\* cross, called while the opposite best price is marketable: the front order there
\* gives what it has, and the level goes when it is drained.
CrossFront ==
    LET opp == Opposite(op.side)
        l == <<opp, ladder[opp].best>>
        front == chunk[lvl[l].head].s[FrontSlot(lvl[l].head)].qty
        n == Min({front, op.left})
    IN  /\ op # NoOp /\ op.left > 0
        /\ Marketable(op.side, op.price)
        /\ Fill(l, n)
        /\ UnmarkIfEmptied(l)
        /\ op' = [op EXCEPT !.left = @ - n]

\* Nothing is left: the order's entry goes from the map.
FinishFilled ==
    /\ op # NoOp /\ op.left = 0
    /\ op' = NoOp
    /\ UNCHANGED <<vars, ladder>>

\* The remainder joins the back of its level, in a new chunk if there is no slot.
RestRemainder ==
    LET l == <<op.side, op.price>>
        tc == lvl[l].tail
        grows == tc = NIL \/ chunk[tc].tail = ChunkSlots
        n == IF freeChunk # NIL THEN freeChunk ELSE used
        at == IF grows THEN n ELSE tc
        target == IF grows
                  THEN [chunk[n] EXCEPT !.level = l, !.prev = tc, !.next = NIL,
                                        !.head = 0, !.tail = 0, !.live = 0]
                  ELSE chunk[tc]
        slot == target.tail
    IN  /\ op # NoOp /\ op.left > 0
        /\ ~Marketable(op.side, op.price)
        /\ chunk' = [x \in Chunks |->
                        IF x = at
                        THEN [target EXCEPT !.tail = @ + 1, !.live = @ + 1,
                                            !.s[slot] = [id |-> op.id, qty |-> op.left]]
                        ELSE IF grows /\ x = tc THEN [chunk[x] EXCEPT !.next = n]
                        ELSE chunk[x]]
        /\ lvl' = [lvl EXCEPT ![l].head = IF tc = NIL THEN at ELSE @,
                              ![l].tail = at,
                              ![l].total = (@ + op.left) % QtyMod]
        /\ freeChunk' = IF grows /\ freeChunk # NIL THEN chunk[freeChunk].next ELSE freeChunk
        /\ used' = IF grows /\ freeChunk = NIL THEN used + 1 ELSE used
        /\ len' = IF grows /\ freeChunk = NIL /\ used = len THEN len + 1 ELSE len
        /\ live' = live + 1
        /\ loc' = [x \in LiveOrders \cup {op.id} |->
                      IF x = op.id THEN [chunk |-> at, slot |-> slot] ELSE loc[x]]
        /\ MarkIfEmpty(l)
        /\ op' = NoOp

-----------------------------------------------------------------------------
(* Other commands, as far as they shape the book; they call the helpers *)

\* A new order, or what is left of it, rests.
RestNew(l, id, qty) ==
    /\ op = NoOp
    /\ ~Marketable(l[1], l[2])
    /\ Push(l, id, qty)
    /\ MarkIfEmpty(l)
    /\ UNCHANGED op

Cancel(id) ==
    /\ op = NoOp
    /\ Unlink(id)
    /\ UnmarkIfEmptied(LevelOf(id))
    /\ UNCHANGED op

BookInit ==
    /\ Init
    /\ op = NoOp
    /\ ladder = [s \in Sides |->
                    [bits |-> [w \in Bids!Words |-> {}],
                     summary |-> [w \in Bids!SummaryWords |-> {}],
                     count |-> 0, best |-> NIL]]

BookNext ==
    \/ \E id \in LiveOrders, qty \in Qtys :
          InPlace(id, qty) \/ \E price \in Prices : Leave(id, price, qty)
    \/ CrossFront \/ FinishFilled \/ RestRemainder
    \/ \E l \in Levels, id \in OrderIds \ LiveOrders, qty \in Qtys : RestNew(l, id, qty)
    \/ \E id \in LiveOrders : Cancel(id)

BookSpec == BookInit /\ [][BookNext]_bookVars

-----------------------------------------------------------------------------
(* Correctness *)

\* Bitmap, summary, count and best price of both ladders are those of the levels of the
\* store, also while an order is being replaced, and the best bid is below the best
\* ask: one look at the opposite best price tells whether anything can trade.
LaddersMatchStore ==
    /\ Bids!OccupancyMatches /\ Bids!BestIsBest
    /\ Asks!OccupancyMatches /\ Asks!BestIsBest
    /\ \A bid \in Occupied("Bid"), ask \in Occupied("Ask") : bid < ask

\* What the helpers of the index do with side s when a level of the store loses an
\* order, and when an order joins it.
IndexLoses(s, p) ==
    LET t == lvl'[<<s, p>>].total
    IN  IF lvl'[<<s, p>>].head = NIL THEN IF s = "Bid" THEN Bids!Drain(p) ELSE Asks!Drain(p)
        ELSE IF s = "Bid" THEN Bids!Reduce(p, t) ELSE Asks!Reduce(p, t)
IndexGains(s, p) ==
    LET t == lvl'[<<s, p>>].total
    IN  IF s = "Bid" THEN Bids!Rest(p, t) ELSE Asks!Rest(p, t)

Untouched(s) == UNCHANGED <<ladder[s], Occupied(s)>>

\* The written-out stretches do exactly what the helpers do that replaceGeneric calls:
\* a reduction in place the same change of the level, leaving the book unlink and
\* unlinkLevel, resting levelInsert and push, on chunks, free list, level, counters
\* and bitmaps alike; and a replacement that rests without calling cross, or after
\* it, has met every order that it could trade with.
FastPathIsGeneric ==
    [][/\ op = NoOp /\ op' = NoOp /\ loc' = loc =>
            \E id \in LiveOrders, qty \in Qtys : Shrink(id, qty)
       /\ \A s \in Sides, p \in Prices :
            op = NoOp /\ op' # NoOp /\ LevelOf(op'.id) = <<s, p>> =>
                Unlink(op'.id) /\ IndexLoses(s, p) /\ Untouched(Opposite(s))
       /\ \A s \in Sides, p \in Prices :
            op.side = s /\ op.price = p /\ op.left > 0 /\ op' = NoOp =>
                /\ Push(<<s, p>>, op.id, op.left)
                /\ IndexGains(s, p)
                /\ Untouched(Opposite(s))
                /\ \A q \in Occupied(Opposite(s)) : IF s = "Bid" THEN q > p ELSE q < p
      ]_bookVars

=============================================================================
