------------------------------ MODULE ChunkStore ------------------------------
(***************************************************************************)
(* The order store of store.go: every price level is a doubly linked list  *)
(* of chunks of a few slots each; emptied chunks go to a free list.  An    *)
(* order is found again by its loc, a chunk and a slot, which the order    *)
(* map keeps.  The operations are those the book performs on it.           *)
(*                                                                         *)
(* A chunk's price and side are those of its level and are carried as one  *)
(* value.  A slot's tif is left out, and so is the id a dead slot still    *)
(* holds: it is never read.                                                *)
(***************************************************************************)
EXTENDS Integers, SequencesExt, FiniteSetsExt

CONSTANTS
    OrderIds,       \* the ids of the orders
    Levels,         \* the price levels, of either side
    Qtys,           \* the quantities orders rest with
    MaxOrders,      \* newStore's argument
    ChunkSlots,     \* chunkSlots, 6 in the code
    TouchStride,    \* chunks per page in prefault, 32 in the code
    QtyMod          \* the modulus of the uint64 totals

ASSUME MaxOrdersAssumption == MaxOrders \in Nat
ASSUME ChunkSlotsAssumption == ChunkSlots \in Nat \ {0}
ASSUME TouchStrideAssumption == TouchStride \in Nat \ {0}
ASSUME QtyModAssumption == QtyMod \in Nat \ {0}
ASSUME QtysAssumption == Qtys \subseteq 1 .. (QtyMod - 1)

VARIABLES
    chunk,      \* the backing array: chunk[c] for every c below the capacity
    len,        \* len(store.chunks): the chunks that may be indexed
    used,       \* store.used: chunks handed out so far
    freeChunk,  \* store.freeChunk
    live,       \* store.live
    lvl,        \* lvl[l]: the level's head, tail and total
    loc         \* loc[id]: where the order map says a live order is

vars == <<chunk, len, used, freeChunk, live, lvl, loc>>

NIL == -1
Cap == Max({MaxOrders, 1})
Chunks == 0 .. (Cap - 1)
Slots == 0 .. (ChunkSlots - 1)

DeadSlot == [id |-> NIL, qty |-> 0]
ZeroChunk == [level |-> NIL, prev |-> 0, next |-> 0, head |-> 0, tail |-> 0, live |-> 0,
              s |-> [i \in Slots |-> DeadSlot]]

LiveOrders == DOMAIN loc
SlotOf(id) == chunk[loc[id].chunk].s[loc[id].slot]
LevelOf(id) == chunk[loc[id].chunk].level

-----------------------------------------------------------------------------
(* allocChunk and dropChunk *)

NextChunk == IF freeChunk # NIL THEN freeChunk ELSE used

\* Mutation: the cursor and the tail of the chunk's last use are kept.
AppendedAsIs(l, last) ==
    LET c == NextChunk
    IN  [i \in Chunks |->
            IF i = c THEN [chunk[c] EXCEPT !.level = l, !.prev = last, !.next = NIL]
            ELSE IF i = last THEN [chunk[i] EXCEPT !.next = c]
            ELSE chunk[i]]

\* The array with a fresh chunk for level l linked behind its last one.
Appended(l, last) ==
    LET c == NextChunk
        fresh == [chunk[c] EXCEPT !.level = l, !.prev = last, !.next = NIL,
                                  !.head = 0, !.tail = 0, !.live = 0]
    IN  [i \in Chunks |-> IF i = c THEN fresh
                          ELSE IF i = last THEN [chunk[i] EXCEPT !.next = c]
                          ELSE chunk[i]]

\* Mutation: the chunk behind the dropped one is not linked back.
UnlinkedForward(ch, c) ==
    [i \in Chunks |-> IF i = c THEN [ch[i] EXCEPT !.next = freeChunk]
                      ELSE IF i = ch[c].prev THEN [ch[i] EXCEPT !.next = ch[c].next]
                      ELSE ch[i]]

\* The array with c out of its level and at the head of the free list.
Unlinked(ch, c) ==
    [i \in Chunks |-> IF i = c THEN [ch[i] EXCEPT !.next = freeChunk]
                      ELSE IF i = ch[c].prev THEN [ch[i] EXCEPT !.next = ch[c].next]
                      ELSE IF i = ch[c].next THEN [ch[i] EXCEPT !.prev = ch[c].prev]
                      ELSE ch[i]]

\* Mutation: the level's tail still names the dropped chunk.
LevelKeepingTail(lv, ch, c) ==
    [lv EXCEPT !.head = IF ch[c].prev = NIL THEN ch[c].next ELSE @]

\* The level when c has gone from it.
LevelWithout(lv, ch, c) ==
    [lv EXCEPT !.head = IF ch[c].prev = NIL THEN ch[c].next ELSE @,
               !.tail = IF ch[c].next = NIL THEN ch[c].prev ELSE @]

-----------------------------------------------------------------------------
(* push *)

\* Mutation: the level's total is set by its first order alone.
TotalOfFirst(l, qty) == IF lvl[l].tail = NIL THEN qty ELSE lvl[l].total

TotalWith(l, qty) == (lvl[l].total + qty) % QtyMod

\* Mutation: the array grows although a freed chunk is taken.
UsedAfterAnyAlloc == used + 1

UsedAfterAlloc == IF freeChunk = NIL THEN used + 1 ELSE used

\* push: a new chunk when the level has none or its last one has no slot left.
\* newOrder lets a new id rest, and a replacement its own, when there is room.
Push(l, id, qty) ==
    LET last == lvl[l].tail
        full == last = NIL \/ chunk[last].tail = ChunkSlots
        c == IF full THEN NextChunk ELSE last
        ch == IF full THEN Appended(l, last) ELSE chunk
        i == ch[c].tail
    IN  /\ id \notin LiveOrders /\ live < MaxOrders
        /\ chunk' = [ch EXCEPT ![c].tail = @ + 1, ![c].live = @ + 1,
                               ![c].s[i] = [id |-> id, qty |-> qty]]
        /\ lvl' = [lvl EXCEPT ![l].head = IF last = NIL THEN c ELSE @,
                              ![l].tail = c,
                              ![l].total = TotalWith(l, qty)]
        /\ live' = live + 1
        /\ loc' = [x \in LiveOrders \cup {id} |->
                      IF x = id THEN [chunk |-> c, slot |-> i] ELSE loc[x]]
        /\ freeChunk' = IF full /\ freeChunk # NIL THEN chunk[freeChunk].next ELSE freeChunk
        /\ used' = IF full THEN UsedAfterAlloc ELSE used
        /\ len' = Max({len, used'})

-----------------------------------------------------------------------------
(* Quantity leaves an order, by unlink, by cross and by replace in place *)

\* ch is the array that cross has moved the cursor in, or chunk.  An order that has
\* nothing left is dead, and a chunk with no live order is dropped.
Spend(ch, l, place, n) ==
    LET c == place.chunk
        left == ch[c].s[place.slot].qty - n
        died == left = 0
        spent == [ch EXCEPT
                    ![c].s[place.slot] = IF died THEN DeadSlot ELSE [@ EXCEPT !.qty = left],
                    ![c].live = IF died THEN @ - 1 ELSE @]
        lv == [lvl[l] EXCEPT !.total = (@ - n) % QtyMod]
        drop == died /\ spent[c].live = 0
    IN  /\ chunk' = IF drop THEN Unlinked(spent, c) ELSE spent
        /\ lvl' = [lvl EXCEPT ![l] = IF drop THEN LevelWithout(lv, spent, c) ELSE lv]
        /\ freeChunk' = IF drop THEN c ELSE freeChunk
        /\ live' = IF died THEN live - 1 ELSE live
        /\ loc' = [x \in {y \in LiveOrders : ~(died /\ loc[y] = place)} |-> loc[x]]
        /\ UNCHANGED <<len, used>>

\* unlink: by cancel, and by a replacement that moves.
Unlink(id) == Spend(chunk, LevelOf(id), loc[id], SlotOf(id).qty)

\* A replacement that keeps its place.
Shrink(id, qty) ==
    /\ qty < SlotOf(id).qty
    /\ Spend(chunk, LevelOf(id), loc[id], SlotOf(id).qty - qty)

\* cross: from the head chunk's cursor over the dead slots to the first live one.
FrontSlot(c) ==
    LET at(d) == (chunk[c].head + d) % ChunkSlots
    IN  at(Min({d \in Slots : chunk[c].s[at(d)].qty # 0}))

\* The body of cross's loop: the front order of level l gives n to the taker.
Fill(l, n) ==
    LET c == lvl[l].head
        h == FrontSlot(c)
    IN  /\ c # NIL
        /\ n <= chunk[c].s[h].qty
        /\ Spend([chunk EXCEPT ![c].head = h], l, [chunk |-> c, slot |-> h], n)

-----------------------------------------------------------------------------

\* Mutation: the pages are touched from the first chunk on.
PrefaultAll ==
    /\ len' = Cap
    /\ chunk' = [i \in Chunks |-> IF i % TouchStride = 0
                                  THEN [chunk[i] EXCEPT !.live = 0] ELSE chunk[i]]
    /\ UNCHANGED <<used, freeChunk, live, lvl, loc>>

\* prefault: the slice grows to its capacity, one unused chunk per page is written.
Prefault ==
    /\ len' = Cap
    /\ chunk' = [i \in Chunks |-> IF i >= used /\ (i - used) % TouchStride = 0
                                  THEN [chunk[i] EXCEPT !.live = 0] ELSE chunk[i]]
    /\ UNCHANGED <<used, freeChunk, live, lvl, loc>>

\* newStore, and the levels as newLevel leaves them.
Init ==
    /\ chunk = [c \in Chunks |-> ZeroChunk]
    /\ len = 0
    /\ used = 0
    /\ freeChunk = NIL
    /\ live = 0
    /\ lvl = [l \in Levels |-> [head |-> NIL, tail |-> NIL, total |-> 0]]
    /\ loc = [id \in {} |-> NIL]

Next ==
    \/ \E l \in Levels, id \in OrderIds, qty \in Qtys : Push(l, id, qty)
    \/ \E id \in LiveOrders : Unlink(id)
    \/ \E id \in LiveOrders, qty \in Qtys : Shrink(id, qty)
    \/ \E l \in Levels, n \in Qtys : Fill(l, n)
    \/ Prefault

Spec == Init /\ [][Next]_vars

-----------------------------------------------------------------------------
(* Correctness *)

\* Types.
TypeOK ==
    /\ chunk \in [Chunks -> [level : Levels \cup {NIL}, prev : Chunks \cup {NIL},
                             next : Chunks \cup {NIL}, head : Slots,
                             tail : 0 .. ChunkSlots, live : 0 .. ChunkSlots,
                             s : [Slots -> {DeadSlot} \cup
                                             [id : OrderIds, qty : 1 .. (QtyMod - 1)]]]]
    /\ used \in 0 .. Cap /\ len \in 0 .. Cap
    /\ freeChunk \in Chunks \cup {NIL}
    /\ live \in 0 .. MaxOrders
    /\ lvl \in [Levels -> [head : Chunks \cup {NIL}, tail : Chunks \cup {NIL},
                           total : 0 .. (QtyMod - 1)]]
    /\ LiveOrders \subseteq OrderIds
    /\ loc \in [LiveOrders -> [chunk : Chunks, slot : Slots]]

\* The chunks met on the next links from r[2], as far as r[1] of them.
Following ==
    LET follow[r \in (0 .. Cap) \X (Chunks \cup {NIL})] ==
            IF r[1] = 0 \/ r[2] = NIL THEN <<>>
            ELSE <<r[2]>> \o follow[<<r[1] - 1, chunk[r[2]].next>>]
    IN  follow

\* The list that begins at c; it cannot be longer than there are chunks.
From(c) == Following[<<Cap, c>>]

List(l) == From(lvl[l].head)
FreeList == From(freeChunk)
InUse == UNION {ToSet(List(l)) : l \in Levels}
LiveSlots(c) == {i \in Slots : chunk[c].s[i].qty # 0}

\* The chunks handed out are each in one level's list or in the free list, once;
\* both ends and both directions of a level's list agree, and its chunks are its own.
ListsPartitionChunks ==
    /\ InUse \cup ToSet(FreeList) = 0 .. (used - 1)
    /\ InUse \cap ToSet(FreeList) = {} /\ IsInjective(FreeList)
    /\ \A l \in Levels :
          LET q == List(l)
          IN  /\ IsInjective(q)
              /\ \A m \in Levels \ {l} : ToSet(q) \cap ToSet(List(m)) = {}
              /\ lvl[l].tail = IF q = <<>> THEN NIL ELSE Last(q)
              /\ \A i \in 1 .. Len(q) :
                    /\ chunk[q[i]].level = l
                    /\ chunk[q[i]].prev = IF i = 1 THEN NIL ELSE q[i - 1]

\* The claim allocChunk relies on: chunks in use never exceed live orders, so a
\* chunk is always left to hand out, within the slice's length.
ChunksWithinLiveOrders ==
    /\ Cardinality(InUse) <= live
    /\ used <= len
    /\ live < MaxOrders => NextChunk < Cap

\* Every loc of the order map leads to its order, every live slot lies between its
\* chunk's cursor and tail and has a loc, and the counters count them.  A chunk in
\* use has a live slot: the walk of cross to the front order ends before the tail.
SlotsMatchLocs ==
    /\ \A id \in LiveOrders :
          loc[id].chunk \in InUse /\ SlotOf(id).id = id /\ SlotOf(id).qty # 0
    /\ \A c \in InUse :
          /\ LiveSlots(c) # {}
          /\ LiveSlots(c) \subseteq chunk[c].head .. (chunk[c].tail - 1)
          /\ chunk[c].live = Cardinality(LiveSlots(c))
          /\ \A i \in LiveSlots(c) : /\ chunk[c].s[i].id \in LiveOrders
                                    /\ loc[chunk[c].s[i].id] = [chunk |-> c, slot |-> i]
    /\ \A c \in Chunks \ InUse : LiveSlots(c) = {}
    /\ live = Cardinality(LiveOrders)

\* A level's running total is the sum of its orders' quantities, as a uint64.
TotalsMatch ==
    \A l \in Levels :
        lvl[l].total = SumFunctionOnSet([id \in LiveOrders |-> SlotOf(id).qty],
                                        {id \in LiveOrders : LevelOf(id) = l}) % QtyMod

Queue(l) == {id \in LiveOrders : LevelOf(id) = l}

\* forEach comes to a before it comes to b: it takes the chunks of the level in the order
\* of the list, and each from its cursor to its tail.
Before(a, b) ==
    LET q == List(LevelOf(a))
    IN  /\ LevelOf(a) = LevelOf(b)
        /\ \E i, j \in 1 .. Len(q) :
              /\ q[i] = loc[a].chunk /\ q[j] = loc[b].chunk
              /\ i < j \/ (i = j /\ loc[a].slot < loc[b].slot)

\* The orders of ids rest at the same levels, and are met in the same order.
TurnsKept(ids) ==
    \A a \in ids : /\ a \in LiveOrders' /\ LevelOf(a)' = LevelOf(a)
                   /\ \A b \in ids : Before(a, b)' <=> Before(a, b)

QuantitiesKept(ids) == \A id \in ids : SlotOf(id).qty' = SlotOf(id).qty

\* The operations do to the levels what they do to queues: push joins at the end,
\* unlink takes out its order, a replacement in place changes one quantity, a fill
\* takes from the front; no other level and no other order is touched.
ActsAsQueues ==
    [][/\ \A l \in Levels, id \in OrderIds, qty \in Qtys :
             Push(l, id, qty) =>
                 /\ LiveOrders' = LiveOrders \cup {id}
                 /\ LevelOf(id)' = l /\ SlotOf(id).qty' = qty
                 /\ \A a \in Queue(l) : Before(a, id)'
                 /\ TurnsKept(LiveOrders) /\ QuantitiesKept(LiveOrders)
       /\ \A id \in LiveOrders :
             Unlink(id) =>
                 /\ LiveOrders' = LiveOrders \ {id}
                 /\ TurnsKept(LiveOrders \ {id}) /\ QuantitiesKept(LiveOrders \ {id})
       /\ \A id \in LiveOrders, qty \in Qtys :
             Shrink(id, qty) =>
                 /\ LiveOrders' = LiveOrders /\ SlotOf(id).qty' = qty
                 /\ TurnsKept(LiveOrders) /\ QuantitiesKept(LiveOrders \ {id})
       /\ \A l \in Levels, n \in Qtys :
             Fill(l, n) => \E front \in Queue(l) :
                 /\ \A a \in Queue(l) \ {front} : Before(front, a)
                 /\ IF n = SlotOf(front).qty THEN LiveOrders' = LiveOrders \ {front}
                    ELSE /\ LiveOrders' = LiveOrders
                         /\ SlotOf(front).qty' = SlotOf(front).qty - n
                 /\ TurnsKept(LiveOrders') /\ QuantitiesKept(LiveOrders \ {front})
       /\ Prefault => /\ LiveOrders' = LiveOrders
                      /\ TurnsKept(LiveOrders) /\ QuantitiesKept(LiveOrders)]_vars

=============================================================================
