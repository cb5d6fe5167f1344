------------------------------ MODULE TreeIndex ------------------------------
(***************************************************************************)
(* The tree of index.go, the fallback for an unbounded price domain: two   *)
(* parallel slices, the prices that have a level in ascending order and    *)
(* the levels.  The book works on a level through a pointer into the       *)
(* slice, and cross keeps one over many calls of the sink.                 *)
(*                                                                         *)
(* Of a level only its total is shown, and whether it has orders, as in    *)
(* LadderIndex.  Slices count from 1 here.                                 *)
(***************************************************************************)
EXTENDS Integers, SequencesExt, FiniteSetsExt

CONSTANTS
    Prices,     \* the prices orders rest at
    Bounds,     \* the bounds sumRange is asked for
    Totals      \* the totals of levels that have orders

ASSUME PricesAssumption == Prices \subseteq Int
ASSUME BoundsAssumption == Bounds \subseteq Int
ASSUME TotalsAssumption == Totals \subseteq Nat

VARIABLES
    side,       \* the side the tree serves
    keys,       \* treeIndex.keys
    lvls,       \* treeIndex.lvls: a total, or NoOrders
    held,       \* the level cross is walking: its price, and where lv points
    rested      \* what the book has done: a total for every price with orders

vars == <<side, keys, lvls, held, rested>>

NoOrders == -1
None == [price |-> "None"]
TotalOf(lv) == IF lv = NoOrders THEN 0 ELSE lv

-----------------------------------------------------------------------------
(* sort.Search: the first index from where on keys are at least price, found *)
(* by halving; right only if the keys ascend.                                *)

\* The loop, for the indexes r[1] to r[2] that are left.
Halving(price) ==
    LET search[r \in (1 .. (Len(keys) + 1)) \X (1 .. (Len(keys) + 1))] ==
            LET h == (r[1] + r[2]) \div 2
            IN  IF r[1] >= r[2] THEN r[1]
                ELSE IF keys[h] < price THEN search[<<h + 1, r[2]>>]
                ELSE search[<<r[1], h>>]
    IN  search

Search(price) == Halving(price)[<<1, Len(keys) + 1>>]

\* pos: the place of a price, or the place it would take.
Pos(price) == Search(price)
Present(price) == Pos(price) <= Len(keys) /\ keys[Pos(price)] = price

\* levelMut returns a level, not nil.
HasLevel(price) == Present(price) /\ lvls[Pos(price)] # NoOrders

BestPrice == IF side = "Bid" THEN Last(keys) ELSE Head(keys)

-----------------------------------------------------------------------------
(* levelInsert and unlinkLevel *)

\* Mutation: the levels are not moved up with the keys.
LevelsWithAppended(price, t) ==
    IF Present(price) THEN [lvls EXCEPT ![Pos(price)] = t] ELSE Append(lvls, t)

\* The levels when levelInsert has found or made the price's and push has filled it.
LevelsWith(price, t) ==
    IF Present(price) THEN [lvls EXCEPT ![Pos(price)] = t]
    ELSE InsertAt(lvls, Pos(price), t)

KeysWith(price) == IF Present(price) THEN keys ELSE InsertAt(keys, Pos(price), price)

\* Mutation: the levels keep their length.
UnlinkKeepingLevels(price, l) ==
    IF Present(price) /\ l[Pos(price)] = NoOrders
    THEN keys' = RemoveAt(keys, Pos(price)) /\ lvls' = l
    ELSE keys' = keys /\ lvls' = l

\* unlinkLevel, l being the levels it finds.
UnlinkLevel(price, l) ==
    IF Present(price) /\ l[Pos(price)] = NoOrders
    THEN keys' = RemoveAt(keys, Pos(price)) /\ lvls' = RemoveAt(l, Pos(price))
    ELSE keys' = keys /\ lvls' = l

-----------------------------------------------------------------------------
(* What the book does *)

Without(f, price) == [p \in DOMAIN f \ {price} |-> f[p]]
With(f, price, t) == [p \in DOMAIN f \cup {price} |-> IF p = price THEN t ELSE f[p]]

\* rest: levelInsert, and push through the pointer it returns.
Rest(price, t) ==
    /\ held = None
    /\ keys' = KeysWith(price)
    /\ lvls' = LevelsWith(price, t)
    /\ rested' = With(rested, price, t)
    /\ UNCHANGED <<side, held>>

\* cancel and replace: an order leaves a level that keeps others, or is reduced.
Reduce(price, t) ==
    /\ held = None
    /\ HasLevel(price)
    /\ UnlinkLevel(price, [lvls EXCEPT ![Pos(price)] = t])
    /\ rested' = With(rested, price, t)
    /\ UNCHANGED <<side, held>>

\* cancel and replace: the last order leaves its level.
Drain(price) ==
    /\ held = None
    /\ HasLevel(price)
    /\ UnlinkLevel(price, [lvls EXCEPT ![Pos(price)] = NoOrders])
    /\ rested' = Without(rested, price)
    /\ UNCHANGED <<side, held>>

\* cross: lv := levelMut(bp), when there is a best price.
TakeLevel ==
    /\ held = None
    /\ keys # <<>>
    /\ HasLevel(BestPrice)
    /\ held' = [price |-> BestPrice, at |-> Pos(BestPrice)]
    /\ UNCHANGED <<side, keys, lvls, rested>>

\* A fill, through lv: the level is left with total t.
FillHeld(t) ==
    /\ held # None
    /\ lvls[held.at] # NoOrders
    /\ lvls' = [lvls EXCEPT ![held.at] = t]
    /\ rested' = With(rested, held.price, t)
    /\ UNCHANGED <<side, keys, held>>

\* The fill of its last order.
DrainHeld ==
    /\ held # None
    /\ lvls[held.at] # NoOrders
    /\ lvls' = [lvls EXCEPT ![held.at] = NoOrders]
    /\ rested' = Without(rested, held.price)
    /\ UNCHANGED <<side, keys, held>>

\* cross leaves the inner loop: unlinkLevel, if the level is empty.
LeaveHeld ==
    /\ held # None
    /\ UnlinkLevel(held.price, lvls)
    /\ held' = None
    /\ UNCHANGED <<side, rested>>

\* newTreeIndex.
Init ==
    /\ side \in {"Bid", "Ask"}
    /\ keys = <<>> /\ lvls = <<>>
    /\ held = None
    /\ rested = [p \in {} |-> NoOrders]

Next ==
    \/ \E p \in Prices, t \in Totals : Rest(p, t) \/ Reduce(p, t)
    \/ \E p \in Prices : Drain(p)
    \/ TakeLevel
    \/ \E t \in Totals : FillHeld(t)
    \/ DrainHeld \/ LeaveHeld

Spec == Init /\ [][Next]_vars

-----------------------------------------------------------------------------
(* The queries of the book *)

TotalsAt(indexes) == SumFunctionOnSet([i \in indexes |-> TotalOf(lvls[i])], indexes)

\* Mutation: the walk starts behind the first price of the range.
SumRangeAfterFirst(lo, hi) ==
    TotalsAt({i \in (Search(lo) + 1) .. Len(keys) : keys[i] <= hi})

\* sumRange: from the first key not below lo as long as the keys are not above hi.
SumRange(lo, hi) ==
    TotalsAt({i \in Search(lo) .. Len(keys) : \A k \in Search(lo) .. i : keys[k] <= hi})

Listed == [i \in 1 .. Len(keys) |-> [price |-> keys[i], qty |-> TotalOf(lvls[i])]]

\* Mutation: both sides are listed upward.
DepthUpward(n) == SubSeq(Listed, 1, Min({n, Len(keys)}))

\* depth: the keys from the side's best end.
Depth(n) ==
    SubSeq(IF side = "Ask" THEN Listed ELSE Reverse(Listed), 1, Min({n, Len(keys)}))

-----------------------------------------------------------------------------
(* Correctness *)

\* Types, and the two slices have the same length.
TypeOK ==
    /\ side \in {"Bid", "Ask"}
    /\ keys \in Seq(Prices)
    /\ lvls \in [1 .. Len(keys) -> Totals \cup {NoOrders}]
    /\ held \in [price : Prices, at : 1 .. Len(keys)] \cup {None}
    /\ DOMAIN rested \subseteq Prices
    /\ rested \in [DOMAIN rested -> Totals]

\* The level that cross has drained and not yet unlinked.
Ghost == IF held # None /\ held.price \notin DOMAIN rested THEN {held.price} ELSE {}

\* The keys ascend, they are the prices with orders (and the level cross has just
\* drained), and at each key's place is that price's level: no insertion or removal
\* has moved one slice without the other, and lv still points to the level it was
\* taken for.
LevelsAtTheirKeys ==
    /\ \A i, j \in 1 .. Len(keys) : i < j => keys[i] < keys[j]
    /\ ToSet(keys) = DOMAIN rested \cup Ghost
    /\ \A i \in 1 .. Len(keys) :
          lvls[i] = IF keys[i] \in Ghost THEN NoOrders ELSE rested[keys[i]]

\* The FOK check's sum, found by a binary search and a walk, is the sum over the
\* range, for bounds on the prices, between them and beyond them.
RangeSumsExact ==
    \A lo, hi \in Bounds :
        SumRange(lo, hi) =
            SumFunctionOnSet(rested, {p \in DOMAIN rested : lo <= p /\ p <= hi})

Better(p, q) == IF side = "Bid" THEN p > q ELSE p < q

\* depth gives the best n prices with their totals, best first, and bestPrice is
\* the first of them.
DepthIsBestFirst ==
    \A n \in 0 .. (Len(keys) + 1) :
        LET d == Depth(n)
            listed == {d[i].price : i \in 1 .. Len(d)}
        IN  /\ Len(d) = Min({n, Cardinality(DOMAIN rested \cup Ghost)})
            /\ \A i, j \in 1 .. Len(d) : i < j => Better(d[i].price, d[j].price)
            /\ \A i \in 1 .. Len(d) :
                  d[i].qty = IF d[i].price \in Ghost THEN 0 ELSE rested[d[i].price]
            /\ \A p \in (DOMAIN rested) \ listed, q \in listed : Better(q, p)
            /\ d # <<>> => BestPrice = d[1].price

=============================================================================
