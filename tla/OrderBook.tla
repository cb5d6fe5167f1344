------------------------------ MODULE OrderBook ------------------------------
(***************************************************************************)
(* The order book of book.go: one writer, price-time priority.  Apply runs *)
(* a command to its end, but its cross loop calls the sink after every     *)
(* trade and every maker's close, so the state between two of those calls  *)
(* can be seen from outside.  One action here is therefore one stretch of  *)
(* the code between two such points, and pc says which comes next.         *)
(*                                                                         *)
(* The data structures below the book appear through what they promise: a  *)
(* level is the queue of its live orders (store.go), a price index is the  *)
(* set of prices it holds as occupied (index.go), the order map is the     *)
(* function order (omap.go).                                               *)
(***************************************************************************)
EXTENDS Integers, SequencesExt, FiniteSetsExt

CONSTANTS
    OrderIds,   \* the order ids commands carry
    Prices,     \* the prices commands carry, inside the book's domain or not
    Qtys,       \* the quantities commands carry, 0 included
    Index,      \* BookConfig.Index: "ladder" or "tree"
    PriceMin,   \* BookConfig.PriceMin, inclusive (ladder)
    PriceMax,   \* BookConfig.PriceMax, inclusive (ladder)
    MaxOrders,  \* BookConfig.MaxOrders
    TreeCap,    \* the bound 1<<62 that fillable gives a tree's sumRange
    QtyMod,     \* the modulus of the uint64 quantities and level totals
    SeqRange    \* the modulus of the uint64 event sequence number

ASSUME QtyModAssumption == QtyMod \in Nat /\ QtyMod > 1
ASSUME SeqRangeAssumption == SeqRange \in Nat /\ SeqRange > 0
ASSUME QtysAssumption == Qtys \subseteq 0 .. (QtyMod - 1)
ASSUME MaxOrdersAssumption == MaxOrders \in Nat
ASSUME DomainAssumption ==
    /\ Index \in {"ladder", "tree"}
    /\ PriceMin \in Int /\ PriceMax \in Int /\ TreeCap \in Int

\* An int64 has finitely many values: any prices have a lowest and a highest.
ASSUME PricesAssumption ==
    /\ Prices \subseteq Int
    /\ \A S \in (SUBSET Prices) \ {{}} :
           \E lo, hi \in S : \A p \in S : lo <= p /\ p <= hi

VARIABLES
    order,      \* the order map and the slots it points to: id -> order
    queue,      \* queue[side][price]: ids of the level's live orders, oldest first
    total,      \* total[side][price]: the level's running quantity, a uint64
    indexed,    \* indexed[side]: the prices the side's index holds as occupied
    live,       \* store.live
    seq,        \* the sequence number of the last event
    ev,         \* the last event delivered to the sink
    pc,         \* where in Apply the code is; "Idle" between commands
    taker       \* the command being crossed: cross's arguments and locals

bookVars == <<order, queue, total, indexed, live>>
vars == <<order, queue, total, indexed, live, seq, ev, pc, taker>>

-----------------------------------------------------------------------------
(* Types and commands *)

Sides == {"Bid", "Ask"}
Opposite(side) == IF side = "Bid" THEN "Ask" ELSE "Bid"
Tifs == {"Gtc", "Ioc", "Fok", "PostOnly"}
Quantity == 0 .. (QtyMod - 1)

RejectReasons == {"InvalidQty", "InvalidPrice", "DuplicateOrderId",
                  "UnknownOrderId", "PostOnlyWouldCross", "FokCannotFill", "BookFull"}
CloseReasons == {"Filled", "Cancelled", "Expired"}

\* A market order ignores price and tif (NewMarket leaves 0 and Ioc).
Commands ==
    [kind : {"New"}, id : OrderIds, side : Sides, otype : {"Limit"},
     price : Prices, qty : Qtys, tif : Tifs]
      \cup
    [kind : {"New"}, id : OrderIds, side : Sides, otype : {"Market"},
     price : {0}, qty : Qtys, tif : {"Ioc"}]
      \cup
    [kind : {"Cancel"}, id : OrderIds]
      \cup
    [kind : {"Replace"}, id : OrderIds, price : Prices, qty : Qtys]

Accepted(id, leaves) == [kind |-> "Accepted", id |-> id, leaves |-> leaves]
Rejected(id, reason) == [kind |-> "Rejected", id |-> id, reason |-> reason]
TradeOf(maker, id, price, qty) ==
    [kind |-> "Trade", maker |-> maker, taker |-> id, price |-> price, qty |-> qty]
Closed(id, reason) == [kind |-> "Closed", id |-> id, reason |-> reason]
Replaced(id, price, qty) ==
    [kind |-> "Replaced", id |-> id, price |-> price, qty |-> qty]
NoEvent == [kind |-> "None"]

NoTaker == [op |-> "None"]

\* b.seq++, then the sink is called with the event.
Emit(e) == ev' = e /\ seq' = (seq + 1) % SeqRange
Silent == UNCHANGED <<ev, seq>>

-----------------------------------------------------------------------------
(* What the helpers of the book return *)

PriceOk(price) ==
    IF Index = "tree" THEN price > 0 ELSE PriceMin <= price /\ price <= PriceMax

LevelPrices == {p \in Prices : PriceOk(p)}

\* p is at least as good as q for the resting orders of a side.
AsGood(side, p, q) == IF side = "Bid" THEN p >= q ELSE p <= q

\* bestPrice of the side's index, when the index is not empty.
BestPrice(side) ==
    CHOOSE p \in indexed[side] : \A q \in indexed[side] : AsGood(side, p, q)

\* Mutation: a maker at the limit price itself is passed over.
MarketableStrict(side, bound, p) == IF side = "Bid" THEN p < bound ELSE p > bound

\* A taker of this side, limited by bound, trades with a resting order at p.
Marketable(side, bound, p) == IF side = "Bid" THEN p <= bound ELSE p >= bound

\* Mutation: a post-only order priced at the opposite best is let through.
WouldCrossStrict(side, price) ==
    LET other == Opposite(side)
    IN  indexed[other] # {} /\ MarketableStrict(side, price, BestPrice(other))

WouldCross(side, price) ==
    LET other == Opposite(side)
    IN  indexed[other] # {} /\ Marketable(side, price, BestPrice(other))

RangeLow == IF Index = "tree" THEN -TreeCap ELSE PriceMin
RangeHigh == IF Index = "tree" THEN TreeCap ELSE PriceMax

\* Mutation: the sum takes in the levels beyond the limit.
FillableAnyPrice(side, price) ==
    LET other == Opposite(side)
    IN  SumFunctionOnSet(total[other], indexed[other]) % QtyMod

\* sumRange of the opposite index over the prices a taker may pay, a uint64 sum.
Fillable(side, price) ==
    LET other == Opposite(side)
        range == {p \in indexed[other] :
                    IF side = "Bid" THEN RangeLow <= p /\ p <= price
                                    ELSE price <= p /\ p <= RangeHigh}
    IN  SumFunctionOnSet(total[other], range) % QtyMod

-----------------------------------------------------------------------------
(* The order map and the levels *)

Mapped == DOMAIN order
MapPut(id, o) == [i \in Mapped \cup {id} |-> IF i = id THEN o ELSE order[i]]
MapRemove(id) == [i \in Mapped \ {id} |-> order[i]]

\* Mutation: whoever is unlinked, the front of the level goes.
PlaceInFront(q, id) == 1

\* The place of a resting order in its level, what its loc stands for.
PlaceIn(q, id) == CHOOSE i \in 1 .. Len(q) : q[i] = id

\* store.unlink and unlinkLevel: id leaves its level, an emptied level the index.
LeaveLevel(id) ==
    LET o == order[id]
        left == RemoveAt(queue[o.side][o.price], PlaceIn(queue[o.side][o.price], id))
    IN  /\ queue' = [queue EXCEPT ![o.side][o.price] = left]
        /\ total' = [total EXCEPT ![o.side][o.price] = (@ - o.qty) % QtyMod]
        /\ indexed' = [indexed EXCEPT ![o.side] = IF left = <<>> THEN @ \ {o.price} ELSE @]
        /\ live' = live - 1

\* Mutation: a resting order is pushed at the head of its level.
RestInFront(id, side, price, qty, tif) ==
    /\ queue' = [queue EXCEPT ![side][price] = <<id>> \o @]
    /\ total' = [total EXCEPT ![side][price] = (@ + qty) % QtyMod]
    /\ indexed' = [indexed EXCEPT ![side] = @ \cup {price}]
    /\ live' = live + 1
    /\ order' = MapPut(id, [side |-> side, price |-> price, qty |-> qty, tif |-> tif])

\* rest: levelInsert, store.push and the map entry.
Rest(id, side, price, qty, tif) ==
    /\ queue' = [queue EXCEPT ![side][price] = Append(@, id)]
    /\ total' = [total EXCEPT ![side][price] = (@ + qty) % QtyMod]
    /\ indexed' = [indexed EXCEPT ![side] = @ \cup {price}]
    /\ live' = live + 1
    /\ order' = MapPut(id, [side |-> side, price |-> price, qty |-> qty, tif |-> tif])

-----------------------------------------------------------------------------
(* The commands, up to their first call of cross *)

Reject(id, reason) ==
    /\ Emit(Rejected(id, reason))
    /\ UNCHANGED <<bookVars, pc, taker>>

\* Mutation: one order too many.
IsFullOffByOne == live > MaxOrders

\* The slab has no room: book_full, whatever the order would do.
IsFull == live >= MaxOrders

\* The checks of newOrder in their order; "None" when all pass.
NewRefusal(c) ==
    LET limit == c.otype = "Limit"
    IN  IF c.qty = 0 THEN "InvalidQty"
        ELSE IF limit /\ ~PriceOk(c.price) THEN "InvalidPrice"
        ELSE IF c.id \in Mapped THEN "DuplicateOrderId"
        ELSE IF IsFull THEN "BookFull"
        ELSE IF limit /\ c.tif = "PostOnly" /\ WouldCross(c.side, c.price)
             THEN "PostOnlyWouldCross"
        ELSE IF limit /\ c.tif = "Fok" /\ Fillable(c.side, c.price) < c.qty
             THEN "FokCannotFill"
        ELSE "None"

BeginCross(op, id, side, bounded, bound, qty, tif) ==
    /\ pc' = "Cross"
    /\ taker' = [op |-> op, id |-> id, side |-> side, bounded |-> bounded,
                 bound |-> bound, remaining |-> qty, tif |-> tif, at |-> bound]

NewOrder(c) ==
    \/ NewRefusal(c) # "None" /\ Reject(c.id, NewRefusal(c))
    \/ /\ NewRefusal(c) = "None"
       /\ BeginCross("New", c.id, c.side, c.otype = "Limit", c.price, c.qty, c.tif)
       /\ Silent
       /\ UNCHANGED bookVars

CancelOrder(id) ==
    \/ id \notin Mapped /\ Reject(id, "UnknownOrderId")
    \/ /\ id \in Mapped
       /\ LeaveLevel(id)
       /\ order' = MapRemove(id)
       /\ Emit(Closed(id, "Cancelled"))
       /\ UNCHANGED <<pc, taker>>

\* The checks of replace in their order; "None" when all pass.
ReplaceRefusal(c) ==
    IF c.id \notin Mapped THEN "UnknownOrderId"
    ELSE IF c.qty = 0 THEN "InvalidQty"
    ELSE IF ~PriceOk(c.price) THEN "InvalidPrice"
    ELSE "None"

\* Mutation: a replacement that grows keeps its place.
KeepsPriorityGrowing(c) == c.price = order[c.id].price

KeepsPriority(c) == c.price = order[c.id].price /\ c.qty <= order[c.id].qty

\* Mutation: the level's total is not reduced with the order.
ReplaceInPlaceStaleTotal(c) ==
    /\ order' = [order EXCEPT ![c.id].qty = c.qty]
    /\ Emit(Replaced(c.id, c.price, c.qty))
    /\ UNCHANGED <<queue, total, indexed, live, pc, taker>>

\* Same price, no more quantity: changed where it stands.
ReplaceInPlace(c) ==
    LET o == order[c.id]
    IN  /\ total' = [total EXCEPT ![o.side][o.price] = (@ - (o.qty - c.qty)) % QtyMod]
        /\ order' = [order EXCEPT ![c.id].qty = c.qty]
        /\ Emit(Replaced(c.id, c.price, c.qty))
        /\ UNCHANGED <<queue, indexed, live, pc, taker>>

\* Otherwise it leaves its level and crosses at the new price.  Its slot is
\* dead (qty 0) and its map entry stays, so that the id remains reserved.
ReplaceAndCross(c) ==
    /\ LeaveLevel(c.id)
    /\ order' = [order EXCEPT ![c.id].qty = 0]
    /\ BeginCross("Replace", c.id, order[c.id].side, TRUE, c.price, c.qty,
                  order[c.id].tif)
    /\ Silent

ReplaceOrder(c) ==
    \/ ReplaceRefusal(c) # "None" /\ Reject(c.id, ReplaceRefusal(c))
    \/ ReplaceRefusal(c) = "None" /\ KeepsPriority(c) /\ ReplaceInPlace(c)
    \/ ReplaceRefusal(c) = "None" /\ ~KeepsPriority(c) /\ ReplaceAndCross(c)

Apply(c) ==
    /\ pc = "Idle"
    /\ \/ c.kind = "New" /\ NewOrder(c)
       \/ c.kind = "Cancel" /\ CancelOrder(c.id)
       \/ c.kind = "Replace" /\ ReplaceOrder(c)

-----------------------------------------------------------------------------
(* cross: the opposite side from its best price inward *)

opp == Opposite(taker.side)
level == queue[opp][taker.at]
maker == Head(level)

\* Mutation: the taker takes all it asks for from the first maker.
fillQtyUnbounded == taker.remaining

fillQty ==
    IF taker.remaining <= order[maker].qty THEN taker.remaining ELSE order[maker].qty

\* The index has a best price, it is within the bound and its level has orders.
CanTrade ==
    /\ indexed[opp] # {}
    /\ taker.bounded => Marketable(taker.side, taker.bound, BestPrice(opp))
    /\ queue[opp][BestPrice(opp)] # <<>>

\* Top of the outer loop: take the best level, or leave cross.
Cross ==
    /\ pc = "Cross"
    /\ \/ /\ CanTrade
          /\ pc' = "Trade"
          /\ taker' = [taker EXCEPT !.at = BestPrice(opp)]
       \/ /\ ~CanTrade
          /\ pc' = "Finish"
          /\ UNCHANGED taker
    /\ Silent
    /\ UNCHANGED bookVars

\* Top of the inner loop: the trade is announced before the book changes.
Trade ==
    /\ pc = "Trade"
    /\ Emit(TradeOf(maker, taker.id, taker.at, fillQty))
    /\ pc' = "Fill"
    /\ UNCHANGED <<bookVars, taker>>

\* The rest of the inner loop's body: the maker is reduced, or leaves filled.
Fill ==
    /\ pc = "Fill"
    /\ total' = [total EXCEPT ![opp][taker.at] = (@ - fillQty) % QtyMod]
    /\ taker' = [taker EXCEPT !.remaining = @ - fillQty]
    /\ IF order[maker].qty = fillQty
       THEN /\ queue' = [queue EXCEPT ![opp][taker.at] = Tail(@)]
            /\ order' = MapRemove(maker)
            /\ live' = live - 1
            /\ Emit(Closed(maker, "Filled"))
       ELSE /\ order' = [order EXCEPT ![maker].qty = @ - fillQty]
            /\ Silent
            /\ UNCHANGED <<queue, live>>
    /\ pc' = IF taker'.remaining = 0 \/ queue'[opp][taker.at] = <<>>
             THEN "Unlink" ELSE "Trade"
    /\ UNCHANGED indexed

\* Mutation: cross returns to a finished taker before it looks at the level.
UnlinkAfterReturn ==
    /\ pc = "Unlink"
    /\ indexed' = [indexed EXCEPT ![opp] =
                     IF taker.remaining # 0 /\ level = <<>> THEN @ \ {taker.at} ELSE @]
    /\ pc' = IF taker.remaining = 0 THEN "Finish" ELSE "Cross"
    /\ Silent
    /\ UNCHANGED <<order, queue, total, live, taker>>

\* Mutation: cross stops after the first level.
UnlinkOneLevel ==
    /\ pc = "Unlink"
    /\ indexed' = [indexed EXCEPT ![opp] = IF level = <<>> THEN @ \ {taker.at} ELSE @]
    /\ pc' = "Finish"
    /\ Silent
    /\ UNCHANGED <<order, queue, total, live, taker>>

\* Mutation: the outer loop does not ask whether the taker is done.
UnlinkNoReturn ==
    /\ pc = "Unlink"
    /\ indexed' = [indexed EXCEPT ![opp] = IF level = <<>> THEN @ \ {taker.at} ELSE @]
    /\ pc' = "Cross"
    /\ Silent
    /\ UNCHANGED <<order, queue, total, live, taker>>

\* After the inner loop: an emptied level leaves the index.
Unlink ==
    /\ pc = "Unlink"
    /\ indexed' = [indexed EXCEPT ![opp] = IF level = <<>> THEN @ \ {taker.at} ELSE @]
    /\ pc' = IF taker.remaining = 0 THEN "Finish" ELSE "Cross"
    /\ Silent
    /\ UNCHANGED <<order, queue, total, live, taker>>

-----------------------------------------------------------------------------
(* The end of newOrder and of replace *)

Rests == taker.op = "Replace" \/ (taker.bounded /\ taker.tif \in {"Gtc", "PostOnly"})

\* Mutation: a replaced order that fills leaves its id in the order map.
FinishFilledLeak ==
    /\ taker.remaining = 0
    /\ Emit(Closed(taker.id, "Filled"))
    /\ UNCHANGED bookVars

FinishFilled ==
    /\ taker.remaining = 0
    /\ order' = IF taker.op = "Replace" THEN MapRemove(taker.id) ELSE order
    /\ Emit(Closed(taker.id, "Filled"))
    /\ UNCHANGED <<queue, total, indexed, live>>

FinishResting ==
    /\ taker.remaining # 0
    /\ Rests
    /\ Rest(taker.id, taker.side, taker.bound, taker.remaining, taker.tif)
    /\ Emit(IF taker.op = "New"
            THEN Accepted(taker.id, taker.remaining)
            ELSE Replaced(taker.id, taker.bound, taker.remaining))

FinishExpired ==
    /\ taker.remaining # 0
    /\ ~Rests
    /\ Emit(Closed(taker.id, "Expired"))
    /\ UNCHANGED bookVars

Finish ==
    /\ pc = "Finish"
    /\ FinishFilled \/ FinishResting \/ FinishExpired
    /\ pc' = "Idle"
    /\ taker' = NoTaker

-----------------------------------------------------------------------------
(* NewOrderBook, and the behaviours of the book *)

Init ==
    /\ order = [i \in {} |-> NoTaker]
    /\ queue = [s \in Sides |-> [p \in LevelPrices |-> <<>>]]
    /\ total = [s \in Sides |-> [p \in LevelPrices |-> 0]]
    /\ indexed = [s \in Sides |-> {}]
    /\ live = 0
    /\ seq = 0
    /\ ev = NoEvent
    /\ pc = "Idle"
    /\ taker = NoTaker

Step == Cross \/ Trade \/ Fill \/ Unlink \/ Finish

Next == (\E c \in Commands : Apply(c)) \/ Step

Spec == Init /\ [][Next]_vars

\* Apply runs on the caller's goroutine to its end; nothing obliges the caller
\* to send another command.
FairSpec == Spec /\ WF_vars(Step)

-----------------------------------------------------------------------------
(* Correctness *)

Order == [side : Sides, price : LevelPrices, qty : Quantity, tif : Tifs]
Taker == [op : {"New", "Replace"}, id : OrderIds, side : Sides, bounded : BOOLEAN,
          bound : Prices \cup {0}, remaining : Quantity, tif : Tifs,
          at : Prices \cup {0}]
Events ==
    [kind : {"Accepted"}, id : OrderIds, leaves : Quantity]
      \cup [kind : {"Rejected"}, id : OrderIds, reason : RejectReasons]
      \cup [kind : {"Trade"}, maker : OrderIds, taker : OrderIds,
            price : LevelPrices, qty : Quantity]
      \cup [kind : {"Closed"}, id : OrderIds, reason : CloseReasons]
      \cup [kind : {"Replaced"}, id : OrderIds, price : LevelPrices, qty : Quantity]

\* The types of the book's state: a command is in flight exactly when pc says so.
TypeOK ==
    /\ Mapped \subseteq OrderIds /\ order \in [Mapped -> Order]
    /\ queue \in [Sides -> [LevelPrices -> Seq(OrderIds)]]
    /\ total \in [Sides -> [LevelPrices -> Quantity]]
    /\ indexed \in [Sides -> SUBSET LevelPrices]
    /\ live \in Int
    /\ seq \in 0 .. (SeqRange - 1)
    /\ ev \in Events \cup {NoEvent}
    /\ pc \in {"Idle", "Cross", "Trade", "Fill", "Unlink", "Finish"}
    /\ IF pc = "Idle" THEN taker = NoTaker ELSE taker \in Taker

LiveIds == {i \in Mapped : order[i].qty > 0}

\* A replaced order's id that is kept reserved while its replacement crosses.
Reserved == IF pc # "Idle" /\ taker.op = "Replace" THEN {taker.id} ELSE {}

\* The book is never crossed: every bid level is below every ask level, also in
\* the middle of a command, when a sink may call BestBid and BestAsk.
NoCross == \A b \in indexed["Bid"], a \in indexed["Ask"] : b < a

RestingAt(side, price) ==
    {id \in LiveIds : order[id].side = side /\ order[id].price = price}

\* The order map and the levels agree: a level holds exactly the live orders mapped
\* to its side and price, each of them once.
QueuesMatchOrders ==
    \A s \in Sides, p \in LevelPrices :
        ToSet(queue[s][p]) = RestingAt(s, p) /\ IsInjective(queue[s][p])

\* An id is taken by a live order or by the order being replaced, whose slot is
\* dead until its command ends; a new order in flight has not taken its id yet.
IdsReserved ==
    /\ Mapped \ LiveIds = Reserved
    /\ (pc # "Idle" /\ taker.op = "New") => taker.id \notin Mapped

\* A price index holds exactly the non-empty levels; the level cross has just
\* emptied is still in it until cross unlinks it.
IndexMatchesLevels ==
    \A s \in Sides, p \in LevelPrices :
        p \in indexed[s] <=>
            \/ queue[s][p] # <<>>
            \/ pc = "Unlink" /\ s = opp /\ p = taker.at

\* No resting order is left that the taker may trade with.
NothingMarketable ==
    \A p \in indexed[opp] : ~Marketable(taker.side, taker.bound, p)

\* Where cross stands: it walks a level that has orders while the taker has
\* quantity, drops the level only when one of the two is gone, and a limit order's
\* remainder comes to rest only when nothing is left on the other side within its
\* limit.  A post-only order never finds anything there.
CrossState ==
    pc # "Idle" =>
        /\ taker.bounded => taker.bound \in LevelPrices
        /\ taker.op = "Replace" \/ taker.tif = "PostOnly" => taker.bounded
        /\ pc \in {"Cross", "Trade", "Fill"} => taker.remaining > 0
        /\ pc \in {"Trade", "Fill", "Unlink"} => taker.at \in LevelPrices
        /\ pc \in {"Trade", "Fill"} => level # <<>>
        /\ pc = "Unlink" => taker.remaining = 0 \/ level = <<>>
        /\ pc = "Finish" /\ taker.remaining > 0 /\ taker.bounded => NothingMarketable
        /\ taker.op = "New" /\ taker.tif = "PostOnly" =>
               pc \in {"Cross", "Finish"} /\ NothingMarketable

\* The count behind book_full is the number of live orders, and an order in
\* flight always finds room to rest.
CountMatches ==
    /\ live = Cardinality(LiveIds)
    /\ live <= MaxOrders
    /\ pc # "Idle" => live < MaxOrders

\* What each order has left.
Leaves == [id \in Mapped |-> order[id].qty]

\* A level's running total is the sum of its orders' quantities, as a uint64.
TotalsMatch ==
    \A s \in Sides, p \in LevelPrices :
        total[s][p] = SumFunctionOnSet(Leaves, RestingAt(s, p)) % QtyMod

\* A fill-or-kill order that passed the check is filled completely: cross never
\* runs out of marketable orders under it, even when the totals have wrapped.
FokAllOrNothing ==
    (pc = "Finish" /\ taker.op = "New" /\ taker.bounded /\ taker.tif = "Fok")
        => taker.remaining = 0

\* A new post-only order never takes liquidity (a replaced one may: replace
\* re-enters as an aggressive limit order).
PostOnlyNeverTakes ==
    pc = "Trade" => ~(taker.op = "New" /\ taker.tif = "PostOnly")

\* What a FOK order of this side and price could trade with, counted exactly.
Available(side, price) ==
    SumFunctionOnSet(Leaves, {id \in LiveIds : /\ order[id].side = Opposite(side)
                                               /\ Marketable(side, price, order[id].price)})

\* SPEC: rejected{fok_cannot_fill} if the total quantity within the limit is less
\* than the order's.  The code sums uint64 totals over a bounded price range.
FokRejectJustified ==
    pc = "Idle" =>
        \A side \in Sides, price \in LevelPrices, qty \in Qtys \ {0} :
            Fillable(side, price) < qty => Available(side, price) < qty

\* Time priority: from one state to the next, whoever stands before an order that
\* stays in its level stood before it already.  A new or re-entering order goes
\* behind everybody.
PriorityStable ==
    [][\A s \in Sides, p \in LevelPrices :
          \A i, j \in 1 .. Len(queue'[s][p]) :
              (i < j /\ queue'[s][p][j] \in ToSet(queue[s][p])) =>
                  \E k, m \in 1 .. Len(queue[s][p]) :
                      /\ k < m
                      /\ queue[s][p][k] = queue'[s][p][i]
                      /\ queue[s][p][m] = queue'[s][p][j]]_vars

\* Apply always returns: the cross loop of every command comes to its end.
CommandTerminates == pc # "Idle" ~> pc = "Idle"

=============================================================================
