------------------------------ MODULE BookAnswers ------------------------------
(***************************************************************************)
(* What a book answers to a command: its events and the book after it, in  *)
(* closed form.  A book is two sequences of orders in the order            *)
(* RestingOrders lists them, best price first and oldest first.  A fill is *)
(* what the quantity ahead of an order leaves of the taker, not a step of  *)
(* a loop.  Quantities are plain integers here: nothing wraps.             *)
(*                                                                         *)
(* cfg is what of its configuration a book looks at: cfg.prices, the       *)
(* prices a limit order may have, and cfg.max, the most orders that rest.  *)
(***************************************************************************)
EXTENDS Integers, SequencesExt, FiniteSetsExt

Sides == {"Bid", "Ask"}
Tifs == {"Gtc", "Ioc", "Fok", "PostOnly"}

\* The commands a book answers.
Requests ==
    [kind : {"New"}, id : Nat, side : Sides, otype : {"Limit", "Market"}, price : Int,
     qty : Nat, tif : Tifs]
    \cup [kind : {"Cancel"}, id : Nat]
    \cup [kind : {"Replace"}, id : Nat, price : Int, qty : Nat]

-----------------------------------------------------------------------------
(* The order of the book *)

Other(side) == IF side = "Bid" THEN "Ask" ELSE "Bid"
Better(side, p, q) == IF side = "Bid" THEN p > q ELSE p < q

All(b) == b["Bid"] \o b["Ask"]
Ids(b) == {All(b)[i].id : i \in 1 .. Len(All(b))}
Find(b, id) == All(b)[CHOOSE i \in 1 .. Len(All(b)) : All(b)[i].id = id]

\* What is left of q when only the elements of S stay.
Keep(q, S) ==
    LET kept[n \in 0 .. Len(q)] ==
            IF n = 0 THEN <<>>
            ELSE IF q[n] \in S THEN Append(kept[n - 1], q[n])
            ELSE kept[n - 1]
    IN  kept[Len(q)]

Without(b, id) == [s \in DOMAIN b |-> Keep(b[s], {o \in ToSet(b[s]) : o.id # id})]

\* Behind every order that is as good, before the first that is worse.
AsGood(q, o) == {k \in 1 .. Len(q) : ~Better(o.side, o.price, q[k].price)}
Insert(b, o) ==
    [b EXCEPT ![o.side] = InsertAt(@, Max({0} \cup AsGood(@, o)) + 1, o)]

-----------------------------------------------------------------------------
(* Matching: t is the taker's [id, side, bounded, bound, qty] *)

\* The resting orders the taker may trade with: the front of the other side.
Reach(b, t) ==
    LET q == b[Other(t.side)]
    IN  Keep(q, {o \in ToSet(q) : t.bounded => ~Better(t.side, o.price, t.bound)})

Ahead(q, i) == SumFunctionOnSet([k \in 1 .. Len(q) |-> q[k].qty], 1 .. (i - 1))
Depth(q) == Ahead(q, Len(q) + 1)

\* What order i of the reach gives to a taker of quantity n.
FillOf(q, i, n) == Max({0, Min({q[i].qty, n - Ahead(q, i)})})

FillEvents(q, t) ==
    FlattenSeq([i \in 1 .. Len(q) |->
        LET f == FillOf(q, i, t.qty)
            trade == [kind |-> "Trade", maker |-> q[i].id, taker |-> t.id,
                      price |-> q[i].price, qty |-> f]
            closed == [kind |-> "Closed", id |-> q[i].id, reason |-> "Filled"]
        IN  IF f = 0 THEN <<>>
            ELSE IF f = q[i].qty THEN <<trade, closed>>
            ELSE <<trade>>])

\* The other side after the fills: its front reduced, the filled orders gone.
Filled(b, t) ==
    LET q == Reach(b, t)
        side == Other(t.side)
        reduced == [i \in 1 .. Len(b[side]) |->
                      IF i <= Len(q)
                      THEN [b[side][i] EXCEPT !.qty = @ - FillOf(q, i, t.qty)]
                      ELSE b[side][i]]
    IN  [b EXCEPT ![side] = Keep(reduced, {o \in ToSet(reduced) : o.qty > 0})]

Remainder(b, t) == Max({0, t.qty - Depth(Reach(b, t))})

-----------------------------------------------------------------------------
(* The answer to a command: the events and the book after it *)

Refuse(b, c, reason) ==
    [out |-> <<[kind |-> "Rejected", id |-> c.id, reason |-> reason]>>, book |-> b]

\* The taker crosses; a remainder rests or expires, and last says how.
Execute(b, t, tif, rests, restEvent(_)) ==
    LET left == Remainder(b, t)
        after == Filled(b, t)
        fills == FillEvents(Reach(b, t), t)
        closed(reason) == [kind |-> "Closed", id |-> t.id, reason |-> reason]
    IN  IF left = 0
        THEN [out |-> Append(fills, closed("Filled")), book |-> after]
        ELSE IF rests
        THEN [out |-> Append(fills, restEvent(left)),
              book |-> Insert(after, [id |-> t.id, side |-> t.side, price |-> t.bound,
                                      qty |-> left, tif |-> tif])]
        ELSE [out |-> Append(fills, closed("Expired")), book |-> after]

AnswerNew(cfg, b, c) ==
    LET limit == c.otype = "Limit"
        t == [id |-> c.id, side |-> c.side, bounded |-> limit, bound |-> c.price,
              qty |-> c.qty]
        depth == Depth(Reach(b, t))
    IN  IF c.qty = 0 THEN Refuse(b, c, "InvalidQty")
        ELSE IF limit /\ c.price \notin cfg.prices THEN Refuse(b, c, "InvalidPrice")
        ELSE IF c.id \in Ids(b) THEN Refuse(b, c, "DuplicateOrderId")
        ELSE IF Cardinality(Ids(b)) >= cfg.max THEN Refuse(b, c, "BookFull")
        ELSE IF limit /\ c.tif = "PostOnly" /\ depth > 0
             THEN Refuse(b, c, "PostOnlyWouldCross")
        ELSE IF limit /\ c.tif = "Fok" /\ depth < c.qty
             THEN Refuse(b, c, "FokCannotFill")
        ELSE Execute(b, t, c.tif, limit /\ c.tif \in {"Gtc", "PostOnly"},
                     LAMBDA left : [kind |-> "Accepted", id |-> c.id, leaves |-> left])

AnswerCancel(b, c) ==
    IF c.id \notin Ids(b) THEN Refuse(b, c, "UnknownOrderId")
    ELSE [out |-> <<[kind |-> "Closed", id |-> c.id, reason |-> "Cancelled"]>>,
          book |-> Without(b, c.id)]

\* A replacement that neither moves nor grows keeps its place; any other is the
\* order's removal followed by an aggressive limit order with the same id.
AnswerReplace(cfg, b, c) ==
    LET o == Find(b, c.id)
        t == [id |-> c.id, side |-> o.side, bounded |-> TRUE, bound |-> c.price,
              qty |-> c.qty]
        event(left) == [kind |-> "Replaced", id |-> c.id, price |-> c.price, qty |-> left]
    IN  IF c.id \notin Ids(b) THEN Refuse(b, c, "UnknownOrderId")
        ELSE IF c.qty = 0 THEN Refuse(b, c, "InvalidQty")
        ELSE IF c.price \notin cfg.prices THEN Refuse(b, c, "InvalidPrice")
        ELSE IF c.price = o.price /\ c.qty <= o.qty
        THEN [out |-> <<event(c.qty)>>,
              book |-> [b EXCEPT ![o.side] =
                          [i \in 1 .. Len(@) |->
                             IF @[i].id = c.id THEN [@[i] EXCEPT !.qty = c.qty] ELSE @[i]]]]
        ELSE Execute(Without(b, c.id), t, o.tif, TRUE, event)

Answer(cfg, b, c) ==
    CASE c.kind = "New" -> AnswerNew(cfg, b, c)
      [] c.kind = "Cancel" -> AnswerCancel(b, c)
      [] c.kind = "Replace" -> AnswerReplace(cfg, b, c)

=============================================================================
