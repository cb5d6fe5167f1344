--------------------------- MODULE OrderBookProofs ---------------------------
(***************************************************************************)
(* The order book's invariants hold for all ids, prices, quantities, sizes *)
(* and for both index kinds.                                               *)
(*                                                                         *)
(* None of TypeOK, NoCross, ... is inductive by itself: a maker is in the  *)
(* map because levels hold mapped orders, the level cross walks has orders *)
(* because the index holds exactly the non-empty levels, the book stays    *)
(* uncrossed because cross left nothing marketable.  IInv is their         *)
(* conjunction, preserved by every action.                                 *)
(***************************************************************************)
EXTENDS OrderBook, DataFacts, SequenceTheorems, FiniteSetTheorems, TLAPS

IInv ==
    /\ TypeOK
    /\ QueuesMatchOrders
    /\ IdsReserved
    /\ IndexMatchesLevels
    /\ NoCross
    /\ CrossState

-----------------------------------------------------------------------------
(* Arithmetic and sequences *)

\* A remainder lies below its modulus: the range of every uint64 of the model.
LEMMA ModRange == \A a \in Int, b \in Nat : b > 0 => a % b \in 0 .. (b - 1)
  OBVIOUS

\* A quantity of a command that is not zero is a positive uint64.
LEMMA QtyFacts == \A n \in Qtys : n # 0 => n \in Quantity /\ n > 0
  BY QtysAssumption, QtyModAssumption DEF Quantity

\* Removing one element shifts those behind it by one place.
LEMMA RemoveAtFacts ==
  ASSUME NEW S, NEW s \in Seq(S), NEW i \in 1 .. Len(s)
  PROVE  /\ RemoveAt(s, i) \in Seq(S)
         /\ Len(RemoveAt(s, i)) = Len(s) - 1
         /\ \A k \in 1 .. (Len(s) - 1) :
                RemoveAt(s, i)[k] = IF k < i THEN s[k] ELSE s[k + 1]
<1>1. RemoveAt(s, i) = LessOne(s, i)
  BY DEF RemoveAt, LessOne
<1>. QED BY <1>1, LessOneFacts

\* Without the element at place i: the same elements but that one, still no twins.
LEMMA RemoveAtSet ==
  ASSUME NEW S, NEW s \in Seq(S), NEW i \in 1 .. Len(s), IsInjective(s)
  PROVE  /\ RemoveAt(s, i) \in Seq(S)
         /\ ToSet(RemoveAt(s, i)) = ToSet(s) \ {s[i]}
         /\ IsInjective(RemoveAt(s, i))
<1> DEFINE r == RemoveAt(s, i)
           n == Len(s) - 1
<1>1. r \in Seq(S) /\ Len(r) = n /\ DOMAIN r = 1 .. n /\ DOMAIN s = 1 .. Len(s) /\ n \in Nat
  BY RemoveAtFacts
<1>2. \A k \in 1 .. n : r[k] = IF k < i THEN s[k] ELSE s[k + 1]
  BY RemoveAtFacts
<1>3. \A a, b \in 1 .. Len(s) : s[a] = s[b] => a = b
  BY <1>1 DEF IsInjective
<1> HIDE DEF r
<1>4. ToSet(r) \subseteq ToSet(s) \ {s[i]}
  <2> SUFFICES ASSUME NEW k \in 1 .. n PROVE r[k] \in ToSet(s) \ {s[i]}
    BY <1>1 DEF ToSet
  <2>1. CASE k < i
    BY <1>1, <1>2, <1>3, <2>1 DEF ToSet
  <2>2. CASE ~(k < i)
    <3>1. k + 1 \in 1 .. Len(s) /\ k + 1 # i
      BY <1>1, <2>2
    <3>2. r[k] = s[k + 1] /\ s[k + 1] # s[i]
      BY <1>2, <1>3, <2>2, <3>1
    <3>3. s[k + 1] \in ToSet(s)
      BY <1>1, <3>1 DEF ToSet
    <3> QED  BY <3>2, <3>3
  <2> QED  BY <2>1, <2>2
<1>5. ToSet(s) \ {s[i]} \subseteq ToSet(r)
  <2> SUFFICES ASSUME NEW k \in 1 .. Len(s), k # i PROVE s[k] \in ToSet(r)
    BY <1>1 DEF ToSet
  <2>1. CASE k < i
    <3>1. k \in 1 .. n /\ r[k] = s[k]
      BY <1>1, <1>2, <2>1
    <3> QED  BY <1>1, <3>1 DEF ToSet
  <2>2. CASE k > i
    <3>1. k - 1 \in 1 .. n /\ r[k - 1] = s[k]
      BY <1>1, <1>2, <2>2
    <3> QED  BY <1>1, <3>1 DEF ToSet
  <2> QED  BY <2>1, <2>2
<1>6. IsInjective(r)
  <2> SUFFICES ASSUME NEW a \in 1 .. n, NEW b \in 1 .. n, r[a] = r[b] PROVE a = b
    BY <1>1 DEF IsInjective
  <2> DEFINE at(k) == IF k < i THEN k ELSE k + 1
  <2>1. at(a) \in 1 .. Len(s) /\ at(b) \in 1 .. Len(s) /\ r[a] = s[at(a)] /\ r[b] = s[at(b)]
    BY <1>1, <1>2
  <2>2. at(a) = at(b)
    BY <1>3, <2>1
  <2> QED  BY <2>2
<1> QED  BY <1>1, <1>4, <1>5, <1>6 DEF r

\* The head leaves: the same for the first element.
LEMMA TailSet ==
  ASSUME NEW S, NEW s \in Seq(S), s # <<>>, IsInjective(s)
  PROVE  /\ Head(s) \in S /\ Head(s) \in ToSet(s)
         /\ Tail(s) \in Seq(S)
         /\ ToSet(Tail(s)) = ToSet(s) \ {Head(s)}
         /\ IsInjective(Tail(s))
<1> DEFINE r == Tail(s)
           n == Len(s) - 1
<1>1. /\ r \in Seq(S) /\ Len(r) = n /\ DOMAIN r = 1 .. n /\ DOMAIN s = 1 .. (n + 1)
      /\ n \in Nat /\ Head(s) = s[1]
  OBVIOUS
<1>2. \A k \in 1 .. n : r[k] = s[k + 1]
  OBVIOUS
<1>3. \A a, b \in 1 .. (n + 1) : s[a] = s[b] => a = b
  BY <1>1 DEF IsInjective
<1>4. Head(s) \in S /\ Head(s) \in ToSet(s)
  BY <1>1 DEF ToSet
<1> HIDE DEF r
<1>5. ToSet(r) \subseteq ToSet(s) \ {s[1]}
  <2> SUFFICES ASSUME NEW k \in 1 .. n PROVE r[k] \in ToSet(s) \ {s[1]}
    BY <1>1 DEF ToSet
  <2>1. k + 1 \in 1 .. (n + 1) /\ k + 1 # 1
    BY <1>1
  <2> QED  BY <1>1, <1>2, <1>3, <2>1 DEF ToSet
<1>6. ToSet(s) \ {s[1]} \subseteq ToSet(r)
  <2> SUFFICES ASSUME NEW k \in 1 .. (n + 1), k # 1 PROVE s[k] \in ToSet(r)
    BY <1>1 DEF ToSet
  <2>1. k - 1 \in 1 .. n /\ r[k - 1] = s[k]
    BY <1>1, <1>2
  <2> QED  BY <1>1, <2>1 DEF ToSet
<1>7. IsInjective(r)
  <2> SUFFICES ASSUME NEW a \in 1 .. n, NEW b \in 1 .. n, r[a] = r[b] PROVE a = b
    BY <1>1 DEF IsInjective
  <2>1. s[a + 1] = s[b + 1] /\ a + 1 \in 1 .. (n + 1) /\ b + 1 \in 1 .. (n + 1)
    BY <1>1, <1>2
  <2>2. a + 1 = b + 1
    BY <1>3, <2>1
  <2> QED  BY <2>2
<1> QED  BY <1>1, <1>4, <1>5, <1>6, <1>7 DEF r

\* A new element joins behind the others.
LEMMA AppendSet ==
  ASSUME NEW S, NEW s \in Seq(S), NEW e \in S, e \notin ToSet(s), IsInjective(s)
  PROVE  /\ Append(s, e) \in Seq(S)
         /\ Append(s, e) # <<>>
         /\ ToSet(Append(s, e)) = ToSet(s) \cup {e}
         /\ IsInjective(Append(s, e))
<1> DEFINE r == Append(s, e)
           n == Len(s)
<1>1. /\ r \in Seq(S) /\ r # <<>> /\ Len(r) = n + 1
      /\ DOMAIN r = 1 .. (n + 1) /\ DOMAIN s = 1 .. n /\ n \in Nat
  OBVIOUS
<1>2. r[n + 1] = e /\ \A k \in 1 .. n : r[k] = s[k]
  OBVIOUS
<1> HIDE DEF r
<1>3. ToSet(r) = ToSet(s) \cup {e}
  BY <1>1, <1>2 DEF ToSet
<1>4. IsInjective(r)
  BY <1>1, <1>2 DEF ToSet, IsInjective
<1> QED  BY <1>1, <1>3, <1>4 DEF r

-----------------------------------------------------------------------------
(* The book's helpers *)

\* bestPrice returns the best occupied price.
LEMMA BestPriceFacts ==
  ASSUME TypeOK, NEW side \in Sides, indexed[side] # {}
  PROVE  /\ BestPrice(side) \in indexed[side]
         /\ BestPrice(side) \in LevelPrices
         /\ \A q \in indexed[side] : AsGood(side, BestPrice(side), q)
<1>1. indexed[side] \in (SUBSET Prices) \ {{}}
  BY DEF TypeOK, LevelPrices
<1>2. PICK lo \in indexed[side], hi \in indexed[side] :
          \A p \in indexed[side] : lo <= p /\ p <= hi
  BY <1>1, PricesAssumption
<1>3. \E p \in indexed[side] : \A q \in indexed[side] : AsGood(side, p, q)
  <2>1. \A q \in indexed[side] : AsGood("Bid", hi, q) /\ AsGood("Ask", lo, q)
    BY <1>1, <1>2, PricesAssumption DEF AsGood
  <2> QED
    BY <1>2, <2>1 DEF Sides
<1> QED
  BY <1>1, <1>3 DEF BestPrice, TypeOK

\* If the best price is not marketable, no indexed price is.
LEMMA NotMarketable ==
  ASSUME TypeOK, NEW side \in Sides, NEW bound \in Int, NEW other, other = Opposite(side),
         indexed[other] # {} => ~Marketable(side, bound, BestPrice(other))
  PROVE  \A p \in indexed[other] : ~Marketable(side, bound, p)
<1> SUFFICES ASSUME NEW p \in indexed[other] PROVE ~Marketable(side, bound, p)
  OBVIOUS
<1>1. other \in Sides /\ other = IF side = "Bid" THEN "Ask" ELSE "Bid"
  BY DEF Opposite, Sides
<1>2. BestPrice(other) \in LevelPrices /\ AsGood(other, BestPrice(other), p)
  BY <1>1, BestPriceFacts
<1>3. p \in Int /\ BestPrice(other) \in Int
  BY <1>1, <1>2, PricesAssumption DEF TypeOK, LevelPrices
<1> QED
  BY <1>1, <1>2, <1>3 DEF AsGood, Marketable, Sides

-----------------------------------------------------------------------------
(* What happens to a level *)

\* A live order stands in its level, at the place PlaceIn finds.
LEMMA PlaceFacts ==
  ASSUME TypeOK, QueuesMatchOrders, NEW id \in LiveIds,
         NEW q, q = queue[order[id].side][order[id].price]
  PROVE  /\ order[id] \in Order
         /\ q \in Seq(OrderIds) /\ IsInjective(q)
         /\ PlaceIn(q, id) \in 1 .. Len(q)
         /\ q[PlaceIn(q, id)] = id
<1>1. order[id] \in Order
  BY DEF TypeOK, LiveIds, Mapped
<1>2. q \in Seq(OrderIds) /\ DOMAIN q = 1 .. Len(q)
  BY <1>1 DEF TypeOK, Order
<1>3. id \in ToSet(q) /\ IsInjective(q)
  BY <1>1 DEF QueuesMatchOrders, RestingAt, Order
<1>4. \E i \in 1 .. Len(q) : q[i] = id
  BY <1>2, <1>3 DEF ToSet
<1>5. PlaceIn(q, id) \in 1 .. Len(q) /\ q[PlaceIn(q, id)] = id
  BY <1>4 DEF PlaceIn
<1> QED  BY <1>1, <1>2, <1>3, <1>5

\* Levels and orders still agree when no order ends, moves or comes.
LEMMA QueuesSame ==
  ASSUME QueuesMatchOrders, queue' = queue, LiveIds' = LiveIds,
         \A i \in LiveIds : order'[i].side = order[i].side /\ order'[i].price = order[i].price
  PROVE  QueuesMatchOrders'
  BY DEF QueuesMatchOrders, RestingAt

\* ... when one order ends and leaves its level,
LEMMA QueuesLess ==
  ASSUME TypeOK, QueuesMatchOrders, NEW id \in LiveIds, NEW s \in Sides, NEW p \in LevelPrices,
         s = order[id].side, p = order[id].price,
         NEW left, ToSet(left) = ToSet(queue[s][p]) \ {id}, IsInjective(left),
         queue' = [queue EXCEPT ![s][p] = left],
         LiveIds' = LiveIds \ {id},
         \A i \in LiveIds' : order'[i].side = order[i].side /\ order'[i].price = order[i].price
  PROVE  QueuesMatchOrders'
<1>1. \A t \in Sides, r \in LevelPrices :
          queue'[t][r] = IF t = s /\ r = p THEN left ELSE queue[t][r]
  BY DEF TypeOK
<1>2. \A t \in Sides, r \in LevelPrices :
          RestingAt(t, r)' = IF t = s /\ r = p THEN RestingAt(t, r) \ {id}
                                               ELSE RestingAt(t, r)
  BY DEF RestingAt
<1>3. ToSet(left) = RestingAt(s, p) \ {id}
  BY DEF QueuesMatchOrders
<1>4. \A t \in Sides, r \in LevelPrices :
          ToSet(queue[t][r]) = RestingAt(t, r) /\ IsInjective(queue[t][r])
  BY DEF QueuesMatchOrders
<1>5. ASSUME NEW t \in Sides, NEW r \in LevelPrices
      PROVE  ToSet(queue'[t][r]) = RestingAt(t, r)'
  <2>1. CASE t = s /\ r = p
    <3>1. queue'[t][r] = left
      BY <1>1, <2>1
    <3>2. RestingAt(t, r)' = RestingAt(s, p) \ {id}
      BY <1>2, <2>1
    <3> QED  BY <1>3, <3>1, <3>2
  <2>2. CASE ~(t = s /\ r = p)
    BY <1>1, <1>2, <1>4, <2>2
  <2> QED  BY <2>1, <2>2
<1>6. ASSUME NEW t \in Sides, NEW r \in LevelPrices
      PROVE  IsInjective(queue'[t][r])
  BY <1>1, <1>4
<1> QED  BY <1>5, <1>6 DEF QueuesMatchOrders

\* ... and when one comes to rest in a level.
LEMMA QueuesMore ==
  ASSUME TypeOK, QueuesMatchOrders, NEW id, id \notin LiveIds,
         NEW s \in Sides, NEW p \in LevelPrices,
         NEW longer, ToSet(longer) = ToSet(queue[s][p]) \cup {id}, IsInjective(longer),
         queue' = [queue EXCEPT ![s][p] = longer],
         LiveIds' = LiveIds \cup {id}, order'[id].side = s, order'[id].price = p,
         \A i \in LiveIds : order'[i].side = order[i].side /\ order'[i].price = order[i].price
  PROVE  QueuesMatchOrders'
<1>1. \A t \in Sides, r \in LevelPrices :
          queue'[t][r] = IF t = s /\ r = p THEN longer ELSE queue[t][r]
  BY DEF TypeOK
<1>2. \A t \in Sides, r \in LevelPrices :
          RestingAt(t, r)' = IF t = s /\ r = p THEN RestingAt(t, r) \cup {id}
                                               ELSE RestingAt(t, r)
  <2> TAKE t \in Sides, r \in LevelPrices
  <2>1. RestingAt(t, r)' = {i \in LiveIds' : order'[i].side = t /\ order'[i].price = r}
    BY DEF RestingAt
  <2>2. id \in RestingAt(t, r)' <=> t = s /\ r = p
    BY <2>1
  <2>3. \A i \in LiveIds : i \in RestingAt(t, r)' <=> i \in RestingAt(t, r)
    BY <2>1 DEF RestingAt
  <2>4. RestingAt(t, r) \subseteq LiveIds /\ RestingAt(t, r)' \subseteq LiveIds \cup {id}
    BY <2>1 DEF RestingAt
  <2> QED  BY <2>2, <2>3, <2>4
<1>3. ASSUME NEW t \in Sides, NEW r \in LevelPrices
      PROVE  ToSet(queue'[t][r]) = RestingAt(t, r)' /\ IsInjective(queue'[t][r])
  <2>1. ToSet(queue[t][r]) = RestingAt(t, r) /\ IsInjective(queue[t][r])
    BY DEF QueuesMatchOrders
  <2>2. CASE t = s /\ r = p
    <3>1. queue'[t][r] = longer
      BY <1>1, <2>2
    <3>2. RestingAt(t, r)' = RestingAt(t, r) \cup {id}
      BY <1>2, <2>2
    <3>3. ToSet(longer) = ToSet(queue[t][r]) \cup {id}
      BY <2>2
    <3> QED  BY <2>1, <3>1, <3>2, <3>3
  <2>3. CASE ~(t = s /\ r = p)
    BY <1>1, <1>2, <2>1, <2>3
  <2> QED  BY <2>2, <2>3
<1> QED  BY <1>3 DEF QueuesMatchOrders

-----------------------------------------------------------------------------
(* Commands that are answered without crossing *)

\* What LeaveLevel leaves behind: its level without the order, the index without
\* an emptied level, and types kept.
LEMMA LeaveFacts ==
  ASSUME IInv, pc = "Idle", NEW id \in LiveIds, LeaveLevel(id),
         LiveIds' = LiveIds \ {id},
         \A i \in LiveIds' : order'[i].side = order[i].side /\ order'[i].price = order[i].price
  PROVE  /\ queue' \in [Sides -> [LevelPrices -> Seq(OrderIds)]]
         /\ total' \in [Sides -> [LevelPrices -> Quantity]]
         /\ indexed' \in [Sides -> SUBSET LevelPrices]
         /\ live' \in Int
         /\ QueuesMatchOrders'
         /\ \A s \in Sides, p \in LevelPrices : p \in indexed'[s] <=> queue'[s][p] # <<>>
         /\ \A s \in Sides : indexed'[s] \subseteq indexed[s]
<1> DEFINE s == order[id].side
           p == order[id].price
           q == queue[s][p]
           left == RemoveAt(q, PlaceIn(q, id))
<1>1. /\ order[id] \in Order /\ s \in Sides /\ p \in LevelPrices
      /\ q \in Seq(OrderIds) /\ IsInjective(q)
      /\ PlaceIn(q, id) \in 1 .. Len(q) /\ q[PlaceIn(q, id)] = id
  BY PlaceFacts DEF IInv, Order
<1>2. left \in Seq(OrderIds) /\ ToSet(left) = ToSet(q) \ {id} /\ IsInjective(left)
  <2> DEFINE i == PlaceIn(q, id)
  <2>1. i \in 1 .. Len(q) /\ q[i] = id
    BY <1>1
  <2> HIDE DEF i, q
  <2>2. /\ RemoveAt(q, i) \in Seq(OrderIds)
        /\ ToSet(RemoveAt(q, i)) = ToSet(q) \ {id}
        /\ IsInjective(RemoveAt(q, i))
    BY <1>1, <2>1, RemoveAtSet
  <2> QED  BY <2>2 DEF i
<1>3. /\ queue' = [queue EXCEPT ![s][p] = left]
      /\ total' = [total EXCEPT ![s][p] = (@ - order[id].qty) % QtyMod]
      /\ indexed' = [indexed EXCEPT ![s] = IF left = <<>> THEN @ \ {p} ELSE @]
      /\ live' = live - 1
  BY DEF LeaveLevel
<1> HIDE DEF left, s, p, q
<1>4. queue' \in [Sides -> [LevelPrices -> Seq(OrderIds)]]
  BY <1>1, <1>2, <1>3 DEF IInv, TypeOK
<1>5. total' \in [Sides -> [LevelPrices -> Quantity]]
  <2>1. total[s][p] \in Int /\ order[id].qty \in Int
    BY <1>1 DEF IInv, TypeOK, Order, Quantity
  <2>2. (total[s][p] - order[id].qty) % QtyMod \in Quantity
    BY <2>1, ModRange, QtyModAssumption DEF Quantity
  <2> QED  BY <1>1, <1>3, <2>2 DEF IInv, TypeOK
<1>6. indexed' \in [Sides -> SUBSET LevelPrices] /\ live' \in Int
  BY <1>1, <1>3 DEF IInv, TypeOK
<1>7. QueuesMatchOrders'
  BY <1>1, <1>2, <1>3, QueuesLess DEF IInv, s, p, q
<1>8. ASSUME NEW t \in Sides, NEW r \in LevelPrices
      PROVE  r \in indexed'[t] <=> queue'[t][r] # <<>>
  <2>1. r \in indexed[t] <=> queue[t][r] # <<>>
    BY DEF IInv, IndexMatchesLevels
  <2>2. CASE t = s /\ r = p
    <3>1. queue'[t][r] = left
      BY <1>1, <1>3, <2>2 DEF IInv, TypeOK
    <3>2. q # <<>> /\ p \in indexed[s]
      BY <1>1, <2>1, <2>2 DEF q
    <3> QED  BY <1>1, <1>3, <2>2, <3>1, <3>2 DEF IInv, TypeOK
  <2>3. CASE ~(t = s /\ r = p)
    BY <1>1, <1>3, <2>1, <2>3 DEF IInv, TypeOK
  <2> QED  BY <2>2, <2>3
<1>9. \A t \in Sides : indexed'[t] \subseteq indexed[t]
  BY <1>1, <1>3 DEF IInv, TypeOK
<1> QED  BY <1>4, <1>5, <1>6, <1>7, <1>8, <1>9

\* The event number stays in its range, and the events have their types.
LEMMA EmitFacts ==
  ASSUME TypeOK, NEW e, e \in Events, Emit(e)
  PROVE  seq' \in 0 .. (SeqRange - 1) /\ ev' \in Events \cup {NoEvent}
<1>1. seq + 1 \in Int
  BY SeqRangeAssumption DEF TypeOK
<1>2. (seq + 1) % SeqRange \in 0 .. (SeqRange - 1)
  BY <1>1, ModRange, SeqRangeAssumption
<1> QED  BY <1>2 DEF Emit

\* A command that is refused leaves the book as it is.
LEMMA RejectInv ==
  ASSUME IInv, pc = "Idle", NEW id \in OrderIds, NEW reason \in RejectReasons,
         Reject(id, reason)
  PROVE  IInv'
<1>1. Rejected(id, reason) \in Events /\ Emit(Rejected(id, reason))
  BY DEF Rejected, Events, Reject
<1>2. UNCHANGED <<order, queue, total, indexed, live, pc, taker>>
  BY DEF Reject, bookVars
<1>3. TypeOK'
  BY <1>1, <1>2, EmitFacts DEF IInv, TypeOK, Mapped
<1>4. QueuesMatchOrders'
  BY <1>2 DEF IInv, QueuesMatchOrders, RestingAt, LiveIds, Mapped
<1>5. IdsReserved' /\ IndexMatchesLevels' /\ NoCross' /\ CrossState'
  BY <1>2 DEF IInv, IdsReserved, IndexMatchesLevels, NoCross, CrossState, LiveIds, Mapped,
              Reserved, opp, level, NothingMarketable
<1> QED  BY <1>3, <1>4, <1>5 DEF IInv

\* A command whose crossing begins: the book is still as it was.
LEMMA NewBeginInv ==
  ASSUME IInv, pc = "Idle", NEW c \in Commands, c.kind = "New", NewOrder(c), NewRefusal(c) = "None"
  PROVE  IInv'
<1>1. /\ pc' = "Cross" /\ UNCHANGED <<order, queue, total, indexed, live, ev, seq>>
      /\ taker' = [op |-> "New", id |-> c.id, side |-> c.side,
                   bounded |-> (c.otype = "Limit"), bound |-> c.price,
                   remaining |-> c.qty, tif |-> c.tif, at |-> c.price]
  BY DEF NewOrder, BeginCross, Silent, bookVars
<1>2. /\ c.id \in OrderIds /\ c.side \in Sides /\ c.price \in Prices \cup {0}
      /\ c.qty \in Qtys /\ c.tif \in Tifs
      /\ c.otype = "Limit" => c.price \in Prices
      /\ c.tif = "PostOnly" => c.otype = "Limit"
  BY DEF Commands, Tifs
<1>3. /\ c.qty # 0 /\ c.id \notin Mapped
      /\ c.otype = "Limit" => PriceOk(c.price)
      /\ c.otype = "Limit" /\ c.tif = "PostOnly" => ~WouldCross(c.side, c.price)
  BY DEF NewRefusal
<1>4. c.qty \in Quantity /\ c.qty > 0
  BY <1>2, <1>3, QtyFacts
<1>5. TypeOK'
  BY <1>1, <1>2, <1>4 DEF IInv, TypeOK, Mapped, Taker
<1>6. QueuesMatchOrders'
  BY <1>1 DEF IInv, QueuesMatchOrders, RestingAt, LiveIds, Mapped
<1>7. IdsReserved'
  BY <1>1, <1>3 DEF IInv, IdsReserved, LiveIds, Mapped, Reserved
<1>8. IndexMatchesLevels' /\ NoCross'
  BY <1>1 DEF IInv, IndexMatchesLevels, NoCross
<1>9. CrossState'
  <2>1. c.otype = "Limit" => c.price \in LevelPrices
    BY <1>2, <1>3 DEF LevelPrices
  <2>2. c.tif = "PostOnly" =>
            \A p \in indexed[Opposite(c.side)] : ~Marketable(c.side, c.price, p)
    <3> SUFFICES ASSUME c.tif = "PostOnly"
                 PROVE  \A p \in indexed[Opposite(c.side)] : ~Marketable(c.side, c.price, p)
      OBVIOUS
    <3>1. c.price \in Int
      BY <1>2, PricesAssumption
    <3>2. indexed[Opposite(c.side)] # {} =>
              ~Marketable(c.side, c.price, BestPrice(Opposite(c.side)))
      BY <1>2, <1>3 DEF WouldCross
    <3> QED  BY <1>2, <3>1, <3>2, NotMarketable DEF IInv
  <2> QED
    BY <1>1, <1>2, <1>4, <2>1, <2>2 DEF CrossState, NothingMarketable, opp
<1> QED  BY <1>5, <1>6, <1>7, <1>8, <1>9 DEF IInv

\* Between commands no id is reserved: whatever is mapped is alive.
LEMMA IdleFacts ==
  ASSUME IInv, pc = "Idle"
  PROVE  Mapped = LiveIds /\ \A i \in Mapped : order[i] \in Order /\ i \in OrderIds
  BY DEF IInv, IdsReserved, Reserved, LiveIds, TypeOK, Mapped

\* A cancelled order leaves the book and the map.
LEMMA CancelInv ==
  ASSUME IInv, pc = "Idle", NEW id \in Mapped,
         LeaveLevel(id), order' = MapRemove(id), Emit(Closed(id, "Cancelled")),
         UNCHANGED <<pc, taker>>
  PROVE  IInv'
<1>1. id \in LiveIds /\ id \in OrderIds /\ Mapped = LiveIds
  BY IdleFacts
<1>2. Mapped' = Mapped \ {id} /\ \A i \in Mapped' : order'[i] = order[i]
  BY DEF MapRemove, Mapped
<1>3. LiveIds' = LiveIds \ {id}
  BY <1>1, <1>2 DEF LiveIds
<1>4. \A i \in LiveIds' : order'[i].side = order[i].side /\ order'[i].price = order[i].price
  BY <1>1, <1>2, <1>3
<1>5. /\ queue' \in [Sides -> [LevelPrices -> Seq(OrderIds)]]
      /\ total' \in [Sides -> [LevelPrices -> Quantity]]
      /\ indexed' \in [Sides -> SUBSET LevelPrices]
      /\ live' \in Int
      /\ QueuesMatchOrders'
      /\ \A s \in Sides, p \in LevelPrices : p \in indexed'[s] <=> queue'[s][p] # <<>>
      /\ \A s \in Sides : indexed'[s] \subseteq indexed[s]
  BY <1>1, <1>3, <1>4, LeaveFacts
<1>6. Closed(id, "Cancelled") \in Events
  BY <1>1 DEF Closed, Events, CloseReasons
<1>7. TypeOK'
  <2>1. Mapped' \subseteq OrderIds /\ order' \in [Mapped' -> Order]
    BY <1>2 DEF IInv, TypeOK, MapRemove, Mapped
  <2>2. seq' \in 0 .. (SeqRange - 1) /\ ev' \in Events \cup {NoEvent}
    BY <1>6, EmitFacts DEF IInv
  <2> QED  BY <1>5, <2>1, <2>2 DEF IInv, TypeOK
<1>8. IdsReserved'
  BY <1>1, <1>2, <1>3 DEF IInv, IdsReserved, Reserved
<1>9. IndexMatchesLevels' /\ NoCross' /\ CrossState'
  BY <1>5 DEF IInv, IndexMatchesLevels, NoCross, CrossState, Sides
<1> QED  BY <1>5, <1>7, <1>8, <1>9 DEF IInv

\* A replacement that keeps its place changes a quantity and a total.
LEMMA ReplaceInPlaceInv ==
  ASSUME IInv, pc = "Idle", NEW c \in Commands, c.kind = "Replace",
         ReplaceRefusal(c) = "None", KeepsPriority(c), ReplaceInPlace(c)
  PROVE  IInv'
<1>1. c.id \in Mapped /\ c.qty # 0 /\ c.price = order[c.id].price
  BY DEF ReplaceRefusal, KeepsPriority
<1>2. c.qty \in Qtys /\ c.id \in OrderIds
  BY DEF Commands
<1>3. c.qty \in Quantity /\ c.qty > 0
  BY <1>1, <1>2, QtyFacts
<1>4. Mapped = LiveIds /\ order[c.id] \in Order /\ c.price \in LevelPrices
  BY <1>1, IdleFacts DEF Order
<1> DEFINE o == order[c.id]
<1>5. /\ order' = [order EXCEPT ![c.id].qty = c.qty]
      /\ total' = [total EXCEPT ![o.side][o.price] = (@ - (o.qty - c.qty)) % QtyMod]
      /\ Emit(Replaced(c.id, c.price, c.qty))
      /\ UNCHANGED <<queue, indexed, live, pc, taker>>
  BY DEF ReplaceInPlace
<1>6. /\ Mapped' = Mapped
      /\ \A i \in Mapped : order'[i] = IF i = c.id THEN [order[i] EXCEPT !.qty = c.qty]
                                                   ELSE order[i]
  BY <1>1, <1>5 DEF Mapped, IInv, TypeOK
<1>7. order' \in [Mapped' -> Order]
  <2>1. [order[c.id] EXCEPT !.qty = c.qty] \in Order
    BY <1>3, <1>4 DEF Order
  <2>2. \A i \in Mapped : order'[i] \in Order
    BY <1>6, <2>1 DEF IInv, TypeOK
  <2>3. order' = [i \in Mapped' |-> order'[i]]
    BY <1>5 DEF IInv, TypeOK, Mapped
  <2> QED  BY <1>6, <2>2, <2>3
<1>8. /\ LiveIds' = LiveIds
      /\ \A i \in Mapped : order'[i].side = order[i].side /\ order'[i].price = order[i].price
  <2>1. ASSUME NEW i \in Mapped
        PROVE  /\ order'[i].side = order[i].side /\ order'[i].price = order[i].price
               /\ order'[i].qty > 0 <=> order[i].qty > 0
    <3>1. order[i] \in Order /\ order[i].qty > 0
      BY <1>4, IdleFacts DEF LiveIds
    <3> QED  BY <1>3, <1>6, <3>1 DEF Order
  <2> QED  BY <1>6, <2>1 DEF LiveIds
<1>9. TypeOK'
  <2>1. total' \in [Sides -> [LevelPrices -> Quantity]]
    <3>1. o.side \in Sides /\ o.price \in LevelPrices /\ o.qty \in Int /\ c.qty \in Int
      BY <1>3, <1>4 DEF Order, Quantity
    <3>2. total[o.side][o.price] \in Int
      BY <3>1 DEF IInv, TypeOK, Quantity
    <3>3. (total[o.side][o.price] - (o.qty - c.qty)) % QtyMod \in Quantity
      <4> DEFINE left == total[o.side][o.price] - (o.qty - c.qty)
      <4>1. left \in Int
        BY <3>1, <3>2 DEF Quantity
      <4> HIDE DEF left
      <4>2. left % QtyMod \in Quantity
        BY <4>1, ModRange, QtyModAssumption DEF Quantity
      <4> QED  BY <4>2 DEF left
    <3> HIDE DEF o
    <3> QED  BY <1>5, <3>1, <3>3 DEF IInv, TypeOK
  <2>2. Replaced(c.id, c.price, c.qty) \in Events
    BY <1>2, <1>3, <1>4 DEF Replaced, Events
  <2>3. seq' \in 0 .. (SeqRange - 1) /\ ev' \in Events \cup {NoEvent}
    BY <1>5, <2>2, EmitFacts DEF IInv
  <2> QED  BY <1>5, <1>6, <1>7, <2>1, <2>3 DEF IInv, TypeOK
<1>10. QueuesMatchOrders'
  BY <1>4, <1>5, <1>8, QueuesSame DEF IInv
<1>11. IdsReserved'
  BY <1>5, <1>6, <1>8 DEF IInv, IdsReserved, Reserved
<1>12. IndexMatchesLevels' /\ NoCross' /\ CrossState'
  BY <1>5 DEF IInv, IndexMatchesLevels, NoCross, CrossState
<1> QED  BY <1>9, <1>10, <1>11, <1>12 DEF IInv

\* Any other replacement leaves its level and keeps its id.
LEMMA ReplaceAndCrossInv ==
  ASSUME IInv, pc = "Idle", NEW c \in Commands, c.kind = "Replace",
         ReplaceRefusal(c) = "None", ReplaceAndCross(c)
  PROVE  IInv'
<1>1. c.id \in Mapped /\ c.qty # 0 /\ PriceOk(c.price)
  BY DEF ReplaceRefusal
<1>2. c.qty \in Qtys /\ c.id \in OrderIds /\ c.price \in Prices
  BY DEF Commands
<1>3. c.qty \in Quantity /\ c.qty > 0 /\ c.price \in LevelPrices
  BY <1>1, <1>2, QtyFacts DEF LevelPrices
<1>4. Mapped = LiveIds /\ order[c.id] \in Order
  BY <1>1, IdleFacts
<1>5. /\ LeaveLevel(c.id)
      /\ order' = [order EXCEPT ![c.id].qty = 0]
      /\ pc' = "Cross" /\ UNCHANGED <<ev, seq>>
      /\ taker' = [op |-> "Replace", id |-> c.id, side |-> order[c.id].side,
                   bounded |-> TRUE, bound |-> c.price, remaining |-> c.qty,
                   tif |-> order[c.id].tif, at |-> c.price]
  BY DEF ReplaceAndCross, BeginCross, Silent
<1>6. /\ Mapped' = Mapped
      /\ \A i \in Mapped : order'[i] = IF i = c.id THEN [order[i] EXCEPT !.qty = 0]
                                                   ELSE order[i]
  BY <1>1, <1>5 DEF Mapped, IInv, TypeOK
<1>7. order'[c.id] \in Order /\ order'[c.id].qty = 0
  <2>1. order'[c.id] = [order[c.id] EXCEPT !.qty = 0]
    BY <1>1, <1>6
  <2>2. 0 \in Quantity
    BY QtyModAssumption DEF Quantity
  <2> QED  BY <1>4, <2>1, <2>2 DEF Order
<1>8. LiveIds' = LiveIds \ {c.id}
  <2>1. ~(order'[c.id].qty > 0)
    BY <1>7
  <2>2. \A i \in Mapped : i # c.id => order'[i] = order[i]
    BY <1>6
  <2> QED  BY <1>6, <2>1, <2>2 DEF LiveIds
<1>9. \A i \in LiveIds' : order'[i].side = order[i].side /\ order'[i].price = order[i].price
  BY <1>4, <1>6, <1>8
<1>10. /\ queue' \in [Sides -> [LevelPrices -> Seq(OrderIds)]]
       /\ total' \in [Sides -> [LevelPrices -> Quantity]]
       /\ indexed' \in [Sides -> SUBSET LevelPrices]
       /\ live' \in Int
       /\ QueuesMatchOrders'
       /\ \A s \in Sides, p \in LevelPrices : p \in indexed'[s] <=> queue'[s][p] # <<>>
       /\ \A s \in Sides : indexed'[s] \subseteq indexed[s]
  BY <1>1, <1>4, <1>5, <1>8, <1>9, LeaveFacts
<1>11. TypeOK'
  <2>1. Mapped' \subseteq OrderIds /\ order' \in [Mapped' -> Order]
    BY <1>5, <1>6, <1>7 DEF IInv, TypeOK, Mapped
  <2>2. taker' \in Taker
    BY <1>2, <1>3, <1>4, <1>5 DEF Taker, Order
  <2> QED  BY <1>5, <1>10, <2>1, <2>2 DEF IInv, TypeOK
<1>12. IdsReserved'
  BY <1>1, <1>4, <1>5, <1>6, <1>8 DEF IdsReserved, Reserved
<1>13. IndexMatchesLevels' /\ NoCross'
  BY <1>5, <1>10 DEF IInv, IndexMatchesLevels, NoCross, Sides
<1>14. CrossState'
  BY <1>3, <1>5 DEF CrossState
<1> QED  BY <1>10, <1>11, <1>12, <1>13, <1>14 DEF IInv

-----------------------------------------------------------------------------
(* The cross loop *)

\* What is known of the command in flight.
LEMMA TakerFacts ==
  ASSUME IInv, pc # "Idle"
  PROVE  /\ taker \in Taker /\ taker.side \in Sides /\ opp \in Sides
         /\ taker.remaining \in Quantity /\ taker.remaining \in Int
         /\ taker.id \in OrderIds /\ taker.id \notin LiveIds
         /\ taker.op \in {"New", "Replace"}
         /\ taker.bounded => taker.bound \in LevelPrices /\ taker.bound \in Int
<1>1. taker \in Taker
  BY DEF IInv, TypeOK
<1>2. taker.id \notin LiveIds
  BY <1>1 DEF IInv, IdsReserved, Reserved, Taker, LiveIds
<1>3. taker.bounded => taker.bound \in LevelPrices /\ taker.bound \in Int
  BY PricesAssumption DEF IInv, CrossState, LevelPrices
<1> QED  BY <1>1, <1>2, <1>3, QtyModAssumption DEF Taker, opp, Opposite, Sides, Quantity

\* What is known of the order cross trades with.
LEMMA MakerFacts ==
  ASSUME IInv, pc \in {"Trade", "Fill"}
  PROVE  /\ taker.at \in LevelPrices /\ opp \in Sides
         /\ level \in Seq(OrderIds) /\ level # <<>> /\ IsInjective(level)
         /\ maker \in OrderIds /\ maker \in LiveIds /\ maker # taker.id
         /\ order[maker] \in Order
         /\ order[maker].side = opp /\ order[maker].price = taker.at
         /\ order[maker].qty \in Int /\ order[maker].qty > 0
         /\ fillQty \in Quantity /\ fillQty \in Int /\ fillQty > 0
         /\ fillQty <= taker.remaining /\ fillQty <= order[maker].qty
<1>1. pc # "Idle"
  OBVIOUS
<1>2. taker.at \in LevelPrices /\ level # <<>> /\ taker.remaining > 0
  BY <1>1 DEF IInv, CrossState
<1>3. /\ opp \in Sides /\ taker.remaining \in Int /\ taker.id \notin LiveIds
      /\ taker.remaining \in Quantity
  BY <1>1, TakerFacts
<1>4. level \in Seq(OrderIds)
  BY <1>2, <1>3 DEF level, IInv, TypeOK
<1>5. ToSet(level) = RestingAt(opp, taker.at) /\ IsInjective(level)
  BY <1>2, <1>3 DEF level, IInv, QueuesMatchOrders
<1>6. maker \in OrderIds /\ maker \in RestingAt(opp, taker.at)
  BY <1>2, <1>4, <1>5, TailSet DEF maker
<1>7. maker \in LiveIds /\ order[maker].side = opp /\ order[maker].price = taker.at
  BY <1>6 DEF RestingAt
<1>8. order[maker] \in Order /\ order[maker].qty > 0
  BY <1>7 DEF IInv, TypeOK, LiveIds, Mapped
<1>9. order[maker].qty \in Quantity /\ order[maker].qty \in Int
  BY <1>8, QtyModAssumption DEF Order, Quantity
<1>10. /\ fillQty \in Quantity /\ fillQty \in Int /\ fillQty > 0
       /\ fillQty <= taker.remaining /\ fillQty <= order[maker].qty
  <2>1. CASE taker.remaining <= order[maker].qty
    BY <1>2, <1>3, <2>1 DEF fillQty
  <2>2. CASE ~(taker.remaining <= order[maker].qty)
    BY <1>3, <1>8, <1>9, <2>2 DEF fillQty
  <2> QED  BY <2>1, <2>2
<1> QED  BY <1>2, <1>3, <1>4, <1>5, <1>6, <1>7, <1>8, <1>9, <1>10

\* The top of the loop chooses the best level or finds nothing marketable.
LEMMA CrossInv == IInv /\ Cross => IInv'
<1> SUFFICES ASSUME IInv, Cross PROVE IInv'
  OBVIOUS
<1>1. pc = "Cross" /\ pc' \in {"Trade", "Finish"}
      /\ UNCHANGED <<order, queue, total, indexed, live, ev, seq>>
  BY DEF Cross, Silent, bookVars
<1>2. /\ taker \in Taker /\ taker.side \in Sides /\ opp \in Sides
      /\ taker.bounded => taker.bound \in LevelPrices /\ taker.bound \in Int
  BY <1>1, TakerFacts
<1>3. taker' = taker \/ (CanTrade /\ taker' = [taker EXCEPT !.at = BestPrice(opp)])
  BY DEF Cross
<1>4. CanTrade => BestPrice(opp) \in LevelPrices /\ BestPrice(opp) \in indexed[opp]
  BY <1>2, BestPriceFacts DEF CanTrade, IInv
<1>5. taker' \in Taker /\ opp' = opp /\ taker'.op = taker.op /\ taker'.id = taker.id
      /\ taker'.bounded = taker.bounded /\ taker'.bound = taker.bound
      /\ taker'.side = taker.side /\ taker'.remaining = taker.remaining
      /\ taker'.tif = taker.tif
  BY <1>2, <1>3, <1>4 DEF Taker, opp, LevelPrices
<1>6. TypeOK'
  BY <1>1, <1>5 DEF IInv, TypeOK, Mapped
<1>7. QueuesMatchOrders'
  BY <1>1 DEF IInv, QueuesMatchOrders, RestingAt, LiveIds, Mapped
<1>8. IdsReserved'
  BY <1>1, <1>5 DEF IInv, IdsReserved, LiveIds, Mapped, Reserved
<1>9. IndexMatchesLevels' /\ NoCross'
  BY <1>1 DEF IInv, IndexMatchesLevels, NoCross
<1>10. CASE CanTrade /\ pc' = "Trade" /\ taker' = [taker EXCEPT !.at = BestPrice(opp)]
  <2>1. taker'.at = BestPrice(opp) /\ level' = queue[opp][BestPrice(opp)]
    BY <1>1, <1>2, <1>5, <1>10 DEF level, Taker
  <2>2. level' # <<>> /\ taker'.at \in LevelPrices
    BY <1>4, <1>10, <2>1 DEF CanTrade
  <2>3. ~(taker.op = "New" /\ taker.tif = "PostOnly")
    BY <1>1, <1>4, <1>10 DEF IInv, CrossState, CanTrade, NothingMarketable
  <2>4. CrossState'
    BY <1>1, <1>5, <1>10, <2>2, <2>3 DEF IInv, CrossState
  <2> QED  BY <1>6, <1>7, <1>8, <1>9, <2>4 DEF IInv
<1>11. CASE ~CanTrade /\ pc' = "Finish" /\ taker' = taker
  <2>1. taker.bounded => NothingMarketable
    <3> SUFFICES ASSUME taker.bounded PROVE NothingMarketable
      OBVIOUS
    <3>1. ASSUME indexed[opp] # {}
          PROVE  ~Marketable(taker.side, taker.bound, BestPrice(opp))
      <4>1. BestPrice(opp) \in indexed[opp] /\ BestPrice(opp) \in LevelPrices
        BY <1>2, <3>1, BestPriceFacts DEF IInv
      <4>2. queue[opp][BestPrice(opp)] # <<>>
        BY <1>1, <1>2, <4>1 DEF IInv, IndexMatchesLevels
      <4> QED  BY <1>11, <3>1, <4>2 DEF CanTrade
    <3> QED  BY <1>2, <3>1, NotMarketable DEF NothingMarketable, opp, IInv
  <2>2. NothingMarketable' <=> NothingMarketable
    BY <1>1, <1>11 DEF NothingMarketable, opp
  <2>3. CrossState'
    BY <1>1, <1>11, <2>1, <2>2 DEF IInv, CrossState
  <2> QED  BY <1>6, <1>7, <1>8, <1>9, <2>3 DEF IInv
<1> QED  BY <1>10, <1>11 DEF Cross

\* The trade is announced: the book does not change.
LEMMA TradeInv == IInv /\ Trade => IInv'
<1> SUFFICES ASSUME IInv, Trade PROVE IInv'
  OBVIOUS
<1>1. /\ pc = "Trade" /\ pc' = "Fill"
      /\ UNCHANGED <<order, queue, total, indexed, live, taker>>
      /\ Emit(TradeOf(maker, taker.id, taker.at, fillQty))
  BY DEF Trade, bookVars
<1>2. TradeOf(maker, taker.id, taker.at, fillQty) \in Events
  BY <1>1, MakerFacts, TakerFacts DEF TradeOf, Events
<1>3. TypeOK'
  BY <1>1, <1>2, EmitFacts DEF IInv, TypeOK, Mapped
<1>4. QueuesMatchOrders' /\ IdsReserved'
  BY <1>1 DEF IInv, QueuesMatchOrders, RestingAt, IdsReserved, Reserved, LiveIds, Mapped
<1>5. IndexMatchesLevels' /\ NoCross'
  BY <1>1 DEF IInv, IndexMatchesLevels, NoCross
<1>6. CrossState'
  BY <1>1 DEF IInv, CrossState, level, opp, NothingMarketable
<1> QED  BY <1>3, <1>4, <1>5, <1>6 DEF IInv

\* The fill: the maker is reduced, or leaves its level and the map.
LEMMA FillInv == IInv /\ Fill => IInv'
<1> SUFFICES ASSUME IInv, Fill PROVE IInv'
  OBVIOUS
<1> DEFINE left == Tail(level)
<1>1. /\ pc = "Fill" /\ indexed' = indexed
      /\ taker' = [taker EXCEPT !.remaining = @ - fillQty]
      /\ total' = [total EXCEPT ![opp][taker.at] = (@ - fillQty) % QtyMod]
      /\ pc' = IF taker'.remaining = 0 \/ queue'[opp][taker.at] = <<>>
               THEN "Unlink" ELSE "Trade"
  BY DEF Fill
<1>2. /\ taker.at \in LevelPrices /\ opp \in Sides
      /\ level \in Seq(OrderIds) /\ level # <<>> /\ IsInjective(level)
      /\ maker \in OrderIds /\ maker \in LiveIds /\ maker # taker.id
      /\ order[maker] \in Order
      /\ order[maker].side = opp /\ order[maker].price = taker.at
      /\ order[maker].qty \in Int /\ order[maker].qty > 0
      /\ fillQty \in Quantity /\ fillQty \in Int /\ fillQty > 0
      /\ fillQty <= taker.remaining /\ fillQty <= order[maker].qty
  BY <1>1, MakerFacts
<1>3. taker \in Taker /\ taker.remaining \in Quantity /\ taker.remaining \in Int
  BY <1>1, TakerFacts
<1>4. taker.remaining - fillQty \in Quantity
  BY <1>2, <1>3, QtyModAssumption DEF Quantity
<1>5. /\ taker' \in Taker /\ opp' = opp /\ taker'.at = taker.at
      /\ taker'.op = taker.op /\ taker'.id = taker.id /\ taker'.side = taker.side
      /\ taker'.bounded = taker.bounded /\ taker'.bound = taker.bound
      /\ taker'.tif = taker.tif /\ taker'.remaining = taker.remaining - fillQty
  BY <1>1, <1>3, <1>4 DEF Taker, opp
<1>6. total' \in [Sides -> [LevelPrices -> Quantity]]
  <2>1. total[opp][taker.at] \in Int
    BY <1>2 DEF IInv, TypeOK, Quantity
  <2>2. (total[opp][taker.at] - fillQty) % QtyMod \in Quantity
    BY <1>2, <2>1, ModRange, QtyModAssumption DEF Quantity
  <2> QED  BY <1>1, <1>2, <2>2 DEF IInv, TypeOK
<1>7. ~(taker.op = "New" /\ taker.tif = "PostOnly")
  BY <1>1 DEF IInv, CrossState
<1>8. ASSUME queue' \in [Sides -> [LevelPrices -> Seq(OrderIds)]],
             \A s \in Sides, p \in LevelPrices :
                 ~(s = opp /\ p = taker.at) => queue'[s][p] = queue[s][p]
      PROVE  IndexMatchesLevels' /\ NoCross' /\ CrossState'
  <2>1. level' = queue'[opp][taker.at]
    BY <1>5 DEF level
  <2>2. pc' = "Unlink" \/ (pc' = "Trade" /\ taker'.remaining # 0 /\ level' # <<>>)
    BY <1>1, <2>1
  <2>3. pc' = "Unlink" => taker'.remaining = 0 \/ level' = <<>>
    BY <1>1, <2>1
  <2>4. taker'.remaining # 0 => taker'.remaining > 0
    BY <1>4, <1>5, QtyModAssumption DEF Quantity
  <2>5. CrossState'
    BY <1>1, <1>2, <1>5, <1>7, <2>2, <2>3, <2>4 DEF IInv, CrossState
  <2>6. IndexMatchesLevels'
    <3> SUFFICES ASSUME NEW s \in Sides, NEW p \in LevelPrices
                 PROVE  p \in indexed'[s] <=> \/ queue'[s][p] # <<>>
                                              \/ pc' = "Unlink" /\ s = opp' /\ p = taker'.at
      BY DEF IndexMatchesLevels
    <3>1. p \in indexed[s] <=> queue[s][p] # <<>>
      BY <1>1 DEF IInv, IndexMatchesLevels
    <3>2. CASE s = opp /\ p = taker.at
      <4>1. p \in indexed[s]
        BY <1>2, <3>1, <3>2 DEF level
      <4>2. queue'[s][p] # <<>> \/ pc' = "Unlink"
        BY <2>1, <2>2, <3>2
      <4> QED  BY <1>1, <1>5, <3>2, <4>1, <4>2
    <3>3. CASE ~(s = opp /\ p = taker.at)
      BY <1>1, <1>5, <1>8, <3>1, <3>3
    <3> QED  BY <3>2, <3>3
  <2> QED  BY <1>1, <2>5, <2>6 DEF IInv, NoCross
<1>9. CASE order[maker].qty = fillQty
  <2>1. /\ queue' = [queue EXCEPT ![opp][taker.at] = left]
        /\ order' = MapRemove(maker) /\ live' = live - 1
        /\ Emit(Closed(maker, "Filled"))
    BY <1>2, <1>9 DEF Fill, level, IInv, TypeOK
  <2>2. left \in Seq(OrderIds) /\ ToSet(left) = ToSet(level) \ {maker} /\ IsInjective(left)
    BY <1>2, TailSet DEF maker
  <2>3. Mapped' = Mapped \ {maker} /\ \A i \in Mapped' : order'[i] = order[i]
    BY <2>1 DEF MapRemove, Mapped
  <2>4. LiveIds' = LiveIds \ {maker}
    BY <2>3 DEF LiveIds
  <2> HIDE DEF left
  <2>5. QueuesMatchOrders'
    <3>1. \A i \in LiveIds' : order'[i].side = order[i].side /\ order'[i].price = order[i].price
      BY <2>3, <2>4 DEF LiveIds
    <3> QED  BY <1>2, <2>1, <2>2, <2>4, <3>1, QueuesLess DEF IInv, level
  <2>6. /\ queue' \in [Sides -> [LevelPrices -> Seq(OrderIds)]]
        /\ \A s \in Sides, p \in LevelPrices :
               ~(s = opp /\ p = taker.at) => queue'[s][p] = queue[s][p]
    BY <1>2, <2>1, <2>2 DEF IInv, TypeOK
  <2>7. TypeOK'
    <3>1. Mapped' \subseteq OrderIds /\ order' \in [Mapped' -> Order]
      BY <2>1, <2>3 DEF IInv, TypeOK, MapRemove, Mapped
    <3>2. Closed(maker, "Filled") \in Events
      BY <1>2 DEF Closed, Events, CloseReasons
    <3>3. seq' \in 0 .. (SeqRange - 1) /\ ev' \in Events \cup {NoEvent}
      BY <2>1, <3>2, EmitFacts DEF IInv
    <3>4. live' \in Int
      BY <2>1 DEF IInv, TypeOK
    <3> QED  BY <1>1, <1>5, <1>6, <2>6, <3>1, <3>3, <3>4 DEF IInv, TypeOK
  <2>8. IdsReserved'
    BY <1>1, <1>2, <1>5, <2>3, <2>4 DEF IInv, IdsReserved, Reserved
  <2> QED  BY <1>8, <2>5, <2>6, <2>7, <2>8 DEF IInv
<1>10. CASE order[maker].qty # fillQty
  <2>1. /\ order' = [order EXCEPT ![maker].qty = @ - fillQty]
        /\ UNCHANGED <<queue, live, ev, seq>>
    BY <1>10 DEF Fill, Silent
  <2>2. /\ Mapped' = Mapped
        /\ \A i \in Mapped : order'[i] = IF i = maker
                                         THEN [order[i] EXCEPT !.qty = @ - fillQty]
                                         ELSE order[i]
    BY <1>2, <2>1 DEF Mapped, IInv, TypeOK
  <2>3. order[maker].qty - fillQty \in Quantity /\ order[maker].qty - fillQty > 0
    <3>1. order[maker].qty \in Quantity
      BY <1>2 DEF Order
    <3> QED  BY <1>2, <1>10, <3>1, QtyModAssumption DEF Quantity
  <2>4. maker \in Mapped
    BY <1>2 DEF LiveIds
  <2>5. /\ order'[maker] \in Order /\ order'[maker].qty > 0
        /\ order'[maker].side = order[maker].side /\ order'[maker].price = order[maker].price
    BY <1>2, <2>2, <2>3, <2>4 DEF Order
  <2>6. LiveIds' = LiveIds
    BY <1>2, <2>2, <2>5 DEF LiveIds
  <2>7. QueuesMatchOrders'
    <3>1. \A i \in LiveIds : order'[i].side = order[i].side /\ order'[i].price = order[i].price
      BY <2>2, <2>5 DEF LiveIds
    <3> QED  BY <2>1, <2>6, <3>1, QueuesSame DEF IInv
  <2>8. TypeOK'
    <3>1. \A i \in Mapped : order'[i] \in Order
      BY <2>2, <2>5 DEF IInv, TypeOK
    <3>2. order' = [i \in Mapped' |-> order'[i]]
      BY <2>1 DEF IInv, TypeOK, Mapped
    <3>3. order' \in [Mapped' -> Order]
      BY <2>2, <3>1, <3>2
    <3> QED  BY <1>1, <1>5, <1>6, <2>1, <2>2, <3>3 DEF IInv, TypeOK
  <2>9. IdsReserved'
    BY <1>1, <1>5, <2>2, <2>6 DEF IInv, IdsReserved, Reserved
  <2>10. IndexMatchesLevels' /\ NoCross' /\ CrossState'
    BY <1>8, <2>1 DEF IInv, TypeOK
  <2> QED  BY <2>7, <2>8, <2>9, <2>10 DEF IInv
<1> QED  BY <1>9, <1>10

\* The emptied level leaves the index, and the loop goes on or ends.
LEMMA UnlinkInv == IInv /\ Unlink => IInv'
<1> SUFFICES ASSUME IInv, Unlink PROVE IInv'
  OBVIOUS
<1>1. /\ pc = "Unlink" /\ pc' = IF taker.remaining = 0 THEN "Finish" ELSE "Cross"
      /\ indexed' = [indexed EXCEPT ![opp] = IF level = <<>> THEN @ \ {taker.at} ELSE @]
      /\ UNCHANGED <<order, queue, total, live, taker, ev, seq>>
  BY DEF Unlink, Silent
<1>2. /\ opp \in Sides /\ taker.at \in LevelPrices /\ taker.remaining \in Quantity
      /\ ~(taker.op = "New" /\ taker.tif = "PostOnly")
  BY <1>1, TakerFacts DEF IInv, CrossState
<1>3. /\ indexed' \in [Sides -> SUBSET LevelPrices]
      /\ \A s \in Sides : indexed'[s] \subseteq indexed[s]
  BY <1>1, <1>2 DEF IInv, TypeOK
<1>4. TypeOK'
  BY <1>1, <1>3 DEF IInv, TypeOK, Mapped
<1>5. QueuesMatchOrders' /\ IdsReserved'
  BY <1>1 DEF IInv, QueuesMatchOrders, RestingAt, IdsReserved, Reserved, LiveIds, Mapped
<1>6. IndexMatchesLevels'
  <2> SUFFICES ASSUME NEW s \in Sides, NEW p \in LevelPrices
               PROVE  p \in indexed'[s] <=> queue[s][p] # <<>>
    BY <1>1 DEF IndexMatchesLevels
  <2>1. p \in indexed[s] <=> queue[s][p] # <<>> \/ (s = opp /\ p = taker.at)
    BY <1>1 DEF IInv, IndexMatchesLevels
  <2>2. CASE s = opp /\ p = taker.at
    BY <1>1, <1>2, <2>1, <2>2 DEF level, IInv, TypeOK
  <2>3. CASE ~(s = opp /\ p = taker.at)
    BY <1>1, <1>2, <2>1, <2>3 DEF IInv, TypeOK
  <2> QED  BY <2>2, <2>3
<1>7. NoCross'
  BY <1>3 DEF IInv, NoCross, Sides
<1>8. CrossState'
  <2>1. taker.remaining # 0 => taker.remaining > 0
    BY <1>2, QtyModAssumption DEF Quantity
  <2>2. taker.remaining = 0 => ~(taker.remaining > 0)
    OBVIOUS
  <2> QED  BY <1>1, <1>2, <2>1, <2>2 DEF IInv, CrossState
<1> QED  BY <1>4, <1>5, <1>6, <1>7, <1>8 DEF IInv

-----------------------------------------------------------------------------
(* The end of a command *)

\* A filled taker leaves no trace: a replaced order's id is freed.
LEMMA FinishFilledInv ==
  ASSUME IInv, pc = "Finish", pc' = "Idle", taker' = NoTaker, FinishFilled
  PROVE  IInv'
<1>1. /\ order' = IF taker.op = "Replace" THEN MapRemove(taker.id) ELSE order
      /\ UNCHANGED <<queue, total, indexed, live>>
      /\ Emit(Closed(taker.id, "Filled"))
  BY DEF FinishFilled
<1>2. taker.id \in OrderIds /\ taker.id \notin LiveIds /\ taker.op \in {"New", "Replace"}
  BY TakerFacts
<1>3. Mapped' = LiveIds
  <2>1. Mapped \ LiveIds = IF taker.op = "Replace" THEN {taker.id} ELSE {}
    BY DEF IInv, IdsReserved, Reserved
  <2>2. LiveIds \subseteq Mapped
    BY DEF LiveIds
  <2>3. Mapped' = IF taker.op = "Replace" THEN Mapped \ {taker.id} ELSE Mapped
    BY <1>1 DEF MapRemove, Mapped
  <2> QED  BY <1>2, <2>1, <2>2, <2>3
<1>4. \A i \in LiveIds : order'[i] = order[i]
  BY <1>1, <1>2 DEF MapRemove, LiveIds, Mapped
<1>5. LiveIds' = LiveIds
  BY <1>3, <1>4 DEF LiveIds
<1>6. TypeOK'
  <2>1. Mapped' \subseteq OrderIds /\ order' \in [Mapped' -> Order]
    BY <1>1, <1>3 DEF IInv, TypeOK, LiveIds, MapRemove, Mapped
  <2>2. Closed(taker.id, "Filled") \in Events
    BY <1>2 DEF Closed, Events, CloseReasons
  <2>3. seq' \in 0 .. (SeqRange - 1) /\ ev' \in Events \cup {NoEvent}
    BY <1>1, <2>2, EmitFacts DEF IInv
  <2> QED  BY <1>1, <2>1, <2>3 DEF IInv, TypeOK
<1>7. QueuesMatchOrders'
  BY <1>1, <1>4, <1>5, QueuesSame DEF IInv
<1>8. IdsReserved'
  BY <1>3, <1>5 DEF IdsReserved, Reserved
<1>9. IndexMatchesLevels' /\ NoCross' /\ CrossState'
  BY <1>1 DEF IInv, IndexMatchesLevels, NoCross, CrossState
<1> QED  BY <1>6, <1>7, <1>8, <1>9 DEF IInv

\* A remainder comes to rest at its limit, below or above all of the other side.
LEMMA FinishRestingInv ==
  ASSUME IInv, pc = "Finish", pc' = "Idle", taker' = NoTaker, FinishResting
  PROVE  IInv'
<1> DEFINE id == taker.id
           s == taker.side
           p == taker.bound
           longer == Append(queue[s][p], id)
<1>1. /\ taker.remaining # 0
      /\ queue' = [queue EXCEPT ![s][p] = Append(@, id)]
      /\ total' = [total EXCEPT ![s][p] = (@ + taker.remaining) % QtyMod]
      /\ indexed' = [indexed EXCEPT ![s] = @ \cup {p}]
      /\ live' = live + 1
      /\ order' = MapPut(id, [side |-> s, price |-> p, qty |-> taker.remaining,
                              tif |-> taker.tif])
      /\ Emit(IF taker.op = "New" THEN Accepted(id, taker.remaining)
              ELSE Replaced(id, p, taker.remaining))
  BY DEF FinishResting, Rest
<1>2. taker.bounded
  BY DEF FinishResting, Rests, IInv, CrossState
<1>3. /\ taker \in Taker /\ s \in Sides /\ id \in OrderIds /\ id \notin LiveIds
      /\ p \in LevelPrices /\ p \in Int /\ opp \in Sides
      /\ taker.remaining \in Quantity /\ taker.remaining \in Int /\ taker.tif \in Tifs
      /\ taker.op \in {"New", "Replace"}
  BY <1>2, TakerFacts DEF Taker
<1>4. taker.remaining > 0
  BY <1>1, <1>3, QtyModAssumption DEF Quantity
<1>5. NothingMarketable
  BY <1>2, <1>4 DEF IInv, CrossState
<1>6. queue[s][p] \in Seq(OrderIds)
  BY <1>3 DEF IInv, TypeOK
<1>7. /\ longer \in Seq(OrderIds) /\ longer # <<>>
      /\ ToSet(longer) = ToSet(queue[s][p]) \cup {id} /\ IsInjective(longer)
  <2>1. ToSet(queue[s][p]) \subseteq LiveIds /\ IsInjective(queue[s][p])
    BY <1>3 DEF IInv, QueuesMatchOrders, RestingAt
  <2> QED  BY <1>3, <1>6, <2>1, AppendSet
<1>8. queue' = [queue EXCEPT ![s][p] = longer]
  BY <1>1, <1>3 DEF IInv, TypeOK
<1>9. /\ Mapped' = Mapped \cup {id}
      /\ \A i \in Mapped : i # id => order'[i] = order[i]
      /\ order'[id] = [side |-> s, price |-> p, qty |-> taker.remaining, tif |-> taker.tif]
  BY <1>1 DEF MapPut, Mapped
<1>10. order'[id] \in Order /\ order'[id].side = s /\ order'[id].price = p
       /\ order'[id].qty > 0
  BY <1>3, <1>4, <1>9 DEF Order
<1>11. LiveIds' = LiveIds \cup {id}
  BY <1>3, <1>9, <1>10 DEF LiveIds
<1> HIDE DEF longer
<1>12. QueuesMatchOrders'
  <2>1. \A i \in LiveIds : order'[i].side = order[i].side /\ order'[i].price = order[i].price
    BY <1>3, <1>9 DEF LiveIds
  <2> QED  BY <1>3, <1>7, <1>8, <1>10, <1>11, <2>1, QueuesMore DEF IInv
<1>13. IdsReserved'
  <2>1. Mapped \ LiveIds \subseteq {id}
    BY DEF IInv, IdsReserved, Reserved
  <2>2. LiveIds \subseteq Mapped
    BY DEF LiveIds
  <2> QED  BY <1>9, <1>11, <2>1, <2>2 DEF IdsReserved, Reserved
<1>14. TypeOK'
  <2>1. Mapped' \subseteq OrderIds /\ order' \in [Mapped' -> Order]
    <3>1. \A i \in Mapped' : order'[i] \in Order
      BY <1>9, <1>10 DEF IInv, TypeOK
    <3>2. order' = [i \in Mapped' |-> order'[i]]
      BY <1>1, <1>9 DEF MapPut
    <3>3. Mapped' \subseteq OrderIds
      BY <1>3, <1>9 DEF IInv, TypeOK
    <3> QED  BY <3>1, <3>2, <3>3
  <2>2. queue' \in [Sides -> [LevelPrices -> Seq(OrderIds)]]
    BY <1>3, <1>7, <1>8 DEF IInv, TypeOK
  <2>3. total' \in [Sides -> [LevelPrices -> Quantity]]
    <3>1. total[s][p] \in Int
      BY <1>3 DEF IInv, TypeOK, Quantity
    <3>2. (total[s][p] + taker.remaining) % QtyMod \in Quantity
      BY <1>3, <3>1, ModRange, QtyModAssumption DEF Quantity
    <3> QED  BY <1>1, <1>3, <3>2 DEF IInv, TypeOK
  <2>4. indexed' \in [Sides -> SUBSET LevelPrices] /\ live' \in Int
    BY <1>1, <1>3 DEF IInv, TypeOK
  <2>5. /\ Accepted(id, taker.remaining) \in Events
        /\ Replaced(id, p, taker.remaining) \in Events
    BY <1>3 DEF Accepted, Replaced, Events
  <2>6. seq' \in 0 .. (SeqRange - 1) /\ ev' \in Events \cup {NoEvent}
    BY <1>1, <2>5, EmitFacts DEF IInv
  <2> QED  BY <2>1, <2>2, <2>3, <2>4, <2>6 DEF TypeOK
<1>15. IndexMatchesLevels'
  <2> SUFFICES ASSUME NEW t \in Sides, NEW r \in LevelPrices
               PROVE  r \in indexed'[t] <=> queue'[t][r] # <<>>
    BY DEF IndexMatchesLevels
  <2>1. r \in indexed[t] <=> queue[t][r] # <<>>
    BY DEF IInv, IndexMatchesLevels
  <2>2. CASE t = s /\ r = p
    <3>1. queue'[t][r] = longer
      BY <1>3, <1>8, <2>2 DEF IInv, TypeOK
    <3>2. p \in indexed'[s]
      BY <1>1, <1>3 DEF IInv, TypeOK
    <3> QED  BY <1>7, <2>2, <3>1, <3>2
  <2>3. CASE ~(t = s /\ r = p)
    BY <1>1, <1>3, <1>8, <2>1, <2>3 DEF IInv, TypeOK
  <2> QED  BY <2>2, <2>3
<1>16. NoCross'
  <2>1. \A q \in indexed[opp] : q \in Int /\ ~Marketable(s, p, q)
    BY <1>3, <1>5, PricesAssumption DEF NothingMarketable, IInv, TypeOK, LevelPrices
  <2>2. CASE s = "Bid"
    <3>1. indexed'["Bid"] = indexed["Bid"] \cup {p} /\ indexed'["Ask"] = indexed["Ask"]
      BY <1>1, <2>2 DEF IInv, TypeOK, Sides
    <3>2. opp = "Ask"
      BY <2>2 DEF opp, Opposite
    <3>3. \A a \in indexed["Ask"] : p < a
      BY <1>3, <2>1, <2>2, <3>2 DEF Marketable
    <3> QED  BY <3>1, <3>3 DEF IInv, NoCross
  <2>3. CASE s = "Ask"
    <3>1. indexed'["Ask"] = indexed["Ask"] \cup {p} /\ indexed'["Bid"] = indexed["Bid"]
      BY <1>1, <2>3 DEF IInv, TypeOK, Sides
    <3>2. opp = "Bid"
      BY <2>3 DEF opp, Opposite
    <3>3. \A b \in indexed["Bid"] : b < p
      BY <1>3, <2>1, <2>3, <3>2 DEF Marketable
    <3> QED  BY <3>1, <3>3 DEF IInv, NoCross
  <2> QED  BY <1>3, <2>2, <2>3 DEF Sides
<1>17. CrossState'
  BY DEF CrossState
<1> QED  BY <1>12, <1>13, <1>14, <1>15, <1>16, <1>17 DEF IInv

\* An expired taker leaves the book as cross left it.
LEMMA FinishExpiredInv ==
  ASSUME IInv, pc = "Finish", pc' = "Idle", taker' = NoTaker, FinishExpired
  PROVE  IInv'
<1>1. UNCHANGED <<order, queue, total, indexed, live>>
      /\ Emit(Closed(taker.id, "Expired"))
  BY DEF FinishExpired, bookVars
<1>2. taker.id \in OrderIds /\ taker.op = "New"
  BY TakerFacts DEF FinishExpired, Rests
<1>3. Mapped' = LiveIds' /\ LiveIds' = LiveIds
  BY <1>1, <1>2 DEF IInv, IdsReserved, Reserved, LiveIds, Mapped
<1>4. Closed(taker.id, "Expired") \in Events
  BY <1>2 DEF Closed, Events, CloseReasons
<1>5. TypeOK'
  BY <1>1, <1>4, EmitFacts DEF IInv, TypeOK, Mapped
<1>6. QueuesMatchOrders'
  BY <1>1 DEF IInv, QueuesMatchOrders, RestingAt, LiveIds, Mapped
<1>7. IdsReserved'
  BY <1>3 DEF IdsReserved, Reserved
<1>8. IndexMatchesLevels' /\ NoCross' /\ CrossState'
  BY <1>1 DEF IInv, IndexMatchesLevels, NoCross, CrossState
<1> QED  BY <1>5, <1>6, <1>7, <1>8 DEF IInv

-----------------------------------------------------------------------------
(* The theorems *)

\* A new book satisfies the invariant.
LEMMA InitInv == Init => IInv
<1> SUFFICES ASSUME Init PROVE IInv
  OBVIOUS
<1>1. Mapped = {} /\ LiveIds = {}
  BY DEF Init, Mapped, LiveIds
<1>2. TypeOK
  BY <1>1, QtyModAssumption, SeqRangeAssumption
  DEF Init, TypeOK, Mapped, Sides, LevelPrices, Quantity, NoEvent
<1>3. QueuesMatchOrders
  BY <1>1 DEF Init, QueuesMatchOrders, RestingAt, ToSet, IsInjective, Sides
<1>4. IdsReserved /\ IndexMatchesLevels /\ NoCross /\ CrossState
  BY <1>1 DEF Init, IdsReserved, Reserved, IndexMatchesLevels, NoCross, CrossState, Sides
<1> QED  BY <1>2, <1>3, <1>4 DEF IInv

\* Every command, up to its first call of cross, preserves it.
LEMMA ApplyInv == \A c \in Commands : IInv /\ Apply(c) => IInv'
<1> SUFFICES ASSUME NEW c \in Commands, IInv, Apply(c) PROVE IInv'
  OBVIOUS
<1>1. pc = "Idle" /\ c.id \in OrderIds
  BY DEF Apply, Commands
<1>2. CASE c.kind = "New" /\ NewOrder(c)
  <2>1. CASE NewRefusal(c) # "None" /\ Reject(c.id, NewRefusal(c))
    <3>1. NewRefusal(c) \in RejectReasons
      BY <2>1 DEF NewRefusal, RejectReasons
    <3> QED  BY <1>1, <2>1, <3>1, RejectInv
  <2>2. CASE NewRefusal(c) = "None"
    BY <1>1, <1>2, <2>2, NewBeginInv
  <2> QED  BY <1>2, <2>1, <2>2 DEF NewOrder
<1>3. CASE c.kind = "Cancel" /\ CancelOrder(c.id)
  <2>1. CASE c.id \notin Mapped /\ Reject(c.id, "UnknownOrderId")
    BY <1>1, <2>1, RejectInv DEF RejectReasons
  <2>2. CASE c.id \in Mapped
    BY <1>1, <1>3, <2>2, CancelInv DEF CancelOrder
  <2> QED  BY <1>3, <2>1, <2>2 DEF CancelOrder
<1>4. CASE c.kind = "Replace" /\ ReplaceOrder(c)
  <2>1. CASE ReplaceRefusal(c) # "None" /\ Reject(c.id, ReplaceRefusal(c))
    <3>1. ReplaceRefusal(c) \in RejectReasons
      BY <2>1 DEF ReplaceRefusal, RejectReasons
    <3> QED  BY <1>1, <2>1, <3>1, RejectInv
  <2>2. CASE ReplaceRefusal(c) = "None" /\ KeepsPriority(c) /\ ReplaceInPlace(c)
    BY <1>1, <1>4, <2>2, ReplaceInPlaceInv
  <2>3. CASE ReplaceRefusal(c) = "None" /\ ~KeepsPriority(c) /\ ReplaceAndCross(c)
    BY <1>1, <1>4, <2>3, ReplaceAndCrossInv
  <2> QED  BY <1>4, <2>1, <2>2, <2>3 DEF ReplaceOrder
<1> QED  BY <1>2, <1>3, <1>4 DEF Apply

\* The invariant is inductive.
LEMMA NextInv == IInv /\ [Next]_vars => IInv'
<1> SUFFICES ASSUME IInv, [Next]_vars PROVE IInv'
  OBVIOUS
<1>1. CASE \E c \in Commands : Apply(c)
  BY <1>1, ApplyInv
<1>2. CASE Cross
  BY <1>2, CrossInv
<1>3. CASE Trade
  BY <1>3, TradeInv
<1>4. CASE Fill
  BY <1>4, FillInv
<1>5. CASE Unlink
  BY <1>5, UnlinkInv
<1>6. CASE Finish
  BY <1>6, FinishFilledInv, FinishRestingInv, FinishExpiredInv DEF Finish
<1>7. CASE UNCHANGED vars
  <2>1. UNCHANGED <<order, queue, total, indexed, live, seq, ev, pc, taker>>
    BY <1>7 DEF vars
  <2>2. TypeOK' /\ QueuesMatchOrders' /\ IdsReserved'
    BY <2>1 DEF IInv, TypeOK, QueuesMatchOrders, RestingAt, IdsReserved, Reserved,
                LiveIds, Mapped
  <2>3. IndexMatchesLevels' /\ NoCross' /\ CrossState'
    BY <2>1 DEF IInv, IndexMatchesLevels, NoCross, CrossState, level, opp,
                NothingMarketable
  <2> QED  BY <2>2, <2>3 DEF IInv
<1> QED  BY <1>1, <1>2, <1>3, <1>4, <1>5, <1>6, <1>7 DEF Next, Step

\* Every reachable state of a book, also in the middle of a command, satisfies it.
THEOREM Invariance == Spec => []IInv
<1>1. Init => IInv
  BY InitInv
<1>2. IInv /\ [Next]_vars => IInv'
  BY NextInv
<1> QED  BY <1>1, <1>2, PTL DEF Spec

\* The state of newOrder, cancel, replace and cross is always well typed.
THEOREM TypeCorrect == Spec => []TypeOK
  BY Invariance, PTL DEF IInv

\* No resting bid ever meets a resting ask, at any point a sink can observe.
THEOREM NeverCrossed == Spec => []NoCross
  BY Invariance, PTL DEF IInv

\* The levels hold exactly the orders the order map holds, each once.
THEOREM LevelsAndMapAgree == Spec => []QueuesMatchOrders
  BY Invariance, PTL DEF IInv

\* Both price indexes hold exactly the levels that have orders, but for the level
\* cross is about to unlink.
THEOREM IndexesAgree == Spec => []IndexMatchesLevels
  BY Invariance, PTL DEF IInv

\* The id of the order being replaced stays taken until replace ends.
THEOREM IdsStayReserved == Spec => []IdsReserved
  BY Invariance, PTL DEF IInv

\* cross trades only from levels that have orders and leaves a limit order's
\* remainder only when the other side has nothing within its limit.
THEOREM CrossWalksTheBook == Spec => []CrossState
  BY Invariance, PTL DEF IInv

\* A post-only order that newOrder let through never trades on entry.
THEOREM PostOnlyIsPassive == Spec => []PostOnlyNeverTakes
<1>1. IInv => PostOnlyNeverTakes
  BY DEF IInv, CrossState, PostOnlyNeverTakes
<1> QED  BY <1>1, Invariance, PTL

-----------------------------------------------------------------------------
(* The count of live orders *)

\* What a step does to the live orders and to their count: nothing, one order
\* less, or -- when a command ends -- the taker more.
LiveStep ==
    \/ LiveIds' = LiveIds /\ live' = live
    \/ \E id \in LiveIds : LiveIds' = LiveIds \ {id} /\ live' = live - 1
    \/ /\ \E id \in OrderIds \ LiveIds : LiveIds' = LiveIds \cup {id} /\ live' = live + 1
       /\ pc # "Idle" /\ pc' = "Idle"

\* A command is only let in to cross when an order fewer than MaxOrders is alive:
\* newOrder checks it, and replace takes its own order out first.
RoomStep ==
    pc = "Idle" /\ pc' # "Idle" =>
        \/ LiveIds' = LiveIds /\ live' = live /\ live < MaxOrders
        \/ \E id \in LiveIds : LiveIds' = LiveIds \ {id} /\ live' = live - 1

CountInv ==
    /\ IInv
    /\ IsFiniteSet(LiveIds)
    /\ CountMatches

\* Nothing that the order map holds changes: the live orders are the same.
LEMMA LiveUnchanged == UNCHANGED <<order, live>> => LiveIds' = LiveIds /\ live' = live
  BY DEF LiveIds, Mapped

\* A command, up to its first call of cross: only cancel and a replacement that
\* moves end a life, and none begins one.
LEMMA ApplyCounts ==
  ASSUME IInv, NEW c \in Commands, Apply(c)
  PROVE  LiveStep /\ RoomStep
<1>1. pc = "Idle" /\ Mapped = LiveIds
  BY IdleFacts DEF Apply
<1>2. ASSUME NEW reason, Reject(c.id, reason) PROVE LiveStep /\ RoomStep
  BY <1>1, <1>2, LiveUnchanged DEF Reject, bookVars, LiveStep, RoomStep
<1>3. CASE c.kind = "New" /\ NewOrder(c) /\ NewRefusal(c) = "None"
  <2>1. UNCHANGED <<order, live>> /\ live < MaxOrders
    <3>1. ~(live >= MaxOrders)
      BY <1>3 DEF NewRefusal, IsFull
    <3>2. live \in Int /\ MaxOrders \in Int
      BY MaxOrdersAssumption DEF IInv, TypeOK
    <3> QED  BY <1>3, <3>1, <3>2 DEF NewOrder, bookVars
  <2> QED  BY <2>1, LiveUnchanged DEF LiveStep, RoomStep
<1>4. CASE c.kind = "Cancel" /\ CancelOrder(c.id) /\ c.id \in Mapped
  <2>1. LeaveLevel(c.id) /\ order' = MapRemove(c.id) /\ pc' = pc
    BY <1>4 DEF CancelOrder
  <2>2. LiveIds' = LiveIds \ {c.id}
    BY <1>1, <2>1 DEF LiveIds, MapRemove, Mapped
  <2>3. live' = live - 1
    BY <2>1 DEF LeaveLevel
  <2> QED  BY <1>1, <1>4, <2>1, <2>2, <2>3 DEF LiveStep, RoomStep
<1>5. CASE c.kind = "Replace" /\ ReplaceRefusal(c) = "None" /\ ReplaceInPlace(c)
  <2>1. /\ order' = [order EXCEPT ![c.id].qty = c.qty] /\ live' = live /\ pc' = pc
    BY <1>5 DEF ReplaceInPlace
  <2>2. c.id \in Mapped /\ c.qty # 0 /\ c.qty \in Qtys
    BY <1>5 DEF ReplaceRefusal, Commands
  <2>3. c.qty > 0 /\ order[c.id] \in Order /\ order[c.id].qty > 0
    BY <1>1, <2>2, QtyFacts, IdleFacts DEF LiveIds
  <2>4. \A i \in Mapped : order'[i].qty > 0
    <3>1. order'[c.id].qty = c.qty
      BY <2>1, <2>2, <2>3 DEF Order, Mapped
    <3>2. \A i \in Mapped : i # c.id => order'[i] = order[i]
      BY <2>1 DEF Mapped, IInv, TypeOK
    <3> QED  BY <1>1, <2>3, <3>1, <3>2 DEF LiveIds
  <2>5. LiveIds' = LiveIds
    BY <1>1, <2>1, <2>4 DEF LiveIds, Mapped, IInv, TypeOK
  <2> QED  BY <1>1, <2>1, <2>5 DEF LiveStep, RoomStep
<1>6. CASE c.kind = "Replace" /\ ReplaceRefusal(c) = "None" /\ ReplaceAndCross(c)
  <2>1. LeaveLevel(c.id) /\ order' = [order EXCEPT ![c.id].qty = 0] /\ pc' = "Cross"
    BY <1>6 DEF ReplaceAndCross, BeginCross
  <2>2. c.id \in Mapped /\ order[c.id] \in Order
    BY <1>6, IdleFacts, <1>1 DEF ReplaceRefusal
  <2>3. /\ Mapped' = Mapped /\ order'[c.id].qty = 0
        /\ \A i \in Mapped : i # c.id => order'[i] = order[i]
    BY <2>1, <2>2 DEF Mapped, IInv, TypeOK, Order
  <2>4. LiveIds' = LiveIds \ {c.id}
    <3>1. ~(order'[c.id].qty > 0)
      BY <2>3
    <3> QED  BY <2>3, <3>1 DEF LiveIds
  <2>5. live' = live - 1
    BY <2>1 DEF LeaveLevel
  <2> QED  BY <1>1, <2>1, <2>2, <2>4, <2>5 DEF LiveStep, RoomStep
<1> QED
  BY <1>2, <1>3, <1>4, <1>5, <1>6 DEF Apply, NewOrder, CancelOrder, ReplaceOrder

\* A fill ends at most the maker's life.
LEMMA FillCounts == IInv /\ Fill => LiveStep
<1> SUFFICES ASSUME IInv, Fill PROVE LiveStep
  OBVIOUS
<1>1. /\ pc = "Fill" /\ maker \in LiveIds /\ order[maker] \in Order
      /\ order[maker].qty \in Int /\ fillQty \in Int /\ fillQty <= order[maker].qty
  BY MakerFacts DEF Fill
<1>2. CASE order[maker].qty = fillQty
  <2>1. order' = MapRemove(maker) /\ live' = live - 1
    BY <1>2 DEF Fill
  <2>2. LiveIds' = LiveIds \ {maker}
    BY <2>1 DEF MapRemove, LiveIds, Mapped
  <2> QED  BY <1>1, <2>1, <2>2 DEF LiveStep
<1>3. CASE order[maker].qty # fillQty
  <2>1. order' = [order EXCEPT ![maker].qty = @ - fillQty] /\ live' = live
    BY <1>3 DEF Fill
  <2>2. maker \in Mapped /\ order[maker].qty - fillQty > 0
    BY <1>1, <1>3 DEF LiveIds
  <2>3. /\ Mapped' = Mapped /\ order'[maker].qty > 0
        /\ \A i \in Mapped : i # maker => order'[i] = order[i]
    BY <1>1, <2>1, <2>2 DEF Mapped, IInv, TypeOK, Order
  <2>4. LiveIds' = LiveIds
    BY <1>1, <2>3 DEF LiveIds
  <2> QED  BY <2>1, <2>4 DEF LiveStep
<1> QED  BY <1>2, <1>3

\* The end of a command begins at most one life: the remainder that rests.
LEMMA FinishCounts == IInv /\ Finish => LiveStep
<1> SUFFICES ASSUME IInv, Finish PROVE LiveStep
  OBVIOUS
<1>1. /\ pc = "Finish" /\ pc' = "Idle"
      /\ taker.id \in OrderIds \ LiveIds /\ taker.remaining \in Quantity
  BY TakerFacts DEF Finish
<1>2. CASE FinishFilled
  <2>1. \/ order' = MapRemove(taker.id) /\ live' = live
        \/ order' = order /\ live' = live
    BY <1>2 DEF FinishFilled
  <2>2. LiveIds' = LiveIds
    BY <1>1, <2>1 DEF MapRemove, LiveIds, Mapped
  <2> QED  BY <2>1, <2>2 DEF LiveStep
<1>3. CASE FinishResting
  <2>1. /\ order' = MapPut(taker.id, [side |-> taker.side, price |-> taker.bound,
                                      qty |-> taker.remaining, tif |-> taker.tif])
        /\ live' = live + 1 /\ taker.remaining # 0
    BY <1>3 DEF FinishResting, Rest
  <2>2. taker.remaining > 0
    BY <1>1, <2>1, QtyModAssumption DEF Quantity
  <2>3. /\ Mapped' = Mapped \cup {taker.id} /\ order'[taker.id].qty = taker.remaining
        /\ \A i \in Mapped : i # taker.id => order'[i] = order[i]
    BY <2>1 DEF MapPut, Mapped
  <2>4. LiveIds' = LiveIds \cup {taker.id}
    BY <1>1, <2>2, <2>3 DEF LiveIds
  <2> QED  BY <1>1, <2>1, <2>4 DEF LiveStep
<1>4. CASE FinishExpired
  BY <1>4, LiveUnchanged DEF FinishExpired, bookVars, LiveStep
<1> QED  BY <1>2, <1>3, <1>4 DEF Finish

\* The count follows the live orders through every step.
LEMMA CountStep ==
  ASSUME CountInv, IInv', LiveStep, RoomStep
  PROVE  CountInv'
<1>1. /\ IsFiniteSet(LiveIds) /\ live = Cardinality(LiveIds) /\ live \in Int
      /\ live <= MaxOrders /\ MaxOrders \in Int /\ (pc # "Idle" => live < MaxOrders)
  BY MaxOrdersAssumption DEF CountInv, CountMatches, IInv, TypeOK
<1>2. CASE LiveIds' = LiveIds /\ live' = live
  BY <1>1, <1>2 DEF CountInv, CountMatches, RoomStep
<1>3. CASE \E id \in LiveIds : LiveIds' = LiveIds \ {id} /\ live' = live - 1
  <2>1. PICK id \in LiveIds : LiveIds' = LiveIds \ {id} /\ live' = live - 1
    BY <1>3
  <2>2. IsFiniteSet(LiveIds') /\ Cardinality(LiveIds') = Cardinality(LiveIds) - 1
    BY <1>1, <2>1, FS_RemoveElement
  <2>3. live' = Cardinality(LiveIds') /\ live' < MaxOrders
    BY <1>1, <2>1, <2>2
  <2>4. live' <= MaxOrders
    BY <1>1, <2>1, <2>3
  <2> QED  BY <2>2, <2>3, <2>4 DEF CountInv, CountMatches
<1>4. CASE /\ \E id \in OrderIds \ LiveIds : LiveIds' = LiveIds \cup {id} /\ live' = live + 1
           /\ pc # "Idle" /\ pc' = "Idle"
  <2>1. PICK id \in OrderIds \ LiveIds : LiveIds' = LiveIds \cup {id} /\ live' = live + 1
    BY <1>4
  <2>2. IsFiniteSet(LiveIds') /\ Cardinality(LiveIds') = Cardinality(LiveIds) + 1
    BY <1>1, <2>1, FS_AddElement
  <2>3. live' = Cardinality(LiveIds') /\ live' <= MaxOrders
    BY <1>1, <1>4, <2>1, <2>2
  <2> QED  BY <1>4, <2>2, <2>3 DEF CountInv, CountMatches
<1> QED  BY <1>2, <1>3, <1>4 DEF LiveStep

LEMMA CountInit == Init => CountInv
<1> SUFFICES ASSUME Init PROVE CountInv
  OBVIOUS
<1>1. LiveIds = {} /\ live = 0 /\ pc = "Idle"
  BY DEF Init, LiveIds, Mapped
<1>2. IsFiniteSet({}) /\ Cardinality({}) = 0
  BY FS_EmptySet
<1> QED  BY <1>1, <1>2, InitInv, MaxOrdersAssumption DEF CountInv, CountMatches

LEMMA CountNext == CountInv /\ [Next]_vars => CountInv'
<1> SUFFICES ASSUME CountInv, [Next]_vars PROVE CountInv'
  OBVIOUS
<1>1. IInv /\ IInv'
  BY NextInv DEF CountInv
<1>2. CASE \E c \in Commands : Apply(c)
  BY <1>1, <1>2, ApplyCounts, CountStep
<1>3. ASSUME LiveStep, pc # "Idle" PROVE CountInv'
  <2>1. RoomStep
    BY <1>3 DEF RoomStep
  <2> QED  BY <1>1, <1>3, <2>1, CountStep
<1>4. CASE Cross \/ Trade \/ Unlink
  <2>1. UNCHANGED <<order, live>> /\ pc # "Idle"
    BY <1>4 DEF Cross, Trade, Unlink, bookVars
  <2> QED  BY <1>3, <2>1, LiveUnchanged DEF LiveStep
<1>5. CASE Fill
  BY <1>1, <1>3, <1>5, FillCounts DEF Fill
<1>6. CASE Finish
  BY <1>1, <1>3, <1>6, FinishCounts DEF Finish
<1>7. CASE UNCHANGED vars
  <2>1. LiveIds' = LiveIds /\ live' = live /\ pc' = pc
    BY <1>7, LiveUnchanged DEF vars
  <2> QED  BY <1>1, <2>1 DEF CountInv, CountMatches
<1> QED  BY <1>2, <1>4, <1>5, <1>6, <1>7 DEF Next, Step

LEMMA CountInvariance == Spec => []CountInv
  BY CountInit, CountNext, PTL DEF Spec

\* newOrder's book_full check counts the live orders exactly, there are never more
\* than MaxOrders of them, and an order in flight always has room to rest.
THEOREM CountIsExact == Spec => []CountMatches
<1>1. CountInv => CountMatches
  BY DEF CountInv
<1> QED  BY <1>1, CountInvariance, PTL

-----------------------------------------------------------------------------
(* Time priority *)

\* Whoever stands before an order of q in r stood before it in q.
KeepsOrder(q, r) ==
    \A i, j \in 1 .. Len(r) :
        (i < j /\ r[j] \in ToSet(q)) =>
            \E k, m \in 1 .. Len(q) : k < m /\ q[k] = r[i] /\ q[m] = r[j]

\* What a step may do to a level: nothing, one order fewer, or one more at the end.
QueueStep(q, r) ==
    \/ r = q
    \/ \E i \in 1 .. Len(q) : r = RemoveAt(q, i)
    \/ q # <<>> /\ r = Tail(q)
    \/ \E e \in OrderIds : e \notin ToSet(q) /\ r = Append(q, e)

\* Each of these keeps the order.
LEMMA QueueStepKeepsOrder ==
  ASSUME NEW q \in Seq(OrderIds), NEW r, QueueStep(q, r)
  PROVE  KeepsOrder(q, r)
<1>1. Len(q) \in Nat /\ DOMAIN q = 1 .. Len(q)
  OBVIOUS
<1>2. CASE r = q
  BY <1>1, <1>2 DEF KeepsOrder
<1>3. CASE \E x \in 1 .. Len(q) : r = RemoveAt(q, x)
  <2>1. PICK x \in 1 .. Len(q) : r = RemoveAt(q, x)
    BY <1>3
  <2>2. /\ Len(r) = Len(q) - 1
        /\ \A k \in 1 .. (Len(q) - 1) : r[k] = IF k < x THEN q[k] ELSE q[k + 1]
    BY <2>1, RemoveAtFacts
  <2> DEFINE at(k) == IF k < x THEN k ELSE k + 1
  <2>3. ASSUME NEW i \in 1 .. Len(r), NEW j \in 1 .. Len(r), i < j
        PROVE  /\ at(i) \in 1 .. Len(q) /\ at(j) \in 1 .. Len(q) /\ at(i) < at(j)
               /\ q[at(i)] = r[i] /\ q[at(j)] = r[j]
    BY <1>1, <2>2, <2>3
  <2> HIDE DEF at
  <2>. QED BY <2>3 DEF KeepsOrder
<1>4. CASE q # <<>> /\ r = Tail(q)
  <2>1. Len(r) = Len(q) - 1 /\ \A k \in 1 .. (Len(q) - 1) : r[k] = q[k + 1]
    BY <1>4
  <2>2. ASSUME NEW i \in 1 .. Len(r), NEW j \in 1 .. Len(r), i < j
        PROVE  /\ i + 1 \in 1 .. Len(q) /\ j + 1 \in 1 .. Len(q) /\ i + 1 < j + 1
               /\ q[i + 1] = r[i] /\ q[j + 1] = r[j]
    BY <1>1, <2>1, <2>2
  <2>. QED BY <2>2 DEF KeepsOrder
<1>5. CASE \E e \in OrderIds : e \notin ToSet(q) /\ r = Append(q, e)
  <2>1. PICK e \in OrderIds : e \notin ToSet(q) /\ r = Append(q, e)
    BY <1>5
  <2>2. /\ Len(r) = Len(q) + 1 /\ r[Len(q) + 1] = e
        /\ \A k \in 1 .. Len(q) : r[k] = q[k]
    BY <2>1
  <2>3. ASSUME NEW i \in 1 .. Len(r), NEW j \in 1 .. Len(r), i < j, r[j] \in ToSet(q)
        PROVE  i \in 1 .. Len(q) /\ j \in 1 .. Len(q) /\ q[i] = r[i] /\ q[j] = r[j]
    <3>1. j # Len(q) + 1
      BY <2>1, <2>2, <2>3
    <3>. QED BY <1>1, <2>2, <2>3, <3>1
  <2>. QED BY <2>3 DEF KeepsOrder
<1>. QED BY <1>2, <1>3, <1>4, <1>5 DEF QueueStep

\* A level that changes alone changes as its own step says.
LEMMA OneLevelSteps ==
  ASSUME TypeOK, NEW s \in Sides, NEW p \in LevelPrices, NEW r,
         queue' = [queue EXCEPT ![s][p] = r], QueueStep(queue[s][p], r)
  PROVE  \A t \in Sides, x \in LevelPrices : QueueStep(queue[t][x], queue'[t][x])
<1> SUFFICES ASSUME NEW t \in Sides, NEW x \in LevelPrices
             PROVE  QueueStep(queue[t][x], queue'[t][x])
  OBVIOUS
<1>1. CASE t = s /\ x = p
  <2>1. queue'[t][x] = r
    BY <1>1 DEF TypeOK
  <2>. QED BY <1>1, <2>1
<1>2. CASE ~(t = s /\ x = p)
  <2>1. queue'[t][x] = queue[t][x]
    BY <1>2 DEF TypeOK
  <2>. QED BY <2>1 DEF QueueStep
<1>. QED BY <1>1, <1>2

LEMMA LevelsStep ==
  ASSUME IInv, [Next]_vars
  PROVE  \A s \in Sides, p \in LevelPrices : QueueStep(queue[s][p], queue'[s][p])
<1>1. CASE queue' = queue
  BY <1>1 DEF QueueStep
<1>2. ASSUME NEW id \in LiveIds, LeaveLevel(id)
      PROVE  \A s \in Sides, p \in LevelPrices : QueueStep(queue[s][p], queue'[s][p])
  <2> DEFINE s == order[id].side
             p == order[id].price
             r == RemoveAt(queue[s][p], PlaceIn(queue[s][p], id))
  <2>1. s \in Sides /\ p \in LevelPrices /\ PlaceIn(queue[s][p], id) \in 1 .. Len(queue[s][p])
    BY PlaceFacts DEF IInv, Order
  <2>2. queue' = [queue EXCEPT ![s][p] = r]
    BY <1>2 DEF LeaveLevel
  <2>3. QueueStep(queue[s][p], r)
    BY <2>1 DEF QueueStep
  <2> HIDE DEF s, p, r
  <2>. QED BY <2>1, <2>2, <2>3, OneLevelSteps DEF IInv
<1>3. CASE Fill /\ order[maker].qty = fillQty
  <2>1. opp \in Sides /\ taker.at \in LevelPrices /\ level # <<>>
    BY <1>3, MakerFacts DEF Fill
  <2>2. queue' = [queue EXCEPT ![opp][taker.at] = Tail(level)]
    BY <1>3 DEF Fill, level
  <2>3. QueueStep(queue[opp][taker.at], Tail(level))
    BY <2>1 DEF QueueStep, level
  <2>. QED BY <2>1, <2>2, <2>3, OneLevelSteps DEF IInv
<1>4. CASE pc = "Finish" /\ FinishResting
  <2> DEFINE s == taker.side
             p == taker.bound
             r == Append(queue[s][p], taker.id)
  <2>1. /\ taker.id \in OrderIds /\ taker.id \notin LiveIds /\ s \in Sides
        /\ taker.op \in {"New", "Replace"} /\ taker.bounded => p \in LevelPrices
    BY <1>4, TakerFacts
  <2>2. queue' = [queue EXCEPT ![s][p] = r] /\ p \in LevelPrices
    BY <1>4, <2>1 DEF FinishResting, Rest, Rests, IInv, CrossState
  <2>3. taker.id \notin ToSet(queue[s][p])
    BY <2>1, <2>2 DEF IInv, QueuesMatchOrders, RestingAt
  <2>4. QueueStep(queue[s][p], r)
    BY <2>1, <2>3 DEF QueueStep
  <2> HIDE DEF s, p, r
  <2>. QED BY <2>1, <2>2, <2>4, OneLevelSteps DEF IInv
<1>5. ASSUME NEW c \in Commands, Apply(c)
      PROVE  queue' = queue \/ \E id \in LiveIds : LeaveLevel(id)
  <2>1. Mapped = LiveIds
    BY <1>5, IdleFacts DEF Apply
  <2>. QED BY <1>5, <2>1 DEF Apply, NewOrder, CancelOrder, ReplaceOrder, Reject, bookVars,
                ReplaceInPlace, ReplaceAndCross, ReplaceRefusal
<1>6. CASE Fill /\ order[maker].qty # fillQty
  BY <1>1, <1>6 DEF Fill
<1>7. CASE Cross \/ Trade \/ Unlink \/ UNCHANGED vars
  BY <1>1, <1>7 DEF Cross, Trade, Unlink, bookVars, vars
<1>8. CASE Finish
  BY <1>1, <1>4, <1>8 DEF Finish, FinishFilled, FinishExpired, bookVars
<1>. QED BY <1>1, <1>2, <1>3, <1>5, <1>6, <1>7, <1>8 DEF Next, Step

\* Nobody overtakes: whoever stands before an order that stays in its level stood
\* before it already, through fills, cancels, replacements and new orders.
THEOREM PriorityHolds == Spec => PriorityStable
<1> DEFINE A == \A s \in Sides, p \in LevelPrices :
                    \A i, j \in 1 .. Len(queue'[s][p]) :
                        (i < j /\ queue'[s][p][j] \in ToSet(queue[s][p])) =>
                            \E k, m \in 1 .. Len(queue[s][p]) :
                                /\ k < m
                                /\ queue[s][p][k] = queue'[s][p][i]
                                /\ queue[s][p][m] = queue'[s][p][j]
<1>1. IInv /\ [Next]_vars => A
  <2> SUFFICES ASSUME IInv, [Next]_vars PROVE A
    OBVIOUS
  <2>1. ASSUME NEW s \in Sides, NEW p \in LevelPrices PROVE KeepsOrder(queue[s][p], queue'[s][p])
    <3>1. queue[s][p] \in Seq(OrderIds)
      BY DEF IInv, TypeOK
    <3>. QED BY <3>1, LevelsStep, QueueStepKeepsOrder
  <2>. QED BY <2>1 DEF KeepsOrder
<1>2. PriorityStable <=> [][A]_vars
  BY DEF PriorityStable
<1> HIDE DEF A
<1>3. IInv /\ [Next]_vars => [A]_vars
  BY <1>1
<1>. QED BY <1>2, <1>3, Invariance, PTL DEF Spec

-----------------------------------------------------------------------------
(* The levels' totals *)

\* What an order contributes to its level.
Held(id) == IF id \in LiveIds THEN order[id].qty ELSE 0

\* ... and will contribute after the step.
HeldNext(id) == IF id \in LiveIds' THEN order'[id].qty ELSE 0

\* A step that touches at most one order, which has its place at price p of side s.
OnlyOrder(id, s, p) ==
    /\ LiveIds' \ {id} = LiveIds \ {id}
    /\ \A i \in LiveIds \ {id} : order'[i] = order[i]
    /\ id \in LiveIds => order[id].side = s /\ order[id].price = p
    /\ id \in LiveIds' => order'[id].side = s /\ order'[id].price = p

\* Its level's total moves by as much as the order, modulo the uint64 range.
TotalStep(id, s, p) ==
    /\ OnlyOrder(id, s, p)
    /\ total'[s][p] = (total[s][p] + (HeldNext(id) - Held(id))) % QtyMod
    /\ \A t \in Sides, x \in LevelPrices : ~(t = s /\ x = p) => total'[t][x] = total[t][x]

\* No order's quantity or place changes.
OrdersSame == LiveIds' = LiveIds /\ \A i \in LiveIds : order'[i] = order[i]

LEMMA LeavesFacts ==
  ASSUME IInv
  PROVE  /\ \A i \in LiveIds : /\ Leaves[i] = order[i].qty /\ Leaves[i] \in Quantity
                               /\ Leaves[i] \in Nat /\ i \in OrderIds
                               /\ order[i].side \in Sides /\ order[i].price \in LevelPrices
         /\ QtyMod \in Nat \ {0}
  BY QtyModAssumption DEF IInv, TypeOK, Leaves, LiveIds, Mapped, Order, Quantity

LEMMA LeavesAre == IInv => \A i \in LiveIds : Leaves[i] = order[i].qty /\ Leaves[i] \in Nat
  BY LeavesFacts

LEMMA LeavesNext ==
  ASSUME IInv'
  PROVE  \A i \in LiveIds' : Leaves'[i] = order'[i].qty /\ Leaves'[i] \in Nat
<1>1. (IInv => \A i \in LiveIds : Leaves[i] = order[i].qty /\ Leaves[i] \in Nat)'
  BY LeavesAre, PTL
<1>. QED BY <1>1

\* How a sum over live orders moves with one of them.
LEMMA QtySumChange ==
  ASSUME IInv, IInv', IsFiniteSet(LiveIds), NEW id, NEW s, NEW p, OnlyOrder(id, s, p),
         NEW S \in SUBSET LiveIds, NEW R \in SUBSET LiveIds', R \ {id} = S \ {id}
  PROVE  /\ SumFunctionOnSet(Leaves', R) = SumFunctionOnSet(Leaves, S)
                + ((IF id \in R THEN order'[id].qty ELSE 0)
                     - (IF id \in S THEN order[id].qty ELSE 0))
         /\ SumFunctionOnSet(Leaves, S) \in Int
<1>1. /\ \A i \in LiveIds : Leaves[i] = order[i].qty /\ Leaves[i] \in Int
      /\ \A i \in LiveIds' : Leaves'[i] = order'[i].qty /\ Leaves'[i] \in Int
  BY LeavesFacts, LeavesNext
<1>2. IsFiniteSet(S)
  BY FS_Subset
<1>3. \A i \in S \ {id} : Leaves'[i] = Leaves[i]
  BY <1>1 DEF OnlyOrder
<1> DEFINE f == Leaves
           g == Leaves'
<1>4. /\ \A i \in S : f[i] \in Int
      /\ \A i \in R : g[i] \in Int
      /\ \A i \in S \ {id} : g[i] = f[i]
  BY <1>1, <1>3
<1>5. /\ id \in R => g[id] = order'[id].qty
      /\ id \in S => f[id] = order[id].qty
  BY <1>1
<1> HIDE DEF f, g
<1>6. /\ SumFunctionOnSet(g, R) = SumFunctionOnSet(f, S)
            + ((IF id \in R THEN g[id] ELSE 0) - (IF id \in S THEN f[id] ELSE 0))
      /\ SumFunctionOnSet(f, S) \in Int
  BY <1>2, <1>4, SumChange
<1>. QED BY <1>5, <1>6 DEF f, g

LEMMA TotalsFollow ==
  ASSUME CountInv, IInv', TotalsMatch,
         NEW id, NEW s \in Sides, NEW p \in LevelPrices, TotalStep(id, s, p)
  PROVE  TotalsMatch'
<1>1. /\ IInv /\ IsFiniteSet(LiveIds) /\ OnlyOrder(id, s, p) /\ QtyMod \in Nat \ {0}
      /\ LiveIds' \ {id} = LiveIds \ {id}
      /\ \A i \in LiveIds \ {id} : order'[i] = order[i]
      /\ id \in LiveIds => order[id].side = s /\ order[id].price = p
      /\ id \in LiveIds' => order'[id].side = s /\ order'[id].price = p
  BY LeavesFacts DEF CountInv, TotalStep, OnlyOrder
<1> SUFFICES ASSUME NEW t \in Sides, NEW x \in LevelPrices
             PROVE  total'[t][x] = SumFunctionOnSet(Leaves', RestingAt(t, x)') % QtyMod
  BY DEF TotalsMatch
<1> DEFINE S == RestingAt(t, x)
           R == RestingAt(t, x)'
           a == SumFunctionOnSet(Leaves, S)
<1>2. S \in SUBSET LiveIds /\ R \in SUBSET LiveIds' /\ R \ {id} = S \ {id}
  BY <1>1 DEF RestingAt
<1>3. /\ SumFunctionOnSet(Leaves', R)
            = a + ((IF id \in R THEN order'[id].qty ELSE 0)
                     - (IF id \in S THEN order[id].qty ELSE 0))
      /\ a \in Int
  BY <1>1, <1>2, QtySumChange
<1>4. total[t][x] = a % QtyMod
  BY DEF TotalsMatch
<1>5. CASE t = s /\ x = p
  <2>1. (id \in R <=> id \in LiveIds') /\ (id \in S <=> id \in LiveIds)
    BY <1>1, <1>5 DEF RestingAt
  <2> DEFINE d == HeldNext(id) - Held(id)
  <2>2. SumFunctionOnSet(Leaves', R) = a + d
    BY <1>3, <2>1 DEF Held, HeldNext
  <2>3. d \in Int
    <3>1. /\ id \in LiveIds => order[id].qty \in Nat
          /\ id \in LiveIds' => order'[id].qty \in Nat
      BY <1>1, LeavesFacts, LeavesNext
    <3>. QED BY <3>1 DEF Held, HeldNext
  <2>4. total'[t][x] = (total[t][x] + d) % QtyMod
    BY <1>5 DEF TotalStep
  <2> HIDE DEF d, a
  <2>5. ((a % QtyMod) + d) % QtyMod = (a + d) % QtyMod
    BY <1>1, <1>3, <2>3, ModPlus
  <2>. QED BY <1>4, <2>2, <2>4, <2>5
<1>6. CASE ~(t = s /\ x = p)
  <2>1. id \notin R /\ id \notin S
    BY <1>1, <1>6 DEF RestingAt
  <2>2. total'[t][x] = total[t][x]
    BY <1>6 DEF TotalStep
  <2> HIDE DEF a
  <2>3. SumFunctionOnSet(Leaves', R) = a
    BY <1>3, <2>1
  <2>. QED BY <1>4, <2>2, <2>3
<1>. QED BY <1>5, <1>6

\* With no order touched, the sums are the same.
LEMMA SumsSame ==
  ASSUME IInv, IInv', IsFiniteSet(LiveIds), OrdersSame, NEW S \in SUBSET LiveIds
  PROVE  SumFunctionOnSet(Leaves', S) = SumFunctionOnSet(Leaves, S)
<1> DEFINE f == Leaves
           g == Leaves'
<1>1. \A i \in S : f[i] \in Int /\ g[i] = f[i]
  <2>1. /\ \A i \in LiveIds : Leaves[i] = order[i].qty /\ Leaves[i] \in Int
        /\ \A i \in LiveIds' : Leaves'[i] = order'[i].qty
    BY LeavesFacts, LeavesNext
  <2>. QED BY <2>1 DEF OrdersSame
<1>2. IsFiniteSet(S)
  BY FS_Subset
<1> HIDE DEF f, g
<1>3. SumFunctionOnSet(g, S) = SumFunctionOnSet(f, S)
  BY <1>1, <1>2, SumSame
<1>. QED BY <1>3 DEF f, g

LEMMA TotalsStay ==
  ASSUME CountInv, IInv', TotalsMatch, OrdersSame, total' = total
  PROVE  TotalsMatch'
<1> SUFFICES ASSUME NEW t \in Sides, NEW x \in LevelPrices
             PROVE  total'[t][x] = SumFunctionOnSet(Leaves', RestingAt(t, x)') % QtyMod
  BY DEF TotalsMatch
<1>1. RestingAt(t, x)' = RestingAt(t, x) /\ RestingAt(t, x) \in SUBSET LiveIds
  BY DEF RestingAt, OrdersSame
<1>2. total[t][x] = SumFunctionOnSet(Leaves, RestingAt(t, x)) % QtyMod
  BY DEF TotalsMatch
<1>3. SumFunctionOnSet(Leaves', RestingAt(t, x)) = SumFunctionOnSet(Leaves, RestingAt(t, x))
  BY <1>1, SumsSame DEF CountInv
<1>. QED BY <1>1, <1>2, <1>3

\* An order that leaves its level takes its quantity along.
LEMMA LeaveTotals ==
  ASSUME IInv, NEW id \in LiveIds, LeaveLevel(id), LiveIds' = LiveIds \ {id},
         \A i \in LiveIds' : order'[i] = order[i]
  PROVE  TotalStep(id, order[id].side, order[id].price)
<1> DEFINE s == order[id].side
           p == order[id].price
<1>1. s \in Sides /\ p \in LevelPrices /\ order[id].qty \in Int
  BY LeavesFacts
<1>2. total' = [total EXCEPT ![s][p] = (@ - order[id].qty) % QtyMod]
  BY DEF LeaveLevel
<1>3. total[s][p] \in Int
  BY <1>1 DEF IInv, TypeOK, Quantity
<1>4. Held(id) = order[id].qty /\ HeldNext(id) = 0
  BY DEF Held, HeldNext
<1> HIDE DEF s, p
<1>5. total'[s][p] = (total[s][p] + (HeldNext(id) - Held(id))) % QtyMod
  <2>1. total'[s][p] = (total[s][p] - order[id].qty) % QtyMod
    BY <1>1, <1>2 DEF IInv, TypeOK
  <2>2. total[s][p] + (0 - order[id].qty) = total[s][p] - order[id].qty
    BY <1>1, <1>3
  <2>. QED BY <1>4, <2>1, <2>2
<1>6. \A t \in Sides, x \in LevelPrices : ~(t = s /\ x = p) => total'[t][x] = total[t][x]
  BY <1>1, <1>2 DEF IInv, TypeOK
<1>7. OnlyOrder(id, s, p)
  BY DEF OnlyOrder, s, p
<1>. QED BY <1>5, <1>6, <1>7 DEF TotalStep, s, p

\* What a step does to the orders and the totals.
SomeTotalStep == \E id, s, p : s \in Sides /\ p \in LevelPrices /\ TotalStep(id, s, p)

LEMMA ApplyTotals ==
  ASSUME IInv, NEW c \in Commands, Apply(c)
  PROVE  (OrdersSame /\ total' = total) \/ SomeTotalStep
<1>1. pc = "Idle" /\ Mapped = LiveIds
  BY IdleFacts DEF Apply
<1>2. CASE UNCHANGED bookVars
  BY <1>2 DEF bookVars, OrdersSame, LiveIds, Mapped
<1>3. CASE c.kind = "Cancel" /\ CancelOrder(c.id) /\ c.id \in Mapped
  <2>1. LeaveLevel(c.id) /\ order' = MapRemove(c.id)
    BY <1>3 DEF CancelOrder
  <2>2. LiveIds' = LiveIds \ {c.id} /\ \A i \in LiveIds' : order'[i] = order[i]
    BY <1>1, <2>1 DEF LiveIds, MapRemove, Mapped
  <2>3. TotalStep(c.id, order[c.id].side, order[c.id].price)
    BY <1>1, <1>3, <2>1, <2>2, LeaveTotals
  <2>. QED BY <1>1, <1>3, <2>3, LeavesFacts DEF SomeTotalStep
<1>4. CASE c.kind = "Replace" /\ ReplaceRefusal(c) = "None" /\ ReplaceAndCross(c)
  <2>1. LeaveLevel(c.id) /\ order' = [order EXCEPT ![c.id].qty = 0]
    BY <1>4 DEF ReplaceAndCross
  <2>2. c.id \in Mapped /\ order[c.id] \in Order
    BY <1>4, IdleFacts, <1>1 DEF ReplaceRefusal
  <2>3. /\ Mapped' = Mapped /\ order'[c.id].qty = 0
        /\ \A i \in Mapped : i # c.id => order'[i] = order[i]
    BY <2>1, <2>2 DEF Mapped, IInv, TypeOK, Order
  <2>4. LiveIds' = LiveIds \ {c.id}
    <3>1. ~(order'[c.id].qty > 0)
      BY <2>3
    <3> QED  BY <2>3, <3>1 DEF LiveIds
  <2>5. TotalStep(c.id, order[c.id].side, order[c.id].price)
    BY <1>1, <2>1, <2>2, <2>3, <2>4, LeaveTotals
  <2>. QED BY <1>1, <2>2, <2>5, LeavesFacts DEF SomeTotalStep
<1>5. CASE c.kind = "Replace" /\ ReplaceRefusal(c) = "None" /\ ReplaceInPlace(c)
  <2> DEFINE id == c.id
             s == order[id].side
             p == order[id].price
  <2>1. /\ order' = [order EXCEPT ![id].qty = c.qty]
        /\ total' = [total EXCEPT ![s][p] = (@ - (order[id].qty - c.qty)) % QtyMod]
    BY <1>5 DEF ReplaceInPlace
  <2>2. id \in LiveIds /\ c.qty # 0 /\ c.qty \in Qtys
    BY <1>1, <1>5 DEF ReplaceRefusal, Commands
  <2>3. /\ c.qty > 0 /\ c.qty \in Int /\ order[id] \in Order /\ order[id].qty \in Int
        /\ s \in Sides /\ p \in LevelPrices
    BY <1>1, <2>2, QtyFacts, IdleFacts, LeavesFacts DEF Quantity
  <2>4. total[s][p] \in Int
    BY <2>3 DEF IInv, TypeOK, Quantity
  <2>5. /\ Mapped' = Mapped /\ order'[id].qty = c.qty
        /\ order'[id].side = s /\ order'[id].price = p
        /\ \A i \in Mapped : i # id => order'[i] = order[i]
    BY <1>1, <2>1, <2>2, <2>3 DEF Mapped, IInv, TypeOK, Order
  <2>6. LiveIds' = LiveIds
    BY <1>1, <2>3, <2>5 DEF LiveIds
  <2> HIDE DEF s, p, id
  <2>7. total'[s][p] = (total[s][p] - (order[id].qty - c.qty)) % QtyMod
    BY <2>1, <2>3 DEF IInv, TypeOK
  <2>8. total[s][p] - (order[id].qty - c.qty) = total[s][p] + (HeldNext(id) - Held(id))
    BY <2>2, <2>3, <2>4, <2>5, <2>6 DEF Held, HeldNext
  <2>9. \A t \in Sides, x \in LevelPrices : ~(t = s /\ x = p) => total'[t][x] = total[t][x]
    BY <2>1, <2>3 DEF IInv, TypeOK
  <2>10. OnlyOrder(id, s, p)
    BY <1>1, <2>5, <2>6 DEF OnlyOrder, s, p
  <2>11. TotalStep(id, s, p)
    BY <2>7, <2>8, <2>9, <2>10 DEF TotalStep
  <2>. QED BY <2>3, <2>11 DEF SomeTotalStep
<1>. QED BY <1>2, <1>3, <1>4, <1>5
        DEF Apply, NewOrder, CancelOrder, ReplaceOrder, Reject

LEMMA FillTotals ==
  ASSUME IInv, Fill
  PROVE  /\ TotalStep(maker, opp, taker.at) /\ opp \in Sides /\ taker.at \in LevelPrices
         /\ maker \in LiveIds /\ HeldNext(maker) = order[maker].qty - fillQty
         /\ fillQty \in Nat
<1> DEFINE id == maker
           s == opp
           p == taker.at
           q == fillQty
<1>1. /\ pc = "Fill" /\ id \in LiveIds /\ order[id] \in Order
      /\ order[id].qty \in Int /\ q \in Int /\ q <= order[id].qty /\ q > 0
      /\ s \in Sides /\ p \in LevelPrices /\ order[id].side = s /\ order[id].price = p
  BY MakerFacts DEF Fill
<1>2. total' = [total EXCEPT ![s][p] = (@ - q) % QtyMod]
  BY DEF Fill
<1>3. total[s][p] \in Int
  BY <1>1 DEF IInv, TypeOK, Quantity
<1>4. OnlyOrder(id, s, p) /\ HeldNext(id) = order[id].qty - q
  <2>1. CASE order[id].qty = q
    <3>1. order' = MapRemove(id)
      BY <2>1 DEF Fill
    <3> HIDE DEF id, s, p, q
    <3>2. LiveIds' = LiveIds \ {id} /\ \A i \in LiveIds' : order'[i] = order[i]
      BY <3>1 DEF MapRemove, LiveIds, Mapped
    <3>. QED BY <1>1, <2>1, <3>2 DEF OnlyOrder, Held, HeldNext
  <2>2. CASE order[id].qty # q
    <3>1. order' = [order EXCEPT ![id].qty = @ - q]
      BY <2>2 DEF Fill
    <3> HIDE DEF id, s, p, q
    <3>2. id \in Mapped /\ order[id].qty - q > 0
      BY <1>1, <2>2 DEF LiveIds
    <3>3. /\ Mapped' = Mapped /\ order'[id].qty = order[id].qty - q
          /\ order'[id].side = s /\ order'[id].price = p
          /\ \A i \in Mapped : i # id => order'[i] = order[i]
      BY <1>1, <3>1, <3>2 DEF Mapped, IInv, TypeOK, Order
    <3>4. LiveIds' = LiveIds
      BY <1>1, <3>2, <3>3 DEF LiveIds
    <3>. QED BY <1>1, <3>3, <3>4 DEF OnlyOrder, Held, HeldNext, LiveIds
  <2>. QED BY <2>1, <2>2
<1> HIDE DEF id, s, p, q
<1>5. Held(id) = order[id].qty
  BY <1>1 DEF Held, HeldNext
<1>6. total'[s][p] = (total[s][p] + (HeldNext(id) - Held(id))) % QtyMod
  <2>1. total'[s][p] = (total[s][p] - q) % QtyMod
    BY <1>1, <1>2 DEF IInv, TypeOK
  <2>2. total[s][p] + ((order[id].qty - q) - order[id].qty) = total[s][p] - q
    BY <1>1, <1>3
  <2>. QED BY <1>4, <1>5, <2>1, <2>2
<1>7. \A t \in Sides, x \in LevelPrices : ~(t = s /\ x = p) => total'[t][x] = total[t][x]
  BY <1>1, <1>2 DEF IInv, TypeOK
<1>8. TotalStep(id, s, p)
  BY <1>4, <1>6, <1>7 DEF TotalStep
<1>. QED BY <1>1, <1>4, <1>8 DEF id, s, p, q

LEMMA FinishTotals ==
  ASSUME IInv, Finish
  PROVE  (OrdersSame /\ total' = total) \/ SomeTotalStep
<1>1. /\ pc = "Finish" /\ taker.id \in OrderIds \ LiveIds /\ taker.remaining \in Quantity
      /\ taker.side \in Sides /\ taker.bounded => taker.bound \in LevelPrices
  BY TakerFacts DEF Finish
<1>2. CASE FinishFilled
  <2>1. total' = total /\ (order' = MapRemove(taker.id) \/ order' = order)
    BY <1>2 DEF FinishFilled
  <2>2. OrdersSame
    BY <1>1, <2>1 DEF MapRemove, LiveIds, Mapped, OrdersSame
  <2>. QED BY <2>1, <2>2
<1>3. CASE FinishExpired
  BY <1>3 DEF FinishExpired, bookVars, OrdersSame, LiveIds, Mapped
<1>4. CASE FinishResting
  <2> DEFINE id == taker.id
             s == taker.side
             p == taker.bound
             q == taker.remaining
  <2>1. /\ order' = MapPut(id, [side |-> s, price |-> p, qty |-> q, tif |-> taker.tif])
        /\ total' = [total EXCEPT ![s][p] = (@ + q) % QtyMod]
        /\ q # 0 /\ s \in Sides /\ p \in LevelPrices /\ id \notin LiveIds
    BY <1>1, <1>4, TakerFacts DEF FinishResting, Rest, Rests, IInv, CrossState, Finish
  <2>2. q > 0 /\ q \in Int
    BY <1>1, <2>1, QtyModAssumption DEF Quantity
  <2>3. total[s][p] \in Int
    BY <2>1 DEF IInv, TypeOK, Quantity
  <2> HIDE DEF id, s, p, q
  <2>4. /\ Mapped' = Mapped \cup {id} /\ order'[id].qty = q
        /\ order'[id].side = s /\ order'[id].price = p
        /\ \A i \in Mapped : i # id => order'[i] = order[i]
    BY <2>1 DEF MapPut, Mapped
  <2>5. LiveIds' = LiveIds \cup {id}
    BY <2>2, <2>4 DEF LiveIds
  <2>6. OnlyOrder(id, s, p)
    BY <2>1, <2>4, <2>5 DEF OnlyOrder, LiveIds
  <2>7. Held(id) = 0 /\ HeldNext(id) = q
    BY <2>1, <2>4, <2>5 DEF Held, HeldNext
  <2>8. total'[s][p] = (total[s][p] + (HeldNext(id) - Held(id))) % QtyMod
    <3>1. total'[s][p] = (total[s][p] + q) % QtyMod
      BY <2>1 DEF IInv, TypeOK
    <3>2. q - 0 = q
      BY <2>2
    <3>. QED BY <2>7, <3>1, <3>2
  <2>9. \A t \in Sides, x \in LevelPrices : ~(t = s /\ x = p) => total'[t][x] = total[t][x]
    BY <2>1 DEF IInv, TypeOK
  <2>10. TotalStep(id, s, p)
    BY <2>6, <2>8, <2>9 DEF TotalStep
  <2>. QED BY <2>1, <2>10 DEF SomeTotalStep
<1>. QED BY <1>2, <1>3, <1>4 DEF Finish

LEMMA TotalsStep ==
  ASSUME CountInv, [Next]_vars, TotalsMatch
  PROVE  TotalsMatch'
<1>1. IInv /\ IInv'
  BY NextInv DEF CountInv
<1>2. CASE SomeTotalStep
  BY <1>1, <1>2, TotalsFollow DEF SomeTotalStep
<1>3. CASE OrdersSame /\ total' = total
  BY <1>1, <1>3, TotalsStay
<1>4. CASE \E c \in Commands : Apply(c)
  BY <1>1, <1>2, <1>3, <1>4, ApplyTotals
<1>5. CASE Cross \/ Trade \/ Unlink \/ UNCHANGED vars
  <2>1. order' = order /\ total' = total
    BY <1>5 DEF Cross, Trade, Unlink, bookVars, vars
  <2>2. OrdersSame
    BY <2>1 DEF OrdersSame, LiveIds, Mapped
  <2>. QED BY <1>3, <2>1, <2>2
<1>6. CASE Fill
  BY <1>1, <1>2, <1>6, FillTotals DEF SomeTotalStep
<1>7. CASE Finish
  BY <1>1, <1>2, <1>3, <1>7, FinishTotals
<1>. QED BY <1>4, <1>5, <1>6, <1>7 DEF Next, Step

LEMMA TotalsInit == Init => TotalsMatch
<1> SUFFICES ASSUME Init, NEW s \in Sides, NEW p \in LevelPrices
             PROVE  total[s][p] = SumFunctionOnSet(Leaves, RestingAt(s, p)) % QtyMod
  BY DEF TotalsMatch
<1>1. RestingAt(s, p) = {} /\ total[s][p] = 0
  BY DEF Init, RestingAt, LiveIds, Mapped
<1>2. SumFunctionOnSet(Leaves, {}) = 0
  BY SumOfNone
<1>3. 0 % QtyMod = 0
  BY QtyModAssumption
<1>. QED BY <1>1, <1>2, <1>3

\* A level's total is the sum of its orders, modulo the uint64 range, whatever sequence
\* of fills, cancels, replacements and wraps brought it about.
THEOREM TotalsAreSums == Spec => []TotalsMatch
<1>1. Init => TotalsMatch
  BY TotalsInit
<1>2. CountInv /\ TotalsMatch /\ [Next]_vars => TotalsMatch'
  BY TotalsStep
<1>. QED BY <1>1, <1>2, CountInvariance, PTL DEF Spec

-----------------------------------------------------------------------------
(* Fill or kill *)

\* The prices of a book are finitely many.
LEMMA PricesFinite == IsFiniteSet(Prices)
<1>1. CASE Prices = {}
  BY <1>1, FS_EmptySet
<1>2. CASE Prices # {}
  <2>1. PICK lo \in Prices, hi \in Prices : \A p \in Prices : lo <= p /\ p <= hi
    BY <1>2, PricesAssumption
  <2>2. lo \in Int /\ hi \in Int /\ Prices \subseteq lo .. hi
    BY <2>1, PricesAssumption
  <2>3. IsFiniteSet(lo .. hi)
    BY <2>2, FS_Interval
  <2>. QED BY <2>2, <2>3, FS_Subset
<1>. QED BY <1>1, <1>2

\* The orders a taker of this side, limited by price, may trade with.
Against(side, price) ==
    {id \in LiveIds : /\ order[id].side = Opposite(side)
                      /\ Marketable(side, price, order[id].price)}

\* What the FOK check counts is there: a sum that wrapped, or that left prices out, only
\* falls short.
LEMMA FillableIsThere ==
  ASSUME CountInv, TotalsMatch, NEW side \in Sides, NEW price \in Int
  PROVE  Fillable(side, price) <= Available(side, price)
<1> DEFINE o == Opposite(side)
           range == {p \in indexed[o] :
                       IF side = "Bid" THEN RangeLow <= p /\ p <= price
                                       ELSE price <= p /\ p <= RangeHigh}
           part == [p \in range |-> RestingAt(o, p)]
           f == Leaves
           g == [p \in range |-> SumFunctionOnSet(Leaves, RestingAt(o, p))]
           there == UNION {part[p] : p \in range}
<1>1. o \in Sides /\ range \subseteq LevelPrices /\ IsFiniteSet(range) /\ IsFiniteSet(LiveIds)
  <2>1. o \in Sides
    BY DEF Sides, Opposite
  <2>2. range \subseteq LevelPrices
    BY <2>1 DEF CountInv, IInv, TypeOK
  <2>3. range \subseteq Prices
    BY <2>2 DEF LevelPrices
  <2>. QED BY <2>1, <2>2, <2>3, PricesFinite, FS_Subset DEF CountInv
<1>2. QtyMod \in Nat \ {0} /\ \A i \in LiveIds : f[i] \in Nat /\ f[i] \in Int
  BY LeavesFacts DEF CountInv
<1>3. \A p \in range : /\ part[p] \subseteq LiveIds
                       /\ g[p] = SumFunctionOnSet(f, part[p])
                       /\ total[o][p] = g[p] % QtyMod
  BY <1>1 DEF RestingAt, TotalsMatch
<1>4. \A p, q \in range : p # q => part[p] \cap part[q] = {}
  BY DEF RestingAt
<1>5. there \in SUBSET Against(side, price)
  <2> SUFFICES ASSUME NEW p \in range, NEW id \in part[p]
               PROVE  id \in Against(side, price)
    OBVIOUS
  <2>1. id \in LiveIds /\ order[id].side = o /\ order[id].price = p
    BY DEF RestingAt
  <2>2. Marketable(side, price, p)
    <3>1. p \in Int
      BY <1>1, PricesAssumption DEF LevelPrices
    <3>. QED BY <3>1 DEF Marketable
  <2>. QED BY <2>1, <2>2 DEF Against
<1> HIDE DEF f, part, range, o
<1>6. SumFunctionOnSet(g, range) = SumFunctionOnSet(f, there)
  <2> HIDE DEF g
  <2>1. /\ IsFiniteSet(LiveIds) /\ IsFiniteSet(range)
        /\ \A x \in LiveIds : f[x] \in Int
        /\ \A p \in range : part[p] \subseteq LiveIds /\ g[p] = SumFunctionOnSet(f, part[p])
        /\ \A p, q \in range : p # q => part[p] \cap part[q] = {}
    BY <1>1, <1>2, <1>3, <1>4
  <2>2. PartSums(f, g, LiveIds, range, part)
    BY <2>1 DEF PartSums
  <2>3. there = AllParts(range, part)
    BY DEF there, AllParts
  <2>. QED BY <2>2, <2>3, SumOfParts
<1>7. \A p \in range : g[p] \in Int
  <2> TAKE p \in range
  <2>1. IsFiniteSet(part[p]) /\ \A x \in part[p] : f[x] \in Int
    BY <1>1, <1>2, <1>3, FS_Subset
  <2>2. SumFunctionOnSet(f, part[p]) \in Int
    BY <2>1, SumType
  <2>. QED BY <1>3, <2>2
<1>8. SumFunctionOnSet(total[o], range) % QtyMod = SumFunctionOnSet(g, range) % QtyMod
  <2> HIDE DEF g
  <2>. QED BY <1>1, <1>2, <1>3, <1>7, SumMod
<1> HIDE DEF g, there
<1>9. /\ SumFunctionOnSet(f, there) <= SumFunctionOnSet(f, Against(side, price))
      /\ SumFunctionOnSet(f, there) \in Nat /\ SumFunctionOnSet(f, Against(side, price)) \in Nat
  <2>1. IsFiniteSet(Against(side, price)) /\ \A x \in Against(side, price) : f[x] \in Nat
    BY <1>1, <1>2, FS_Subset DEF Against
  <2>. QED BY <1>5, <2>1, SumMonotone
<1>10. Available(side, price) = SumFunctionOnSet(f, Against(side, price))
  BY DEF Available, Against, f
<1>11. Fillable(side, price) = SumFunctionOnSet(total[o], range) % QtyMod
  BY DEF Fillable, o, range
<1> DEFINE a == SumFunctionOnSet(f, there)
<1> HIDE DEF a
<1>12. a % QtyMod <= a
  <2>1. a \in Nat
    BY <1>9 DEF a
  <2>. QED BY <1>2, <2>1, ModAtMost
<1>13. a % QtyMod \in Int
  BY <1>2, <1>9, DivMod DEF a
<1>. QED BY <1>6, <1>8, <1>9, <1>10, <1>11, <1>12, <1>13 DEF a

LEMMA FillableType ==
  ASSUME CountInv, NEW side \in Sides, NEW price \in Int
  PROVE  Fillable(side, price) \in Int
<1> DEFINE o == Opposite(side)
           range == {p \in indexed[o] :
                       IF side = "Bid" THEN RangeLow <= p /\ p <= price
                                       ELSE price <= p /\ p <= RangeHigh}
<1>1. o \in Sides
  BY DEF Sides, Opposite
<1>2. range \subseteq LevelPrices
  BY <1>1 DEF CountInv, IInv, TypeOK
<1>3. IsFiniteSet(range)
  BY <1>2, PricesFinite, FS_Subset DEF LevelPrices
<1>4. \A p \in range : total[o][p] \in Int
  BY <1>1, <1>2 DEF CountInv, IInv, TypeOK, Quantity
<1> HIDE DEF o, range
<1>5. SumFunctionOnSet(total[o], range) \in Int
  BY <1>3, <1>4, SumType
<1>6. SumFunctionOnSet(total[o], range) % QtyMod \in Int
  BY <1>5, QtyModAssumption, DivMod
<1>. QED BY <1>6 DEF Fillable, o, range

LEMMA AvailableType ==
  ASSUME CountInv, NEW side, NEW price
  PROVE  Available(side, price) \in Int
<1>1. IsFiniteSet(Against(side, price)) /\ \A i \in Against(side, price) : Leaves[i] \in Int
  BY LeavesFacts, FS_Subset DEF CountInv, Against
<1>2. SumFunctionOnSet(Leaves, Against(side, price)) \in Int
  BY <1>1, SumType
<1>. QED BY <1>2 DEF Available, Against

\* A fill-or-kill order on its way never wants more than it may trade with.
FokCovered ==
    (pc # "Idle" /\ taker.op = "New" /\ taker.bounded /\ taker.tif = "Fok")
        => taker.remaining <= Available(taker.side, taker.bound)

FokInv == CountInv /\ TotalsMatch /\ FokCovered

LEMMA AvailableIs ==
  \A side, price : Available(side, price) = SumFunctionOnSet(Leaves, Against(side, price))
  BY DEF Available, Against

\* newOrder lets a fill-or-kill order in only when the check covers it.
LEMMA FokBegins ==
  ASSUME FokInv, NEW c \in Commands, Apply(c)
  PROVE  FokCovered'
<1>1. /\ CountInv /\ TotalsMatch /\ IInv /\ pc = "Idle"
  BY DEF FokInv, CountInv, Apply
<1>2. CASE pc' = "Idle"
  BY <1>2 DEF FokCovered
<1>3. CASE c.kind = "Replace" /\ ReplaceAndCross(c)
  <2>1. taker'.op = "Replace"
    BY <1>3 DEF ReplaceAndCross, BeginCross
  <2>. QED BY <2>1 DEF FokCovered
<1>4. CASE c.kind = "New" /\ NewOrder(c) /\ NewRefusal(c) = "None"
  <2>1. /\ UNCHANGED <<order, queue, total, indexed, live>>
        /\ taker' = [op |-> "New", id |-> c.id, side |-> c.side,
                     bounded |-> (c.otype = "Limit"), bound |-> c.price,
                     remaining |-> c.qty, tif |-> c.tif, at |-> c.price]
    BY <1>4 DEF NewOrder, BeginCross, bookVars
  <2>2. SUFFICES ASSUME taker'.bounded, taker'.tif = "Fok"
                 PROVE  taker'.remaining <= Available(c.side, c.price)'
    BY <2>1 DEF FokCovered
  <2>3. c.otype = "Limit" /\ c.tif = "Fok"
    BY <2>1, <2>2
  <2>4. ~(Fillable(c.side, c.price) < c.qty)
    BY <1>4, <2>3 DEF NewRefusal
  <2>5. c.side \in Sides /\ c.price \in Int /\ c.qty \in Int
    <3>1. c \in [kind : {"New"}, id : OrderIds, side : Sides, otype : {"Limit"},
                 price : Prices, qty : Qtys, tif : Tifs]
      BY <1>4, <2>3 DEF Commands
    <3>2. c.side \in Sides /\ c.price \in Prices /\ c.qty \in Qtys
      BY <3>1
    <3>3. c.price \in Int
      BY <3>2, PricesAssumption, Zenon
    <3>4. c.qty \in 0 .. (QtyMod - 1)
      BY <3>2, QtysAssumption, Zenon
    <3>. QED BY <3>2, <3>3, <3>4, QtyModAssumption
  <2>6. Fillable(c.side, c.price) <= Available(c.side, c.price)
    BY <1>1, <2>5, FillableIsThere
  <2>7. Available(c.side, c.price)' = Available(c.side, c.price)
    BY <2>1 DEF Available, Leaves, LiveIds, Mapped
  <2>8. Fillable(c.side, c.price) \in Int /\ Available(c.side, c.price) \in Int
    BY <1>1, <2>5, FillableType, AvailableType
  <2>. QED BY <2>1, <2>4, <2>5, <2>6, <2>7, <2>8
<1>5. CASE UNCHANGED pc
  BY <1>1, <1>2, <1>5
<1>. QED BY <1>3, <1>4, <1>5
        DEF Apply, NewOrder, CancelOrder, ReplaceOrder, Reject, ReplaceInPlace

\* A fill takes as much from what is there as from the order's remainder.
LEMMA FokFills ==
  ASSUME FokInv, Fill, IInv'
  PROVE  FokCovered'
<1> DEFINE id == maker
           s == taker.side
           b == taker.bound
           q == fillQty
<1>1. /\ IInv /\ IsFiniteSet(LiveIds) /\ pc = "Fill"
      /\ OnlyOrder(id, opp, taker.at) /\ HeldNext(id) = order[id].qty - q
      /\ id \in LiveIds /\ q \in Nat /\ taker.remaining \in Int
      /\ Held(id) = order[id].qty /\ order[id].qty \in Int
  BY FillTotals, TakerFacts, LeavesFacts DEF FokInv, CountInv, TotalStep, Fill, Held
<1>2. taker' = [taker EXCEPT !.remaining = @ - q] /\ taker \in Taker
  BY <1>1, TakerFacts DEF Fill
<1>3. /\ taker'.op = taker.op /\ taker'.bounded = taker.bounded /\ taker'.tif = taker.tif
      /\ taker'.side = s /\ taker'.bound = b /\ taker'.remaining = taker.remaining - q
  BY <1>2 DEF Taker
<1> HIDE DEF id, q
<1> DEFINE S == Against(s, b)
           R == {i \in LiveIds' : /\ order'[i].side = Opposite(s)
                                  /\ Marketable(s, b, order'[i].price)}
<1>4. /\ S \in SUBSET LiveIds /\ R \in SUBSET LiveIds' /\ R \ {id} = S \ {id}
  <2>1. \A i \in LiveIds \ {id} : i \in LiveIds' /\ order'[i] = order[i]
    BY <1>1 DEF OnlyOrder
  <2>2. LiveIds' \ {id} = LiveIds \ {id}
    BY <1>1 DEF OnlyOrder
  <2>. QED BY <2>1, <2>2 DEF Against
<1>5. /\ SumFunctionOnSet(Leaves', R) = SumFunctionOnSet(Leaves, S)
            + ((IF id \in R THEN order'[id].qty ELSE 0)
                 - (IF id \in S THEN order[id].qty ELSE 0))
      /\ SumFunctionOnSet(Leaves, S) \in Int
  <2> HIDE DEF R, S
  <2>. QED BY <1>1, <1>4, QtySumChange
<1>6. id \in R => id \in S
  <2>1. id \in LiveIds' => order'[id].side = order[id].side /\ order'[id].price = order[id].price
    BY <1>1 DEF OnlyOrder
  <2>. QED BY <1>1, <2>1 DEF Against
<1>7. id \in S /\ id \in LiveIds' => id \in R
  <2>1. id \in LiveIds' => order'[id].side = order[id].side /\ order'[id].price = order[id].price
    BY <1>1 DEF OnlyOrder
  <2>. QED BY <1>1, <2>1 DEF Against
<1>8. Available(taker.side, taker.bound)' = SumFunctionOnSet(Leaves', R)
  <2>1. taker'.side = s /\ taker'.bound = b
    BY <1>3
  <2>. QED BY <2>1 DEF Available, Marketable, Opposite
<1>9. Available(s, b) = SumFunctionOnSet(Leaves, S)
  BY AvailableIs
<1> HIDE DEF R, S
<1>10. SumFunctionOnSet(Leaves', R) >= SumFunctionOnSet(Leaves, S) - q
  <2>1. CASE id \in S
    <3>1. (IF id \in R THEN order'[id].qty ELSE 0) = HeldNext(id)
      BY <1>4, <1>6, <1>7, <2>1 DEF HeldNext
    <3>. QED BY <1>1, <1>5, <2>1, <3>1
  <2>2. CASE id \notin S
    BY <1>1, <1>5, <1>6, <2>2
  <2>. QED BY <2>1, <2>2
<1>11. SumFunctionOnSet(Leaves', R) \in Int
  <2>1. id \in R => order'[id].qty \in Int
    BY <1>4, LeavesNext
  <2>. QED BY <1>1, <1>5, <2>1
<1>. QED BY <1>1, <1>3, <1>5, <1>8, <1>9, <1>10, <1>11 DEF FokInv, FokCovered

LEMMA FokStep ==
  ASSUME FokInv, [Next]_vars
  PROVE  FokInv'
<1>1. IInv /\ IInv' /\ CountInv' /\ TotalsMatch'
  BY NextInv, CountNext, TotalsStep DEF FokInv, CountInv
<1> SUFFICES FokCovered'
  BY <1>1 DEF FokInv
<1>2. CASE \E c \in Commands : Apply(c)
  BY <1>2, FokBegins
<1>3. CASE Fill
  BY <1>1, <1>3, FokFills
<1>4. CASE Cross \/ Trade \/ Unlink
  <2>1. /\ order' = order /\ taker \in Taker /\ pc # "Idle"
        /\ taker' = taker \/ taker' = [taker EXCEPT !.at = BestPrice(opp)]
    BY <1>1, <1>4, TakerFacts DEF Cross, Trade, Unlink, bookVars
  <2>2. /\ taker'.op = taker.op /\ taker'.bounded = taker.bounded /\ taker'.tif = taker.tif
        /\ taker'.side = taker.side /\ taker'.bound = taker.bound
        /\ taker'.remaining = taker.remaining
    BY <2>1 DEF Taker
  <2>3. Available(taker.side, taker.bound)' = Available(taker.side, taker.bound)
    BY <2>1, <2>2 DEF Available, Leaves, LiveIds, Mapped, Marketable, Opposite
  <2>. QED BY <2>1, <2>2, <2>3 DEF FokInv, FokCovered
<1>5. CASE Finish
  BY <1>5 DEF Finish, FokCovered
<1>6. CASE UNCHANGED vars
  <2>1. order' = order /\ taker' = taker /\ pc' = pc
    BY <1>6 DEF vars
  <2>. QED BY <2>1 DEF FokInv, FokCovered, Available, Leaves, LiveIds, Mapped, Marketable, Opposite
<1>. QED BY <1>2, <1>3, <1>4, <1>5, <1>6 DEF Next, Step

\* At the end of cross nothing marketable is left, so nothing is left to want.
LEMMA FokEnds == FokInv => FokAllOrNothing
<1> SUFFICES ASSUME FokInv, pc = "Finish", taker.op = "New", taker.bounded, taker.tif = "Fok"
             PROVE  taker.remaining = 0
  BY DEF FokAllOrNothing
<1>1. IInv /\ taker.remaining \in Nat /\ opp \in Sides
  BY TakerFacts DEF FokInv, CountInv, Quantity
<1>2. SUFFICES ASSUME taker.remaining > 0 PROVE FALSE
  BY <1>1
<1>3. NothingMarketable
  BY <1>1, <1>2 DEF IInv, CrossState
<1>4. Against(taker.side, taker.bound) = {}
  <2> SUFFICES ASSUME NEW id \in Against(taker.side, taker.bound) PROVE FALSE
    OBVIOUS
  <2> DEFINE p == order[id].price
  <2>1. id \in LiveIds /\ order[id].side = opp /\ Marketable(taker.side, taker.bound, p)
    BY DEF Against, opp
  <2>2. p \in LevelPrices /\ id \in RestingAt(opp, p)
    BY <1>1, <2>1, LeavesFacts DEF RestingAt
  <2>3. id \in ToSet(queue[opp][p])
    BY <1>1, <2>2 DEF IInv, QueuesMatchOrders
  <2>4. queue[opp][p] # <<>>
    BY <2>3 DEF ToSet
  <2>5. p \in indexed[opp]
    BY <1>1, <2>2, <2>4 DEF IInv, IndexMatchesLevels
  <2>. QED BY <1>3, <2>1, <2>5 DEF NothingMarketable
<1>5. Available(taker.side, taker.bound) = 0
  BY <1>4, AvailableIs, SumOfNone
<1>. QED BY <1>1, <1>2, <1>5 DEF FokInv, FokCovered

\* A fill-or-kill order that was let in is filled: the uint64 sum of the check, whether
\* it wrapped or not, is at most what cross then finds.
THEOREM FokFillsCompletely == Spec => []FokAllOrNothing
<1>1. Init => FokInv
  <2>1. Init => CountInv /\ TotalsMatch
    BY CountInit, TotalsInit
  <2>2. Init => FokCovered
    BY DEF Init, FokCovered
  <2>. QED BY <2>1, <2>2 DEF FokInv
<1>2. FokInv /\ [Next]_vars => FokInv'
  BY FokStep
<1>. QED BY <1>1, <1>2, FokEnds, PTL DEF Spec

=============================================================================
