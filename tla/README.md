# A verified model of matcher-go

matcher-go is a single-writer, deterministic limit order book in Go, with a
multi-symbol engine, journals, snapshots and command line tools around it. This
directory holds TLA+ modules that model its core, TLC configurations that check
them on small instances, and proofs, checked by TLAPS, that hold for every
instance. Paths such as `book.go:51` are relative to the repository's root.

## 1. The system

| Component | Code | State | Operations |
|---|---|---|---|
| Order book | `book.go`, `types.go` | store, order map, two price indexes, event sequence number, one reused event | `Apply` (new, cancel, replace), the queries, `RestingOrders`, `Restore`, `Prefault` |
| Order store | `store.go` | a slab of 6-slot chunks, free list, live count; per level a list of chunks and a running total | `push`, `unlink`, `allocChunk`, `dropChunk`, `forEach`, `prefault` |
| Order map | `omap.go` | tag and entry arrays, length, count of removals | `get`, `insert`, `remove` (backward shift) |
| Ladder index | `index.go:93-276` | a level per price, bitmap and summary, cursor, count | `levelInsert`, `unlinkLevel`, `rescan`, `sumRange`, `depth`, `bestPrice` |
| Tree index | `index.go:278-363` | two parallel slices, prices ascending and their levels | the same |
| Engine | `engine.go` | symbol -> book, default configuration | `AddSymbol`, `Submit`, `SubmitTagged`, `Symbols` |
| Journals | `journal.go` | a writer, a scratch buffer | `Record` (before apply), `OnEvent` (before the inner sink) |
| Snapshots | `snapshot.go`, `cmd/matchersnap`, `cmd/matcherrecover` | text | `WriteEngine`, `ParseSnapshot`, `RestoreEngine`, replay of a journal tail |
| Sinks | `sink.go` | per sink | `OnEvent` |
| Batch look-ahead | `batch*.go` | none that matters | `ApplyBatch` |
| Tools | `cmd/*`, `internal/vecload`, `tools/vectorgen` | none | drivers, parsing, benchmark |

**How they interact.** A caller sends a command to a book, directly or through
the engine. The book looks the id up in the order map, which gives a *loc* (a
chunk and a slot of the store); it asks the opposite index for its best price,
consumes that level's front orders, and rests a remainder by asking its own
index for the level, pushing into the store and entering the loc in the map.
Every event is a synchronous call of the sink, *in the middle of the command*.

**What is hard.** Nothing in a book runs concurrently; the difficulty is in
four structures that say the same thing in different words and are updated at
different moments of one command: an order's slot, its map entry, its level's
total and list, the bitmap and the cursor. The sink runs between those
moments, so their inconsistency can be seen. To this come cached positions (the map entry index
that `replace` holds over `cross`, a chunk's cursor, the best price), limits
(`max_orders`, the slab's capacity, word edges, uint64 sums) and, outside the
book, crashes between journal, apply and snapshot. `PROJECT.json` lists each
hazard with its line and the property that covers it.

**What makes each component correct.**

- *Book*: never crossed, price-time priority, each id owned by at most one
  order, FOK all or nothing, post-only never takes, exact count, every command
  ends, and the events and the final book are those of the specification.
- *Store*: chunks partitioned between levels and free list; locs stay right as
  long as the order lives; a level acts as a FIFO queue; the slab never overflows.
- *Map*: acts as a function; `get` finds every entry after any removals; an
  entry index is valid until the next removal.
- *Indexes*: occupied exactly where there are orders; the cursor is on the best
  level; range sums and depth are exact.
- *Engine, journals, snapshots*: books are independent; a restored engine
  continues as the original would; a crash loses nothing that was acknowledged.

## 2. Modules

| Module | Models |
|---|---|
| `OrderBook` | `book.go`: every command, one action per stretch of code between two points where the sink may look |
| `BookAnswers` | what a book answers to a command, in closed form: the events and the book after it, with no loop |
| `BookSpec` | what a caller is promised: every command has its answer of `BookAnswers`, at once or a while later |
| `OrderBookRefinement` | `OrderBook` with three history variables, and the refinement mapping to `BookSpec` |
| `OrderBookProofs`, `OrderMapProofs`, `ChunkStoreProofs`, `LadderIndexProofs`, `TreeIndexProofs`, `BookAnswersProofs`, `EngineRecoveryProofs` | the theorems about the module each is named for, with proofs; those of `LadderReplace` are in `ChunkStoreProofs` |
| `DataFacts` | lemmas on numbers, recursion and sums over finite sets that these proofs share |
| `OrderMap` | `omap.go`, with the scan of `remove` one entry at a time |
| `ChunkStore` | `store.go`, and the loop body of `cross` as it acts on the store |
| `LadderIndex` | one side's ladder of `index.go` |
| `TreeIndex` | one side's tree (sorted slices) of `index.go` |
| `LadderReplace` | the ladder's written-out `replace` (`book.go:132-277`), over one `ChunkStore` and two `LadderIndex` |
| `EngineRecovery` | `engine.go`, `journal.go`, `snapshot.go`, `Restore` and `cmd/matcherrecover`, with crashes and failing writes, over `BookAnswers` |
| `MCOrderBook`, `MCRefinement`, `MCOrderMap`, `MCChunkStore`, `MCLadderReplace`, `MCEngineRecovery` | symmetry sets, commands, configurations and a view for TLC |

How they fit together: `OrderBook` implements `BookSpec` (`book_refines`), so the engine of
`EngineRecovery` may take a book's answer from `BookAnswers` in one step. Below `OrderBook`,
`ChunkStore`, `OrderMap` and the two indexes justify its queues, its map and its sets of prices,
and `LadderReplace` shows that the one command that goes around their helpers does not go around what they promise.

### OrderBook

`order` is the order map together with the slots its locs lead to; `queue` and
`total` are the levels; `indexed` the occupied prices of each side; `live` is
`store.live`; `seq` and `ev` are what the sink has last seen; `pc` says where
`Apply` is and `taker` holds the arguments and locals of `cross`. Below the
book, a level is a queue, an index a set of prices, the map a function; that these
readings are right is the subject of `ChunkStore`, `LadderIndex`, `TreeIndex` and
`OrderMap`.

`Apply(c)` is a command up to its answer or its call of `cross`. `Cross` is the
top of the outer loop, `Trade` the announcement of a trade, which precedes
the change of the book, `Fill` the rest of the inner loop's body, `Unlink` what
follows the inner loop, `Finish` the end of `newOrder` or of `replace`. A
replaced order that crosses stays in `order` with quantity 0, as its map entry
and dead slot do in the code.

Both index kinds are covered by the constant `Index`: they differ, for the book,
in the prices they accept and in the bounds of the FOK sum.

The ladder's `replace` (`book.go:132`) is `replaceGeneric` written out by hand;
`OrderBook` has one `ReplaceOrder` for both. That the fast path deserves it is the
subject of `LadderReplace`.

### OrderMap, ChunkStore, LadderIndex, TreeIndex

Each has the operations in the form the book calls them. `OrderMap` starts with
any hash function, and includes the index that `replace` holds while other
orders are removed (`Hold`, `Rewrite`). In `ChunkStore`, `Spend` is what
`unlink`, the loop of `cross` and a reduction in place have in common. In
`LadderIndex` a word is the set of its bits, so `TrailingZeros64` is a minimum.
`TreeIndex` follows the pointer into the slice of levels that `cross` keeps
(`TakeLevel` to `LeaveHeld`), and records in `rested` what the book did at each
price, to compare the slices with.

### LadderReplace

`replace` on a ladder does not call `unlink`, `unlinkLevel`, `levelInsert` and `push` but
repeats them over the chunks, the bitmaps and the cached counts. One action is one stretch of
it: `InPlace` (the reduction that keeps priority), `Leave` (out of the chunk, the level and the
bitmap), `CrossFront` (one maker of the `cross` it calls when the opposite best price is
marketable), `FinishFilled`, and `RestRemainder` (into the bitmap, a chunk and the level).
`op` holds the replacement between them. New orders and cancels go through the helpers,
and shape the book the replacement meets.

`FastPathIsGeneric` compares each stretch, as a step, with the helpers' own actions in `ChunkStore` and
`LadderIndex`: the same chunks, free list, cursors, totals, live count, bitmap, summary, count and best price. The ladders
are `Bids` and `Asks`, instances of `LadderIndex` whose `filled` and `total` are read off the store (`Occupied`, `LevelTotals`), so
`LaddersMatchStore` is an invariant over both structures. The map entry the order keeps meanwhile is in `OrderMap` (`Hold`, `Rewrite`).

### EngineRecovery

The state is in three parts. In memory: `engine` (the default configuration and the books), `pending` and `inflight` (the command
being submitted and its events not yet handed on), `next` (the journal line replay is at). In files: `cmdlog`, `snap`, and `evtlog`,
the event journal; `open` says that the last line of the command journal has no newline. History: `accepted`, every
command applied or recorded whole, with the calls of `AddSymbol`, and `damaged`, the symbols that some recovery brought back without all of
their past. `Ideal(s)`, which each entry of `accepted` carries on, is the book of an engine that never stopped and the events it has caused: it is the abstract specification.

A command is `Record` (the journal line, whose write may fail, be cut or lose its newline; the code does not look),
`Submit` (the book's answer), then `JournalEvent` and `Forward` for each event. `Crash` may
come between any two, also during recovery, `CrashInRecord` inside the journal write and
`CrashInSnapshot` inside the write of the snapshot, which goes over the one before (`os.WriteFile`). A snapshot
is the list of `WriteEngine`'s records; in the file there are `kept` of them, and `torn` is what the parser makes of the next one, which is cut. `TornAs` translates that from the key
search of `getStr`, `getU64` and `getI64` in the branches of `ParseSnapshot`: it panics, it is taken for a header that sets band and limit to 0, or the number it is cut in loses digits and
those behind it are 0. So an order has a smaller quantity, and a book a smaller sequence number, or the symbol of another book and the sequence number 0 (`"symbol":12` cut to
`"symbol":1`, or to no digit, which is symbol 0). `RestoreEngine` then puts that empty book in the place of the intact book of the other symbol, without an error. The digits are those of base
two (`CutOff`), so that the small numbers of a run have some to lose.
`Recover` is the start of `matcherrecover`, `ReplayLine` one round of its loop. A journal line becomes a command through `Cmd`,
every number through a float64 that is exact up to the constant `Exact`.

Three actions are not code but what the documentation and the tests have the operator do: `BeginJournal` (the tail
begins at the snapshot), `RepairJournal` and `DropSnapshot` (what cannot be read is removed by hand).

What recovery promises is stated per symbol. `RecoversExactly` says that a
symbol none of whose past is missing (`Recoverable`) comes back with its queues in order and its sequence number,
however often the process stopped and whatever else the *other* symbols lost, and that it stays so. `PublishedIsStream` says that the event journal of such a symbol is at every moment a
beginning of one stream, although replay writes its events again, and that the sink behind it has
had nothing the journal lacks. What is excluded is what the code gives up, in the states of the model: a
command whose line is not in the journal, a snapshot cut before the symbol's end, one cut in a header or before the kind of a record, which loses every symbol, `AddSymbol` since the snapshot
or with a configuration of its own, a crash after the snapshot was written and before the new journal was begun, which repeats
commands the snapshot has, and a snapshot in which the book record of *another* symbol is cut to the symbol's own number (`ReadAsBookOf`). The last one takes the past of a symbol whose own records
and lines are all there: its queues are gone and the numbers of its event journal start again. A symbol that had no book loses nothing by it, since the book is empty.

### Mutations

Definitions commented `Mutation:` change the definition that follows them as a plausible
bug would (a strict comparison, a missing reset, a forgotten wrap). No
specification uses them. Each property has one that TLC finds violating it when
it takes the original's place, so no property holds merely by the model's shape.

## 3. Runs

| Run | Configuration | Shows |
|---|---|---|
| `book_ladder` | 4 ids, prices 0-2 of which 1-2 are valid, quantities 0-2, arithmetic modulo 4, 3 orders | all safety invariants of the book and `PriorityStable`, at every point where a sink may look |
| `book_refines` | 3 ids, tree index, quantities 1-2 | `OrderBook` implements `BookSpec` |
| `book_terminates` | 3 ids, 2 prices | every command ends, under weak fairness |
| `order_map` | 5 keys, 8 slots, homes 0, 6, 7 | the map's invariants inside and between operations, and `ActsAsMap` |
| `chunk_store` | 4 ids, 2 levels, 3 chunks of 2 slots | list structure, locs, totals, capacity, `ActsAsQueues` |
| `ladder_index` | 9 prices, 2-bit words, 5 words, 3 summary words | bitmap, cursor, sums and depth, both sides |
| `tree_index` | 5 sparse prices, sums for all bounds 0-8 | both slices move together, the pointer `cross` holds stays valid, search, sums and depth are exact |
| `ladder_replace` | 3 ids, 2 sides of 3 prices, 3 chunks of 2 slots, 2-bit words | each stretch of the written-out replace does what the helpers do; both ladders match the store throughout |
| `engine_recovery` | 2 symbols, 5 commands, 2 configurations for `AddSymbol`, 4 inputs and faults | recovery brings back every undamaged symbol exactly, one event stream per symbol, failure only over damage |
| `fok_wrap` | 3 ids, arithmetic modulo 4 | a violation: see section 6 |
| `fok_tree_cap` | tree index, cap below the highest price | a violation: see section 6 |
| `journal_float64` | 2 ids, numbers exact up to 4 | a violation: see section 6 |

**Why the bounds are enough.**

- *Book.* With three resting orders and two levels a command can walk one
  level in part, drain one and go on, drain all, and find three orders in one
  queue; a fourth id meets the full book, and price 0 and quantity 0 the refusals.
  Modulo 4, two orders of quantity 2 already make a level's total
  wrap, so `TotalsMatch` and `FokAllOrNothing` are checked past a wrap.
  `SeqRange = 1` folds the event number away: it only grows and nothing reads
  it. `book_refines` uses a modulus no total reaches, since `BookSpec`
  counts in plain integers; where the two differ is the finding of `fok_wrap`.
- *Map.* The capacity is 8 with up to 4 entries (the code's rule: at least
  half is empty); homes 6, 7 and 0 make clusters that cross the end of the
  table, and with five keys a removed key's place is taken by another. All tags are equal,
  the worst case, in which the tag never tells two keys apart.
  `RemovesRange` exceeds `LiveMax`: one replace's `cross` cannot make enough removals to
  bring a uint64 counter back to its old value.
- *Store.* Two levels of up to two chunks: a dropped chunk is the head, the tail or the
  only one, its neighbours are relinked, the free list holds several, and
  a chunk moves from one level to the other. `TouchStride` 2 lets `prefault` meet used and unused
  chunks. Slots never come back within a chunk's life, so two slots show both a
  dead one before a live one and a full chunk.
- *Ladder.* Two-bit words over nine prices: the last word is partial,
  the summary has three words, and the next occupied price may be in the same
  word, in a word under the same summary word or in another.

- *Tree.* Prices with gaps: bounds fall on a price, between two and beyond both
  ends, and the binary search meets every length from 0 to 5.
- *Fast replace.* Three orders and two-slot chunks: the order leaves a shared or a single
  chunk, at the head, in the middle or at the tail of its level, the level stays or goes, and what rests
  opens a level, a chunk or fills a slot, from the free list or new. Three prices in two-bit words need both words.
  `BookView` hides the fields that a chunk outside every level still has from its former life: they are written before a chunk is used again,
  and neither a guard nor the outcome of a property depends on them.
- *Recovery.* `MaxInputs` counts commands, calls of `AddSymbol`, crashes and failed writes
  together. Four make: three orders that trade and leave a queue, then a crash; two orders, a cut snapshot or a failed write, another
  order; a crash within the recovery from a crash. The bound is in the guards of what consumes it; recovery itself is
  free. On one symbol two orders queue at one price, a third takes one and a half of them and a replacement swaps them; the
  other symbol's order needs a price that only the wider ladder of `AddSymbol` has. Price 0 is in the band, so that a header cut to a band of 0 to 0
  does not always panic. The symbols are 1 and 2: a cut makes 1 or 0 of 2, so that the book of symbol 2 can be read as one of symbol 1, which comes before it in the file, and a book of
  symbol 0 can appear. Without `ReadAsBookOf` in `SnapshotHolds` the run violates both properties. `Exact = 100` keeps the conversion out of this run; `journal_float64` is about it.

**Fairness.** `FairSpec` has weak fairness of `Step`, the actions inside a command. `Apply`
is an ordinary call on the caller's goroutine and waits for nothing, so once begun it goes on; no fairness is
assumed for `Apply(c)`, since no caller is obliged to send a command. A sink that
never returns is outside the model. All other runs check safety only.

Deadlock is checked in every run; no module can stop.

**Faults.** The process stops, and what it has written stays: a power loss, which could
take back writes already acknowledged (the code never syncs), is not modelled. Writes of the command journal fail, or are cut, silently.

## 4. Proofs

TLC checks the runs' instances; the theorems hold for every value of the constants, from the named assumptions the
modules declare. The modules of a component's proofs end in `Proofs`; `DataFacts` has the lemmas on data they share.

| Theorem | Statement |
|---|---|
| **Book** (`OrderBookProofs`) | |
| `Invariance`, `TypeCorrect` | `Spec => []IInv`, `[]TypeOK` |
| `NeverCrossed` | `[]NoCross` |
| `LevelsAndMapAgree` | `[]QueuesMatchOrders` |
| `IndexesAgree` | `[]IndexMatchesLevels` |
| `IdsStayReserved` | `[]IdsReserved` |
| `CrossWalksTheBook` | `[]CrossState` |
| `PostOnlyIsPassive` | `[]PostOnlyNeverTakes` |
| `CountIsExact` | `[]CountMatches` |
| `PriorityHolds` | `PriorityStable`, an action property |
| `TotalsAreSums` | `[]TotalsMatch` |
| `FokFillsCompletely` | `[]FokAllOrNothing` |
| **Map** (`OrderMapProofs`) | |
| `TableInvariant`, `TypeCorrect` | `Spec => []IInv`, `[]TypeOK` |
| `LenCounts` | `[]LenIsOccupancy` |
| `ChainsHold` | `[]ChainsBrokenOnlyAtHole` |
| `GetFindsEntries` | `[]EntriesReachable` |
| `HeldIndexStaysValid` | `[]HeldIndexValid` |
| `TableActsAsMap` | `ActsAsMap`, an action property |
| **Store** (`ChunkStoreProofs`) | |
| `Invariance`, `TypeCorrect` | `Spec => []IInv`, `[]TypeOK` |
| `ListsArePartition` | `[]ListsPartitionChunks` |
| `LocsLeadToSlots` | `[]SlotsMatchLocs` |
| `SlabSuffices` | `[]ChunksWithinLiveOrders` |
| `TotalsAreSums` | `[]TotalsMatch` |
| `ActsLikeQueues` | `ActsAsQueues`, an action property |
| `BookInvariance` (with both ladders) | `BookSpec => []BookInv` |
| `LaddersMatch` | `BookSpec => []LaddersMatchStore` |
| `FastPath` | `BookSpec => FastPathIsGeneric`, an action property |
| **Ladder** (`LadderIndexProofs`) | |
| `LadderInvariant`, `TypeCorrect` | `Spec => []IInv`, `[]TypeOK` |
| `BitmapMatches` | `[]OccupancyMatches` |
| `CursorOnBest` | `[]BestIsBest` |
| `SumsOverRanges` | `[]RangeSumsExact` |
| `DepthListsBest` | `[]DepthIsBestFirst` |
| **Tree** (`TreeIndexProofs`) | |
| `TreeInvariant`, `TypeCorrect` | `Spec => []IInv`, `[]TypeOK` |
| `SlicesInStep` | `[]LevelsAtTheirKeys` |
| `PointerStaysOnLevel` | `[]HeldAtItsPrice` (stated in the proofs; the run's `LevelsAtTheirKeys` needs it) |
| `SumsOverRanges` | `[]RangeSumsExact` |
| `DepthListsBest` | `[]DepthIsBestFirst` |
| **Engine, journals, snapshots** (`EngineRecoveryProofs`, on the lemmas of `BookAnswersProofs`) | |
| `Soundness`, `TypeCorrect` | `Spec => []Sound`, `[]TypeOK` |
| `FailsOnly` | `[]FailsOnlyWhenDamaged` |
| `Exactness` | `Spec => []IInv`, if `EntriesExact` |
| `RecoversBooks` | `[]RecoversExactly`, if `EntriesExact` |
| `PublishesStream` | `[]PublishedIsStream`, if `EntriesExact` |

**Data.** What a loop or a sum computes for every input is an induction over data. The provers cannot apply the library's induction theorems, so
`DataFacts` puts a counterexample in the place of the induction: a set of naturals with a member has a least one (`LeastNat`), a property of
finite sets that fails has a smallest set where it fails (`SmallestSet`), and a definition by recursion whose argument descends
in a measure satisfies its equation (`Recursion`, `Descent`). From these come the laws of sums over finite
sets (a member more or less, parts, monotonicity, sums modulo the width of the counter). That is why the loops of the model
(`SeekUp` and `SeekDown` over the summary's words, `Halving` of `sort.Search`, the doubling of the map's capacity, the walk along the chunks) are
recursive functions.

**Book.** The assumptions are that quantities fit the
modulus, and that every non-empty set of prices has a lowest and a highest,
which holds of int64; `OrderIds` may be infinite. `IInv` is the conjunction of `TypeOK`, `QueuesMatchOrders`,
`IdsReserved`, `IndexMatchesLevels`, `NoCross` and `CrossState`, and it is inductive. None of the
conjuncts is by itself. That the book is not crossed after a rest needs to know that
nothing marketable was left (`CrossState` at `Finish`); that is known
when `cross` found its best price out of bounds, and carries over to all
prices because `BestPrice` really is the best; that an index entry
stands for orders that can trade needs `IndexMatchesLevels`, with its
exception for the level just drained; that the front of a queue is a live order of that
price needs `QueuesMatchOrders`; and that a filled maker is not the
replaced order itself, whose entry is dead but still mapped, needs `IdsReserved`.
The proof takes the actions one by one, with a lemma for each operation
that several actions share (leaving a level, resting, reducing, being removed).

On top of `IInv`: `CountMatches`, a lemma per way the set of live orders
changes, with the library's facts about finite cardinalities. `PostOnlyNeverTakes`, from `CrossState`: a post-only order that is let
in finds nothing marketable and never reaches `Trade`. `PriorityStable`: each change of a level is a removal, an append or none, and these keep
the order of those that stay. `TotalsMatch`: each action changes a level's sum by what it adds to its
total, modulo the counter. `FokAllOrNothing` adds an invariant of the walk, that what remains of a fill-or-kill order is
at most the quantity within its limit; it begins with the check, where a sum that wrapped is
only smaller, and goes on because a fill takes as much from the order as from the levels.

**Map.** `IInv` adds three conjuncts to the run's invariants: `KeysOnce` (no key in two slots, without which removing one entry could bring another
to light), `ScanBehindHole` (the scan of `remove` goes once around: what lies between hole and scan has been looked at) and
`HeldSince` (why the held index is right: while the counter of removals is unchanged, nothing moved). That a shift
closes the hole of every chain and opens none is an argument about distances around the table; that
probes and scans end is that half of the table is empty (`LenIsOccupancy`).

**Store.** `IInv` says more than that the lists partition the chunks. The chunks that have a live order are, level by level,
the list from `head` over `next` to `tail` and, backward, over `prev`; the free list holds the other chunks below `used`, so that a chunk
taken from it is nobody's. Every loc names a slot with its id and a
quantity, every slot with a quantity is named by its order's loc and lies between the chunk's two cursors, and a chunk's count is
the number of those: so the chunk that `unlink` drops is empty, and the slot at the cursor that `cross` fills is the
oldest. `live` counts the locs. That the slab suffices is then an injection from chunks in use to the orders in them.
`ActsAsQueues` says what a step does to the turns in which `forEach` meets the orders (`Before`), not to the chunks. The lists before and
after a step name the chunks they share in the same order (`SameTurns`), and orders stay in their slots, so those that stay keep their turns (`TurnsFollow`); the
slot of a new order is the one below the tail of its level's last chunk (`JoinedIsLast`), and the one that a fill takes from is at the cursor of the first (`FrontIsFirst`).

**Ladder.** `BitsMatch` and `Summarises` say of each bit what it stands for, and `BestIsBest` follows from the walk of `rescan`: the
lemmas `FirstFrom` and `LastUpto` characterise its result for any bitmap that the summary describes, from any word. The sum over masked words is
the sum over parts that make up the range. `depth` goes word by word, and the bits of the words it passes are the occupied prices in order: so the
n-th step of the walk lists the n-th best price, with the total of its level (`DepthListsBest`).

**Replace on a ladder.** `ChunkStoreProofs` also proves `LadderReplace`, over the store and two instances of the ladder's proofs (`BidLadder`, `AskLadder`).
The assumptions are `ChunkStore`'s, that `Levels` are pairs of a side and a price of the span, that span and word are not
empty, and that `NIL` is no id. `BookInv` is the store's `IInv`, `IInv` of both ladders, that no bid reaches an ask (`Uncrossed`), and `OpGood`: the order on
its way rests nowhere, there is still room for it under `max_orders`, and what is left of it is a quantity. Each stretch is first shown to be, for the store, the
helper it replaces (`LeaveIsUnlink`, `InPlaceIsShrink`, `RestIsPush`); that is where `OpGood` is needed, since `push` relies on a free chunk and on an
id that is nowhere. What a stretch does to the levels of a side is then one of four things (`Loses`, `Gains`, a total that changes, nothing), and each
is a step that the ladder's invariant survives. `FastPath` uses both, and `Uncrossed` with the cursor's `BestIsBest` to conclude that what rests
has met every order it could trade with.

**Tree.** The halving ends at the one place where the keys below the price stop, provided they ascend; insertion
and removal at that place keep keys and levels in step. The pointer that `cross` holds into the slice is on its level because between the
calls of the sink nothing is inserted or removed (`HeldAtItsPrice`).

**Recovery.** `EntriesExact` is the hypothesis that no number of a command is beyond `Exact`, 2^53 in the code, on either side of 0 (prices may be negative): without it
`journal_float64` refutes `RecoversExactly`, and with it the conversion is the identity on what is sent. `Soundness` and what follows
from it do without.

`BookAnswersProofs` shows that a book in order, that is, with every queue sorted by price, ids that occur once and quantities above 0, is in order
after any answer and within its limit (`AnswerFacts`), and that putting the orders of a book back in the order in which they are listed gives the same
queues (`PutBackFacts`). `Sound` is the invariant that survives any damage: the engine and the engine that the snapshot was taken of are in order, every line of the journal that parses
is an accepted command, and the lines come in the order of the history. The records of the snapshot are laid out in blocks, one for each symbol (`Laid`); what the
parser has made of the first so many of them is known record by record (`ParsedTo`). What the parser makes of a cut one disturbs the book that it names and no other (`CutFacts`, `ShortParsed`), and so a book whose block is
whole, and which the cut record does not name, comes back (`RestoresBook`), and none panics on a ladder whose prices the snapshot has (`PanicsOnlyFor`).

`IInv` adds, for every symbol that has lost nothing, that the engine is at a place `r` of the history (`Exactly`). In service it is the last. While
the journal is replayed `r` lies between the lines that have been read and those that have not: the lines behind the snapshot are the commands since
then (`LinesAre`), in order, so that the next line is the next command of the symbol (`SamePlace`). `Streamed` says that the events in the journal are the
first `n` of the stream, that those in flight follow one another in the stream, and that the first of them is no later than the `n+1`st. That is what makes a replay harmless: it starts from a snapshot
whose events had all left, goes through the same stream again, and only adds an event at the end of what is there.

**Only model-checked.**

- The refinement of `BookSpec` (`book_refines`): a command's answer in closed form against the loop's.
- `CommandTerminates`: liveness and `ENABLED` are beyond the proof system as installed.

## 5. What is not modelled

- *Some cuts of a snapshot*: inside a record, those that leave an order with quantity 0 (cut before the digits of its quantity, or earlier but outside a quoted value; it would rest, and
  the front scan of `book.go:369` would not end), or a header with only some of its fields. A
  snapshot of a single book, and `matchersnap`, which only chains what is modelled.
- *Failing writes of the event journal*: it would lack events, which nothing later reads.
- *Batch look-ahead*: it only reads, and adds the result to a variable nobody reads. The states and events
  are those of `Apply` command by command.
- *Sinks and formatting*: the model's events are records; their text is no property here, but for the numbers that a replay
  reads back. Counting, folding and printing sinks are functions of one event.
- *Tools, benchmark, vector generator*: drivers around the library, but for the parts of `matcherrun` and `matcherrecover` named above. The
  benchmark's start gate is one counter and one flag over books that share nothing; that it opens is an assumption on Go's scheduler.
- *A sink that calls back into the book's queries* sees the states the model has between
  actions; one that calls `Apply` again is outside the book's single-writer contract.

## 6. Findings

The first two concern the FOK rule of `spec/SPEC.md:109-111` (reject when the quantity within the limit is less
than the order's). All three need extreme values.

- `fok_wrap`: level totals and the sum over a range are uint64. When the liquidity within the
  limit exceeds 2^64 the sum wraps, and an order that could fill many times over is rejected with
  `fok_cannot_fill`. The reverse does not happen: `FokAllOrNothing` holds past a wrap.
- `fok_tree_cap`: with a tree index the sum ends at price 1<<62 (`book.go:437`), while the specification makes
  that domain unbounded (`SPEC.md:38`) and `priceOk` and `cross` treat it so. Bids above the
  cap trade with a sell order, but are not counted for a FOK one.
- `journal_float64`: `vecload.Cmd` (`vecload.go:45-56`) reads every number of a journal line as a float64, so that an id above
  2^53, which the journal holds exactly, comes back as its neighbour; so does a price below -2^53. `spec/JOURNAL.md:17-18` promises that a crash
  after the append replays to the identical state. The snapshot's own parser is exact.

## 7. Plan

Done: the book, the structures below it, their safety invariants proved, the abstract specification and its
refinement, the written-out replace, the engine with recovery. Left, all of it proof:

1. The refinement of `BookSpec`, one kind of command after the other.
