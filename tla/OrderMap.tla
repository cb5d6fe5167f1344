------------------------------- MODULE OrderMap -------------------------------
(***************************************************************************)
(* The order map of omap.go: order id -> loc, open addressing with linear  *)
(* probing, removal by shifting later entries back.  The hash function is  *)
(* any function: each behaviour starts with one of its own.                *)
(*                                                                         *)
(* A removed slot keeps its old entry under a zero tag; every read tests   *)
(* the tag first, so a slot is here either empty or an entry with its tag. *)
(* The operations are those book.go performs; remove's scan is one action  *)
(* per entry it looks at.                                                  *)
(***************************************************************************)
EXTENDS Integers, FiniteSetsExt

CONSTANTS
    Keys,           \* order ids
    Vals,           \* locs
    Tags,           \* the values tagOf gives, none of them 0
    Homes,          \* the slots mix(k) & mask gives
    LiveMax,        \* newOrderMap's argument, BookConfig.MaxOrders
    MinCapacity,    \* newOrderMap's first capacity, 16 in the code
    RemovesRange    \* the modulus of the uint64 removes counter

ASSUME LiveMaxAssumption == LiveMax \in Nat
ASSUME MinCapacityAssumption == MinCapacity \in Nat /\ MinCapacity > 1
\* Far more removals fit in the counter than one replace can make.
ASSUME RemovesAssumption == RemovesRange \in Nat /\ RemovesRange > LiveMax

\* newOrderMap doubles the capacity until half of it holds every live order, which
\* takes fewer than LiveMax rounds.
Doubled[n \in Nat] == IF n = 0 THEN MinCapacity ELSE 2 * Doubled[n - 1]
Capacity == Min({c \in {Doubled[n] : n \in 0 .. LiveMax} : c >= 2 * LiveMax})
Slots == 0 .. (Capacity - 1)

ASSUME HomesAssumption == Homes \subseteq Slots

VARIABLES
    home,       \* home[k]: where k's probe starts, mix(k) & mask
    tag,        \* tag[k]: the seven hash bits kept beside an entry
    slot,       \* slot[i]: an entry, or Empty
    len,        \* orderMap.len
    removes,    \* orderMap.removes
    held,       \* the entry index replace keeps across cross, or None
    pc,         \* "Idle", or "Shift" inside remove's loop
    hole,       \* remove's hole
    scan        \* remove's j

hash == <<home, tag>>
vars == <<home, tag, slot, len, removes, held, pc, hole, scan>>

Empty == [tag |-> 0]
None == [key |-> "None"]
Entries == [tag : Tags, key : Keys, val : Vals]

-----------------------------------------------------------------------------
(* get *)

Probe(k, d) == (home[k] + d) % Capacity
Holds(i, k) == slot[i] # Empty /\ slot[i].tag = tag[k] /\ slot[i].key = k

\* Where the probe for k stops: at its entry, or at the first empty slot.
Stop(k) ==
    Probe(k, Min({d \in Slots : slot[Probe(k, d)] = Empty \/ Holds(Probe(k, d), k)}))

Contains(k) == slot[Stop(k)] # Empty

-----------------------------------------------------------------------------
(* insert, and the two ways the book uses it *)

\* Mutation: a key that is already there is counted again.
InsertCounting(k, v) ==
    LET i == Stop(k)
    IN  /\ slot' = [slot EXCEPT ![i] = [tag |-> tag[k], key |-> k, val |-> v]]
        /\ len' = len + 1

Insert(k, v) ==
    LET i == Stop(k)
    IN  IF Contains(k)
        THEN slot' = [slot EXCEPT ![i].val = v] /\ len' = len
        ELSE /\ slot' = [slot EXCEPT ![i] = [tag |-> tag[k], key |-> k, val |-> v]]
             /\ len' = len + 1

\* rest: a new order that newOrder has let in.
RestNew(k, v) ==
    /\ pc = "Idle" /\ held = None
    /\ ~Contains(k) /\ len < LiveMax
    /\ Insert(k, v)
    /\ UNCHANGED <<hash, removes, held, pc, hole, scan>>

\* replace: e := get(oid), kept while the order crosses.
Hold(k) ==
    /\ pc = "Idle" /\ held = None
    /\ Contains(k)
    /\ held' = [key |-> k, entry |-> Stop(k), removes |-> removes]
    /\ UNCHANGED <<hash, slot, len, removes, pc, hole, scan>>

\* Mutation: the entry index is used whatever cross removed.
RewriteStale(v) ==
    /\ pc = "Idle" /\ held # None
    /\ slot' = [slot EXCEPT ![held.entry] = IF @ = Empty THEN @ ELSE [@ EXCEPT !.val = v]]
    /\ len' = len
    /\ held' = None
    /\ UNCHANGED <<hash, removes, pc, hole, scan>>

\* replace: the remainder's loc, through the index if no entry has moved.
Rewrite(v) ==
    /\ pc = "Idle" /\ held # None
    /\ IF removes = held.removes
       THEN slot' = [slot EXCEPT ![held.entry].val = v] /\ len' = len
       ELSE Insert(held.key, v)
    /\ held' = None
    /\ UNCHANGED <<hash, removes, pc, hole, scan>>

-----------------------------------------------------------------------------
(* remove: by cancel, by cross for a filled maker, by replace when it fills *)

\* Mutation: the counter is not bumped.
RemoveUncounted(k) ==
    /\ pc = "Idle"
    /\ IF Contains(k)
       THEN /\ slot' = [slot EXCEPT ![Stop(k)] = Empty]
            /\ len' = len - 1
            /\ pc' = "Shift"
            /\ hole' = Stop(k)
            /\ scan' = (Stop(k) + 1) % Capacity
       ELSE UNCHANGED <<slot, len, pc, hole, scan>>
    /\ held' = IF held # None /\ held.key = k THEN None ELSE held
    /\ UNCHANGED <<hash, removes>>

\* Mutation: the length is taken down before the key is looked for.
RemoveCountingAbsent(k) ==
    /\ pc = "Idle"
    /\ len' = len - 1
    /\ IF Contains(k)
       THEN /\ slot' = [slot EXCEPT ![Stop(k)] = Empty]
            /\ removes' = (removes + 1) % RemovesRange
            /\ pc' = "Shift"
            /\ hole' = Stop(k)
            /\ scan' = (Stop(k) + 1) % Capacity
       ELSE UNCHANGED <<slot, removes, pc, hole, scan>>
    /\ held' = IF held # None /\ held.key = k THEN None ELSE held
    /\ UNCHANGED hash

Remove(k) ==
    /\ pc = "Idle"
    /\ IF Contains(k)
       THEN /\ slot' = [slot EXCEPT ![Stop(k)] = Empty]
            /\ len' = len - 1
            /\ removes' = (removes + 1) % RemovesRange
            /\ pc' = "Shift"
            /\ hole' = Stop(k)
            /\ scan' = (Stop(k) + 1) % Capacity
       ELSE UNCHANGED <<slot, len, removes, pc, hole, scan>>
    /\ held' = IF held # None /\ held.key = k THEN None ELSE held
    /\ UNCHANGED hash

\* Mutation: the wrap of the interval is not seen.
InIntervalFlat(h) == hole < h /\ h <= scan

\* The home h of the entry at scan lies after the hole: it must not move back.
InInterval(h) ==
    IF hole < scan THEN hole < h /\ h <= scan ELSE hole < h \/ h <= scan

\* Mutation: the hole stays where it was.
ShiftKeepingHole ==
    /\ pc = "Shift" /\ slot[scan] # Empty
    /\ IF InInterval(home[slot[scan].key])
       THEN UNCHANGED slot
       ELSE slot' = [slot EXCEPT ![hole] = slot[scan], ![scan] = Empty]
    /\ scan' = (scan + 1) % Capacity
    /\ UNCHANGED <<hash, len, removes, held, pc, hole>>

Shift ==
    /\ pc = "Shift" /\ slot[scan] # Empty
    /\ IF InInterval(home[slot[scan].key])
       THEN UNCHANGED <<slot, hole>>
       ELSE slot' = [slot EXCEPT ![hole] = slot[scan], ![scan] = Empty] /\ hole' = scan
    /\ scan' = (scan + 1) % Capacity
    /\ UNCHANGED <<hash, len, removes, held, pc>>

\* The scan meets an empty slot: remove returns (its locals go back to 0).
ShiftDone ==
    /\ pc = "Shift" /\ slot[scan] = Empty
    /\ pc' = "Idle" /\ hole' = 0 /\ scan' = 0
    /\ UNCHANGED <<hash, slot, len, removes, held>>

-----------------------------------------------------------------------------

Init ==
    /\ home \in [Keys -> Homes]
    /\ tag \in [Keys -> Tags]
    /\ slot = [i \in Slots |-> Empty]
    /\ len = 0
    /\ removes = 0
    /\ held = None
    /\ pc = "Idle" /\ hole = 0 /\ scan = 0

Next ==
    \/ \E k \in Keys, v \in Vals : RestNew(k, v)
    \/ \E k \in Keys : Hold(k) \/ Remove(k)
    \/ \E v \in Vals : Rewrite(v)
    \/ Shift \/ ShiftDone

Spec == Init /\ [][Next]_vars

-----------------------------------------------------------------------------
(* Correctness *)

Occupied == {i \in Slots : slot[i] # Empty}

\* Types, and the shift's locals are in use exactly inside remove.
TypeOK ==
    /\ home \in [Keys -> Homes] /\ tag \in [Keys -> Tags]
    /\ slot \in [Slots -> Entries \cup {Empty}]
    /\ len \in 0 .. LiveMax
    /\ removes \in 0 .. (RemovesRange - 1)
    /\ held \in [key : Keys, entry : Slots, removes : 0 .. (RemovesRange - 1)] \cup {None}
    /\ pc \in {"Idle", "Shift"}
    /\ hole \in Slots /\ scan \in Slots
    /\ pc = "Idle" => hole = 0 /\ scan = 0

\* len is the number of entries, and at least half of the table is empty: the
\* probe of an absent key always ends.
LenIsOccupancy == len = Cardinality(Occupied) /\ 2 * len <= Capacity

\* Between operations get finds every entry where it is: no removal has cut a
\* probe chain, and no key is stored twice.
EntriesReachable == pc = "Idle" => \A i \in Occupied : Stop(slot[i].key) = i

\* How far i lies behind from, going up and around.
Ahead(from, i) == (i - from) % Capacity

\* What remove's loop maintains: an entry whose probe chain crosses the hole is
\* one the scan has yet to reach, and every other slot of every chain is taken.
ChainsBrokenOnlyAtHole ==
    \A i \in Occupied :
        LET h == home[slot[i].key]
        IN  \A d \in 0 .. (Ahead(h, i) - 1) :
                slot[(h + d) % Capacity] = Empty =>
                    /\ pc = "Shift"
                    /\ (h + d) % Capacity = hole
                    /\ Ahead(hole, scan) <= Ahead(hole, i)

\* The comment on removes: an entry index from get is the key's entry until the
\* next remove, whatever else happens in between.
HeldIndexValid ==
    (held # None /\ removes = held.removes) => Holds(held.entry, held.key)

\* What the table maps.
Stored == {slot[i].key : i \in Occupied}
Content == [k \in Stored |-> slot[CHOOSE i \in Occupied : slot[i].key = k].val]

\* The operations do to the content what a function update does, for their own
\* key and no other: this is the map the order book relies on.
ActsAsMap ==
    [][/\ \A k \in Keys, v \in Vals :
              RestNew(k, v) =>
                  Content' = [x \in Stored \cup {k} |-> IF x = k THEN v ELSE Content[x]]
       /\ \A v \in Vals : Rewrite(v) => Content' = [Content EXCEPT ![held.key] = v]
       /\ \A k \in Keys : Remove(k) => Content' = [x \in Stored \ {k} |-> Content[x]]
       /\ pc = "Shift" \/ (held = None /\ held' # None) => Content' = Content]_vars

=============================================================================
