---------------------------- MODULE OrderMapProofs ----------------------------
(***************************************************************************)
(* Theorems about OrderMap: for every capacity, hash and tag, and after    *)
(* any operations, a probe ends, finds its key where it is, and keeps no   *)
(* key twice.                                                              *)
(***************************************************************************)
EXTENDS OrderMap, DataFacts, FiniteSetTheorems

-----------------------------------------------------------------------------
(* The inductive invariant *)

\* No key is stored twice, and an entry's tag is its key's.
KeysOnce ==
    /\ \A i \in Occupied : slot[i].tag = tag[slot[i].key]
    /\ \A i, j \in Occupied : slot[i].key = slot[j].key => i = j

\* Inside remove the hole is empty and everything the scan has passed is taken;
\* the scan has not come round to the hole.
ScanBehindHole ==
    pc = "Shift" =>
        /\ slot[hole] = Empty
        /\ len < LiveMax
        /\ scan # hole
        /\ \A x \in Slots : 0 < Ahead(hole, x) /\ Ahead(hole, x) < Ahead(hole, scan)
                                => slot[x] # Empty

\* The key of a held index stays stored.  The counter is as many steps ahead of the
\* held one as entries have gone since, and the entry is untouched while that is none.
HeldSince ==
    held # None =>
        /\ held.key \in Stored
        /\ \E n \in 0 .. (LiveMax - len) :
              /\ removes = (held.removes + n) % RemovesRange
              /\ n = 0 => pc = "Idle" /\ Holds(held.entry, held.key)

IInv ==
    /\ TypeOK
    /\ LenIsOccupancy
    /\ KeysOnce
    /\ ChainsBrokenOnlyAtHole
    /\ ScanBehindHole
    /\ HeldSince

-----------------------------------------------------------------------------
(* The capacity *)

LEMMA DoubledEquation ==
    \A n \in Nat : Doubled[n] = IF n = 0 THEN MinCapacity ELSE 2 * Doubled[n - 1]
<1> DEFINE Step(f) == [n \in Nat |-> IF n = 0 THEN MinCapacity ELSE 2 * f[n - 1]]
           twice == [m \in Nat |-> 2 * m]
<1>1. PICK f : Iterates(f, Nat, MinCapacity, twice)
  <2>1. twice \in [Nat -> Nat] /\ MinCapacity \in Nat
    BY MinCapacityAssumption
  <2> HIDE DEF twice
  <2>. QED BY <2>1, Iteration, Zenon
<1>2. \A n \in Nat : f[n] = IF n = 0 THEN MinCapacity ELSE 2 * f[n - 1]
  <2> TAKE n \in Nat
  <2>1. CASE n = 0
    BY <1>1, <2>1 DEF Iterates
  <2>2. CASE n # 0
    <3>1. n - 1 \in Nat /\ (n - 1) + 1 = n /\ f[n - 1] \in Nat
      BY <1>1, <2>2 DEF Iterates
    <3>2. f[(n - 1) + 1] = 2 * f[n - 1]
      BY <1>1, <3>1 DEF Iterates
    <3>. QED BY <2>2, <3>1, <3>2
  <2>. QED BY <2>1, <2>2
<1>3. f = Step(f)
  BY <1>1, <1>2 DEF Iterates
<1>4. Doubled = CHOOSE d : d = Step(d)
  BY DEF Doubled
<1>5. Doubled = Step(Doubled)
  <2> HIDE DEF Step
  <2>. QED BY <1>3, <1>4
<1>. QED BY <1>5

\* Each round doubles a capacity of at least 2.
LEMMA DoubledGrows ==
    \A n \in Nat : Doubled[n] \in Nat /\ Doubled[n] >= 2 * (n + 1)
<1> DEFINE Bad == {n \in Nat : ~(Doubled[n] \in Nat /\ Doubled[n] >= 2 * (n + 1))}
<1>1. SUFFICES ASSUME Bad # {} PROVE FALSE
  OBVIOUS
<1>2. Bad \subseteq Nat
  OBVIOUS
<1>3. PICK m \in Bad : \A n \in Bad : m <= n
  <2> HIDE DEF Bad
  <2>. QED BY <1>1, <1>2, LeastNat
<1>4. m # 0
  BY DoubledEquation, MinCapacityAssumption
<1>5. m - 1 \in Nat /\ ~(m <= m - 1)
  BY <1>4
<1>6. Doubled[m - 1] \in Nat /\ Doubled[m - 1] >= 2 * m
  BY <1>3, <1>5
<1>7. Doubled[m] = 2 * Doubled[m - 1]
  BY <1>4, DoubledEquation
<1>. QED BY <1>3, <1>5, <1>6, <1>7

\* newOrderMap's loop ends, with at least twice the live orders.
LEMMA CapacityFacts ==
    Capacity \in Nat /\ Capacity >= 2 /\ Capacity >= 2 * LiveMax
<1> DEFINE T == {c \in {Doubled[n] : n \in 0 .. LiveMax} : c >= 2 * LiveMax}
<1>1. \A c \in T : c \in Nat /\ c >= 2
  BY DoubledGrows, LiveMaxAssumption
<1>2. Doubled[LiveMax] \in T
  BY DoubledGrows, LiveMaxAssumption
<1>3. Capacity = Min(T)
  BY DEF Capacity
<1>4. T \subseteq Int /\ \A c \in T : 2 <= c
  BY <1>1
<1>5. \A c \in T : c >= 2 * LiveMax
  OBVIOUS
<1> HIDE DEF T
<1>6. Min(T) \in T
  <2>1. T # {} /\ T \subseteq Int /\ 2 \in Int
    BY <1>2, <1>4
  <2>. QED BY <1>4, <2>1, MinFacts, Zenon
<1>. QED BY <1>1, <1>3, <1>5, <1>6

-----------------------------------------------------------------------------
(* The ring of slots *)

LEMMA RingFacts ==
    /\ \A a, b \in Slots : Ahead(a, b) = IF a <= b THEN b - a ELSE b - a + Capacity
    /\ \A a, d \in Slots : (a + d) % Capacity = IF a + d < Capacity THEN a + d ELSE a + d - Capacity
    /\ \A a \in Slots : (a + 1) % Capacity = IF a + 1 < Capacity THEN a + 1 ELSE 0
<1>1. Capacity \in Nat \ {0} /\ 1 \in 0 .. Capacity
  BY CapacityFacts
<1>2. \A a, b \in Slots : Ahead(a, b) = IF a <= b THEN b - a ELSE b - a + Capacity
  BY <1>1, WrapDown DEF Slots, Ahead
<1>3. \A a \in Slots : \A b \in 0 .. Capacity :
          (a + b) % Capacity = IF a + b < Capacity THEN a + b ELSE a + b - Capacity
  BY <1>1, WrapUp DEF Slots
<1>4. \A a, d \in Slots : (a + d) % Capacity = IF a + d < Capacity THEN a + d ELSE a + d - Capacity
  <2>1. \A d \in Slots : d \in 0 .. Capacity
    BY <1>1 DEF Slots
  <2>. QED BY <1>3, <2>1
<1>5. \A a \in Slots : (a + 1) % Capacity = IF a + 1 < Capacity THEN a + 1 ELSE 0
  <2> TAKE a \in Slots
  <2>1. (a + 1) % Capacity = IF a + 1 < Capacity THEN a + 1 ELSE a + 1 - Capacity
    BY <1>1, <1>3
  <2>. QED BY <2>1, <1>1 DEF Slots
<1>. QED BY <1>2, <1>4, <1>5

\* The place d ahead of h, and how far ahead of h a place is, undo each other.
LEMMA RingInverse ==
    /\ \A h, x \in Slots : Ahead(h, x) \in Slots /\ (h + Ahead(h, x)) % Capacity = x
    /\ \A h, d \in Slots : (h + d) % Capacity \in Slots /\ Ahead(h, (h + d) % Capacity) = d
<1>1. ASSUME NEW h \in Slots, NEW x \in Slots
      PROVE  Ahead(h, x) \in Slots /\ (h + Ahead(h, x)) % Capacity = x
  <2>1. Ahead(h, x) = IF h <= x THEN x - h ELSE x - h + Capacity
    BY RingFacts
  <2>2. Ahead(h, x) \in Slots
    BY <2>1, CapacityFacts DEF Slots
  <2>3. (h + Ahead(h, x)) % Capacity =
            IF h + Ahead(h, x) < Capacity THEN h + Ahead(h, x) ELSE h + Ahead(h, x) - Capacity
    BY <2>2, RingFacts
  <2>. QED BY <2>1, <2>2, <2>3, CapacityFacts DEF Slots
<1>2. ASSUME NEW h \in Slots, NEW d \in Slots
      PROVE  (h + d) % Capacity \in Slots /\ Ahead(h, (h + d) % Capacity) = d
  <2> DEFINE x == (h + d) % Capacity
  <2>1. x = IF h + d < Capacity THEN h + d ELSE h + d - Capacity
    BY RingFacts
  <2> HIDE DEF x
  <2>2. x \in Slots
    BY <2>1, CapacityFacts DEF Slots
  <2>3. Ahead(h, x) = IF h <= x THEN x - h ELSE x - h + Capacity
    BY <2>2, RingFacts
  <2>4. Ahead(h, x) = d
    BY <2>1, <2>3, CapacityFacts DEF Slots
  <2>. QED BY <2>2, <2>4 DEF x
<1>. QED BY <1>1, <1>2

\* Distances on the ring are numbers, 0 only from a slot to itself, and tell slots apart.
LEMMA RingOrder ==
    ASSUME NEW a \in Slots, NEW b \in Slots
    PROVE  /\ Ahead(a, b) \in Int /\ 0 <= Ahead(a, b) /\ Ahead(a, b) <= Capacity - 1
           /\ Ahead(a, b) = 0 <=> a = b
           /\ a # b => 1 <= Ahead(a, b)
           /\ \A c \in Slots : Ahead(a, b) = Ahead(a, c) => b = c
<1>1. Ahead(a, b) = IF a <= b THEN b - a ELSE b - a + Capacity
  BY RingFacts
<1>2. /\ Ahead(a, b) \in Int /\ 0 <= Ahead(a, b) /\ Ahead(a, b) <= Capacity - 1
      /\ Ahead(a, b) = 0 <=> a = b
      /\ a # b => 1 <= Ahead(a, b)
  BY <1>1, CapacityFacts DEF Slots
<1>3. \A c \in Slots : Ahead(a, b) = Ahead(a, c) => b = c
  BY RingInverse
<1>. QED BY <1>2, <1>3

\* The slot after a slot is another one, one ahead of it.
LEMMA RingNext ==
    ASSUME NEW i \in Slots
    PROVE  LET j == (i + 1) % Capacity
           IN  j \in Slots /\ j # i /\ Ahead(i, j) = 1
<1> DEFINE j == (i + 1) % Capacity
<1>1. j = IF i + 1 < Capacity THEN i + 1 ELSE 0
  BY RingFacts
<1> HIDE DEF j
<1>2. j \in Slots /\ j # i
  BY <1>1, CapacityFacts DEF Slots
<1>3. Ahead(i, j) = IF i <= j THEN j - i ELSE j - i + Capacity
  BY <1>2, RingFacts
<1>4. Ahead(i, j) = 1
  BY <1>1, <1>3, CapacityFacts DEF Slots
<1>. QED BY <1>2, <1>4 DEF j

\* An entry, as it is put in and with its loc rewritten, is not the empty slot.
LEMMA EntryFacts ==
    /\ Empty \notin Entries
    /\ \A k \in Keys, t \in Tags, v \in Vals :
          [tag |-> t, key |-> k, val |-> v] \in Entries
    /\ \A e \in Entries, v \in Vals :
          /\ [e EXCEPT !.val = v] \in Entries
          /\ [e EXCEPT !.val = v].tag = e.tag
          /\ [e EXCEPT !.val = v].key = e.key
          /\ [e EXCEPT !.val = v].val = v
  BY DEF Empty, Entries

-----------------------------------------------------------------------------
(* Probing *)

\* While len is the number of entries there is an empty slot, and more than one.
LEMMA EmptyExists ==
    ASSUME TypeOK, LenIsOccupancy
    PROVE  /\ IsFiniteSet(Occupied)
           /\ Occupied # Slots
           /\ len < LiveMax => \A i \in Slots : Occupied # Slots \ {i}
<1>1. IsFiniteSet(Slots) /\ Cardinality(Slots) = Capacity
  BY CapacityFacts, FS_Interval DEF Slots
<1>2. IsFiniteSet(Occupied)
  BY <1>1, FS_Subset DEF Occupied
<1>3. Occupied # Slots
  BY <1>1, CapacityFacts DEF LenIsOccupancy, TypeOK
<1>4. ASSUME len < LiveMax, NEW i \in Slots, Occupied = Slots \ {i} PROVE FALSE
  <2>1. Cardinality(Occupied) = Capacity - 1
    BY <1>1, <1>4, FS_RemoveElement
  <2>. QED BY <2>1, <1>4, CapacityFacts, LiveMaxAssumption DEF LenIsOccupancy, TypeOK
<1>. QED BY <1>2, <1>3, <1>4

\* A probe stops, at the key or at the first empty slot, and meets neither before.
LEMMA StopFacts ==
    ASSUME TypeOK, LenIsOccupancy, NEW k \in Keys
    PROVE  /\ Stop(k) \in Slots
           /\ slot[Stop(k)] = Empty \/ Holds(Stop(k), k)
           /\ \A x \in Slots : Ahead(home[k], x) < Ahead(home[k], Stop(k)) =>
                  slot[x] # Empty /\ ~Holds(x, k)
<1> DEFINE h == home[k]
           End(x) == slot[x] = Empty \/ Holds(x, k)
           T == {d \in Slots : End(Probe(k, d))}
<1>1. h \in Slots
  BY HomesAssumption DEF TypeOK
<1>2. \A d \in Slots : Probe(k, d) \in Slots /\ Ahead(h, Probe(k, d)) = d
  BY <1>1, RingInverse DEF Probe
<1>3. \A x \in Slots : Ahead(h, x) \in Slots /\ Probe(k, Ahead(h, x)) = x
  BY <1>1, RingInverse DEF Probe
<1>4. PICK x \in Slots : slot[x] = Empty
  BY EmptyExists DEF Occupied
<1>5. Ahead(h, x) \in T
  BY <1>3, <1>4
<1>6. Min(T) \in T /\ \A d \in T : Min(T) <= d
  <2>1. T \subseteq Int /\ T # {} /\ 0 \in Int /\ \A d \in T : 0 <= d
    BY <1>5, CapacityFacts DEF Slots
  <2> HIDE DEF T
  <2>. QED BY <2>1, MinFacts, Zenon
<1>7. Stop(k) = Probe(k, Min(T))
  BY DEF Stop
<1>8. Min(T) \in Slots /\ End(Stop(k))
  BY <1>6, <1>7
<1>9. Stop(k) \in Slots /\ Ahead(h, Stop(k)) = Min(T)
  BY <1>2, <1>7, <1>8
<1>10. ASSUME NEW y \in Slots, Ahead(h, y) < Ahead(h, Stop(k)), End(y) PROVE FALSE
  <2>1. Ahead(h, y) \in T
    BY <1>3, <1>10
  <2>2. Min(T) <= Ahead(h, y)
    BY <1>6, <2>1
  <2>. QED BY <2>2, <1>3, <1>8, <1>9, <1>10, CapacityFacts DEF Slots
<1>. QED BY <1>8, <1>9, <1>10

\* The chain of an entry, slot by slot.
LEMMA ChainSlots ==
    ASSUME TypeOK, ChainsBrokenOnlyAtHole, NEW i \in Occupied, NEW x \in Slots,
           Ahead(home[slot[i].key], x) < Ahead(home[slot[i].key], i), slot[x] = Empty
    PROVE  pc = "Shift" /\ x = hole /\ Ahead(hole, scan) <= Ahead(hole, i)
<1> DEFINE h == home[slot[i].key]
<1>1. h \in Slots /\ i \in Slots
  BY HomesAssumption DEF TypeOK, Occupied, Entries
<1>2. Ahead(h, x) \in Slots /\ (h + Ahead(h, x)) % Capacity = x /\ Ahead(h, i) \in Slots
  BY <1>1, RingInverse
<1>3. Ahead(h, x) \in 0 .. (Ahead(h, i) - 1)
  BY <1>2, CapacityFacts DEF Slots
<1>. QED BY <1>2, <1>3 DEF ChainsBrokenOnlyAtHole

\* Outside remove, get finds every stored key where it is and misses every other.
LEMMA ProbeFinds ==
    ASSUME TypeOK, LenIsOccupancy, KeysOnce, ChainsBrokenOnlyAtHole, pc = "Idle"
    PROVE  /\ \A i \in Occupied : Stop(slot[i].key) = i
           /\ \A k \in Keys : Contains(k) <=> k \in Stored
           /\ \A k \in Keys : Contains(k) => /\ Stop(k) \in Occupied
                                             /\ slot[Stop(k)].key = k
                                             /\ Holds(Stop(k), k)
<1>1. \A k \in Keys : Contains(k) => Stop(k) \in Occupied /\ slot[Stop(k)].key = k
                                     /\ Holds(Stop(k), k)
  BY StopFacts DEF Contains, Occupied, Holds
<1>2. ASSUME NEW i \in Occupied PROVE slot[i].key \in Keys /\ Stop(slot[i].key) = i
  <2> DEFINE k == slot[i].key
             h == home[k]
             s == Stop(k)
  <2>1. i \in Slots /\ k \in Keys /\ h \in Slots /\ Holds(i, k)
    BY HomesAssumption DEF TypeOK, Occupied, Entries, KeysOnce, Holds
  <2>2. s \in Slots
    BY <2>1, StopFacts
  <2>3. ~(Ahead(h, i) < Ahead(h, s))
    BY <2>1, StopFacts
  <2>4. ASSUME Ahead(h, s) < Ahead(h, i) PROVE s = i
    <3>1. slot[s] # Empty
      BY <2>2, <2>4, ChainSlots
    <3>2. Holds(s, k)
      BY <2>1, <3>1, StopFacts
    <3>. QED BY <2>2, <3>1, <3>2 DEF Holds, Occupied, KeysOnce
  <2>5. Ahead(h, s) = Ahead(h, i) => s = i
    BY <2>1, <2>2, RingInverse
  <2>6. Ahead(h, s) \in Slots /\ Ahead(h, i) \in Slots
    BY <2>1, <2>2, RingInverse
  <2>. QED BY <2>1, <2>3, <2>4, <2>5, <2>6, CapacityFacts DEF Slots
<1>3. \A k \in Stored : k \in Keys /\ Contains(k)
  BY <1>2 DEF Stored, Contains, Occupied
<1>. QED BY <1>1, <1>2, <1>3 DEF Stored

-----------------------------------------------------------------------------
(* insert *)

\* To see the chains whole after a step it is enough to look at each slot.
LEMMA ChainsFromSlots ==
    ASSUME TypeOK',
           \A i \in Occupied', x \in Slots :
              LET h == home'[slot'[i].key]
              IN  Ahead(h, x) < Ahead(h, i) /\ slot'[x] = Empty =>
                      /\ pc' = "Shift"
                      /\ x = hole'
                      /\ Ahead(hole', scan') <= Ahead(hole', i)
    PROVE  ChainsBrokenOnlyAtHole'
<1> SUFFICES ASSUME NEW i \in Occupied',
                    NEW d \in 0 .. (Ahead(home'[slot'[i].key], i) - 1),
                    slot'[(home'[slot'[i].key] + d) % Capacity] = Empty
             PROVE  /\ pc' = "Shift"
                    /\ (home'[slot'[i].key] + d) % Capacity = hole'
                    /\ Ahead(hole', scan') <= Ahead(hole', i)
  BY DEF ChainsBrokenOnlyAtHole
<1> DEFINE h == home'[slot'[i].key]
<1>1. h \in Slots /\ i \in Slots
  BY HomesAssumption DEF TypeOK, Occupied, Entries
<1>2. Ahead(h, i) \in Slots
  BY <1>1, RingInverse
<1>3. d \in Slots /\ d < Ahead(h, i)
  BY <1>2, CapacityFacts DEF Slots
<1>4. (h + d) % Capacity \in Slots /\ Ahead(h, (h + d) % Capacity) = d
  BY <1>1, <1>3, RingInverse
<1>. QED BY <1>3, <1>4

\* A loc written into an entry disturbs nothing but that loc.
LEMMA ValueWrite ==
    ASSUME TypeOK, LenIsOccupancy, KeysOnce, ChainsBrokenOnlyAtHole,
           NEW i \in Occupied, NEW v \in Vals, TypeOK',
           slot' = [slot EXCEPT ![i].val = v], len' = len,
           UNCHANGED <<hash, pc, hole, scan>>
    PROVE  /\ LenIsOccupancy' /\ KeysOnce' /\ ChainsBrokenOnlyAtHole'
           /\ Occupied' = Occupied /\ Stored' = Stored
           /\ slot'[i].key = slot[i].key /\ slot'[i].val = v
           /\ \A j \in Occupied : j # i => slot'[j] = slot[j]
<1>1. i \in Slots /\ slot[i] \in Entries /\ home' = home /\ tag' = tag
      /\ slot \in [Slots -> Entries \cup {Empty}]
  BY DEF Occupied, TypeOK, hash
<1>2. slot' = [slot EXCEPT ![i] = [slot[i] EXCEPT !.val = v]]
  BY <1>1
<1>3. slot'[i] \in Entries /\ slot'[i] # Empty /\ slot'[i].key = slot[i].key /\ slot'[i].tag = slot[i].tag
      /\ slot'[i].val = v
  BY <1>1, <1>2, EntryFacts
<1>4. \A j \in Slots : j # i => slot'[j] = slot[j]
  BY <1>1, <1>2
<1>5. Occupied' = Occupied
  BY <1>1, <1>3, <1>4 DEF Occupied
<1>6. \A j \in Occupied : slot'[j].key = slot[j].key /\ slot'[j].tag = slot[j].tag
  BY <1>3, <1>4 DEF Occupied
<1>7. \A j \in Slots : slot'[j] = Empty => slot[j] = Empty
  BY <1>3, <1>4
<1>8. ChainsBrokenOnlyAtHole'
  <2>1. \A j \in Occupied', x \in Slots :
              LET h == home'[slot'[j].key]
              IN  Ahead(h, x) < Ahead(h, j) /\ slot'[x] = Empty =>
                      /\ pc' = "Shift"
                      /\ x = hole'
                      /\ Ahead(hole', scan') <= Ahead(hole', j)
    BY <1>1, <1>5, <1>6, <1>7, ChainSlots
  <2>. QED BY <2>1, ChainsFromSlots
<1>9. \A j \in Occupied : j # i => slot'[j] = slot[j]
  BY <1>4 DEF Occupied
<1>. QED BY <1>1, <1>3, <1>5, <1>6, <1>8, <1>9 DEF LenIsOccupancy, KeysOnce, Stored

\* insert of a key that is not there puts it where the probe stopped.
LEMMA EntryAdded ==
    ASSUME TypeOK, LenIsOccupancy, KeysOnce, ChainsBrokenOnlyAtHole, pc = "Idle",
           NEW k \in Keys, NEW v \in Vals, ~Contains(k), len < LiveMax, TypeOK',
           slot' = [slot EXCEPT ![Stop(k)] = [tag |-> tag[k], key |-> k, val |-> v]],
           len' = len + 1, UNCHANGED <<hash, pc, hole, scan>>
    PROVE  /\ LenIsOccupancy' /\ KeysOnce' /\ ChainsBrokenOnlyAtHole'
           /\ Occupied' = Occupied \cup {Stop(k)} /\ Stop(k) \notin Occupied
           /\ slot'[Stop(k)].key = k /\ slot'[Stop(k)].val = v
           /\ \A j \in Occupied : slot'[j] = slot[j]
<1> DEFINE i == Stop(k)
           e == [tag |-> tag[k], key |-> k, val |-> v]
<1>1. i \in Slots /\ slot[i] = Empty /\ home' = home /\ tag' = tag /\ e \in Entries
      /\ slot \in [Slots -> Entries \cup {Empty}] /\ tag[k] \in Tags
  BY StopFacts, EntryFacts DEF TypeOK, Contains, hash
<1> HIDE DEF i
<1>2. slot'[i] = e /\ \A j \in Slots : j # i => slot'[j] = slot[j]
  BY <1>1 DEF i
<1>3. e # Empty /\ e.key = k /\ e.tag = tag[k] /\ e.val = v
  BY <1>1, EntryFacts
<1> HIDE DEF e
<1>4. Occupied' = Occupied \cup {i} /\ i \notin Occupied
  BY <1>1, <1>2, <1>3 DEF Occupied
<1>5. k \notin Stored
  BY ProbeFinds
<1>6. LenIsOccupancy'
  <2>1. Cardinality(Occupied') = Cardinality(Occupied) + 1
    BY <1>4, EmptyExists, FS_AddElement
  <2>2. 2 * (len + 1) <= Capacity
    BY CapacityFacts, LiveMaxAssumption DEF TypeOK
  <2>. QED BY <2>1, <2>2 DEF LenIsOccupancy
<1>7. KeysOnce'
  <2>1. \A j \in Occupied : j # i /\ slot'[j] = slot[j] /\ slot[j].key # k
    BY <1>1, <1>2, <1>4, <1>5 DEF Stored, Occupied
  <2>. QED BY <1>1, <1>2, <1>3, <1>4, <2>1 DEF KeysOnce
<1>8. ASSUME NEW j \in Occupied', NEW x \in Slots, slot'[x] = Empty,
             Ahead(home'[slot'[j].key], x) < Ahead(home'[slot'[j].key], j)
      PROVE  FALSE
  <2>1. x # i /\ slot[x] = Empty
    BY <1>2, <1>3, <1>8
  <2>2. CASE j = i
    BY <1>1, <1>2, <1>3, <1>8, <2>1, <2>2, StopFacts DEF i
  <2>3. CASE j # i
    <3>1. j \in Occupied /\ slot'[j] = slot[j]
      BY <1>2, <1>4, <2>3 DEF Occupied
    <3>. QED BY <1>1, <1>8, <2>1, <3>1, ChainSlots
  <2>. QED BY <2>2, <2>3
<1>9. ChainsBrokenOnlyAtHole'
  BY <1>8, ChainsFromSlots
<1>10. \A j \in Occupied : slot'[j] = slot[j]
  BY <1>2, <1>4 DEF Occupied
<1>. QED BY <1>2, <1>3, <1>4, <1>6, <1>7, <1>9, <1>10 DEF i

-----------------------------------------------------------------------------
(* The invariant: one lemma per action *)

LEMMA InitInv == Init => IInv
<1> SUFFICES ASSUME Init PROVE IInv
  OBVIOUS
<1>1. 0 \in Slots
  BY CapacityFacts DEF Slots
<1>2. TypeOK
  BY <1>1, LiveMaxAssumption, RemovesAssumption DEF Init, TypeOK
<1>3. Occupied = {}
  BY DEF Init, Occupied
<1>4. LenIsOccupancy
  BY <1>3, FS_EmptySet, CapacityFacts DEF LenIsOccupancy, Init
<1>5. KeysOnce /\ ChainsBrokenOnlyAtHole
  BY <1>3 DEF KeysOnce, ChainsBrokenOnlyAtHole
<1>6. ScanBehindHole /\ HeldSince
  BY DEF Init, ScanBehindHole, HeldSince
<1>. QED BY <1>2, <1>4, <1>5, <1>6 DEF IInv

LEMMA RestNewInv ==
    ASSUME IInv, NEW k \in Keys, NEW v \in Vals, RestNew(k, v)
    PROVE  IInv'
<1>1. /\ TypeOK /\ LenIsOccupancy /\ KeysOnce /\ ChainsBrokenOnlyAtHole
      /\ pc = "Idle" /\ held = None /\ ~Contains(k) /\ len < LiveMax
      /\ slot' = [slot EXCEPT ![Stop(k)] = [tag |-> tag[k], key |-> k, val |-> v]]
      /\ len' = len + 1
      /\ UNCHANGED <<hash, removes, held, pc, hole, scan>>
  BY DEF IInv, RestNew, Insert
<1>2. TypeOK'
  <2>1. [tag |-> tag[k], key |-> k, val |-> v] \in Entries /\ Stop(k) \in Slots
    BY <1>1, StopFacts, EntryFacts DEF TypeOK
  <2>2. slot' \in [Slots -> Entries \cup {Empty}]
    BY <1>1, <2>1 DEF TypeOK
  <2>3. len' \in 0 .. LiveMax
    BY <1>1, LiveMaxAssumption DEF TypeOK
  <2>. QED BY <1>1, <2>2, <2>3 DEF TypeOK, hash
<1>3. LenIsOccupancy' /\ KeysOnce' /\ ChainsBrokenOnlyAtHole'
  BY <1>1, <1>2, EntryAdded
<1>4. ScanBehindHole' /\ HeldSince'
  BY <1>1 DEF ScanBehindHole, HeldSince
<1>. QED BY <1>2, <1>3, <1>4 DEF IInv

LEMMA HoldInv ==
    ASSUME IInv, NEW k \in Keys, Hold(k)
    PROVE  IInv'
<1> DEFINE r == [key |-> k, entry |-> Stop(k), removes |-> removes]
<1>1. /\ TypeOK /\ LenIsOccupancy /\ KeysOnce /\ ChainsBrokenOnlyAtHole /\ ScanBehindHole
      /\ pc = "Idle" /\ Contains(k) /\ held' = r
      /\ UNCHANGED <<hash, slot, len, removes, pc, hole, scan>>
  BY DEF IInv, Hold
<1>2. Stop(k) \in Slots /\ k \in Stored /\ Holds(Stop(k), k)
  BY <1>1, StopFacts, ProbeFinds
<1>3. TypeOK'
  BY <1>1, <1>2 DEF TypeOK, hash
<1>4. LenIsOccupancy' /\ KeysOnce' /\ ChainsBrokenOnlyAtHole' /\ ScanBehindHole'
  BY <1>1 DEF LenIsOccupancy, KeysOnce, ChainsBrokenOnlyAtHole, ScanBehindHole, Occupied, hash
<1>5. HeldSince'
  <2>1. removes = (removes + 0) % RemovesRange
    <3>1. /\ RemovesRange \in Nat \ {0} /\ 0 \in 0 .. RemovesRange
          /\ removes \in 0 .. (RemovesRange - 1)
      BY <1>1, RemovesAssumption, LiveMaxAssumption DEF TypeOK
    <3>2. (removes + 0) % RemovesRange =
              IF removes + 0 < RemovesRange THEN removes + 0 ELSE removes + 0 - RemovesRange
      BY <3>1, WrapUp
    <3>. QED BY <3>1, <3>2
  <2>2. 0 \in 0 .. (LiveMax - len)
    BY <1>1, LiveMaxAssumption DEF TypeOK
  <2>3. Stored' = Stored /\ held'.key = k /\ held'.entry = Stop(k) /\ held'.removes = removes
    BY <1>1 DEF Stored, Occupied
  <2>4. Holds(held.entry, held.key)'
    BY <1>1, <1>2, <2>3 DEF Holds, hash
  <2>. QED BY <1>1, <1>2, <2>1, <2>2, <2>3, <2>4 DEF HeldSince
<1>. QED BY <1>3, <1>4, <1>5 DEF IInv

\* A held index is still its key's entry unless the counter has moved: the counter
\* cannot come round, because there are fewer entries to remove than it has values.
LEMMA HeldFacts ==
    ASSUME IInv, held # None
    PROVE  /\ held \in [key : Keys, entry : Slots, removes : 0 .. (RemovesRange - 1)]
           /\ held.key \in Stored
           /\ removes = held.removes => pc = "Idle" /\ Holds(held.entry, held.key)
<1>1. held \in [key : Keys, entry : Slots, removes : 0 .. (RemovesRange - 1)]
  BY DEF IInv, TypeOK
<1>2. PICK n \in 0 .. (LiveMax - len) :
              /\ removes = (held.removes + n) % RemovesRange
              /\ n = 0 => pc = "Idle" /\ Holds(held.entry, held.key)
  BY DEF IInv, HeldSince
<1>3. n \in 0 .. RemovesRange /\ n < RemovesRange
  BY LiveMaxAssumption, RemovesAssumption DEF IInv, TypeOK
<1>4. removes = IF held.removes + n < RemovesRange THEN held.removes + n
                ELSE held.removes + n - RemovesRange
  <2>1. RemovesRange \in Nat \ {0} /\ held.removes \in 0 .. (RemovesRange - 1)
    BY <1>1, LiveMaxAssumption, RemovesAssumption
  <2>2. (held.removes + n) % RemovesRange =
            IF held.removes + n < RemovesRange THEN held.removes + n
            ELSE held.removes + n - RemovesRange
    BY <1>3, <2>1, WrapUp
  <2>. QED BY <1>2, <2>2
<1>5. removes = held.removes => n = 0
  BY <1>1, <1>3, <1>4, RemovesAssumption
<1>. QED BY <1>1, <1>2, <1>5 DEF IInv, HeldSince

LEMMA RewriteInv ==
    ASSUME IInv, NEW v \in Vals, Rewrite(v)
    PROVE  IInv' /\ held.key \in Stored
                 /\ \E i \in Occupied : /\ slot[i].key = held.key /\ Occupied' = Occupied
                                        /\ slot'[i].key = held.key /\ slot'[i].val = v
                                        /\ \A j \in Occupied : j # i => slot'[j] = slot[j]
<1>1. /\ TypeOK /\ LenIsOccupancy /\ KeysOnce /\ ChainsBrokenOnlyAtHole
      /\ pc = "Idle" /\ held # None /\ held' = None
      /\ UNCHANGED <<hash, removes, pc, hole, scan>>
  BY DEF IInv, Rewrite
<1>2. PICK i \in Occupied : /\ slot[i].key = held.key
                            /\ slot' = [slot EXCEPT ![i].val = v]
                            /\ len' = len
  <2>1. CASE removes = held.removes
    <3>1. held.entry \in Occupied /\ slot[held.entry].key = held.key
      BY <1>1, <2>1, HeldFacts DEF Holds, Occupied
    <3>. QED BY <2>1, <3>1 DEF Rewrite
  <2>2. CASE removes # held.removes
    <3>1. held.key \in Keys /\ Contains(held.key)
      BY <1>1, HeldFacts, ProbeFinds
    <3>2. Stop(held.key) \in Occupied /\ slot[Stop(held.key)].key = held.key
      BY <1>1, <3>1, ProbeFinds
    <3>. QED BY <2>2, <3>1, <3>2 DEF Rewrite, Insert
  <2>. QED BY <2>1, <2>2
<1>3. TypeOK'
  <2>1. slot[i] \in Entries /\ i \in Slots
    BY <1>1 DEF TypeOK, Occupied
  <2>2. slot' = [slot EXCEPT ![i] = [slot[i] EXCEPT !.val = v]]
    BY <1>2
  <2>3. slot' \in [Slots -> Entries \cup {Empty}]
    BY <1>1, <2>1, <2>2, EntryFacts DEF TypeOK
  <2>. QED BY <1>1, <1>2, <2>3 DEF TypeOK, hash
<1>4. /\ LenIsOccupancy' /\ KeysOnce' /\ ChainsBrokenOnlyAtHole'
      /\ Occupied' = Occupied
      /\ slot'[i].key = slot[i].key /\ slot'[i].val = v
      /\ \A j \in Occupied : j # i => slot'[j] = slot[j]
  BY <1>1, <1>2, <1>3, ValueWrite
<1>5. ScanBehindHole' /\ HeldSince'
  BY <1>1 DEF ScanBehindHole, HeldSince
<1>. QED BY <1>1, <1>2, <1>3, <1>4, <1>5, HeldFacts DEF IInv

\* remove takes the entry out and starts the scan behind it.
LEMMA RemoveInv ==
    ASSUME IInv, NEW k \in Keys, Remove(k)
    PROVE  /\ IInv'
           /\ Contains(k) => \E i \in Occupied : /\ slot[i].key = k /\ Occupied' = Occupied \ {i}
                                                 /\ \A j \in Occupied' : slot'[j] = slot[j]
           /\ ~Contains(k) => slot' = slot
<1>1. /\ TypeOK /\ LenIsOccupancy /\ KeysOnce /\ ChainsBrokenOnlyAtHole /\ pc = "Idle"
      /\ held' = (IF held # None /\ held.key = k THEN None ELSE held)
      /\ home' = home /\ tag' = tag
  BY DEF IInv, Remove, hash
<1>2. CASE ~Contains(k)
  <2>1. UNCHANGED <<hash, slot, len, removes, pc, hole, scan>>
    BY <1>2 DEF Remove
  <2>2. TypeOK'
    BY <1>1, <2>1 DEF TypeOK
  <2>3. LenIsOccupancy' /\ KeysOnce' /\ ChainsBrokenOnlyAtHole' /\ ScanBehindHole'
    BY <1>1, <2>1 DEF LenIsOccupancy, KeysOnce, ChainsBrokenOnlyAtHole, ScanBehindHole, Occupied
  <2>4. HeldSince'
    BY <1>1, <2>1 DEF IInv, HeldSince, Stored, Occupied, Holds
  <2>. QED BY <1>2, <2>1, <2>2, <2>3, <2>4 DEF IInv
<1>3. CASE Contains(k)
  <2> DEFINE i == Stop(k)
  <2>1. /\ slot' = [slot EXCEPT ![i] = Empty] /\ len' = len - 1
        /\ removes' = (removes + 1) % RemovesRange
        /\ pc' = "Shift" /\ hole' = i /\ scan' = (i + 1) % Capacity
    BY <1>3 DEF Remove
  <2>2. i \in Slots /\ i \in Occupied /\ slot[i].key = k
    BY <1>1, <1>3, ProbeFinds DEF Occupied
  <2> HIDE DEF i
  <2>3. slot'[i] = Empty /\ \A j \in Slots : j # i => slot'[j] = slot[j]
    BY <1>1, <2>1, <2>2 DEF TypeOK
  <2>4. Occupied' = Occupied \ {i}
    BY <2>2, <2>3 DEF Occupied
  <2>5. /\ Cardinality(Occupied') = Cardinality(Occupied) - 1
        /\ Cardinality(Occupied') \in Nat
    BY <1>1, <2>2, <2>4, EmptyExists, FS_RemoveElement, FS_CardinalityType
  <2>6. len' \in 0 .. LiveMax /\ len' < LiveMax /\ 2 * len' <= Capacity /\ len' = Cardinality(Occupied')
    BY <1>1, <2>1, <2>5, LiveMaxAssumption, CapacityFacts DEF LenIsOccupancy, TypeOK
  <2>7. scan' \in Slots /\ scan' # hole' /\ hole' \in Slots /\ Ahead(hole', scan') = 1
    BY <2>1, <2>2, RingNext
  <2>8. TypeOK'
    <3>1. slot' \in [Slots -> Entries \cup {Empty}]
      BY <1>1, <2>1 DEF TypeOK
    <3>2. removes' \in 0 .. (RemovesRange - 1)
      BY <1>1, <2>1, RemovesAssumption, LiveMaxAssumption DEF TypeOK
    <3>3. held' \in [key : Keys, entry : Slots, removes : 0 .. (RemovesRange - 1)] \cup {None}
      BY <1>1 DEF TypeOK
    <3>. QED BY <1>1, <2>1, <2>6, <2>7, <3>1, <3>2, <3>3 DEF TypeOK
  <2>9. LenIsOccupancy'
    BY <2>6 DEF LenIsOccupancy
  <2>10. KeysOnce'
    BY <1>1, <2>3, <2>4 DEF KeysOnce, Occupied
  <2>11. ChainsBrokenOnlyAtHole'
    <3>1. ASSUME NEW j \in Occupied', NEW x \in Slots, slot'[x] = Empty,
                 Ahead(home'[slot'[j].key], x) < Ahead(home'[slot'[j].key], j)
          PROVE  pc' = "Shift" /\ x = hole' /\ Ahead(hole', scan') <= Ahead(hole', j)
      <4>1. j \in Occupied /\ j \in Slots /\ j # i /\ slot'[j] = slot[j]
        BY <2>3, <2>4 DEF Occupied
      <4>2. x = i
        <5>1. SUFFICES ASSUME x # i PROVE FALSE
          OBVIOUS
        <5>2. slot[x] = Empty
          BY <2>3, <3>1, <5>1
        <5>. QED BY <1>1, <3>1, <4>1, <5>2, ChainSlots
      <4>3. 1 <= Ahead(i, j)
        BY <2>2, <4>1, RingFacts, CapacityFacts DEF Slots
      <4>. QED BY <2>1, <2>7, <4>2, <4>3
    <3>. QED BY <2>8, <3>1, ChainsFromSlots
  <2>12. ScanBehindHole'
    <3>1. \A x \in Slots : ~(0 < Ahead(hole', x) /\ Ahead(hole', x) < Ahead(hole', scan'))
      BY <2>7, RingInverse, CapacityFacts DEF Slots
    <3>. QED BY <2>1, <2>3, <2>6, <2>7, <3>1 DEF ScanBehindHole
  <2>13. HeldSince'
    <3> SUFFICES ASSUME held' # None PROVE HeldSince'
      BY DEF HeldSince
    <3>1. held' = held /\ held # None /\ held.key # k
      BY <1>1
    <3>2. held.key \in Stored'
      <4>1. PICK j \in Occupied : slot[j].key = held.key
        BY <3>1, HeldFacts DEF Stored
      <4>2. j \in Occupied' /\ slot'[j] = slot[j]
        BY <2>2, <2>3, <2>4, <3>1, <4>1 DEF Occupied
      <4>. QED BY <4>1, <4>2 DEF Stored
    <3>3. PICK n \in 0 .. (LiveMax - len) : removes = (held.removes + n) % RemovesRange
      BY <3>1 DEF IInv, HeldSince
    <3>4. /\ held.removes \in 0 .. (RemovesRange - 1) /\ RemovesRange \in Nat \ {0}
          /\ n + 1 \in 0 .. (LiveMax - len') /\ n + 1 # 0
          /\ n \in 0 .. RemovesRange /\ n + 1 \in 0 .. RemovesRange /\ 1 \in 0 .. RemovesRange
      <4>1. len' = len - 1 /\ len' \in Nat /\ len \in Nat /\ LiveMax \in Nat
            /\ RemovesRange \in Nat /\ RemovesRange > LiveMax
        BY <1>1, <2>1, <2>6, LiveMaxAssumption, RemovesAssumption DEF TypeOK
      <4>2. held.removes \in 0 .. (RemovesRange - 1)
        BY <3>1, HeldFacts
      <4>. QED BY <4>1, <4>2
    <3>5. removes' = (held.removes + (n + 1)) % RemovesRange
      <4>1. removes = IF held.removes + n < RemovesRange THEN held.removes + n
                      ELSE held.removes + n - RemovesRange
        BY <3>3, <3>4, WrapUp
      <4>2. (held.removes + (n + 1)) % RemovesRange =
                IF held.removes + (n + 1) < RemovesRange THEN held.removes + (n + 1)
                ELSE held.removes + (n + 1) - RemovesRange
        BY <3>4, WrapUp
      <4>3. removes \in 0 .. (RemovesRange - 1)
        BY <1>1 DEF TypeOK
      <4>4. (removes + 1) % RemovesRange =
                IF removes + 1 < RemovesRange THEN removes + 1 ELSE removes + 1 - RemovesRange
        BY <3>4, <4>3, WrapUp
      <4>. QED BY <2>1, <3>4, <4>1, <4>2, <4>4
    <3>. QED BY <3>1, <3>2, <3>4, <3>5 DEF HeldSince
  <2>14. \A j \in Occupied' : slot'[j] = slot[j]
    BY <2>3, <2>4 DEF Occupied
  <2>. QED BY <1>3, <2>2, <2>4, <2>8, <2>9, <2>10, <2>11, <2>12, <2>13, <2>14 DEF IInv
<1>. QED BY <1>2, <1>3

\* The scan goes on over an entry that stays, or moves it into the hole.
LEMMA ShiftInv ==
    ASSUME IInv, Shift
    PROVE  /\ IInv'
           /\ Stored' = Stored
           /\ \A j \in Occupied' : \E i \in Occupied : slot'[j] = slot[i]
<1> DEFINE k == slot[scan].key
           h == home[k]
           next == (scan + 1) % Capacity
<1>1. /\ TypeOK /\ LenIsOccupancy /\ KeysOnce /\ ChainsBrokenOnlyAtHole /\ ScanBehindHole
      /\ pc = "Shift" /\ pc' = "Shift" /\ scan' = next
      /\ len' = len /\ removes' = removes /\ held' = held /\ home' = home /\ tag' = tag
      /\ scan \in Occupied /\ scan \in Slots /\ hole \in Slots
  BY DEF IInv, Shift, hash, Occupied, TypeOK
<1>2. /\ slot[hole] = Empty /\ len < LiveMax /\ scan # hole
      /\ \A x \in Slots : 0 < Ahead(hole, x) /\ Ahead(hole, x) < Ahead(hole, scan)
                              => slot[x] # Empty
  BY <1>1 DEF ScanBehindHole
<1>3. h \in Slots /\ slot[scan] \in Entries
  BY <1>1, HomesAssumption DEF TypeOK, Occupied, Entries
<1>4. next \in Slots /\ next # scan /\ Ahead(scan, next) = 1
  BY <1>1, RingNext
<1>5. InInterval(h) <=> Ahead(h, scan) < Ahead(h, hole)
  <2>1. /\ Ahead(h, scan) = IF h <= scan THEN scan - h ELSE scan - h + Capacity
        /\ Ahead(h, hole) = IF h <= hole THEN hole - h ELSE hole - h + Capacity
    BY <1>1, <1>3, RingFacts
  <2>. QED BY <2>1, <1>1, <1>2, <1>3, CapacityFacts DEF Slots, InInterval
<1>6. ASSUME held # None, Stored' = Stored PROVE HeldSince'
  BY <1>1, <1>6 DEF IInv, HeldSince
<1>7. CASE InInterval(h)
  <2>1. slot' = slot /\ hole' = hole
    BY <1>7 DEF Shift
  <2>2. TypeOK'
    BY <1>1, <1>4, <2>1 DEF TypeOK
  <2>3. Occupied' = Occupied /\ LenIsOccupancy' /\ KeysOnce' /\ Stored' = Stored
    BY <1>1, <2>1 DEF LenIsOccupancy, KeysOnce, Occupied, Stored
  <2>4. next # hole /\ Ahead(hole, next) = Ahead(hole, scan) + 1
    <3>1. /\ next = IF scan + 1 < Capacity THEN scan + 1 ELSE 0
          /\ Ahead(hole, scan) = IF hole <= scan THEN scan - hole ELSE scan - hole + Capacity
          /\ Ahead(hole, next) = IF hole <= next THEN next - hole ELSE next - hole + Capacity
      BY <1>1, <1>4, RingFacts
    <3>2. ASSUME next = hole PROVE FALSE
      <4>1. Ahead(hole, scan) = Capacity - 1
        BY <1>1, <3>1, <3>2, CapacityFacts DEF Slots
      <4>2. ASSUME NEW x \in Slots, x # hole PROVE slot[x] # Empty
        <5>1. Ahead(hole, x) = IF hole <= x THEN x - hole ELSE x - hole + Capacity
          BY <1>1, RingFacts
        <5>2. 0 < Ahead(hole, x) /\ Ahead(hole, x) <= Capacity - 1
          BY <1>1, <4>2, <5>1, CapacityFacts DEF Slots
        <5>3. CASE Ahead(hole, x) = Capacity - 1
          <6>1. x = scan
            BY <1>1, <4>1, <5>3, RingInverse
          <6>. QED BY <1>1, <6>1 DEF Occupied
        <5>4. CASE Ahead(hole, x) < Capacity - 1
          BY <1>2, <4>1, <5>2, <5>4
        <5>. QED BY <5>1, <5>2, <5>3, <5>4, <1>1, CapacityFacts DEF Slots
      <4>3. Occupied = Slots \ {hole}
        BY <1>1, <1>2, <4>2 DEF Occupied
      <4>. QED BY <1>1, <1>2, <4>3, EmptyExists
    <3>. QED BY <1>1, <3>1, <3>2, CapacityFacts DEF Slots
  <2>5. ChainsBrokenOnlyAtHole'
    <3>1. ASSUME NEW j \in Occupied', NEW x \in Slots, slot'[x] = Empty,
                 Ahead(home'[slot'[j].key], x) < Ahead(home'[slot'[j].key], j)
          PROVE  pc' = "Shift" /\ x = hole' /\ Ahead(hole', scan') <= Ahead(hole', j)
      <4>1. j \in Occupied /\ j \in Slots /\ x = hole /\ Ahead(hole, scan) <= Ahead(hole, j)
        BY <1>1, <2>1, <2>3, <3>1, ChainSlots DEF Occupied
      <4>2. j # scan
        <5>1. SUFFICES ASSUME j = scan PROVE FALSE
          OBVIOUS
        <5>2. Ahead(h, hole) < Ahead(h, scan)
          BY <1>1, <2>1, <3>1, <4>1, <5>1
        <5>3. Ahead(h, hole) \in Int /\ Ahead(h, scan) \in Int
          BY <1>1, <1>3, RingOrder
        <5>. QED BY <1>5, <1>7, <5>2, <5>3
      <4>3. Ahead(hole, scan) # Ahead(hole, j)
        BY <1>1, <4>1, <4>2, RingInverse
      <4>4. Ahead(hole, scan) \in Int /\ Ahead(hole, j) \in Int
        BY <1>1, <4>1, RingOrder
      <4>. QED BY <1>1, <2>1, <2>4, <4>1, <4>3, <4>4
    <3>. QED BY <2>2, <3>1, ChainsFromSlots
  <2>6. ScanBehindHole'
    <3>1. ASSUME NEW x \in Slots, 0 < Ahead(hole, x), Ahead(hole, x) < Ahead(hole, scan) + 1
          PROVE  slot[x] # Empty
      <4>1. Ahead(hole, x) \in Int /\ Ahead(hole, scan) \in Int
        BY <1>1, RingOrder
      <4>2. Ahead(hole, x) = Ahead(hole, scan) => x = scan
        BY <1>1, RingInverse
      <4>. QED BY <1>1, <1>2, <3>1, <4>1, <4>2 DEF Occupied
    <3>. QED BY <1>1, <1>2, <2>1, <2>4, <3>1 DEF ScanBehindHole
  <2>7. HeldSince'
    BY <1>1, <1>6, <2>3 DEF HeldSince
  <2>. QED BY <2>1, <2>2, <2>3, <2>5, <2>6, <2>7 DEF IInv
<1>8. CASE ~InInterval(h)
  <2>1. slot' = [slot EXCEPT ![hole] = slot[scan], ![scan] = Empty] /\ hole' = scan
    BY <1>8 DEF Shift
  <2>2. /\ slot'[hole] = slot[scan] /\ slot'[scan] = Empty
        /\ \A j \in Slots : j # hole /\ j # scan => slot'[j] = slot[j]
        /\ slot' \in [Slots -> Entries \cup {Empty}]
    BY <1>1, <1>2, <1>3, <2>1 DEF TypeOK
  <2>3. TypeOK'
    BY <1>1, <1>4, <2>1, <2>2 DEF TypeOK
  <2>4. Occupied' = (Occupied \ {scan}) \cup {hole} /\ hole \notin Occupied
    BY <1>1, <1>2, <2>2 DEF Occupied
  <2>5. LenIsOccupancy'
    <3>1. IsFiniteSet(Occupied \ {scan}) /\ Cardinality(Occupied \ {scan}) = Cardinality(Occupied) - 1
      BY <1>1, EmptyExists, FS_RemoveElement
    <3>2. Cardinality(Occupied') = Cardinality(Occupied \ {scan}) + 1
      BY <2>4, <3>1, FS_AddElement
    <3>3. Cardinality(Occupied) \in Nat
      BY <1>1, EmptyExists, FS_CardinalityType
    <3>. QED BY <1>1, <3>1, <3>2, <3>3 DEF LenIsOccupancy
  <2>6. KeysOnce'
    <3>1. \A j \in Occupied' : \/ j = hole
                               \/ j \in Occupied /\ j # scan /\ slot'[j] = slot[j]
      BY <1>1, <2>2, <2>4 DEF Occupied
    <3>. QED BY <1>1, <2>2, <2>4, <3>1 DEF KeysOnce
  <2>7. Stored' = Stored
    <3>1. \A j \in Occupied' : \E i \in Occupied : slot'[j].key = slot[i].key
      BY <1>1, <2>2, <2>4 DEF Occupied
    <3>2. \A j \in Occupied : \E i \in Occupied' : slot'[i].key = slot[j].key
      BY <1>1, <2>2, <2>4 DEF Occupied
    <3>. QED BY <3>1, <3>2 DEF Stored
  <2>8. ChainsBrokenOnlyAtHole'
    <3>1. ASSUME NEW j \in Occupied', NEW x \in Slots, slot'[x] = Empty,
                 Ahead(home'[slot'[j].key], x) < Ahead(home'[slot'[j].key], j)
          PROVE  pc' = "Shift" /\ x = hole' /\ Ahead(hole', scan') <= Ahead(hole', j)
      <4>1. x # hole
        BY <1>1, <2>2, <3>1 DEF Occupied
      <4>2. CASE j = hole
        <5>1. Ahead(h, x) < Ahead(h, hole)
          BY <1>1, <2>2, <3>1, <4>2
        <5>2. /\ Ahead(h, x) \in Int /\ Ahead(h, hole) \in Int /\ Ahead(h, scan) \in Int
              /\ Ahead(h, hole) # Ahead(h, scan)
          BY <1>1, <1>2, <1>3, RingOrder
        <5>3. x # scan /\ Ahead(h, x) < Ahead(h, scan)
          BY <1>5, <1>8, <5>1, <5>2
        <5>4. slot[x] = Empty
          BY <2>2, <3>1, <4>1, <5>3
        <5>. QED BY <1>1, <4>1, <5>3, <5>4, ChainSlots
      <4>3. CASE j # hole
        <5>1. j \in Occupied /\ j \in Slots /\ j # scan /\ slot'[j] = slot[j]
          BY <2>2, <2>4, <4>3 DEF Occupied
        <5>2. x = scan
          <6>1. SUFFICES ASSUME x # scan PROVE FALSE
            OBVIOUS
          <6>2. slot[x] = Empty
            BY <2>2, <3>1, <4>1, <6>1
          <6>. QED BY <1>1, <3>1, <4>1, <5>1, <6>2, ChainSlots
        <5>3. 1 <= Ahead(scan, j)
          BY <1>1, <5>1, RingOrder
        <5>. QED BY <1>1, <1>4, <2>1, <5>2, <5>3
      <4>. QED BY <4>2, <4>3
    <3>. QED BY <2>3, <3>1, ChainsFromSlots
  <2>9. ScanBehindHole'
    <3>1. \A x \in Slots : ~(0 < Ahead(scan, x) /\ Ahead(scan, x) < Ahead(scan, next))
      BY <1>1, <1>4, RingOrder
    <3>. QED BY <1>1, <1>2, <1>4, <2>1, <2>2, <3>1 DEF ScanBehindHole
  <2>10. HeldSince'
    BY <1>1, <1>6, <2>7 DEF HeldSince
  <2>11. \A j \in Occupied' : \E i \in Occupied : slot'[j] = slot[i]
    BY <1>1, <2>2, <2>4 DEF Occupied
  <2>. QED BY <2>3, <2>5, <2>6, <2>7, <2>8, <2>9, <2>10, <2>11 DEF IInv
<1>. QED BY <1>7, <1>8

\* The scan ends at an empty slot: no entry's chain crosses the hole any more.
LEMMA ShiftDoneInv ==
    ASSUME IInv, ShiftDone
    PROVE  IInv'
<1>1. /\ TypeOK /\ LenIsOccupancy /\ KeysOnce /\ ChainsBrokenOnlyAtHole /\ ScanBehindHole
      /\ pc = "Shift" /\ pc' = "Idle" /\ hole' = 0 /\ scan' = 0 /\ slot[scan] = Empty
      /\ slot' = slot /\ len' = len /\ removes' = removes /\ held' = held
      /\ home' = home /\ tag' = tag /\ scan \in Slots /\ hole \in Slots /\ scan # hole
  BY DEF IInv, ShiftDone, hash, TypeOK, ScanBehindHole
<1>2. TypeOK'
  <2>1. 0 \in Slots
    BY CapacityFacts DEF Slots
  <2>. QED BY <1>1, <2>1 DEF TypeOK
<1>3. Occupied' = Occupied /\ LenIsOccupancy' /\ KeysOnce' /\ Stored' = Stored
  BY <1>1 DEF LenIsOccupancy, KeysOnce, Occupied, Stored
<1>4. ASSUME NEW j \in Occupied, NEW x \in Slots, slot[x] = Empty,
             Ahead(home[slot[j].key], x) < Ahead(home[slot[j].key], j)
      PROVE  FALSE
  <2> DEFINE h == home[slot[j].key]
  <2>1. h \in Slots /\ j \in Slots /\ j # scan
    BY <1>1, HomesAssumption DEF TypeOK, Occupied, Entries
  <2>2. x = hole /\ Ahead(hole, scan) <= Ahead(hole, j)
    BY <1>1, <1>4, ChainSlots
  <2>3. Ahead(h, scan) < Ahead(h, j)
    <3>1. /\ Ahead(h, scan) = IF h <= scan THEN scan - h ELSE scan - h + Capacity
          /\ Ahead(h, j) = IF h <= j THEN j - h ELSE j - h + Capacity
          /\ Ahead(h, hole) = IF h <= hole THEN hole - h ELSE hole - h + Capacity
          /\ Ahead(hole, scan) = IF hole <= scan THEN scan - hole ELSE scan - hole + Capacity
          /\ Ahead(hole, j) = IF hole <= j THEN j - hole ELSE j - hole + Capacity
      BY <1>1, <2>1, RingFacts
    <3>2. Ahead(h, hole) < Ahead(h, j)
      BY <1>4, <2>2
    <3>. QED BY <1>1, <2>1, <2>2, <3>1, <3>2, CapacityFacts DEF Slots
  <2>4. scan = hole
    BY <1>1, <2>3, ChainSlots
  <2>. QED BY <1>1, <2>4
<1>5. ChainsBrokenOnlyAtHole'
  BY <1>1, <1>2, <1>3, <1>4, ChainsFromSlots
<1>6. ScanBehindHole'
  BY <1>1 DEF ScanBehindHole
<1>7. HeldSince'
  <2> SUFFICES ASSUME held # None PROVE HeldSince'
    BY <1>1 DEF HeldSince
  <2>1. PICK n \in 0 .. (LiveMax - len) :
              /\ removes = (held.removes + n) % RemovesRange
              /\ n = 0 => pc = "Idle"
    BY DEF IInv, HeldSince
  <2>2. n # 0 /\ held.key \in Stored
    BY <1>1, <2>1 DEF IInv, HeldSince
  <2>. QED BY <1>1, <1>3, <2>1, <2>2 DEF HeldSince
<1>. QED BY <1>2, <1>3, <1>5, <1>6, <1>7 DEF IInv

LEMMA NextInv == IInv /\ [Next]_vars => IInv'
<1> SUFFICES ASSUME IInv, [Next]_vars PROVE IInv'
  OBVIOUS
<1>1. CASE \E k \in Keys, v \in Vals : RestNew(k, v)
  BY <1>1, RestNewInv
<1>2. CASE \E k \in Keys : Hold(k) \/ Remove(k)
  BY <1>2, HoldInv, RemoveInv
<1>3. CASE \E v \in Vals : Rewrite(v)
  BY <1>3, RewriteInv
<1>4. CASE Shift
  BY <1>4, ShiftInv
<1>5. CASE ShiftDone
  BY <1>5, ShiftDoneInv
<1>6. CASE UNCHANGED vars
  <2>1. /\ home' = home /\ tag' = tag /\ slot' = slot /\ len' = len /\ removes' = removes
        /\ held' = held /\ pc' = pc /\ hole' = hole /\ scan' = scan
    BY <1>6 DEF vars
  <2>2. TypeOK'
    BY <2>1 DEF IInv, TypeOK
  <2>3. LenIsOccupancy' /\ KeysOnce' /\ ChainsBrokenOnlyAtHole' /\ ScanBehindHole'
    BY <2>1 DEF IInv, LenIsOccupancy, KeysOnce, ChainsBrokenOnlyAtHole, ScanBehindHole, Occupied
  <2>4. HeldSince'
    BY <2>1 DEF IInv, HeldSince, Stored, Occupied, Holds
  <2>. QED BY <2>2, <2>3, <2>4 DEF IInv
<1>. QED BY <1>1, <1>2, <1>3, <1>4, <1>5, <1>6 DEF Next

\* The table's invariant holds in every state, for every hash and every capacity.
THEOREM TableInvariant == Spec => []IInv
<1>1. Init => IInv
  BY InitInv
<1>2. IInv /\ [Next]_vars => IInv'
  BY NextInv
<1>. QED BY <1>1, <1>2, PTL DEF Spec

\* The fields keep their types; remove's locals are 0 outside it.
THEOREM TypeCorrect == Spec => []TypeOK
<1>1. IInv => TypeOK
  BY DEF IInv
<1>. QED BY <1>1, TableInvariant, PTL

\* len counts the entries and never fills more than half of the table, so that every
\* probe ends.
THEOREM LenCounts == Spec => []LenIsOccupancy
<1>1. IInv => LenIsOccupancy
  BY DEF IInv
<1>. QED BY <1>1, TableInvariant, PTL

\* Inside remove only the hole interrupts a probe chain, and only ahead of the scan.
THEOREM ChainsHold == Spec => []ChainsBrokenOnlyAtHole
<1>1. IInv => ChainsBrokenOnlyAtHole
  BY DEF IInv
<1>. QED BY <1>1, TableInvariant, PTL

\* Between operations get finds every entry where it is, after any removals.
THEOREM GetFindsEntries == Spec => []EntriesReachable
<1>1. IInv => EntriesReachable
  BY ProbeFinds DEF IInv, EntriesReachable
<1>. QED BY <1>1, TableInvariant, PTL

\* The entry index replace keeps is good until the removes counter moves, and the
\* counter never comes back to the value it was taken with.
THEOREM HeldIndexStaysValid == Spec => []HeldIndexValid
<1>1. IInv => HeldIndexValid
  BY HeldFacts DEF HeldIndexValid
<1>. QED BY <1>1, TableInvariant, PTL

-----------------------------------------------------------------------------
(* The table is a map *)

\* What get reads of a stored key.
LEMMA ContentAt ==
    KeysOnce => /\ Content = [k \in Stored |-> Content[k]]
                /\ \A i \in Occupied : slot[i].key \in Stored
                                       /\ Content[slot[i].key] = slot[i].val
<1> SUFFICES ASSUME KeysOnce
             PROVE  /\ Content = [k \in Stored |-> Content[k]]
                    /\ \A i \in Occupied : slot[i].key \in Stored
                                           /\ Content[slot[i].key] = slot[i].val
  OBVIOUS
<1>1. Content = [k \in Stored |-> Content[k]]
  BY DEF Content
<1>2. ASSUME NEW i \in Occupied
      PROVE  slot[i].key \in Stored /\ Content[slot[i].key] = slot[i].val
  <2> DEFINE k == slot[i].key
             c == CHOOSE j \in Occupied : slot[j].key = k
  <2>1. k \in Stored
    BY DEF Stored
  <2>2. c \in Occupied /\ slot[c].key = k
    OBVIOUS
  <2>3. c = i
    BY <2>2 DEF KeysOnce
  <2>4. Content[k] = slot[c].val
    BY <2>1 DEF Content
  <2>. QED BY <2>1, <2>3, <2>4
<1>. QED BY <1>1, <1>2

LEMMA ContentAtNext ==
    (KeysOnce => /\ Content = [k \in Stored |-> Content[k]]
                 /\ \A i \in Occupied : slot[i].key \in Stored
                                        /\ Content[slot[i].key] = slot[i].val)'
  BY ContentAt, PTL

\* A function that agrees with every entry is the content.
LEMMA ContentIs ==
    ASSUME KeysOnce', NEW f, f = [k \in Stored' |-> f[k]],
           \A i \in Occupied' : f[slot'[i].key] = slot'[i].val
    PROVE  Content' = f
<1>1. /\ Content' = [k \in Stored' |-> Content'[k]]
      /\ \A i \in Occupied' : Content'[slot'[i].key] = slot'[i].val
  BY ContentAtNext
<1>2. \A k \in Stored' : \E i \in Occupied' : slot'[i].key = k
  BY DEF Stored
<1>3. \A k \in Stored' : Content'[k] = f[k]
  BY <1>1, <1>2
<1>. QED BY <1>1, <1>3

LEMMA RestNewContent ==
    ASSUME IInv, NEW k \in Keys, NEW v \in Vals, RestNew(k, v)
    PROVE  Content' = [x \in Stored \cup {k} |-> IF x = k THEN v ELSE Content[x]]
<1> DEFINE f == [x \in Stored \cup {k} |-> IF x = k THEN v ELSE Content[x]]
           i == Stop(k)
<1>1. IInv' /\ KeysOnce /\ KeysOnce'
  BY RestNewInv DEF IInv
<1>2. /\ Occupied' = Occupied \cup {i} /\ slot'[i].key = k /\ slot'[i].val = v
      /\ \A j \in Occupied : slot'[j] = slot[j]
  <2>1. /\ TypeOK /\ LenIsOccupancy /\ KeysOnce /\ ChainsBrokenOnlyAtHole /\ TypeOK'
        /\ pc = "Idle" /\ ~Contains(k) /\ len < LiveMax
        /\ slot' = [slot EXCEPT ![Stop(k)] = [tag |-> tag[k], key |-> k, val |-> v]]
        /\ len' = len + 1
        /\ UNCHANGED <<hash, pc, hole, scan>>
    BY <1>1 DEF IInv, RestNew, Insert
  <2>. QED BY <2>1, EntryAdded
<1>3. k \notin Stored
  BY ProbeFinds DEF IInv, RestNew
<1> HIDE DEF i
<1>4. Stored' = Stored \cup {k}
  BY <1>2 DEF Stored
<1>5. \A j \in Occupied' : f[slot'[j].key] = slot'[j].val
  BY <1>1, <1>2, <1>3, ContentAt
<1>6. f = [x \in Stored' |-> f[x]]
  BY <1>4
<1> HIDE DEF f
<1>7. Content' = f
  BY <1>1, <1>5, <1>6, ContentIs
<1>. QED BY <1>7 DEF f

LEMMA RewriteContent ==
    ASSUME IInv, NEW v \in Vals, Rewrite(v)
    PROVE  Content' = [Content EXCEPT ![held.key] = v]
<1> DEFINE f == [Content EXCEPT ![held.key] = v]
<1>1. IInv' /\ KeysOnce /\ KeysOnce' /\ held.key \in Stored
  BY RewriteInv DEF IInv
<1>2. PICK i \in Occupied : /\ slot[i].key = held.key /\ Occupied' = Occupied
                            /\ slot'[i].key = held.key /\ slot'[i].val = v
                            /\ \A j \in Occupied : j # i => slot'[j] = slot[j]
  BY RewriteInv
<1>3. Stored' = Stored
  BY <1>2 DEF Stored
<1>4. \A j \in Occupied : j # i => slot[j].key # held.key
  BY <1>1, <1>2 DEF KeysOnce
<1>5. f = [x \in Stored |-> IF x = held.key THEN v ELSE Content[x]]
  BY <1>1, ContentAt
<1> HIDE DEF f
<1>6. \A j \in Occupied' : f[slot'[j].key] = slot'[j].val
  BY <1>1, <1>2, <1>4, <1>5, ContentAt
<1>7. f = [x \in Stored' |-> f[x]]
  BY <1>3, <1>5
<1>8. Content' = f
  BY <1>1, <1>6, <1>7, ContentIs
<1>. QED BY <1>8 DEF f

LEMMA RemoveContent ==
    ASSUME IInv, NEW k \in Keys, Remove(k)
    PROVE  Content' = [x \in Stored \ {k} |-> Content[x]]
<1> DEFINE f == [x \in Stored \ {k} |-> Content[x]]
<1>1. IInv' /\ KeysOnce /\ KeysOnce'
  BY RemoveInv DEF IInv
<1>2. Contains(k) <=> k \in Stored
  BY ProbeFinds DEF IInv, Remove
<1>3. /\ Stored' = Stored \ {k}
      /\ \A j \in Occupied' : j \in Occupied /\ slot'[j] = slot[j]
  <2>1. CASE Contains(k)
    <3>1. PICK i \in Occupied : /\ slot[i].key = k /\ Occupied' = Occupied \ {i}
                                /\ \A j \in Occupied' : slot'[j] = slot[j]
      BY <2>1, RemoveInv
    <3>2. \A j \in Occupied : j # i => slot[j].key # k
      BY <1>1, <3>1 DEF KeysOnce
    <3>. QED BY <3>1, <3>2 DEF Stored
  <2>2. CASE ~Contains(k)
    <3>1. slot' = slot
      BY <2>2, RemoveInv
    <3>. QED BY <1>2, <2>2, <3>1 DEF Stored, Occupied
  <2>. QED BY <2>1, <2>2
<1>4. \A j \in Occupied' : slot'[j].key \in Stored'
  BY DEF Stored
<1>5. \A j \in Occupied' : f[slot'[j].key] = slot'[j].val
  BY <1>1, <1>3, <1>4, ContentAt
<1>6. f = [x \in Stored' |-> f[x]]
  BY <1>3
<1> HIDE DEF f
<1>7. Content' = f
  BY <1>1, <1>5, <1>6, ContentIs
<1>. QED BY <1>7 DEF f

\* The shift inside remove, and get, leave the content alone.
LEMMA OtherContent ==
    ASSUME IInv, Next, pc = "Shift" \/ (held = None /\ held' # None)
    PROVE  Content' = Content
<1>1. KeysOnce /\ KeysOnce'
  BY NextInv DEF IInv
<1>2. Stored' = Stored /\ \A j \in Occupied' : \E i \in Occupied : slot'[j] = slot[i]
  <2>1. CASE Shift
    BY <2>1, ShiftInv
  <2>2. CASE ~Shift
    <3>1. slot' = slot
      BY <2>2 DEF Next, RestNew, Hold, Remove, Rewrite, ShiftDone
    <3>. QED BY <3>1 DEF Stored, Occupied
  <2>. QED BY <2>1, <2>2
<1>3. Content = [x \in Stored' |-> Content[x]]
  BY <1>1, <1>2, ContentAt
<1>4. \A j \in Occupied' : Content[slot'[j].key] = slot'[j].val
  BY <1>1, <1>2, ContentAt
<1>. QED BY <1>1, <1>3, <1>4, ContentIs

\* insert, the rewrite through a held index and remove change the mapping of their own
\* key and of no other; the shift, which moves entries about, changes none.
THEOREM TableActsAsMap == Spec => ActsAsMap
<1> DEFINE A == /\ \A k \in Keys, v \in Vals :
                       RestNew(k, v) =>
                           Content' = [x \in Stored \cup {k} |-> IF x = k THEN v ELSE Content[x]]
                /\ \A v \in Vals : Rewrite(v) => Content' = [Content EXCEPT ![held.key] = v]
                /\ \A k \in Keys : Remove(k) => Content' = [x \in Stored \ {k} |-> Content[x]]
                /\ pc = "Shift" \/ (held = None /\ held' # None) => Content' = Content
<1>1. IInv /\ Next => A
  BY RestNewContent, RewriteContent, RemoveContent, OtherContent
<1>2. ActsAsMap <=> [][A]_vars
  BY DEF ActsAsMap
<1> HIDE DEF A
<1>3. IInv /\ [Next]_vars => [A]_vars
  BY <1>1
<1>. QED BY <1>2, <1>3, TableInvariant, PTL DEF Spec

=============================================================================
