--------------------------- MODULE IdTablesProofs ---------------------------
(***************************************************************************)
(* Theorems about IdTables, for any ids, hashes, first capacity and lists. *)
(*                                                                         *)
(* The argument: every slot between the home of a key and its slot is      *)
(* used, so an insertion that stops at a free slot has seen every slot its *)
(* key could be in; and what is used, with what is still to be moved,      *)
(* stays under three quarters of the capacity, so some slot is free.       *)
(***************************************************************************)
EXTENDS IdTables, FiniteSets, FiniteSetTheorems, NaturalsInduction,
        WellFoundedInduction, TLAPS

UsedSlots == {s \in DOMAIN slots : Used(slots, s)}
Remaining == {s \in DOMAIN old : s >= next /\ Used(old, s)}

Shape ==
  /\ capacity = 0 \/ capacity >= 2
  /\ doing \in {"rehash", "place"} =>
       capacity >= 2 /\ DOMAIN slots = 0 .. capacity - 1 /\ arg.key \in Keys
  /\ \E m \in Nat : DOMAIN old = 0 .. m - 1
  /\ doing # "rehash" => DOMAIN old = {}

(* Every slot from the home of a key up to its slot is used. *)
Chains ==
  \A slot \in DOMAIN slots : Used(slots, slot) =>
    \A s \in Before(Home(slots[slot].key), slot) : Used(slots, s)

OldDistinct ==
  \A s, t \in Remaining : old[s].key = old[t].key => s = t

Apart ==
  \A s \in DOMAIN slots : \A t \in Remaining : slots[s].key # old[t].key

Loaded ==
  /\ count = Cardinality(UsedSlots)
  /\ count * 4 <= capacity * 3
  /\ doing = "place" => (count + 1) * 4 <= capacity * 3
  /\ doing = "rehash" => (count + Cardinality(Remaining) + 1) * 4 <= capacity * 3

Sound == Shape /\ Chains /\ OneSlotPerKey /\ OldDistinct /\ Apart

IInv == TypeOK /\ Sound /\ Loaded

-----------------------------------------------------------------------------
(* Facts about the parts of the model *)

(* A key has its home in the table. *)
LEMMA HomeInTable ==
  ASSUME TypeOK, capacity >= 2, NEW k \in Keys
  PROVE  Home(k) \in 0 .. capacity - 1
  BY TablesAssumption, SMTT(30) DEF TypeOK, Home

(* The slots a probing sees before it stops are slots of the table. *)
LEMMA BeforeInTable ==
  ASSUME TypeOK, capacity >= 2, NEW k \in Keys, NEW slot \in 0 .. capacity - 1
  PROVE  Before(Home(k), slot) \subseteq 0 .. capacity - 1
  BY HomeInTable DEF TypeOK, Before

(* An insertion that stops at a free slot has seen every slot of its key. *)
LEMMA KeyIsNew ==
  ASSUME TypeOK, Sound, capacity >= 2, DOMAIN slots = 0 .. capacity - 1,
         NEW k \in Keys, NEW slot \in DOMAIN slots,
         Stops(k, slot), ~Used(slots, slot),
         NEW t \in DOMAIN slots
  PROVE  slots[t].key # k
  <1>1. SUFFICES ASSUME slots[t].key = k PROVE FALSE
    OBVIOUS
  <1>2. Home(k) \in 0 .. capacity - 1
    BY HomeInTable
  <1>3. Used(slots, t) /\ t # slot
    BY <1>1, TablesAssumption DEF Used
  <1>4. \A s \in Before(Home(k), t) : Used(slots, s)
    BY <1>1, <1>3 DEF Sound, Chains
  <1>5. slot \notin Before(Home(k), t)
    BY <1>4
  <1>6. t \in Before(Home(k), slot)
    BY <1>2, <1>3, <1>5 DEF Before, TypeOK
  <1> QED
    BY <1>1, <1>6 DEF Stops

-----------------------------------------------------------------------------
(* The initial states *)

LEMMA InitIInv == Init => IInv
  <1> SUFFICES ASSUME Init PROVE IInv
    OBVIOUS
  <1>1. DOMAIN slots = {} /\ DOMAIN old = {}
    BY DEF Init, NoTable
  <1>2. UsedSlots = {}
    BY <1>1 DEF UsedSlots
  <1>3. Cardinality(UsedSlots) = 0
    BY <1>2, FS_EmptySet
  <1>4. TypeOK
    BY <1>1, TablesAssumption DEF Init, TypeOK, NoTable, NoEntry, Entries, AllValues
  <1>5. Sound
    <2>1. DOMAIN old = 0 .. 0 - 1
      BY <1>1
    <2> QED
      BY <1>1, <2>1 DEF Init, Sound, Shape, Chains, OneSlotPerKey, OldDistinct, Apart, Remaining
  <1>6. Loaded
    BY <1>3 DEF Init, Loaded
  <1> QED
    BY <1>4, <1>5, <1>6 DEF IInv

-----------------------------------------------------------------------------
(* Every step preserves the types *)

LEMMA TypesKept ==
  ASSUME TypeOK, Shape, Next
  PROVE  TypeOK'
  <1> USE TablesAssumption DEF TypeOK, Entries, AllValues, NoEntry, NoTable, AllocationFails
  <1>1. \A n \in Nat : FreshTable(n) \in [0 .. n - 1 -> Entries]
    BY DEF FreshTable
  <1>2. NewCapacity \in Nat
    BY DEF NewCapacity
  <1>3. ASSUME NEW k \in Keys, NEW v \in AllValues, Insert(k, v), UNCHANGED <<kind, hash>>,
               list' \in Seq(Packages)
        PROVE  TypeOK'
    <2>1. CASE TooFull /\ Grow(k, v)
      <3>1. DOMAIN slots' = 0 .. capacity' - 1 /\ slots' \in [DOMAIN slots' -> Entries]
        BY <1>1, <1>2, <2>1 DEF Grow, FreshTable
      <3> QED
        BY <1>2, <1>3, <2>1, <3>1 DEF Grow
    <2>2. CASE TooFull /\ GrowFails
      BY <1>2, <1>3, <2>2 DEF GrowFails
    <2>3. CASE ~TooFull
      BY <1>3, <2>3 DEF Insert
    <2> QED
      BY <1>3, <2>1, <2>2, <2>3 DEF Insert
  <1>4. CASE Move
    <2>1. old[next] \in Entries
      BY <1>4 DEF Move
    <2>2. DOMAIN slots' = DOMAIN slots /\ slots' \in [DOMAIN slots' -> Entries]
      <3>1. CASE slots' = slots
        BY <3>1
      <3>2. ASSUME NEW slot \in DOMAIN slots, slots' = [slots EXCEPT ![slot] = old[next]]
            PROVE  DOMAIN slots' = DOMAIN slots /\ slots' \in [DOMAIN slots' -> Entries]
        BY <2>1, <3>2
      <3> QED
        BY <1>4, <3>1, <3>2 DEF Move
    <2> QED
      BY <1>4, <2>2, SMTT(20) DEF Move
  <1>5. CASE Moved
    BY <1>5 DEF Moved
  <1>6. CASE Place
    <2> PICK slot \in DOMAIN slots :
          IF Used(slots, slot) THEN PlaceInUsed(slot) ELSE PlaceInFree(slot)
      BY <1>6 DEF Place
    <2>1. ASSUME NEW e \in Entries, slots' = [slots EXCEPT ![slot] = e]
          PROVE  DOMAIN slots' = DOMAIN slots /\ slots' \in [DOMAIN slots' -> Entries]
      BY <2>1
    <2>2. ASSUME NEW x \in AllValues, slots' = [slots EXCEPT ![slot].value = x]
          PROVE  DOMAIN slots' = DOMAIN slots /\ slots' \in [DOMAIN slots' -> Entries]
      <3>1. [slots[slot] EXCEPT !.value = x] \in Entries
        OBVIOUS
      <3> QED
        BY <2>2, <3>1
    <2>3. DOMAIN slots' = DOMAIN slots /\ slots' \in [DOMAIN slots' -> Entries]
          /\ count' \in Nat /\ failures' \in 0 .. MaxFailures
      <3>1. CASE Used(slots, slot)
        BY <2>2, <3>1, SMTT(20) DEF PlaceInUsed, Duplicate
      <3>2. CASE ~Used(slots, slot)
        <4>1. PICK e \in Entries : slots' = [slots EXCEPT ![slot] = e]
          <5>1. ASSUME NEW x \in AllValues
                PROVE  [key |-> arg.key, value |-> x] \in Entries
                       /\ [key |-> NoKey, value |-> x] \in Entries
            OBVIOUS
          <5>2. slots[slot].value \in AllValues /\ arg.value \in AllValues
            OBVIOUS
          <5> QED
            BY <3>2, <5>1, <5>2 DEF PlaceInFree
        <4>2. DOMAIN slots' = DOMAIN slots /\ slots' \in [DOMAIN slots' -> Entries]
          BY <2>1, <4>1
        <4>3. count' \in Nat /\ failures' \in 0 .. MaxFailures
          BY <3>2, SMTT(20) DEF PlaceInFree, Duplicate
        <4> QED
          BY <4>2, <4>3
      <3> QED
        BY <3>1, <3>2
    <2> QED
      BY <1>6, <2>3 DEF Place
  <1>7. ASSUME NEW k \in Keys, id_set_insert(k)
        PROVE  TypeOK'
    BY <1>3, <1>7 DEF id_set_insert
  <1>8. ASSUME NEW k \in Keys, NEW v \in AllValues, id_map_insert(k, v)
        PROVE  TypeOK'
    BY <1>3, <1>8 DEF id_map_insert
  <1>9. ASSUME Clear, list' \in Seq(Packages)
        PROVE  TypeOK'
    BY <1>9 DEF Clear
  <1>10. ASSUME Free
         PROVE  TypeOK'
    BY <1>10 DEF Free
  <1>11. CASE BuildNext
    <2>1. Head(list) \in Packages /\ list' \in Seq(Packages)
      BY <1>11 DEF BuildNext
    <2>2. CASE Usable(Head(list))
      BY <1>3, <1>11, <2>1, <2>2 DEF BuildNext, Usable, Packages
    <2>3. CASE ~Usable(Head(list))
      BY <1>11, <2>1, <2>3 DEF BuildNext
    <2> QED
      BY <2>2, <2>3
  <1>12. ASSUME NEW packages \in Lists,
                id_set_build_from_packages(packages) \/ id_map_build_from_packages(packages)
         PROVE  TypeOK'
    BY <1>9, <1>12 DEF id_set_build_from_packages, id_map_build_from_packages, Build
  <1> QED
    BY <1>4, <1>5, <1>6, <1>7, <1>8, <1>9, <1>10, <1>11, <1>12
    DEF Next, Work, id_set_clear, id_map_clear, id_set_free, id_map_free

-----------------------------------------------------------------------------
(* Every step keeps the table sound and no fuller than it may be *)

(* What a table holds is finite. *)
LEMMA TablesFinite ==
  ASSUME TypeOK, Shape
  PROVE  IsFiniteSet(UsedSlots) /\ IsFiniteSet(Remaining)
         /\ Cardinality(UsedSlots) \in Nat /\ Cardinality(Remaining) \in Nat
  <1>1. IsFiniteSet(0 .. capacity - 1)
    <2>1. 0 \in Int /\ capacity - 1 \in Int
      BY DEF TypeOK
    <2> QED
      BY ONLY <2>1, FS_Interval
  <1>2. IsFiniteSet(UsedSlots)
    <2>1. UsedSlots \subseteq 0 .. capacity - 1
      BY DEF TypeOK, UsedSlots
    <2> QED
      BY <1>1, <2>1, FS_Subset
  <1>3. PICK m \in Nat : DOMAIN old = 0 .. m - 1
    BY DEF Shape
  <1>4. IsFiniteSet(0 .. m - 1)
    <2>1. 0 \in Int /\ m - 1 \in Int
      OBVIOUS
    <2> QED
      BY ONLY <2>1, FS_Interval
  <1>5. IsFiniteSet(Remaining)
    <2>1. Remaining \subseteq 0 .. m - 1
      BY <1>3 DEF Remaining
    <2> QED
      BY <1>4, <2>1, FS_Subset
  <1> QED
    BY <1>2, <1>5, FS_CardinalityType

(* An entry that keeps its key changes no chain. *)
LEMMA KeysSame ==
  ASSUME TypeOK, Sound, DOMAIN slots' = DOMAIN slots,
         \A s \in DOMAIN slots : slots'[s].key = slots[s].key,
         capacity >= 2, DOMAIN slots = 0 .. capacity - 1,
         UNCHANGED <<hash, capacity>>
  PROVE  Chains' /\ OneSlotPerKey' /\ UsedSlots' = UsedSlots
  <1>1. \A s \in DOMAIN slots : Used(slots', s) <=> Used(slots, s)
    BY DEF Used
  <1>2. Chains'
    <2> SUFFICES ASSUME NEW slot \in DOMAIN slots', Used(slots', slot),
                        NEW s \in Before(Home(slots[slot].key), slot)
                 PROVE  Used(slots', s)
      BY DEF Chains, Before, Home
    <2>1. slots[slot].key \in Keys /\ Used(slots, slot)
      BY <1>1 DEF TypeOK, Entries, Used
    <2>2. s \in DOMAIN slots
      BY <2>1, BeforeInTable
    <2> QED
      BY <1>1, <2>2 DEF Sound, Chains
  <1> QED
    BY <1>1, <1>2 DEF Sound, OneSlotPerKey, UsedSlots, Used

(* A new key goes to a free slot whose chain is whole. *)
LEMMA KeyAdded ==
  ASSUME TypeOK, Sound, capacity >= 2, DOMAIN slots = 0 .. capacity - 1,
         NEW slot \in DOMAIN slots, ~Used(slots, slot),
         NEW e \in Entries, e.key \in Keys,
         \A s \in Before(Home(e.key), slot) : Used(slots, s),
         \A t \in DOMAIN slots : slots[t].key # e.key,
         slots' = [slots EXCEPT ![slot] = e],
         UNCHANGED <<hash, capacity>>
  PROVE  /\ Chains' /\ OneSlotPerKey'
         /\ UsedSlots' = UsedSlots \cup {slot} /\ slot \notin UsedSlots
  <1> USE TablesAssumption
  <1>1. DOMAIN slots' = DOMAIN slots
    OBVIOUS
  <1>2. slots'[slot] = e /\ \A s \in DOMAIN slots : s # slot => slots'[s] = slots[s]
    OBVIOUS
  <1>3. \A s \in DOMAIN slots : Used(slots, s) => Used(slots', s)
    BY <1>2 DEF Used
  <1>4. Used(slots', slot)
    BY <1>2 DEF Used
  <1>5. Chains'
    <2> SUFFICES ASSUME NEW t \in DOMAIN slots', Used(slots', t),
                        NEW s \in Before(Home(slots'[t].key), t)
                 PROVE  Used(slots', s)
      BY <1>1 DEF Chains, Before, Home
    <2>1. CASE t = slot
      BY <1>2, <1>3, <2>1, BeforeInTable
    <2>2. CASE t # slot
      <3>1. Used(slots, t) /\ slots[t].key \in Keys /\ slots'[t].key = slots[t].key
        BY <1>2, <2>2 DEF Used, TypeOK, Entries
      <3>2. s \in DOMAIN slots
        BY <3>1, BeforeInTable
      <3> QED
        BY <1>3, <3>1, <3>2 DEF Sound, Chains
    <2> QED
      BY <2>1, <2>2
  <1>6. OneSlotPerKey'
    BY <1>1, <1>2 DEF Sound, OneSlotPerKey, Used
  <1>7. UsedSlots' = UsedSlots \cup {slot} /\ slot \notin UsedSlots
    BY <1>1, <1>2, <1>4 DEF UsedSlots, Used
  <1> QED
    BY <1>5, <1>6, <1>7

(* Growing: everything is still to be moved. *)
LEMMA GrowKeeps ==
  ASSUME IInv, TooFull, DOMAIN old = {}, NEW k \in Keys, NEW v, Grow(k, v), UNCHANGED hash
  PROVE  Sound' /\ Loaded'
  <1> USE TablesAssumption
  <1>1. NewCapacity \in Nat /\ NewCapacity >= 2 /\ NewCapacity >= capacity
    BY SMTT(20) DEF IInv, Sound, Shape, TypeOK, NewCapacity
  <1>2. DOMAIN slots' = 0 .. capacity' - 1 /\ \A s \in DOMAIN slots' : ~Used(slots', s)
    BY DEF Grow, FreshTable, NoEntry, Used
  <1>3. UsedSlots' = {}
    BY <1>2 DEF UsedSlots
  <1>4. Remaining' = UsedSlots
    BY DEF Grow, Remaining, UsedSlots, Used, IInv, TypeOK
  <1>5. Shape'
    <2>1. \E m \in Nat : DOMAIN slots = 0 .. m - 1
      <3>1. 0 .. 0 - 1 = {}
        OBVIOUS
      <3> QED
        BY <3>1 DEF IInv, TypeOK
    <2> QED
      BY <1>1, <1>2, <2>1 DEF Grow, Shape
  <1>6. Chains' /\ OneSlotPerKey' /\ Apart'
    <2>1. \A s \in DOMAIN slots' : slots'[s].key = NoKey
      BY <1>2 DEF Used
    <2>2. \A t \in Remaining' : old'[t].key # NoKey
      BY DEF Remaining, Used
    <2> QED
      BY <1>2, <2>1, <2>2 DEF Chains, OneSlotPerKey, Apart
  <1>7. OldDistinct'
    BY <1>4 DEF Grow, OldDistinct, IInv, Sound, OneSlotPerKey, UsedSlots
  <1>8. Loaded'
    <2>1. Cardinality(UsedSlots') = 0
      BY <1>3, FS_EmptySet
    <2>2. Cardinality(Remaining') = count
      BY <1>4 DEF IInv, Loaded
    <2>3. count \in Nat /\ capacity \in Nat /\ count * 4 <= capacity * 3
      BY DEF IInv, Loaded, TypeOK
    <2>4. (count + 1) * 4 <= NewCapacity * 3
      BY <1>1, <2>3 DEF NewCapacity, IInv, Sound, Shape
    <2> QED
      BY <1>1, <2>1, <2>2, <2>3, <2>4 DEF Grow, Loaded
  <1> QED
    BY <1>5, <1>6, <1>7, <1>8 DEF Sound

(* Moving: a key leaves what is to be moved for the first free slot. *)
LEMMA MoveKeeps ==
  ASSUME IInv, Move
  PROVE  Sound' /\ Loaded'
  <1> USE TablesAssumption
  <1>1. capacity >= 2 /\ DOMAIN slots = 0 .. capacity - 1 /\ arg.key \in Keys
    BY DEF Move, IInv, Sound, Shape
  <1>2. UNCHANGED <<hash, capacity, old, doing, arg>> /\ next' = next + 1 /\ doing = "rehash"
    BY DEF Move
  <1>9. next \in Nat /\ \A s \in DOMAIN old : s \in Nat
    BY DEF IInv, TypeOK, Sound, Shape
  <1>3. CASE ~Used(old, next)
    <2>1. slots' = slots /\ count' = count
      BY <1>3 DEF Move
    <2>2. Remaining' = Remaining
      BY <1>2, <1>3, <1>9 DEF Remaining, Used
    <2>3. UsedSlots' = UsedSlots
      BY <2>1 DEF UsedSlots, Used
    <2>4. Shape' /\ Chains' /\ OneSlotPerKey'
      BY <1>2, <2>1 DEF IInv, Sound, Shape, Chains, OneSlotPerKey, Before, Home, Used
    <2>5. OldDistinct' /\ Apart'
      BY <1>2, <2>1, <2>2 DEF IInv, Sound, OldDistinct, Apart
    <2>6. Loaded'
      BY <1>2, <2>1, <2>2, <2>3 DEF IInv, Loaded
    <2> QED
      BY <2>4, <2>5, <2>6 DEF Sound
  <1>4. CASE Used(old, next)
    <2> DEFINE e == old[next]
    <2>1. PICK slot \in DOMAIN slots :
            StopsAtFree(e.key, slot) /\ slots' = [slots EXCEPT ![slot] = e]
      BY <1>4 DEF Move
    <2>2. next \in DOMAIN old /\ next \in Nat /\ count' = count + 1
      BY <1>4 DEF Move, IInv, TypeOK
    <2>3. e \in Entries /\ e.key \in Keys
      BY <1>4, <2>2 DEF Used, Entries, IInv, TypeOK
    <2>4. next \in Remaining
      BY <1>4, <2>2 DEF Remaining
    <2>5. \A t \in DOMAIN slots : slots[t].key # e.key
      BY <2>4 DEF IInv, Sound, Apart
    <2>6. ~Used(slots, slot) /\ \A s \in Before(Home(e.key), slot) : Used(slots, s)
      BY <2>1 DEF StopsAtFree
    <2>7. /\ Chains' /\ OneSlotPerKey'
          /\ UsedSlots' = UsedSlots \cup {slot} /\ slot \notin UsedSlots
      BY <1>1, <1>2, <2>1, <2>3, <2>5, <2>6, KeyAdded DEF IInv
    <2>8. Remaining' = Remaining \ {next}
      BY <1>2, <1>9, <2>2 DEF Remaining, Used
    <2>9. Shape'
      BY <1>2, <2>1 DEF IInv, Sound, Shape
    <2>10. OldDistinct'
      BY <1>2, <2>8 DEF IInv, Sound, OldDistinct
    <2>11. Apart'
      <3> SUFFICES ASSUME NEW s \in DOMAIN slots, NEW t \in Remaining, t # next
                   PROVE  slots'[s].key # old[t].key
        BY <1>2, <2>1, <2>8 DEF Apart
      <3>1. slots'[s] = IF s = slot THEN e ELSE slots[s]
        BY <2>1
      <3> QED
        BY <2>4, <3>1 DEF IInv, Sound, OldDistinct, Apart
    <2>12. Loaded'
      <3>1. Cardinality(UsedSlots') = Cardinality(UsedSlots) + 1
        BY <2>7, TablesFinite, FS_AddElement DEF IInv, Sound
      <3>2. Cardinality(Remaining') = Cardinality(Remaining) - 1
        BY <2>4, <2>8, TablesFinite, FS_RemoveElement DEF IInv, Sound
      <3>3. Cardinality(Remaining) \in Nat /\ count \in Nat /\ capacity \in Nat
        BY TablesFinite DEF IInv, Sound, TypeOK
      <3>4. /\ count = Cardinality(UsedSlots)
            /\ (count + Cardinality(Remaining) + 1) * 4 <= capacity * 3
        BY <1>2 DEF IInv, Loaded
      <3>5. count' = Cardinality(UsedSlots') /\ count' * 4 <= capacity' * 3
            /\ (count' + Cardinality(Remaining') + 1) * 4 <= capacity' * 3
        <4>1. Cardinality(Remaining) > 0
          BY <2>4, <3>3, TablesFinite, FS_EmptySet DEF IInv, Sound
        <4> QED
          BY <1>2, <2>2, <3>1, <3>2, <3>3, <3>4, <4>1, SMTT(20)
      <3> QED
        BY <1>2, <3>5 DEF Loaded
    <2> QED
      BY <2>7, <2>9, <2>10, <2>11, <2>12 DEF Sound
  <1> QED
    BY <1>3, <1>4

(* Everything was moved. *)
LEMMA MovedKeeps ==
  ASSUME IInv, Moved
  PROVE  Sound' /\ Loaded'
  <1>1. DOMAIN old' = {} /\ Remaining' = {}
    BY DEF Moved, NoTable, Remaining
  <1>2. Remaining = {}
    <2>1. PICK m \in Nat : DOMAIN old = 0 .. m - 1
      BY DEF IInv, Sound, Shape
    <2> QED
      BY <2>1 DEF Moved, AllMoved, Remaining, IInv, TypeOK
  <1>3. UsedSlots' = UsedSlots
    BY DEF Moved, UsedSlots, Used
  <1>4. Shape'
    <2>1. DOMAIN old' = 0 .. 0 - 1
      BY <1>1
    <2> QED
      BY <1>1, <2>1 DEF Moved, IInv, Sound, Shape
  <1>5. Chains' /\ OneSlotPerKey' /\ OldDistinct' /\ Apart'
    BY <1>1 DEF Moved, IInv, Sound, Chains, OneSlotPerKey, OldDistinct, Apart, Before, Home, Used
  <1>6. Loaded'
    BY <1>2, <1>3, FS_EmptySet DEF Moved, IInv, Loaded, TypeOK
  <1> QED
    BY <1>4, <1>5, <1>6 DEF Sound

(* The entry an insertion leaves: the keys are the same, or a free slot got a
   key that was in no other. *)
LEMMA PlaceCases ==
  ASSUME IInv, Place
  PROVE  \E slot \in DOMAIN slots :
           \/ /\ DOMAIN slots' = DOMAIN slots /\ count' = count
              /\ \A s \in DOMAIN slots : slots'[s].key = slots[s].key
           \/ /\ ~Used(slots, slot) /\ Stops(arg.key, slot) /\ count' = count + 1
              /\ \E x \in AllValues :
                   slots' = [slots EXCEPT ![slot] = [key |-> arg.key, value |-> x]]
  <1> PICK slot \in DOMAIN slots :
        Stops(arg.key, slot)
        /\ IF Used(slots, slot) THEN PlaceInUsed(slot) ELSE PlaceInFree(slot)
    BY DEF Place
  <1> WITNESS slot \in DOMAIN slots
  <1>1. CASE Used(slots, slot)
    <2>1. ASSUME NEW x \in AllValues, slots' = [slots EXCEPT ![slot].value = x]
          PROVE  \A s \in DOMAIN slots : slots'[s].key = slots[s].key
      <3>1. slots[slot] \in Entries
        BY DEF IInv, TypeOK
      <3> QED
        BY <2>1, <3>1 DEF Entries
    <2> QED
      BY <1>1, <2>1 DEF PlaceInUsed
  <1>2. CASE ~Used(slots, slot)
    <2>1. ASSUME NEW x, slots' = [slots EXCEPT ![slot] = [key |-> NoKey, value |-> x]]
          PROVE  \A s \in DOMAIN slots : slots'[s].key = slots[s].key
      BY <1>2, <2>1 DEF Used
    <2> QED
      BY <1>2, <2>1 DEF PlaceInFree
  <1> QED
    BY <1>1, <1>2

LEMMA PlaceKeeps ==
  ASSUME IInv, Place
  PROVE  Sound' /\ Loaded'
  <1> USE TablesAssumption
  <1>1. capacity >= 2 /\ DOMAIN slots = 0 .. capacity - 1 /\ arg.key \in Keys
    BY DEF Place, IInv, Sound, Shape
  <1>2. /\ UNCHANGED <<hash, capacity, old, next>> /\ doing = "place" /\ doing' = "idle"
        /\ DOMAIN old = {}
    BY DEF Place, IInv, Sound, Shape
  <1>3. DOMAIN slots' = DOMAIN slots
    BY PlaceCases
  <1>4. Shape' /\ OldDistinct' /\ Apart'
    BY <1>2, <1>3 DEF IInv, Sound, Shape, OldDistinct, Apart, Remaining
  <1>5. count \in Nat /\ capacity \in Nat
    BY DEF IInv, TypeOK
  <1> PICK slot \in DOMAIN slots :
           \/ /\ DOMAIN slots' = DOMAIN slots /\ count' = count
              /\ \A s \in DOMAIN slots : slots'[s].key = slots[s].key
           \/ /\ ~Used(slots, slot) /\ Stops(arg.key, slot) /\ count' = count + 1
              /\ \E x \in AllValues :
                   slots' = [slots EXCEPT ![slot] = [key |-> arg.key, value |-> x]]
    BY PlaceCases
  <1>6. CASE count' = count /\ \A s \in DOMAIN slots : slots'[s].key = slots[s].key
    <2>1. Chains' /\ OneSlotPerKey' /\ UsedSlots' = UsedSlots
      BY <1>1, <1>2, <1>3, <1>6, KeysSame DEF IInv
    <2>2. Loaded'
      BY <1>2, <1>5, <1>6, <2>1 DEF IInv, Loaded
    <2> QED
      BY <1>4, <2>1, <2>2 DEF Sound
  <1>7. CASE /\ ~Used(slots, slot) /\ Stops(arg.key, slot) /\ count' = count + 1
             /\ \E x \in AllValues :
                  slots' = [slots EXCEPT ![slot] = [key |-> arg.key, value |-> x]]
    <2> PICK x \in AllValues : slots' = [slots EXCEPT ![slot] = [key |-> arg.key, value |-> x]]
      BY <1>7
    <2> DEFINE e == [key |-> arg.key, value |-> x]
    <2>1. e \in Entries /\ e.key = arg.key
      BY <1>1 DEF Entries
    <2>2. \A t \in DOMAIN slots : slots[t].key # e.key
      BY <1>1, <1>7, <2>1, KeyIsNew DEF IInv
    <2>3. \A s \in Before(Home(e.key), slot) : Used(slots, s)
      BY <1>7, <2>1 DEF Stops, Used
    <2>4. /\ Chains' /\ OneSlotPerKey'
          /\ UsedSlots' = UsedSlots \cup {slot} /\ slot \notin UsedSlots
      <3> HIDE DEF e
      <3>1. slots' = [slots EXCEPT ![slot] = e]
        BY DEF e
      <3> QED
        BY <1>1, <1>2, <1>7, <2>1, <2>2, <2>3, <3>1, KeyAdded DEF IInv
    <2>5. Cardinality(UsedSlots') = Cardinality(UsedSlots) + 1
      BY <2>4, TablesFinite, FS_AddElement DEF IInv, Sound
    <2>6. Loaded'
      BY <1>2, <1>5, <1>7, <2>5 DEF IInv, Loaded
    <2> QED
      BY <1>4, <2>4, <2>6 DEF Sound
  <1> QED
    BY <1>6, <1>7

LEMMA InsertKeeps ==
  ASSUME IInv, doing = "idle", NEW k \in Keys, NEW v \in AllValues, Insert(k, v),
         UNCHANGED hash
  PROVE  Sound' /\ Loaded'
  <1> USE TablesAssumption
  <1>1. DOMAIN old = {}
    BY DEF IInv, Sound, Shape
  <1>2. CASE TooFull /\ Grow(k, v)
    BY <1>1, <1>2, GrowKeeps
  <1>3. CASE TooFull /\ GrowFails
    <2>1. DOMAIN slots' = {} /\ UsedSlots' = {}
      BY <1>3 DEF GrowFails, NoTable, UsedSlots
    <2>2. capacity' \in Nat /\ capacity' >= 2
      BY <1>3 DEF GrowFails, NewCapacity, IInv, Sound, Shape, TypeOK
    <2>3. Sound'
      BY <1>1, <1>3, <2>1, <2>2 DEF GrowFails, IInv, Sound, Shape, Chains, OneSlotPerKey,
        OldDistinct, Apart, Remaining
    <2>4. Loaded'
      BY <1>3, <2>1, <2>2, FS_EmptySet DEF GrowFails, Loaded
    <2> QED
      BY <2>3, <2>4
  <1>4. CASE ~TooFull
    <2>1. /\ UNCHANGED <<slots, capacity, count, old, next, hash>> /\ arg'.key = k
          /\ doing' = IF DOMAIN slots = {} THEN "crashed" ELSE "place"
      BY <1>4 DEF Insert
    <2>2. Shape'
      BY <1>1, <1>4, <2>1 DEF IInv, Sound, Shape, TypeOK, TooFull
    <2>3. Chains' /\ OneSlotPerKey' /\ OldDistinct' /\ Apart'
      BY <2>1 DEF IInv, Sound, Chains, OneSlotPerKey, OldDistinct, Apart, Remaining, Before,
        Home, Used
    <2>4. UsedSlots' = UsedSlots
      BY <2>1 DEF UsedSlots, Used
    <2>5. Loaded'
      BY <1>4, <2>1, <2>4, SMTT(20) DEF IInv, Loaded, TypeOK, TooFull
    <2> QED
      BY <2>2, <2>3, <2>5 DEF Sound
  <1> QED
    BY <1>2, <1>3, <1>4 DEF Insert

(* Emptied: there is nothing to say of a table without keys. *)
LEMMA EmptyKeeps ==
  ASSUME IInv, Idle, UNCHANGED <<old, next, doing, arg>>, count' = 0,
         capacity' \in Nat, capacity' = 0 \/ capacity' >= 2,
         \A s \in DOMAIN slots' : ~Used(slots', s)
  PROVE  Sound' /\ Loaded'
  <1> USE TablesAssumption
  <1>1. UsedSlots' = {} /\ Remaining' = {}
    BY DEF UsedSlots, Remaining, Idle, IInv, Sound, Shape
  <1>2. Sound'
    BY <1>1 DEF IInv, Idle, Sound, Shape, Chains, OneSlotPerKey, OldDistinct, Apart
  <1>3. Loaded'
    <2>1. Cardinality(UsedSlots') = 0
      BY <1>1, FS_EmptySet
    <2>2. doing' = "idle"
      BY DEF Idle
    <2>3. count' * 4 <= capacity' * 3
      <3>1. \A n \in Nat : 0 * 4 <= n * 3
        OBVIOUS
      <3>2. count' = 0 /\ capacity' \in Nat
        OBVIOUS
      <3> QED
        BY ONLY <3>1, <3>2
    <2> QED
      BY ONLY <2>1, <2>2, <2>3, count' = 0 DEF Loaded
  <1> QED
    BY <1>2, <1>3

LEMMA ClearKeeps ==
  ASSUME IInv, Idle, Clear
  PROVE  Sound' /\ Loaded'
  <1>1. \A s \in DOMAIN slots' : ~Used(slots', s)
    BY DEF Clear, NoEntry, Used
  <1> QED
    BY <1>1, EmptyKeeps DEF Clear, IInv, TypeOK, Sound, Shape

LEMMA FreeKeeps ==
  ASSUME IInv, Free
  PROVE  Sound' /\ Loaded'
  <1>1. \A s \in DOMAIN slots' : ~Used(slots', s)
    BY DEF Free, NoTable
  <1> QED
    BY <1>1, EmptyKeeps DEF Free

(* The table is a function of these variables only. *)
LEMMA StutterKeeps ==
  ASSUME IInv, UNCHANGED <<hash, slots, capacity, count, old, next, doing, arg>>
  PROVE  Sound' /\ Loaded'
  BY SMTT(20) DEF IInv, Sound, Shape, Chains, OneSlotPerKey, OldDistinct, Apart, Loaded,
    Remaining, UsedSlots, Before, Home, Used

LEMMA BuildNextKeeps ==
  ASSUME IInv, BuildNext
  PROVE  Sound' /\ Loaded'
  <1>1. Head(list) \in Packages
    BY DEF BuildNext, IInv, TypeOK
  <1>2. CASE Usable(Head(list))
    <2>1. Head(list).id \in Keys
          /\ (IF kind = "map" THEN Head(list).version ELSE NoValue) \in AllValues
      BY <1>1, <1>2 DEF Usable, Packages, AllValues
    <2> QED
      BY <1>2, <2>1, InsertKeeps DEF BuildNext
  <1>3. CASE ~Usable(Head(list))
    BY <1>3, StutterKeeps DEF BuildNext
  <1> QED
    BY <1>2, <1>3

(* The invariant is inductive. *)
LEMMA NextIInv == IInv /\ [Next]_vars => IInv'
  <1> SUFFICES ASSUME IInv, [Next]_vars PROVE IInv'
    OBVIOUS
  <1>1. CASE UNCHANGED vars
    <2>1. TypeOK'
      BY <1>1 DEF IInv, TypeOK, vars
    <2> QED
      BY <1>1, <2>1, StutterKeeps DEF IInv, vars
  <1>2. CASE Next
    <2>1. TypeOK'
      BY <1>2, TypesKept DEF IInv, Sound
    <2>2. NoValue \in AllValues
      BY DEF AllValues
    <2>3. Sound' /\ Loaded'
      <3>1. CASE Work
        <4>1. CASE Move
          BY <4>1, MoveKeeps
        <4>2. CASE Moved
          BY <4>2, MovedKeeps
        <4>3. CASE Place
          BY <4>3, PlaceKeeps
        <4>4. CASE BuildNext
          BY <4>4, BuildNextKeeps
        <4> QED
          BY <3>1, <4>1, <4>2, <4>3, <4>4 DEF Work
      <3>2. ASSUME NEW k \in Keys, id_set_insert(k)
            PROVE  Sound' /\ Loaded'
        BY <2>2, <3>2, InsertKeeps DEF id_set_insert, Idle
      <3>3. ASSUME NEW k \in Keys, NEW v \in AllValues, id_map_insert(k, v)
            PROVE  Sound' /\ Loaded'
        BY <3>3, InsertKeeps DEF id_map_insert, Idle
      <3>4. CASE id_set_clear \/ id_map_clear
        BY <3>4, ClearKeeps DEF id_set_clear, id_map_clear
      <3>5. CASE id_set_free \/ id_map_free
        BY <3>5, FreeKeeps DEF id_set_free, id_map_free
      <3>6. ASSUME NEW packages \in Lists,
                   id_set_build_from_packages(packages) \/ id_map_build_from_packages(packages)
            PROVE  Sound' /\ Loaded'
        BY <3>6, ClearKeeps DEF id_set_build_from_packages, id_map_build_from_packages, Build
      <3> QED
        BY <1>2, <3>1, <3>2, <3>3, <3>4, <3>5, <3>6 DEF Next
    <2> QED
      BY <2>1, <2>3 DEF IInv
  <1> QED
    BY <1>1, <1>2

LEMMA AlwaysIInv == Spec => []IInv
  BY InitIInv, NextIInv, PTL DEF Spec

-----------------------------------------------------------------------------
(* The variables keep their types. *)
THEOREM TablesTypes == Spec => []TypeOK
  <1>1. IInv => TypeOK
    BY DEF IInv
  <1> QED
    BY <1>1, AlwaysIInv, PTL

(* No id is in two slots. *)
THEOREM TablesOneSlot == Spec => []OneSlotPerKey
  <1>1. IInv => OneSlotPerKey
    BY DEF IInv, Sound
  <1> QED
    BY <1>1, AlwaysIInv, PTL

(* A lookup of any id in the table finds it, whatever the hashes. *)
THEOREM TablesFind == Spec => []LookupFinds
  <1>1. IInv => LookupFinds
    <2> SUFFICES ASSUME IInv, NEW slot \in DOMAIN slots, Used(slots, slot)
                 PROVE  Stops(slots[slot].key, slot)
      BY DEF LookupFinds
    <2> DEFINE k == slots[slot].key
    <2>1. k \in Keys /\ capacity >= 2 /\ DOMAIN slots = 0 .. capacity - 1
      BY TablesAssumption DEF IInv, Sound, Shape, TypeOK, Entries, Used
    <2>2. \A s \in Before(Home(k), slot) : Used(slots, s) /\ s \in DOMAIN slots
      BY <2>1, BeforeInTable DEF IInv, Sound, Chains
    <2>3. slot \notin Before(Home(k), slot)
      BY <2>1, HomeInTable DEF Before, IInv, TypeOK
    <2>4. \A s \in Before(Home(k), slot) : slots[s].key # k
      BY <2>2, <2>3 DEF IInv, Sound, OneSlotPerKey
    <2> QED
      BY <2>2, <2>4 DEF Stops, Used
  <1> QED
    BY <1>1, AlwaysIInv, PTL

(* Some slot is free, so that every probing ends. *)
THEOREM TablesLookupEnds == Spec => []LookupEnds
  <1>1. IInv => LookupEnds
    <2> SUFFICES ASSUME IInv, DOMAIN slots # {}, \A s \in DOMAIN slots : Used(slots, s)
                 PROVE  FALSE
      BY DEF LookupEnds
    <2>1. DOMAIN slots = 0 .. capacity - 1 /\ capacity \in Nat /\ capacity >= 2
      BY DEF IInv, Sound, Shape, TypeOK
    <2>2. UsedSlots = 0 .. capacity - 1
      BY <2>1 DEF UsedSlots
    <2>3. Cardinality(0 .. capacity - 1) = capacity
      <3>1. 0 \in Int /\ capacity - 1 \in Int /\ ~(0 > capacity - 1)
        BY <2>1
      <3>2. Cardinality(0 .. capacity - 1) = capacity - 1 - 0 + 1
        BY ONLY <3>1, FS_Interval
      <3> QED
        BY <2>1, <3>2
    <2>4. capacity * 4 <= capacity * 3
      BY <2>2, <2>3 DEF IInv, Loaded
    <2> QED
      BY <2>1, <2>4
  <1> QED
    BY <1>1, AlwaysIInv, PTL

-----------------------------------------------------------------------------
(* Every probing stops, at one slot *)

LEMMA LeastSlot ==
  ASSUME NEW S \in SUBSET Nat, S # {}
  PROVE  \E least \in S : \A i \in S : least <= i
  <1>1. IsWellFoundedOn(OpToRel(<, Nat), Nat)
    BY NatLessThanWellFounded
  <1>2. PICK least \in S : \A i \in S : <<i, least>> \notin OpToRel(<, Nat)
    BY <1>1, WFMin
  <1>3. ASSUME NEW i \in S, i < least
        PROVE  FALSE
    <2>1. <<i, least>> \in Nat \X Nat /\ <<i, least>>[1] < <<i, least>>[2]
      BY <1>3
    <2>2. <<i, least>> \in OpToRel(<, Nat)
      BY ONLY <2>1, Zenon DEF OpToRel
    <2> QED
      BY <1>2, <2>2
  <1> QED
    BY <1>3

(* From its home on, round the end of the table, a probing comes to one first
   slot of any slots that stop it. *)
LEMMA FirstOfProbe ==
  ASSUME TypeOK, capacity >= 2, NEW k \in Keys,
         NEW S \in SUBSET (0 .. capacity - 1), S # {}
  PROVE  /\ \E slot \in S : Before(Home(k), slot) \cap S = {}
         /\ \A s, t \in S : Before(Home(k), s) \cap S = {} /\ Before(Home(k), t) \cap S = {}
                            => s = t
  <1>1. Home(k) \in 0 .. capacity - 1 /\ capacity \in Nat
    BY HomeInTable DEF TypeOK
  <1>2. \E slot \in S : Before(Home(k), slot) \cap S = {}
    <2>1. CASE \E s \in S : s >= Home(k)
      <3> DEFINE onward == {s \in S : s >= Home(k)}
      <3>1. onward \in SUBSET Nat /\ onward # {}
        <4>1. \A s \in S : s \in Nat
          BY <1>1
        <4>2. onward \subseteq Nat
          BY <4>1
        <4> QED
          BY <2>1, <4>2
      <3> HIDE DEF onward
      <3>2. PICK least \in onward : \A i \in onward : least <= i
        BY <3>1, LeastSlot
      <3>3. least \in S /\ least >= Home(k) /\ \A i \in S : i >= Home(k) => least <= i
        BY <3>2 DEF onward
      <3>4. Before(Home(k), least) = Home(k) .. least - 1
        BY <1>1, <3>3 DEF Before
      <3> QED
        BY <1>1, <3>3, <3>4
    <2>2. CASE ~\E s \in S : s >= Home(k)
      <3>1. S \in SUBSET Nat
        BY <1>1
      <3>2. PICK least \in S : \A i \in S : least <= i
        BY <3>1, LeastSlot
      <3>3. Before(Home(k), least) = (Home(k) .. capacity - 1) \cup (0 .. least - 1)
        BY <1>1, <2>2 DEF Before
      <3> QED
        BY <1>1, <2>2, <3>2, <3>3
    <2> QED
      BY <2>1, <2>2
  <1>3. ASSUME NEW s \in S, NEW t \in S, Before(Home(k), s) \cap S = {},
               Before(Home(k), t) \cap S = {}
        PROVE  s = t
    <2>1. s \notin Before(Home(k), t) /\ t \notin Before(Home(k), s)
      BY <1>3
    <2> QED
      BY <1>1, <2>1 DEF Before
  <1> QED
    BY <1>2, <1>3

(* Each loop of the code ends, and at a slot that it alone decides: there is one
   where the probing for a key stops, and it is the only one. A table that is
   being filled has slots. *)
ProbingsStop ==
  /\ DOMAIN slots # {} =>
       \A k \in Keys :
         \E slot \in DOMAIN slots : \A s \in DOMAIN slots : Stops(k, s) <=> s = slot
  /\ doing \in {"rehash", "place"} => DOMAIN slots # {}
  /\ doing = "rehash" =>
       \A i \in Remaining :
         \E slot \in DOMAIN slots :
           \A s \in DOMAIN slots : StopsAtFree(old[i].key, s) <=> s = slot

(* No probing of a set or a map goes round for ever, be the key in the table or
   not, and however the hashes of its keys collide: the safety OperationEnds rests on. *)
THEOREM TablesProbingsStop == Spec => []ProbingsStop
  <1>1. IInv /\ LookupEnds => ProbingsStop
    <2> SUFFICES ASSUME IInv, LookupEnds
                 PROVE  ProbingsStop
      OBVIOUS
    <2> USE TablesAssumption
    <2>1. doing \in {"rehash", "place"} => DOMAIN slots # {}
      <3>1. capacity >= 2 /\ capacity \in Nat => 0 \in 0 .. capacity - 1
        OBVIOUS
      <3> QED
        BY <3>1 DEF IInv, Sound, Shape, TypeOK
    <2>2. TypeOK /\ (DOMAIN slots # {} => capacity >= 2 /\ DOMAIN slots = 0 .. capacity - 1)
      BY DEF IInv, Sound, Shape, TypeOK
    <2>3. ASSUME DOMAIN slots # {}, NEW k \in Keys
          PROVE  \E slot \in DOMAIN slots : \A s \in DOMAIN slots : Stops(k, s) <=> s = slot
      <3> DEFINE ends == {s \in 0 .. capacity - 1 : slots[s].key \in {NoKey, k}}
      <3>1. ends \in SUBSET (0 .. capacity - 1) /\ ends # {}
        BY <2>2, <2>3 DEF LookupEnds, Used
      <3>2. \A s \in DOMAIN slots :
              Stops(k, s) <=> s \in ends /\ Before(Home(k), s) \cap ends = {}
        <4>1. \A s \in DOMAIN slots : Before(Home(k), s) \subseteq 0 .. capacity - 1
          BY <2>2, <2>3, BeforeInTable
        <4> QED
          BY <2>2, <2>3, <4>1 DEF Stops
      <3>3. ends \subseteq DOMAIN slots
        BY <2>2, <2>3
      <3> HIDE DEF ends
      <3>4. /\ \E slot \in ends : Before(Home(k), slot) \cap ends = {}
            /\ \A s, t \in ends :
                 Before(Home(k), s) \cap ends = {} /\ Before(Home(k), t) \cap ends = {} => s = t
        BY <2>2, <2>3, <3>1, FirstOfProbe
      <3> QED
        BY <3>2, <3>3, <3>4
    <2>4. ASSUME doing = "rehash", NEW i \in Remaining
          PROVE  \E slot \in DOMAIN slots :
                   \A s \in DOMAIN slots : StopsAtFree(old[i].key, s) <=> s = slot
      <3> DEFINE k == old[i].key
      <3>0. k \in Keys /\ DOMAIN slots # {}
        BY <2>1, <2>2, <2>4 DEF Remaining, Used, TypeOK, Entries
      <3> HIDE DEF k
      <3> DEFINE ends == {s \in 0 .. capacity - 1 : ~Used(slots, s)}
      <3>1. ends \in SUBSET (0 .. capacity - 1) /\ ends # {}
        BY <2>2, <3>0 DEF LookupEnds
      <3>2. \A s \in DOMAIN slots :
              StopsAtFree(k, s) <=> s \in ends /\ Before(Home(k), s) \cap ends = {}
        <4>1. \A s \in DOMAIN slots : Before(Home(k), s) \subseteq 0 .. capacity - 1
          BY <2>2, <3>0, BeforeInTable
        <4> QED
          BY <2>2, <3>0, <4>1 DEF StopsAtFree
      <3>3. ends \subseteq DOMAIN slots
        BY <2>2, <3>0
      <3> HIDE DEF ends
      <3>4. /\ \E slot \in ends : Before(Home(k), slot) \cap ends = {}
            /\ \A s, t \in ends :
                 Before(Home(k), s) \cap ends = {} /\ Before(Home(k), t) \cap ends = {} => s = t
        BY <2>2, <3>0, <3>1, FirstOfProbe
      <3>5. \E slot \in DOMAIN slots : \A s \in DOMAIN slots : StopsAtFree(k, s) <=> s = slot
        BY <3>2, <3>3, <3>4
      <3> QED
        BY <3>5 DEF k
    <2> QED
      BY <2>1, <2>3, <2>4 DEF ProbingsStop
  <1> QED
    BY <1>1, AlwaysIInv, TablesLookupEnds, PTL

-----------------------------------------------------------------------------
(* The tables implement a dictionary *)

PairAt(table, slot) == <<table[slot].key, table[slot].value>>

LEMMA InPairs ==
  ASSUME NEW p
  PROVE  p \in Pairs <=> \/ \E s \in UsedSlots : p = PairAt(slots, s)
                         \/ \E s \in Remaining : p = PairAt(old, s)
  BY DEF Pairs, UsedSlots, Remaining, PairAt

LEMMA InPairsNext ==
  ASSUME NEW p
  PROVE  p \in Pairs' <=> \/ \E s \in UsedSlots' : p = PairAt(slots', s)
                          \/ \E s \in Remaining' : p = PairAt(old', s)
  BY DEF Pairs, UsedSlots, Remaining, PairAt

LEMMA SamePairs ==
  ASSUME UNCHANGED <<slots, old, next>>
  PROVE  Pairs' = Pairs
  BY DEF Pairs, Used

(* Nothing used is nothing in the dictionary. *)
LEMMA NoPairs ==
  ASSUME UsedSlots' = {}, Remaining' = {}
  PROVE  Pairs' = {}
  BY InPairsNext

LEMMA MovePairs ==
  ASSUME IInv, Move
  PROVE  Pairs' = Pairs
  <1> USE TablesAssumption
  <1>1. old' = old /\ next' = next + 1 /\ next \in DOMAIN old
    BY DEF Move
  <1>2. next \in Nat /\ \A s \in DOMAIN old : s \in Nat
    BY DEF IInv, TypeOK, Sound, Shape
  <1>3. CASE ~Used(old, next)
    <2>1. slots' = slots
      BY <1>3 DEF Move
    <2>2. Remaining' = Remaining
      BY <1>1, <1>2, <1>3 DEF Remaining, Used
    <2>3. UsedSlots' = UsedSlots
      BY <2>1 DEF UsedSlots, Used
    <2> QED
      BY <1>1, <2>1, <2>2, <2>3, InPairs, InPairsNext
  <1>4. CASE Used(old, next)
    <2>1. PICK slot \in DOMAIN slots :
            ~Used(slots, slot) /\ slots' = [slots EXCEPT ![slot] = old[next]]
      BY <1>4 DEF Move, StopsAtFree
    <2>2. Remaining' = Remaining \ {next} /\ next \in Remaining
      BY <1>1, <1>2, <1>4 DEF Remaining, Used
    <2>3. /\ UsedSlots' = UsedSlots \cup {slot} /\ slot \notin UsedSlots
          /\ slots'[slot] = old[next]
          /\ \A s \in UsedSlots : slots'[s] = slots[s]
      BY <1>4, <2>1 DEF UsedSlots, Used
    <2>4. ASSUME NEW p
          PROVE  p \in Pairs' <=> p \in Pairs
      BY <1>1, <2>2, <2>3, InPairs, InPairsNext DEF PairAt
    <2>5. Pairs \subseteq Pairs' /\ Pairs' \subseteq Pairs
      BY <2>4
    <2> QED
      BY <2>5
  <1> QED
    BY <1>3, <1>4

LEMMA MovedPairs ==
  ASSUME IInv, Moved
  PROVE  Pairs' = Pairs
  <1>1. DOMAIN old' = {} /\ Remaining' = {}
    BY DEF Moved, NoTable, Remaining
  <1>2. Remaining = {}
    <2>1. PICK m \in Nat : DOMAIN old = 0 .. m - 1
      BY DEF IInv, Sound, Shape
    <2> QED
      BY <2>1 DEF Moved, AllMoved, Remaining, IInv, TypeOK
  <1>3. UsedSlots' = UsedSlots /\ slots' = slots
    BY DEF Moved, UsedSlots, Used
  <1> QED
    BY <1>1, <1>2, <1>3, InPairs, InPairsNext

LEMMA GrowPairs ==
  ASSUME IInv, DOMAIN old = {}, NEW k \in Keys, NEW v, Grow(k, v)
  PROVE  Pairs' = Pairs
  <1>1. UsedSlots' = {}
    BY TablesAssumption DEF Grow, FreshTable, NoEntry, UsedSlots, Used
  <1>2. Remaining' = UsedSlots /\ old' = slots
    BY DEF Grow, Remaining, UsedSlots, Used, IInv, TypeOK
  <1>3. Remaining = {}
    BY DEF Remaining
  <1> QED
    BY <1>1, <1>2, <1>3, InPairs, InPairsNext

LEMMA InsertPairs ==
  ASSUME IInv, doing = "idle", NEW k \in Keys, NEW v, Insert(k, v)
  PROVE  Pairs' = Pairs \/ Pairs' = {}
  <1>1. DOMAIN old = {}
    BY DEF IInv, Sound, Shape
  <1>2. CASE Grow(k, v)
    BY <1>1, <1>2, GrowPairs
  <1>3. CASE GrowFails
    <2>1. UsedSlots' = {} /\ Remaining' = {}
      BY <1>1, <1>3 DEF GrowFails, NoTable, UsedSlots, Remaining
    <2> QED
      BY <2>1, NoPairs
  <1>4. CASE UNCHANGED <<slots, old, next>>
    BY <1>4, SamePairs
  <1> QED
    BY <1>2, <1>3, <1>4 DEF Insert

(* What an insertion leaves is the dictionary with one pair put, or as it was. *)
LEMMA PlacePairs ==
  ASSUME IInv, Place
  PROVE  Pairs' = Pairs \/ \E k \in Keys : \E x \in AllValues : Dict!Put(k, x)
  <1> USE TablesAssumption
  <1>1. capacity >= 2 /\ DOMAIN slots = 0 .. capacity - 1 /\ arg.key \in Keys
        /\ Remaining = {} /\ Remaining' = {}
    BY DEF Place, IInv, Sound, Shape, Remaining
  <1> PICK slot \in DOMAIN slots :
        Stops(arg.key, slot)
        /\ IF Used(slots, slot) THEN PlaceInUsed(slot) ELSE PlaceInFree(slot)
    BY DEF Place
  <1>2. \A s \in DOMAIN slots : slots[s] \in Entries
    BY DEF IInv, TypeOK
  <1>3. ASSUME Used(slots, slot), NEW x \in AllValues, slots' = [slots EXCEPT ![slot].value = x]
        PROVE  Dict!Put(arg.key, x)
    <2>1. slots[slot].key = arg.key
      BY <1>3 DEF Stops, Used
    <2>2. /\ DOMAIN slots' = DOMAIN slots
          /\ slots'[slot].key = arg.key /\ slots'[slot].value = x
          /\ \A s \in DOMAIN slots : s # slot => slots'[s] = slots[s]
      BY <1>2, <1>3, <2>1 DEF Entries
    <2>3. UsedSlots' = UsedSlots /\ slot \in UsedSlots
      BY <1>3, <2>1, <2>2 DEF UsedSlots, Used
    <2>4. \A s \in UsedSlots : slots[s].key = arg.key => s = slot
      BY <1>3, <2>1 DEF IInv, Sound, OneSlotPerKey, UsedSlots
    <2>5. ASSUME NEW p
          PROVE  p \in Pairs' <=>
                   p \in {pair \in Pairs : pair[1] # arg.key} \cup {<<arg.key, x>>}
      <3>1. p \in Pairs' <=> \E s \in UsedSlots : p = PairAt(slots', s)
        BY <1>1, <2>3, InPairsNext
      <3>2. p \in Pairs <=> \E s \in UsedSlots : p = PairAt(slots, s)
        BY <1>1, InPairs
      <3>3. PairAt(slots', slot) = <<arg.key, x>>
        BY <2>2 DEF PairAt
      <3>4. \A s \in UsedSlots : s # slot =>
              PairAt(slots', s) = PairAt(slots, s) /\ PairAt(slots, s)[1] # arg.key
        BY <2>2, <2>4 DEF PairAt, UsedSlots
      <3>5. PairAt(slots, slot)[1] = arg.key
        BY <2>1 DEF PairAt
      <3> QED
        BY <2>3, <3>1, <3>2, <3>3, <3>4, <3>5
    <2> QED
      BY <2>5 DEF Dict!Put
  <1>4. ASSUME ~Used(slots, slot), NEW x \in AllValues,
               slots' = [slots EXCEPT ![slot] = [key |-> arg.key, value |-> x]]
        PROVE  Dict!Put(arg.key, x)
    <2>1. /\ DOMAIN slots' = DOMAIN slots
          /\ slots'[slot] = [key |-> arg.key, value |-> x]
          /\ \A s \in DOMAIN slots : s # slot => slots'[s] = slots[s]
      BY <1>4
    <2>2. UsedSlots' = UsedSlots \cup {slot} /\ slot \notin UsedSlots
      BY <1>1, <1>4, <2>1 DEF UsedSlots, Used
    <2>3. \A s \in UsedSlots : slots[s].key # arg.key
      BY <1>1, <1>4, KeyIsNew DEF IInv, UsedSlots
    <2>4. ASSUME NEW p
          PROVE  p \in Pairs' <=>
                   p \in {pair \in Pairs : pair[1] # arg.key} \cup {<<arg.key, x>>}
      <3>1. p \in Pairs' <=> \E s \in UsedSlots' : p = PairAt(slots', s)
        BY <1>1, InPairsNext
      <3>2. p \in Pairs <=> \E s \in UsedSlots : p = PairAt(slots, s)
        BY <1>1, InPairs
      <3>3. PairAt(slots', slot) = <<arg.key, x>>
        BY <2>1 DEF PairAt
      <3>4. \A s \in UsedSlots :
              PairAt(slots', s) = PairAt(slots, s) /\ PairAt(slots, s)[1] # arg.key
        BY <2>1, <2>2, <2>3 DEF PairAt, UsedSlots
      <3> QED
        BY <2>2, <3>1, <3>2, <3>3, <3>4
    <2> QED
      BY <2>4 DEF Dict!Put
  <1>5. ASSUME ~Used(slots, slot), NEW x,
               slots' = [slots EXCEPT ![slot] = [key |-> NoKey, value |-> x]]
        PROVE  Pairs' = Pairs
    <2>1. /\ DOMAIN slots' = DOMAIN slots /\ slots'[slot].key = NoKey
          /\ \A s \in DOMAIN slots : s # slot => slots'[s] = slots[s]
      BY <1>5
    <2>2. UsedSlots' = UsedSlots /\ slot \notin UsedSlots
      BY <1>5, <2>1 DEF UsedSlots, Used
    <2>3. \A s \in UsedSlots : PairAt(slots', s) = PairAt(slots, s)
      BY <2>1, <2>2 DEF PairAt, UsedSlots
    <2>4. ASSUME NEW p
          PROVE  p \in Pairs' <=> p \in Pairs
      BY <1>1, <2>2, <2>3, InPairs, InPairsNext
    <2>5. Pairs \subseteq Pairs' /\ Pairs' \subseteq Pairs
      BY <2>4
    <2> QED
      BY <2>5
  <1>6. CASE slots' = slots
    BY <1>6, SamePairs DEF Place
  <1> QED
    BY <1>1, <1>3, <1>4, <1>5, <1>6 DEF PlaceInUsed, PlaceInFree

LEMMA PairsStep == IInv /\ [Next]_vars => [Dict!Empty \/ \E k \in Keys : \E v \in AllValues : Dict!Put(k, v)]_Pairs
  <1> SUFFICES ASSUME IInv, [Next]_vars
               PROVE  \/ Pairs' = Pairs \/ Pairs' = {}
                      \/ \E k \in Keys : \E v \in AllValues : Dict!Put(k, v)
    BY DEF Dict!Empty
  <1>1. CASE UNCHANGED vars
    BY <1>1, SamePairs DEF vars
  <1>2. ASSUME Clear \/ Free, Idle
        PROVE  Pairs' = {}
    <2>1. UsedSlots' = {} /\ Remaining' = {}
      BY <1>2 DEF Clear, Free, NoTable, NoEntry, Idle, IInv, Sound, Shape, UsedSlots, Remaining, Used
    <2> QED
      BY <2>1, NoPairs
  <1>3. CASE Work
    <2>1. CASE Move
      BY <2>1, MovePairs
    <2>2. CASE Moved
      BY <2>2, MovedPairs
    <2>3. CASE Place
      BY <2>3, PlacePairs
    <2>4. CASE BuildNext
      <3>1. CASE Usable(Head(list))
        <4>1. Head(list) \in Packages
          BY <2>4 DEF BuildNext, IInv, TypeOK
        <4>2. Head(list).id \in Keys
          BY <3>1, <4>1 DEF Usable, Packages
        <4> QED
          BY <2>4, <3>1, <4>2, InsertPairs DEF BuildNext
      <3>2. CASE ~Usable(Head(list))
        BY <2>4, <3>2, SamePairs DEF BuildNext
      <3> QED
        BY <3>1, <3>2
    <2> QED
      BY <1>3, <2>1, <2>2, <2>3, <2>4 DEF Work
  <1>4. ASSUME NEW k \in Keys, id_set_insert(k)
        PROVE  Pairs' = Pairs \/ Pairs' = {}
    BY <1>4, InsertPairs DEF id_set_insert, Idle
  <1>5. ASSUME NEW k \in Keys, NEW v \in AllValues, id_map_insert(k, v)
        PROVE  Pairs' = Pairs \/ Pairs' = {}
    BY <1>5, InsertPairs DEF id_map_insert, Idle
  <1>6. CASE id_set_clear \/ id_map_clear \/ id_set_free \/ id_map_free
    BY <1>2, <1>6 DEF id_set_clear, id_map_clear, id_set_free, id_map_free, Free
  <1>7. ASSUME NEW packages \in Lists,
               id_set_build_from_packages(packages) \/ id_map_build_from_packages(packages)
        PROVE  Pairs' = {}
    BY <1>2, <1>7 DEF id_set_build_from_packages, id_map_build_from_packages, Build
  <1> QED
    BY <1>1, <1>3, <1>4, <1>5, <1>6, <1>7 DEF Next

(* The tables implement a dictionary: growing moves every pair, and an
   insertion disturbs no other key. *)
THEOREM TablesAreDictionary == Spec => IsDictionary
  <1>1. Init => Pairs = {}
    BY DEF Init, NoTable, Pairs
  <1> QED
    BY <1>1, AlwaysIInv, PairsStep, PTL DEF Spec, IsDictionary, Dict!Spec
=============================================================================
