------------------------------ MODULE IdTables ------------------------------
(***************************************************************************)
(* The two open-addressing tables of ui/: the set of installed ids of      *)
(* id_set.c and the map from ids to versions of id_map.c. They share their *)
(* probing and growing line by line; an entry of the set has no value.     *)
(*                                                                         *)
(* A growing table moves its entries one by one, each a step here: other   *)
(* threads never see them, the steps are the iterations of the loop.       *)
(***************************************************************************)
EXTENDS Integers, Sequences

CONSTANTS
  Keys,             \* ids
  Values,           \* versions
  NoKey, NoValue,   \* NULL
  Hashes,           \* values of fnv1a
  InitialCapacity,  \* 16 in the code
  Lists,            \* the package lists a table is built from
  MaxFailures       \* bound: allocations that fail

AllValues == Values \cup {NoValue}
NoEntry == [key |-> NoKey, value |-> NoValue]
Entries == [key : Keys \cup {NoKey}, value : AllValues]

Packages == [id : Keys \cup {NoKey}, version : AllValues]

ASSUME TablesAssumption ==
  /\ NoKey \notin Keys
  /\ NoValue \notin Values
  /\ Hashes \subseteq Nat
  /\ InitialCapacity \in Nat /\ InitialCapacity >= 2
  /\ Lists \subseteq Seq(Packages)
  /\ MaxFailures \in Nat

VARIABLES
  kind,      \* "set" or "map": which of the two this table is
  hash,      \* fnv1a
  slots,     \* keys or entries: a function on 0 .. capacity - 1, or NoTable
  capacity, count,
  old,       \* the table rehash moves from, NoTable when it is not running
  next,      \* i of rehash
  doing,     \* "idle", "rehash", "place" or "crashed"
  arg,       \* the key and the value that are being inserted
  list,      \* what is left of the list a table is built from
  failures   \* history: the allocations that failed

vars == <<kind, hash, slots, capacity, count, old, next, doing, arg, list, failures>>

NoTable == [slot \in {} |-> NoEntry]
FreshTable(n) == [slot \in 0 .. n - 1 |-> NoEntry]

-----------------------------------------------------------------------------
(* Probing *)

Used(table, slot) == table[slot].key # NoKey

BeforeUnwrapped(home, slot) ==
  IF home <= slot THEN home .. slot - 1 ELSE 0 .. capacity - 1

(* The slots looked at from the home of a key up to slot, slot left out. *)
Before(home, slot) ==
  IF home <= slot THEN home .. slot - 1
  ELSE (home .. capacity - 1) \cup (0 .. slot - 1)

Home(k) == hash[k] % capacity

StopsWithoutCompare(k, slot) ==
  /\ slots[slot].key = NoKey
  /\ \A s \in Before(Home(k), slot) : slots[s].key # NoKey

(* The loop of id_set_insert, of id_set_contains and of their likes in the map
   stops at this slot. *)
Stops(k, slot) ==
  /\ slots[slot].key \in {NoKey, k}
  /\ \A s \in Before(Home(k), slot) : slots[s].key \notin {NoKey, k}

StopsWhereItWas(k, slot) == slot = next

(* The loop of rehash does not compare keys: they are all different. *)
StopsAtFree(k, slot) ==
  /\ ~Used(slots, slot)
  /\ \A s \in Before(Home(k), slot) : Used(slots, s)

-----------------------------------------------------------------------------
(* Insertion *)

Init ==
  /\ kind \in {"set", "map"}
  /\ hash \in [Keys -> Hashes]
  /\ slots = NoTable /\ capacity = 0 /\ count = 0
  /\ old = NoTable /\ next = 0
  /\ doing = "idle" /\ arg = NoEntry /\ list = <<>> /\ failures = 0

AllocationFails == failures < MaxFailures /\ failures' = failures + 1

(* The table grows when one more key would fill more than three quarters. *)
TooFullAtLast == count >= capacity
TooFull == capacity = 0 \/ (count + 1) * 4 > capacity * 3

NewCapacity == IF capacity = 0 THEN InitialCapacity ELSE capacity * 2

(* The beginning of rehash. *)
Grow(k, v) ==
  /\ capacity' = NewCapacity
  /\ slots' = FreshTable(NewCapacity)
  /\ count' = 0
  /\ old' = slots /\ next' = 0
  /\ doing' = "rehash" /\ arg' = [key |-> k, value |-> v]
  /\ UNCHANGED failures

(* Without memory for a larger table what was in the old one is lost, and the
   capacity is that of a table that does not exist. *)
GrowFailsKeepingSlots ==
  /\ AllocationFails
  /\ capacity' = NewCapacity
  /\ count' = 0
  /\ UNCHANGED <<slots, old, next, doing, arg>>

GrowFails ==
  /\ AllocationFails
  /\ capacity' = NewCapacity
  /\ slots' = NoTable
  /\ count' = 0
  /\ UNCHANGED <<old, next, doing, arg>>

(* A table that failed to grow has a capacity and no slots: the insertion after
   that reads through the null pointer. *)
Insert(k, v) ==
  \/ TooFull /\ Grow(k, v)
  \/ TooFull /\ GrowFails
  \/ /\ ~TooFull
     /\ doing' = IF DOMAIN slots = {} THEN "crashed" ELSE "place"
     /\ arg' = [key |-> k, value |-> v]
     /\ UNCHANGED <<slots, capacity, count, old, next, failures>>

(* One turn of the loop of rehash. *)
Move ==
  /\ doing = "rehash"
  /\ next \in DOMAIN old
  /\ next' = next + 1
  /\ IF Used(old, next)
     THEN /\ \E slot \in DOMAIN slots :
               /\ StopsAtFree(old[next].key, slot)
               /\ slots' = [slots EXCEPT ![slot] = old[next]]
          /\ count' = count + 1
     ELSE UNCHANGED <<slots, count>>
  /\ UNCHANGED <<kind, hash, capacity, old, doing, arg, list, failures>>

(* The old table is freed and the insertion goes on. *)
AllMovedButOne == next + 1 \notin DOMAIN old
AllMoved == next \notin DOMAIN old

Moved ==
  /\ doing = "rehash"
  /\ AllMoved
  /\ old' = NoTable /\ next' = 0
  /\ doing' = "place"
  /\ UNCHANGED <<kind, hash, slots, capacity, count, arg, list, failures>>

(* What strdup gives for a value. *)
Duplicate(v, w) ==
  \/ w = v /\ UNCHANGED failures
  \/ v # NoValue /\ w = NoValue /\ AllocationFails

(* A key that cannot be duplicated leaves its value, if it was, in a slot that
   still counts as free. *)
PlaceInFree(slot) ==
  \/ /\ \E w \in AllValues :
          /\ Duplicate(arg.value, w)
          /\ slots' = [slots EXCEPT ![slot] = [key |-> arg.key, value |-> w]]
     /\ count' = count + 1
  \/ /\ AllocationFails
     /\ slots' = [slots EXCEPT ![slot] =
                    [key |-> NoKey,
                     value |-> IF kind = "map" THEN arg.value ELSE slots[slot].value]]
     /\ UNCHANGED count

(* A key that is there: the set is left alone, the map takes the new value. *)
PlaceInUsed(slot) ==
  /\ \/ kind = "set" /\ UNCHANGED <<slots, failures>>
     \/ /\ kind = "map"
        /\ \E w \in AllValues :
             /\ Duplicate(arg.value, w)
             /\ slots' = [slots EXCEPT ![slot].value = w]
  /\ UNCHANGED count

Place ==
  /\ doing = "place"
  /\ \E slot \in DOMAIN slots :
       /\ Stops(arg.key, slot)
       /\ IF Used(slots, slot) THEN PlaceInUsed(slot) ELSE PlaceInFree(slot)
  /\ doing' = "idle" /\ arg' = NoEntry
  /\ UNCHANGED <<kind, hash, capacity, old, next, list>>

-----------------------------------------------------------------------------
(* The operations *)

Idle == doing = "idle" /\ list = <<>>

id_set_insert(k) ==
  /\ Idle /\ kind = "set"
  /\ Insert(k, NoValue)
  /\ UNCHANGED <<kind, hash, list>>

id_map_insert(k, v) ==
  /\ Idle /\ kind = "map"
  /\ Insert(k, v)
  /\ UNCHANGED <<kind, hash, list>>

(* The slots stay, their strings are freed. *)
Clear ==
  /\ slots' = [slot \in DOMAIN slots |-> NoEntry]
  /\ count' = 0
  /\ UNCHANGED <<kind, hash, capacity, old, next, doing, arg, failures>>

id_set_clear == Idle /\ kind = "set" /\ Clear /\ UNCHANGED list
id_map_clear == Idle /\ kind = "map" /\ Clear /\ UNCHANGED list

Free ==
  /\ Idle
  /\ slots' = NoTable /\ capacity' = 0 /\ count' = 0
  /\ UNCHANGED <<kind, hash, old, next, doing, arg, list, failures>>

id_set_free == kind = "set" /\ Free
id_map_free == kind = "map" /\ Free

(* A table is emptied and then filled from a list of packages. *)
Build(packages) == Idle /\ Clear /\ list' = packages

id_set_build_from_packages(packages) == kind = "set" /\ Build(packages)
id_map_build_from_packages(packages) == kind = "map" /\ Build(packages)

(* A package without an id is left out, and from the map one without a version. *)
Usable(package) ==
  package.id # NoKey /\ (kind = "map" => package.version # NoValue)

BuildNext ==
  /\ doing = "idle" /\ list # <<>>
  /\ IF Usable(Head(list))
     THEN Insert(Head(list).id, IF kind = "map" THEN Head(list).version ELSE NoValue)
     ELSE UNCHANGED <<slots, capacity, count, old, next, doing, arg, failures>>
  /\ list' = Tail(list)
  /\ UNCHANGED <<kind, hash>>

Work == Move \/ Moved \/ Place \/ BuildNext

Next ==
  \/ Work
  \/ \E k \in Keys : id_set_insert(k)
  \/ \E k \in Keys : \E v \in AllValues : id_map_insert(k, v)
  \/ id_set_clear \/ id_map_clear \/ id_set_free \/ id_map_free
  \/ \E packages \in Lists : \/ id_set_build_from_packages(packages)
                             \/ id_map_build_from_packages(packages)

(* An operation runs to its end: it only waits for memory. *)
Spec == Init /\ [][Next]_vars /\ WF_vars(Work)

-----------------------------------------------------------------------------
TypeOK ==
  /\ kind \in {"set", "map"}
  /\ hash \in [Keys -> Hashes]
  /\ capacity \in Nat /\ count \in Nat /\ next \in Nat
  /\ slots \in [DOMAIN slots -> Entries]
  /\ DOMAIN slots \in {{}, 0 .. capacity - 1}
  /\ old \in [DOMAIN old -> Entries]
  /\ doing \in {"idle", "rehash", "place", "crashed"}
  /\ arg \in Entries
  /\ list \in Seq(Packages)
  /\ failures \in 0 .. MaxFailures

(* A lookup finds every id the table holds, also after collisions, a wrap at
   the end of the table, growths, and a key that could not be duplicated. *)
LookupFinds ==
  doing = "idle" =>
    \A slot \in DOMAIN slots : Used(slots, slot) => Stops(slots[slot].key, slot)

(* A lookup of an id that is not there ends: some slot is free. *)
LookupEnds ==
  DOMAIN slots # {} => \E slot \in DOMAIN slots : ~Used(slots, slot)

(* No id is in two slots, whatever the list holds twice: an update of a version
   would change one of them. *)
OneSlotPerKey ==
  \A s, t \in DOMAIN slots :
    Used(slots, s) /\ slots[s].key = slots[t].key => s = t

(* Growing moves every entry: the pairs in the table change only by the one
   that is put, or all at once when the table is emptied or cannot grow. *)
Pairs ==
  {<<slots[slot].key, slots[slot].value>> :
     slot \in {s \in DOMAIN slots : Used(slots, s)}}
  \cup {<<old[slot].key, old[slot].value>> :
          slot \in {s \in DOMAIN old : s >= next /\ Used(old, s)}}

Dict == INSTANCE Dictionary WITH dict <- Pairs
IsDictionary == Dict!Spec

(* No probing goes round for ever: each insertion comes to an end. *)
OperationEnds == doing \in {"rehash", "place"} ~> doing \in {"idle", "crashed"}
=============================================================================
