------------------------- MODULE StoreUpdatesProofs -------------------------
(***************************************************************************)
(* Proofs about StoreUpdates, for any finite set of apps, any set of       *)
(* addresses, any bounds and any combination of faults.                    *)
(***************************************************************************)
EXTENDS StoreUpdates, FiniteSetTheorems, TLAPS

-----------------------------------------------------------------------------
(* The event queue *)

\* An event is the result of a check or the end of an update.
LEMMA EventKinds ==
  ASSUME NEW e \in Event
  PROVE  \/ e.kind = "ready" /\ e.block \in Blocks \cup {None}
         \/ e.kind = "finished" /\ e.at \in Address
  BY DEF Event

\* Every result in the queue was there before.
SameResults ==
  \A i \in 1..Len(events') :
    events'[i].kind = "ready" => \E k \in 1..Len(events) : events'[i] = events[k]

\* Posting the end of an update leaves the results in the queue as they are.
LEMMA PostFinished ==
  ASSUME events \in Seq(Event), NEW a \in Address,
         events' = Append(events, Finished(a))
  PROVE  /\ events' \in Seq(Event)
         /\ \A b : Ready(b)' <=> Ready(b)
         /\ thread' = thread /\ OneCheck => OneCheck'
         /\ SameResults
<1>1. Finished(a) \in Event /\ Finished(a).kind = "finished"
  BY DEF Finished, Event
<1>2. /\ events' \in Seq(Event)
      /\ Len(events') = Len(events) + 1
      /\ \A k \in 1..Len(events) : events'[k] = events[k]
      /\ events'[Len(events) + 1].kind = "finished"
      /\ Len(events) \in Nat
  BY <1>1
<1>3. \A b : Ready(b)' <=> Ready(b)
  BY <1>2 DEF Ready
<1>4. ASSUME thread' = thread, OneCheck PROVE OneCheck'
  BY <1>2, <1>4 DEF OneCheck
<1>5. SameResults
  BY <1>2 DEF SameResults
<1> QED BY <1>2, <1>3, <1>4, <1>5

\* Taking the oldest event from the queue.
LEMMA TakeEvent ==
  ASSUME events \in Seq(Event), events # <<>>, events' = Tail(events)
  PROVE  /\ events' \in Seq(Event)
         /\ Head(events) \in Event
         /\ SameResults
         /\ thread' = thread /\ OneCheck => OneCheck'
         /\ Head(events).kind = "finished" => \A b : Ready(b)' <=> Ready(b)
         /\ Head(events).kind = "ready" /\ OneCheck =>
              /\ \A b : ~Ready(b)'
              /\ \A b : Ready(b) <=> b = Head(events).block
              /\ thread = "off"
<1>1. /\ events' \in Seq(Event)
      /\ Len(events) \in Nat \ {0}
      /\ Len(events') = Len(events) - 1
      /\ \A k \in 1..Len(events') : events'[k] = events[k + 1]
      /\ Head(events) = events[1]
      /\ events[1] \in Event
  OBVIOUS
<1>2. ASSUME thread' = thread, OneCheck PROVE OneCheck'
  <2>1. thread' # "off" => \A k \in 1..Len(events') : events'[k].kind = "finished"
    BY <1>1, <1>2 DEF OneCheck
  <2>2. ASSUME NEW k \in 1..Len(events'), NEW l \in 1..Len(events'),
               events'[k].kind = "ready", events'[l].kind = "ready"
        PROVE  k = l
    <3>1. k + 1 \in 1..Len(events) /\ l + 1 \in 1..Len(events)
      BY <1>1
    <3>2. k + 1 = l + 1
      BY <1>1, <1>2, <2>2, <3>1 DEF OneCheck
    <3> QED BY <3>2
  <2> QED BY <2>1, <2>2 DEF OneCheck
<1>3. ASSUME Head(events).kind = "finished", NEW b PROVE Ready(b)' <=> Ready(b)
  <2>1. ASSUME Ready(b) PROVE Ready(b)'
    <3>1. PICK k \in 1..Len(events) : events[k].kind = "ready" /\ events[k].block = b
      BY <2>1 DEF Ready
    <3>2. k # 1
      BY <1>1, <1>3, <3>1
    <3>3. k - 1 \in 1..Len(events') /\ events'[k - 1] = events[k]
      BY <1>1, <3>2
    <3> QED BY <3>1, <3>3 DEF Ready
  <2>2. ASSUME Ready(b)' PROVE Ready(b)
    <3>1. PICK k \in 1..Len(events') : events'[k].kind = "ready" /\ events'[k].block = b
      BY <2>2 DEF Ready
    <3>2. k + 1 \in 1..Len(events) /\ events[k + 1] = events'[k]
      BY <1>1
    <3> QED BY <3>1, <3>2 DEF Ready
  <2> QED BY <2>1, <2>2
<1>4. ASSUME Head(events).kind = "ready", OneCheck
      PROVE  /\ \A b : ~Ready(b)'
             /\ \A b : Ready(b) <=> b = Head(events).block
             /\ thread = "off"
  <2>1. \A k \in 1..Len(events) : events[k].kind = "ready" => k = 1
    BY <1>1, <1>4 DEF OneCheck
  <2>2. \A k \in 1..Len(events') : events'[k].kind # "ready"
    <3>1. TAKE k \in 1..Len(events')
    <3>2. k + 1 \in 1..Len(events) /\ events[k + 1] = events'[k] /\ k + 1 # 1
      BY <1>1
    <3> QED BY <2>1, <3>2
  <2>3. \A b : ~Ready(b)'
    BY <2>2 DEF Ready
  <2>4. \A b : Ready(b) <=> b = Head(events).block
    BY <1>1, <1>4, <2>1 DEF Ready
  <2>5. thread = "off"
    BY <1>1, <1>4 DEF OneCheck
  <2> QED BY <2>3, <2>4, <2>5
<1>5. SameResults
  <2>1. \A i \in 1..Len(events') : i + 1 \in 1..Len(events) /\ events'[i] = events[i + 1]
    BY <1>1
  <2> QED BY <2>1 DEF SameResults
<1> QED BY <1>1, <1>2, <1>3, <1>4, <1>5

-----------------------------------------------------------------------------
(* The heap *)

\* The same apps in the same slots, whatever their flags.
SameBlock(b) ==
  /\ Len(memory'[b]) = Len(memory[b])
  /\ \A k \in 1..Len(memory[b]) : memory'[b][k].app = memory[b][k].app

SameApps == \A b \in Blocks : SameBlock(b)

\* A write to a slot changes flags only.
LEMMA MarkKeepsShape ==
  ASSUME memory \in [Blocks -> Seq(Item)], NEW a \in Address, NEW u \in BOOLEAN,
         memory' = Mark(a, u)
  PROVE  memory' \in [Blocks -> Seq(Item)] /\ SameApps
<1>1. CASE a.index \notin 1..Len(memory[a.block])
  BY <1>1 DEF Mark, SameApps, SameBlock
<1>2. CASE a.index \in 1..Len(memory[a.block])
  <2> DEFINE old == memory[a.block]
             item == [app |-> old[a.index].app, updating |-> u]
             new == [old EXCEPT ![a.index] = item]
  <2>1. a.block \in Blocks /\ old \in Seq(Item) /\ a.index \in 1..Len(old)
    BY <1>2 DEF Address
  <2>2. item \in Item
    <3>1. old[a.index] \in Item
      BY <2>1
    <3> HIDE DEF old
    <3> QED BY <3>1 DEF Item
  <2>3. item.app = old[a.index].app
    OBVIOUS
  <2>4. memory' = [memory EXCEPT ![a.block] = new]
    BY <1>2 DEF Mark
  <2> HIDE DEF item
  <2>5. new \in Seq(Item) /\ Len(new) = Len(old)
    BY <2>1, <2>2
  <2>6. \A k \in 1..Len(old) : new[k] = IF k = a.index THEN item ELSE old[k]
    BY <2>1
  <2>7. \A k \in 1..Len(old) : new[k].app = old[k].app
    BY <2>3, <2>6
  <2> HIDE DEF new
  <2>8. memory' \in [Blocks -> Seq(Item)]
    BY <2>1, <2>4, <2>5
  <2>9. \A b \in Blocks : memory'[b] = IF b = a.block THEN new ELSE memory[b]
    BY <2>1, <2>4
  <2> QED BY <2>5, <2>7, <2>8, <2>9 DEF SameApps, SameBlock
<1> QED BY <1>1, <1>2

\* Moving items up keeps the other blocks and the length of the array, and what
\* is left of the list was on it.
LEMMA ShiftKeepsShape ==
  ASSUME memory \in [Blocks -> Seq(Item)], list \in Blocks,
         count \in 1..Len(memory[list]), NEW k \in 1..count, memory' = Shifted(k)
  PROVE  /\ memory' \in [Blocks -> Seq(Item)]
         /\ \A b \in Blocks \ {list} : memory'[b] = memory[b]
         /\ Len(memory'[list]) = Len(memory[list])
         /\ \A j \in 1..count-1 : \E i \in 1..count : memory'[list][j] = memory[list][i]
<1> DEFINE old == memory[list]
           new == [j \in DOMAIN old |-> IF j \in k..count-1 THEN old[j+1] ELSE old[j]]
<1>1. old \in Seq(Item) /\ DOMAIN old = 1..Len(old) /\ Len(old) \in Nat
  OBVIOUS
<1>2. \A j \in 1..Len(old) : (IF j \in k..count-1 THEN old[j+1] ELSE old[j]) \in Item
  BY <1>1
<1>3. new \in Seq(Item) /\ Len(new) = Len(old)
  BY <1>1, <1>2
<1>4. memory' = [memory EXCEPT ![list] = new]
  BY DEF Shifted
<1>5. \A j \in 1..count-1 : \E i \in 1..count : new[j] = old[i]
  <2>1. TAKE j \in 1..count-1
  <2>2. CASE j \in k..count-1
    <3>1. new[j] = old[j+1] /\ j+1 \in 1..count
      BY <1>1, <2>2
    <3> QED BY <3>1
  <2>3. CASE j \notin k..count-1
    <3>1. new[j] = old[j] /\ j \in 1..count
      BY <1>1, <2>3
    <3> QED BY <3>1
  <2> QED BY <2>2, <2>3
<1> HIDE DEF new
<1> QED BY <1>3, <1>4, <1>5

\* Blocks of the same lengths are free in the same places.
LEMMA SameLengthsSameBlocks ==
  ASSUME memory \in [Blocks -> Seq(Item)], memory' \in [Blocks -> Seq(Item)],
         \A b \in Blocks : Len(memory'[b]) = Len(memory[b])
  PROVE  \A b \in Blocks : memory'[b] # <<>> <=> memory[b] # <<>>
<1>1. \A s \in Seq(Item) : s # <<>> <=> Len(s) # 0
  OBVIOUS
<1> QED BY <1>1

\* A block with the same apps is filled as far as it was.
LEMMA FilledKept ==
  ASSUME memory \in [Blocks -> Seq(Item)], NEW b \in Blocks, NEW n \in Nat,
         SameBlock(b), Filled(b, n)
  PROVE  n <= Len(memory'[b]) /\ \A k \in 1..n : memory'[b][k].app # None
<1>1. Len(memory[b]) \in Nat
  OBVIOUS
<1> QED BY <1>1 DEF SameBlock, Filled

\* Results stay filled if no block of theirs changes but in its flags.
LEMMA ResultsKept ==
  ASSUME TypeOK, ResultInBlock, SameResults,
         \A b \in Blocks : Ready(b) => SameBlock(b)
  PROVE  ResultInBlock'
<1> SUFFICES ASSUME NEW i \in 1..Len(events'), events'[i].kind = "ready"
             PROVE  IF events'[i].block = None THEN events'[i].count = 0
                    ELSE /\ events'[i].count <= Len(memory'[events'[i].block])
                         /\ \A k \in 1..events'[i].count :
                              memory'[events'[i].block][k].app # None
  BY DEF ResultInBlock, Filled
<1>1. PICK k \in 1..Len(events) : events'[i] = events[k]
  BY DEF SameResults
<1> DEFINE b == events[k].block
           n == events[k].count
<1>2. events[k] \in Event /\ memory \in [Blocks -> Seq(Item)]
  BY DEF TypeOK
<1>3. b \in Blocks \cup {None} /\ n \in Nat
  BY <1>1, <1>2 DEF Event
<1>4. CASE b = None
  BY <1>1, <1>4 DEF ResultInBlock
<1>5. CASE b # None
  <2>1. Ready(b) /\ Filled(b, n) /\ b \in Blocks
    BY <1>1, <1>3, <1>5 DEF Ready, ResultInBlock
  <2>2. SameBlock(b)
    BY <2>1
  <2>3. n <= Len(memory'[b]) /\ \A j \in 1..n : memory'[b][j].app # None
    BY <1>2, <1>3, <2>1, <2>2, FilledKept
  <2> QED BY <1>1, <1>5, <2>3
<1> QED BY <1>4, <1>5

-----------------------------------------------------------------------------
(* Types *)

LEMMA FinishedType == ASSUME NEW a \in Address PROVE Finished(a) \in Event
  BY DEF Finished, Event

\* A shown item is an item and its slot an address.
LEMMA ShownType ==
  ASSUME TypeOK, ListInBlock, NEW k \in 1..count
  PROVE  Shown(k) \in Item /\ Shown(k).app \in Apps /\ Slot(k) \in Address
         /\ list \in Blocks
<1>1. list \in Blocks /\ count <= Len(memory[list]) /\ count \in Nat
      /\ memory[list][k].app # None
  BY DEF TypeOK, ListInBlock, Filled
<1>2. memory[list] \in Seq(Item) /\ k \in 1..Len(memory[list])
  BY <1>1 DEF TypeOK
<1>3. Shown(k) \in Item
  BY <1>2 DEF Shown
<1>4. Shown(k).app \in Apps
  BY <1>1, <1>3 DEF Item, Shown
<1>5. Slot(k) \in Address
  BY <1>1 DEF Slot, Address
<1> QED BY <1>1, <1>3, <1>4, <1>5

\* Starting an update leaves the shape of the heap and the results in the queue.
LEMMA StartUpdateEffect ==
  ASSUME TypeOK, ListInBlock, NEW k \in 1..count, StartUpdate(k)
  PROVE  /\ memory' \in [Blocks -> Seq(Item)]
         /\ SameApps /\ SameResults
         /\ calls' \in Seq(Call)
         /\ events' \in Seq(Event)
         /\ \A b : Ready(b)' <=> Ready(b)
         /\ thread' = thread /\ OneCheck => OneCheck'
<1>1. Shown(k).app \in Apps /\ Slot(k) \in Address
  BY ShownType
<1>2. memory \in [Blocks -> Seq(Item)] /\ calls \in Seq(Call) /\ events \in Seq(Event)
  BY DEF TypeOK
<1>3. CASE UNCHANGED <<memory, calls, events>>
  BY <1>2, <1>3 DEF Ready, OneCheck, SameApps, SameBlock, SameResults
<1>4. CASE /\ memory' = Mark(Slot(k), TRUE)
           /\ calls' = Append(calls, [app |-> Shown(k).app, at |-> Slot(k),
                                      outcome |-> None, reports |-> 0, over |-> FALSE])
           /\ UNCHANGED events
  <2>1. [app |-> Shown(k).app, at |-> Slot(k),
         outcome |-> None, reports |-> 0, over |-> FALSE] \in Call
    BY <1>1 DEF Call
  <2>2. calls' \in Seq(Call)
    BY <1>2, <1>4, <2>1
  <2>3. /\ \A b : Ready(b)' <=> Ready(b)
        /\ thread' = thread /\ OneCheck => OneCheck'
        /\ SameResults
    BY <1>4 DEF Ready, OneCheck, SameResults
  <2> QED BY <1>1, <1>2, <1>4, <2>2, <2>3, MarkKeepsShape
<1>5. CASE events' = Append(events, Finished(Slot(k))) /\ UNCHANGED <<memory, calls>>
  <2>1. SameApps
    BY <1>5 DEF SameApps, SameBlock
  <2> QED BY <1>1, <1>2, <1>5, <2>1, PostFinished
<1> QED BY <1>3, <1>4, <1>5 DEF StartUpdate

\* So does what a callback does when it is told state s.
LEMMA OnUpdateProgressEffect ==
  ASSUME TypeOK, NEW a \in Address, NEW s, OnUpdateProgress(a, s)
  PROVE  /\ memory' \in [Blocks -> Seq(Item)]
         /\ SameApps /\ SameResults
         /\ events' \in Seq(Event)
         /\ \A b : Ready(b)' <=> Ready(b)
         /\ thread' = thread /\ OneCheck => OneCheck'
<1>1. memory \in [Blocks -> Seq(Item)] /\ events \in Seq(Event)
  BY DEF TypeOK
<1>2. memory' = Mark(a, FALSE) \/ memory' = memory
  BY DEF OnUpdateProgress
<1>3. memory' \in [Blocks -> Seq(Item)] /\ SameApps
  BY <1>1, <1>2, MarkKeepsShape DEF SameApps, SameBlock
<1>4. CASE events' = Append(events, Finished(a))
  BY <1>1, <1>3, <1>4, PostFinished
<1>5. CASE events' = events
  BY <1>1, <1>3, <1>5 DEF Ready, OneCheck, SameResults
<1> QED BY <1>4, <1>5 DEF OnUpdateProgress

\* The types of what a callback changes.
LEMMA CallbackTypes ==
  ASSUME TypeOK, Callback
  PROVE  /\ calls' \in Seq(Call)
         /\ \E a \in Address : \E s : OnUpdateProgress(a, s)
         /\ outdated' \subseteq Apps
<1>1. PICK c \in 1..Len(calls), s \in Outcomes \cup {"Unknown"} :
        /\ Report(c, s) \/ Removed(c, s)
        /\ outdated' = IF s = "Succeed" THEN outdated \ {calls[c].app} ELSE outdated
  BY DEF Callback
<1>2. calls \in Seq(Call) /\ calls[c] \in Call /\ outdated \subseteq Apps
  BY DEF TypeOK
<1> DEFINE old == calls[c]
<1>3. old.at \in Address /\ old.app \in Apps /\ old.outcome \in Terminal \cup {None}
      /\ old.reports \in Nat /\ old.over \in BOOLEAN
  BY <1>2 DEF Call
<1>4. OnUpdateProgress(old.at, s)
  BY <1>1 DEF Report, Removed
<1>5. calls' \in Seq(Call)
  <2>1. CASE Report(c, s)
    <3>1. s \in Terminal
      BY <2>1, ConstantsAssumption DEF Report, MayHear
    <3>2. calls' = [calls EXCEPT ![c] = Heard(c, s, old.reports + 1, old.over)]
      BY <2>1 DEF Report
    <3>3. Heard(c, s, old.reports + 1, old.over) \in Call
      BY <1>3, <3>1 DEF Heard, Call
    <3> QED BY <1>2, <3>2, <3>3
  <2>2. CASE Removed(c, s)
    <3> DEFINE new == Heard(c, IF s \in Terminal THEN s ELSE None, old.reports, TRUE)
    <3>1. calls' = [calls EXCEPT ![c] = new]
      BY <2>2 DEF Removed
    <3>2. new \in Call
      BY <1>3 DEF Heard, Call
    <3> HIDE DEF new
    <3> QED BY <1>2, <3>1, <3>2
  <2> QED BY <1>1, <2>1, <2>2
<1> QED BY <1>1, <1>2, <1>3, <1>4, <1>5

-----------------------------------------------------------------------------
(* The invariant *)

IInv == TypeOK /\ Heap

LEMMA InitIInv == Init => IInv
<1> SUFFICES ASSUME Init PROVE IInv
  OBVIOUS
<1>1. /\ memory = [b \in Blocks |-> <<>>] /\ events = <<>> /\ calls = <<>>
      /\ list = None /\ count = 0 /\ checking \in BOOLEAN
      /\ thread \in {"off", "asking"} /\ (checking <=> thread = "asking")
      /\ phase = "events" /\ sweep = 0 /\ checks = 0 /\ found = {}
      /\ installed \subseteq Apps /\ outdated \subseteq Apps
  BY DEF Init
<1>2. TypeOK
  BY <1>1, ConstantsAssumption DEF TypeOK
<1>3. \A b : ~Ready(b)
  BY <1>1 DEF Ready
<1>4. OneOwner
  BY <1>1, <1>3, ConstantsAssumption DEF OneOwner
<1>5. OneCheck /\ ListInBlock /\ ResultInBlock
  BY <1>1 DEF OneCheck, ListInBlock, ResultInBlock
<1>6. CheckIsPending
  BY <1>1, <1>3 DEF CheckIsPending
<1> QED BY <1>1, <1>2, <1>4, <1>5, <1>6 DEF IInv, Heap

\* A step that keeps the apps on the heap, the list, the results in the queue
\* and the state of the check keeps Heap.
LEMMA SameHeap ==
  ASSUME IInv, TypeOK',
         SameApps, SameResults,
         list' = list, count' = count,
         \A b : Ready(b)' <=> Ready(b),
         OneCheck',
         checking' = checking, thread' = thread,
         phase' = "sweep" => sweep' > 0
  PROVE  Heap'
<1>1. \A b \in Blocks : memory'[b] # <<>> <=> memory[b] # <<>>
  BY SameLengthsSameBlocks DEF IInv, TypeOK, SameApps, SameBlock
<1>2. OneOwner'
  BY <1>1 DEF IInv, Heap, OneOwner
<1>3. CheckIsPending'
  BY DEF IInv, Heap, CheckIsPending
<1>4. ListInBlock'
  <2>1. CASE list = None
    BY <2>1 DEF IInv, Heap, ListInBlock
  <2>2. CASE list # None
    <3>1. list \in Blocks /\ count \in Nat /\ memory \in [Blocks -> Seq(Item)]
          /\ Filled(list, count) /\ SameBlock(list)
      BY <2>2 DEF IInv, TypeOK, Heap, ListInBlock, SameApps
    <3>2. count <= Len(memory'[list]) /\ \A k \in 1..count : memory'[list][k].app # None
      BY <3>1, FilledKept
    <3> QED BY <2>2, <3>2 DEF ListInBlock, Filled
  <2> QED BY <2>1, <2>2
<1>5. ResultInBlock'
  BY ResultsKept DEF IInv, Heap, SameApps
<1> QED BY <1>2, <1>3, <1>4, <1>5 DEF Heap

\* Starting and asking change nothing on the heap.
LEMMA TriggerCheckStep == ASSUME IInv, TriggerCheck PROVE IInv'
<1>0. /\ checks' \in 0..MaxChecks /\ checking' \in BOOLEAN
      /\ thread' \in {"off", "asking", "posting"} /\ phase' = "events"
  <2>1. checks \in 0..MaxChecks /\ checking \in BOOLEAN
        /\ thread \in {"off", "asking", "posting"}
    BY DEF IInv, TypeOK
  <2>2. checks' \in 0..MaxChecks
    BY <2>1, ConstantsAssumption DEF TriggerCheck
  <2> QED BY <2>1, <2>2, Zenon DEF TriggerCheck
<1>1. TypeOK'
  BY <1>0, Zenon DEF IInv, TypeOK, TriggerCheck, page, repository
<1>2. \A b \in Blocks \cup {None} : ~Ready(b)
  BY DEF IInv, Heap, CheckIsPending, TriggerCheck
<1>3. \A k \in 1..Len(events) : events[k].kind = "finished"
  <2>1. TAKE k \in 1..Len(events)
  <2>2. events[k] \in Event
    BY DEF IInv, TypeOK
  <2> QED BY <1>2, <2>2, EventKinds DEF Ready
<1>4. OneCheck'
  BY <1>3 DEF OneCheck, TriggerCheck
<1>5. OneOwner' /\ ListInBlock' /\ ResultInBlock'
  BY DEF IInv, Heap, OneOwner, ListInBlock, ResultInBlock, Filled, Ready, TriggerCheck, page
<1>6. CheckIsPending'
  BY <1>2 DEF IInv, Heap, CheckIsPending, Ready, TriggerCheck
<1> QED BY <1>1, <1>4, <1>5, <1>6 DEF IInv, Heap, TriggerCheck

LEMMA CheckAskStep == ASSUME IInv, CheckAsk PROVE IInv'
<1>1. TypeOK'
  BY DEF IInv, TypeOK, CheckAsk, page, repository
<1> QED BY <1>1 DEF IInv, Heap, OneOwner, ListInBlock, ResultInBlock, Filled, CheckIsPending,
                    OneCheck, Ready, CheckAsk, page

\* The slots the thread fills, in the order of an answer about apps.
LEMMA SlotsShape ==
  ASSUME NEW complete \in SUBSET Apps, NEW apps \in SetToSeqs(complete),
         NEW n \in Nat, Cardinality(complete) <= n
  PROVE  /\ Slots(apps, n) \in Seq(Item) /\ Len(Slots(apps, n)) = n
         /\ Len(apps) \in Nat /\ Len(apps) <= n
         /\ \A k \in 1..Len(apps) : Slots(apps, n)[k].app # None
<1>1. Cardinality(complete) \in Nat
  BY ConstantsAssumption, FS_Subset, FS_CardinalityType
<1>2. apps \in [1..Cardinality(complete) -> complete]
  BY DEF SetToSeqs
<1>3. Len(apps) = Cardinality(complete)
  BY <1>1, <1>2
<1>4. \A k \in 1..Len(apps) : apps[k] \in Apps
  BY <1>2, <1>3
<1>5. \A k \in 1..n : (IF k <= Len(apps) THEN [app |-> apps[k], updating |-> FALSE]
                       ELSE Zeroed) \in Item
  BY <1>1, <1>3, <1>4 DEF Item, Zeroed
<1>6. Slots(apps, n) \in Seq(Item) /\ Len(Slots(apps, n)) = n
  BY <1>5 DEF Slots
<1>7. \A k \in 1..Len(apps) : Slots(apps, n)[k].app = apps[k]
  BY <1>1, <1>3 DEF Slots
<1> QED BY <1>1, <1>3, <1>4, <1>6, <1>7, ConstantsAssumption

\* The result goes into a free block; the thread is off from here on.
LEMMA CheckPostStep == ASSUME IInv, CheckPost PROVE IInv'
<1>1. /\ memory \in [Blocks -> Seq(Item)] /\ events \in Seq(Event)
      /\ thread = "posting" /\ found \subseteq Apps
      /\ \A k \in 1..Len(events) : events[k].kind = "finished"
      /\ checking
  BY DEF IInv, TypeOK, Heap, OneCheck, CheckIsPending, CheckPost
<1>2. \A b : ~Ready(b)
  BY <1>1 DEF Ready
<1>3. ASSUME NEW c \in Blocks \cup {None}, NEW n \in Nat,
             events' = Append(events, Posted(c, n))
      PROVE  /\ events' \in Seq(Event)
             /\ \A b : Ready(b)' <=> b = c
             /\ OneCheck'
             /\ \A k \in 1..Len(events') :
                  events'[k].kind = "ready" => events'[k] = Posted(c, n)
  <2>1. Posted(c, n) \in Event /\ Posted(c, n).kind = "ready" /\ Posted(c, n).block = c
    BY DEF Event, Posted
  <2>2. /\ events' \in Seq(Event)
        /\ Len(events) \in Nat /\ Len(events') = Len(events) + 1
        /\ events'[Len(events')] = Posted(c, n)
        /\ \A k \in 1..Len(events) : events'[k] = events[k]
    BY <1>1, <1>3, <2>1
  <2>3. \A k \in 1..Len(events') : events'[k].kind = "ready" <=> k = Len(events')
    BY <1>1, <2>1, <2>2
  <2>4. \A b : Ready(b)' <=> b = c
    BY <2>1, <2>2, <2>3 DEF Ready
  <2>5. OneCheck'
    BY <2>3 DEF OneCheck, CheckPost
  <2> QED BY <2>2, <2>3, <2>4, <2>5
<1>4. CASE /\ found = {}
           /\ events' = Append(events, Posted(None, 0))
           /\ UNCHANGED memory
  <2>1. /\ events' \in Seq(Event) /\ (\A b : Ready(b)' <=> b = None) /\ OneCheck'
        /\ \A k \in 1..Len(events') : events'[k].kind = "ready" => events'[k] = Posted(None, 0)
    BY <1>3, <1>4
  <2>2. TypeOK'
    BY <1>4, <2>1 DEF IInv, TypeOK, CheckPost, repository
  <2>3. OneOwner'
    BY <1>2, <1>4, <2>1, ConstantsAssumption DEF IInv, Heap, OneOwner, CheckPost
  <2>4. CheckIsPending'
    BY <1>1, <2>1 DEF CheckIsPending, CheckPost
  <2>5. ListInBlock' /\ (phase' = "sweep" => sweep' > 0)
    BY <1>4 DEF IInv, Heap, ListInBlock, Filled, CheckPost
  <2>6. ResultInBlock'
    BY <2>1 DEF ResultInBlock, Posted
  <2> QED BY <2>1, <2>2, <2>3, <2>4, <2>5, <2>6 DEF IInv, Heap
<1>5. ASSUME NEW c \in Blocks, NEW complete \in Complete, NEW apps \in SetToSeqs(complete),
             found # {}, memory[c] = <<>>,
             memory' = [memory EXCEPT ![c] = Slots(apps, Cardinality(found))],
             events' = Append(events, Posted(c, Len(apps)))
      PROVE  IInv'
  <2> DEFINE items == Slots(apps, Cardinality(found))
             n == Len(apps)
  <2>1. complete \subseteq found
    BY DEF Complete
  <2>2. IsFiniteSet(found)
    BY <1>1, ConstantsAssumption, FS_Subset
  <2>3. Cardinality(found) \in Nat /\ Cardinality(found) # 0
        /\ Cardinality(complete) <= Cardinality(found)
    BY <1>5, <2>1, <2>2, FS_CardinalityType, FS_EmptySet, FS_Subset
  <2>4. /\ items \in Seq(Item) /\ Len(items) # 0 /\ n \in Nat /\ n <= Len(items)
        /\ \A k \in 1..n : items[k].app # None
    BY <1>1, <2>1, <2>3, SlotsShape
  <2>5. items # <<>>
    BY <2>4
  <2>6. memory' = [memory EXCEPT ![c] = items]
    BY <1>5
  <2>7. events' = Append(events, Posted(c, n))
    BY <1>5
  <2> HIDE DEF items, n
  <2>8. /\ memory' \in [Blocks -> Seq(Item)] /\ memory'[c] = items
        /\ \A b \in Blocks \ {c} : memory'[b] = memory[b]
    BY <1>1, <2>4, <2>6
  <2>9. /\ events' \in Seq(Event) /\ (\A b : Ready(b)' <=> b = c) /\ OneCheck'
        /\ \A k \in 1..Len(events') : events'[k].kind = "ready" => events'[k] = Posted(c, n)
    BY <1>3, <2>4, <2>7
  <2>10. TypeOK'
    BY <2>8, <2>9 DEF IInv, TypeOK, CheckPost, repository
  <2>11. list # c
    BY <1>2, <1>5 DEF IInv, Heap, OneOwner
  <2>12. OneOwner'
    BY <1>2, <2>5, <2>8, <2>9, <2>11 DEF IInv, Heap, OneOwner, CheckPost
  <2>13. CheckIsPending'
    BY <1>1, <2>9 DEF CheckIsPending, CheckPost
  <2>14. ListInBlock' /\ (phase' = "sweep" => sweep' > 0)
    BY <2>8, <2>11 DEF IInv, Heap, ListInBlock, Filled, TypeOK, CheckPost
  <2>15. ResultInBlock'
    BY <2>4, <2>8, <2>9, ConstantsAssumption DEF ResultInBlock, Filled, Posted
  <2> QED BY <2>9, <2>10, <2>12, <2>13, <2>14, <2>15 DEF IInv, Heap
<1> QED BY <1>4, <1>5 DEF CheckPost

LEMMA TriggerUpdateItemStep == ASSUME IInv, TriggerUpdateItem PROVE IInv'
<1>1. PICK k \in 1..count : StartUpdate(k)
  BY DEF TriggerUpdateItem
<1>2. /\ memory' \in [Blocks -> Seq(Item)]
      /\ SameApps /\ SameResults
      /\ calls' \in Seq(Call)
      /\ events' \in Seq(Event)
      /\ \A b : Ready(b)' <=> Ready(b)
      /\ thread' = thread /\ OneCheck => OneCheck'
  BY <1>1, StartUpdateEffect DEF IInv, Heap
<1>3. TypeOK'
  BY <1>2 DEF IInv, TypeOK, TriggerUpdateItem, check, repository
<1>4. Heap'
  BY <1>2, <1>3, SameHeap DEF IInv, Heap, TriggerUpdateItem, check
<1> QED BY <1>3, <1>4 DEF IInv

LEMMA TriggerUpdateAllStep == ASSUME IInv, TriggerUpdateAll PROVE IInv'
<1>1. TypeOK'
  BY DEF IInv, TypeOK, TriggerUpdateAll, page, check, repository
<1> QED BY <1>1 DEF IInv, Heap, OneOwner, ListInBlock, ResultInBlock, Filled, CheckIsPending,
                    OneCheck, Ready, TriggerUpdateAll, page, check

LEMMA SweepStep == ASSUME IInv, Sweep PROVE IInv'
<1>1. sweep \in Nat /\ sweep > 0 /\ count \in Nat /\ TypeOK /\ ListInBlock /\ OneCheck
  BY DEF Sweep, IInv, Heap, TypeOK
<1>2. /\ memory' \in [Blocks -> Seq(Item)]
      /\ SameApps /\ SameResults
      /\ calls' \in Seq(Call)
      /\ events' \in Seq(Event)
      /\ \A b : Ready(b)' <=> Ready(b)
      /\ OneCheck'
  <2>0. thread' = thread
    BY DEF Sweep, check
  <2>1. CASE UNCHANGED <<memory, calls, events>>
    BY <1>1, <2>0, <2>1 DEF TypeOK, Ready, OneCheck, SameApps, SameBlock, SameResults
  <2>2. CASE sweep <= count /\ StartUpdate(sweep)
    <3>1. sweep \in 1..count
      BY <1>1, <2>2
    <3> QED BY <1>1, <2>0, <2>2, <3>1, StartUpdateEffect
  <2> QED BY <2>1, <2>2 DEF Sweep
<1>3. sweep' \in Nat /\ (phase' = "sweep" => sweep' > 0)
      /\ phase' \in {"events", "process", "layout", "sweep"}
  BY <1>1 DEF Sweep
<1>4. TypeOK'
  BY <1>2, <1>3 DEF IInv, TypeOK, Sweep, check, repository
<1>5. Heap'
  BY <1>2, <1>3, <1>4, SameHeap DEF Sweep, check
<1> QED BY <1>4, <1>5 DEF IInv

LEMMA CallbackStep == ASSUME IInv, Callback PROVE IInv'
<1>1. calls' \in Seq(Call) /\ outdated' \subseteq Apps
  BY CallbackTypes DEF IInv
<1>2. PICK a \in Address : \E s : OnUpdateProgress(a, s)
  BY CallbackTypes DEF IInv
<1>3. /\ memory' \in [Blocks -> Seq(Item)]
      /\ SameApps /\ SameResults
      /\ events' \in Seq(Event)
      /\ \A b : Ready(b)' <=> Ready(b)
      /\ OneCheck'
  BY <1>2, OnUpdateProgressEffect DEF IInv, Heap, Callback, check
<1>4. TypeOK'
  BY <1>1, <1>3 DEF IInv, TypeOK, Callback, check
<1>5. Heap'
  BY <1>3, <1>4, SameHeap DEF IInv, Heap, Callback, check
<1> QED BY <1>4, <1>5 DEF IInv

\* The result in the queue becomes the list and the old list is freed.
LEMMA HandleReadyStep == ASSUME IInv, HandleReady PROVE IInv'
<1> DEFINE c == Head(events).block
<1>1. /\ memory \in [Blocks -> Seq(Item)] /\ events \in Seq(Event) /\ events # <<>>
      /\ events' = Tail(events) /\ Head(events).kind = "ready"
      /\ list' = c /\ thread' = thread /\ checking' = FALSE
      /\ list \in Blocks \cup {None}
  BY DEF IInv, TypeOK, HandleReady
<1>2. /\ events' \in Seq(Event) /\ OneCheck'
      /\ \A b : ~Ready(b)'
      /\ \A b : Ready(b) <=> b = c
      /\ thread = "off"
      /\ c \in Blocks \cup {None}
  BY <1>1, TakeEvent, EventKinds DEF IInv, Heap
<1>3. c \in Blocks => memory[c] # <<>> /\ c # list
  BY <1>2 DEF IInv, Heap, OneOwner
<1>4. ASSUME NEW b \in Blocks
      PROVE  /\ memory'[b] = IF b = list THEN <<>> ELSE memory[b]
             /\ memory' \in [Blocks -> Seq(Item)]
  BY <1>1, ConstantsAssumption DEF HandleReady, Free
<1>5. memory' \in [Blocks -> Seq(Item)]
  BY <1>1, ConstantsAssumption DEF HandleReady, Free
<1>6. /\ count' \in Nat
      /\ IF c = None THEN count' = 0 ELSE Filled(c, count')
  <2>1. Head(events) = events[1] /\ events[1] \in Event /\ 1 \in 1..Len(events)
    BY <1>1
  <2>2. count' = events[1].count
    BY <2>1 DEF HandleReady
  <2>3. count' \in Nat
    BY <1>1, <2>1, <2>2 DEF Event
  <2> QED BY <1>1, <2>1, <2>2, <2>3 DEF IInv, Heap, ResultInBlock
<1>7. TypeOK'
  BY <1>1, <1>2, <1>5, <1>6 DEF IInv, TypeOK, HandleReady, repository
<1>8. OneOwner'
  <2> SUFFICES ASSUME NEW b \in Blocks
               PROVE  memory'[b] # <<>> <=> b = c
    BY <1>1, <1>2 DEF OneOwner
  <2> QED BY <1>2, <1>3, <1>4 DEF IInv, Heap, OneOwner
<1>9. CheckIsPending'
  BY <1>1, <1>2 DEF CheckIsPending
<1>10. ListInBlock'
  <2>1. CASE c = None
    BY <1>1, <1>6, <2>1 DEF ListInBlock
  <2>2. CASE c # None
    <3>1. c \in Blocks /\ memory'[c] = memory[c]
      BY <1>2, <1>3, <1>4, <2>2
    <3> QED BY <1>1, <1>6, <2>2, <3>1 DEF ListInBlock, Filled
  <2> QED BY <2>1, <2>2
<1>11. ResultInBlock'
  BY <1>2 DEF ResultInBlock, Ready
<1>12. phase' = "sweep" => sweep' > 0
  BY DEF HandleReady
<1> QED BY <1>2, <1>7, <1>8, <1>9, <1>10, <1>11, <1>12 DEF IInv, Heap

\* An item leaves the list; with the last one the array is freed.
LEMMA HandleFinishedStep == ASSUME IInv, HandleFinished PROVE IInv'
<1> DEFINE a == Head(events).at
<1>1. /\ memory \in [Blocks -> Seq(Item)] /\ events \in Seq(Event) /\ events # <<>>
      /\ events' = Tail(events) /\ Head(events).kind = "finished"
      /\ UNCHANGED <<check, phase, sweep, calls, repository>>
      /\ list \in Blocks \cup {None} /\ count \in Nat
  BY DEF IInv, TypeOK, HandleFinished
<1>2. thread' = thread /\ checking' = checking
  BY <1>1 DEF check
<1>3. /\ events' \in Seq(Event) /\ OneCheck'
      /\ SameResults
      /\ \A b : Ready(b)' <=> Ready(b)
      /\ a \in Address
  BY <1>1, <1>2, TakeEvent, EventKinds DEF IInv, Heap
<1>4. CheckIsPending'
  BY <1>2, <1>3 DEF IInv, Heap, CheckIsPending
<1>5. phase' = "sweep" => sweep' > 0
  BY <1>1 DEF IInv, Heap
<1>6. CASE UNCHANGED page
  <2>1. TypeOK'
    BY <1>1, <1>3, <1>6 DEF IInv, TypeOK, page, check, repository
  <2>2. SameApps
    BY <1>6 DEF page, SameApps, SameBlock
  <2> QED BY <1>2, <1>3, <1>5, <1>6, <2>1, <2>2, SameHeap DEF IInv, page
<1>7. CASE /\ a.block = list /\ a.index <= count
           /\ count' = count - 1
           /\ list' = IF count = 1 THEN None ELSE list
           /\ memory' = IF count = 1 THEN Free(list) ELSE Shifted(a.index)
  <2>1. /\ list \in Blocks /\ count \in 1..Len(memory[list]) /\ a.index \in 1..count
        /\ Filled(list, count)
    <3>1. list \in Blocks /\ a.index \in Nat \ {0} /\ a.index <= count
      BY <1>3, <1>7 DEF Address
    <3>2. Filled(list, count)
      BY <3>1, ConstantsAssumption DEF IInv, Heap, ListInBlock
    <3>3. Len(memory[list]) \in Nat
      BY <1>1, <3>1
    <3> QED BY <1>1, <3>1, <3>2, <3>3 DEF Filled
  <2>4. \A b \in Blocks : Ready(b) => b # list
    BY DEF IInv, Heap, OneOwner
  <2>2. CASE count = 1
    <3>1. /\ memory' \in [Blocks -> Seq(Item)]
          /\ \A b \in Blocks : memory'[b] = IF b = list THEN <<>> ELSE memory[b]
      BY <1>1, <1>7, <2>1, <2>2 DEF Free
    <3>2. list' = None /\ count' = 0
      BY <1>7, <2>2
    <3>3. TypeOK'
      BY <1>1, <1>3, <3>1, <3>2 DEF IInv, TypeOK, check, repository
    <3>4. OneOwner'
      BY <1>3, <2>1, <3>1, <3>2, ConstantsAssumption DEF IInv, Heap, OneOwner
    <3>5. ListInBlock'
      BY <3>2 DEF ListInBlock
    <3>6. ResultInBlock'
      BY <1>3, <2>4, <3>1, ResultsKept DEF IInv, Heap, SameBlock
    <3> QED BY <1>3, <1>4, <1>5, <3>3, <3>4, <3>5, <3>6 DEF IInv, Heap
  <2>3. CASE count # 1
    <3>1. memory' = Shifted(a.index)
      BY <1>7, <2>3
    <3>2. /\ memory' \in [Blocks -> Seq(Item)]
          /\ \A b \in Blocks \ {list} : memory'[b] = memory[b]
          /\ Len(memory'[list]) = Len(memory[list])
          /\ \A j \in 1..count-1 : \E i \in 1..count : memory'[list][j] = memory[list][i]
      BY <1>1, <2>1, <3>1, ShiftKeepsShape
    <3>3. list' = list /\ count' = count - 1 /\ count' \in Nat \ {0}
      BY <1>7, <2>1, <2>3
    <3>4. TypeOK'
      BY <1>1, <1>3, <3>2, <3>3 DEF IInv, TypeOK, check, repository
    <3>5. \A b \in Blocks : memory'[b] # <<>> <=> memory[b] # <<>>
      BY <1>1, <2>1, <3>2, SameLengthsSameBlocks
    <3>6. OneOwner'
      BY <1>3, <3>3, <3>5 DEF IInv, Heap, OneOwner
    <3>7. ListInBlock'
      <4>1. \A j \in 1..count-1 : memory'[list][j].app # None
        BY <2>1, <3>2 DEF Filled
      <4>2. count - 1 <= Len(memory'[list])
        BY <2>1, <3>2
      <4> QED BY <2>1, <3>3, <4>1, <4>2, ConstantsAssumption DEF ListInBlock, Filled
    <3>8. ResultInBlock'
      BY <1>3, <2>4, <3>2, ResultsKept DEF IInv, Heap, SameBlock
    <3> QED BY <1>3, <1>4, <1>5, <3>4, <3>6, <3>7, <3>8 DEF IInv, Heap
  <2> QED BY <2>2, <2>3
<1> QED BY <1>6, <1>7 DEF HandleFinished

LEMMA AdvanceStep == ASSUME IInv, Advance PROVE IInv'
<1>1. TypeOK'
  BY DEF IInv, TypeOK, Advance, page, check, repository
<1> QED BY <1>1 DEF IInv, Heap, OneOwner, ListInBlock, ResultInBlock, Filled, CheckIsPending,
                    OneCheck, Ready, Advance, page, check

LEMMA IInvStep == IInv /\ [Next]_vars => IInv'
<1> SUFFICES ASSUME IInv, [Next]_vars PROVE IInv'
  OBVIOUS
<1>1. CASE TriggerCheck      BY <1>1, TriggerCheckStep
<1>2. CASE TriggerUpdateItem BY <1>2, TriggerUpdateItemStep
<1>3. CASE TriggerUpdateAll  BY <1>3, TriggerUpdateAllStep
<1>4. CASE Callback          BY <1>4, CallbackStep
<1>5. CASE CheckAsk          BY <1>5, CheckAskStep
<1>6. CASE CheckPost         BY <1>6, CheckPostStep
<1>7. CASE HandleReady       BY <1>7, HandleReadyStep
<1>8. CASE HandleFinished    BY <1>8, HandleFinishedStep
<1>9. CASE Sweep             BY <1>9, SweepStep
<1>10. CASE Advance          BY <1>10, AdvanceStep
<1>11. CASE UNCHANGED vars
  BY <1>11 DEF IInv, TypeOK, Heap, OneOwner, ListInBlock, ResultInBlock, Filled, CheckIsPending,
               OneCheck, Ready, vars, page, check, repository
<1> QED BY <1>1, <1>2, <1>3, <1>4, <1>5, <1>6, <1>7, <1>8, <1>9, <1>10, <1>11
        DEF Next, CheckThread, MainLoop

LEMMA Invariance == Spec => []IInv
  BY InitIInv, IInvStep, PTL DEF Spec

-----------------------------------------------------------------------------
(* The results *)

\* Every variable of the updates page keeps its range.
THEOREM TypeCorrect == Spec => []TypeOK
  BY Invariance, PTL DEF IInv

\* Whatever order checks, clicks and callbacks come in, each array of items is
\* the list or the result on its way, and nothing leaks.
THEOREM OneOwnerHolds == Spec => []OneOwner
  BY Invariance, PTL DEF IInv, Heap

\* checking_updates is set exactly while a check is under way.
THEOREM CheckIsPendingHolds == Spec => []CheckIsPending
  BY Invariance, PTL DEF IInv, Heap

\* The page reads update_count slots of an array that has them, and the check
\* filled each, whatever records it skipped and whatever items left since.
THEOREM ListInBlockHolds == Spec => []ListInBlock
  BY Invariance, PTL DEF IInv, Heap

-----------------------------------------------------------------------------
(* Which items the page loses *)

\* What the invariant says of a list that is there.
LEMMA ListFacts ==
  ASSUME IInv, list \in Blocks
  PROVE  /\ memory \in [Blocks -> Seq(Item)] /\ count \in Nat
         /\ Len(memory[list]) \in Nat /\ count <= Len(memory[list])
         /\ \A k \in 1..count : memory[list][k].app # None
<1>1. memory \in [Blocks -> Seq(Item)] /\ count \in Nat
  BY DEF IInv, TypeOK
<1>2. Filled(list, count)
  BY ConstantsAssumption DEF IInv, Heap, ListInBlock
<1>3. Len(memory[list]) \in Nat
  BY <1>1
<1> QED BY <1>1, <1>2, <1>3 DEF Filled

LEMMA SameShown ==
  ASSUME IInv, list \in Blocks, list' = list, count' = count, SameBlock(list)
  PROVE  ShownApps' = ShownApps
<1>1. 1..count \subseteq 1..Len(memory[list])
  BY ListFacts
<1> QED BY <1>1 DEF ShownApps, Shown, SameBlock

\* Starting updates and hearing of them keeps the apps in every block.
LEMMA StartKeepsShown ==
  ASSUME IInv, list \in Blocks, NEW k \in 1..count, StartUpdate(k),
         list' = list, count' = count
  PROVE  ShownApps' = ShownApps
  BY StartUpdateEffect, SameShown DEF IInv, Heap, SameApps

LEMMA CallbackKeepsShown ==
  ASSUME IInv, list \in Blocks, Callback
  PROVE  ShownApps' = ShownApps
<1>1. PICK a \in Address : \E s : OnUpdateProgress(a, s)
  BY CallbackTypes DEF IInv
<1>2. SameApps
  BY <1>1, OnUpdateProgressEffect DEF IInv
<1> QED BY <1>2, SameShown DEF Callback, SameApps

\* The array the check thread fills is not the list.
LEMMA CheckPostKeepsShown ==
  ASSUME IInv, list \in Blocks, CheckPost
  PROVE  ShownApps' = ShownApps
<1>1. memory[list] # <<>> /\ memory \in [Blocks -> Seq(Item)]
  BY DEF IInv, TypeOK, Heap, OneOwner
<1>2. memory'[list] = memory[list]
  BY <1>1 DEF CheckPost
<1> QED BY <1>2, SameShown DEF CheckPost, SameBlock

\* Moving the items behind slot k up removes the k-th app.
LEMMA ShiftRemoves ==
  ASSUME IInv, list \in Blocks, NEW k \in 1..count, memory' = Shifted(k),
         list' = list, count' = count - 1
  PROVE  ShownApps' = RemoveAt(ShownApps, k)
<1>1. memory[list] \in Seq(Item) /\ count \in 1..Len(memory[list])
      /\ Len(memory[list]) \in Nat
      /\ \A j \in 1..count : memory[list][j].app # None
  BY ListFacts
<1> DEFINE old == memory[list]
           new == [j \in DOMAIN old |-> IF j \in k..count-1 THEN old[j+1] ELSE old[j]]
<1>2. memory'[list] = new
  BY DEF Shifted, IInv, TypeOK
<1>3. \A j \in 1..count-1 : new[j] = IF j < k THEN old[j] ELSE old[j+1]
  BY <1>1
<1> HIDE DEF new
<1>4. ShownApps' = [j \in 1..count-1 |-> IF j < k THEN old[j].app ELSE old[j+1].app]
  BY <1>2, <1>3 DEF ShownApps, Shown
<1> DEFINE apps == [j \in 1..count |-> old[j].app]
<1>5. ShownApps = apps
  BY DEF ShownApps, Shown
<1>6. apps \in Seq(Apps) /\ Len(apps) = count
  <2>1. \A j \in 1..count : old[j].app \in Apps
    <3>1. \A j \in 1..count : old[j] \in Item /\ old[j].app # None
      BY <1>1
    <3> HIDE DEF old
    <3> QED BY <3>1 DEF Item
  <2> QED BY <1>1, <2>1
<1>7. RemoveAt(apps, k) = [j \in 1..count-1 |-> IF j < k THEN apps[j] ELSE apps[j+1]]
  <2> HIDE DEF apps
  <2> DEFINE front == SubSeq(apps, 1, k-1)
             back == SubSeq(apps, k+1, Len(apps))
  <2>1. front \in Seq(Apps) /\ Len(front) = k-1 /\ \A j \in 1..k-1 : front[j] = apps[j]
    BY <1>1, <1>6
  <2>2. back \in Seq(Apps) /\ Len(back) = count-k /\ \A j \in 1..count-k : back[j] = apps[k+j]
    BY <1>1, <1>6
  <2> HIDE DEF front, back
  <2>3. front \o back \in Seq(Apps) /\ Len(front \o back) = count-1
    <3>1. front \o back \in Seq(Apps) /\ Len(front \o back) = Len(front) + Len(back)
      BY <2>1, <2>2, SMTT(30)
    <3>2. count \in Nat /\ k \in 1..count
      BY <1>1
    <3> QED BY <2>1, <2>2, <3>1, <3>2
  <2>4. \A j \in 1..count-1 :
          (front \o back)[j] = IF j < k THEN apps[j] ELSE apps[j+1]
    <3>1. TAKE j \in 1..count-1
    <3>2. count \in Nat /\ k \in Nat /\ j \in Nat /\ 1 <= j /\ j <= count-1 /\ 1 <= k
      BY <1>1
    <3>3. CASE j < k
      <4>1. j \in 1..Len(front)
        BY <2>1, <3>2, <3>3
      <4>2. (front \o back)[j] = front[j]
        BY <2>1, <2>2, <4>1
      <4> QED BY <2>1, <3>3, <4>1, <4>2
    <3>4. CASE ~(j < k)
      <4> DEFINE i == j - Len(front)
      <4>1. i = j-k+1 /\ i \in 1..count-k /\ k+i = j+1
        BY <2>1, <3>2, <3>4
      <4>2. j \in Len(front)+1..Len(front)+Len(back)
        BY <2>1, <2>2, <3>2, <3>4
      <4>3. (front \o back)[j] = back[i]
        BY <2>1, <2>2, <4>2
      <4>4. back[i] = apps[j+1]
        BY <2>2, <4>1
      <4> QED BY <3>4, <4>3, <4>4
    <3> QED BY <3>3, <3>4
  <2>5. RemoveAt(apps, k) = front \o back
    BY DEF RemoveAt, front, back
  <2>6. front \o back = [j \in 1..count-1 |-> (front \o back)[j]]
    <3> DEFINE whole == front \o back
    <3>1. whole \in Seq(Apps) /\ Len(whole) = count-1
      BY <2>3
    <3> HIDE DEF whole
    <3>2. whole \in [1..Len(whole) -> Apps]
      BY <3>1
    <3>3. whole \in [1..count-1 -> Apps]
      BY <3>1, <3>2
    <3>4. whole = [j \in 1..count-1 |-> whole[j]]
      BY <3>3, Zenon
    <3> QED BY <3>4 DEF whole
  <2> QED BY <2>4, <2>5, <2>6
<1>8. \A j \in 1..count-1 : (IF j < k THEN old[j].app ELSE old[j+1].app)
                            = (IF j < k THEN apps[j] ELSE apps[j+1])
  <2> HIDE DEF old
  <2> QED BY <1>1
<1> HIDE DEF apps, old
<1> QED BY <1>4, <1>5, <1>7, <1>8

LEMMA LosesNamedStep ==
  ASSUME IInv, [Next]_vars, list' = list, list # None
  PROVE  \/ ShownApps' = ShownApps
         \/ \E k \in 1..count : /\ events # <<>> /\ Head(events) = Finished(Slot(k))
                                /\ ShownApps' = RemoveAt(ShownApps, k)
<1>0. list \in Blocks /\ events \in Seq(Event)
  BY DEF IInv, TypeOK
<1>1. CASE UNCHANGED page
  BY <1>1 DEF page, ShownApps, Shown
<1>2. CASE TriggerUpdateItem
  BY <1>0, <1>2, StartKeepsShown DEF TriggerUpdateItem
<1>3. CASE Sweep
  <2>1. CASE UNCHANGED memory
    BY <1>3, <2>1 DEF Sweep, ShownApps, Shown
  <2>2. CASE sweep <= count /\ StartUpdate(sweep)
    <3>1. sweep \in 1..count
      BY <1>3, <2>2 DEF IInv, TypeOK, Heap, Sweep
    <3> QED BY <1>0, <1>3, <2>2, <3>1, StartKeepsShown DEF Sweep
  <2> QED BY <1>3, <2>1, <2>2 DEF Sweep
<1>4. CASE Callback
  BY <1>0, <1>4, CallbackKeepsShown
<1>5. CASE CheckPost
  BY <1>0, <1>5, CheckPostKeepsShown
<1>6. CASE HandleReady
  <2>1. \A b : Ready(b) <=> b = Head(events).block
    BY <1>0, <1>6, TakeEvent DEF HandleReady, IInv, Heap
  <2>2. list' = Head(events).block
    BY <1>6 DEF HandleReady
  <2> QED BY <1>0, <2>1, <2>2 DEF IInv, Heap, OneOwner
<1>7. CASE HandleFinished
  <2> DEFINE a == Head(events).at
  <2>1. CASE UNCHANGED page
    BY <1>1, <2>1
  <2>2. CASE /\ a.block = list /\ a.index <= count
             /\ count' = count - 1
             /\ list' = IF count = 1 THEN None ELSE list
             /\ memory' = IF count = 1 THEN Free(list) ELSE Shifted(a.index)
    <3>1. events # <<>> /\ Head(events) \in Event /\ Head(events).kind = "finished"
      BY <1>0, <1>7 DEF HandleFinished
    <3>2. Head(events) = Finished(a) /\ a \in Address
      BY <3>1, EventKinds DEF Finished, Event
    <3>3. a.index \in 1..count /\ a = Slot(a.index)
      BY <2>2, <3>2 DEF Address, Slot, IInv, TypeOK
    <3>4. memory' = Shifted(a.index)
      BY <2>2
    <3>5. ShownApps' = RemoveAt(ShownApps, a.index)
      BY <1>0, <2>2, <3>3, <3>4, ShiftRemoves
    <3>6. Head(events) = Finished(Slot(a.index))
      BY <3>2, <3>3
    <3> QED BY <3>1, <3>3, <3>5, <3>6
  <2> QED BY <1>7, <2>1, <2>2 DEF HandleFinished
<1>8. CASE TriggerCheck \/ TriggerUpdateAll \/ CheckAsk \/ Advance \/ UNCHANGED vars
  BY <1>1, <1>8 DEF TriggerCheck, TriggerUpdateAll, CheckAsk, Advance, vars
<1> QED BY <1>2, <1>3, <1>4, <1>5, <1>6, <1>7, <1>8 DEF Next, CheckThread, MainLoop

\* While the array stays, a step removes no item or the one an event names, and
\* the others keep their order.
THEOREM LosesNamedItemHolds == Spec => LosesNamedItem
<1>1. IInv /\ [Next]_vars =>
        (list' = list /\ list # None =>
           \/ ShownApps' = ShownApps
           \/ \E k \in 1..count : /\ events # <<>> /\ Head(events) = Finished(Slot(k))
                                  /\ ShownApps' = RemoveAt(ShownApps, k))
  BY LosesNamedStep
<1> QED BY <1>1, Invariance, PTL DEF Spec, LosesNamedItem

=============================================================================
