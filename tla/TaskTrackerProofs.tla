------------------------- MODULE TaskTrackerProofs -------------------------
(***************************************************************************)
(* Proofs about TaskTracker for every number of requests, foreign tasks    *)
(* and slots, and for every combination of faults unless a theorem says    *)
(* otherwise.                                                              *)
(***************************************************************************)
EXTENDS TaskTracker, TLAPS, SequenceTheorems

-----------------------------------------------------------------------------
(* Sequences *)

\* pending_push puts the new operation last.
LEMMA PushProperties ==
  ASSUME NEW s \in Seq(Ops), NEW e \in Ops
  PROVE  /\ PendingPush(s, e) \in Seq(Ops)
         /\ Len(PendingPush(s, e)) = Len(s) + 1
         /\ Len(s) \in Nat
         /\ \A k \in 1..Len(s) : PendingPush(s, e)[k] = s[k]
         /\ PendingPush(s, e)[Len(s) + 1] = e
BY AppendProperties, LenProperties DEF PendingPush

\* pending_pop leaves the queue without its first element.
LEMMA PopProperties ==
  ASSUME NEW S, NEW s \in Seq(S), s # <<>>
  PROVE  /\ PendingPop(s) \in Seq(S)
         /\ Len(PendingPop(s)) = Len(s) - 1
         /\ \A k \in 1..Len(PendingPop(s)) : PendingPop(s)[k] = s[k + 1]
         /\ Head(s) = s[1]
         /\ Head(s) \in S
         /\ 1 \in 1..Len(s)
<1>1. Len(s) \in Nat \ {0}
  BY EmptySeq
<1>2. QED
  BY <1>1, HeadTailProperties DEF PendingPop

\* pending_pop_tail leaves it without its last one, if it had one.
LEMMA PopTailProperties ==
  ASSUME NEW S, NEW s \in Seq(S)
  PROVE  /\ PendingPopTail(s) \in Seq(S)
         /\ s # <<>> => Len(s) # 0
         /\ Len(PendingPopTail(s)) = IF s = <<>> THEN 0 ELSE Len(s) - 1
         /\ \A k \in 1..Len(PendingPopTail(s)) : PendingPopTail(s)[k] = s[k]
<1>1. Len(s) \in Nat /\ (s = <<>> <=> Len(s) = 0)
  BY EmptySeq, LenProperties
<1>2. \A k \in 1..(Len(s) - 1) : s[k] \in S
  BY <1>1, ElementOfSeq
<1>3. /\ SubSeq(s, 1, Len(s) - 1) \in Seq(S)
      /\ Len(SubSeq(s, 1, Len(s) - 1)) = IF 1 <= Len(s) - 1 THEN Len(s) - 1 ELSE 0
      /\ \A k \in 1..(Len(s) - 1) : SubSeq(s, 1, Len(s) - 1)[k] = s[k]
  <2>1. 1 \in Int /\ Len(s) - 1 \in Int
    BY <1>1
  <2>2. QED
    BY <1>1, <1>2, <2>1, SubSeqProperties
<1>4. QED
  BY <1>1, <1>3 DEF PendingPopTail

-----------------------------------------------------------------------------
(* Type correctness *)

\* The constants the type invariant rests on.
LEMMA SlotFacts == MaxTasks \in Nat \ {0} /\ Slots = 1..MaxTasks /\ 0 \notin Slots
BY ConstantsAssumption DEF Slots

\* A slot that is cleared or newly bound is well typed.
LEMMA EntryType ==
  /\ ClearedTask \in Entry
  /\ \A o \in Ops, p \in Paths : BoundEntry(o, p) \in Entry
BY DEF ClearedTask, BoundEntry, Entry, TaskState

\* A signal is appended or not: the inbox stays well typed.
LEMMA EmitType ==
  ASSUME TypeOK, NEW name \in SignalName, NEW p \in Paths, NEW s \in TaskState,
         Emit(name, p, s)
  PROVE  inbox' \in Seq(Signal)
BY AppendProperties DEF Emit, TypeOK, Signal

\* What a property read returns is a state.
LEMMA ReadStateType ==
  ASSUME TypeOK, NEW p \in Paths, NEW s \in TaskState
  PROVE  ReadState(p, s) \in TaskState
BY DEF TypeOK, ReadState

\* What the history records is a sequence of states, and an end.
LEMMA TellType ==
  ASSUME TypeOK, NEW o \in Ops, NEW s \in TaskState, Tell(o, s)
  PROVE  heard' \in [Ops -> Seq(TaskState)]
BY AppendProperties DEF Tell, TypeOK

LEMMA NotifyFailedType ==
  ASSUME TypeOK, NEW o \in Ops, NotifyFailed(o)
  PROVE  /\ heard' \in [Ops -> Seq(TaskState)]
         /\ ended' \in [Ops -> {"open", "refused", "finished"}]
<1>1. "Failed" \in TaskState
  BY DEF TaskState, Terminal
<1>2. QED
  BY <1>1, TellType DEF NotifyFailed, TypeOK

\* A signal at the head of the inbox names a path and a state.
LEMMA DispatchType ==
  ASSUME TypeOK, NextSignal
  PROVE  /\ inbox' \in Seq(Signal)
         /\ Head(inbox).path \in Paths
         /\ Head(inbox).state \in TaskState
<1>1. Head(inbox) \in Signal /\ Tail(inbox) \in Seq(Signal)
  BY HeadTailProperties DEF TypeOK, NextSignal
<1>2. QED
  BY <1>1 DEF NextSignal, Signal

\* The callback of an active slot is one of a request.
LEMMA ActiveOp ==
  ASSUME TypeOK, Bookkeeping, NEW i \in Slots, Active(i)
  PROVE  /\ tasks[i].op \in Ops
         /\ tasks[i].path \in Paths
         /\ tasks[i].state \in TaskState
<1>1. tasks[i] \in Entry
  BY DEF TypeOK
<1>2. QED
  BY <1>1 DEF Bookkeeping, Active, Entry

LEMMA OpeningSlot ==
  ASSUME TypeOK, Bookkeeping, opening # 0
  PROVE  opening \in Slots /\ Active(opening) /\ calling = None
BY SlotFacts DEF TypeOK, Bookkeeping

\* TypeOK: every variable keeps its range, whatever step is taken.
LEMMA TypeStep ==
  ASSUME TypeOK, Bookkeeping, [Next]_vars
  PROVE  TypeOK'
<1>a. SUFFICES ASSUME Next PROVE TypeOK'
  BY DEF TypeOK, vars, client, daemon, history
<1>1. ASSUME NEW o \in Ops, RequestInvalid(o) PROVE TypeOK'
  <2>1. NotifyFailed(o)
    BY <1>1 DEF RequestInvalid
  <2>2. QED
    BY <1>1, <2>1, NotifyFailedType DEF RequestInvalid, TypeOK, client, daemon
<1>2. ASSUME NEW o \in Ops, RequestCall(o) PROVE TypeOK'
  <2>1. pending \in Seq(Ops) /\ PendingPush(pending, o) \in Seq(Ops)
    BY PushProperties DEF TypeOK
  <2>2. pending' \in Seq(Ops)
    BY <1>2, <2>1 DEF RequestCall
  <2>3. QED
    BY <1>2, <2>2 DEF RequestCall, TypeOK, history
<1>3. ASSUME CallSucceeds PROVE TypeOK'
  BY <1>3 DEF CallSucceeds, TypeOK, daemon, history
<1>4. ASSUME CallFails PROVE TypeOK'
  <2>1. calling \in Ops /\ NotifyFailed(calling)
    BY <1>4 DEF CallFails, TypeOK
  <2>2. pending' \in Seq(Ops)
    BY <1>4, PopTailProperties DEF CallFails, TypeOK
  <2>3. QED
    BY <1>4, <2>1, <2>2, NotifyFailedType DEF CallFails, TypeOK, daemon
<1>5. ASSUME NEW p \in Paths, CancelTask(p) PROVE TypeOK'
  <2>1. "Canceled" \in TaskState /\ "PropertiesChanged" \in SignalName
    BY DEF TaskState, Terminal, SignalName
  <2>2. inbox' \in Seq(Signal)
    BY <1>5, <2>1, EmitType DEF CancelTask
  <2>3. QED
    BY <1>5, <2>1, <2>2 DEF CancelTask, TypeOK, client, history
<1>6. ASSUME OnTaskAdded PROVE TypeOK'
  <2>1. NextSignal /\ pending # <<>> /\ pending \in Seq(Ops)
    BY <1>6 DEF OnTaskAdded, Dispatch, TypeOK
  <2>2. BoundEntry(Head(pending), Head(inbox).path) \in Entry
    BY <2>1, DispatchType, PopProperties, EntryType
  <2>3. pending' \in Seq(Ops)
    BY <1>6, <2>1, PopProperties DEF OnTaskAdded
  <2>4. tasks' \in [Slots -> Entry] /\ opening' \in 0..MaxTasks
    BY <1>6, <2>2, SlotFacts DEF OnTaskAdded, TypeOK
  <2>5. QED
    BY <1>6, <2>1, <2>3, <2>4, DispatchType DEF OnTaskAdded, TypeOK, daemon, history
<1>7. ASSUME OnTaskAddedUnclaimed PROVE TypeOK'
  <2>1. NextSignal
    BY <1>7 DEF OnTaskAddedUnclaimed, Dispatch
  <2>2. QED
    BY <1>7, <2>1, DispatchType DEF OnTaskAddedUnclaimed, TypeOK, client, daemon, history
<1>8. ASSUME OnTaskAddedRefused PROVE TypeOK'
  <2>1. NextSignal /\ pending # <<>> /\ pending \in Seq(Ops)
    BY <1>8 DEF OnTaskAddedRefused, Dispatch, TypeOK
  <2>2. pending' \in Seq(Ops) /\ Head(pending) \in Ops
    BY <1>8, <2>1, PopProperties DEF OnTaskAddedRefused
  <2>3. /\ heard' \in [Ops -> Seq(TaskState)]
        /\ ended' \in [Ops -> {"open", "refused", "finished"}]
    BY <1>8, <2>2, NotifyFailedType DEF OnTaskAddedRefused
  <2>4. QED
    BY <1>8, <2>1, <2>2, <2>3, DispatchType DEF OnTaskAddedRefused, TypeOK, daemon
<1>9. ASSUME SubscribeInteraction PROVE TypeOK'
  <2>1. opening \in Slots
    BY <1>9, OpeningSlot DEF SubscribeInteraction
  <2>2. [tasks[opening] EXCEPT !.interaction_slot = TRUE] \in Entry
    BY <2>1 DEF TypeOK, Entry
  <2>3. tasks' \in [Slots -> Entry]
    BY <1>9, <2>1, <2>2 DEF SubscribeInteraction, TypeOK
  <2>4. QED
    BY <1>9, <2>3 DEF SubscribeInteraction, TypeOK, daemon, history
<1>10. ASSUME SubscribeInteractionFails PROVE TypeOK'
  <2>1. opening \in Slots /\ tasks[opening].op \in Ops
    BY <1>10, OpeningSlot, ActiveOp DEF SubscribeInteractionFails
  <2>2. tasks' \in [Slots -> Entry] /\ opening' \in 0..MaxTasks
    BY <1>10, <2>1, EntryType, SlotFacts DEF SubscribeInteractionFails, TypeOK
  <2>3. QED
    BY <1>10, <2>1, <2>2, NotifyFailedType DEF SubscribeInteractionFails, TypeOK, daemon
<1>11. ASSUME ReadInitialProperties PROVE TypeOK'
  <2> DEFINE s == ReadState(tasks[opening].path, tasks[opening].state)
  <2>1. opening \in Slots /\ tasks[opening].op \in Ops /\ s \in TaskState
    BY <1>11, OpeningSlot, ActiveOp, ReadStateType DEF ReadInitialProperties
  <2>2. [tasks[opening] EXCEPT !.state = s] \in Entry
    BY <2>1 DEF TypeOK, Entry
  <2>3. tasks' \in [Slots -> Entry]
    BY <1>11, <2>1, <2>2 DEF ReadInitialProperties, TypeOK
  <2>4. heard' \in [Ops -> Seq(TaskState)]
    BY <1>11, <2>1, TellType DEF ReadInitialProperties
  <2>5. QED
    BY <1>11, <2>3, <2>4, SlotFacts DEF ReadInitialProperties, TypeOK, daemon
<1>12. ASSUME OnPropertiesChanged PROVE TypeOK'
  <2>1. NextSignal
    BY <1>12 DEF OnPropertiesChanged, Dispatch
  <2>2. PICK i \in Slots :
          /\ tasks[i].path = Head(inbox).path
          /\ tasks' = [tasks EXCEPT ![i].state = Head(inbox).state]
          /\ Tell(tasks[i].op, Head(inbox).state)
    BY <1>12 DEF OnPropertiesChanged
  <2>3. Head(inbox).state \in TaskState /\ Active(i)
    BY <2>1, <2>2, DispatchType, ConstantsAssumption DEF Active
  <2>4. [tasks[i] EXCEPT !.state = Head(inbox).state] \in Entry
    BY <2>3, ZenonT(30) DEF TypeOK, Entry
  <2>5. tasks' \in [Slots -> Entry] /\ heard' \in [Ops -> Seq(TaskState)]
    BY <2>2, <2>3, <2>4, ActiveOp, TellType DEF TypeOK
  <2>6. QED
    BY <1>12, <2>1, <2>5, DispatchType DEF OnPropertiesChanged, TypeOK, daemon
<1>13. ASSUME OnRequestInteraction PROVE TypeOK'
  <2>1. NextSignal
    BY <1>13 DEF OnRequestInteraction, Dispatch
  <2>2. QED
    BY <1>13, <2>1, DispatchType DEF OnRequestInteraction, TypeOK, client, history
<1>14. ASSUME OnTaskRemoved PROVE TypeOK'
  <2>1. NextSignal
    BY <1>14 DEF OnTaskRemoved, Dispatch
  <2>2. PICK i \in Slots :
          /\ tasks[i].path = Head(inbox).path
          /\ Tell(tasks[i].op, ReadState(tasks[i].path, tasks[i].state))
          /\ ended' = [ended EXCEPT ![tasks[i].op] = "finished"]
          /\ tasks' = [tasks EXCEPT ![i] = ClearedTask]
    BY <1>14 DEF OnTaskRemoved
  <2>3. Active(i)
    BY <2>1, <2>2, DispatchType, ConstantsAssumption DEF Active
  <2>4. ReadState(tasks[i].path, tasks[i].state) \in TaskState /\ tasks[i].op \in Ops
    BY <2>3, ActiveOp, ReadStateType
  <2>5. tasks' \in [Slots -> Entry] /\ heard' \in [Ops -> Seq(TaskState)]
    BY <2>2, <2>4, EntryType, TellType DEF TypeOK
  <2>6. QED
    BY <1>14, <2>1, <2>2, <2>4, <2>5, DispatchType DEF OnTaskRemoved, TypeOK, daemon
<1>15. ASSUME OnUnboundSignal PROVE TypeOK'
  <2>1. NextSignal
    BY <1>15 DEF OnUnboundSignal
  <2>2. QED
    BY <1>15, <2>1, DispatchType DEF OnUnboundSignal, TypeOK, client, daemon, history
<1>16. ASSUME NEW p \in Paths, CreateTask(p)
       PROVE task' \in [Paths -> TaskState] /\ inbox' \in Seq(Signal)
  <2>1. "Queued" \in TaskState /\ "TaskAdded" \in SignalName
    BY DEF TaskState, SignalName
  <2>2. QED
    BY <1>16, <2>1, EmitType DEF CreateTask, TypeOK
<1>17. ASSUME NEW o \in Ops, DaemonAccept(o) PROVE TypeOK'
  <2>1. o \in Paths
    BY DEF Paths
  <2>2. QED
    BY <1>16, <1>17, <2>1 DEF DaemonAccept, TypeOK, client, history
<1>18. ASSUME NEW o \in Ops, DaemonReject(o) PROVE TypeOK'
  BY <1>18 DEF DaemonReject, TypeOK, client, history
<1>19. ASSUME NEW p \in Foreign, DaemonForeign(p) PROVE TypeOK'
  <2>1. p \in Paths
    BY DEF Paths
  <2>2. QED
    BY <1>16, <1>19, <2>1 DEF DaemonForeign, TypeOK, client, history
<1>20. ASSUME NEW p \in Paths, DaemonStart(p) PROVE TypeOK'
  <2>1. "Processing" \in TaskState /\ "PropertiesChanged" \in SignalName
    BY DEF TaskState, SignalName
  <2>2. inbox' \in Seq(Signal)
    BY <1>20, <2>1, EmitType DEF DaemonStart
  <2>3. QED
    BY <1>20, <2>1, <2>2 DEF DaemonStart, TypeOK, client, history
<1>21. ASSUME NEW p \in Paths, DaemonAsk(p) PROVE TypeOK'
  <2>1. "Processing" \in TaskState /\ "RequestInteraction" \in SignalName
    BY DEF TaskState, SignalName
  <2>2. inbox' \in Seq(Signal)
    BY <1>21, <2>1, EmitType DEF DaemonAsk
  <2>3. QED
    BY <1>21, <2>2 DEF DaemonAsk, TypeOK, client, history
<1>22. ASSUME NEW p \in Paths, NEW s \in Outcomes, DaemonFinish(p, s) PROVE TypeOK'
  <2>1. s \in TaskState /\ "PropertiesChanged" \in SignalName
    BY ConstantsAssumption DEF TaskState, SignalName
  <2>2. inbox' \in Seq(Signal)
    BY <1>22, <2>1, EmitType DEF DaemonFinish
  <2>3. QED
    BY <1>22, <2>1, <2>2 DEF DaemonFinish, TypeOK, client, history
<1>23. ASSUME NEW p \in Paths, DaemonRemove(p) PROVE TypeOK'
  <2>1. task[p] \in TaskState /\ "TaskRemoved" \in SignalName
    BY DEF TypeOK, SignalName
  <2>2. inbox' \in Seq(Signal)
    BY <1>23, <2>1, EmitType DEF DaemonRemove
  <2>3. QED
    BY <1>23, <2>2 DEF DaemonRemove, TypeOK, client, history
<1>24. QED
  BY <1>a, <1>1, <1>2, <1>3, <1>4, <1>5, <1>6, <1>7, <1>8, <1>9, <1>10, <1>11, <1>12,
     <1>13, <1>14, <1>15, <1>17, <1>18, <1>19, <1>20, <1>21, <1>22, <1>23
  DEF Next, Process

-----------------------------------------------------------------------------
(* A callback has one home *)

\* pending_pop takes the oldest callback out of the queue and no other.
LEMMA PopWaiting ==
  ASSUME TypeOK, Bookkeeping, pending # <<>>, pending' = PendingPop(pending)
  PROVE  /\ Head(pending) \in Ops
         /\ Waiting(Head(pending))
         /\ \A o \in Ops : Waiting(o)' <=> Waiting(o) /\ o # Head(pending)
         /\ \A k, l \in 1..Len(pending') : pending'[k] = pending'[l] => k = l
<1>1. /\ pending \in Seq(Ops)
      /\ Len(pending) \in Nat
      /\ \A k, l \in 1..Len(pending) : pending[k] = pending[l] => k = l
  BY LenProperties DEF TypeOK, Bookkeeping, OneHome
<1>2. /\ Len(pending') = Len(pending) - 1
      /\ \A k \in 1..Len(pending') : pending'[k] = pending[k + 1]
      /\ Head(pending) = pending[1]
      /\ Head(pending) \in Ops
      /\ 1 \in 1..Len(pending)
  BY <1>1, PopProperties
<1>3. ASSUME NEW o \in Ops, Waiting(o), o # Head(pending)
      PROVE  Waiting(o)'
  <2>1. PICK k \in 1..Len(pending) : pending[k] = o
    BY <1>3 DEF Waiting
  <2>2. k # 1
    BY <1>2, <1>3, <2>1
  <2>3. k - 1 \in 1..Len(pending') /\ pending'[k - 1] = o
    BY <1>1, <1>2, <2>1, <2>2
  <2>4. QED
    BY <2>3 DEF Waiting
<1>4. ASSUME NEW o \in Ops, Waiting(o)'
      PROVE  Waiting(o) /\ o # Head(pending)
  <2>1. PICK k \in 1..Len(pending') : pending'[k] = o
    BY <1>4 DEF Waiting
  <2>2. k + 1 \in 1..Len(pending) /\ pending[k + 1] = o /\ k + 1 # 1
    BY <1>1, <1>2, <2>1
  <2>3. QED
    BY <1>1, <1>2, <2>2 DEF Waiting
<1>5. QED
  BY <1>1, <1>2, <1>3, <1>4 DEF Waiting

\* pending_pop_tail takes back the request whose call failed, and no other one
\* that is queued unless that request was never queued.
LEMMA PopTailWaiting ==
  ASSUME TypeOK, Bookkeeping, calling # None, pending' = PendingPopTail(pending)
  PROVE  /\ calling \in Ops
         /\ \A o \in Ops : Waiting(o)' => Waiting(o) /\ o # calling
         /\ \A o \in Ops : Waiting(calling) /\ Waiting(o) /\ o # calling => Waiting(o)'
         /\ \A k, l \in 1..Len(pending') : pending'[k] = pending'[l] => k = l
<1>1. /\ pending \in Seq(Ops)
      /\ Len(pending) \in Nat
      /\ calling \in Ops
      /\ \A k, l \in 1..Len(pending) : pending[k] = pending[l] => k = l
      /\ Waiting(calling) => pending[Len(pending)] = calling
  BY LenProperties DEF TypeOK, Bookkeeping, OneHome
<1>2. /\ Len(pending') = IF pending = <<>> THEN 0 ELSE Len(pending) - 1
      /\ \A k \in 1..Len(pending') : pending'[k] = pending[k]
      /\ pending # <<>> => Len(pending) # 0
  BY <1>1, PopTailProperties
<1>4. \A k \in 1..Len(pending') : k \in 1..Len(pending) /\ k # Len(pending)
  BY <1>1, <1>2
<1>5. \A o \in Ops : Waiting(o)' => Waiting(o)
  BY <1>2, <1>4 DEF Waiting
<1>6. ASSUME NEW o \in Ops, o = calling, Waiting(o)' PROVE FALSE
  <2>1. PICK k \in 1..Len(pending') : pending'[k] = o
    BY <1>6 DEF Waiting
  <2>2. k \in 1..Len(pending) /\ pending[k] = calling /\ k # Len(pending)
    BY <1>2, <1>4, <1>6, <2>1
  <2>3. pending[Len(pending)] = calling /\ Len(pending) \in 1..Len(pending)
    BY <1>1, <2>2 DEF Waiting
  <2>4. QED
    BY <1>1, <2>2, <2>3
<1>7. ASSUME NEW o \in Ops, Waiting(calling), Waiting(o), o # calling
      PROVE  Waiting(o)'
  <2>1. PICK k \in 1..Len(pending) : pending[k] = o
    BY <1>7 DEF Waiting
  <2>2. k # Len(pending)
    BY <1>1, <1>7, <2>1
  <2>3. pending # <<>>
    BY <2>1, EmptySeq
  <2>4. k \in 1..Len(pending') /\ pending'[k] = o
    BY <1>1, <1>2, <2>1, <2>2, <2>3
  <2>5. QED
    BY <2>4 DEF Waiting
<1>8. QED
  BY <1>1, <1>2, <1>4, <1>5, <1>6, <1>7

\* Steps that leave the queue, the ends and the homes of the callbacks alone.
LEMMA SameHomes ==
  ASSUME TypeOK, Bookkeeping, UNCHANGED <<pending, ended>>,
         \A i \in Slots : tasks'[i].op = tasks[i].op /\ tasks'[i].path = tasks[i].path,
         calling' \in {calling, None}, opening' \in {opening, 0},
         \A o \in Ops : request[o] # "new" => request'[o] # "new"
  PROVE  /\ Bookkeeping'
         /\ \A o \in Ops : (Waiting(o)' <=> Waiting(o)) /\ (Bound(o)' <=> Bound(o))
<1>1. \A o \in Ops : (Waiting(o)' <=> Waiting(o)) /\ (Bound(o)' <=> Bound(o))
  BY DEF Waiting, Bound
<1>2. \A i \in Slots : Active(i)' <=> Active(i)
  BY DEF Active
<1>3. OneHome'
  BY <1>1, <1>2 DEF Bookkeeping, OneHome
<1>4. /\ \A i \in Slots : (Active(i) <=> tasks[i].op # None)'
      /\ \A o \in Ops : (Waiting(o) \/ Bound(o) => request[o] # "new")'
  BY <1>1, <1>2 DEF Bookkeeping
<1>5. (opening # 0 => Active(opening) /\ calling = None)'
  BY OpeningSlot DEF Active
<1>6. (calling # None =>
         /\ request[calling] # "new"
         /\ ended[calling] = "open"
         /\ ~Bound(calling)
         /\ Waiting(calling) => pending[Len(pending)] = calling)'
  <2>1. SUFFICES ASSUME calling' # None PROVE
          /\ request'[calling] # "new"
          /\ ended[calling] = "open"
          /\ ~(\E i \in Slots : tasks'[i].op = calling)
          /\ (\E k \in 1..Len(pending) : pending[k] = calling)
               => pending[Len(pending)] = calling
    BY DEF Bound, Waiting
  <2>2. calling # None /\ calling \in Ops
    BY <2>1 DEF TypeOK
  <2>3. QED
    BY <2>2 DEF Bookkeeping, Bound, Waiting
<1>7. QED
  BY <1>1, <1>3, <1>4, <1>5, <1>6 DEF Bookkeeping

\* A slot is cleared and the request of its callback ends.
LEMMA ClearSlot ==
  ASSUME TypeOK, Bookkeeping, NEW i \in Slots, Active(i),
         tasks' = [tasks EXCEPT ![i] = ClearedTask],
         NEW e, ended' = [ended EXCEPT ![tasks[i].op] = e],
         UNCHANGED <<pending, request>>,
         calling = None, calling' = None, opening' = 0
  PROVE  /\ Bookkeeping'
         /\ \A o \in Ops : Waiting(o)' <=> Waiting(o)
         /\ \A o \in Ops : Bound(o)' <=> Bound(o) /\ o # tasks[i].op
<1>1. tasks[i].op \in Ops /\ Bound(tasks[i].op)
  BY ActiveOp DEF Bound
<1>2. /\ tasks'[i].op = None /\ tasks'[i].path = None
      /\ \A j \in Slots \ {i} : tasks'[j] = tasks[j]
  BY DEF TypeOK, ClearedTask
<1>3. \A o \in Ops : Waiting(o)' <=> Waiting(o)
  BY DEF Waiting
<1>4. None \notin Ops
  BY ConstantsAssumption DEF Paths
<1>5. \A j \in Slots : Active(j)' <=> Active(j) /\ j # i
  BY <1>2 DEF Active
<1>6. \A o \in Ops : Bound(o)' => Bound(o) /\ o # tasks[i].op
  <2>1. SUFFICES ASSUME NEW o \in Ops, NEW j \in Slots, tasks'[j].op = o
                 PROVE  tasks[j].op = o /\ o # tasks[i].op
    BY DEF Bound
  <2>2. j # i /\ tasks[j].op = o
    BY <1>2, <1>4, <2>1
  <2>3. Active(j)
    BY <1>4, <2>2 DEF Bookkeeping
  <2>4. QED
    BY <2>2, <2>3 DEF Bookkeeping, OneHome
<1>a. \A o \in Ops : Bound(o) /\ o # tasks[i].op => Bound(o)'
  BY <1>2 DEF Bound
<1>7. \A o \in Ops : o # tasks[i].op => ended'[o] = ended[o]
  BY <1>1 DEF TypeOK
<1>8. OneHome'
  <2>1. \A j, k \in Slots : (Active(j) /\ tasks[j].op = tasks[k].op => j = k)'
    <3>1. SUFFICES ASSUME NEW j \in Slots, NEW k \in Slots,
                          Active(j)', tasks'[j].op = tasks'[k].op
                   PROVE  j = k
      OBVIOUS
    <3>2. j # i /\ Active(j)
      BY <1>5, <3>1
    <3>3. tasks[j].op \in Ops /\ tasks'[j].op = tasks[j].op
      BY <1>2, <3>2, ActiveOp
    <3>4. k # i /\ tasks'[k].op = tasks[k].op
      BY <1>2, <1>4, <3>1, <3>3
    <3>5. QED
      BY <3>1, <3>2, <3>3, <3>4 DEF Bookkeeping, OneHome
  <2>2. \A o \in Ops : (Waiting(o) => ~Bound(o) /\ ended[o] = "open")'
    BY <1>1, <1>3, <1>6, <1>7 DEF Bookkeeping, OneHome
  <2>3. \A o \in Ops : (Bound(o) => ended[o] = "open")'
    BY <1>6, <1>7 DEF Bookkeeping, OneHome
  <2>4. \A k, l \in 1..Len(pending') : pending'[k] = pending'[l] => k = l
    BY DEF Bookkeeping, OneHome
  <2>5. QED
    BY <2>1, <2>2, <2>3, <2>4 DEF OneHome
<1>9. \A j \in Slots : (Active(j) <=> tasks[j].op # None)'
  BY <1>2, <1>5 DEF Bookkeeping
<1>10. \A o \in Ops : (Waiting(o) \/ Bound(o) => request[o] # "new")'
  BY <1>3, <1>6 DEF Bookkeeping
<1>11. QED
  BY <1>a, <1>3, <1>6, <1>8, <1>9, <1>10 DEF Bookkeeping

\* A request that has no home yet, or no home any more, ends.
LEMMA EndHomeless ==
  ASSUME TypeOK, Bookkeeping, UNCHANGED <<tasks, request>>,
         NEW c \in Ops, ~Bound(c), ~Waiting(c)',
         NEW e, ended' = [ended EXCEPT ![c] = e],
         \A o \in Ops : Waiting(o)' => Waiting(o),
         \A k, l \in 1..Len(pending') : pending'[k] = pending'[l] => k = l,
         opening' = opening, calling' = None
  PROVE  Bookkeeping'
<1>1. \A o \in Ops : Bound(o)' <=> Bound(o)
  BY DEF Bound
<1>2. \A i \in Slots : Active(i)' <=> Active(i)
  BY DEF Active
<1>3. \A o \in Ops : o # c => ended'[o] = ended[o]
  BY DEF TypeOK
<1>4. OneHome'
  <2>1. \A i, j \in Slots : (Active(i) /\ tasks[i].op = tasks[j].op => i = j)'
    BY <1>2 DEF Bookkeeping, OneHome
  <2>2. /\ \A o \in Ops : (Waiting(o) => ~Bound(o) /\ ended[o] = "open")'
        /\ \A o \in Ops : (Bound(o) => ended[o] = "open")'
    BY <1>1, <1>3 DEF Bookkeeping, OneHome
  <2>3. QED
    BY <2>1, <2>2 DEF OneHome
<1>5. /\ \A i \in Slots : (Active(i) <=> tasks[i].op # None)'
      /\ \A o \in Ops : (Waiting(o) \/ Bound(o) => request[o] # "new")'
  BY <1>1, <1>2 DEF Bookkeeping
<1>6. (opening # 0 => Active(opening) /\ calling = None)'
  BY OpeningSlot DEF Active
<1>7. QED
  BY <1>4, <1>5, <1>6 DEF Bookkeeping

\* A request that was not made yet is called: nothing else is in progress, so it
\* becomes the newest in the queue, or has no home at all.
LEMMA CallBookkeeping ==
  ASSUME TypeOK, Bookkeeping, NEW c \in Ops, RequestCall(c)
  PROVE  /\ Bookkeeping'
         /\ ~Waiting(c) /\ ~Bound(c)
         /\ \A o \in Ops : Bound(o)' <=> Bound(o)
         /\ "oom" \notin Faults => \A o \in Ops : Waiting(o)' <=> Waiting(o) \/ o = c
<1>1. /\ pending \in Seq(Ops) /\ Len(pending) \in Nat
      /\ opening = 0 /\ ended[c] = "open" /\ request[c] = "new"
      /\ UNCHANGED <<tasks, opening, ended>> /\ calling' = c
      /\ request' = [request EXCEPT ![c] = "sent"]
  BY LenProperties DEF TypeOK, RequestCall, Idle, IsNew, history
<1>2. ~Waiting(c) /\ ~Bound(c)
  BY <1>1 DEF Bookkeeping
<1>3. \/ pending' = pending
      \/ /\ Len(pending') = Len(pending) + 1
         /\ \A k \in 1..Len(pending) : pending'[k] = pending[k]
         /\ pending'[Len(pending')] = c
  <2> DEFINE q == PendingPush(pending, c)
  <2>1. /\ Len(q) = Len(pending) + 1
        /\ \A k \in 1..Len(pending) : q[k] = pending[k]
        /\ q[Len(pending) + 1] = c
    BY <1>1, PushProperties
  <2>2. pending' = pending \/ pending' = q
    BY DEF RequestCall
  <2>3. QED
    BY <2>1, <2>2
<1>4. \A o \in Ops : (Bound(o)' <=> Bound(o)) /\ (Waiting(o)' => Waiting(o) \/ o = c)
  BY <1>1, <1>3 DEF Bound, Waiting
<1>5. \A i \in Slots : Active(i)' <=> Active(i)
  BY <1>1 DEF Active
<1>6. \A k, l \in 1..Len(pending') : pending'[k] = pending'[l] => k = l
  <2>1. CASE pending' = pending
    BY <2>1 DEF Bookkeeping, OneHome
  <2>2. CASE pending' # pending
    <3>1. \A k \in 1..Len(pending) : pending[k] # c
      BY <1>2 DEF Waiting
    <3>2. \A k \in 1..Len(pending') : k \in 1..Len(pending) \/ k = Len(pending')
      BY <1>1, <1>3, <2>2
    <3>3. QED
      BY <1>3, <2>2, <3>1, <3>2 DEF Bookkeeping, OneHome
  <2>3. QED
    BY <2>1, <2>2
<1>7. OneHome'
  BY <1>1, <1>2, <1>4, <1>5, <1>6 DEF Bookkeeping, OneHome
<1>8. /\ \A i \in Slots : (Active(i) <=> tasks[i].op # None)'
      /\ \A o \in Ops : (Waiting(o) \/ Bound(o) => request[o] # "new")'
  BY <1>1, <1>4, <1>5 DEF Bookkeeping, TypeOK
<1>9. (\E k \in 1..Len(pending') : pending'[k] = c) => pending'[Len(pending')] = c
  BY <1>2, <1>3 DEF Waiting
<1>10. (calling # None =>
         /\ request[calling] # "new"
         /\ ended[calling] = "open"
         /\ ~Bound(calling)
         /\ Waiting(calling) => pending[Len(pending)] = calling)'
  BY <1>1, <1>2, <1>9 DEF Bound, Waiting, TypeOK
<1>a. ASSUME "oom" \notin Faults, NEW o \in Ops, Waiting(o) \/ o = c
      PROVE  Waiting(o)'
  <2> DEFINE q == PendingPush(pending, c)
  <2>1. /\ Len(q) = Len(pending) + 1
        /\ \A k \in 1..Len(pending) : q[k] = pending[k]
        /\ q[Len(pending) + 1] = c
    BY <1>1, PushProperties
  <2>2. pending' = q
    BY <1>a DEF RequestCall
  <2>3. CASE o = c
    <3>1. Len(pending) + 1 \in 1..Len(q)
      BY <1>1, <2>1
    <3>2. QED
      BY <2>1, <2>2, <2>3, <3>1 DEF Waiting
  <2>4. CASE Waiting(o)
    <3>1. PICK k \in 1..Len(pending) : pending[k] = o
      BY <2>4 DEF Waiting
    <3>2. k \in 1..Len(q)
      BY <1>1, <2>1
    <3>3. QED
      BY <2>1, <2>2, <3>1, <3>2 DEF Waiting
  <2>5. QED
    BY <1>a, <2>3, <2>4
<1>11. QED
  BY <1>a, <1>2, <1>4, <1>1, <1>7, <1>8, <1>10 DEF Bookkeeping

\* The oldest callback moves from the queue to a free slot.
LEMMA BindBookkeeping ==
  ASSUME TypeOK, Bookkeeping, OnTaskAdded
  PROVE  /\ Bookkeeping'
         /\ Head(pending) \in Ops /\ Waiting(Head(pending)) /\ ~Bound(Head(pending))
         /\ \A o \in Ops : Waiting(o)' <=> Waiting(o) /\ o # Head(pending)
         /\ \A o \in Ops : Bound(o)' <=> Bound(o) \/ o = Head(pending)
<1> DEFINE c == Head(pending)
           q == Head(inbox).path
<1>1. PICK i \in Slots : /\ ~Active(i)
                         /\ tasks' = [tasks EXCEPT ![i] = BoundEntry(c, q)]
                         /\ opening' = i
  BY DEF OnTaskAdded, FirstFree
<1>2. /\ pending # <<>> /\ pending' = PendingPop(pending)
      /\ UNCHANGED <<calling, request, ended>> /\ calling = None
  BY DEF OnTaskAdded, Dispatch, NextSignal, Idle, daemon, history
<1>3. q \in Paths
  BY DispatchType DEF OnTaskAdded, Dispatch
<1>4. /\ c \in Ops /\ Waiting(c)
      /\ \A o \in Ops : Waiting(o)' <=> Waiting(o) /\ o # c
      /\ \A k, l \in 1..Len(pending') : pending'[k] = pending'[l] => k = l
  BY <1>2, PopWaiting
<1>5. None \notin Ops /\ None \notin Paths
  BY ConstantsAssumption DEF Paths
<1>6. /\ tasks'[i].op = c /\ tasks'[i].path = q
      /\ \A j \in Slots \ {i} : tasks'[j] = tasks[j]
  BY <1>1 DEF TypeOK, BoundEntry
<1>7. tasks[i].op = None /\ ~Bound(c) /\ ended[c] = "open" /\ request[c] # "new"
  BY <1>1, <1>4 DEF Bookkeeping, OneHome
<1>8. \A o \in Ops : Bound(o)' => Bound(o) \/ o = c
  BY <1>6 DEF Bound
<1>a. \A o \in Ops : Bound(o) \/ o = c => Bound(o)'
  BY <1>5, <1>6, <1>7 DEF Bound
<1>9. \A j \in Slots : Active(j)' <=> Active(j) \/ j = i
  BY <1>3, <1>5, <1>6 DEF Active
<1>10. \A j, k \in Slots : (Active(j) /\ tasks[j].op = tasks[k].op => j = k)'
  <2>1. SUFFICES ASSUME NEW j \in Slots, NEW k \in Slots, j # k,
                        Active(j)', tasks'[j].op = tasks'[k].op
                 PROVE  FALSE
    OBVIOUS
  <2>2. \A l \in Slots : tasks[l].op # c
    BY <1>7 DEF Bound
  <2>3. j # i /\ k # i
    BY <1>6, <2>1, <2>2
  <2>4. QED
    BY <1>6, <1>9, <2>1, <2>3 DEF Bookkeeping, OneHome
<1>11. OneHome'
  BY <1>2, <1>4, <1>7, <1>8, <1>10 DEF Bookkeeping, OneHome
<1>12. \A j \in Slots : (Active(j) <=> tasks[j].op # None)'
  BY <1>4, <1>5, <1>6, <1>9 DEF Bookkeeping
<1>13. \A o \in Ops : (Waiting(o) \/ Bound(o) => request[o] # "new")'
  BY <1>2, <1>4, <1>7, <1>8 DEF Bookkeeping
<1>14. (opening # 0 => Active(opening) /\ calling = None)'
  BY <1>1, <1>2, <1>3, <1>5, <1>6 DEF Active
<1>15. QED
  BY <1>a, <1>2, <1>4, <1>7, <1>8, <1>11, <1>12, <1>13, <1>14 DEF Bookkeeping

\* Bookkeeping: each step moves at most one callback, and moves it whole.
LEMMA BookkeepingStep ==
  ASSUME TypeOK, Bookkeeping, [Next]_vars
  PROVE  Bookkeeping'
<1>1. CASE UNCHANGED vars
  BY <1>1, SameHomes DEF vars, client, daemon, history
<1>2. ASSUME NEW o \in Ops, RequestInvalid(o) PROVE Bookkeeping'
  <2>1. /\ request[o] = "new" /\ UNCHANGED <<client, request>> /\ calling = None
        /\ ended' = [ended EXCEPT ![o] = "refused"]
    BY <1>2 DEF RequestInvalid, IsNew, Idle, NotifyFailed, daemon
  <2>2. ~Waiting(o) /\ ~Bound(o)
    BY <2>1 DEF Bookkeeping
  <2>3. \A r \in Ops : Waiting(r)' <=> Waiting(r)
    BY <2>1 DEF Waiting, client
  <2>4. \A k, l \in 1..Len(pending') : pending'[k] = pending'[l] => k = l
    BY <2>1 DEF Bookkeeping, OneHome, client
  <2>5. QED
    BY <2>1, <2>2, <2>3, <2>4, EndHomeless DEF client
<1>3. ASSUME NEW o \in Ops, RequestCall(o) PROVE Bookkeeping'
  BY <1>3, CallBookkeeping
<1>4. CASE CallSucceeds
  BY <1>4, SameHomes DEF CallSucceeds, daemon, history
<1>5. CASE CallFails
  <2>1. /\ calling # None /\ calling \in Ops /\ pending' = PendingPopTail(pending)
        /\ ended' = [ended EXCEPT ![calling] = "refused"]
        /\ UNCHANGED <<tasks, opening, request>> /\ calling' = None
    BY <1>5 DEF CallFails, NotifyFailed, daemon, TypeOK
  <2>2. /\ \A o \in Ops : Waiting(o)' => Waiting(o) /\ o # calling
        /\ \A k, l \in 1..Len(pending') : pending'[k] = pending'[l] => k = l
    BY <2>1, PopTailWaiting
  <2>3. PICK c \in Ops : c = calling
    BY <2>1
  <2>4. ~Bound(c) /\ ~Waiting(c)'
    BY <2>1, <2>2, <2>3 DEF Bookkeeping
  <2>5. QED
    BY <2>1, <2>2, <2>3, <2>4, EndHomeless
<1>6. CASE OnTaskAdded
  BY <1>6, BindBookkeeping
<1>7. CASE OnTaskAddedUnclaimed
  BY <1>7, SameHomes DEF OnTaskAddedUnclaimed, client, daemon, history
<1>8. CASE OnTaskAddedRefused
  <2> DEFINE c == Head(pending)
  <2>1. /\ pending # <<>> /\ pending' = PendingPop(pending)
        /\ ended' = [ended EXCEPT ![c] = "refused"]
        /\ UNCHANGED <<tasks, calling, opening, request>> /\ calling = None
    BY <1>8 DEF OnTaskAddedRefused, Dispatch, NextSignal, Idle, NotifyFailed, daemon
  <2>2. /\ c \in Ops /\ Waiting(c)
        /\ \A o \in Ops : Waiting(o)' <=> Waiting(o) /\ o # c
        /\ \A k, l \in 1..Len(pending') : pending'[k] = pending'[l] => k = l
    BY <2>1, PopWaiting
  <2>3. PICK h \in Ops : h = c
    BY <2>2
  <2>4. ~Bound(h) /\ ~Waiting(h)'
    BY <2>2, <2>3 DEF Bookkeeping, OneHome
  <2>5. QED
    BY <2>1, <2>2, <2>3, <2>4, EndHomeless
<1>9. CASE SubscribeInteraction
  <2>1. \A i \in Slots : tasks'[i].op = tasks[i].op /\ tasks'[i].path = tasks[i].path
    BY <1>9, OpeningSlot DEF SubscribeInteraction, TypeOK, Entry
  <2>2. QED
    BY <1>9, <2>1, SameHomes DEF SubscribeInteraction, daemon, history
<1>10. CASE SubscribeInteractionFails
  <2>1. opening \in Slots /\ Active(opening) /\ calling = None
    BY <1>10, OpeningSlot DEF SubscribeInteractionFails
  <2>2. PICK i \in Slots : i = opening
    BY <2>1
  <2>3. /\ tasks' = [tasks EXCEPT ![i] = ClearedTask]
        /\ ended' = [ended EXCEPT ![tasks[i].op] = "refused"]
        /\ UNCHANGED <<pending, calling, request>> /\ opening' = 0
    BY <1>10, <2>2 DEF SubscribeInteractionFails, NotifyFailed, daemon
  <2>4. QED
    BY <2>1, <2>2, <2>3, ClearSlot DEF Active
<1>11. CASE ReadInitialProperties
  <2>1. \A i \in Slots : tasks'[i].op = tasks[i].op /\ tasks'[i].path = tasks[i].path
    BY <1>11, OpeningSlot DEF ReadInitialProperties, TypeOK, Entry
  <2>2. QED
    BY <1>11, <2>1, SameHomes DEF ReadInitialProperties, daemon
<1>12. CASE OnPropertiesChanged
  <2>1. PICK i \in Slots : tasks' = [tasks EXCEPT ![i].state = Head(inbox).state]
    BY <1>12 DEF OnPropertiesChanged
  <2>2. \A j \in Slots : tasks'[j].op = tasks[j].op /\ tasks'[j].path = tasks[j].path
    BY <2>1 DEF TypeOK, Entry
  <2>3. QED
    BY <1>12, <2>2, SameHomes DEF OnPropertiesChanged, daemon
<1>13. CASE OnRequestInteraction
  BY <1>13, SameHomes DEF OnRequestInteraction, client, history
<1>14. CASE OnTaskRemoved
  <2>1. /\ calling = None /\ opening = 0 /\ NextSignal
        /\ UNCHANGED <<pending, calling, opening, request>>
    BY <1>14 DEF OnTaskRemoved, Dispatch, NextSignal, Idle, daemon
  <2>2. PICK i \in Slots :
          /\ tasks[i].path = Head(inbox).path
          /\ ended' = [ended EXCEPT ![tasks[i].op] = "finished"]
          /\ tasks' = [tasks EXCEPT ![i] = ClearedTask]
    BY <1>14 DEF OnTaskRemoved
  <2>3. Active(i)
    BY <2>1, <2>2, DispatchType, ConstantsAssumption DEF Active
  <2>4. QED
    BY <2>1, <2>2, <2>3, ClearSlot
<1>15. CASE OnUnboundSignal
  BY <1>15, SameHomes DEF OnUnboundSignal, client, daemon, history
<1>16. ASSUME UNCHANGED <<client, history>>,
              \A r \in Ops : request[r] # "new" => request'[r] # "new"
       PROVE  Bookkeeping'
  BY <1>16, SameHomes DEF client, history
<1>17. ASSUME NEW o \in Ops, DaemonAccept(o) \/ DaemonReject(o) PROVE Bookkeeping'
  BY <1>16, <1>17 DEF DaemonAccept, DaemonReject, TypeOK
<1>18. ASSUME NEW p \in Foreign, DaemonForeign(p) PROVE Bookkeeping'
  BY <1>16, <1>18 DEF DaemonForeign
<1>19. ASSUME NEW p \in Paths,
              CancelTask(p) \/ DaemonStart(p) \/ DaemonAsk(p) \/ DaemonRemove(p)
       PROVE  Bookkeeping'
  BY <1>16, <1>19 DEF CancelTask, DaemonStart, DaemonAsk, DaemonRemove
<1>20. ASSUME NEW p \in Paths, NEW s \in Outcomes, DaemonFinish(p, s) PROVE Bookkeeping'
  BY <1>16, <1>20 DEF DaemonFinish
<1>21. QED
  BY <1>1, <1>2, <1>3, <1>4, <1>5, <1>6, <1>7, <1>8, <1>9, <1>10, <1>11, <1>12, <1>13,
     <1>14, <1>15, <1>17, <1>18, <1>19, <1>20
  DEF Next, Process

-----------------------------------------------------------------------------
(* The invariants *)

\* What holds throughout: the types, and the bookkeeping that gives them.
Inv == TypeOK /\ Bookkeeping

LEMMA InvInit == Init => Inv
<1> SUFFICES ASSUME Init PROVE Inv
  OBVIOUS
<1>1. TypeOK
  BY SlotFacts, EntryType DEF Init, TypeOK, TaskState
<1>2. None \notin Ops
  BY ConstantsAssumption DEF Paths
<1>3. pending = <<>> /\ 1..Len(pending) = {}
  BY DEF Init
<1>4. \A i \in Slots : ~Active(i) /\ tasks[i].op = None
  BY DEF Init, Active, ClearedTask
<1>a. \A o \in Ops : ~Waiting(o) /\ ~Bound(o)
  BY <1>2, <1>3, <1>4 DEF Waiting, Bound
<1>5. OneHome
  BY <1>a, <1>3, <1>4 DEF Init, OneHome
<1>6. QED
  BY <1>1, <1>a, <1>4, <1>5 DEF Init, Inv, Bookkeeping

LEMMA InvStep == Inv /\ [Next]_vars => Inv'
BY TypeStep, BookkeepingStep DEF Inv

LEMMA InvHolds == Spec => []Inv
BY InvInit, InvStep, PTL DEF Spec

\* Every variable of the library keeps its range: no property read, signal or
\* fault puts a slot, the queue or the history outside it.
THEOREM TypeCorrect == Spec => []TypeOK
<1>1. Inv => TypeOK
  BY DEF Inv
<1>2. QED
  BY <1>1, InvHolds, PTL

\* A progress callback is never queued twice, bound twice, queued and bound, or
\* kept after its request ended, for any number of requests and slots and any faults.
THEOREM OneHomeHolds == Spec => []OneHome
<1>1. Inv => OneHome
  BY DEF Inv, Bookkeeping
<1>2. QED
  BY <1>1, InvHolds, PTL

-----------------------------------------------------------------------------
(* Steps *)

\* A callback is called, or a request ended, only while the request is open:
\* every call site holds a callback with a home, or one that never had any.
LEMMA TellsOpen ==
  ASSUME Inv, NEW c \in Ops, ended[c] = "open",
         \/ UNCHANGED heard
         \/ \E s : Tell(c, s),
         \/ UNCHANGED ended
         \/ \E e : ended' = [ended EXCEPT ![c] = e],
         NEW o \in Ops, ended[o] # "open"
  PROVE  ended'[o] = ended[o] /\ heard'[o] = heard[o]
<1>1. c # o /\ DOMAIN heard = Ops /\ DOMAIN ended = Ops
  BY DEF Inv, TypeOK
<1>2. heard'[o] = heard[o]
  BY <1>1 DEF Tell
<1>3. ended'[o] = ended[o]
  BY <1>1
<1>4. QED
  BY <1>2, <1>3

LEMMA SilentStep ==
  ASSUME Inv, Next, NEW o \in Ops, ended[o] # "open"
  PROVE  ended'[o] = ended[o] /\ heard'[o] = heard[o]
<1> DEFINE Same == ended'[o] = ended[o] /\ heard'[o] = heard[o]
<1>0. TypeOK /\ Bookkeeping
  BY DEF Inv
<1>1. \A i \in Slots : Active(i) => tasks[i].op \in Ops /\ ended[tasks[i].op] = "open"
  BY <1>0, ActiveOp DEF Bookkeeping, OneHome, Bound
<1>2. pending # <<>> => Head(pending) \in Ops /\ ended[Head(pending)] = "open"
  <2>1. SUFFICES ASSUME pending # <<>> PROVE Head(pending) \in Ops /\ Waiting(Head(pending))
    BY <1>0 DEF Bookkeeping, OneHome
  <2>2. QED
    BY <1>0, <2>1, PopProperties DEF TypeOK, Waiting
<1>3. CASE UNCHANGED history
  BY <1>3 DEF history
<1>4. ASSUME NEW r \in Ops, RequestInvalid(r) PROVE Same
  <2>1. ended[r] = "open" /\ NotifyFailed(r)
    BY <1>4 DEF RequestInvalid, IsNew
  <2>2. QED
    BY <2>1, TellsOpen DEF NotifyFailed
<1>5. CASE CallFails
  <2>1. calling \in Ops /\ ended[calling] = "open" /\ NotifyFailed(calling)
    BY <1>0, <1>5 DEF CallFails, TypeOK, Bookkeeping
  <2>2. QED
    BY <2>1, TellsOpen DEF NotifyFailed
<1>6. CASE OnTaskAddedRefused
  <2>1. pending # <<>> /\ NotifyFailed(Head(pending))
    BY <1>6 DEF OnTaskAddedRefused
  <2>2. QED
    BY <1>2, <2>1, TellsOpen DEF NotifyFailed
<1>7. CASE SubscribeInteractionFails
  <2>1. opening \in Slots /\ Active(opening) /\ NotifyFailed(tasks[opening].op)
    BY <1>0, <1>7, OpeningSlot DEF SubscribeInteractionFails
  <2>2. QED
    BY <1>1, <2>1, TellsOpen DEF NotifyFailed
<1>8. CASE ReadInitialProperties
  <2>1. opening \in Slots /\ Active(opening) /\ UNCHANGED ended
    BY <1>0, <1>8, OpeningSlot DEF ReadInitialProperties
  <2>2. Tell(tasks[opening].op, ReadState(tasks[opening].path, tasks[opening].state))
    BY <1>8 DEF ReadInitialProperties
  <2>3. QED
    BY <1>1, <2>1, <2>2, TellsOpen
<1>9. ASSUME NextSignal, NEW i \in Slots, tasks[i].path = Head(inbox).path PROVE Active(i)
  BY <1>0, <1>9, DispatchType, ConstantsAssumption DEF Active
<1>10. CASE OnPropertiesChanged
  <2>1. PICK i \in Slots : /\ tasks[i].path = Head(inbox).path
                           /\ Tell(tasks[i].op, Head(inbox).state)
    BY <1>10 DEF OnPropertiesChanged
  <2>2. Active(i) /\ UNCHANGED ended
    BY <1>9, <1>10, <2>1 DEF OnPropertiesChanged, Dispatch
  <2>3. QED
    BY <1>1, <2>1, <2>2, TellsOpen
<1>11. CASE OnTaskRemoved
  <2>1. PICK i \in Slots :
          /\ tasks[i].path = Head(inbox).path
          /\ Tell(tasks[i].op, ReadState(tasks[i].path, tasks[i].state))
          /\ ended' = [ended EXCEPT ![tasks[i].op] = "finished"]
    BY <1>11 DEF OnTaskRemoved
  <2>2. Active(i)
    BY <1>9, <1>11, <2>1 DEF OnTaskRemoved, Dispatch
  <2>3. QED
    BY <1>1, <2>1, <2>2, TellsOpen
<1>12. \/ UNCHANGED history
       \/ \E r \in Ops : RequestInvalid(r)
       \/ CallFails \/ OnTaskAddedRefused \/ SubscribeInteractionFails
       \/ ReadInitialProperties \/ OnPropertiesChanged \/ OnTaskRemoved
  BY DEF Next, Process, RequestCall, CallSucceeds, OnTaskAdded, OnTaskAddedUnclaimed,
         OnRequestInteraction, OnUnboundSignal, SubscribeInteraction, DaemonAccept,
         DaemonReject, DaemonForeign, CancelTask, DaemonStart, DaemonAsk, DaemonRemove,
         DaemonFinish, history
<1>13. QED
  BY <1>3, <1>4, <1>5, <1>6, <1>7, <1>8, <1>10, <1>11, <1>12

\* Once a request has ended, by an error return, a refusal or TaskRemoved, no
\* later signal, late reply or property read calls its callback again.
THEOREM SilentOnceEndedHolds == Spec => SilentOnceEnded
<1>1. Inv /\ [Next]_vars
        => [\A o \in Ops : ended[o] # "open" =>
              ended'[o] = ended[o] /\ heard'[o] = heard[o]]_vars
  BY SilentStep
<1>2. QED
  BY <1>1, InvHolds, PTL DEF Spec, SilentOnceEnded

-----------------------------------------------------------------------------
(* No request is forgotten, and the life cycle of RequestLifecycle is kept. *)
(* Both need every allocation of pending_push to succeed.                  *)

\* The phases before and after a step, as the refinement sees them.
Phases == [o \in Ops |-> PhaseOf(o)]

\* A step that concerns one request leaves the phases of the others.
LEMMA PhaseMove ==
  ASSUME TypeOK, NEW c \in Ops,
         \A o \in Ops \ {c} : /\ Waiting(o)' <=> Waiting(o)
                              /\ Bound(o)' <=> Bound(o)
                              /\ ended'[o] = ended[o]
  PROVE  Phases' = [Phases EXCEPT ![c] = PhaseOf(c)']
<1>1. \A o \in Ops \ {c} : PhaseOf(o)' = PhaseOf(o)
  BY DEF PhaseOf
<1>2. QED
  BY <1>1 DEF Phases

\* A step that moves no callback, ends no request and calls no callback.
LEMMA StutterLifecycle ==
  ASSUME TypeOK, NoneForgotten, UNCHANGED history,
         \A o \in Ops : (Waiting(o)' <=> Waiting(o)) /\ (Bound(o)' <=> Bound(o)),
         \A o \in Ops : request'[o] # "new" => request[o] # "new"
  PROVE  NoneForgotten' /\ UNCHANGED Lifecycle!vars
<1>1. \A o \in Ops : PhaseOf(o)' = PhaseOf(o)
  BY DEF PhaseOf, history
<1>2. QED
  BY <1>1 DEF NoneForgotten, history, Lifecycle!vars

\* A bound callback is called and stays bound.
LEMMA ReportLifecycle ==
  ASSUME TypeOK, Bookkeeping, NoneForgotten,
         NEW c \in Ops, Bound(c), NEW s \in TaskState, Tell(c, s), UNCHANGED <<ended, request>>,
         \A o \in Ops : (Waiting(o)' <=> Waiting(o)) /\ (Bound(o)' <=> Bound(o))
  PROVE  NoneForgotten' /\ Lifecycle!Next
<1>1. PhaseOf(c) = "bound" /\ PhaseOf(c)' = "bound"
  BY DEF PhaseOf, Bookkeeping, OneHome
<1>2. Phases' = [Phases EXCEPT ![c] = "bound"] /\ Phases[c] = "bound"
  BY <1>1, PhaseMove DEF Phases
<1>3. Lifecycle!Report(c, s)
  BY <1>2 DEF Lifecycle!Report, Lifecycle!Moves, Lifecycle!Hears, Tell, Phases
<1>4. QED
  BY <1>3 DEF NoneForgotten, Lifecycle!Next

\* A request ends: its callback hears a last state and has no home any more.
LEMMA EndLifecycle ==
  ASSUME TypeOK, Bookkeeping, NoneForgotten,
         NEW c \in Ops, ended[c] = "open", NEW s \in TaskState, Tell(c, s),
         s = "Failed" \/ Bound(c),
         NEW e \in {"refused", "finished"}, ended' = [ended EXCEPT ![c] = e],
         UNCHANGED request,
         \A o \in Ops \ {c} : (Waiting(o)' <=> Waiting(o)) /\ (Bound(o)' <=> Bound(o))
  PROVE  NoneForgotten' /\ Lifecycle!Next
<1>1. ended'[c] # "open" /\ \A o \in Ops \ {c} : ended'[o] = ended[o]
  BY DEF TypeOK
<1>2. PhaseOf(c)' = "over"
  BY <1>1 DEF PhaseOf
<1>3. Phases' = [Phases EXCEPT ![c] = "over"]
  BY <1>1, <1>2, PhaseMove
<1>4. /\ Phases[c] \in {"new", "waiting", "bound"}
      /\ Bound(c) => Phases[c] = "bound"
  BY DEF Phases, PhaseOf
<1>5. CASE s = "Failed"
  <2>1. Lifecycle!GiveUp(c)
    BY <1>3, <1>4, <1>5 DEF Lifecycle!GiveUp, Lifecycle!Moves, Lifecycle!Hears, Tell, Phases
  <2>2. QED
    BY <1>1, <2>1 DEF NoneForgotten, Lifecycle!Next
<1>6. CASE Bound(c)
  <2>1. Lifecycle!Finish(c, s)
    BY <1>3, <1>4, <1>6 DEF Lifecycle!Finish, Lifecycle!Moves, Lifecycle!Hears, Tell, Phases
  <2>2. QED
    BY <1>1, <2>1 DEF NoneForgotten, Lifecycle!Next
<1>7. QED
  BY <1>5, <1>6

LEMMA LifecycleStep ==
  ASSUME "oom" \notin Faults, Inv, NoneForgotten, [Next]_vars
  PROVE  NoneForgotten' /\ [Lifecycle!Next]_(Lifecycle!vars)
<1> DEFINE Goal == NoneForgotten' /\ [Lifecycle!Next]_(Lifecycle!vars)
           Kept == \A o \in Ops : (Waiting(o)' <=> Waiting(o)) /\ (Bound(o)' <=> Bound(o))
<1>0. TypeOK /\ Bookkeeping
  BY DEF Inv
<1>a. "Failed" \in TaskState
  BY DEF TaskState, Terminal
<1>b. ASSUME UNCHANGED client PROVE Kept
  BY <1>b DEF Waiting, Bound, client
<1>c. ASSUME NEW i \in Slots, Active(i)
      PROVE  /\ tasks[i].op \in Ops /\ Bound(tasks[i].op) /\ ended[tasks[i].op] = "open"
             /\ tasks[i].path \in Paths /\ tasks[i].state \in TaskState
  BY <1>0, <1>c, ActiveOp DEF Bound, Bookkeeping, OneHome
<1>1. CASE UNCHANGED vars
  BY <1>0, <1>1, <1>b, StutterLifecycle DEF vars, daemon
<1>2. ASSUME NEW o \in Ops, RequestInvalid(o) PROVE Goal
  <2>1. /\ ended[o] = "open" /\ NotifyFailed(o) /\ UNCHANGED <<client, request>>
    BY <1>2 DEF RequestInvalid, IsNew, daemon
  <2>2. QED
    BY <1>0, <1>a, <1>b, <2>1, EndLifecycle DEF NotifyFailed
<1>3. ASSUME NEW c \in Ops, RequestCall(c) PROVE Goal
  <2>1. /\ ~Waiting(c) /\ ~Bound(c) /\ ended[c] = "open"
        /\ \A o \in Ops : Waiting(o)' <=> Waiting(o) \/ o = c
        /\ \A o \in Ops : Bound(o)' <=> Bound(o)
        /\ UNCHANGED history /\ request' = [request EXCEPT ![c] = "sent"]
    BY <1>0, <1>3, CallBookkeeping DEF RequestCall, IsNew
  <2>2. PhaseOf(c) = "new" /\ PhaseOf(c)' = "waiting"
    BY <2>1 DEF PhaseOf, history
  <2>3. Phases' = [Phases EXCEPT ![c] = "waiting"] /\ Phases[c] = "new"
    <3>1. Phases' = [Phases EXCEPT ![c] = PhaseOf(c)']
      BY <1>0, <2>1, PhaseMove DEF history
    <3>2. QED
      BY <2>2, <3>1 DEF Phases
  <2>4. Lifecycle!Submit(c)
    BY <2>1, <2>3 DEF Lifecycle!Submit, Lifecycle!Moves, Phases, history
  <2>5. NoneForgotten'
    BY <1>0, <2>1 DEF NoneForgotten, history, TypeOK
  <2>6. QED
    BY <2>4, <2>5 DEF Lifecycle!Next
<1>4. CASE CallSucceeds
  <2>1. Kept
    BY <1>4 DEF CallSucceeds, Waiting, Bound
  <2>2. QED
    BY <1>0, <1>4, <2>1, StutterLifecycle DEF CallSucceeds, daemon
<1>5. CASE CallFails
  <2>1. /\ calling # None /\ calling \in Ops /\ NotifyFailed(calling)
        /\ ended[calling] = "open" /\ request[calling] # "new" /\ ~Bound(calling)
        /\ pending' = PendingPopTail(pending) /\ UNCHANGED <<tasks, request>>
    BY <1>0, <1>5 DEF CallFails, Bookkeeping, TypeOK, daemon
  <2>2. PICK c \in Ops : c = calling
    BY <2>1
  <2>3. Waiting(c)
    BY <2>1, <2>2 DEF NoneForgotten
  <2>4. \A o \in Ops \ {c} : Waiting(o)' <=> Waiting(o)
    BY <1>0, <2>1, <2>2, <2>3, PopTailWaiting
  <2>5. \A o \in Ops : Bound(o)' <=> Bound(o)
    BY <2>1 DEF Bound
  <2>6. QED
    BY <1>0, <1>a, <2>1, <2>2, <2>4, <2>5, EndLifecycle DEF NotifyFailed
<1>6. CASE OnTaskAdded
  <2>1. PICK c \in Ops : c = Head(pending)
    BY <1>0, <1>6, BindBookkeeping
  <2>2. /\ Waiting(c) /\ ~Bound(c) /\ ended[c] = "open"
        /\ \A o \in Ops : Waiting(o)' <=> Waiting(o) /\ o # c
        /\ \A o \in Ops : Bound(o)' <=> Bound(o) \/ o = c
        /\ UNCHANGED <<history, request>>
    BY <1>0, <1>6, <2>1, BindBookkeeping DEF OnTaskAdded, daemon, Bookkeeping, OneHome
  <2>3. PhaseOf(c) = "waiting" /\ PhaseOf(c)' = "bound"
    BY <2>2 DEF PhaseOf, history
  <2>4. Phases' = [Phases EXCEPT ![c] = "bound"] /\ Phases[c] = "waiting"
    <3>1. Phases' = [Phases EXCEPT ![c] = PhaseOf(c)']
      BY <1>0, <2>2, PhaseMove DEF history
    <3>2. QED
      BY <2>3, <3>1 DEF Phases
  <2>5. Lifecycle!Bind(c)
    BY <2>2, <2>4 DEF Lifecycle!Bind, Lifecycle!Moves, Phases, history
  <2>6. NoneForgotten'
    BY <2>2 DEF NoneForgotten, history
  <2>7. QED
    BY <2>5, <2>6 DEF Lifecycle!Next
<1>7. CASE OnTaskAddedUnclaimed
  BY <1>0, <1>7, <1>b, StutterLifecycle DEF OnTaskAddedUnclaimed, daemon
<1>8. CASE OnTaskAddedRefused
  <2>1. /\ pending # <<>> /\ pending' = PendingPop(pending) /\ NotifyFailed(Head(pending))
        /\ UNCHANGED <<tasks, request>>
    BY <1>8 DEF OnTaskAddedRefused, daemon
  <2>2. /\ Head(pending) \in Ops /\ Waiting(Head(pending))
        /\ \A o \in Ops : Waiting(o)' <=> Waiting(o) /\ o # Head(pending)
    BY <1>0, <2>1, PopWaiting
  <2>3. PICK c \in Ops : c = Head(pending)
    BY <2>2
  <2>4. ended[c] = "open" /\ \A o \in Ops : Bound(o)' <=> Bound(o)
    BY <1>0, <2>1, <2>2, <2>3 DEF Bookkeeping, OneHome, Bound
  <2>5. QED
    BY <1>0, <1>a, <2>1, <2>2, <2>3, <2>4, EndLifecycle DEF NotifyFailed
<1>9. CASE SubscribeInteraction
  <2>1. \A i \in Slots : tasks'[i].op = tasks[i].op
    BY <1>0, <1>9, OpeningSlot DEF SubscribeInteraction, TypeOK, Entry
  <2>2. Kept
    BY <1>9, <2>1 DEF SubscribeInteraction, Waiting, Bound
  <2>3. QED
    BY <1>0, <1>9, <2>2, StutterLifecycle DEF SubscribeInteraction, daemon
<1>d. ASSUME NEW i \in Slots, Active(i), tasks' = [tasks EXCEPT ![i] = ClearedTask],
             UNCHANGED <<pending, request>>, NEW e \in {"refused", "finished"},
             ended' = [ended EXCEPT ![tasks[i].op] = e],
             NEW s \in TaskState, Tell(tasks[i].op, s),
             calling = None, calling' = None, opening' = 0
      PROVE  Goal
  <2>1. PICK c \in Ops : c = tasks[i].op /\ Bound(c) /\ ended[c] = "open"
    BY <1>c, <1>d
  <2>2. \A o \in Ops \ {c} : (Waiting(o)' <=> Waiting(o)) /\ (Bound(o)' <=> Bound(o))
    BY <1>0, <1>d, <2>1, ClearSlot
  <2>3. QED
    BY <1>0, <1>d, <2>1, <2>2, EndLifecycle
<1>10. CASE SubscribeInteractionFails
  <2>1. PICK i \in Slots : i = opening /\ Active(i) /\ calling = None
    BY <1>0, <1>10, OpeningSlot DEF SubscribeInteractionFails
  <2>2. QED
    BY <1>10, <1>a, <1>d, <2>1 DEF SubscribeInteractionFails, NotifyFailed, daemon
<1>11. CASE ReadInitialProperties
  <2>1. PICK i \in Slots : i = opening /\ Active(i)
    BY <1>0, <1>11, OpeningSlot DEF ReadInitialProperties
  <2>2. PICK c \in Ops : c = tasks[i].op /\ Bound(c)
    BY <1>c, <2>1
  <2>3. PICK s \in TaskState : s = ReadState(tasks[i].path, tasks[i].state)
    BY <1>0, <1>c, <2>1, ReadStateType
  <2>4. /\ Tell(c, s) /\ tasks' = [tasks EXCEPT ![i].state = s]
        /\ UNCHANGED <<pending, ended, request>>
    BY <1>11, <2>1, <2>2, <2>3 DEF ReadInitialProperties, daemon
  <2>5. Kept
    BY <1>0, <2>4 DEF Waiting, Bound, TypeOK, Entry
  <2>6. QED
    BY <1>0, <2>2, <2>4, <2>5, ReportLifecycle
<1>e. ASSUME NextSignal, NEW i \in Slots, tasks[i].path = Head(inbox).path
      PROVE  Active(i) /\ Head(inbox).state \in TaskState
  BY <1>0, <1>e, DispatchType, ConstantsAssumption DEF Active
<1>12. CASE OnPropertiesChanged
  <2>1. NextSignal /\ UNCHANGED <<pending, ended, request>>
    BY <1>12 DEF OnPropertiesChanged, Dispatch, daemon
  <2>2. PICK i \in Slots :
          /\ tasks[i].path = Head(inbox).path
          /\ tasks' = [tasks EXCEPT ![i].state = Head(inbox).state]
          /\ Tell(tasks[i].op, Head(inbox).state)
    BY <1>12 DEF OnPropertiesChanged
  <2>3. PICK c \in Ops : c = tasks[i].op /\ Bound(c)
    BY <1>c, <1>e, <2>1, <2>2
  <2>4. Kept
    BY <1>0, <2>1, <2>2 DEF Waiting, Bound, TypeOK, Entry
  <2>5. QED
    BY <1>0, <1>e, <2>1, <2>2, <2>3, <2>4, ReportLifecycle
<1>13. CASE OnRequestInteraction
  BY <1>0, <1>13, <1>b, StutterLifecycle DEF OnRequestInteraction
<1>14. CASE OnTaskRemoved
  <2>1. /\ NextSignal /\ calling = None /\ opening = 0
        /\ UNCHANGED <<pending, calling, opening, request>>
    BY <1>14 DEF OnTaskRemoved, Dispatch, NextSignal, Idle, daemon
  <2>2. PICK i \in Slots :
          /\ tasks[i].path = Head(inbox).path
          /\ Tell(tasks[i].op, ReadState(tasks[i].path, tasks[i].state))
          /\ ended' = [ended EXCEPT ![tasks[i].op] = "finished"]
          /\ tasks' = [tasks EXCEPT ![i] = ClearedTask]
    BY <1>14 DEF OnTaskRemoved
  <2>3. Active(i) /\ ReadState(tasks[i].path, tasks[i].state) \in TaskState
    BY <1>0, <1>c, <1>e, <2>1, <2>2, ReadStateType
  <2>4. QED
    BY <1>d, <2>1, <2>2, <2>3
<1>15. CASE OnUnboundSignal
  BY <1>0, <1>15, <1>b, StutterLifecycle DEF OnUnboundSignal, daemon
<1>16. ASSUME UNCHANGED <<client, history>>,
              \A r \in Ops : request'[r] # "new" => request[r] # "new"
       PROVE  Goal
  BY <1>0, <1>16, <1>b, StutterLifecycle
<1>17. ASSUME NEW o \in Ops, DaemonAccept(o) \/ DaemonReject(o) PROVE Goal
  BY <1>0, <1>16, <1>17 DEF DaemonAccept, DaemonReject, TypeOK
<1>18. ASSUME NEW p \in Foreign, DaemonForeign(p) PROVE Goal
  BY <1>16, <1>18 DEF DaemonForeign
<1>19. ASSUME NEW p \in Paths,
              CancelTask(p) \/ DaemonStart(p) \/ DaemonAsk(p) \/ DaemonRemove(p)
       PROVE  Goal
  BY <1>16, <1>19 DEF CancelTask, DaemonStart, DaemonAsk, DaemonRemove
<1>20. ASSUME NEW p \in Paths, NEW s \in Outcomes, DaemonFinish(p, s) PROVE Goal
  BY <1>16, <1>20 DEF DaemonFinish
<1>21. QED
  BY <1>1, <1>2, <1>3, <1>4, <1>5, <1>6, <1>7, <1>8, <1>9, <1>10, <1>11, <1>12, <1>13,
     <1>14, <1>15, <1>17, <1>18, <1>19, <1>20
  DEF Next, Process

LEMMA ForgottenInit == Init => NoneForgotten
BY DEF Init, NoneForgotten

\* As long as pending_push can allocate, a request that was made and has not
\* ended is queued or bound: no full table, failed subscription, late reply or
\* task of another client drops a callback without telling it.
THEOREM NoneForgottenHolds == ASSUME "oom" \notin Faults PROVE Spec => []NoneForgotten
<1>1. Inv /\ NoneForgotten /\ [Next]_vars => NoneForgotten'
  BY LifecycleStep
<1>2. QED
  BY <1>1, ForgottenInit, InvHolds, PTL DEF Spec

\* The bookkeeping implements RequestLifecycle, so every caller sees the life
\* cycle it promises.
THEOREM KeepsLifecycleHolds == ASSUME "oom" \notin Faults PROVE Spec => KeepsLifecycle
<1>1. Init => Lifecycle!Init
  <2>1. SUFFICES ASSUME Init PROVE Lifecycle!Init
    OBVIOUS
  <2>2. Inv
    BY <2>1, InvInit
  <2>3. None \notin Ops /\ pending = <<>> /\ 1..Len(pending) = {}
    BY <2>1, ConstantsAssumption DEF Init, Paths
  <2>4. \A o \in Ops : ~Waiting(o) /\ ~Bound(o) /\ ended[o] = "open"
    BY <2>1, <2>3 DEF Init, Waiting, Bound, ClearedTask
  <2>5. QED
    BY <2>1, <2>4 DEF Init, Lifecycle!Init, PhaseOf
<1>2. Inv /\ NoneForgotten /\ [Next]_vars => [Lifecycle!Next]_(Lifecycle!vars)
  BY LifecycleStep
<1>3. QED
  BY <1>1, <1>2, InvHolds, NoneForgottenHolds, PTL DEF Spec, KeepsLifecycle, Lifecycle!Spec

=============================================================================
