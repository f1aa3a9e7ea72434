----------------------- MODULE TaskTrackerOrderProofs -----------------------
(***************************************************************************)
(* Binding by order is right when the client is alone: without other       *)
(* clients, late replies and lost allocations, each slot follows the task  *)
(* of its own request, for any number of requests and slots, and the last  *)
(* state its callback hears is the outcome of that task.                   *)
(*                                                                         *)
(* When it is not alone a request may follow the task of another, but what *)
(* it waits for is never lost: enough tasks are announced for the queued   *)
(* callbacks, and each slot is going to hear of the removal of its task.   *)
(***************************************************************************)
EXTENDS TaskTrackerProofs, FiniteSets, FunctionTheorems, FiniteSetTheorems

\* The condition under which order is enough.
Alone == Foreign = {} /\ "timeout" \notin Faults /\ "oom" \notin Faults

-----------------------------------------------------------------------------
(* What a step may do to the inbox *)

\* The inbox keeps its signals and gains at most some that announce no task.
Grows ==
  /\ Len(inbox) <= Len(inbox')
  /\ \A k \in 1..Len(inbox) : inbox'[k] = inbox[k]
  /\ \A k \in 1..Len(inbox') : inbox'[k].name = "TaskAdded" => k \in 1..Len(inbox)

LEMMA InboxLen ==
  ASSUME TypeOK PROVE inbox \in Seq(Signal) /\ Len(inbox) \in Nat
BY LenProperties DEF TypeOK

LEMMA SameInboxGrows ==
  ASSUME TypeOK, UNCHANGED inbox PROVE Grows
BY InboxLen DEF Grows

LEMMA EmitGrows ==
  ASSUME TypeOK, NEW name \in SignalName \ {"TaskAdded"}, NEW p \in Paths,
         NEW s \in TaskState, Emit(name, p, s)
  PROVE  Grows
<1> DEFINE sig == [name |-> name, path |-> p, state |-> s]
<1>1. sig \in Signal /\ sig.name # "TaskAdded"
  BY DEF Signal
<1>2. /\ Len(inbox) \in Nat
      /\ Len(Append(inbox, sig)) = Len(inbox) + 1
      /\ \A k \in 1..Len(inbox) : Append(inbox, sig)[k] = inbox[k]
      /\ Append(inbox, sig)[Len(inbox) + 1] = sig
  BY <1>1, AppendProperties, InboxLen DEF TypeOK
<1>3. CASE inbox' = inbox
  BY <1>3, SameInboxGrows
<1>4. CASE inbox' = Append(inbox, sig)
  BY <1>1, <1>2, <1>4 DEF Grows
<1>5. QED
  BY <1>3, <1>4 DEF Emit

\* What dispatching the oldest signal leaves.
LEMMA DispatchInbox ==
  ASSUME TypeOK, NextSignal
  PROVE  /\ Len(inbox) \in Nat \ {0}
         /\ Len(inbox') = Len(inbox) - 1
         /\ \A k \in 1..Len(inbox') : inbox'[k] = inbox[k + 1]
         /\ Head(inbox) = inbox[1]
         /\ calling = None /\ opening = 0
<1>1. inbox \in Seq(Signal) /\ inbox # <<>> /\ inbox' = Tail(inbox)
  BY DEF TypeOK, NextSignal
<1>2. Len(inbox) \in Nat \ {0}
  BY <1>1, EmptySeq
<1>3. QED
  BY <1>1, <1>2, HeadTailProperties DEF NextSignal, Idle

-----------------------------------------------------------------------------
(* The order is kept *)

\* No task is announced and the queue stays: the announcements are the same.
LEMMA OrderGrows ==
  ASSUME TypeOK, Order, Grows, UNCHANGED pending, inbox' \in Seq(Signal),
         \A o \in Ops : request[o] = "accepted" => request'[o] = "accepted",
         Foreign = {}
  PROVE  /\ \A k \in 1..Len(inbox') : inbox'[k].name = "TaskAdded" =>
              request'[inbox'[k].path] = "accepted" /\ Waiting(inbox'[k].path)
         /\ \A k, l \in 1..Len(inbox') :
              k < l /\ inbox'[k].name = "TaskAdded" /\ inbox'[l].name = "TaskAdded" =>
                \A i, j \in 1..Len(pending) :
                  pending[i] = inbox'[k].path /\ pending[j] = inbox'[l].path => i < j
         /\ \A o \in Ops : Announced(o) => Announced(o)'
<1>1. \A k \in 1..Len(inbox) : inbox[k].path \in Ops
  <2>1. \A k \in 1..Len(inbox) : inbox[k] \in Signal
    BY ElementOfSeq DEF TypeOK
  <2>2. QED
    BY <2>1 DEF Signal, Paths
<1>2. Len(inbox) \in Nat /\ Len(inbox') \in Nat
  BY InboxLen, LenProperties DEF Grows
<1>3. \A k \in 1..Len(inbox) : k \in 1..Len(inbox') /\ inbox'[k] = inbox[k]
  BY <1>2 DEF Grows
<1>4. \A k \in 1..Len(inbox') : inbox'[k].name = "TaskAdded" =>
        k \in 1..Len(inbox) /\ inbox'[k] = inbox[k]
  BY DEF Grows
<1>5. \A o \in Ops : Announced(o) => Announced(o)'
  BY <1>3 DEF Announced
<1>6. \A k \in 1..Len(inbox') : inbox'[k].name = "TaskAdded" =>
        request'[inbox'[k].path] = "accepted" /\ Waiting(inbox'[k].path)
  BY <1>1, <1>4 DEF Order
<1>7. \A k, l \in 1..Len(inbox') :
        k < l /\ inbox'[k].name = "TaskAdded" /\ inbox'[l].name = "TaskAdded" =>
          \A i, j \in 1..Len(pending) :
            pending[i] = inbox'[k].path /\ pending[j] = inbox'[l].path => i < j
  BY <1>4 DEF Order
<1>8. QED
  BY <1>5, <1>6, <1>7

\* Steps that change neither the queue nor the call, nor accept a request.
LEMMA OrderStays ==
  ASSUME TypeOK, TypeOK', Order, Grows, Foreign = {},
         UNCHANGED <<pending, calling, request>>
  PROVE  Order'
<1>1. inbox' \in Seq(Signal)
  BY DEF TypeOK
<1>2. \A o \in Ops : Waiting(o)' <=> Waiting(o)
  BY DEF Waiting
<1>3. QED
  BY <1>1, <1>2, OrderGrows DEF Order, Waiting

\* A signal that announces no task is dispatched.
LEMMA OrderDispatch ==
  ASSUME TypeOK, Order, NextSignal, Head(inbox).name # "TaskAdded",
         UNCHANGED <<pending, calling, request>>
  PROVE  Order'
<1>1. /\ Len(inbox) \in Nat \ {0} /\ Len(inbox') = Len(inbox) - 1
      /\ \A k \in 1..Len(inbox') : inbox'[k] = inbox[k + 1]
      /\ inbox[1].name # "TaskAdded"
  BY DispatchInbox
<1>2. \A k \in 1..Len(inbox') : k + 1 \in 1..Len(inbox)
  BY <1>1
<1>3. \A k \in 1..Len(inbox) : k # 1 => k - 1 \in 1..Len(inbox') /\ inbox'[k - 1] = inbox[k]
  BY <1>1
<1>4. \A o \in Ops : Announced(o) => Announced(o)'
  <2>1. SUFFICES ASSUME NEW o \in Ops, NEW k \in 1..Len(inbox),
                        inbox[k].name = "TaskAdded", inbox[k].path = o
                 PROVE  Announced(o)'
    BY DEF Announced
  <2>2. QED
    BY <1>1, <1>3, <2>1 DEF Announced
<1>5. \A o \in Ops : Waiting(o)' <=> Waiting(o)
  BY DEF Waiting
<1>6. \A k \in 1..Len(inbox') : inbox'[k].name = "TaskAdded" =>
        request[inbox'[k].path] = "accepted" /\ Waiting(inbox'[k].path)
  BY <1>1, <1>2 DEF Order
<1>7. \A k, l \in 1..Len(inbox') :
        k < l /\ inbox'[k].name = "TaskAdded" /\ inbox'[l].name = "TaskAdded" =>
          \A i, j \in 1..Len(pending) :
            pending[i] = inbox'[k].path /\ pending[j] = inbox'[l].path => i < j
  <2>1. SUFFICES ASSUME NEW k \in 1..Len(inbox'), NEW l \in 1..Len(inbox'), k < l,
                        inbox'[k].name = "TaskAdded", inbox'[l].name = "TaskAdded",
                        NEW i \in 1..Len(pending), NEW j \in 1..Len(pending),
                        pending[i] = inbox'[k].path, pending[j] = inbox'[l].path
                 PROVE  i < j
    OBVIOUS
  <2>2. k + 1 \in 1..Len(inbox) /\ l + 1 \in 1..Len(inbox) /\ k + 1 < l + 1
    BY <1>2, <2>1
  <2>3. QED
    BY <1>1, <2>1, <2>2, SMTT(30) DEF Order
<1>8. QED
  BY <1>4, <1>5, <1>6, <1>7 DEF Order, Waiting

\* The task announced first is that of the oldest queued request.
LEMMA OldestFirst ==
  ASSUME TypeOK, Bookkeeping, Order, Dispatch("TaskAdded")
  PROVE  pending # <<>> /\ Head(pending) = Head(inbox).path
<1>1. /\ Len(inbox) \in Nat \ {0} /\ Head(inbox) = inbox[1] /\ calling = None
      /\ inbox[1].name = "TaskAdded" /\ 1 \in 1..Len(inbox)
  BY DispatchInbox DEF Dispatch
<1>2. Waiting(inbox[1].path)
  BY <1>1 DEF Order
<1>3. PICK i \in 1..Len(pending) : pending[i] = inbox[1].path
  BY <1>2 DEF Waiting
<1>4. pending \in Seq(Ops) /\ Len(pending) \in Nat
  BY LenProperties DEF TypeOK
<1>5. pending # <<>>
  BY <1>3
<1>6. Head(pending) = pending[1] /\ pending[1] \in Ops /\ 1 \in 1..Len(pending)
  BY <1>4, <1>5, PopProperties
<1>7. Announced(pending[1])
  <2>1. Waiting(pending[1])
    BY <1>6 DEF Waiting
  <2>2. pending[1] # calling
    BY <1>1, <1>6, ConstantsAssumption DEF Paths
  <2>3. QED
    BY <1>6, <2>1, <2>2 DEF Order
<1>8. PICK k \in 1..Len(inbox) : inbox[k].name = "TaskAdded" /\ inbox[k].path = pending[1]
  BY <1>7 DEF Announced
<1>9. k = 1
  <2>1. SUFFICES ASSUME k # 1 PROVE FALSE
    OBVIOUS
  <2>2. 1 < k
    BY <1>1, <2>1
  <2>3. i < 1
    BY <1>1, <1>3, <1>6, <1>8, <2>2 DEF Order
  <2>4. QED
    BY <1>3, <1>4, <2>3
<1>10. QED
  BY <1>1, <1>5, <1>6, <1>8, <1>9

\* It is dispatched and its callback leaves the queue.
LEMMA OrderPop ==
  ASSUME TypeOK, Bookkeeping, Order, Dispatch("TaskAdded"), pending # <<>>,
         pending' = PendingPop(pending), UNCHANGED <<calling, request>>, Foreign = {}
  PROVE  Order'
<1>1. /\ Len(inbox) \in Nat \ {0} /\ Len(inbox') = Len(inbox) - 1
      /\ \A k \in 1..Len(inbox') : inbox'[k] = inbox[k + 1]
      /\ inbox[1].name = "TaskAdded" /\ inbox[1].path = Head(pending)
      /\ calling = None
  BY DispatchInbox, OldestFirst DEF Dispatch
<1>2. /\ pending \in Seq(Ops) /\ Len(pending) \in Nat /\ Len(pending') = Len(pending) - 1
      /\ \A i \in 1..Len(pending') : pending'[i] = pending[i + 1]
      /\ Head(pending) = pending[1] /\ 1 \in 1..Len(pending)
  BY LenProperties, PopProperties DEF TypeOK
<1>3. \A o \in Ops : Waiting(o)' <=> Waiting(o) /\ o # Head(pending)
  BY PopWaiting
<1>4. \A k \in 1..Len(inbox') : 1 \in 1..Len(inbox) /\ k + 1 \in 1..Len(inbox) /\ 1 < k + 1
  BY <1>1
<1>5. \A i \in 1..Len(pending') : i + 1 \in 1..Len(pending)
  BY <1>2
<1>6. \A k \in 1..Len(inbox) : inbox[k].path \in Ops
  <2>1. \A k \in 1..Len(inbox) : inbox[k] \in Signal
    BY ElementOfSeq DEF TypeOK
  <2>2. QED
    BY <2>1 DEF Signal, Paths
<1>7. ASSUME NEW k \in 1..Len(inbox'), inbox'[k].name = "TaskAdded"
      PROVE  /\ request'[inbox'[k].path] = "accepted"
             /\ \E i \in 1..Len(pending') : pending'[i] = inbox'[k].path
  <2>1. PICK o \in Ops : o = inbox[k + 1].path /\ inbox'[k].path = o
    BY <1>1, <1>4, <1>6, <1>7
  <2>2. request[o] = "accepted" /\ Waiting(o) /\ inbox[k + 1].name = "TaskAdded"
    BY <1>1, <1>4, <1>7, <2>1 DEF Order
  <2>3. o # Head(pending)
    <3>1. SUFFICES ASSUME o = pending[1] PROVE FALSE
      BY <1>2
    <3>2. 1 < 1
      BY <1>1, <1>2, <1>4, <2>1, <2>2, <3>1 DEF Order
    <3>3. QED
      BY <3>2
  <2>4. Waiting(o)'
    BY <1>3, <2>2, <2>3
  <2>5. QED
    BY <2>1, <2>2, <2>4 DEF Waiting
<1>8. \A k, l \in 1..Len(inbox') :
        k < l /\ inbox'[k].name = "TaskAdded" /\ inbox'[l].name = "TaskAdded" =>
          \A i, j \in 1..Len(pending') :
            pending'[i] = inbox'[k].path /\ pending'[j] = inbox'[l].path => i < j
  <2>1. SUFFICES ASSUME NEW k \in 1..Len(inbox'), NEW l \in 1..Len(inbox'), k < l,
                        inbox'[k].name = "TaskAdded", inbox'[l].name = "TaskAdded",
                        NEW i \in 1..Len(pending'), NEW j \in 1..Len(pending'),
                        pending'[i] = inbox'[k].path, pending'[j] = inbox'[l].path
                 PROVE  i < j
    OBVIOUS
  <2>2. /\ k + 1 \in 1..Len(inbox) /\ l + 1 \in 1..Len(inbox)
        /\ inbox[k + 1] = inbox'[k] /\ inbox[l + 1] = inbox'[l]
    BY <1>1, <1>4, <2>1
  <2>3. /\ i + 1 \in 1..Len(pending) /\ j + 1 \in 1..Len(pending)
        /\ pending[i + 1] = pending'[i] /\ pending[j + 1] = pending'[j]
    BY <1>2, <1>5, <2>1
  <2>4. k \in Int /\ l \in Int /\ i \in Int /\ j \in Int /\ k + 1 < l + 1
    BY <2>1
  <2>5. i + 1 < j + 1
    BY <2>1, <2>2, <2>3, <2>4, SMTT(30) DEF Order
  <2>6. QED
    BY <2>4, <2>5
<1>9. \A o \in Ops : Waiting(o)' =>
        Announced(o)' \/ (o = calling' /\ request'[o] # "accepted")
  <2>1. SUFFICES ASSUME NEW o \in Ops, Waiting(o)' PROVE Announced(o)'
    OBVIOUS
  <2>2. Waiting(o) /\ o # Head(pending)
    BY <1>3, <2>1
  <2>3. o # calling
    BY <1>1, ConstantsAssumption DEF Paths
  <2>4. PICK k \in 1..Len(inbox) : inbox[k].name = "TaskAdded" /\ inbox[k].path = o
    BY <2>2, <2>3 DEF Order, Announced
  <2>5. k # 1
    BY <1>1, <2>2, <2>4
  <2>6. k - 1 \in 1..Len(inbox') /\ inbox'[k - 1] = inbox[k]
    BY <1>1, <2>5
  <2>7. QED
    BY <2>4, <2>6 DEF Announced
<1>10. \A o \in Ops : request'[o] = "sent" => o = calling'
  BY DEF Order
<1>11. QED
  BY <1>7, <1>8, <1>9, <1>10 DEF Order, Waiting

\* The daemon accepts the request whose call is in progress, the newest one.
LEMMA OrderAccept ==
  ASSUME TypeOK, Bookkeeping, NoneForgotten, Order, NEW c \in Ops, DaemonAccept(c),
         Foreign = {}
  PROVE  Order'
<1> DEFINE sig == [name |-> "TaskAdded", path |-> c, state |-> "Queued"]
<1>1. /\ request[c] = "sent" /\ request' = [request EXCEPT ![c] = "accepted"]
      /\ UNCHANGED <<pending, calling>> /\ inbox' = Append(inbox, sig)
  BY DEF DaemonAccept, CreateTask, Emit, Subscribed, client
<1>2. sig \in Signal
  BY DEF Signal, SignalName, TaskState, Paths
<1>3. /\ Len(inbox) \in Nat
      /\ Len(inbox') = Len(inbox) + 1
      /\ \A k \in 1..Len(inbox) : inbox'[k] = inbox[k]
      /\ inbox'[Len(inbox) + 1] = sig
  BY <1>1, <1>2, AppendProperties, InboxLen DEF TypeOK
<1>4. c = calling /\ calling # None /\ ended[c] = "open" /\ ~Bound(c)
  BY <1>1, ConstantsAssumption DEF Order, Bookkeeping, Paths
<1>5. Waiting(c) /\ pending[Len(pending)] = c
  BY <1>1, <1>4 DEF NoneForgotten, Bookkeeping
<1>6. \A o \in Ops : Waiting(o)' <=> Waiting(o)
  BY <1>1 DEF Waiting
<1>7. \A k \in 1..Len(inbox) : inbox[k].path \in Ops
  <2>1. \A k \in 1..Len(inbox) : inbox[k] \in Signal
    BY ElementOfSeq DEF TypeOK
  <2>2. QED
    BY <2>1 DEF Signal, Paths
<1>8. \A k \in 1..Len(inbox') : k \in 1..Len(inbox) \/ k = Len(inbox) + 1
  BY <1>3
<1>9. \A k \in 1..Len(inbox') : inbox'[k].name = "TaskAdded" =>
        request'[inbox'[k].path] = "accepted" /\ Waiting(inbox'[k].path)
  <2>1. request'[c] = "accepted" /\ \A o \in Ops : request[o] = "accepted" => request'[o] = "accepted"
    BY <1>1 DEF TypeOK
  <2>2. QED
    BY <1>3, <1>5, <1>7, <1>8, <2>1 DEF Order
<1>10. \A k, l \in 1..Len(inbox') :
        k < l /\ inbox'[k].name = "TaskAdded" /\ inbox'[l].name = "TaskAdded" =>
          \A i, j \in 1..Len(pending) :
            pending[i] = inbox'[k].path /\ pending[j] = inbox'[l].path => i < j
  <2>1. SUFFICES ASSUME NEW k \in 1..Len(inbox'), NEW l \in 1..Len(inbox'), k < l,
                        inbox'[k].name = "TaskAdded", inbox'[l].name = "TaskAdded",
                        NEW i \in 1..Len(pending), NEW j \in 1..Len(pending),
                        pending[i] = inbox'[k].path, pending[j] = inbox'[l].path
                 PROVE  i < j
    OBVIOUS
  <2>2. k \in 1..Len(inbox) /\ inbox'[k] = inbox[k]
    BY <1>3, <1>8, <2>1
  <2>3. CASE l \in 1..Len(inbox)
    BY <1>3, <2>1, <2>2, <2>3 DEF Order
  <2>4. CASE l = Len(inbox) + 1
    <3>1. pending[j] = c
      BY <1>3, <2>1, <2>4
    <3>2. request[inbox[k].path] = "accepted"
      BY <2>1, <2>2 DEF Order
    <3>3. pending[i] # c
      BY <1>1, <2>1, <2>2, <3>2
    <3>4. Len(pending) \in Nat
      BY LenProperties DEF TypeOK
    <3>5. j = Len(pending)
      BY <1>5, <2>1, <3>1, <3>4 DEF Bookkeeping, OneHome
    <3>6. QED
      BY <2>1, <3>1, <3>3, <3>4, <3>5
  <2>5. QED
    BY <1>8, <2>3, <2>4
<1>11. \A o \in Ops : Waiting(o) => Announced(o)'
  <2>1. SUFFICES ASSUME NEW o \in Ops, Waiting(o) PROVE Announced(o)'
    OBVIOUS
  <2>2. CASE o = c
    BY <1>3, <2>2 DEF Announced
  <2>3. CASE o # c
    <3>1. PICK k \in 1..Len(inbox) : inbox[k].name = "TaskAdded" /\ inbox[k].path = o
      BY <1>4, <2>1, <2>3 DEF Order, Announced
    <3>2. k \in 1..Len(inbox') /\ inbox'[k] = inbox[k]
      BY <1>3
    <3>3. QED
      BY <3>1, <3>2 DEF Announced
  <2>4. QED
    BY <2>2, <2>3
<1>12. \A o \in Ops : request'[o] = "sent" => o = calling'
  BY <1>1 DEF TypeOK, Order
<1>13. QED
  BY <1>1, <1>6, <1>9, <1>10, <1>11, <1>12 DEF Order, Waiting

\* The paths of the inbox are those of requests.
LEMMA InboxPaths ==
  ASSUME TypeOK, Foreign = {}
  PROVE  \A k \in 1..Len(inbox) : inbox[k].path \in Ops
<1>1. \A k \in 1..Len(inbox) : inbox[k] \in Signal
  BY ElementOfSeq DEF TypeOK
<1>2. QED
  BY <1>1 DEF Signal, Paths

\* A new request is queued behind the announced ones.
LEMMA OrderCall ==
  ASSUME TypeOK, Bookkeeping, Order, NEW c \in Ops, RequestCall(c),
         Foreign = {}, "oom" \notin Faults
  PROVE  Order'
<1> DEFINE q == PendingPush(pending, c)
<1>1. /\ calling = None /\ request[c] = "new" /\ calling' = c
      /\ request' = [request EXCEPT ![c] = "sent"] /\ UNCHANGED inbox
  BY DEF RequestCall, Idle, IsNew
<1>2. pending' = q
  BY DEF RequestCall
<1>3. pending \in Seq(Ops)
  BY DEF TypeOK
<1>4. /\ Len(pending) \in Nat /\ Len(q) = Len(pending) + 1
      /\ \A k \in 1..Len(pending) : q[k] = pending[k]
      /\ q[Len(pending) + 1] = c
  BY <1>3, PushProperties
<1>5. \A o \in Ops : Waiting(o)' <=> Waiting(o) \/ o = c
  BY CallBookkeeping
<1>6. \A o \in Ops : o # c => request'[o] = request[o]
  BY <1>1 DEF TypeOK
<1>7. request'[c] = "sent" /\ \A o \in Ops : o # calling
  BY <1>1, ConstantsAssumption DEF TypeOK, Paths
<1>8. ASSUME NEW k \in 1..Len(inbox), inbox[k].name = "TaskAdded"
      PROVE  /\ inbox[k].path # c /\ request'[inbox[k].path] = "accepted"
             /\ \E i \in 1..Len(pending') : pending'[i] = inbox[k].path
  <2>1. PICK o \in Ops : o = inbox[k].path
    BY InboxPaths
  <2>2. request[o] = "accepted" /\ Waiting(o)
    BY <1>8, <2>1 DEF Order
  <2>3. o # c /\ request'[o] = "accepted" /\ Waiting(o)'
    BY <1>1, <1>5, <1>6, <2>2
  <2>4. QED
    BY <2>1, <2>3 DEF Waiting
<1>9. ASSUME NEW k \in 1..Len(inbox), NEW l \in 1..Len(inbox), k < l,
             inbox[k].name = "TaskAdded", inbox[l].name = "TaskAdded",
             NEW i \in 1..Len(q), NEW j \in 1..Len(q),
             q[i] = inbox[k].path, q[j] = inbox[l].path
      PROVE  i < j
  <2>1. q[i] # c /\ q[j] # c
    BY <1>8, <1>9
  <2>2. i \in 1..Len(pending) /\ j \in 1..Len(pending)
    BY <1>4, <2>1
  <2>3. QED
    BY <1>4, <1>9, <2>2 DEF Order
<1>10. \A o \in Ops : Waiting(o)' =>
         Announced(o)' \/ (o = calling' /\ request'[o] # "accepted")
  BY <1>1, <1>5, <1>7 DEF Order, Announced
<1>11. \A o \in Ops : request'[o] = "sent" => o = calling'
  BY <1>1, <1>6, <1>7 DEF Order
<1>12. QED
  BY <1>1, <1>2, <1>8, <1>9, <1>10, <1>11 DEF Order, Waiting

\* A rejected request was the newest of the queue and was not announced.
LEMMA OrderFail ==
  ASSUME TypeOK, Bookkeeping, NoneForgotten, Order, CallFails,
         Foreign = {}, "timeout" \notin Faults
  PROVE  Order'
<1>1. /\ calling # None /\ calling \in Ops /\ request[calling] = "rejected"
      /\ pending' = PendingPopTail(pending) /\ UNCHANGED <<inbox, request>> /\ calling' = None
  BY DEF CallFails, TypeOK, daemon
<1>2. Waiting(calling)
  BY <1>1 DEF NoneForgotten, Bookkeeping
<1>3. \A o \in Ops : Waiting(o)' <=> Waiting(o) /\ o # calling
  BY <1>1, <1>2, PopTailWaiting
<1>4. \A i \in 1..Len(pending') : i \in 1..Len(pending) /\ pending'[i] = pending[i]
  <2>1. pending \in Seq(Ops) /\ Len(pending) \in Nat
    BY LenProperties DEF TypeOK
  <2>2. /\ Len(pending') = IF pending = <<>> THEN 0 ELSE Len(pending) - 1
        /\ \A i \in 1..Len(pending') : pending'[i] = pending[i]
    BY <1>1, <2>1, PopTailProperties
  <2>3. QED
    BY <2>1, <2>2
<1>5. ASSUME NEW k \in 1..Len(inbox), inbox[k].name = "TaskAdded"
      PROVE  /\ request[inbox[k].path] = "accepted"
             /\ \E i \in 1..Len(pending') : pending'[i] = inbox[k].path
  <2>1. PICK o \in Ops : o = inbox[k].path
    BY InboxPaths
  <2>2. request[o] = "accepted" /\ Waiting(o)
    BY <1>5, <2>1 DEF Order
  <2>3. Waiting(o)'
    BY <1>1, <1>3, <2>2
  <2>4. QED
    BY <2>1, <2>2, <2>3 DEF Waiting
<1>6. \A k, l \in 1..Len(inbox) :
        k < l /\ inbox[k].name = "TaskAdded" /\ inbox[l].name = "TaskAdded" =>
          \A i, j \in 1..Len(pending') :
            pending'[i] = inbox[k].path /\ pending'[j] = inbox[l].path => i < j
  BY <1>4 DEF Order
<1>7. \A o \in Ops : Waiting(o)' => Announced(o)'
  BY <1>1, <1>3 DEF Order, Announced
<1>8. \A o \in Ops : request[o] # "sent"
  BY <1>1 DEF Order
<1>9. QED
  BY <1>1, <1>5, <1>6, <1>7, <1>8 DEF Order, Waiting

-----------------------------------------------------------------------------
(* Every step *)

LEMMA OrderStep ==
  ASSUME Alone, Inv, Inv', NoneForgotten, Order, [Next]_vars
  PROVE  Order'
<1>0. /\ TypeOK /\ TypeOK' /\ Bookkeeping
      /\ Foreign = {} /\ "timeout" \notin Faults /\ "oom" \notin Faults
  BY DEF Inv, Alone
<1>1. ASSUME UNCHANGED <<pending, calling, request, inbox>> PROVE Order'
  BY <1>0, <1>1, SameInboxGrows, OrderStays
<1>2. CASE UNCHANGED vars
  BY <1>1, <1>2 DEF vars, client, daemon
<1>3. ASSUME NEW o \in Ops, RequestInvalid(o) PROVE Order'
  BY <1>1, <1>3 DEF RequestInvalid, client, daemon
<1>4. ASSUME NEW o \in Ops, RequestCall(o) PROVE Order'
  BY <1>0, <1>4, OrderCall
<1>5. CASE CallSucceeds
  <2>1. /\ request[calling] = "accepted" /\ calling' = None
        /\ UNCHANGED <<pending, inbox, request>>
    BY <1>5 DEF CallSucceeds, daemon
  <2>2. \A o \in Ops : (Waiting(o)' <=> Waiting(o)) /\ (Announced(o)' <=> Announced(o))
    BY <2>1 DEF Waiting, Announced
  <2>3. QED
    BY <2>1, <2>2 DEF Order, Waiting
<1>6. CASE CallFails
  BY <1>0, <1>6, OrderFail
<1>7. CASE OnTaskAdded
  BY <1>0, <1>7, OrderPop DEF OnTaskAdded, daemon
<1>8. CASE OnTaskAddedUnclaimed
  BY <1>0, <1>8, OldestFirst DEF OnTaskAddedUnclaimed
<1>9. CASE OnTaskAddedRefused
  BY <1>0, <1>9, OrderPop DEF OnTaskAddedRefused, daemon
<1>10. CASE SubscribeInteraction
  BY <1>1, <1>10 DEF SubscribeInteraction, daemon
<1>11. CASE SubscribeInteractionFails
  BY <1>1, <1>11 DEF SubscribeInteractionFails, daemon
<1>12. CASE ReadInitialProperties
  BY <1>1, <1>12 DEF ReadInitialProperties, daemon
<1>13. CASE OnPropertiesChanged
  BY <1>0, <1>13, OrderDispatch DEF OnPropertiesChanged, Dispatch, daemon
<1>14. CASE OnRequestInteraction
  BY <1>0, <1>14, OrderDispatch DEF OnRequestInteraction, Dispatch, client
<1>15. CASE OnTaskRemoved
  BY <1>0, <1>15, OrderDispatch DEF OnTaskRemoved, Dispatch, daemon
<1>16. CASE OnUnboundSignal
  BY <1>0, <1>16, OrderDispatch DEF OnUnboundSignal, client, daemon
<1>17. ASSUME NEW o \in Ops, DaemonAccept(o) PROVE Order'
  BY <1>0, <1>17, OrderAccept
<1>18. ASSUME NEW o \in Ops, DaemonReject(o) PROVE Order'
  <2>1. /\ request[o] = "sent" /\ request' = [request EXCEPT ![o] = "rejected"]
        /\ UNCHANGED <<pending, calling, inbox>>
    BY <1>18 DEF DaemonReject, client
  <2>2. \A r \in Ops : r # o => request'[r] = request[r]
    BY <1>0, <2>1 DEF TypeOK
  <2>3. request'[o] = "rejected"
    BY <1>0, <2>1 DEF TypeOK
  <2>4. \A r \in Ops : (Waiting(r)' <=> Waiting(r)) /\ (Announced(r)' <=> Announced(r))
    BY <2>1 DEF Waiting, Announced
  <2>5. \A k \in 1..Len(inbox) : inbox[k].name = "TaskAdded" =>
          request'[inbox[k].path] = "accepted"
    BY <1>0, <2>1, <2>2, InboxPaths DEF Order
  <2>6. QED
    BY <2>1, <2>2, <2>3, <2>4, <2>5 DEF Order, Waiting
<1>19. ASSUME NEW p \in Paths, NEW name \in SignalName \ {"TaskAdded"}, NEW s \in TaskState,
              Emit(name, p, s), UNCHANGED <<client, request>>
       PROVE  Order'
  BY <1>0, <1>19, EmitGrows, OrderStays DEF client
<1>20. /\ {"PropertiesChanged", "RequestInteraction", "TaskRemoved"}
            \subseteq SignalName \ {"TaskAdded"}
       /\ {"Processing", "Canceled"} \cup Outcomes \subseteq TaskState
  BY ConstantsAssumption DEF SignalName, TaskState, Terminal
<1>21. ASSUME NEW p \in Paths, CancelTask(p) \/ DaemonStart(p) \/ DaemonAsk(p)
       PROVE  Order'
  BY <1>19, <1>20, <1>21 DEF CancelTask, DaemonStart, DaemonAsk
<1>22. ASSUME NEW p \in Paths, DaemonRemove(p) PROVE Order'
  <2>1. task[p] \in TaskState
    BY <1>0 DEF TypeOK
  <2>2. QED
    BY <1>19, <1>20, <1>22, <2>1 DEF DaemonRemove
<1>23. ASSUME NEW p \in Paths, NEW s \in Outcomes, DaemonFinish(p, s) PROVE Order'
  BY <1>19, <1>20, <1>23 DEF DaemonFinish
<1>24. QED
  BY <1>0, <1>2, <1>3, <1>4, <1>5, <1>6, <1>7, <1>8, <1>9, <1>10, <1>11, <1>12, <1>13,
     <1>14, <1>15, <1>16, <1>17, <1>18, <1>21, <1>22, <1>23
  DEF Next, Process

\* A slot is bound when the task of its own request is dispatched, and keeps both.
LEMMA BindsOwnStep ==
  ASSUME Inv, Order, BindsOwn, [Next]_vars
  PROVE  BindsOwn'
<1>0. TypeOK /\ Bookkeeping
  BY DEF Inv
<1>1. ASSUME \A i \in Slots : tasks'[i].path = tasks[i].path /\ tasks'[i].op = tasks[i].op
      PROVE  BindsOwn'
  BY <1>1 DEF BindsOwn, Active
<1>2. ASSUME NEW i \in Slots, tasks' = [tasks EXCEPT ![i] = ClearedTask] PROVE BindsOwn'
  BY <1>0, <1>2 DEF BindsOwn, Active, ClearedTask, TypeOK
<1>3. CASE UNCHANGED tasks
  BY <1>1, <1>3
<1>4. CASE OnTaskAdded
  <2>1. PICK i \in Slots :
          tasks' = [tasks EXCEPT ![i] = BoundEntry(Head(pending), Head(inbox).path)]
    BY <1>4 DEF OnTaskAdded
  <2>2. Head(pending) = Head(inbox).path
    BY <1>0, <1>4, OldestFirst DEF OnTaskAdded
  <2>3. QED
    BY <1>0, <2>1, <2>2 DEF BindsOwn, Active, BoundEntry, TypeOK
<1>5. CASE SubscribeInteraction
  BY <1>0, <1>1, <1>5, OpeningSlot DEF SubscribeInteraction, TypeOK, Entry
<1>6. CASE SubscribeInteractionFails
  BY <1>0, <1>2, <1>6, OpeningSlot DEF SubscribeInteractionFails
<1>7. CASE ReadInitialProperties
  BY <1>0, <1>1, <1>7, OpeningSlot DEF ReadInitialProperties, TypeOK, Entry
<1>8. CASE OnPropertiesChanged
  <2>1. PICK i \in Slots : tasks' = [tasks EXCEPT ![i].state = Head(inbox).state]
    BY <1>8 DEF OnPropertiesChanged
  <2>2. QED
    BY <1>0, <1>1, <2>1 DEF TypeOK, Entry
<1>9. CASE OnTaskRemoved
  BY <1>2, <1>9 DEF OnTaskRemoved
<1>10. \/ UNCHANGED tasks
       \/ OnTaskAdded \/ SubscribeInteraction \/ SubscribeInteractionFails
       \/ ReadInitialProperties \/ OnPropertiesChanged \/ OnTaskRemoved
  BY DEF Next, Process, vars, client, RequestInvalid, RequestCall, CallSucceeds, CallFails,
         OnTaskAddedUnclaimed, OnTaskAddedRefused, OnRequestInteraction, OnUnboundSignal,
         DaemonAccept, DaemonReject, DaemonForeign, CancelTask, DaemonStart, DaemonAsk,
         DaemonRemove, DaemonFinish
<1>11. QED
  BY <1>3, <1>4, <1>5, <1>6, <1>7, <1>8, <1>9, <1>10

LEMMA OrderInit == Init => Order /\ BindsOwn
<1> SUFFICES ASSUME Init PROVE Order /\ BindsOwn
  OBVIOUS
<1>1. 1..Len(pending) = {} /\ 1..Len(inbox) = {}
  BY DEF Init
<1>2. QED
  BY <1>1 DEF Init, Order, BindsOwn, Waiting, Active, ClearedTask

\* Every slot follows the task of the request whose callback it holds, provided
\* the daemon serves no other client, no call times out and no allocation of
\* pending_push fails: matching tasks to requests by order is right exactly there.
THEOREM BindsOwnHolds == ASSUME Alone PROVE Spec => []BindsOwn
<1>1. "oom" \notin Faults
  BY DEF Alone
<1>2. Spec => []NoneForgotten
  BY <1>1, NoneForgottenHolds
<1>3. Inv /\ Inv' /\ NoneForgotten /\ Order /\ BindsOwn /\ [Next]_vars => Order' /\ BindsOwn'
  BY OrderStep, BindsOwnStep
<1>4. QED
  BY <1>2, <1>3, OrderInit, InvHolds, PTL DEF Spec

-----------------------------------------------------------------------------
(* The last word *)

\* A signal that the state of the task p changed.
IsChange(s, p) == s.name = "PropertiesChanged" /\ s.path = p

\* No such signal is on its way.
NoChange(p) == \A k \in 1..Len(inbox) : ~IsChange(inbox[k], p)

\* The last one on its way has the state the task is in.
LastChange(p) ==
  \A k \in 1..Len(inbox) :
    IsChange(inbox[k], p) /\ (\A l \in (k + 1)..Len(inbox) : ~IsChange(inbox[l], p)) =>
      inbox[k].state = task[p]

\* The daemon says nothing of a task before it announces it, nor of its state
\* after it was removed.
SignalsOK ==
  /\ \A o \in Ops : task[o] # "Unknown" => request[o] = "accepted"
  /\ \A p \in removed : task[p] \in Terminal
  /\ \A o \in Ops : Announced(o) \/ request[o] # "accepted" => NoChange(o)
  /\ \A k \in 1..Len(inbox) : inbox[k].name = "TaskRemoved" =>
       /\ inbox[k].path \in removed
       /\ \A l \in (k + 1)..Len(inbox) : ~IsChange(inbox[l], inbox[k].path)

\* A slot that was read knows the state of its task or is about to hear it; one
\* that is being opened has told nothing yet.
SlotOK(i) ==
  /\ tasks[i].slot /\ request[tasks[i].op] = "accepted"
  /\ LastChange(tasks[i].path)
  /\ i = opening => tasks[i].state = "Unknown" /\ heard[tasks[i].op] = <<>>
  /\ i # opening => heard[tasks[i].op] # <<>>
  /\ i # opening /\ heard[tasks[i].op][1] # "Unknown" /\ NoChange(tasks[i].path) =>
       tasks[i].state = task[tasks[i].path]

SlotsOK == \A i \in Slots : Active(i) => SlotOK(i)

WordOK(o) ==
  /\ ended[o] = "open" /\ ~Bound(o) => heard[o] = <<>>
  /\ ended[o] = "finished" => task[o] \in Terminal
  /\ ended[o] = "finished" /\ heard[o][1] # "Unknown" => heard[o][Len(heard[o])] = task[o]

WordsOK == \A o \in Ops : WordOK(o)

LastInv == SignalsOK /\ SlotsOK /\ WordsOK

\* Dispatching a signal takes the first change away at most.
LEMMA ChangesDispatched ==
  ASSUME TypeOK, NextSignal, UNCHANGED task, NEW p
  PROVE  /\ NoChange(p) => NoChange(p)'
         /\ LastChange(p) => LastChange(p)'
         /\ NoChange(p)' /\ ~IsChange(Head(inbox), p) => NoChange(p)
         /\ NoChange(p)' /\ IsChange(Head(inbox), p) /\ LastChange(p) =>
              Head(inbox).state = task[p]
<1>1. /\ Len(inbox) \in Nat \ {0} /\ Len(inbox') = Len(inbox) - 1
      /\ \A k \in 1..Len(inbox') : inbox'[k] = inbox[k + 1]
      /\ Head(inbox) = inbox[1]
  BY DispatchInbox
<1>2. \A k \in 1..Len(inbox') : k + 1 \in 1..Len(inbox) /\ inbox'[k] = inbox[k + 1]
  BY <1>1
<1>3. \A k \in 1..Len(inbox) : k = 1 \/ (k - 1 \in 1..Len(inbox') /\ inbox'[k - 1] = inbox[k])
  BY <1>1
<1>4. NoChange(p) => NoChange(p)'
  BY <1>2 DEF NoChange
<1>5. ASSUME LastChange(p) PROVE LastChange(p)'
  <2>1. SUFFICES ASSUME NEW k \in 1..Len(inbox'), IsChange(inbox'[k], p),
                        \A l \in (k + 1)..Len(inbox') : ~IsChange(inbox'[l], p)
                 PROVE  inbox'[k].state = task[p]
    BY DEF LastChange
  <2>2. k + 1 \in 1..Len(inbox) /\ IsChange(inbox[k + 1], p)
    BY <1>2, <2>1
  <2>3. ASSUME NEW l \in (k + 1 + 1)..Len(inbox) PROVE ~IsChange(inbox[l], p)
    <3>1. l - 1 \in (k + 1)..Len(inbox') /\ l - 1 \in 1..Len(inbox') /\ l - 1 + 1 = l
      BY <1>1
    <3>2. inbox'[l - 1] = inbox[l]
      BY <1>2, <3>1
    <3>3. QED
      BY <2>1, <3>1, <3>2
  <2>4. inbox[k + 1].state = task[p]
    BY <1>5, <2>2, <2>3 DEF LastChange
  <2>5. QED
    BY <1>2, <2>1, <2>4
<1>6. ASSUME NoChange(p)', ~IsChange(Head(inbox), p) PROVE NoChange(p)
  BY <1>1, <1>3, <1>6 DEF NoChange
<1>7. ASSUME NoChange(p)', IsChange(Head(inbox), p), LastChange(p)
      PROVE  Head(inbox).state = task[p]
  <2>1. 1 \in 1..Len(inbox) /\ IsChange(inbox[1], p)
    BY <1>1, <1>7
  <2>2. ASSUME NEW l \in (1 + 1)..Len(inbox) PROVE ~IsChange(inbox[l], p)
    <3>1. l \in 1..Len(inbox) /\ l # 1
      BY <1>1
    <3>2. QED
      BY <1>3, <1>7, <3>1 DEF NoChange
  <2>3. QED
    BY <1>1, <1>7, <2>1, <2>2 DEF LastChange
<1>8. QED
  BY <1>4, <1>5, <1>6, <1>7

\* A signal that is sent is the last one.
LEMMA ChangesAppended ==
  ASSUME TypeOK, NEW sig \in Signal, inbox' = Append(inbox, sig), NEW p
  PROVE  /\ ~IsChange(sig, p) => (NoChange(p)' <=> NoChange(p))
         /\ ~IsChange(sig, p) /\ task'[p] = task[p] /\ LastChange(p) => LastChange(p)'
         /\ IsChange(sig, p) /\ sig.state = task'[p] => LastChange(p)' /\ ~NoChange(p)'
<1>1. /\ Len(inbox) \in Nat /\ Len(inbox') = Len(inbox) + 1
      /\ \A k \in 1..Len(inbox) : inbox'[k] = inbox[k]
      /\ inbox'[Len(inbox) + 1] = sig
  BY AppendProperties, InboxLen DEF TypeOK
<1>2. /\ \A k \in 1..Len(inbox) : k \in 1..Len(inbox') /\ inbox'[k] = inbox[k]
      /\ \A k \in 1..Len(inbox') : k \in 1..Len(inbox) \/ k = Len(inbox) + 1
      /\ Len(inbox) + 1 \in 1..Len(inbox')
  BY <1>1
<1>3. ~IsChange(sig, p) => (NoChange(p)' <=> NoChange(p))
  BY <1>1, <1>2 DEF NoChange
<1>4. ASSUME ~IsChange(sig, p), task'[p] = task[p], LastChange(p) PROVE LastChange(p)'
  <2>1. SUFFICES ASSUME NEW k \in 1..Len(inbox'), IsChange(inbox'[k], p),
                        \A l \in (k + 1)..Len(inbox') : ~IsChange(inbox'[l], p)
                 PROVE  inbox'[k].state = task'[p]
    BY DEF LastChange
  <2>2. k \in 1..Len(inbox) /\ inbox'[k] = inbox[k]
    BY <1>1, <1>2, <1>4, <2>1
  <2>3. ASSUME NEW l \in (k + 1)..Len(inbox) PROVE ~IsChange(inbox[l], p)
    <3>1. l \in (k + 1)..Len(inbox') /\ l \in 1..Len(inbox)
      BY <1>1, <2>2
    <3>2. QED
      BY <1>1, <2>1, <3>1
  <2>4. QED
    BY <1>4, <2>1, <2>2, <2>3 DEF LastChange
<1>5. ASSUME IsChange(sig, p), sig.state = task'[p] PROVE LastChange(p)' /\ ~NoChange(p)'
  <2>1. ~NoChange(p)'
    BY <1>1, <1>2, <1>5 DEF NoChange
  <2>2. SUFFICES ASSUME NEW k \in 1..Len(inbox'), IsChange(inbox'[k], p),
                        \A l \in (k + 1)..Len(inbox') : ~IsChange(inbox'[l], p)
                 PROVE  inbox'[k].state = task'[p]
    BY <2>1 DEF LastChange
  <2>3. k = Len(inbox) + 1
    <3>1. SUFFICES ASSUME k \in 1..Len(inbox) PROVE FALSE
      BY <1>2
    <3>2. Len(inbox) + 1 \in (k + 1)..Len(inbox')
      BY <1>1, <3>1
    <3>3. QED
      BY <1>1, <1>5, <2>2, <3>2
  <2>4. QED
    BY <1>1, <1>5, <2>3
<1>6. QED
  BY <1>3, <1>4, <1>5

LEMMA SignalsDispatched ==
  ASSUME TypeOK, SignalsOK, NextSignal, UNCHANGED <<task, removed, request>>
  PROVE  SignalsOK'
<1>1. /\ Len(inbox) \in Nat \ {0} /\ Len(inbox') = Len(inbox) - 1
      /\ \A k \in 1..Len(inbox') : inbox'[k] = inbox[k + 1]
  BY DispatchInbox
<1>2. \A k \in 1..Len(inbox') : k + 1 \in 1..Len(inbox) /\ inbox'[k] = inbox[k + 1]
  BY <1>1
<1>3. \A o \in Ops : Announced(o)' => Announced(o)
  BY <1>2 DEF Announced
<1>4. \A o \in Ops : NoChange(o) => NoChange(o)'
  BY ChangesDispatched
<1>5. ASSUME NEW k \in 1..Len(inbox'), inbox'[k].name = "TaskRemoved"
      PROVE  /\ inbox'[k].path \in removed
             /\ \A l \in (k + 1)..Len(inbox') : ~IsChange(inbox'[l], inbox'[k].path)
  <2>1. k + 1 \in 1..Len(inbox) /\ inbox[k + 1] = inbox'[k]
    BY <1>2
  <2>2. /\ inbox[k + 1].path \in removed
        /\ \A l \in (k + 1 + 1)..Len(inbox) : ~IsChange(inbox[l], inbox[k + 1].path)
    BY <1>5, <2>1 DEF SignalsOK
  <2>3. ASSUME NEW l \in (k + 1)..Len(inbox') PROVE ~IsChange(inbox'[l], inbox'[k].path)
    <3>1. l \in 1..Len(inbox') /\ l + 1 \in (k + 1 + 1)..Len(inbox)
      BY <1>1
    <3>2. QED
      BY <1>2, <2>1, <2>2, <3>1
  <2>4. QED
    BY <2>1, <2>2, <2>3
<1>6. QED
  BY <1>3, <1>4, <1>5 DEF SignalsOK

\* What a step may do to the inbox and to the state of the tasks.
LEMMA SignalsSent ==
  ASSUME TypeOK, SignalsOK,
         \A o \in Ops : task'[o] # "Unknown" => request'[o] = "accepted",
         \A o \in Ops : request'[o] # "accepted" => request[o] # "accepted",
         \A p \in removed' : task'[p] \in Terminal,
         removed \subseteq removed',
         NEW sig \in Signal,
         \/ UNCHANGED inbox
         \/ /\ inbox' = Append(inbox, sig)
            /\ sig.name = "PropertiesChanged" =>
                 /\ \A o \in Ops : IsChange(sig, o) =>
                      ~Announced(o) /\ request'[o] = "accepted"
                 /\ sig.path \notin removed
            /\ sig.name = "TaskAdded" => NoChange(sig.path)
            /\ sig.name = "TaskRemoved" => sig.path \in removed'
  PROVE  SignalsOK'
<1>1. CASE UNCHANGED inbox
  BY <1>1 DEF SignalsOK, Announced, NoChange
<1>2. CASE inbox' # inbox
  <2>1. /\ Len(inbox) \in Nat /\ Len(inbox') = Len(inbox) + 1
        /\ \A k \in 1..Len(inbox) : inbox'[k] = inbox[k]
        /\ inbox'[Len(inbox) + 1] = sig
    BY <1>2, AppendProperties, InboxLen DEF TypeOK
  <2>2. /\ \A k \in 1..Len(inbox) : k \in 1..Len(inbox') /\ inbox'[k] = inbox[k]
        /\ \A k \in 1..Len(inbox') : k \in 1..Len(inbox) \/ k = Len(inbox) + 1
    BY <2>1
  <2>3. ASSUME NEW o \in Ops, Announced(o)' \/ request'[o] # "accepted"
        PROVE  NoChange(o)'
    <3>1. CASE IsChange(sig, o)
      <4>1. sig.name = "PropertiesChanged" /\ ~Announced(o) /\ request'[o] = "accepted"
        BY <1>2, <3>1 DEF IsChange
      <4>2. Announced(o)' => Announced(o)
        BY <2>1, <2>2, <4>1 DEF Announced
      <4>3. QED
        BY <2>3, <4>1, <4>2
    <3>2. CASE ~IsChange(sig, o)
      <4>1. NoChange(o)' <=> NoChange(o)
        BY <1>2, <3>2, ChangesAppended
      <4>2. CASE Announced(o) \/ request'[o] # "accepted"
        BY <4>1, <4>2 DEF SignalsOK
      <4>3. CASE Announced(o)' /\ ~Announced(o)
        <5>1. PICK k \in 1..Len(inbox') : inbox'[k].name = "TaskAdded" /\ inbox'[k].path = o
          BY <4>3 DEF Announced
        <5>2. k = Len(inbox) + 1
          BY <2>2, <4>3, <5>1 DEF Announced
        <5>3. sig.name = "TaskAdded" /\ sig.path = o
          BY <2>1, <5>1, <5>2
        <5>4. QED
          BY <1>2, <4>1, <5>3
      <4>4. QED
        BY <2>3, <4>2, <4>3
    <3>3. QED
      BY <3>1, <3>2
  <2>4. ASSUME NEW k \in 1..Len(inbox'), inbox'[k].name = "TaskRemoved"
        PROVE  /\ inbox'[k].path \in removed'
               /\ \A l \in (k + 1)..Len(inbox') : ~IsChange(inbox'[l], inbox'[k].path)
    <3>1. CASE k = Len(inbox) + 1
      <4>1. (k + 1)..Len(inbox') = {} /\ inbox'[k] = sig
        BY <2>1, <3>1
      <4>2. QED
        BY <1>2, <2>4, <4>1
    <3>2. CASE k \in 1..Len(inbox)
      <4>1. /\ inbox[k].path \in removed
            /\ \A l \in (k + 1)..Len(inbox) : ~IsChange(inbox[l], inbox[k].path)
            /\ inbox'[k] = inbox[k]
        BY <2>1, <2>4, <3>2 DEF SignalsOK
      <4>2. ~IsChange(sig, inbox[k].path)
        BY <1>2, <4>1 DEF IsChange
      <4>3. ASSUME NEW l \in (k + 1)..Len(inbox') PROVE ~IsChange(inbox'[l], inbox[k].path)
        <5>1. CASE l = Len(inbox) + 1
          BY <2>1, <4>2, <5>1
        <5>2. CASE l \in (k + 1)..Len(inbox)
          <6>1. l \in 1..Len(inbox)
            BY <2>1, <3>2, <5>2
          <6>2. QED
            BY <2>1, <4>1, <5>2, <6>1
        <5>3. QED
          BY <2>1, <3>2, <5>1, <5>2
      <4>4. QED
        BY <4>1, <4>3
    <3>3. QED
      BY <2>2, <3>1, <3>2
  <2>5. QED
    BY <2>3, <2>4 DEF SignalsOK
<1>3. QED
  BY <1>1, <1>2

\* The slot that holds a callback follows the task of its own request, and no
\* task that is announced is followed yet.
LEMMA Followed ==
  ASSUME TypeOK, Bookkeeping, Order, BindsOwn
  PROVE  /\ \A i \in Slots : Active(i) =>
              tasks[i].path \in Ops /\ tasks[i].op = tasks[i].path
         /\ \A i, j \in Slots : Active(i) /\ Active(j) /\ tasks[i].path = tasks[j].path => i = j
         /\ \A i \in Slots : Active(i) => ~Announced(tasks[i].path)
<1>1. ASSUME NEW i \in Slots, Active(i)
      PROVE  tasks[i].path \in Ops /\ tasks[i].op = tasks[i].path
  BY <1>1, ActiveOp DEF BindsOwn
<1>2. \A i, j \in Slots : Active(i) /\ Active(j) /\ tasks[i].path = tasks[j].path => i = j
  BY <1>1 DEF Bookkeeping, OneHome
<1>3. ASSUME NEW i \in Slots, Active(i), Announced(tasks[i].path) PROVE FALSE
  <2>1. tasks[i].path \in Ops /\ tasks[i].op = tasks[i].path
    BY <1>1, <1>3
  <2>2. Waiting(tasks[i].path)
    BY <1>3 DEF Order, Announced
  <2>3. Bound(tasks[i].path)
    BY <2>1 DEF Bound
  <2>4. QED
    BY <2>1, <2>2, <2>3 DEF Bookkeeping, OneHome
<1>4. QED
  BY <1>1, <1>2, <1>3

\* What a slot needs to stay right.
LEMMA SlotKept ==
  ASSUME NEW i \in Slots, NEW p, p = tasks[i].path, SlotOK(i),
         UNCHANGED tasks[i], i = opening' <=> i = opening,
         heard'[tasks[i].op] = heard[tasks[i].op], request'[tasks[i].op] = "accepted",
         LastChange(p)', NoChange(p)' => NoChange(p) /\ task'[p] = task[p]
  PROVE  SlotOK(i)'
BY DEF SlotOK

\* A step of the daemon, or one that tells no callback anything.
LEMMA LastKept ==
  ASSUME SignalsOK', SlotsOK, WordsOK, UNCHANGED <<tasks, opening, heard, ended>>,
         \A o \in Ops : request[o] = "accepted" => request'[o] = "accepted",
         \A o \in Ops : task[o] \in Terminal => task'[o] = task[o],
         \A i \in Slots : Active(i) => tasks[i].op \in Ops,
         \A i \in Slots : Active(i) =>
           /\ LastChange(tasks[i].path)'
           /\ NoChange(tasks[i].path)' =>
                NoChange(tasks[i].path) /\ task'[tasks[i].path] = task[tasks[i].path]
  PROVE  LastInv'
<1>1. ASSUME NEW i \in Slots, Active(i)' PROVE SlotOK(i)'
  <2>1. Active(i) /\ SlotOK(i) /\ tasks[i].op \in Ops
    BY <1>1 DEF Active, SlotsOK
  <2>2. PICK p : p = tasks[i].path
    OBVIOUS
  <2>3. LastChange(p)' /\ (NoChange(p)' => NoChange(p) /\ task'[p] = task[p])
    BY <2>1, <2>2
  <2>4. request'[tasks[i].op] = "accepted"
    BY <2>1 DEF SlotOK
  <2>5. QED
    BY <2>1, <2>2, <2>3, <2>4, SlotKept
<1>2. ASSUME NEW o \in Ops PROVE WordOK(o)'
  <2>1. WordOK(o) /\ (Bound(o)' <=> Bound(o))
    BY DEF WordsOK, Bound
  <2>2. QED
    BY <2>1 DEF WordOK
<1>3. QED
  BY <1>1, <1>2 DEF LastInv, SlotsOK, WordsOK

\* A task moves on, and its slot, if it has one, will hear of it.
LEMMA ChangeSent ==
  ASSUME TypeOK, Bookkeeping, Order, BindsOwn, LastInv, Foreign = {},
         NEW p \in Paths, NEW s \in TaskState, task[p] \notin Terminal,
         request[p] = "accepted",
         task' = [task EXCEPT ![p] = s], Emit("PropertiesChanged", p, s),
         UNCHANGED <<client, request, removed, history>>
  PROVE  LastInv'
<1> DEFINE sig == [name |-> "PropertiesChanged", path |-> p, state |-> s]
<1>1. /\ UNCHANGED <<tasks, opening, heard, ended>> /\ p \in Ops
      /\ SignalsOK /\ SlotsOK /\ WordsOK
  BY DEF client, history, LastInv, Paths
<1>2. /\ task'[p] = s /\ \A o \in Ops : o # p => task'[o] = task[o]
  BY <1>1 DEF TypeOK
<1>3. sig \in Signal /\ sig.name = "PropertiesChanged" /\ sig.path = p /\ sig.state = s
  BY DEF Signal, SignalName
<1>4. p \notin removed
  BY <1>1 DEF SignalsOK
<1>5. \A o \in Ops : IsChange(sig, o) <=> o = p
  BY <1>3 DEF IsChange
<1>6. CASE \E i \in Slots : tasks[i].path = p
  <2>1. PICK i \in Slots : tasks[i].path = p
    BY <1>6
  <2>2. Active(i)
    BY <2>1, ConstantsAssumption DEF Active
  <2>3. tasks[i].slot /\ ~Announced(p)
    BY <1>1, <2>1, <2>2, Followed DEF SlotsOK, SlotOK
  <2>4. inbox' = Append(inbox, sig)
    BY <2>1, <2>3 DEF Emit, Subscribed
  <2>5. SignalsOK'
    <3>1. \A o \in Ops : task'[o] # "Unknown" => request'[o] = "accepted"
      BY <1>1, <1>2 DEF SignalsOK
    <3>2. \A q \in removed' : task'[q] \in Terminal
      <4>1. \A q \in removed : q \in Ops /\ task[q] \in Terminal
        BY <1>1 DEF TypeOK, Paths, SignalsOK
      <4>2. QED
        BY <1>2, <1>4, <4>1
    <3>3. \A o \in Ops : IsChange(sig, o) => ~Announced(o) /\ request'[o] = "accepted"
      BY <1>5, <2>3
    <3>4. QED
      BY <1>1, <1>3, <1>4, <2>4, <3>1, <3>2, <3>3, SignalsSent
  <2>6. ASSUME NEW j \in Slots, Active(j)
        PROVE  /\ tasks[j].op \in Ops
               /\ LastChange(tasks[j].path)'
               /\ NoChange(tasks[j].path)' =>
                    NoChange(tasks[j].path) /\ task'[tasks[j].path] = task[tasks[j].path]
    <3>1. PICK q \in Ops : q = tasks[j].path /\ q = tasks[j].op
      BY <2>6, Followed
    <3>2. LastChange(q)
      BY <1>1, <2>6, <3>1 DEF SlotsOK, SlotOK
    <3>3. CASE q = p
      <4>1. LastChange(q)' /\ ~NoChange(q)'
        BY <1>2, <1>3, <1>5, <2>4, <3>3, ChangesAppended
      <4>2. QED
        BY <1>1, <3>1, <4>1
    <3>4. CASE q # p
      <4>1. ~IsChange(sig, q) /\ task'[q] = task[q]
        BY <1>2, <1>5, <3>4
      <4>2. LastChange(q)' /\ (NoChange(q)' <=> NoChange(q))
        BY <1>3, <2>4, <3>2, <4>1, ChangesAppended
      <4>3. QED
        BY <1>1, <3>1, <4>1, <4>2
    <3>5. QED
      BY <3>3, <3>4
  <2>7. QED
    BY <1>1, <1>2, <2>5, <2>6, LastKept
<1>7. CASE \A i \in Slots : tasks[i].path # p
  <2>1. UNCHANGED inbox
    BY <1>7 DEF Emit, Subscribed
  <2>2. SignalsOK'
    <3>1. \A o \in Ops : task'[o] # "Unknown" => request'[o] = "accepted"
      BY <1>1, <1>2 DEF SignalsOK
    <3>2. \A q \in removed' : task'[q] \in Terminal
      <4>1. \A q \in removed : q \in Ops /\ task[q] \in Terminal
        BY <1>1 DEF TypeOK, Paths, SignalsOK
      <4>2. QED
        BY <1>2, <1>4, <4>1
    <3>3. QED
      BY <1>1, <1>3, <2>1, <3>1, <3>2, SignalsSent
  <2>3. ASSUME NEW j \in Slots, Active(j)
        PROVE  /\ tasks[j].op \in Ops
               /\ LastChange(tasks[j].path)'
               /\ NoChange(tasks[j].path)' =>
                    NoChange(tasks[j].path) /\ task'[tasks[j].path] = task[tasks[j].path]
    <3>1. PICK q \in Ops : q = tasks[j].path /\ q = tasks[j].op /\ q # p
      BY <1>7, <2>3, Followed
    <3>2. LastChange(q) /\ task'[q] = task[q]
      BY <1>1, <1>2, <2>3, <3>1 DEF SlotsOK, SlotOK
    <3>3. LastChange(q)' /\ (NoChange(q)' <=> NoChange(q))
      BY <2>1, <3>2 DEF LastChange, NoChange
    <3>4. QED
      BY <1>1, <3>1, <3>2, <3>3
  <2>4. QED
    BY <1>1, <1>2, <2>2, <2>3, LastKept
<1>8. QED
  BY <1>6, <1>7

\* A signal that tells no change is sent, or none.
LEMMA OtherSent ==
  ASSUME TypeOK, Bookkeeping, Order, BindsOwn, LastInv, SignalsOK',
         UNCHANGED <<tasks, opening, heard, ended>>,
         \A o \in Ops : request[o] = "accepted" => request'[o] = "accepted",
         \A o \in Ops : request[o] = "accepted" => task'[o] = task[o],
         NEW sig \in Signal, sig.name # "PropertiesChanged",
         inbox' = inbox \/ inbox' = Append(inbox, sig)
  PROVE  LastInv'
<1>1. SignalsOK /\ SlotsOK /\ WordsOK
  BY DEF LastInv
<1>2. ASSUME NEW j \in Slots, Active(j)
      PROVE  /\ tasks[j].op \in Ops
             /\ LastChange(tasks[j].path)'
             /\ NoChange(tasks[j].path)' =>
                  NoChange(tasks[j].path) /\ task'[tasks[j].path] = task[tasks[j].path]
  <2>1. PICK q \in Ops : q = tasks[j].path /\ q = tasks[j].op
    BY <1>2, Followed
  <2>2. LastChange(q) /\ request[q] = "accepted"
    BY <1>1, <1>2, <2>1 DEF SlotsOK, SlotOK
  <2>3. task'[q] = task[q] /\ ~IsChange(sig, q)
    BY <2>2 DEF IsChange
  <2>4. LastChange(q)' /\ (NoChange(q)' <=> NoChange(q))
    <3>1. CASE inbox' = inbox
      BY <2>2, <2>3, <3>1 DEF LastChange, NoChange
    <3>2. CASE inbox' = Append(inbox, sig)
      BY <2>2, <2>3, <3>2, ChangesAppended
    <3>3. QED
      BY <3>1, <3>2
  <2>5. QED
    BY <2>1, <2>3, <2>4
<1>3. \A o \in Ops : task[o] \in Terminal => task'[o] = task[o]
  BY <1>1 DEF SignalsOK, Terminal
<1>4. QED
  BY <1>1, <1>2, <1>3, LastKept

\* Every step of the daemon.
LEMMA DaemonLast ==
  ASSUME TypeOK, Bookkeeping, Order, BindsOwn, LastInv, Foreign = {},
         \/ \E o \in Ops : DaemonAccept(o) \/ DaemonReject(o)
         \/ \E p \in Paths : \/ CancelTask(p) \/ DaemonStart(p) \/ DaemonAsk(p)
                             \/ DaemonRemove(p)
                             \/ \E s \in Outcomes : DaemonFinish(p, s)
  PROVE  LastInv'
<1>1. SignalsOK /\ SlotsOK /\ WordsOK
  BY DEF LastInv
<1>2. Paths = Ops /\ {"Processing", "Canceled"} \cup Outcomes \subseteq TaskState
  BY ConstantsAssumption DEF Paths, TaskState, Terminal
<1>3. ASSUME NEW o \in Ops, DaemonAccept(o) PROVE LastInv'
  <2> DEFINE sig == [name |-> "TaskAdded", path |-> o, state |-> "Queued"]
  <2>1. /\ request[o] = "sent" /\ request' = [request EXCEPT ![o] = "accepted"]
        /\ task' = [task EXCEPT ![o] = "Queued"]
        /\ UNCHANGED <<tasks, opening, heard, ended, removed>>
        /\ inbox' = Append(inbox, sig)
    BY <1>3 DEF DaemonAccept, CreateTask, Emit, Subscribed, client, history
  <2>2. sig \in Signal /\ sig.name = "TaskAdded" /\ sig.path = o
    BY DEF Signal, SignalName, Paths, TaskState
  <2>3. /\ request'[o] = "accepted" /\ \A q \in Ops : q # o => request'[q] = request[q]
        /\ \A q \in Ops : q # o => task'[q] = task[q]
    BY <2>1 DEF TypeOK
  <2>4. NoChange(o) /\ o \notin removed
    BY <1>1, <2>1 DEF SignalsOK, Terminal
  <2>5. SignalsOK'
    <3>1. \A q \in Ops : task'[q] # "Unknown" => request'[q] = "accepted"
      BY <1>1, <2>3 DEF SignalsOK
    <3>2. \A q \in Ops : request'[q] # "accepted" => request[q] # "accepted"
      BY <2>3
    <3>3. \A p \in removed' : task'[p] \in Terminal
      <4>1. \A p \in removed : p \in Ops /\ task[p] \in Terminal
        BY <1>1, <1>2 DEF SignalsOK, TypeOK
      <4>2. QED
        BY <2>1, <2>3, <2>4, <4>1
    <3>4. QED
      BY <1>1, <2>1, <2>2, <2>4, <3>1, <3>2, <3>3, SignalsSent
  <2>6. QED
    BY <2>1, <2>2, <2>3, <2>5, OtherSent
<1>4. ASSUME NEW o \in Ops, DaemonReject(o) PROVE LastInv'
  <2>1. /\ request[o] = "sent" /\ request' = [request EXCEPT ![o] = "rejected"]
        /\ UNCHANGED <<tasks, opening, heard, ended, removed, inbox, task>>
    BY <1>4 DEF DaemonReject, client, history
  <2>2. \A q \in Ops : request'[q] = "accepted" <=> request[q] = "accepted"
    BY <2>1 DEF TypeOK
  <2>3. PICK sig \in Signal : sig.name # "PropertiesChanged"
    <3>1. [name |-> "TaskAdded", path |-> o, state |-> "Queued"] \in Signal
      BY DEF Signal, SignalName, Paths, TaskState
    <3>2. QED
      BY <3>1
  <2>4. SignalsOK'
    BY <1>1, <2>1, <2>2, <2>3, SignalsSent DEF SignalsOK
  <2>5. QED
    BY <2>1, <2>2, <2>3, <2>4, OtherSent
<1>5. ASSUME NEW p \in Paths, CancelTask(p) PROVE LastInv'
  <2>1. PICK i \in Slots : tasks[i].path = p
    BY <1>5 DEF CancelTask
  <2>2. Active(i) /\ tasks[i].op = p
    BY <2>1, ConstantsAssumption, Followed DEF Active
  <2>3. request[p] = "accepted"
    BY <1>1, <2>2 DEF SlotsOK, SlotOK
  <2>4. QED
    BY <1>2, <1>5, <2>3, ChangeSent DEF CancelTask
<1>6. ASSUME NEW p \in Paths, DaemonStart(p) PROVE LastInv'
  <2>1. task[p] \notin Terminal /\ request[p] = "accepted"
    BY <1>1, <1>2, <1>6 DEF DaemonStart, SignalsOK, Terminal
  <2>2. QED
    BY <1>2, <1>6, <2>1, ChangeSent DEF DaemonStart
<1>7. ASSUME NEW p \in Paths, NEW s \in Outcomes, DaemonFinish(p, s) PROVE LastInv'
  <2>1. task[p] \notin Terminal /\ request[p] = "accepted"
    BY <1>1, <1>2, <1>7 DEF DaemonFinish, SignalsOK, Terminal
  <2>2. QED
    BY <1>2, <1>7, <2>1, ChangeSent DEF DaemonFinish
<1>8. ASSUME NEW p \in Paths, DaemonAsk(p) PROVE LastInv'
  <2> DEFINE sig == [name |-> "RequestInteraction", path |-> p, state |-> "Processing"]
  <2>1. /\ UNCHANGED <<tasks, opening, heard, ended, removed, request, task>>
        /\ inbox' = inbox \/ inbox' = Append(inbox, sig)
    BY <1>8 DEF DaemonAsk, Emit, client, history
  <2>2. sig \in Signal /\ sig.name = "RequestInteraction"
    BY DEF Signal, SignalName, TaskState
  <2>3. SignalsOK'
    BY <1>1, <2>1, <2>2, SignalsSent DEF SignalsOK
  <2>4. QED
    BY <2>1, <2>2, <2>3, OtherSent
<1>9. ASSUME NEW p \in Paths, DaemonRemove(p) PROVE LastInv'
  <2> DEFINE sig == [name |-> "TaskRemoved", path |-> p, state |-> task[p]]
  <2>1. /\ UNCHANGED <<tasks, opening, heard, ended, request, task>>
        /\ removed' = removed \cup {p} /\ task[p] \in Terminal
        /\ inbox' = Append(inbox, sig)
    BY <1>9 DEF DaemonRemove, Emit, Subscribed, client, history
  <2>2. sig \in Signal /\ sig.name = "TaskRemoved" /\ sig.path = p
    BY DEF Signal, SignalName, TypeOK
  <2>3. SignalsOK'
    BY <1>1, <2>1, <2>2, SignalsSent DEF SignalsOK
  <2>4. QED
    BY <2>1, <2>2, <2>3, OtherSent
<1>10. QED
  BY <1>3, <1>4, <1>5, <1>6, <1>7, <1>8, <1>9

\* What a step of the client that concerns the callback c at most leaves right.
LEMMA OthersKept ==
  ASSUME TypeOK, Bookkeeping, Order, BindsOwn, LastInv, NEW c,
         UNCHANGED <<task, removed>>,
         \A o \in Ops : request'[o] = "accepted" <=> request[o] = "accepted",
         \/ UNCHANGED inbox
         \/ /\ NextSignal /\ UNCHANGED request
            /\ \A j \in Slots : Active(j) /\ tasks[j].op # c =>
                 ~IsChange(Head(inbox), tasks[j].path),
         \A o \in Ops : o # c =>
           heard'[o] = heard[o] /\ ended'[o] = ended[o] /\ (Bound(o) => Bound(o)'),
         \A j \in Slots : Active(j)' /\ tasks'[j].op # c =>
           tasks'[j] = tasks[j] /\ (j = opening' <=> j = opening)
  PROVE  /\ SignalsOK'
         /\ \A j \in Slots : Active(j)' /\ tasks'[j].op # c => SlotOK(j)'
         /\ \A o \in Ops : o # c => WordOK(o)'
<1>1. SignalsOK /\ SlotsOK /\ WordsOK
  BY DEF LastInv
<1>2. SignalsOK'
  <2>1. CASE UNCHANGED inbox
    BY <1>1, <2>1 DEF SignalsOK, Announced, NoChange
  <2>2. CASE NextSignal /\ UNCHANGED request
    BY <1>1, <2>2, SignalsDispatched
  <2>3. QED
    BY <2>1, <2>2
<1>3. ASSUME NEW j \in Slots, Active(j)', tasks'[j].op # c PROVE SlotOK(j)'
  <2>1. tasks'[j] = tasks[j] /\ (j = opening' <=> j = opening)
    BY <1>3
  <2>2. Active(j) /\ SlotOK(j) /\ tasks[j].op # c
    BY <1>1, <1>3, <2>1 DEF Active, SlotsOK
  <2>3. PICK p \in Ops : p = tasks[j].path /\ p = tasks[j].op
    BY <2>2, Followed
  <2>4. LastChange(p) /\ request[p] = "accepted"
    BY <2>2, <2>3 DEF SlotOK
  <2>5. LastChange(p)' /\ (NoChange(p)' => NoChange(p))
    <3>1. CASE UNCHANGED inbox
      BY <2>4, <3>1 DEF LastChange, NoChange
    <3>2. CASE NextSignal /\ ~IsChange(Head(inbox), p)
      BY <2>4, <3>2, ChangesDispatched
    <3>3. QED
      BY <2>2, <2>3, <3>1, <3>2
  <2>6. heard'[tasks[j].op] = heard[tasks[j].op] /\ request'[tasks[j].op] = "accepted"
    BY <2>2, <2>3, <2>4
  <2>7. QED
    BY <2>1, <2>2, <2>3, <2>5, <2>6, SlotKept
<1>4. ASSUME NEW o \in Ops, o # c PROVE WordOK(o)'
  <2>1. WordOK(o) /\ heard'[o] = heard[o] /\ ended'[o] = ended[o] /\ (Bound(o) => Bound(o)')
    BY <1>1, <1>4 DEF WordsOK
  <2>2. QED
    BY <2>1 DEF WordOK
<1>5. QED
  BY <1>2, <1>3, <1>4

\* A step that tells nobody anything and leaves the slots alone.
LEMMA QuietLast ==
  ASSUME TypeOK, Bookkeeping, Order, BindsOwn, LastInv,
         UNCHANGED <<task, removed, tasks, opening, heard, ended>>,
         \A o \in Ops : request'[o] = "accepted" <=> request[o] = "accepted",
         \/ UNCHANGED inbox
         \/ /\ NextSignal /\ UNCHANGED request
            /\ \A j \in Slots : Active(j) => ~IsChange(Head(inbox), tasks[j].path)
  PROVE  LastInv'
<1>1. \A o \in Ops : Bound(o) => Bound(o)'
  BY DEF Bound
<1>2. None \notin Ops /\ \A j \in Slots : Active(j)' => tasks'[j].op # None
  BY ConstantsAssumption DEF Paths, Bookkeeping, Active
<1>3. /\ SignalsOK'
      /\ \A j \in Slots : Active(j)' /\ tasks'[j].op # None => SlotOK(j)'
      /\ \A o \in Ops : o # None => WordOK(o)'
  BY <1>1, OthersKept
<1>4. QED
  BY <1>2, <1>3 DEF LastInv, SlotsOK, WordsOK

\* A callback is refused, and no slot holds it.
LEMMA RefusedLast ==
  ASSUME TypeOK, Bookkeeping, Order, BindsOwn, LastInv, NEW c \in Ops, NotifyFailed(c),
         UNCHANGED <<task, removed, request>>,
         \/ UNCHANGED inbox
         \/ /\ NextSignal
            /\ \A j \in Slots : Active(j) => ~IsChange(Head(inbox), tasks[j].path),
         \A j \in Slots : Active(j)' =>
           tasks'[j] = tasks[j] /\ tasks[j].op # c /\ (j = opening' <=> j = opening),
         \A o \in Ops : o # c => (Bound(o) => Bound(o)')
  PROVE  LastInv'
<1>1. /\ \A o \in Ops : o # c => heard'[o] = heard[o] /\ ended'[o] = ended[o]
      /\ ended'[c] = "refused"
  BY DEF NotifyFailed, Tell, TypeOK
<1>2. /\ SignalsOK'
      /\ \A j \in Slots : Active(j)' /\ tasks'[j].op # c => SlotOK(j)'
      /\ \A o \in Ops : o # c => WordOK(o)'
  BY <1>1, OthersKept
<1>3. WordOK(c)'
  BY <1>1 DEF WordOK
<1>4. QED
  BY <1>2, <1>3 DEF LastInv, SlotsOK, WordsOK

\* What a callback that is told s has heard first and last.
LEMMA TellFacts ==
  ASSUME TypeOK, NEW c \in Ops, NEW s \in TaskState, Tell(c, s)
  PROVE  /\ \A o \in Ops : o # c => heard'[o] = heard[o]
         /\ heard'[c] # <<>>
         /\ heard'[c][Len(heard'[c])] = s
         /\ heard'[c][1] = IF heard[c] = <<>> THEN s ELSE heard[c][1]
<1>1. heard'[c] = Append(heard[c], s) /\ \A o \in Ops : o # c => heard'[o] = heard[o]
  BY DEF Tell, TypeOK
<1>2. heard[c] \in Seq(TaskState) /\ Len(heard[c]) \in Nat
  BY LenProperties DEF TypeOK
<1>3. /\ Len(Append(heard[c], s)) = Len(heard[c]) + 1
      /\ Append(heard[c], s)[Len(heard[c]) + 1] = s
      /\ \A k \in 1..Len(heard[c]) : Append(heard[c], s)[k] = heard[c][k]
      /\ Append(heard[c], s) # <<>>
  BY <1>2, AppendProperties
<1>4. CASE heard[c] = <<>>
  BY <1>1, <1>3, <1>4, EmptySeq
<1>5. CASE heard[c] # <<>>
  <2>1. 1 \in 1..Len(heard[c])
    BY <1>2, <1>5, EmptySeq
  <2>2. QED
    BY <1>1, <1>3, <1>5, <2>1
<1>6. QED
  BY <1>4, <1>5

\* The oldest callback is bound: its task was announced, nothing was said of it
\* since, and the callback has heard nothing.
LEMMA BindLast ==
  ASSUME TypeOK, Bookkeeping, Order, BindsOwn, LastInv, OnTaskAdded
  PROVE  LastInv'
<1>1. SignalsOK /\ SlotsOK /\ WordsOK
  BY DEF LastInv
<1>2. PICK i \in Slots : /\ FirstFree(i)
                         /\ tasks' = [tasks EXCEPT ![i] =
                                        BoundEntry(Head(pending), Head(inbox).path)]
                         /\ opening' = i
  BY DEF OnTaskAdded
<1>3. /\ Dispatch("TaskAdded") /\ NextSignal
      /\ UNCHANGED <<task, removed, request, heard, ended>>
  BY DEF OnTaskAdded, Dispatch, daemon, history
<1>4. PICK p \in Ops : p = Head(pending) /\ p = Head(inbox).path
  BY <1>3, OldestFirst, BindBookkeeping
<1>5. Waiting(p) /\ ~Bound(p) /\ ended[p] = "open"
  BY <1>4, BindBookkeeping DEF Bookkeeping, OneHome
<1>6. 1 \in 1..Len(inbox) /\ inbox[1].name = "TaskAdded" /\ inbox[1].path = p /\ opening = 0
  BY <1>3, <1>4, DispatchInbox DEF Dispatch
<1>7. Announced(p) /\ request[p] = "accepted"
  BY <1>6 DEF Announced, Order
<1>8. NoChange(p) /\ heard[p] = <<>>
  BY <1>1, <1>5, <1>7 DEF SignalsOK, WordsOK, WordOK
<1>9. NoChange(p)'
  BY <1>3, <1>8, ChangesDispatched
<1>10. LastChange(p)'
  BY <1>9 DEF LastChange, NoChange
<1>11. /\ tasks'[i] = BoundEntry(p, p)
       /\ \A j \in Slots : j # i => tasks'[j] = tasks[j]
       /\ tasks[i].op = None
  BY <1>2, <1>4 DEF TypeOK, FirstFree, Bookkeeping
<1>12. /\ tasks'[i].path = p /\ tasks'[i].op = p /\ tasks'[i].slot = TRUE
       /\ tasks'[i].state = "Unknown"
  BY <1>11 DEF BoundEntry
<1>13. SlotOK(i)'
  BY <1>2, <1>3, <1>7, <1>8, <1>10, <1>12 DEF SlotOK
<1>14. \A o \in Ops : o # p => (Bound(o) => Bound(o)')
  BY <1>11, ConstantsAssumption DEF Bound, Paths
<1>15. \A j \in Slots : Active(j)' /\ tasks'[j].op # p =>
         tasks'[j] = tasks[j] /\ (j = opening' <=> j = opening)
  BY <1>2, <1>6, <1>11, <1>12, SlotFacts
<1>16. \A q : ~IsChange(Head(inbox), q)
  BY <1>3 DEF Dispatch, IsChange
<1>17. \A j \in Slots : Active(j)' /\ tasks'[j].op = p => j = i
  <2>1. \A j \in Slots : tasks[j].op # p
    BY <1>5 DEF Bound
  <2>2. QED
    BY <1>11, <2>1
<1>18. /\ SignalsOK'
       /\ \A j \in Slots : Active(j)' /\ tasks'[j].op # p => SlotOK(j)'
       /\ \A o \in Ops : o # p => WordOK(o)'
  BY <1>3, <1>14, <1>15, <1>16, OthersKept
<1>19. WordOK(p)'
  BY <1>3, <1>5, <1>12 DEF WordOK, Bound
<1>20. QED
  BY <1>13, <1>17, <1>18, <1>19 DEF LastInv, SlotsOK, WordsOK

\* The first word is the state read, or Unknown when nothing could be read.
LEMMA ReadLast ==
  ASSUME TypeOK, Bookkeeping, Order, BindsOwn, LastInv, ReadInitialProperties
  PROVE  LastInv'
<1>1. SignalsOK /\ SlotsOK /\ WordsOK
  BY DEF LastInv
<1>2. PICK i \in Slots : i = opening /\ Active(i)
  BY OpeningSlot DEF ReadInitialProperties
<1>3. PICK p \in Ops : p = tasks[i].path /\ p = tasks[i].op
  BY <1>2, Followed
<1>4. SlotOK(i)
  BY <1>1, <1>2 DEF SlotsOK
<1>5. /\ tasks[i].state = "Unknown" /\ heard[p] = <<>> /\ tasks[i].slot
      /\ request[p] = "accepted" /\ LastChange(p)
  BY <1>2, <1>3, <1>4 DEF SlotOK
<1>6. PICK s : s = ReadState(p, "Unknown")
  OBVIOUS
<1>7. /\ tasks' = [tasks EXCEPT ![i].state = s] /\ Tell(p, s) /\ opening' = 0
      /\ UNCHANGED <<inbox, task, removed, request, ended>>
  BY <1>2, <1>3, <1>5, <1>6 DEF ReadInitialProperties, daemon
<1>8. s \in TaskState /\ (s # "Unknown" => s = task[p])
  <2>1. "Unknown" \in TaskState
    BY DEF TaskState
  <2>2. QED
    BY <1>6, <2>1, ReadStateType DEF ReadState, Paths
<1>9. /\ \A o \in Ops : o # p => heard'[o] = heard[o]
      /\ heard'[p] # <<>> /\ heard'[p][1] = s
  BY <1>5, <1>7, <1>8, TellFacts
<1>10. /\ tasks'[i] = [tasks[i] EXCEPT !.state = s]
       /\ \A j \in Slots : j # i => tasks'[j] = tasks[j]
  BY <1>7 DEF TypeOK
<1>11. /\ tasks'[i].path = p /\ tasks'[i].op = p /\ tasks'[i].slot /\ tasks'[i].state = s
  <2>1. tasks[i] \in Entry
    BY DEF TypeOK
  <2>2. /\ tasks'[i].path = tasks[i].path /\ tasks'[i].op = tasks[i].op
        /\ tasks'[i].slot = tasks[i].slot /\ tasks'[i].state = s
    BY <1>10, <2>1 DEF Entry
  <2>3. QED
    BY <1>3, <1>5, <2>2
<1>12. LastChange(p)' /\ i # opening'
  BY <1>5, <1>7, SlotFacts DEF LastChange
<1>13. SlotOK(i)'
  BY <1>5, <1>7, <1>8, <1>9, <1>11, <1>12 DEF SlotOK
<1>14. \A o \in Ops : Bound(o) => Bound(o)'
  BY <1>3, <1>10, <1>11 DEF Bound
<1>15. \A j \in Slots : Active(j)' /\ tasks'[j].op # p =>
         tasks'[j] = tasks[j] /\ (j = opening' <=> j = opening)
  BY <1>2, <1>7, <1>10, <1>11, SlotFacts
<1>16. \A j \in Slots : Active(j)' /\ tasks'[j].op = p => j = i
  <2>1. \A j \in Slots : Active(j) /\ tasks[j].op = p => j = i
    BY <1>2, <1>3, Followed
  <2>2. QED
    BY <1>10, <2>1 DEF Active
<1>17. /\ SignalsOK'
       /\ \A j \in Slots : Active(j)' /\ tasks'[j].op # p => SlotOK(j)'
       /\ \A o \in Ops : o # p => WordOK(o)'
  BY <1>7, <1>9, <1>14, <1>15, OthersKept
<1>18. WordOK(p)'
  <2>1. ended'[p] = "open" /\ Bound(p)'
    BY <1>2, <1>3, <1>7, <1>11 DEF Bound, Bookkeeping, OneHome
  <2>2. QED
    BY <2>1 DEF WordOK
<1>19. QED
  BY <1>13, <1>16, <1>17, <1>18 DEF LastInv, SlotsOK, WordsOK

\* A change is told and stored; after the last one the slot is up to date.
LEMMA ChangedLast ==
  ASSUME TypeOK, Bookkeeping, Order, BindsOwn, LastInv, OnPropertiesChanged
  PROVE  LastInv'
<1>1. SignalsOK /\ SlotsOK /\ WordsOK
  BY DEF LastInv
<1>2. PICK s \in TaskState : s = Head(inbox).state
  BY DispatchType DEF OnPropertiesChanged, Dispatch
<1>3. PICK i \in Slots : /\ tasks[i].path = Head(inbox).path
                         /\ tasks' = [tasks EXCEPT ![i].state = s]
                         /\ Tell(tasks[i].op, s)
  BY <1>2 DEF OnPropertiesChanged
<1>4. /\ NextSignal /\ Head(inbox).name = "PropertiesChanged"
      /\ UNCHANGED <<opening, task, removed, request, ended>>
  BY DEF OnPropertiesChanged, Dispatch, daemon
<1>5. Active(i)
  BY <1>3, <1>4, DispatchType, ConstantsAssumption DEF Active
<1>6. PICK p \in Ops : p = tasks[i].path /\ p = tasks[i].op
  BY <1>5, Followed
<1>7. SlotOK(i) /\ opening = 0 /\ i # opening
  BY <1>1, <1>4, <1>5, SlotFacts DEF SlotsOK, NextSignal, Idle
<1>8. tasks[i].slot /\ heard[p] # <<>> /\ request[p] = "accepted" /\ LastChange(p)
  BY <1>6, <1>7 DEF SlotOK
<1>9. /\ \A o \in Ops : o # p => heard'[o] = heard[o]
      /\ heard'[p] # <<>> /\ heard'[p][1] = heard[p][1]
  BY <1>3, <1>6, <1>8, TellFacts
<1>10. /\ tasks'[i] = [tasks[i] EXCEPT !.state = s]
       /\ \A j \in Slots : j # i => tasks'[j] = tasks[j]
  BY <1>3 DEF TypeOK
<1>11. /\ tasks'[i].path = p /\ tasks'[i].op = p /\ tasks'[i].slot /\ tasks'[i].state = s
  <2>1. tasks[i] \in Entry
    BY DEF TypeOK
  <2>2. /\ tasks'[i].path = tasks[i].path /\ tasks'[i].op = tasks[i].op
        /\ tasks'[i].slot = tasks[i].slot /\ tasks'[i].state = s
    BY <1>10, <2>1 DEF Entry
  <2>3. QED
    BY <1>6, <1>8, <2>2
<1>12. IsChange(Head(inbox), p)
  BY <1>3, <1>4, <1>6 DEF IsChange
<1>13. LastChange(p)' /\ (NoChange(p)' => s = task[p])
  BY <1>2, <1>4, <1>8, <1>12, ChangesDispatched
<1>14. SlotOK(i)'
  BY <1>4, <1>7, <1>8, <1>9, <1>11, <1>13 DEF SlotOK
<1>15. \A o \in Ops : Bound(o) => Bound(o)'
  BY <1>6, <1>10, <1>11 DEF Bound
<1>16. \A j \in Slots : Active(j)' /\ tasks'[j].op # p =>
         tasks'[j] = tasks[j] /\ (j = opening' <=> j = opening)
  BY <1>4, <1>10, <1>11
<1>17. \A j \in Slots : Active(j)' /\ tasks'[j].op = p => j = i
  <2>1. \A j \in Slots : Active(j) /\ tasks[j].op = p => j = i
    BY <1>5, <1>6, Followed
  <2>2. QED
    BY <1>10, <2>1 DEF Active
<1>18. \A j \in Slots : Active(j) /\ tasks[j].op # p => ~IsChange(Head(inbox), tasks[j].path)
  <2>1. \A j \in Slots : Active(j) => tasks[j].op = tasks[j].path
    BY Followed
  <2>2. QED
    BY <1>3, <1>6, <2>1 DEF IsChange
<1>19. /\ SignalsOK'
       /\ \A j \in Slots : Active(j)' /\ tasks'[j].op # p => SlotOK(j)'
       /\ \A o \in Ops : o # p => WordOK(o)'
  BY <1>4, <1>9, <1>15, <1>16, <1>18, OthersKept
<1>20. WordOK(p)'
  <2>1. ended'[p] = "open" /\ Bound(p)'
    BY <1>4, <1>6, <1>11 DEF Bound, Bookkeeping, OneHome
  <2>2. QED
    BY <2>1 DEF WordOK
<1>21. QED
  BY <1>14, <1>17, <1>19, <1>20 DEF LastInv, SlotsOK, WordsOK

\* The removal of a task comes after its last change, so even when the object
\* can no longer be read the slot knows the outcome.
LEMMA RemovedLast ==
  ASSUME TypeOK, Bookkeeping, Order, BindsOwn, LastInv, OnTaskRemoved
  PROVE  LastInv'
<1>1. SignalsOK /\ SlotsOK /\ WordsOK
  BY DEF LastInv
<1>2. PICK i \in Slots : /\ tasks[i].path = Head(inbox).path
                         /\ Tell(tasks[i].op, ReadState(tasks[i].path, tasks[i].state))
                         /\ ended' = [ended EXCEPT ![tasks[i].op] = "finished"]
                         /\ tasks' = [tasks EXCEPT ![i] = ClearedTask]
  BY DEF OnTaskRemoved
<1>3. /\ NextSignal /\ Head(inbox).name = "TaskRemoved"
      /\ UNCHANGED <<opening, task, removed, request>>
  BY DEF OnTaskRemoved, Dispatch, daemon
<1>4. Active(i)
  BY <1>2, <1>3, DispatchType, ConstantsAssumption DEF Active
<1>5. PICK p \in Ops : p = tasks[i].path /\ p = tasks[i].op
  BY <1>4, Followed
<1>6. SlotOK(i) /\ opening = 0 /\ i # opening
  BY <1>1, <1>3, <1>4, SlotFacts DEF SlotsOK, NextSignal, Idle
<1>7. PICK w : w = ReadState(p, tasks[i].state)
  OBVIOUS
<1>8. w \in TaskState /\ (tasks[i].state = task[p] => w = task[p])
  BY <1>4, <1>7, ActiveOp, ReadStateType DEF ReadState, Paths
<1>9. /\ 1 \in 1..Len(inbox) /\ inbox[1].name = "TaskRemoved" /\ inbox[1].path = p
      /\ Len(inbox) \in Nat
  BY <1>2, <1>3, <1>5, DispatchInbox
<1>10. p \in removed /\ \A l \in (1 + 1)..Len(inbox) : ~IsChange(inbox[l], p)
  BY <1>1, <1>9 DEF SignalsOK
<1>11. NoChange(p)
  <2>1. ASSUME NEW l \in 1..Len(inbox) PROVE ~IsChange(inbox[l], p)
    <3>1. l = 1 \/ l \in (1 + 1)..Len(inbox)
      BY <1>9
    <3>2. QED
      BY <1>9, <1>10, <3>1 DEF IsChange
  <2>2. QED
    BY <2>1 DEF NoChange
<1>12. heard[p] # <<>> /\ (heard[p][1] # "Unknown" => w = task[p])
  BY <1>5, <1>6, <1>8, <1>11 DEF SlotOK
<1>13. Tell(p, w)
  BY <1>2, <1>5, <1>7
<1>14. /\ \A o \in Ops : o # p => heard'[o] = heard[o]
       /\ heard'[p][1] = heard[p][1]
       /\ heard'[p][Len(heard'[p])] = w
  BY <1>8, <1>12, <1>13, TellFacts
<1>15. ended'[p] = "finished" /\ \A o \in Ops : o # p => ended'[o] = ended[o]
  BY <1>2, <1>5 DEF TypeOK
<1>16. /\ tasks'[i] = ClearedTask
       /\ \A j \in Slots : j # i => tasks'[j] = tasks[j]
  BY <1>2 DEF TypeOK
<1>17. \A j \in Slots : Active(j)' => j # i /\ tasks'[j] = tasks[j] /\ tasks'[j].op # p
  <2>1. ~Active(i)'
    BY <1>16 DEF Active, ClearedTask
  <2>2. \A j \in Slots : Active(j) /\ tasks[j].op = p => j = i
    BY <1>4, <1>5, Followed
  <2>3. QED
    BY <1>16, <2>1, <2>2 DEF Active
<1>18. \A o \in Ops : o # p => (Bound(o) => Bound(o)')
  BY <1>5, <1>16 DEF Bound
<1>19. \A q : ~IsChange(Head(inbox), q)
  BY <1>3 DEF IsChange
<1>20. /\ SignalsOK'
       /\ \A j \in Slots : Active(j)' /\ tasks'[j].op # p => SlotOK(j)'
       /\ \A o \in Ops : o # p => WordOK(o)'
  BY <1>3, <1>14, <1>15, <1>17, <1>18, <1>19, OthersKept
<1>21. WordOK(p)'
  <2>1. task[p] \in Terminal
    BY <1>1, <1>10 DEF SignalsOK
  <2>2. QED
    BY <1>3, <1>12, <1>14, <1>15, <2>1 DEF WordOK
<1>22. QED
  BY <1>17, <1>20, <1>21 DEF LastInv, SlotsOK, WordsOK

\* Every step of the client.
LEMMA ClientLast ==
  ASSUME TypeOK, Bookkeeping, Order, BindsOwn, LastInv,
         \/ \E o \in Ops : RequestInvalid(o) \/ RequestCall(o)
         \/ CallSucceeds \/ CallFails \/ Process
         \/ SubscribeInteraction \/ SubscribeInteractionFails \/ ReadInitialProperties
  PROVE  LastInv'
<1>1. SignalsOK /\ SlotsOK /\ WordsOK
  BY DEF LastInv
<1>2. \A j \in Slots : Active(j) => tasks[j].op \in Ops /\ tasks[j].op = tasks[j].path
  BY Followed
<1>3. ASSUME NEW o \in Ops, RequestInvalid(o) PROVE LastInv'
  <2>1. NotifyFailed(o) /\ request[o] = "new" /\ UNCHANGED <<client, inbox, daemon>>
    BY <1>3 DEF RequestInvalid, IsNew
  <2>2. ~Bound(o)
    BY <2>1 DEF Bookkeeping
  <2>3. UNCHANGED <<tasks, opening, inbox, task, removed, request>>
    BY <2>1 DEF client, daemon
  <2>4. \A j \in Slots : Active(j)' =>
          tasks'[j] = tasks[j] /\ tasks[j].op # o /\ (j = opening' <=> j = opening)
    BY <2>2, <2>3 DEF Bound
  <2>5. \A q \in Ops : q # o => (Bound(q) => Bound(q)')
    BY <2>3 DEF Bound
  <2>6. QED
    BY <2>1, <2>3, <2>4, <2>5, RefusedLast
<1>4. ASSUME NEW o \in Ops, RequestCall(o) PROVE LastInv'
  <2>1. /\ request[o] = "new" /\ request' = [request EXCEPT ![o] = "sent"]
        /\ UNCHANGED <<task, removed, tasks, opening, inbox, heard, ended>>
    BY <1>4 DEF RequestCall, IsNew, history
  <2>2. \A q \in Ops : request'[q] = "accepted" <=> request[q] = "accepted"
    BY <2>1 DEF TypeOK
  <2>3. QED
    BY <2>1, <2>2, QuietLast
<1>5. CASE CallSucceeds
  <2>1. UNCHANGED <<task, removed, request, tasks, opening, inbox, heard, ended>>
    BY <1>5 DEF CallSucceeds, daemon, history
  <2>2. QED
    BY <2>1, QuietLast
<1>6. CASE CallFails
  <2>1. /\ calling \in Ops /\ NotifyFailed(calling) /\ ~Bound(calling)
        /\ UNCHANGED <<tasks, opening, inbox, daemon>>
    BY <1>6 DEF CallFails, TypeOK, Bookkeeping
  <2>2. UNCHANGED <<task, removed, request>>
    BY <2>1 DEF daemon
  <2>3. \A j \in Slots : Active(j)' =>
          tasks'[j] = tasks[j] /\ tasks[j].op # calling /\ (j = opening' <=> j = opening)
    BY <2>1 DEF Bound
  <2>4. \A q \in Ops : q # calling => (Bound(q) => Bound(q)')
    BY <2>1 DEF Bound
  <2>5. QED
    BY <2>1, <2>2, <2>3, <2>4, RefusedLast
<1>7. CASE OnTaskAddedRefused
  <2>1. PICK o : o = Head(pending)
    OBVIOUS
  <2>2. /\ NextSignal /\ Head(inbox).name = "TaskAdded" /\ NotifyFailed(o)
        /\ pending # <<>> /\ pending' = PendingPop(pending)
        /\ UNCHANGED <<tasks, opening, task, removed, request>>
    BY <1>7, <2>1 DEF OnTaskAddedRefused, Dispatch, daemon
  <2>3. o \in Ops /\ ~Bound(o)
    BY <2>1, <2>2, PopWaiting DEF Bookkeeping, OneHome
  <2>4. \A j \in Slots : Active(j)' =>
          tasks'[j] = tasks[j] /\ tasks[j].op # o /\ (j = opening' <=> j = opening)
    BY <2>2, <2>3 DEF Bound
  <2>5. \A q \in Ops : q # o => (Bound(q) => Bound(q)')
    BY <2>2 DEF Bound
  <2>6. \A j \in Slots : Active(j) => ~IsChange(Head(inbox), tasks[j].path)
    BY <2>2 DEF IsChange
  <2>7. QED
    BY <2>2, <2>3, <2>4, <2>5, <2>6, RefusedLast
<1>8. CASE OnTaskAddedUnclaimed
  BY <1>8, OldestFirst DEF OnTaskAddedUnclaimed
<1>9. ASSUME NextSignal, UNCHANGED <<client, request, task, removed, history>>,
             \A j \in Slots : Active(j) => ~IsChange(Head(inbox), tasks[j].path)
      PROVE  LastInv'
  <2>1. UNCHANGED <<task, removed, request, tasks, opening, heard, ended>>
    BY <1>9 DEF client, history
  <2>2. QED
    BY <1>9, <2>1, QuietLast
<1>10. CASE OnRequestInteraction
  BY <1>9, <1>10 DEF OnRequestInteraction, Dispatch, IsChange
<1>11. CASE OnUnboundSignal
  BY <1>9, <1>11 DEF OnUnboundSignal, daemon, IsChange
<1>12. CASE SubscribeInteraction
  <2>1. PICK i \in Slots : i = opening /\ Active(i)
    BY <1>12, OpeningSlot DEF SubscribeInteraction
  <2>2. PICK p \in Ops : p = tasks[i].path /\ p = tasks[i].op
    BY <1>2, <2>1
  <2>3. /\ tasks' = [tasks EXCEPT ![i].interaction_slot = TRUE]
        /\ UNCHANGED <<opening, inbox, task, removed, request, heard, ended>>
    BY <1>12, <2>1 DEF SubscribeInteraction, daemon, history
  <2>4. /\ tasks'[i].path = tasks[i].path /\ tasks'[i].op = tasks[i].op
        /\ tasks'[i].slot = tasks[i].slot /\ tasks'[i].state = tasks[i].state
        /\ \A j \in Slots : j # i => tasks'[j] = tasks[j]
    <3>1. tasks[i] \in Entry
      BY DEF TypeOK
    <3>2. /\ tasks'[i] = [tasks[i] EXCEPT !.interaction_slot = TRUE]
          /\ \A j \in Slots : j # i => tasks'[j] = tasks[j]
      BY <2>3 DEF TypeOK
    <3>3. QED
      BY <3>1, <3>2 DEF Entry
  <2>5. SlotOK(i)'
    <3>1. SlotOK(i)
      BY <1>1, <2>1 DEF SlotsOK
    <3>2. LastChange(p)' /\ (NoChange(p)' <=> NoChange(p))
      BY <2>2, <2>3, <3>1 DEF SlotOK, LastChange, NoChange
    <3>3. QED
      BY <2>2, <2>3, <2>4, <3>1, <3>2 DEF SlotOK
  <2>6. \A o \in Ops : Bound(o) => Bound(o)'
    BY <2>4 DEF Bound
  <2>7. \A j \in Slots : Active(j)' /\ tasks'[j].op # p => tasks'[j] = tasks[j]
    BY <2>2, <2>4
  <2>8. \A j \in Slots : Active(j)' /\ tasks'[j].op = p => j = i
    <3>1. \A j \in Slots : Active(j) /\ tasks[j].op = p => j = i
      BY <2>1, <2>2, Followed
    <3>2. QED
      BY <2>4, <3>1 DEF Active
  <2>9. /\ SignalsOK'
        /\ \A j \in Slots : Active(j)' /\ tasks'[j].op # p => SlotOK(j)'
        /\ \A o \in Ops : o # p => WordOK(o)'
    BY <2>3, <2>6, <2>7, OthersKept
  <2>10. WordOK(p)'
    <3>1. WordOK(p)
      BY <1>1 DEF WordsOK
    <3>2. QED
      BY <2>3, <2>6, <3>1 DEF WordOK
  <2>11. QED
    BY <2>5, <2>8, <2>9, <2>10 DEF LastInv, SlotsOK, WordsOK
<1>13. CASE SubscribeInteractionFails
  <2>1. PICK i \in Slots : i = opening /\ Active(i)
    BY <1>13, OpeningSlot DEF SubscribeInteractionFails
  <2>2. PICK p \in Ops : p = tasks[i].path /\ p = tasks[i].op
    BY <1>2, <2>1
  <2>3. /\ NotifyFailed(p) /\ tasks' = [tasks EXCEPT ![i] = ClearedTask] /\ opening' = 0
        /\ UNCHANGED <<inbox, task, removed, request>>
    BY <1>13, <2>1, <2>2 DEF SubscribeInteractionFails, daemon
  <2>4. tasks'[i] = ClearedTask /\ \A j \in Slots : j # i => tasks'[j] = tasks[j]
    BY <2>3 DEF TypeOK
  <2>5. \A j \in Slots : Active(j)' =>
          tasks'[j] = tasks[j] /\ tasks[j].op # p /\ (j = opening' <=> j = opening)
    <3>1. ~Active(i)'
      BY <2>4 DEF Active, ClearedTask
    <3>2. \A j \in Slots : Active(j) /\ tasks[j].op = p => j = i
      BY <2>1, <2>2, Followed
    <3>3. QED
      BY <2>1, <2>3, <2>4, <3>1, <3>2, SlotFacts DEF Active
  <2>6. \A q \in Ops : q # p => (Bound(q) => Bound(q)')
    BY <2>2, <2>4 DEF Bound
  <2>7. QED
    BY <2>3, <2>5, <2>6, RefusedLast
<1>14. QED
  BY <1>3, <1>4, <1>5, <1>6, <1>7, <1>8, <1>10, <1>11, <1>12, <1>13,
     BindLast, ReadLast, ChangedLast, RemovedLast DEF Process

LEMMA LastInit == Init => LastInv
<1> SUFFICES ASSUME Init PROVE LastInv
  OBVIOUS
<1>1. 1..Len(inbox) = {} /\ \A i \in Slots : ~Active(i)
  BY DEF Init, Active, ClearedTask
<1>2. SignalsOK /\ SlotsOK
  <2>1. \A o \in Ops : task[o] = "Unknown"
    BY DEF Init, Paths
  <2>2. QED
    BY <1>1, <2>1 DEF Init, SignalsOK, SlotsOK, NoChange, Announced
<1>3. WordsOK
  BY DEF Init, WordsOK, WordOK
<1>4. QED
  BY <1>2, <1>3 DEF LastInv

LEMMA LastStep ==
  ASSUME Inv, Order, BindsOwn, LastInv, Foreign = {}, [Next]_vars
  PROVE  LastInv'
<1>1. TypeOK /\ Bookkeeping
  BY DEF Inv
<1>2. CASE UNCHANGED vars
  <2>1. UNCHANGED <<task, removed, request, tasks, opening, inbox, heard, ended>>
    BY <1>2 DEF vars, client, daemon, history
  <2>2. QED
    BY <1>1, <2>1, QuietLast
<1>3. CASE Next
  BY <1>1, <1>3, ClientLast, DaemonLast DEF Next
<1>4. QED
  BY <1>2, <1>3

\* The last word a callback hears is the outcome of its task, for any number of
\* requests and slots and even when the object of a task is gone by the last
\* read or a subscription fails, provided no other client uses the daemon, no
\* call times out, no allocation fails, and on_task_added could read the object.
THEOREM LastWordIsOutcomeHolds == ASSUME Alone PROVE Spec => []LastWordIsOutcome
<1>1. Foreign = {} /\ "oom" \notin Faults
  BY DEF Alone
<1>2. Spec => []NoneForgotten
  BY <1>1, NoneForgottenHolds
<1>3. /\ Inv /\ Inv' /\ NoneForgotten /\ Order /\ BindsOwn /\ [Next]_vars => Order' /\ BindsOwn'
      /\ Inv /\ Order /\ BindsOwn /\ LastInv /\ [Next]_vars => LastInv'
  BY <1>1, OrderStep, BindsOwnStep, LastStep
<1>4. LastInv => LastWordIsOutcome
  BY DEF LastInv, WordsOK, WordOK, LastWordIsOutcome
<1>5. QED
  BY <1>2, <1>3, <1>4, OrderInit, LastInit, InvHolds, PTL DEF Spec

-----------------------------------------------------------------------------
(* What an open request still waits for *)

\* The signals that wait to bind a callback.
Announcements == {k \in 1..Len(inbox) : inbox[k].name = "TaskAdded"}

\* The call that is in progress has queued a callback ahead of its task.
Unanswered == IF calling # None /\ request[calling] # "accepted" THEN 1 ELSE 0

\* No more callbacks are queued than tasks are announced.
Claimed == Len(pending) <= Cardinality(Announcements) + Unanswered

\* A removed task has its TaskRemoved on its way, behind the signal k.
Comes(p, k) ==
  p \in removed =>
    \E l \in (k + 1)..Len(inbox) : inbox[l].name = "TaskRemoved" /\ inbox[l].path = p

\* No two slots follow, or are going to follow, the same task, and each will be
\* told of its removal.
Attended ==
  /\ \A o \in Ops : request[o] # "accepted" => task[o] = "Unknown"
  /\ \A p \in removed : task[p] # "Unknown"
  /\ \A i \in Slots : Active(i) => task[tasks[i].path] # "Unknown" /\ Comes(tasks[i].path, 0)
  /\ \A i, j \in Slots : Active(i) /\ tasks[i].path = tasks[j].path => i = j
  /\ \A k \in Announcements :
       /\ task[inbox[k].path] # "Unknown" /\ Comes(inbox[k].path, k)
       /\ \A i \in Slots : tasks[i].path # inbox[k].path
       /\ \A l \in Announcements : inbox[l].path = inbox[k].path => l = k

\* When the client sleeps with no signal to dispatch, each request that was made
\* and has not ended is bound to a task the daemon still has to remove.
StillToCome ==
  Idle /\ inbox = <<>> =>
    \A o \in Ops : request[o] # "new" /\ ended[o] = "open" =>
      \E i \in Slots :
        /\ tasks[i].op = o
        /\ task[tasks[i].path] # "Unknown" /\ tasks[i].path \notin removed

LEMMA AnnouncementsFinite ==
  ASSUME NEW q \in Seq(Signal)
  PROVE  LET added == {k \in 1..Len(q) : q[k].name = "TaskAdded"}
         IN  IsFiniteSet(added) /\ Cardinality(added) \in Nat
<1> DEFINE added == {k \in 1..Len(q) : q[k].name = "TaskAdded"}
<1>1. 1 \in Int /\ Len(q) \in Int
  BY LenProperties
<1>2. IsFiniteSet(1..Len(q))
  BY ONLY <1>1, FS_Interval
<1>3. added \subseteq 1..Len(q)
  OBVIOUS
<1>4. IsFiniteSet(added)
  BY ONLY <1>2, <1>3, FS_Subset
<1>5. QED
  BY <1>4, FS_CardinalityType

\* Dispatching takes one announcement away, if it was one.
LEMMA AnnouncementsDispatched ==
  ASSUME TypeOK, TypeOK', NextSignal
  PROVE  /\ Head(inbox).name = "TaskAdded" =>
              Cardinality(Announcements) <= Cardinality(Announcements') + 1
         /\ Head(inbox).name # "TaskAdded" =>
              Cardinality(Announcements) <= Cardinality(Announcements')
<1>1. /\ Len(inbox) \in Nat \ {0} /\ Len(inbox') = Len(inbox) - 1
      /\ \A k \in 1..Len(inbox') : inbox'[k] = inbox[k + 1]
      /\ Head(inbox) = inbox[1]
  BY DispatchInbox
<1>2. /\ IsFiniteSet(Announcements) /\ Cardinality(Announcements) \in Nat
      /\ IsFiniteSet(Announcements') /\ Cardinality(Announcements') \in Nat
  BY AnnouncementsFinite DEF TypeOK, Announcements
<1> DEFINE rest == Announcements \ {1}
           f == [k \in rest |-> k - 1]
<1>3. \A k \in rest : k \in Nat /\ k - 1 \in Announcements'
  BY <1>1 DEF Announcements
<1>4. f \in Injection(rest, Announcements')
  <2>1. f \in [rest -> Announcements']
    BY <1>3
  <2>2. \A a, b \in rest : f[a] = f[b] => a = b
    BY <1>3
  <2> HIDE DEF f, rest
  <2>3. QED
    BY <2>1, <2>2, Fun_IsInj
<1>5. Cardinality(rest) <= Cardinality(Announcements')
  BY <1>2, <1>4, FS_Injection
<1>6. Cardinality(rest) =
        IF 1 \in Announcements THEN Cardinality(Announcements) - 1 ELSE Cardinality(Announcements)
  BY <1>2, FS_RemoveElement
<1>7. 1 \in Announcements <=> Head(inbox).name = "TaskAdded"
  BY <1>1 DEF Announcements
<1>8. QED
  BY <1>2, <1>5, <1>6, <1>7

\* Sending a signal adds one, if it is one.
LEMMA AnnouncementsSent ==
  ASSUME TypeOK, NEW sig \in Signal, inbox' = Append(inbox, sig)
  PROVE  /\ sig.name # "TaskAdded" => Announcements' = Announcements
         /\ sig.name = "TaskAdded" =>
              Announcements' = Announcements \cup {Len(inbox) + 1}
              /\ Cardinality(Announcements') = Cardinality(Announcements) + 1
         /\ \A k \in Announcements : inbox'[k] = inbox[k]
         /\ inbox'[Len(inbox) + 1] = sig
<1>1. /\ Len(inbox) \in Nat /\ Len(inbox') = Len(inbox) + 1
      /\ \A k \in 1..Len(inbox) : inbox'[k] = inbox[k]
      /\ inbox'[Len(inbox) + 1] = sig
  BY AppendProperties, InboxLen DEF TypeOK
<1>2. 1..Len(inbox') = (1..Len(inbox)) \cup {Len(inbox) + 1} /\ Len(inbox) + 1 \notin 1..Len(inbox)
  BY <1>1
<1>3. sig.name # "TaskAdded" => Announcements' = Announcements
  BY <1>1, <1>2 DEF Announcements
<1>4. sig.name = "TaskAdded" =>
        /\ Announcements' = Announcements \cup {Len(inbox) + 1}
        /\ Len(inbox) + 1 \notin Announcements
  BY <1>1, <1>2 DEF Announcements
<1>5. sig.name = "TaskAdded" => Cardinality(Announcements') = Cardinality(Announcements) + 1
  <2>1. IsFiniteSet(Announcements)
    BY AnnouncementsFinite DEF TypeOK, Announcements
  <2>2. QED
    BY <1>4, <2>1, FS_AddElement
<1>6. QED
  BY <1>1, <1>3, <1>4, <1>5 DEF Announcements

\* A task that is followed goes on to be.
LEMMA ComesSent ==
  ASSUME TypeOK, NEW p, NEW k \in Nat, k <= Len(inbox), Comes(p, k), NEW sig,
         \/ UNCHANGED inbox /\ (p \in removed' => p \in removed)
         \/ /\ inbox' = Append(inbox, sig) /\ sig \in Signal
            /\ p \in removed' => p \in removed \/ (sig.name = "TaskRemoved" /\ sig.path = p)
  PROVE  Comes(p, k)'
<1>1. CASE UNCHANGED inbox /\ (p \in removed' => p \in removed)
  BY <1>1 DEF Comes
<1>2. CASE inbox' = Append(inbox, sig) /\ sig \in Signal
           /\ (p \in removed' => p \in removed \/ (sig.name = "TaskRemoved" /\ sig.path = p))
  <2>1. /\ Len(inbox) \in Nat /\ Len(inbox') = Len(inbox) + 1
        /\ \A l \in 1..Len(inbox) : inbox'[l] = inbox[l]
        /\ inbox'[Len(inbox) + 1] = sig
    BY <1>2, AppendProperties, InboxLen DEF TypeOK
  <2>2. \A l \in (k + 1)..Len(inbox) : l \in (k + 1)..Len(inbox') /\ inbox'[l] = inbox[l]
    BY <2>1
  <2>3. Len(inbox) + 1 \in (k + 1)..Len(inbox')
    BY <2>1
  <2>4. QED
    BY <1>2, <2>1, <2>2, <2>3 DEF Comes
<1>3. QED
  BY <1>1, <1>2

LEMMA ComesDispatched ==
  ASSUME TypeOK, NextSignal, UNCHANGED removed, NEW p, NEW k \in Nat, Comes(p, k)
  PROVE  /\ k > 0 => Comes(p, k - 1)'
         /\ k = 0 /\ ~(Head(inbox).name = "TaskRemoved" /\ Head(inbox).path = p) => Comes(p, 0)'
<1>1. /\ Len(inbox) \in Nat \ {0} /\ Len(inbox') = Len(inbox) - 1
      /\ \A l \in 1..Len(inbox') : inbox'[l] = inbox[l + 1]
      /\ Head(inbox) = inbox[1]
  BY DispatchInbox
<1>2. SUFFICES ASSUME p \in removed,
                      k = 0 => ~(Head(inbox).name = "TaskRemoved" /\ Head(inbox).path = p)
               PROVE  \E l \in (IF k = 0 THEN 1 ELSE k)..Len(inbox') :
                        inbox'[l].name = "TaskRemoved" /\ inbox'[l].path = p
  BY DEF Comes
<1>3. PICK m \in (k + 1)..Len(inbox) : inbox[m].name = "TaskRemoved" /\ inbox[m].path = p
  BY <1>2 DEF Comes
<1>4. m # 1
  BY <1>1, <1>2, <1>3
<1>5. m - 1 \in (IF k = 0 THEN 1 ELSE k)..Len(inbox') /\ m - 1 \in 1..Len(inbox') /\ (m - 1) + 1 = m
  BY <1>1, <1>3, <1>4
<1>6. inbox'[m - 1] = inbox[m]
  BY <1>1, <1>5
<1>7. QED
  BY <1>3, <1>5, <1>6

\* No task is announced, and slots are kept or given up.
LEMMA AttendedSent ==
  ASSUME TypeOK, Attended, NEW sig,
         \/ UNCHANGED <<inbox, removed>>
         \/ /\ inbox' = Append(inbox, sig) /\ sig \in Signal /\ sig.name # "TaskAdded"
            /\ \A p \in removed' : \/ p \in removed
                                   \/ sig.name = "TaskRemoved" /\ sig.path = p
                                      /\ task[p] # "Unknown",
         removed' \subseteq Paths,
         \A p \in Paths : task[p] # "Unknown" => task'[p] # "Unknown",
         \A o \in Ops : request'[o] # "accepted" =>
           request[o] # "accepted" /\ task'[o] = task[o],
         \A i \in Slots : tasks'[i].path \in {None, tasks[i].path}
  PROVE  Attended'
<1>1. /\ Len(inbox) \in Nat /\ Announcements' = Announcements
      /\ Announcements \subseteq 1..Len(inbox)
      /\ \A k \in Announcements : inbox'[k] = inbox[k]
  <2>1. Len(inbox) \in Nat /\ Announcements \subseteq 1..Len(inbox)
    BY InboxLen DEF Announcements
  <2>2. CASE UNCHANGED inbox
    BY <2>1, <2>2 DEF Announcements
  <2>3. CASE inbox' = Append(inbox, sig) /\ sig \in Signal /\ sig.name # "TaskAdded"
    BY <2>1, <2>3, AnnouncementsSent
  <2>4. QED
    BY <2>2, <2>3
<1>2. \A p, k : k \in 0..Len(inbox) /\ Comes(p, k) => Comes(p, k)'
  <2>1. ASSUME NEW p, NEW k \in 0..Len(inbox), Comes(p, k) PROVE Comes(p, k)'
    <3>1. k \in Nat /\ k <= Len(inbox)
      BY <1>1
    <3>2. QED
      BY <2>1, <3>1, ComesSent
  <2>2. QED
    BY <2>1
<1>3. \A k \in Announcements : inbox[k].path \in Paths /\ k \in 0..Len(inbox)
  <2>1. \A k \in 1..Len(inbox) : inbox[k] \in Signal
    BY ElementOfSeq DEF TypeOK
  <2>2. QED
    BY <1>1, <2>1 DEF Signal
<1>4. \A i \in Slots : Active(i)' => Active(i) /\ tasks'[i].path = tasks[i].path
  BY DEF Active
<1>5. \A i \in Slots : Active(i) => tasks[i].path \in Paths
  BY DEF TypeOK, Active, Entry
<1>6. \A o \in Ops : request'[o] # "accepted" => task'[o] = "Unknown"
  BY DEF Attended
<1>7. \A p \in removed' : task'[p] # "Unknown"
  BY DEF Attended
<1>8. ASSUME NEW i \in Slots, Active(i)'
      PROVE  (task[tasks[i].path] # "Unknown" /\ Comes(tasks[i].path, 0))'
  <2>1. task[tasks[i].path] # "Unknown" /\ Comes(tasks[i].path, 0) /\ tasks[i].path \in Paths
    BY <1>4, <1>5, <1>8 DEF Attended
  <2>2. 0 \in 0..Len(inbox)
    BY <1>1
  <2>3. PICK p \in Paths : p = tasks[i].path
    BY <2>1
  <2>4. Comes(p, 0)'
    BY <1>2, <2>1, <2>2, <2>3
  <2>5. QED
    BY <1>4, <1>8, <2>1, <2>3, <2>4 DEF Comes
<1>9. ASSUME NEW i \in Slots, NEW j \in Slots, Active(i)', tasks'[i].path = tasks'[j].path
      PROVE  i = j
  BY <1>4, <1>9 DEF Attended, Active
<1>10. ASSUME NEW k \in Announcements'
       PROVE  /\ (task[inbox[k].path] # "Unknown" /\ Comes(inbox[k].path, k))'
              /\ \A i \in Slots : tasks'[i].path # inbox'[k].path
              /\ \A l \in Announcements' : inbox'[l].path = inbox'[k].path => l = k
  <2>1. /\ k \in Announcements /\ inbox'[k] = inbox[k] /\ inbox[k].path \in Paths
        /\ k \in 0..Len(inbox)
    BY <1>1, <1>3, <1>10
  <2>2. /\ task[inbox[k].path] # "Unknown" /\ Comes(inbox[k].path, k)
        /\ \A i \in Slots : tasks[i].path # inbox[k].path
        /\ \A l \in Announcements : inbox[l].path = inbox[k].path => l = k
    BY <2>1 DEF Attended
  <2>3. PICK p \in Paths : p = inbox[k].path
    BY <2>1
  <2>4. Comes(p, k)'
    BY <1>2, <2>1, <2>2, <2>3
  <2>5. None # p
    BY ConstantsAssumption
  <2>6. QED
    BY <1>1, <2>1, <2>2, <2>3, <2>4, <2>5 DEF Comes
<1>11. QED
  BY <1>6, <1>7, <1>8, <1>9, <1>10 DEF Attended

\* A task is created and announced.
LEMMA AttendedCreated ==
  ASSUME TypeOK, Attended, NEW p \in Paths, task[p] = "Unknown", CreateTask(p),
         UNCHANGED <<tasks, removed>>,
         \A o \in Ops : request'[o] # "accepted" => request[o] # "accepted" /\ o # p
  PROVE  Attended'
<1> DEFINE sig == [name |-> "TaskAdded", path |-> p, state |-> "Queued"]
           last == Len(inbox) + 1
<1>1. sig \in Signal /\ sig.name = "TaskAdded" /\ sig.path = p
  BY DEF Signal, SignalName, TaskState
<1>2. inbox' = Append(inbox, sig)
  BY DEF CreateTask, Emit, Subscribed
<1>3. /\ task'[p] # "Unknown" /\ \A q \in Paths : q # p => task'[q] = task[q]
  BY DEF CreateTask, TypeOK
<1> HIDE DEF sig
<1>4. /\ Announcements' = Announcements \cup {last}
      /\ \A k \in Announcements : inbox'[k] = inbox[k]
      /\ inbox'[last] = sig
  BY <1>1, <1>2, AnnouncementsSent
<1>5. /\ Len(inbox) \in Nat /\ Announcements \subseteq 1..Len(inbox)
      /\ \A k \in Announcements : k \in 0..Len(inbox) /\ inbox[k].path \in Paths
  <2>1. Len(inbox) \in Nat /\ \A k \in 1..Len(inbox) : inbox[k] \in Signal
    BY ElementOfSeq, InboxLen DEF TypeOK
  <2>2. QED
    BY <2>1 DEF Signal, Announcements
<1>6. \A q, k : k \in 0..Len(inbox) /\ Comes(q, k) => Comes(q, k)'
  <2>1. ASSUME NEW q, NEW k \in 0..Len(inbox), Comes(q, k) PROVE Comes(q, k)'
    <3>1. k \in Nat /\ k <= Len(inbox)
      BY <1>5
    <3>2. QED
      BY <1>1, <1>2, <2>1, <3>1, ComesSent
  <2>2. QED
    BY <2>1
<1>7. /\ \A i \in Slots : Active(i) => tasks[i].path \in Paths
      /\ \A i \in Slots : Active(i)' <=> Active(i)
      /\ p # None
  BY ConstantsAssumption DEF TypeOK, Active, Entry
<1>8. /\ p \notin removed /\ \A i \in Slots : tasks[i].path # p
      /\ \A k \in Announcements : inbox[k].path # p
  BY <1>7 DEF Attended, Active
<1>9. \A o \in Ops : request'[o] # "accepted" => task'[o] = "Unknown"
  BY <1>3 DEF Attended, Paths
<1>10. \A q \in removed' : task'[q] # "Unknown"
  BY <1>3 DEF Attended, TypeOK
<1>11. ASSUME NEW i \in Slots, Active(i)'
       PROVE  (task[tasks[i].path] # "Unknown" /\ Comes(tasks[i].path, 0))'
  <2>1. /\ task[tasks[i].path] # "Unknown" /\ Comes(tasks[i].path, 0)
        /\ tasks[i].path \in Paths /\ tasks'[i].path = tasks[i].path
    BY <1>7, <1>11 DEF Attended
  <2>2. PICK q \in Paths : q = tasks[i].path
    BY <2>1
  <2>3. 0 \in 0..Len(inbox)
    BY <1>5
  <2>4. Comes(q, 0)'
    BY <1>6, <2>1, <2>2, <2>3
  <2>5. QED
    BY <1>3, <2>1, <2>2, <2>4 DEF Comes
<1>12. ASSUME NEW k \in Announcements'
       PROVE  /\ (task[inbox[k].path] # "Unknown" /\ Comes(inbox[k].path, k))'
              /\ \A i \in Slots : tasks'[i].path # inbox'[k].path
              /\ \A l \in Announcements' : inbox'[l].path = inbox'[k].path => l = k
  <2>1. CASE k = last
    <3>1. inbox'[k].path = p /\ \A l \in Announcements : inbox'[l].path # p
      BY <1>1, <1>4, <1>8, <2>1
    <3>2. QED
      BY <1>3, <1>4, <1>8, <2>1, <3>1 DEF Comes
  <2>2. CASE k \in Announcements
    <3>1. /\ inbox'[k] = inbox[k] /\ inbox[k].path \in Paths /\ k \in 0..Len(inbox)
          /\ inbox[k].path # p /\ inbox'[last].path = p
      BY <1>1, <1>4, <1>5, <1>8, <2>2
    <3>2. /\ task[inbox[k].path] # "Unknown" /\ Comes(inbox[k].path, k)
          /\ \A i \in Slots : tasks[i].path # inbox[k].path
          /\ \A l \in Announcements : inbox[l].path = inbox[k].path => l = k
      BY <2>2 DEF Attended
    <3>3. PICK q \in Paths : q = inbox[k].path
      BY <3>1
    <3>4. Comes(q, k)'
      BY <1>6, <3>1, <3>2, <3>3
    <3>5. QED
      BY <1>3, <1>4, <3>1, <3>2, <3>3, <3>4 DEF Comes
  <2>3. QED
    BY <1>4, <1>12, <2>1, <2>2
<1>13. QED
  BY <1>9, <1>10, <1>11, <1>12 DEF Attended, Active

\* A signal is dispatched: at most one slot is bound, to the task announced, and
\* a removed task loses its slot.
LEMMA AttendedDispatched ==
  ASSUME TypeOK, Attended, NextSignal, UNCHANGED <<task, removed, request>>,
         NEW b,
         \A i \in Slots : i # b => tasks'[i].path \in {None, tasks[i].path},
         b \in Slots => \/ tasks'[b].path \in {None, tasks[b].path}
                        \/ Head(inbox).name = "TaskAdded" /\ tasks'[b].path = Head(inbox).path,
         Head(inbox).name = "TaskRemoved" => \A i \in Slots : tasks'[i].path # Head(inbox).path
  PROVE  Attended'
<1>a. PICK p : p = Head(inbox).path
  OBVIOUS
<1>1. /\ Len(inbox) \in Nat \ {0} /\ Len(inbox') = Len(inbox) - 1
      /\ \A k \in 1..Len(inbox') : inbox'[k] = inbox[k + 1]
      /\ Head(inbox) = inbox[1] /\ p \in Paths
  BY <1>a, DispatchInbox, DispatchType
<1>2. /\ \A k \in Announcements' : k \in Nat /\ k + 1 \in Announcements
                                   /\ inbox'[k] = inbox[k + 1] /\ k + 1 # 1
      /\ Head(inbox).name = "TaskAdded" => 1 \in Announcements /\ inbox[1].path = p
  <2>1. \A k \in 1..Len(inbox') : k \in Nat /\ k + 1 \in 1..Len(inbox) /\ k + 1 # 1
    BY <1>1
  <2>2. 1 \in 1..Len(inbox)
    BY <1>1
  <2>3. QED
    BY <1>a, <1>1, <2>1, <2>2 DEF Announcements
<1>3. \A q, k, m : k \in Nat /\ m = k + 1 /\ Comes(q, m) => Comes(q, k)'
  <2>1. ASSUME NEW q, NEW k \in Nat, NEW m, m = k + 1, Comes(q, m) PROVE Comes(q, k)'
    <3>1. m \in Nat /\ m > 0 /\ m - 1 = k
      BY <2>1
    <3>2. QED
      BY <2>1, <3>1, ComesDispatched
  <2>2. QED
    BY <2>1
<1>4. \A q : Comes(q, 0) /\ ~(Head(inbox).name = "TaskRemoved" /\ q = p) => Comes(q, 0)'
  BY <1>a, ComesDispatched
<1>5. \A i \in Slots : Active(i)' =>
        \/ tasks'[i].path = tasks[i].path /\ Active(i)
        \/ i = b /\ Head(inbox).name = "TaskAdded" /\ tasks'[i].path = p
  BY <1>a DEF Active
<1>6. Head(inbox).name = "TaskAdded" =>
        /\ task[p] # "Unknown" /\ Comes(p, 1)
        /\ \A i \in Slots : tasks[i].path # p
        /\ \A l \in Announcements : inbox[l].path = p => l = 1
  BY <1>2 DEF Attended
<1>7. ASSUME NEW i \in Slots, Active(i)'
      PROVE  (task[tasks[i].path] # "Unknown" /\ Comes(tasks[i].path, 0))'
  <2>1. CASE tasks'[i].path = tasks[i].path /\ Active(i)
    <3>1. PICK q : q = tasks[i].path
      OBVIOUS
    <3>2. task[q] # "Unknown" /\ Comes(q, 0)
      BY <2>1, <3>1 DEF Attended
    <3>3. Head(inbox).name = "TaskRemoved" => q # p
      BY <1>a, <2>1, <3>1
    <3>4. Comes(q, 0)'
      BY <1>4, <3>2, <3>3
    <3>5. QED
      BY <2>1, <3>1, <3>2, <3>4 DEF Comes
  <2>2. CASE Head(inbox).name = "TaskAdded" /\ tasks'[i].path = p
    <3>1. 0 \in Nat /\ 0 + 1 = 1
      OBVIOUS
    <3>2. Comes(p, 0)'
      BY <1>3, <1>6, <2>2, <3>1
    <3>3. QED
      BY <1>6, <2>2, <3>2 DEF Comes
  <2>3. QED
    BY <1>5, <1>7, <2>1, <2>2
<1>8. ASSUME NEW i \in Slots, NEW j \in Slots, Active(i)', tasks'[i].path = tasks'[j].path
      PROVE  i = j
  <2>1. Active(j)'
    BY <1>8 DEF Active
  <2>2. QED
    BY <1>5, <1>6, <1>8, <2>1 DEF Attended
<1>9. ASSUME NEW k \in Announcements'
      PROVE  /\ (task[inbox[k].path] # "Unknown" /\ Comes(inbox[k].path, k))'
             /\ \A i \in Slots : tasks'[i].path # inbox'[k].path
             /\ \A l \in Announcements' : inbox'[l].path = inbox'[k].path => l = k
  <2>1. /\ k \in Nat /\ k + 1 \in Announcements /\ inbox'[k] = inbox[k + 1] /\ k + 1 # 1
    BY <1>2, <1>9
  <2>2. PICK q : q = inbox[k + 1].path
    OBVIOUS
  <2>3. /\ task[q] # "Unknown" /\ Comes(q, k + 1)
        /\ \A i \in Slots : tasks[i].path # q
        /\ \A l \in Announcements : inbox[l].path = q => l = k + 1
    BY <2>1, <2>2 DEF Attended
  <2>4. Comes(q, k)'
    BY <1>3, <2>1, <2>3
  <2>5. Head(inbox).name = "TaskAdded" => q # p
    BY <1>2, <2>1, <2>2, <2>3
  <2>6. q # None
    <3>1. \A l \in 1..Len(inbox) : inbox[l] \in Signal
      BY ElementOfSeq DEF TypeOK
    <3>2. QED
      BY <2>1, <2>2, <3>1, ConstantsAssumption DEF Signal, Announcements
  <2>7. \A i \in Slots : tasks'[i].path # q
    BY <1>a, <2>3, <2>5, <2>6
  <2>8. \A l \in Announcements' : inbox'[l].path = q => l = k
    <3>1. SUFFICES ASSUME NEW l \in Announcements', inbox'[l].path = q PROVE l = k
      OBVIOUS
    <3>2. l \in Nat /\ l + 1 \in Announcements /\ inbox[l + 1].path = q
      BY <1>2, <3>1
    <3>3. l + 1 = k + 1
      BY <2>3, <3>2
    <3>4. QED
      BY <2>1, <3>2, <3>3
  <2>9. QED
    BY <2>1, <2>2, <2>3, <2>4, <2>7, <2>8 DEF Comes
<1>10. QED
  BY <1>7, <1>8, <1>9 DEF Attended

\* No callback is queued without a task of its own to come, or any other.
LEMMA ClaimedStep ==
  ASSUME Inv, Inv', Claimed, [Next]_vars
  PROVE  Claimed'
<1>0. /\ TypeOK /\ TypeOK' /\ None \notin Ops
      /\ Len(pending) \in Nat /\ Len(pending') \in Nat
      /\ Cardinality(Announcements) \in Nat /\ Cardinality(Announcements') \in Nat
      /\ Unanswered \in {0, 1} /\ Unanswered' \in {0, 1}
  <2>1. TypeOK /\ TypeOK' /\ None \notin Ops
    BY ConstantsAssumption DEF Inv, Paths
  <2>2. Cardinality(Announcements) \in Nat /\ Cardinality(Announcements') \in Nat
    BY <2>1, AnnouncementsFinite DEF TypeOK, Announcements
  <2>3. Len(pending) \in Nat /\ Len(pending') \in Nat
    BY <2>1, LenProperties DEF TypeOK
  <2>4. QED
    BY <2>1, <2>2, <2>3 DEF Unanswered
<1>1. ASSUME Cardinality(Announcements) <= Cardinality(Announcements'),
             Len(pending') + Unanswered <= Len(pending) + Unanswered'
      PROVE  Claimed'
  BY <1>0, <1>1 DEF Claimed
<1>2. ASSUME UNCHANGED inbox PROVE Cardinality(Announcements) <= Cardinality(Announcements')
  BY <1>0, <1>2 DEF Announcements
<1>3. ASSUME UNCHANGED <<calling, request>> PROVE Unanswered' = Unanswered
  BY <1>3 DEF Unanswered
<1>4. ASSUME UNCHANGED <<pending, calling, request, inbox>> PROVE Claimed'
  BY <1>0, <1>1, <1>2, <1>3, <1>4
<1>5. CASE UNCHANGED vars
  BY <1>4, <1>5 DEF vars, client, daemon
<1>6. ASSUME NEW o \in Ops, RequestInvalid(o) PROVE Claimed'
  BY <1>4, <1>6 DEF RequestInvalid, client, daemon
<1>7. ASSUME NEW o \in Ops, RequestCall(o) PROVE Claimed'
  <2>1. calling = None /\ calling' = o /\ request'[o] = "sent" /\ UNCHANGED inbox
    BY <1>0, <1>7 DEF RequestCall, Idle, TypeOK
  <2>2. Unanswered = 0 /\ Unanswered' = 1
    BY <1>0, <2>1 DEF Unanswered
  <2>3. Len(pending') <= Len(pending) + 1
    <3>1. pending' = pending \/ pending' = PendingPush(pending, o)
      BY <1>7 DEF RequestCall
    <3>2. pending \in Seq(Ops)
      BY <1>0 DEF TypeOK
    <3>3. Len(PendingPush(pending, o)) = Len(pending) + 1
      BY <3>2, PushProperties
    <3>4. QED
      BY <1>0, <3>1, <3>3
  <2>4. QED
    BY <1>0, <1>1, <1>2, <2>1, <2>2, <2>3
<1>8. CASE CallSucceeds
  <2>1. /\ request[calling] = "accepted" /\ calling' = None
        /\ UNCHANGED <<pending, inbox, request>>
    BY <1>8 DEF CallSucceeds, daemon
  <2>2. Unanswered = 0 /\ Unanswered' = 0
    BY <2>1 DEF Unanswered
  <2>3. QED
    BY <1>0, <1>1, <1>2, <2>1, <2>2
<1>9. CASE CallFails
  <2>1. pending' = PendingPopTail(pending) /\ calling' = None /\ UNCHANGED inbox
    BY <1>9 DEF CallFails
  <2>2. Unanswered' = 0 /\ pending \in Seq(Ops)
    BY <1>0, <2>1 DEF Unanswered, TypeOK
  <2>3. Len(pending') = IF pending = <<>> THEN 0 ELSE Len(pending) - 1
    BY <2>1, <2>2, PopTailProperties
  <2>4. Cardinality(Announcements) <= Cardinality(Announcements')
    BY <1>2, <2>1
  <2>5. QED
    BY <1>0, <2>2, <2>3, <2>4 DEF Claimed
<1>10. ASSUME OnTaskAdded \/ OnTaskAddedRefused PROVE Claimed'
  <2>1. /\ NextSignal /\ Head(inbox).name = "TaskAdded" /\ UNCHANGED <<calling, request>>
        /\ pending # <<>> /\ pending' = PendingPop(pending)
    BY <1>10 DEF OnTaskAdded, OnTaskAddedRefused, Dispatch, daemon
  <2>2. Cardinality(Announcements) <= Cardinality(Announcements') + 1
    BY <1>0, <2>1, AnnouncementsDispatched
  <2>3. Len(pending') = Len(pending) - 1
    BY <1>0, <2>1, PopProperties DEF TypeOK
  <2>4. QED
    BY <1>0, <1>3, <2>1, <2>2, <2>3 DEF Claimed
<1>11. CASE OnTaskAddedUnclaimed
  BY <1>0, <1>11 DEF OnTaskAddedUnclaimed, Claimed, client
<1>12. ASSUME NextSignal, Head(inbox).name # "TaskAdded", UNCHANGED <<pending, calling, request>>
       PROVE  Claimed'
  <2>1. Cardinality(Announcements) <= Cardinality(Announcements')
    BY <1>0, <1>12, AnnouncementsDispatched
  <2>2. QED
    BY <1>0, <1>1, <1>3, <1>12, <2>1
<1>13. ASSUME OnPropertiesChanged \/ OnRequestInteraction \/ OnTaskRemoved \/ OnUnboundSignal
       PROVE  Claimed'
  BY <1>12, <1>13
  DEF OnPropertiesChanged, OnRequestInteraction, OnTaskRemoved, OnUnboundSignal, Dispatch,
      client, daemon
<1>14. ASSUME SubscribeInteraction \/ SubscribeInteractionFails \/ ReadInitialProperties
       PROVE  Claimed'
  BY <1>4, <1>14
  DEF SubscribeInteraction, SubscribeInteractionFails, ReadInitialProperties, daemon
<1>15. ASSUME NEW p \in Paths, CreateTask(p)
       PROVE  Cardinality(Announcements') = Cardinality(Announcements) + 1
  <2> DEFINE sig == [name |-> "TaskAdded", path |-> p, state |-> "Queued"]
  <2>1. sig \in Signal /\ sig.name = "TaskAdded" /\ inbox' = Append(inbox, sig)
    BY <1>15 DEF Signal, SignalName, TaskState, CreateTask, Emit, Subscribed
  <2>2. QED
    BY <1>0, <2>1, AnnouncementsSent
<1>16. ASSUME NEW o \in Ops, DaemonAccept(o) PROVE Claimed'
  <2>1. CreateTask(o) /\ o \in Paths /\ UNCHANGED <<pending, calling>>
    BY <1>16 DEF DaemonAccept, client, Paths
  <2>2. Cardinality(Announcements') = Cardinality(Announcements) + 1
    BY <1>15, <2>1
  <2>3. QED
    BY <1>0, <2>1, <2>2 DEF Claimed
<1>17. ASSUME NEW o \in Ops, DaemonReject(o) PROVE Claimed'
  <2>1. /\ request[o] = "sent" /\ request' = [request EXCEPT ![o] = "rejected"]
        /\ UNCHANGED <<pending, calling, inbox>>
    BY <1>17 DEF DaemonReject, client
  <2>2. calling \in Ops => (request'[calling] = "accepted" <=> request[calling] = "accepted")
    BY <1>0, <2>1 DEF TypeOK
  <2>3. Unanswered' = Unanswered
    BY <1>0, <2>1, <2>2 DEF Unanswered, TypeOK
  <2>4. QED
    BY <1>0, <1>1, <1>2, <2>1, <2>3
<1>18. ASSUME NEW p \in Foreign, DaemonForeign(p) PROVE Claimed'
  <2>1. CreateTask(p) /\ p \in Paths /\ UNCHANGED <<pending, calling, request>>
    BY <1>18 DEF DaemonForeign, client, Paths
  <2>2. Cardinality(Announcements') = Cardinality(Announcements) + 1
    BY <1>15, <2>1
  <2>3. QED
    BY <1>0, <1>1, <1>3, <2>1, <2>2
<1>19. ASSUME NEW p \in Paths, NEW name \in SignalName \ {"TaskAdded"}, NEW s \in TaskState,
              Emit(name, p, s), UNCHANGED <<client, request>>
       PROVE  Claimed'
  <2> DEFINE sig == [name |-> name, path |-> p, state |-> s]
  <2>1. sig \in Signal /\ sig.name # "TaskAdded" /\ UNCHANGED <<pending, calling, request>>
    BY <1>19 DEF Signal, client
  <2>2. inbox' = inbox \/ inbox' = Append(inbox, sig)
    BY <1>19 DEF Emit
  <2>3. Announcements' = Announcements
    BY <1>0, <2>1, <2>2, AnnouncementsSent DEF Announcements
  <2>4. QED
    BY <1>0, <1>1, <1>3, <2>1, <2>3
<1>20. /\ {"PropertiesChanged", "RequestInteraction", "TaskRemoved"}
            \subseteq SignalName \ {"TaskAdded"}
       /\ {"Processing", "Canceled"} \cup Outcomes \subseteq TaskState
  BY ConstantsAssumption DEF SignalName, TaskState, Terminal
<1>21. ASSUME NEW p \in Paths, CancelTask(p) \/ DaemonStart(p) \/ DaemonAsk(p)
       PROVE  Claimed'
  BY <1>19, <1>20, <1>21 DEF CancelTask, DaemonStart, DaemonAsk
<1>22. ASSUME NEW p \in Paths, DaemonRemove(p) PROVE Claimed'
  <2>1. task[p] \in TaskState
    BY <1>0 DEF TypeOK
  <2>2. QED
    BY <1>19, <1>20, <1>22, <2>1 DEF DaemonRemove
<1>23. ASSUME NEW p \in Paths, NEW s \in Outcomes, DaemonFinish(p, s) PROVE Claimed'
  BY <1>19, <1>20, <1>23 DEF DaemonFinish
<1>24. QED
  BY <1>5, <1>6, <1>7, <1>8, <1>9, <1>10, <1>11, <1>13, <1>14, <1>16, <1>17, <1>18,
     <1>21, <1>22, <1>23
  DEF Next, Process

\* Nor is a slot left with a task that is gone.
LEMMA AttendedStep ==
  ASSUME Inv, Inv', Attended, [Next]_vars
  PROVE  Attended'
<1>0. TypeOK /\ TypeOK' /\ Bookkeeping
  BY DEF Inv
<1>1. ASSUME UNCHANGED <<inbox, task, removed>>,
             \A o \in Ops : request'[o] # "accepted" => request[o] # "accepted",
             \A i \in Slots : tasks'[i].path \in {None, tasks[i].path}
      PROVE  Attended'
  <2>1. removed' \subseteq Paths
    BY <1>0 DEF TypeOK
  <2>2. QED
    BY <1>0, <1>1, <2>1, AttendedSent
<1>2. ASSUME UNCHANGED <<inbox, task, removed, request, tasks>> PROVE Attended'
  BY <1>1, <1>2
<1>3. ASSUME UNCHANGED vars \/ CallSucceeds \/ CallFails \/ \E o \in Ops : RequestInvalid(o)
      PROVE  Attended'
  BY <1>2, <1>3 DEF vars, client, daemon, CallSucceeds, CallFails, RequestInvalid
<1>4. ASSUME NEW o \in Ops, RequestCall(o) PROVE Attended'
  <2>1. /\ UNCHANGED <<inbox, task, removed, tasks>> /\ request[o] = "new"
        /\ request' = [request EXCEPT ![o] = "sent"]
    BY <1>4 DEF RequestCall, IsNew
  <2>2. \A q \in Ops : request'[q] # "accepted" => request[q] # "accepted"
    BY <1>0, <2>1 DEF TypeOK
  <2>3. QED
    BY <1>1, <2>1, <2>2
<1>5. ASSUME NEW i \in Slots, NEW e, tasks' = [tasks EXCEPT ![i] = e],
             e.path \in {None, tasks[i].path}
      PROVE  \A j \in Slots : tasks'[j].path \in {None, tasks[j].path}
  BY <1>0, <1>5 DEF TypeOK
<1>6. ASSUME SubscribeInteraction \/ SubscribeInteractionFails \/ ReadInitialProperties
      PROVE  Attended'
  <2>1. opening \in Slots /\ UNCHANGED <<inbox, task, removed, request>>
    BY <1>0, <1>6, OpeningSlot
    DEF SubscribeInteraction, SubscribeInteractionFails, ReadInitialProperties, daemon
  <2>2. tasks \in [Slots -> Entry]
    BY <1>0 DEF TypeOK
  <2>3. \A j \in Slots : tasks'[j].path \in {None, tasks[j].path}
    BY <1>6, <2>1, <2>2
    DEF SubscribeInteraction, SubscribeInteractionFails, ReadInitialProperties, ClearedTask, Entry
  <2>4. QED
    BY <1>1, <2>1, <2>3
<1>7. CASE OnTaskAdded
  <2>1. PICK b \in Slots :
          tasks' = [tasks EXCEPT ![b] = BoundEntry(Head(pending), Head(inbox).path)]
    BY <1>7 DEF OnTaskAdded
  <2>2. /\ NextSignal /\ Head(inbox).name = "TaskAdded"
        /\ UNCHANGED <<task, removed, request>>
    BY <1>7 DEF OnTaskAdded, Dispatch, daemon
  <2>3. /\ \A i \in Slots : i # b => tasks'[i].path = tasks[i].path
        /\ tasks'[b].path = Head(inbox).path
    BY <1>0, <2>1 DEF TypeOK, BoundEntry
  <2>4. QED
    BY <1>0, <2>2, <2>3, AttendedDispatched
<1>8. ASSUME NextSignal, UNCHANGED <<task, removed, request>>,
             \A i \in Slots : tasks'[i].path \in {None, tasks[i].path},
             Head(inbox).name = "TaskRemoved" =>
               \A i \in Slots : tasks'[i].path # Head(inbox).path
      PROVE  Attended'
  BY <1>0, <1>8, AttendedDispatched
<1>9. ASSUME OnTaskAddedUnclaimed \/ OnTaskAddedRefused \/ OnRequestInteraction \/ OnUnboundSignal
      PROVE  Attended'
  <2>1. /\ NextSignal /\ UNCHANGED <<tasks, task, removed, request>>
        /\ Head(inbox).name = "TaskRemoved" => \A i \in Slots : tasks[i].path # Head(inbox).path
    BY <1>9
    DEF OnTaskAddedUnclaimed, OnTaskAddedRefused, OnRequestInteraction, OnUnboundSignal,
        Dispatch, client, daemon
  <2>2. QED
    BY <1>8, <2>1
<1>10. CASE OnPropertiesChanged
  <2>1. /\ NextSignal /\ UNCHANGED <<task, removed, request>>
        /\ Head(inbox).name = "PropertiesChanged"
    BY <1>10 DEF OnPropertiesChanged, Dispatch, daemon
  <2>2. PICK i \in Slots : tasks' = [tasks EXCEPT ![i].state = Head(inbox).state]
    BY <1>10 DEF OnPropertiesChanged
  <2>3. \A j \in Slots : tasks'[j].path = tasks[j].path
    BY <1>0, <2>2 DEF TypeOK, Entry
  <2>4. QED
    BY <1>8, <2>1, <2>3
<1>11. CASE OnTaskRemoved
  <2>1. /\ NextSignal /\ UNCHANGED <<task, removed, request>>
    BY <1>11 DEF OnTaskRemoved, Dispatch, daemon
  <2>2. PICK i \in Slots : /\ tasks[i].path = Head(inbox).path
                           /\ tasks' = [tasks EXCEPT ![i] = ClearedTask]
    BY <1>11 DEF OnTaskRemoved
  <2>3. Head(inbox).path \in Paths /\ None \notin Paths
    BY <1>0, <2>1, DispatchType, ConstantsAssumption
  <2>4. \A j \in Slots : tasks[j].path = Head(inbox).path => j = i
    BY <2>2, <2>3 DEF Attended, Active
  <2>5. /\ \A j \in Slots : j # i => tasks'[j] = tasks[j]
        /\ tasks'[i].path = None
    BY <1>0, <2>2 DEF TypeOK, ClearedTask
  <2>6. QED
    BY <1>8, <2>1, <2>3, <2>4, <2>5
<1>12. ASSUME NEW o \in Ops, DaemonAccept(o) PROVE Attended'
  <2>1. /\ request[o] = "sent" /\ request' = [request EXCEPT ![o] = "accepted"]
        /\ CreateTask(o) /\ o \in Paths /\ UNCHANGED <<tasks, removed>>
    BY <1>12 DEF DaemonAccept, client, Paths
  <2>2. \A q \in Ops : request'[q] # "accepted" => request[q] # "accepted" /\ q # o
    BY <1>0, <2>1 DEF TypeOK
  <2>3. task[o] = "Unknown"
    BY <2>1 DEF Attended
  <2>4. QED
    BY <1>0, <2>1, <2>2, <2>3, AttendedCreated
<1>13. ASSUME NEW o \in Ops, DaemonReject(o) PROVE Attended'
  <2>1. /\ request[o] = "sent" /\ request' = [request EXCEPT ![o] = "rejected"]
        /\ UNCHANGED <<inbox, task, removed, tasks>>
    BY <1>13 DEF DaemonReject, client
  <2>2. \A q \in Ops : request'[q] # "accepted" => request[q] # "accepted"
    BY <1>0, <2>1 DEF TypeOK
  <2>3. QED
    BY <1>1, <2>1, <2>2
<1>14. ASSUME NEW p \in Foreign, DaemonForeign(p) PROVE Attended'
  <2>1. /\ task[p] = "Unknown" /\ CreateTask(p) /\ p \in Paths /\ \A o \in Ops : o # p
        /\ UNCHANGED <<tasks, removed, request>>
    BY <1>14, ConstantsAssumption DEF DaemonForeign, client, Paths
  <2>2. QED
    BY <1>0, <2>1, AttendedCreated
<1>15. ASSUME NEW p \in Paths, NEW name \in SignalName \ {"TaskAdded"}, NEW s \in TaskState,
              Emit(name, p, s), UNCHANGED <<tasks, request>>,
              task[p] # "Unknown",
              \/ UNCHANGED <<removed, task>>
              \/ UNCHANGED removed /\ s # "Unknown" /\ task' = [task EXCEPT ![p] = s]
              \/ /\ name = "TaskRemoved" /\ UNCHANGED task
                 /\ removed' = removed \cup {p}
       PROVE  Attended'
  <2> DEFINE sig == [name |-> name, path |-> p, state |-> s]
  <2>1. sig \in Signal /\ sig.name # "TaskAdded" /\ sig.name = name /\ sig.path = p
    BY <1>15 DEF Signal
  <2>2. \/ UNCHANGED <<inbox, removed>>
        \/ /\ inbox' = Append(inbox, sig) /\ sig \in Signal /\ sig.name # "TaskAdded"
           /\ \A q \in removed' : \/ q \in removed
                                  \/ sig.name = "TaskRemoved" /\ sig.path = q
                                     /\ task[q] # "Unknown"
    <3>1. inbox' = Append(inbox, sig) \/ (inbox' = inbox /\ name # "TaskRemoved")
      BY <1>15 DEF Emit, Subscribed
    <3>2. QED
      BY <1>15, <2>1, <3>1
  <2>3. \A q \in Paths : task[q] # "Unknown" => task'[q] # "Unknown"
    BY <1>0, <1>15 DEF TypeOK
  <2>4. \A o \in Ops : request'[o] # "accepted" =>
          request[o] # "accepted" /\ task'[o] = task[o]
    BY <1>0, <1>15 DEF Attended, TypeOK, Paths
  <2>5. removed' \subseteq Paths
    BY <1>0 DEF TypeOK
  <2> HIDE DEF sig
  <2>6. QED
    BY <1>0, <1>15, <2>2, <2>3, <2>4, <2>5, AttendedSent
<1>16. /\ {"PropertiesChanged", "RequestInteraction", "TaskRemoved"}
            \subseteq SignalName \ {"TaskAdded"}
       /\ {"Processing", "Canceled"} \cup Outcomes \subseteq TaskState \ {"Unknown"}
       /\ "Unknown" \notin Terminal
  BY ConstantsAssumption DEF SignalName, TaskState, Terminal
<1>17. ASSUME NEW p \in Paths, CancelTask(p) PROVE Attended'
  <2>1. PICK i \in Slots : tasks[i].path = p
    BY <1>17 DEF CancelTask
  <2>2. task[p] # "Unknown"
    BY <2>1, ConstantsAssumption DEF Attended, Active
  <2>3. QED
    BY <1>15, <1>16, <1>17, <2>2 DEF CancelTask, client
<1>18. ASSUME NEW p \in Paths, DaemonStart(p) \/ DaemonAsk(p) PROVE Attended'
  BY <1>15, <1>16, <1>18 DEF DaemonStart, DaemonAsk, client
<1>19. ASSUME NEW p \in Paths, NEW s \in Outcomes, DaemonFinish(p, s) PROVE Attended'
  BY <1>15, <1>16, <1>19 DEF DaemonFinish, client
<1>20. ASSUME NEW p \in Paths, DaemonRemove(p) PROVE Attended'
  <2>1. task[p] \in TaskState /\ task[p] # "Unknown"
    BY <1>0, <1>16, <1>20 DEF DaemonRemove, TypeOK
  <2>2. QED
    BY <1>15, <1>16, <1>20, <2>1 DEF DaemonRemove, client
<1>21. QED
  BY <1>3, <1>4, <1>6, <1>7, <1>9, <1>10, <1>11, <1>12, <1>13, <1>14, <1>17, <1>18,
     <1>19, <1>20
  DEF Next, Process

LEMMA ComingInit == Init => Claimed /\ Attended
<1> SUFFICES ASSUME Init PROVE Claimed /\ Attended
  OBVIOUS
<1>1. /\ inbox = <<>> /\ Announcements = {} /\ Len(pending) = 0 /\ calling = None
      /\ \A i \in Slots : ~Active(i)
      /\ removed = {} /\ \A o \in Ops : task[o] = "Unknown"
  BY DEF Init, Announcements, Active, ClearedTask, Paths
<1>2. Cardinality({}) = 0
  BY FS_EmptySet
<1>3. QED
  BY <1>1, <1>2 DEF Claimed, Attended, Unanswered

\* Nothing an open request waits for is lost, whatever the daemon, other clients
\* and late replies do: when the client sleeps with no signal to dispatch, the
\* request is bound to a task whose TaskRemoved the daemon has yet to send.  This
\* is the safety that EveryRequestEnds rests on.
THEOREM StillToComeHolds == ASSUME "oom" \notin Faults PROVE Spec => []StillToCome
<1>1. Inv /\ NoneForgotten /\ Claimed /\ Attended => StillToCome
  <2>1. SUFFICES ASSUME Inv, NoneForgotten, Claimed, Attended, Idle, inbox = <<>>,
                        NEW o \in Ops, request[o] # "new", ended[o] = "open"
                 PROVE  \E i \in Slots :
                          /\ tasks[i].op = o
                          /\ task[tasks[i].path] # "Unknown" /\ tasks[i].path \notin removed
    BY DEF StillToCome
  <2>2. Announcements = {} /\ Len(inbox) = 0 /\ Unanswered = 0
    BY <2>1 DEF Announcements, Idle, Unanswered
  <2>3. Cardinality({}) = 0
    BY FS_EmptySet
  <2>4. pending \in Seq(Ops) /\ Len(pending) \in Nat
    BY <2>1, LenProperties DEF Inv, TypeOK
  <2>5. Len(pending) = 0
    BY <2>1, <2>2, <2>3, <2>4 DEF Claimed
  <2>6. ~Waiting(o)
    BY <2>5 DEF Waiting
  <2>7. PICK i \in Slots : tasks[i].op = o
    BY <2>1, <2>6 DEF NoneForgotten, Bound
  <2>8. Active(i)
    BY <2>1, <2>7, ConstantsAssumption DEF Inv, Bookkeeping, Paths
  <2>9. task[tasks[i].path] # "Unknown" /\ Comes(tasks[i].path, 0)
    BY <2>1, <2>8 DEF Attended
  <2>10. tasks[i].path \notin removed
    BY <2>2, <2>9 DEF Comes
  <2>11. QED
    BY <2>7, <2>9, <2>10
<1>2. Inv /\ Inv' /\ Claimed /\ Attended /\ [Next]_vars => Claimed' /\ Attended'
  BY ClaimedStep, AttendedStep
<1>3. QED
  BY <1>1, <1>2, ComingInit, InvHolds, NoneForgottenHolds, PTL DEF Spec

=============================================================================
