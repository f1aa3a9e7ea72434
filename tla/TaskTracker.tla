---------------------------- MODULE TaskTracker ----------------------------
(***************************************************************************)
(* The request and task bookkeeping of lib/: how a LinyapsContext turns    *)
(* install, uninstall and update requests into progress callbacks.         *)
(*                                                                         *)
(* A request queues its callback (pending), makes a blocking D-Bus call    *)
(* and returns.  The daemon announces the task it creates with TaskAdded;  *)
(* the handler pops the oldest queued callback, binds it to a slot of the  *)
(* task table, subscribes to the signals of the task's object and reads    *)
(* its properties.  TaskRemoved ends the binding.                          *)
(*                                                                         *)
(* The client has one thread.  While it is blocked in a D-Bus round trip   *)
(* (a method call, AddMatch or a property read) no handler runs: signals   *)
(* collect in inbox, in the order the daemon sent them, and the daemon     *)
(* goes on.  The actions below are therefore the pieces of the code        *)
(* between two round trips.  The daemon is not part of the repository: it  *)
(* is modelled from what the client code expects of it.                    *)
(***************************************************************************)
EXTENDS Integers, Sequences

CONSTANTS
  Ops,              \* requests; the callback, and the daemon's task, of o are written o
  Foreign,          \* tasks the daemon creates for other clients
  Asking,           \* tasks that ask the user to confirm
  Outcomes,         \* how a task may end by itself; it may always fail or be canceled
  MaxTasks,         \* slots of the task table
  Faults,           \* what may go wrong, a subset of FaultKinds
  HasInteractionCb, \* an interaction callback is set (the test CLI; the GUI has none)
  None              \* no request, no path

FaultKinds ==
  { "timeout",   \* a call may exceed CALL_TIMEOUT_USEC
    "oom",       \* the calloc of pending_push may fail
    "nomatch",   \* sd_bus_add_match may fail
    "vanish" }   \* the task object is gone once TaskRemoved was sent

\* LinyapsTaskState; Queued stands for Queued and Pending.
Terminal == {"Succeed", "Failed", "Canceled"}
TaskState == {"Unknown", "Queued", "Processing"} \cup Terminal

Paths == Ops \cup Foreign
Slots == 1..MaxTasks

ASSUME ConstantsAssumption ==
  /\ MaxTasks \in Nat \ {0}
  /\ Asking \subseteq Paths
  /\ Outcomes \subseteq Terminal
  /\ Outcomes \ {"Succeed"} # {}
  /\ Faults \subseteq FaultKinds
  /\ HasInteractionCb \in BOOLEAN
  /\ None \notin Paths
  /\ Ops \cap Foreign = {}

SignalName == {"TaskAdded", "TaskRemoved", "PropertiesChanged", "RequestInteraction"}
Signal == [name : SignalName, path : Paths, state : TaskState]

VARIABLES
  pending,    \* queued callbacks, oldest first (pending_head .. pending_tail)
  tasks,      \* the task table
  calling,    \* the request whose method call the thread is blocked in, or None
  opening,    \* the slot on_task_added is still setting up, or 0
  inbox,      \* signals received and not yet dispatched
  request,    \* what the daemon did with each request
  task,       \* State of each task; "Unknown" before the daemon creates it
  question,   \* the confirmation each task asks for
  removed,    \* tasks whose TaskRemoved was sent
  heard,      \* history: every state each callback was called with
  ended       \* history: how each request ended, seen from its caller

client  == <<pending, tasks, calling, opening>>
daemon  == <<request, task, question, removed>>
history == <<heard, ended>>
vars == <<client, inbox, daemon, history>>

\* A slot of the table.  The path doubles as the active flag of the entry.
Entry == [path : Paths \cup {None}, op : Ops \cup {None}, state : TaskState,
          slot : BOOLEAN, interaction_slot : BOOLEAN]

ClearedTask == [path |-> None, op |-> None, state |-> "Unknown",
                slot |-> FALSE, interaction_slot |-> FALSE]

TypeOK ==
  /\ pending \in Seq(Ops)
  /\ tasks \in [Slots -> Entry]
  /\ calling \in Ops \cup {None}
  /\ opening \in 0..MaxTasks
  /\ inbox \in Seq(Signal)
  /\ request \in [Ops -> {"new", "sent", "accepted", "rejected"}]
  /\ task \in [Paths -> TaskState]
  /\ question \in [Paths -> {"none", "open", "yes", "no"}]
  /\ removed \subseteq Paths
  /\ heard \in [Ops -> Seq(TaskState)]
  /\ ended \in [Ops -> {"open", "refused", "finished"}]

Init ==
  /\ pending = <<>>
  /\ tasks = [i \in Slots |-> ClearedTask]
  /\ calling = None
  /\ opening = 0
  /\ inbox = <<>>
  /\ request = [o \in Ops |-> "new"]
  /\ task = [p \in Paths |-> "Unknown"]
  /\ question = [p \in Paths |-> "none"]
  /\ removed = {}
  /\ heard = [o \in Ops |-> <<>>]
  /\ ended = [o \in Ops |-> "open"]

-----------------------------------------------------------------------------
(* Helpers *)

Active(i) == tasks[i].path # None

\* The thread is between two operations: it may dispatch or start a request.
Idle == calling = None /\ opening = 0

\* The match rules installed on the bus: TaskAdded and TaskRemoved for good,
\* the signals of a task while its slot holds the subscription.
Subscribed(name, p) ==
  \/ name \in {"TaskAdded", "TaskRemoved"}
  \/ name = "PropertiesChanged" /\ \E i \in Slots : tasks[i].path = p /\ tasks[i].slot
  \/ name = "RequestInteraction"
       /\ \E i \in Slots : tasks[i].path = p /\ tasks[i].interaction_slot

Emit(name, p, s) ==
  inbox' = IF Subscribed(name, p)
           THEN Append(inbox, [name |-> name, path |-> p, state |-> s])
           ELSE inbox

Readable(p) == task[p] # "Unknown" /\ ~("vanish" \in Faults /\ p \in removed)

\* Variant: the result of sd_bus_get_property is not looked at.
ReadStateUnchecked(p, known) == IF Readable(p) THEN task[p] ELSE "Garbage"

\* read_task_properties: a failed read leaves the entry's last known state.
ReadState(p, known) == IF Readable(p) THEN task[p] ELSE known

Tell(o, s) == heard' = [heard EXCEPT ![o] = Append(@, s)]

\* notify_failed: the callback hears Failed and the library forgets it.
NotifyFailed(o) ==
  /\ Tell(o, "Failed")
  /\ ended' = [ended EXCEPT ![o] = "refused"]

PendingPush(s, o) == Append(s, o)

\* Variant: the head is read and stays queued.
PendingPeek(s) == s
PendingPop(s) == Tail(s)

\* Variants: a failed call drops the oldest operation, or none.
PendingPopTailOldest(s) == Tail(s)
PendingPopTailNone(s) == s
PendingPopTail(s) == SubSeq(s, 1, Len(s) - 1)

-----------------------------------------------------------------------------
(* Requests: linyaps_install, linyaps_uninstall, linyaps_update            *)

IsNew(o) == request[o] = "new" /\ ended[o] = "open"

\* No application id: refused before anything is queued.
RequestInvalid(o) ==
  /\ Idle
  /\ IsNew(o)
  /\ NotifyFailed(o)
  /\ UNCHANGED <<client, inbox, daemon>>

\* The callback is queued, then the thread blocks in sd_bus_call.
RequestCall(o) ==
  /\ Idle
  /\ IsNew(o)
  /\ \/ pending' = PendingPush(pending, o)
     \/ "oom" \in Faults /\ UNCHANGED pending
  /\ calling' = o
  /\ request' = [request EXCEPT ![o] = "sent"]
  /\ UNCHANGED <<tasks, opening, inbox, task, question, removed, history>>

CallSucceeds ==
  /\ calling # None
  /\ request[calling] = "accepted"
  /\ calling' = None
  /\ UNCHANGED <<pending, tasks, opening, inbox, daemon, history>>

\* The call fails, the reply holds an error code, or no reply came in time.
\* After a timeout the daemon may still accept the request.
CallFails ==
  /\ calling # None
  /\ request[calling] = "rejected" \/ "timeout" \in Faults
  /\ pending' = PendingPopTail(pending)
  /\ NotifyFailed(calling)
  /\ calling' = None
  /\ UNCHANGED <<tasks, opening, inbox, daemon>>

\* linyaps_cancel_task: a blocking call that the daemon carries out.
CancelTask(p) ==
  /\ Idle
  /\ \E i \in Slots : tasks[i].path = p
  /\ task[p] \notin Terminal
  /\ task' = [task EXCEPT ![p] = "Canceled"]
  /\ Emit("PropertiesChanged", p, "Canceled")
  /\ UNCHANGED <<client, request, question, removed, history>>

-----------------------------------------------------------------------------
(* Signal dispatch: linyaps_process *)

NextSignal ==
  /\ Idle
  /\ inbox # <<>>
  /\ inbox' = Tail(inbox)

Dispatch(name) == NextSignal /\ Head(inbox).name = name

FirstFree(i) == ~Active(i) /\ \A j \in 1..(i - 1) : Active(j)

BoundEntry(o, p) == [path |-> p, op |-> o, state |-> "Unknown",
                     slot |-> TRUE, interaction_slot |-> FALSE]

\* on_task_added up to its first round trip: the oldest callback is bound to the
\* first free slot and PropertiesChanged is subscribed.
OnTaskAdded ==
  /\ Dispatch("TaskAdded")
  /\ pending # <<>>
  /\ pending' = PendingPop(pending)
  /\ \E i \in Slots :
       /\ FirstFree(i)
       /\ tasks' = [tasks EXCEPT ![i] = BoundEntry(Head(pending), Head(inbox).path)]
       /\ opening' = i
  /\ UNCHANGED <<calling, daemon, history>>

\* Nobody waits for a task: the signal is dropped.
OnTaskAddedUnclaimed ==
  /\ Dispatch("TaskAdded")
  /\ pending = <<>>
  /\ UNCHANGED <<client, daemon, history>>

\* Variant: a full table is not reported.
OnTaskAddedRefusedSilently ==
  /\ Dispatch("TaskAdded")
  /\ pending # <<>>
  /\ \A i \in Slots : Active(i)
  /\ pending' = PendingPop(pending)
  /\ UNCHANGED <<tasks, calling, opening, daemon, history>>

\* The callback is popped and then refused: the table is full, or the first
\* subscription fails and the slot is cleared again.
OnTaskAddedRefused ==
  /\ Dispatch("TaskAdded")
  /\ pending # <<>>
  /\ (\A i \in Slots : Active(i)) \/ "nomatch" \in Faults
  /\ pending' = PendingPop(pending)
  /\ NotifyFailed(Head(pending))
  /\ UNCHANGED <<tasks, calling, opening, daemon>>

\* on_task_added, second round trip: RequestInteraction is subscribed.
SubscribeInteraction ==
  /\ opening # 0
  /\ ~tasks[opening].interaction_slot
  /\ tasks' = [tasks EXCEPT ![opening].interaction_slot = TRUE]
  /\ UNCHANGED <<pending, calling, opening, inbox, daemon, history>>

\* Variant: the failure is reported but the slot is not cleared.
SubscribeInteractionFailsBound ==
  /\ opening # 0
  /\ ~tasks[opening].interaction_slot
  /\ "nomatch" \in Faults
  /\ NotifyFailed(tasks[opening].op)
  /\ opening' = 0
  /\ UNCHANGED <<pending, tasks, calling, inbox, daemon>>

SubscribeInteractionFails ==
  /\ opening # 0
  /\ ~tasks[opening].interaction_slot
  /\ "nomatch" \in Faults
  /\ NotifyFailed(tasks[opening].op)
  /\ tasks' = [tasks EXCEPT ![opening] = ClearedTask]
  /\ opening' = 0
  /\ UNCHANGED <<pending, calling, inbox, daemon>>

\* on_task_added, last round trips: the properties are read and the callback called.
ReadInitialProperties ==
  /\ opening # 0
  /\ tasks[opening].interaction_slot
  /\ LET te == tasks[opening]
         s  == ReadState(te.path, te.state)
     IN /\ tasks' = [tasks EXCEPT ![opening].state = s]
        /\ Tell(te.op, s)
  /\ opening' = 0
  /\ UNCHANGED <<pending, calling, inbox, daemon, ended>>

\* Variant: the callback is told the new state, the entry does not keep it.
OnPropertiesChangedUnstored ==
  /\ Dispatch("PropertiesChanged")
  /\ \E i \in Slots :
       /\ tasks[i].path = Head(inbox).path
       /\ Tell(tasks[i].op, Head(inbox).state)
  /\ UNCHANGED <<client, daemon, ended>>

OnPropertiesChanged ==
  /\ Dispatch("PropertiesChanged")
  /\ \E i \in Slots :
       /\ tasks[i].path = Head(inbox).path
       /\ tasks' = [tasks EXCEPT ![i].state = Head(inbox).state]
       /\ Tell(tasks[i].op, Head(inbox).state)
  /\ UNCHANGED <<pending, calling, opening, daemon, ended>>

\* The callback answers, or the library does: with no callback it answers no.
OnRequestInteraction ==
  /\ Dispatch("RequestInteraction")
  /\ \E i \in Slots : tasks[i].path = Head(inbox).path
  /\ question' = [question EXCEPT ![Head(inbox).path] =
                    IF HasInteractionCb THEN "yes" ELSE "no"]
  /\ UNCHANGED <<client, request, task, removed, history>>

\* Variant: when the last read fails, nobody is told and the slot stays taken.
OnTaskRemovedReadable ==
  /\ Dispatch("TaskRemoved")
  /\ \E i \in Slots :
       /\ tasks[i].path = Head(inbox).path
       /\ IF Readable(tasks[i].path)
          THEN /\ Tell(tasks[i].op, task[tasks[i].path])
               /\ ended' = [ended EXCEPT ![tasks[i].op] = "finished"]
               /\ tasks' = [tasks EXCEPT ![i] = ClearedTask]
          ELSE UNCHANGED <<tasks, history>>
  /\ UNCHANGED <<pending, calling, opening, daemon>>

\* on_task_removed: last read, last callback, and the slot is free again.
OnTaskRemoved ==
  /\ Dispatch("TaskRemoved")
  /\ \E i \in Slots :
       /\ tasks[i].path = Head(inbox).path
       /\ Tell(tasks[i].op, ReadState(tasks[i].path, tasks[i].state))
       /\ ended' = [ended EXCEPT ![tasks[i].op] = "finished"]
       /\ tasks' = [tasks EXCEPT ![i] = ClearedTask]
  /\ UNCHANGED <<pending, calling, opening, daemon>>

\* A signal of a task that no slot holds (any more): sd-bus or find_task drops it.
OnUnboundSignal ==
  /\ NextSignal
  /\ Head(inbox).name # "TaskAdded"
  /\ \A i \in Slots : tasks[i].path # Head(inbox).path
  /\ UNCHANGED <<client, daemon, history>>

Process ==
  \/ OnTaskAdded
  \/ OnTaskAddedUnclaimed
  \/ OnTaskAddedRefused
  \/ OnPropertiesChanged
  \/ OnRequestInteraction
  \/ OnTaskRemoved
  \/ OnUnboundSignal

-----------------------------------------------------------------------------
(* The daemon *)

CreateTask(p) ==
  /\ task' = [task EXCEPT ![p] = "Queued"]
  /\ Emit("TaskAdded", p, "Queued")

DaemonAccept(o) ==
  /\ request[o] = "sent"
  /\ request' = [request EXCEPT ![o] = "accepted"]
  /\ CreateTask(o)
  /\ UNCHANGED <<client, question, removed, history>>

DaemonReject(o) ==
  /\ request[o] = "sent"
  /\ request' = [request EXCEPT ![o] = "rejected"]
  /\ UNCHANGED <<client, inbox, task, question, removed, history>>

\* Another client's request.
DaemonForeign(p) ==
  /\ task[p] = "Unknown"
  /\ CreateTask(p)
  /\ UNCHANGED <<client, request, question, removed, history>>

DaemonStart(p) ==
  /\ task[p] = "Queued"
  /\ task' = [task EXCEPT ![p] = "Processing"]
  /\ Emit("PropertiesChanged", p, "Processing")
  /\ UNCHANGED <<client, request, question, removed, history>>

DaemonAsk(p) ==
  /\ p \in Asking
  /\ task[p] = "Processing"
  /\ question[p] = "none"
  /\ question' = [question EXCEPT ![p] = "open"]
  /\ Emit("RequestInteraction", p, "Processing")
  /\ UNCHANGED <<client, request, task, removed, history>>

DaemonFinish(p, s) ==
  /\ task[p] \in {"Queued", "Processing"}
  /\ question[p] # "open"
  /\ p \in Asking /\ question[p] # "yes" => s # "Succeed"
  /\ task' = [task EXCEPT ![p] = s]
  /\ Emit("PropertiesChanged", p, s)
  /\ UNCHANGED <<client, request, question, removed, history>>

DaemonRemove(p) ==
  /\ task[p] \in Terminal
  /\ p \notin removed
  /\ removed' = removed \cup {p}
  /\ Emit("TaskRemoved", p, task[p])
  /\ UNCHANGED <<client, request, task, question, history>>

-----------------------------------------------------------------------------

Next ==
  \/ \E o \in Ops : \/ RequestInvalid(o)
                    \/ RequestCall(o)
                    \/ DaemonAccept(o)
                    \/ DaemonReject(o)
  \/ CallSucceeds
  \/ CallFails
  \/ Process
  \/ SubscribeInteraction
  \/ SubscribeInteractionFails
  \/ ReadInitialProperties
  \/ \E p \in Foreign : DaemonForeign(p)
  \/ \E p \in Paths : \/ CancelTask(p)
                      \/ DaemonStart(p)
                      \/ DaemonAsk(p)
                      \/ DaemonRemove(p)
                      \/ \E s \in Outcomes : DaemonFinish(p, s)

\* A caller that keeps calling linyaps_process (the wait loop of the test CLI),
\* round trips that end, and a daemon that decides, finishes and removes.
Fairness ==
  /\ WF_vars(CallSucceeds \/ CallFails)
  /\ WF_vars(Process)
  /\ WF_vars(SubscribeInteraction \/ SubscribeInteractionFails)
  /\ WF_vars(ReadInitialProperties)
  /\ \A o \in Ops : WF_vars(DaemonAccept(o) \/ DaemonReject(o))
  /\ \A p \in Paths : /\ WF_vars(\E s \in Outcomes : DaemonFinish(p, s))
                      /\ WF_vars(DaemonRemove(p))

Spec == Init /\ [][Next]_vars

FairSpec == Spec /\ Fairness

-----------------------------------------------------------------------------
(* Properties *)

Waiting(o) == \E k \in 1..Len(pending) : pending[k] = o
Bound(o) == \E i \in Slots : tasks[i].op = o

\* A callback has one home at most: it is queued once, or bound to one slot, and
\* in neither place once its request has ended (a second home would make the
\* library call a callback whose userdata the caller has let go of).
OneHome ==
  /\ \A k, l \in 1..Len(pending) : pending[k] = pending[l] => k = l
  /\ \A i, j \in Slots : Active(i) /\ tasks[i].op = tasks[j].op => i = j
  /\ \A o \in Ops : Waiting(o) => ~Bound(o) /\ ended[o] = "open"
  /\ \A o \in Ops : Bound(o) => ended[o] = "open"

\* What makes OneHome inductive: a slot is active exactly when it holds a
\* callback, only requests that were made are queued or bound, and the request
\* whose call is in progress is unbound and, if queued, the newest in the queue,
\* which is why pending_pop_tail takes back the right one.
Bookkeeping ==
  /\ OneHome
  /\ \A i \in Slots : Active(i) <=> tasks[i].op # None
  /\ \A o \in Ops : Waiting(o) \/ Bound(o) => request[o] # "new"
  /\ opening # 0 => Active(opening) /\ calling = None
  /\ calling # None =>
       /\ request[calling] # "new"
       /\ ended[calling] = "open"
       /\ ~Bound(calling)
       /\ Waiting(calling) => pending[Len(pending)] = calling

\* Without lost allocations no request is forgotten: one that was made and has
\* not ended is queued or bound, so some later signal can still reach it.
NoneForgotten ==
  \A o \in Ops : request[o] # "new" /\ ended[o] = "open" => Waiting(o) \/ Bound(o)

\* Each slot follows the task the daemon created for the request of its
\* callback: "pop PendingOp and bind it to TaskEntry".
BindsOwn == \A i \in Slots : Active(i) => tasks[i].path = tasks[i].op

Announced(o) == \E k \in 1..Len(inbox) : inbox[k].name = "TaskAdded" /\ inbox[k].path = o

\* Why the order of the queue is enough: without late replies and other clients,
\* the tasks announced and not yet dispatched are those of the queued requests, in
\* the order of the queue, with at most the request being called missing.
Order ==
  /\ \A k \in 1..Len(inbox) : inbox[k].name = "TaskAdded" =>
       request[inbox[k].path] = "accepted" /\ Waiting(inbox[k].path)
  /\ \A k, l \in 1..Len(inbox) :
       k < l /\ inbox[k].name = "TaskAdded" /\ inbox[l].name = "TaskAdded" =>
         \A i, j \in 1..Len(pending) :
           pending[i] = inbox[k].path /\ pending[j] = inbox[l].path => i < j
  /\ \A o \in Ops : Waiting(o) => Announced(o) \/ (o = calling /\ request[o] # "accepted")
  /\ \A o \in Ops : request[o] = "sent" => o = calling

\* When on_task_added could still read the object, nothing the daemon said later
\* is lost, however the read races with queued signals and even if the object
\* is gone at the final read: the last word a callback hears is the outcome.
LastWordIsOutcome ==
  \A o \in Ops :
    ended[o] = "finished" /\ heard[o][1] # "Unknown" => heard[o][Len(heard[o])] = task[o]

\* After its end a request never changes again and its callback is never called.
SilentOnceEnded ==
  [][\A o \in Ops : ended[o] # "open" =>
       ended'[o] = ended[o] /\ heard'[o] = heard[o]]_vars

\* Every request that is made ends, and its caller is told, also with a full
\* table, late replies and tasks of other clients: the daemon announces at least
\* one task for each queued callback.
EveryRequestEnds == \A o \in Ops : request[o] # "new" ~> ended[o] # "open"

\* A task that asks for confirmation gets an answer or ends: "if UI interaction
\* callback is set: call it and let UI reply; else: reply no".
QuestionsAnswered ==
  \A p \in Ops : question[p] = "open" ~> question[p] # "open" \/ task[p] \in Terminal

\* The phase of each request, read off the bookkeeping.
PhaseOf(o) ==
  IF ended[o] # "open" THEN "over"
  ELSE IF Bound(o) THEN "bound"
  ELSE IF Waiting(o) THEN "waiting"
  ELSE "new"

Lifecycle == INSTANCE RequestLifecycle
  WITH Requests <- Ops,
       States   <- TaskState,
       phase    <- [o \in Ops |-> PhaseOf(o)],
       told     <- heard

\* The bookkeeping implements the promise of RequestLifecycle.
KeepsLifecycle == Lifecycle!Spec

=============================================================================
