---------------------------- MODULE StoreUpdates ----------------------------
(***************************************************************************)
(* The updates page of ui/main.c: the list of apps that can be updated,    *)
(* the thread that checks for them, and the callbacks of running updates.  *)
(*                                                                         *)
(* The list is an array on the heap.  The userdata of an update is the     *)
(* address of its slot; the callback writes there and posts that address   *)
(* to the event queue of SDL.  The handler of the event removes the item   *)
(* found at that address, and the items behind it move up.  A new check    *)
(* replaces the array, and an empty one is freed.                          *)
(*                                                                         *)
(* The main loop first drains the events, then dispatches D-Bus, then lays *)
(* out the page, which handles at most one click.  Only the check thread   *)
(* runs beside it.  What a callback hears is the promise of the library    *)
(* (RequestLifecycle): any reports while its task runs, a last one when    *)
(* the task is removed, and the outcome possibly more than once.           *)
(* Left out: progress percentages, and the redraw (dirty).                 *)
(***************************************************************************)
EXTENDS Integers, Sequences, SequencesExt

CONSTANTS
  Apps,         \* apps installed now
  Blocks,       \* addresses malloc may return; a freed one may come back
  Outcomes,     \* how an update may end
  Faults,       \* a subset of FaultKinds
  MaxCalls,     \* bound: updates started
  MaxChecks,    \* bound: checks started by the user
  MaxReports,   \* bound: times an outcome is reported before the task is removed
  None          \* NULL

FaultKinds ==
  { "network",  \* a check fails, or cannot allocate its result
    "records",  \* the server lists an app without its version
    "threads",  \* pthread_create fails
    "refuse",   \* linyaps_update fails: the daemon rejects the call or does not answer
    "vanish" }  \* the task is gone before its outcome was read

Terminal == {"Succeed", "Failed", "Canceled"}

ASSUME ConstantsAssumption ==
  /\ IsFiniteSet(Apps)
  /\ Outcomes \subseteq Terminal
  /\ Faults \subseteq FaultKinds
  /\ {MaxCalls, MaxChecks, MaxReports} \subseteq Nat
  /\ None \notin Blocks \cup Apps

Item == [app : Apps \cup {None}, updating : BOOLEAN]   \* StoreUpdateItem
Address == [block : Blocks, index : Nat \ {0}]
Event == [kind : {"ready"}, block : Blocks \cup {None}, count : Nat]
           \cup [kind : {"finished"}, at : Address]
Call == [app : Apps, at : Address, outcome : Terminal \cup {None},
         reports : Nat, over : BOOLEAN]

VARIABLES
  memory,    \* the slots of each allocated block; a free block has none
  list,      \* update_list
  count,     \* update_count
  checking,  \* checking_updates
  thread,    \* check_updates_real_thread: "off", "asking" or "posting"
  found,     \* the updates the thread was told of
  checks,    \* checks started by the user
  events,    \* the event queue of SDL
  phase,     \* where the main loop is
  sweep,     \* the loop index of update_all
  calls,     \* every linyaps_update accepted so far, and what it reported
  installed, \* installed_list, which is read once at the start
  outdated   \* apps with a newer version in the repository

page == <<memory, list, count>>
check == <<checking, thread, found, checks>>
repository == <<installed, outdated>>
vars == <<page, check, events, phase, sweep, calls, repository>>

TypeOK ==
  /\ memory \in [Blocks -> Seq(Item)]
  /\ list \in Blocks \cup {None}
  /\ count \in Nat
  /\ checking \in BOOLEAN
  /\ thread \in {"off", "asking", "posting"}
  /\ found \subseteq Apps
  /\ checks \in 0..MaxChecks
  /\ events \in Seq(Event)
  /\ phase \in {"events", "process", "layout", "sweep"}
  /\ sweep \in Nat
  /\ calls \in Seq(Call)
  /\ installed \subseteq Apps
  /\ outdated \subseteq Apps

\* The main loop begins with a check under way, if its thread could be started.
Init ==
  /\ memory = [b \in Blocks |-> <<>>]
  /\ list = None
  /\ count = 0
  /\ \/ checking = TRUE /\ thread = "asking"
     \/ "threads" \in Faults /\ checking = FALSE /\ thread = "off"
  /\ found = {}
  /\ checks = 0
  /\ events = <<>>
  /\ phase = "events"
  /\ sweep = 0
  /\ calls = <<>>
  /\ installed \in SUBSET Apps
  /\ outdated \in SUBSET Apps

-----------------------------------------------------------------------------
(* The check *)

\* Variant: the flag is left to the thread.
TriggerCheckUnmarked ==
  /\ phase = "layout" /\ ~checking
  /\ checks < MaxChecks
  /\ checks' = checks + 1
  /\ thread' = "asking"
  /\ phase' = "events"
  /\ UNCHANGED <<page, checking, found, events, sweep, calls, repository>>

\* store_ui_trigger_check_updates, a click on the page: the flag is taken back
\* if the thread cannot be started.
TriggerCheck ==
  /\ phase = "layout" /\ ~checking
  /\ checks < MaxChecks
  /\ checks' = checks + 1
  /\ \/ checking' = TRUE /\ thread' = "asking"
     \/ "threads" \in Faults /\ UNCHANGED <<checking, thread>>
  /\ phase' = "events"
  /\ UNCHANGED <<page, found, events, sweep, calls, repository>>

\* The thread reads the installed versions and asks the server.
CheckAsk ==
  /\ thread = "asking"
  /\ thread' = "posting"
  /\ \/ found' = outdated
     \/ "network" \in Faults /\ found' = {}
  /\ UNCHANGED <<page, checking, checks, events, phase, sweep, calls, repository>>

\* The server may list an app without its version; the thread skips its record.
Complete == IF "records" \in Faults THEN SUBSET found ELSE {found}

Zeroed == [app |-> None, updating |-> FALSE]

\* calloc makes n slots, one per record of the answer, and the first are filled.
Slots(apps, n) ==
  [k \in 1..n |-> IF k <= Len(apps) THEN [app |-> apps[k], updating |-> FALSE] ELSE Zeroed]

Posted(b, n) == [kind |-> "ready", block |-> b, count |-> n]

\* Variant: the thread stops early when it finds nothing and posts nothing.
CheckPostSilent ==
  /\ thread = "posting"
  /\ thread' = "off"
  /\ IF found = {}
     THEN UNCHANGED <<memory, events>>
     ELSE \E b \in Blocks, complete \in Complete : \E apps \in SetToSeqs(complete) :
            /\ memory[b] = <<>>
            /\ memory' = [memory EXCEPT ![b] = Slots(apps, Cardinality(found))]
            /\ events' = Append(events, Posted(b, Len(apps)))
  /\ UNCHANGED <<list, count, checking, found, checks, phase, sweep, calls, repository>>

\* Variant: the skipped records are counted.
CheckPostCountingAll ==
  /\ thread = "posting"
  /\ thread' = "off"
  /\ \/ /\ found = {}
        /\ events' = Append(events, Posted(None, 0))
        /\ UNCHANGED memory
     \/ \E b \in Blocks, complete \in Complete : \E apps \in SetToSeqs(complete) :
          /\ found # {} /\ memory[b] = <<>>
          /\ memory' = [memory EXCEPT ![b] = Slots(apps, Cardinality(found))]
          /\ events' = Append(events, Posted(b, Cardinality(found)))
  /\ UNCHANGED <<list, count, checking, found, checks, phase, sweep, calls, repository>>

\* The thread fills the items in the order of the answer and posts them. If it
\* skips every record, it posts an array without an item.
CheckPost ==
  /\ thread = "posting"
  /\ thread' = "off"
  /\ \/ /\ found = {}
        /\ events' = Append(events, Posted(None, 0))
        /\ UNCHANGED memory
     \/ \E b \in Blocks, complete \in Complete : \E apps \in SetToSeqs(complete) :
          /\ found # {} /\ memory[b] = <<>>
          /\ memory' = [memory EXCEPT ![b] = Slots(apps, Cardinality(found))]
          /\ events' = Append(events, Posted(b, Len(apps)))
  /\ UNCHANGED <<list, count, checking, found, checks, phase, sweep, calls, repository>>

-----------------------------------------------------------------------------
(* Starting updates *)

Finished(a) == [kind |-> "finished", at |-> a]

Slot(k) == [block |-> list, index |-> k]

Shown(k) == memory[list][k]

\* What a write through a callback's address does: nothing the program sees if
\* the block is free or, allocated again, is too short.
Mark(a, u) ==
  IF a.index \in 1..Len(memory[a.block])
  THEN [memory EXCEPT ![a.block][a.index] = [app |-> @.app, updating |-> u]]
  ELSE memory

\* store_ui_trigger_update_item on the idle item in slot k: linyaps_update takes
\* the request, or refuses it and the callback hears Failed at once; an app that
\* was not installed at the start is left alone.
StartUpdate(k) ==
  \/ /\ Shown(k).app \notin installed
     /\ UNCHANGED <<memory, calls, events>>
  \/ /\ Shown(k).app \in installed
     /\ Len(calls) < MaxCalls
     /\ memory' = Mark(Slot(k), TRUE)
     /\ calls' = Append(calls, [app |-> Shown(k).app, at |-> Slot(k),
                                outcome |-> None, reports |-> 0, over |-> FALSE])
     /\ UNCHANGED events
  \/ /\ Shown(k).app \in installed
     /\ "refuse" \in Faults
     /\ events' = Append(events, Finished(Slot(k)))
     /\ UNCHANGED <<memory, calls>>

\* The page hides the list while a check runs.
TriggerUpdateItem ==
  /\ phase = "layout" /\ ~checking
  /\ \E k \in 1..count : ~Shown(k).updating /\ StartUpdate(k)
  /\ phase' = "events"
  /\ UNCHANGED <<list, count, check, sweep, repository>>

\* store_ui_trigger_update_all visits the slots in turn: each request blocks the
\* main loop, and the check thread is off.
TriggerUpdateAll ==
  /\ phase = "layout" /\ ~checking
  /\ count > 0
  /\ phase' = "sweep"
  /\ sweep' = 1
  /\ UNCHANGED <<page, check, events, calls, repository>>

Sweep ==
  /\ phase = "sweep"
  /\ \/ /\ sweep <= count
        /\ \/ Shown(sweep).updating /\ UNCHANGED <<memory, calls, events>>
           \/ ~Shown(sweep).updating /\ StartUpdate(sweep)
        /\ sweep' = sweep + 1
        /\ UNCHANGED phase
     \/ /\ sweep > count
        /\ phase' = "events"
        /\ sweep' = 0
        /\ UNCHANGED <<memory, calls, events>>
  /\ UNCHANGED <<list, count, check, repository>>

-----------------------------------------------------------------------------
(* What callbacks hear *)

\* on_update_progress with state s: Failed and Canceled clear the flag in the
\* slot, and every outcome posts the slot's address.
OnUpdateProgress(a, s) ==
  /\ memory' = IF s \in {"Failed", "Canceled"} THEN Mark(a, FALSE) ELSE memory
  /\ events' = IF s \in Terminal THEN Append(events, Finished(a)) ELSE events

\* A call whose task is not removed yet may be told s: any outcome once, then
\* the same one.  A report of progress only redraws.
MayHear(c, s) ==
  /\ ~calls[c].over
  /\ s \in Outcomes
  /\ calls[c].outcome \in {None, s}

Heard(c, o, n, over) ==
  [app |-> calls[c].app, at |-> calls[c].at, outcome |-> o, reports |-> n, over |-> over]

Report(c, s) ==
  /\ MayHear(c, s)
  /\ calls[c].reports < MaxReports
  /\ calls' = [calls EXCEPT ![c] = Heard(c, s, @.reports + 1, @.over)]
  /\ OnUpdateProgress(calls[c].at, s)

\* TaskRemoved: the callback hears the state read last, for the last time.
Removed(c, s) ==
  /\ calls' = [calls EXCEPT ![c] =
       Heard(c, IF s \in Terminal THEN s ELSE None, @.reports, TRUE)]
  /\ OnUpdateProgress(calls[c].at, s)
  /\ \/ MayHear(c, s)
     \/ "vanish" \in Faults /\ s = "Unknown" /\ calls[c].outcome = None /\ ~calls[c].over

\* linyaps_process: one callback.  The app of an update that succeeded is new.
Callback ==
  /\ phase = "process"
  /\ \E c \in 1..Len(calls), s \in Outcomes \cup {"Unknown"} :
       /\ Report(c, s) \/ Removed(c, s)
       /\ outdated' = IF s = "Succeed" THEN outdated \ {calls[c].app} ELSE outdated
  /\ UNCHANGED <<list, count, check, phase, sweep, installed>>

-----------------------------------------------------------------------------
(* The main loop *)

Free(b) == [memory EXCEPT ![b] = <<>>]

\* Variant: the old list is not freed.
HandleReadyLeaking ==
  /\ phase = "events" /\ events # <<>> /\ Head(events).kind = "ready"
  /\ events' = Tail(events)
  /\ checking' = FALSE
  /\ list' = Head(events).block
  /\ count' = Head(events).count
  /\ UNCHANGED <<memory, thread, found, checks, phase, sweep, calls, repository>>

\* EVT_CHECK_UPDATES_READY: the new list replaces the old one.
HandleReady ==
  /\ phase = "events" /\ events # <<>> /\ Head(events).kind = "ready"
  /\ events' = Tail(events)
  /\ checking' = FALSE
  /\ memory' = IF list # None THEN Free(list) ELSE memory
  /\ list' = Head(events).block
  /\ count' = Head(events).count
  /\ UNCHANGED <<thread, found, checks, phase, sweep, calls, repository>>

\* Variant: the loop ends one item early.
ShiftedShort(k) ==
  [memory EXCEPT ![list] = [j \in DOMAIN @ |-> IF j \in k..count-2 THEN @[j+1] ELSE @[j]]]

\* The array once the items behind slot k moved up; the last one stays behind it.
Shifted(k) ==
  [memory EXCEPT ![list] = [j \in DOMAIN @ |-> IF j \in k..count-1 THEN @[j+1] ELSE @[j]]]

\* Variant: the count goes down outside the test for a match.
HandleFinishedUnmatched ==
  /\ phase = "events" /\ events # <<>> /\ Head(events).kind = "finished"
  /\ events' = Tail(events)
  /\ count' = count - 1
  /\ LET a == Head(events).at
     IN \/ /\ a.block = list /\ a.index <= count
           /\ list' = IF count = 1 THEN None ELSE list
           /\ memory' = IF count = 1 THEN Free(list) ELSE Shifted(a.index)
        \/ /\ a.block # list \/ a.index > count
           /\ UNCHANGED <<memory, list>>
  /\ UNCHANGED <<check, phase, sweep, calls, repository>>

\* EVT_UPDATE_ITEM_FINISHED: the item at the address, if the list has one there.
HandleFinished ==
  /\ phase = "events" /\ events # <<>> /\ Head(events).kind = "finished"
  /\ events' = Tail(events)
  /\ LET a == Head(events).at
     IN \/ /\ a.block = list /\ a.index <= count
           /\ count' = count - 1
           /\ list' = IF count = 1 THEN None ELSE list
           /\ memory' = IF count = 1 THEN Free(list) ELSE Shifted(a.index)
        \/ /\ a.block # list \/ a.index > count
           /\ UNCHANGED page
  /\ UNCHANGED <<check, phase, sweep, calls, repository>>

\* The loop drains all events, dispatches what came from D-Bus, and lays out.
Advance ==
  /\ \/ phase = "events" /\ events = <<>> /\ phase' = "process"
     \/ phase = "process" /\ phase' = "layout"
     \/ phase = "layout" /\ phase' = "events"
  /\ UNCHANGED <<page, check, events, sweep, calls, repository>>

MainLoop == HandleReady \/ HandleFinished \/ Sweep \/ Advance

CheckThread == CheckAsk \/ CheckPost

Next ==
  \/ TriggerCheck \/ TriggerUpdateItem \/ TriggerUpdateAll
  \/ Callback
  \/ CheckThread
  \/ MainLoop

\* The thread runs, its requests end, and the posted event wakes the main loop.
Fairness == WF_vars(CheckThread) /\ WF_vars(MainLoop)

Spec == Init /\ [][Next]_vars
FairSpec == Spec /\ Fairness

-----------------------------------------------------------------------------
(* Properties *)

Ready(b) == \E k \in 1..Len(events) : events[k].kind = "ready" /\ events[k].block = b

\* Every array on the heap has one owner: it is the list, or the result of a
\* check on its way to the main loop.  Nothing leaks, and neither owner holds a
\* block that was freed.
OneOwner ==
  \A b \in Blocks :
    /\ memory[b] # <<>> <=> b = list \/ Ready(b)
    /\ ~(b = list /\ Ready(b))

\* checking_updates is set exactly while one check is under way: its thread runs
\* or its result is queued.  Otherwise the page would wait for ever, or two
\* checks would replace the list under each other.
CheckIsPending ==
  checking <=> thread # "off" \/ \E b \in Blocks \cup {None} : Ready(b)

\* The first n slots of block b lie in it and hold an app.
Filled(b, n) == n <= Len(memory[b]) /\ \A k \in 1..n : memory[b][k].app # None

\* The page reads only slots of its array that the check filled, and none when
\* there is no array: also when the check skipped records, so that the array is
\* longer than its items, when every record was skipped, and after items left.
ListInBlock == IF list = None THEN count = 0 ELSE Filled(list, count)

\* At most one check is under way, and at most one result on its way.
OneCheck ==
  /\ thread # "off" => \A k \in 1..Len(events) : events[k].kind = "finished"
  /\ \A k, l \in 1..Len(events) :
       events[k].kind = "ready" /\ events[l].kind = "ready" => k = l

\* The same of a result on its way.
ResultInBlock ==
  \A k \in 1..Len(events) :
    events[k].kind = "ready" =>
      IF events[k].block = None THEN events[k].count = 0
      ELSE Filled(events[k].block, events[k].count)

\* The invariant the proofs use.
Heap ==
  /\ OneOwner
  /\ CheckIsPending
  /\ ListInBlock
  /\ ResultInBlock
  /\ OneCheck
  /\ phase = "sweep" => sweep > 0

ShownApps == [k \in 1..count |-> Shown(k).app]

\* While the array stays, the page loses only the item in the slot a finished
\* event names, and keeps the others in their order: no app is shown twice or
\* lost in place of its neighbour.
LosesNamedItem ==
  [][list' = list /\ list # None =>
       \/ ShownApps' = ShownApps
       \/ \E k \in 1..count : /\ events # <<>> /\ Head(events) = Finished(Slot(k))
                              /\ ShownApps' = RemoveAt(ShownApps, k)]_vars

\* Every check ends, whatever the network and the running updates do.
CheckEnds == checking ~> ~checking

\* "您的应用已是最新版本": the page says so only when nothing is outdated.
UpToDate == phase = "layout" /\ ~checking /\ count = 0 => outdated = {}

\* "updating: 0 = idle, 1 = updating": an item shown as updating belongs to an
\* update that is not over, or whose end the main loop has not handled yet.
UpdatingIsTrue ==
  phase = "layout" /\ ~checking =>
    \A k \in 1..count :
      Shown(k).updating =>
        \/ events # <<>>
        \/ \E c \in 1..Len(calls) : calls[c].app = Shown(k).app /\ ~calls[c].over

=============================================================================
