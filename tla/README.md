# linyaps-store: a verification project

linyaps-store is a desktop store for Linglong applications. This directory holds
TLA+ models of its code, configurations that check them with TLC, and proofs
checked by TLAPS. Every definition is translated from `src/`; `PROJECT.json`
gives the lines each one stands for.

## The system

| Part | Code | State | Operations | What makes it hard |
|---|---|---|---|---|
| Requests and tasks | `lib/linyaps_context.c`, `lib/linyaps_task.c` | queue of callbacks, table of 16 tasks, subscriptions | install, uninstall, update, cancel; `TaskAdded`, `PropertiesChanged`, `RequestInteraction`, `TaskRemoved` | tasks are matched to requests by order; calls block while signals queue; timeouts; reads race with signals |
| Searches | the same files | list of searches | search, `SearchFinished` | the signal may precede the reply, or never come |
| D-Bus messages | `lib/linyaps_dbus_msg.c` | none | append, parse, filter results, compare versions | the order of versions is not transitive |
| HTTP client | `lib/linyaps_remote.c` | pool of 4 curl handles under a mutex | acquire, release, post, destroy at exit | detached threads; more threads than handles; exit while in use |
| Local packages | `lib/linyaps_local.c` | none | list from `states.json`, or from `ll-cli` | the file is replaced while it is read |
| Store state and pages | `ui/main.c`, `ui/store_state.c` | navigation, search, page, lists, loading flags | navigate, type, turn pages, resize; results of threads as SDL events | results arrive after the user moved on |
| Updates page | `ui/main.c`, `ui/views/updates_view.c` | list of updates with `updating` and `progress` | check, update one, update all; progress and end of each | callbacks hold addresses of slots of a list that shifts and is freed |
| Main loop | `ui/main.c` | `dirty` | wait, drain events, `linyaps_process`, layout, draw | D-Bus does not wake the loop; handlers run inside layout |
| Id sets | `ui/id_set.c`, `ui/id_map.c` | open-addressing table | build, insert, contains, get | growing may fail |
| Views | `ui/store_ui.c`, `ui/views/` | arena of the frame's strings | layout, clicks | the same arithmetic in two places; fixed arena |
| Tests | `tests/` | | command line client, unit tests | its wait loop needs a terminal state |
| cJSON | `3rdparty/cjson` | | vendored | not part of this project |

The library is single-threaded. The user interface owns one `LinyapsContext`; it
calls requests from handlers and `linyaps_process` once per frame, and the
library calls back. HTTP fetches run in detached threads that use the pool of
handles and post their results to the event queue of the main loop.

The daemon (`ll-package-manager`) is not in the repository. It is modelled from
what the client expects of it and marked external.

`PROJECT.json` lists the hazards of each part at their lines. What makes each
part correct, in short:

- Requests: each callback follows the task of its own request, hears the outcome
  last, is told exactly one end and nothing after it; no request is forgotten.
- Searches: each callback is called once, with the results of its job.
- Pool: a handle has one user; every handle is cleaned up once.
- Updates: a callback changes the item it was started for; an item leaves the
  list once; nothing stays `updating` for ever.
- Pages: what is shown belongs to what is selected; no loading flag stays set.
- Main loop: every change is drawn.
- Id sets: membership is the set of inserted ids.

## Modules

| Module | Code | Composes or refines | Run | Proofs |
|---|---|---|---|---|
| `TaskTracker` | requests and tasks | implements `RequestLifecycle` | `own`, `late`, `faults`, `foreign`, `question` | `TaskTrackerProofs`, `TaskTrackerOrderProofs` |
| `StoreUpdates` | updates page, main loop | uses the callback contract of `RequestLifecycle` | `updates`, `uptodate`, `flag` | `StoreUpdatesProofs` |
| `CurlPool` | pool of curl handles | implements `HandleLoan` | `pool` | `CurlPoolProofs` |
| `RemotePages`, `GridLayout` | navigation, remote pages, rankings, frames, the grid | `RemotePages` extends `GridLayout` | `pages` | `RemotePagesProofs`, `GridLayoutProofs` |
| `IdTables` | id set, id map | implements `Dictionary` | `tables` | `IdTablesProofs` |
| `SearchOps`, `SearchFilter` | searches, filter of their results | `SearchOps` extends `SearchFilter` | `queries` | `PackageQueriesProofs` |
| `LocalList` | installed packages | with `SearchOps` in `PackageQueries` | `queries` | `PackageQueriesProofs` |

The modules named `MC...` give the constants of a run their values; `TaskTracker`,
`StoreUpdates` and `CurlPool` need few enough to name them in the configuration.
Next to a definition there may be one like it with a slip in it
(`FirstFreeIgnored`, `SearchTakeNewest`, ...), used by no specification.
`PROJECT.json` pairs each property with one: put in the place of the definition it
resembles, it makes that property fail.

What could be added next is listed at the end.

## TaskTracker

### State and actions

`pending` is the list of `PendingOp`s, `tasks` the table of `TaskEntry`s. A
callback, its userdata, the request it belongs to and the task the daemon
creates for that request share one name, a member of `Ops`; tasks of other
clients are `Foreign`.

The client has one thread, but the code between two D-Bus round trips is what is
atomic, not a whole handler: while the thread is blocked in `sd_bus_call`,
`sd_bus_add_match` or `sd_bus_get_property` the daemon goes on and its signals
collect in `inbox`. `calling` is the request whose call is in progress;
`opening` is the slot `on_task_added` is still setting up. A handler that blocks
before its first effect, like the last read of `on_task_removed`, is one action.

| Action | Code |
|---|---|
| `RequestInvalid`, `RequestCall`, `CallSucceeds`, `CallFails` | `call_task_method` and `linyaps_update` before the call, after it, and on its error paths |
| `CancelTask` | `linyaps_cancel_task` |
| `OnTaskAdded`, `SubscribeInteraction`, `ReadInitialProperties` | `on_task_added` in its three pieces |
| `OnTaskAddedUnclaimed`, `OnTaskAddedRefused`, `SubscribeInteractionFails` | its early returns and error paths |
| `OnPropertiesChanged`, `OnRequestInteraction`, `OnTaskRemoved` | the other handlers |
| `OnUnboundSignal` | signals nobody subscribes to any more, or of unknown tasks |
| `DaemonAccept` ... `DaemonRemove` | the daemon (external) |

`heard` and `ended` are history: the states each callback was called with, and
how each request ended as its caller sees it.

`Faults` selects what may go wrong: calls that time out and are accepted later,
allocations that fail in `pending_push`, subscriptions that fail, task objects
that are gone once their `TaskRemoved` was sent.

`RequestLifecycle` states what a caller may rely on: a request waits, may be
bound, and is over once; its callback is called while bound, and for the last
time when it is over. `KeepsLifecycle` says `TaskTracker` implements it, with
the phase of a request read off the queue, the table and `ended`.

### Runs

`MCTaskTracker` extends `TaskTracker` with the symmetry of requests.

| Run | Instance | Shows |
|---|---|---|
| `own` | 3 requests, 2 slots, tasks that fail, no other client, no timeout, no lost allocation | `BindsOwn`: binding by order is right; `LastWordIsOutcome`: if the first read succeeded, the last state heard is the outcome |
| `late` | 2 requests, 1 foreign task, 1 slot, timeouts, vanishing objects, fairness | `NoneForgotten`, `KeepsLifecycle`, `EveryRequestEnds` |
| `faults` | 2 requests, 1 foreign task, 2 slots, every fault | `TypeOK`, `OneHome`, `SilentOnceEnded` |
| `foreign` | 2 requests, 1 foreign task, 1 slot | violates `BindsOwn`: the foreign task takes a callback |
| `question` | 2 requests, one of which asks, a callback is set, fairness | violates `QuestionsAnswered`: a question asked before the subscription is lost |

No run has a failing subscription together with `KeepsLifecycle`; that it is kept
then too is what the theorem shows. An allocation that fails in `pending_push` may
take back the callback of another request, which is then forgotten: `OneHome` and
`SilentOnceEnded` hold with this fault, `NoneForgotten` and `KeepsLifecycle` do not and
are stated without it.

The two violated properties say what `docs/dbus-wire-format.md` says of the
task flow (line 230) and of confirmations (line 281); the findings quote it.

Bounds. Two requests and one foreign task are enough for the queue to be bound
in the wrong order, for a late task to meet a newer request and, with one slot,
for the table to be full. The third request of `own` fills a table of two slots
while another call is in progress. Each task changes state at most twice, so
sequences need no bound of their own. Deadlock is not checked: when every
request is over and every task removed, nothing happens until the user acts.

Fairness. `linyaps_process` runs again and again, as in the wait loop of
`tests/cli_test.c`. In the store this is so only as long as SDL has events: its loop
sleeps in `SDL_WaitEvent` (`ui/main.c:1089`), which D-Bus does not wake. Round trips end (they have a timeout), and the daemon
decides requests, ends tasks and removes them. A request that is never made, a
cancellation, a start or a question need not happen, and nothing is assumed of
which outcome a task has.

`EveryRequestEnds` holds in spite of the mismatches of `foreign`: the daemon
announces at least as many tasks as callbacks are queued, so each one is bound
to some task that ends. A request may then be told the end of another task; the
property is about callers that wait, not about what they are told.

### Proofs

`TaskTrackerProofs` proves, for any finite or infinite sets of requests and
foreign tasks, any number of slots and any combination of faults (except where
noted), from `ConstantsAssumption` only (which also keeps the two sets apart:
no request of the library is a task of another client):

| Theorem | States |
|---|---|
| `TypeCorrect` | `Spec => []TypeOK` |
| `OneHomeHolds` | `Spec => []OneHome` |
| `SilentOnceEndedHolds` | `Spec => SilentOnceEnded` |
| `NoneForgottenHolds` | `Spec => []NoneForgotten`, if `pending_push` never fails to allocate |
| `KeepsLifecycleHolds` | `Spec => KeepsLifecycle`, under the same condition |
| `BindsOwnHolds` | `Spec => []BindsOwn`, without other clients, timeouts and lost allocations |
| `LastWordIsOutcomeHolds` | `Spec => []LastWordIsOutcome`, under the conditions of `BindsOwnHolds` |
| `StillToComeHolds` | `Spec => []StillToCome`, if `pending_push` never fails to allocate |

`OneHome` is not inductive: `pending_pop_tail` drops the last element whatever
it is, so one must know that while a call is in progress its request is the
newest in the queue, if it is there at all. That is why handlers must not run
during a call. `Bookkeeping` adds this, that a slot is active exactly when it
holds a callback, that only requests that were made have a home, and that the
slot being set up is active. Together with `TypeOK` it is inductive (`InvStep`).
`BookkeepingStep` has one step per action; the lemmas `SameHomes`, `ClearSlot`,
`EndHomeless`, `CallBookkeeping` and `BindBookkeeping` say what the five kinds
of steps do to the queue and the table.

`LifecycleStep` maps every step to one of the abstract specification or to a
stutter and proves `NoneForgotten` on the way: the mapping of a failed call
needs that the failed request was queued, since otherwise `pending_pop_tail`
takes back the callback of another request and that one is forgotten. This is
why both theorems exclude the failing allocation.

`BindsOwnHolds` is in `TaskTrackerOrderProofs`. Binding takes the oldest callback
for the oldest announcement, so one must know that the two orders agree. `Order`
says so: the requests announced in `inbox` are queued, in the same order, and
every queued request is announced, except at most the one whose call is in
progress and not accepted yet. A rejected call is taken back from the tail, and
the request it takes back was never announced, so the rest keeps its order.
Each condition of the theorem is needed: the run `foreign` breaks it with
another client, and a call that timed out is announced after its callback was
taken back.

`LastWordIsOutcomeHolds` is about the race of the reads with the signals: the first
read of a task returns a state whose `PropertiesChanged` may still be queued, and
what the callback hears last is what `on_task_removed` reads, or the state the
entry kept when the object is gone. `LastInv` has a part for each place a state
can be in:

- `SignalsOK`: nothing is said of a task before it is announced, nor of its state
  behind its `TaskRemoved`.
- `SlotsOK`: the last change that is queued for a task carries the state the task is
  in, and when none is queued a slot that was read once has that state itself. So
  an older signal that is handled after the read is always followed by a newer one,
  up to the state that was read.
- `WordsOK`: a callback that is not bound yet has heard nothing, and the last word
  of one that was finished is the state of its task, which is final.

The conditions are those of `BindsOwnHolds` because the state a slot keeps is that of
the task it is subscribed to, and the property speaks of the task of the request.

`StillToComeHolds` is the safety that `EveryRequestEnds` rests on, without conditions on
other clients and late replies: when the client sleeps with nothing to
dispatch, each open request is bound to a task that the daemon has created and not
removed, so a `TaskRemoved` is still to come. Two counts and orders are behind it.
`Claimed`: no more callbacks are queued than `TaskAdded` signals are on their way, the
call in progress left out, so an empty inbox means an empty queue. `Attended`: no two
slots follow one task, now or after the announcements on their way are dispatched,
and the `TaskRemoved` of a task that is gone is queued behind its announcement. With two
slots on one task the first would take the signal from the second. Both were checked by
TLC with all faults before they were proved.

Only model-checked: `EveryRequestEnds` itself (liveness).

## StoreUpdates

### State and actions

`memory` maps the addresses `malloc` may return to the slots stored there; a
free address has none. `list` and `count` are `update_list` and
`update_count`. The array has a slot for each record of the answer, but the thread
skips a record without a version, so behind `count` it may have slots that were never
filled; if every record is skipped it has no item at all, and the page says that
everything is up to date. Once an item left, a stale copy of the last one stays behind
`count`, as in the code. The userdata of an update is an address, a block and an index; a
write through it changes whatever item is there now, and nothing the page sees
if the block is free. A freed block may be allocated again.

`phase` is the main loop: drain all events, dispatch D-Bus, lay out the page with
at most one click. `store_ui_trigger_update_all` blocks in each request, so its
loop is the phase `sweep`, one slot per step. The check thread takes what the
server says and posts it in two steps beside all that.

| Action | Code |
|---|---|
| `TriggerCheck`, `CheckAsk`, `CheckPost` | `store_ui_trigger_check_updates` and its thread |
| `TriggerUpdateItem`, `TriggerUpdateAll`, `Sweep` | `store_ui_trigger_update_item`, `store_ui_trigger_update_all`, and the buttons that call them |
| `Callback` | `on_update_progress`, called by the library |
| `HandleReady`, `HandleFinished` | `handle_user_event` |
| `Advance` | the loop in `main` |

A callback hears what `TaskTracker` lets it hear: the outcome any number of
times (`MaxReports` before the task is removed, and once more then), or no
outcome if the object vanished first. Reports of progress change only the
percentage, which is left out. `installed` is the list read once at the start;
an app outside it cannot be updated.

### Runs

| Run | Instance | Shows |
|---|---|---|
| `updates` | 2 apps, 2 blocks, 2 updates, the check of the start and one more, every fault (also threads that cannot be started and records without a version), fairness | `TypeOK`, `OneOwner`, `CheckIsPending`, `ListInBlock`, `LosesNamedItem`, `CheckEnds` |
| `uptodate` | 2 apps, one check, updates that succeed | violates `UpToDate`: the outcome of one update removes two items |
| `flag` | 2 apps, one check, updates that succeed | violates `UpdatingIsTrue`: an item stays marked as updating |

Bounds. Two items are enough for one to move into the slot of the other, two
updates for both to be under way, and two checks for a list to be replaced while
callbacks hold its addresses. Two blocks are what the code needs at most, the
list and a result on its way, so after the first list emptied the second check may reuse its address while
callbacks still hold it. One report
before the last gives the repeated outcome.

Fairness. The check thread ends (its HTTP request has a timeout) and the event it
posts wakes the loop, which then goes round. No user acts and no daemon answers
by necessity.

The last two runs fail for one reason: addresses of slots are used as the names
of items. The same reason lets the end of an old update mark idle, or remove, an
item of a later list whose array got the same address. A check during an update
also shows its item as idle again.

### Proofs

`StoreUpdatesProofs` proves `TypeOK`, `OneOwner`, `CheckIsPending` and
`ListInBlock` for any finite set of apps, any addresses, bounds and faults.
None is inductive alone. `Heap` joins them with `OneCheck`, that no result is
queued while the thread runs and at most one is at all. Without it a second
result could carry the block of the list, and handling it would free the array
it installs. `ListInBlock` needs `ResultInBlock`, the same of the array in
an event. `PostFinished` and `TakeEvent` say what the queue of events keeps,
`MarkKeepsShape` that a write through a stale address changes no more than a flag
(`SameApps`), `ShiftKeepsShape` that the removal of an item changes no block's length,
`FilledKept` and `ResultsKept` that slots with an app keep it and so a result on its way
stays filled. Then there is one lemma per action.

`LosesNamedItemHolds` proves the action property from the same invariant:
a callback changes flags only, `CheckPost` fills a block that is not the list, and
`ShiftRemoves` says that the loop of the handler is `RemoveAt`.

Only model-checked: `CheckEnds` (liveness).

## CurlPool

### State and actions

`handle` and `inUse` are the entries of `g_curl_pool`, `mutex` the holder of
`g_curl_pool_mutex`, `live` the handles that libcurl made and has not cleaned up.
`curl`, `entry` and `pooled` are the locals of each thread, `pc` its place in
`http_post_json`. A critical section is cut into the lock and the rest, since
nobody sees the inside; between two critical sections everything interleaves.

| Action | Code |
|---|---|
| `Post`, `AcquireLock`, `ScanFinds`, `ScanInitFails`, `ScanFindsNone`, `TakeEntry` | `curl_pool_acquire`; `TakeEntry` reads the handle of the entry again after the unlock |
| `MakeTemporary`, `TemporaryFails` | its end, when all entries are in use |
| `ContainsLock`, `Contains`, `Perform` | `curl_pool_contains` and the request in `http_post_json` |
| `ReleaseLock`, `ReleasePooled`, `ReleaseTemporary` | `curl_pool_release` |
| `Destroy` | `curl_pool_destroy`, run when the process ends |

`HandleLoan` is what `http_post_json` relies on: a thread borrows a handle nobody
uses, and returns it. `LendsExclusively` says the pool implements it, for pooled
and temporary handles alike.

### Run

`pool`: three threads, a pool of two, three handles, failing `curl_easy_init`, the
end of the process at any moment. Three threads fill the pool and need a temporary
handle; with three handles an address is used again after a clean-up, which is
what could make the answer of `curl_pool_contains` wrong. It shows `TypeOK`,
`Alive`, `NoHandleLost`, `InUseHasUser`, `LendsExclusively` and `PostReturns`.

Fairness: strong fairness of each thread. A started request goes on because curl
has a timeout (`CURLOPT_TIMEOUT`), and a thread that again and again finds the
mutex free gets it at some time; the mutex itself promises no order. No thread has
to post. Deadlock is not checked: when the process has ended, nothing happens.

### Proofs

`CurlPoolProofs` proves everything but `PostReturns`, for any sets of threads and
handles and any pool size, from `PoolAssumption`. None of the properties is
inductive: that the handle a thread reads after the unlock is still its own needs
`FoundMarked`, `FoundAlone` and `FoundNotHeld` (a found entry is marked, is found
by one thread only and its handle is with nobody), and that a release does the
right thing needs `PooledKnown`, that the answer of `curl_pool_contains` stays
true until the handle goes back. `Sound` joins these parts. `LoanStep` maps each
step to `Borrow`, `Return` or a stutter.

`PoolNoStandstill` is the safety that `PostReturns` rests on: a thread that cannot go
on waits for the mutex, and the thread that has it can go on. `HeldInside` says that
nobody takes the mutex out of the section it protects, by none of the early returns, and
`ScanEnds` that the scan finds an entry or every entry is in use.

## RemotePages and GridLayout

### State and actions

The variables are fields of `StoreState` under their names or shorter ones; `cards`
is a function of the window that the code computes each time. `shown` is
`search_results` with the request it answers, which the code does not keep and the
properties need; so are `fate` and `rfate`, what became of the last thread of each
kind. `kept` is history: the window has had one size since the list on the screen
was asked for; `spared` too: a resize asked for nothing although an answer for the
smaller window was on its way. A thread is a record in `fetches` or `rfetches`. When
it ends, and in which order SDL delivers what it posts, is left open, so answers
overtake each other and may never come.

| Action | Code |
|---|---|
| `RemoteShown`, `RemoteDropped`, `RankingReady` | `handle_user_event`, with the refetch at its end |
| `handle_text_input`, `Backspace`, `Escape`, `Enter` | `handle_text_input`, `handle_key` |
| `Resize` | the window event of `handle_sdl_event` |
| `Redraw`, `RedrawFor` | a frame of `main`: layout, drawing, `dirty` cleared last |
| `store_ui_trigger_...` | the same, with a click the layout acts on |

A click acts in the middle of the layout of a frame: navigation before the content
is built, buttons of pages after. `drawn` is what the frame shows; a control takes
a click only if the last frame drew it and this one builds it.

`GridLayout` holds the arithmetic of the grid twice, as the code does:
`current_items_per_page` of `ui/main.c` decides how many records to ask for,
`app_grid_spec` of `ui/store_ui.c` how many cards to lay out. `Gap` and `Padding`
belong to a submodule that is not in the repository.

### Run

`pages`: windows of 15 and of 28 cards, a server with 40 apps in each list, three
threads, two troubles (resizes, refused threads, posts without an answer), a search
box of one character, four entries of the sidebar and two tabs.

| Property | Says |
|---|---|
| `ShownIsSelected` | a grid that is not loading holds the category that is selected, or the last search |
| `PageIsTrue` | while the window keeps its size, under "page p of n" of a category is just the p-th part of the list of the server |
| `WindowIsFilled` | a window that grew is filled, or as much as it holds was asked for, unless `spared` |
| `RankingIsSelected` | a ranking is that of its tab and page |
| `SleepsDrawn` | while the loop sleeps, the screen has the list that is in the state |
| `AsksForSelected` | a thread is started for what is selected at that moment |
| `LoadingHasReason` | a skeleton has a thread that will end it, or that was dropped for being late |

Bounds. Two threads overtake each other; the third is asked for while they do.
With 40 apps there are three small pages or two large ones, so every page is first,
last or between, and the last one is short. A second resize undoes the first, also
while the page for the first is loading. A keyword is its length, since the code
compares whole keywords; one character gives the empty and another keyword, so that
the box changes while a search is under way. Deadlock is not checked: after the
bounds are used up only arrivals and frames are left. No fairness is stated and no
liveness: nothing in the code makes an answer come.

What the properties leave out is what the code does not do: the buttons
below a search ask for pages of the category, a page of "all apps" is not asked for again when the
window grows, a search on the ranking takes its page back to the first, and a
refused thread leaves the old list on the screen.

### Proofs

`RemotePagesProofs` proves every property of the run, for any server, windows, entries
and bounds. The five about what is selected, loading and drawn need no assumption on
the constants; `TypeOK`, `PageIsTrue` and `WindowIsFilled` need `PagesAssumption` and
`LayoutAssumption`, since they are about numbers. `SleepsDrawn` is
inductive as it stands. `PagesInv` strengthens the others:

- `ThreadsOK`: a thread has an id above 0, and one that searches asks for page 1.
  `ShownIsSelected` rests on the id, as the list of the start has id 0.
  `AsksForSelected` rests on the page: the refetch after a search that fits asks
  for the page that is current just because the search did.
- `Reason`, `RankingReason`: while a flag is set, the last thread was dropped, or
  was asked for and is on its way. The property alone does not say that a refused
  thread leaves no flag.
- `RankingPagesOK`: pages are numbers, as the test of the answer is about
  `page = f.page - 1` and the property about `f.page = page + 1`.

`Started` says for all callers what `start_remote_fetch` does to these parts,
`NothingAsked` is for the steps that start nothing; then there is one lemma per
action.

`GridLayoutProofs` proves, from `LayoutAssumption`, what `PageIsTrue` rests on: for
every window the loop of `current_items_per_page` ends with the first of the best
columns, which is what `app_grid_spec` keeps (`SameColumns`), and so as many records
are asked for as cards are laid out (`AsksForWhatIsLaidOut`). The loop is a
recursive function over six columns; `FoldExists` writes its turns out, which
takes the place of an induction, and `TurnKeepsFirstBest` is its invariant.
`LayoutTilesList` is the other half, about `Layout`: when a page by the size of the
buttons has a record, that page exists and the layout pages by the same size, or
shows the whole list on the first page.

The proofs of the numbers have an invariant each:

- `TypesInv` (`PagesTypes`): the cards are those of the window, and `ThreadsCounted`,
  that a resize starts one thread at most, at once or when the answer comes
  (`refetch`). Without it ids and pages have no bound.
- `PageInv` (`GridNumbersPages`): a request has the size of the window it was made in
  (`SizesAsked`), the list is the page that was asked for (`ListAsked`), and while the
  window stays the page on the screen is the one that was asked for (`KeptAsked`).
  Two sizes are possible: with a header, or the larger one of the first page asked
  for on a page without one. `NumberIsTrue` joins this with `LayoutTilesList`.
- `FillInv` (`GrownWindowIsFilled`): while a thread is on its way, what it asks for fills
  the window or `refetch` is set.

The last two properties were stated without `kept` and `spared` first, and TLC found
them true, with these lists. The proofs did not go through, and for good reasons:

- `handle_sdl_event` asks again only when the list at hand is too short for the larger
  window. If a page is loading while a longer list is at hand, nothing is asked and
  `refetch` stays unset; the answer then replaces that list by a page for the smaller
  window. `WindowIsFilled` therefore excludes `spared`.
- After a resize `view_app_grid` may move the page to the last one without asking for
  it, and the list stays what it was, also when the window goes back to its size.
  `PageIsTrue` is therefore about `kept`.

Nothing is only model-checked here.

## IdTables

### State and actions

`slots`, `capacity` and `count` are the fields of `IdSet` and `IdMap`, `kind` which
of the two the table is: their code is the same but for the values. `rehash` moves
one entry per step (`Move`), with the old table in `old` and its loop variable in
`next`; `Place` is the end of an insertion, and a build from packages is one
insertion after another. Nobody else sees the steps between; they are there because
the tables are small machines whose loops have to end.

`fnv1a` is any function of the keys to `Hashes`. A `malloc` that fails leaves a table with
a capacity and no slots, as the code does, and the insertion after that is the
state `crashed`, where the code reads through the null pointer. `strdup` may fail
for a key or for a value.

### Run

`tables`: four ids, the hashes 1 and 7, a first capacity of 2, two lists, one failed
allocation. All four may have one home. In tables of 2, 4 and 8 slots their homes
are the last slot or the one after the first, so chains wrap around the end and are
taken apart when the table grows; four keys grow it twice (at 2 and at 4 slots). 2 in place of 16
makes that happen within four keys; the code tests nothing but `(count + 1) * 4 >
capacity * 3`. It shows `TypeOK`, `LookupFinds`, `LookupEnds`, `OneSlotPerKey`,
`IsDictionary` and `OperationEnds`.

`Dictionary` is what both promise: an insertion puts one key and disturbs no other,
nothing but an emptying removes one. `Pairs` maps a table to it, with what is still
to be moved.

Fairness: `WF_vars(Work)`, an operation that runs goes on, as a function of one
thread does. Deadlock is not checked: `crashed` is an end.

### Proofs

`IdTablesProofs` proves all but `OperationEnds`, for any ids, hash functions,
lists and any first capacity of at least 2, from `TablesAssumption`. The
invariant: `Chains`, every slot from the home of a key to its slot is in use;
`OldDistinct` and `Apart`, no key is twice in the old table and the new one taken
together; `Loaded`, three quarters of the table are never exceeded, counting what
is still to be moved. `KeyIsNew` draws from `Chains` that an insertion that stops
at a free slot has passed every slot its key could be in. `TablesLookupEnds`
compares cardinalities.

`TablesProbingsStop` is the safety that `OperationEnds` rests on: for every key, in the
table or not, there is one slot where its probing stops, and no other, and so for every
entry that is still to be moved. `FirstOfProbe` finds it: the least slot that stops the
probing from the home of the key to the end of the table, or else from its beginning.
It also shows that the choice of a slot in `Move` and `Place` is none.

## Searches and installed packages

### State and actions

`SearchOps` cuts `linyaps_search` where it blocks: for the configuration and for the
reply. `searches` is `ctx->searches`, `inbox`, `jobs` and `signals` are the daemon's
(external). Requests and the jobs the daemon makes of them share their names, since
job ids are never used again. `answered` counts the calls of each callback and
`handed` is the last one. The payload of a signal is chosen when it is parsed; the
daemon finds packages only in the repos it was asked for. Repos are sets: what is
between the commas of an argument, and what a configuration has. Their order and
repetitions change nothing in what is searched.

| Action | Code |
|---|---|
| `linyaps_search`, `ConfigurationRead`, `SearchReturns`, `SearchFails` | `linyaps_search`, `configured_repos_csv`, `append_repos`, `search_push` |
| `on_search_finished` | the handler with `search_take`, `parse_search_reply` and the filter |
| `linyaps_context_free` | dropping the searches that wait |
| `Looks`, `Finishes`, `Dies` | the daemon: it may refuse, be late, or die with its jobs |

`SearchFilter` is the filter of results: its loop is a function of the number of turns,
each of which is a `Keep`; `Older` is `compare_versions`, on versions reduced to their
numbers and the place of their text. `IsNewestOfEach` is the reference definition.

`LocalList` cuts the reading of `states.json` at the points where the file may
change: opening, measuring, reading. The daemon replaces the file, removes it or
writes over it; `fd` is the file that is open, which stays when it is replaced, and
`torn` says that it was written over after it was measured. What is read is what
is held, cut to the size that was measured; from a torn file it is anything, also a
mixture of old and new bytes that parses (`Mixtures`). `ll-cli` prints a list or fails
(`Garbage`), and then the list is empty. `seen` and `printed` are history: what the file
was during the call, and what `ll-cli` printed in it.

`PackageQueries` puts both in one specification. They share no state: a behaviour is
of one or the other.

### Run

`queries`: two searches and one of another client, eight packages with versions of
which numbers and text disagree, lists of up to four results, two configurations,
one death of the daemon; and three documents, an empty and a broken one, two mixtures,
two changes of the file.

| Property | Says |
|---|---|
| `AnsweredOnce` | a callback is called once, and from then on nothing in the context can call it |
| `AnswerIsOwn` | with the result of its own job, from the repos it named, and packages only with code 0 |
| `NewestKept` | of each package the newest version, in whatever order they were found |
| `ResultIsSnapshot` | unless the file was written over after it was measured: a list is that of the file at one moment of the call, or what `ll-cli` printed if at some moment there was no file or an empty one; a package is as the file listed it, or as `ll-cli` has it if at some moment the file did not list it. In any case no package is returned for another |
| `EverySearchAnswered` | each search is answered, or the daemon died with its job, or the context is freed |

Bounds. Two searches are enough for signals in another order than the calls, for one
that overtakes its reply, and for a reply that comes when the next call blocks. The
lists have each order of three versions that matters to the loop, with a
package of another slot between. Two changes of the file fit both between the
opening and the measuring and between the measuring and the reading.

Fairness: `Library`, because a blocking call returns by its time limit and the loop
calls `linyaps_process` again and again; and each job that a living daemon began is
finished. That the daemon looks at a call is not assumed: its time limit answers the
search then. Deadlock is not checked: when all searches are made, the user is done.

`ResultIsSnapshot` promises nothing of a list read from a torn file, since the code does not:
the buffer may be a mixture of two documents. If it parses, the list may have packages
of both or of neither; if not, the list is empty, which looks like a list of nothing,
as it does when `ll-cli` fails. Its caller cannot tell any of these from the list of
a file.

### Proofs

`PackageQueriesProofs` proves every invariant of the run, for any number of searches,
jobs of others, deaths, packages, documents and changes of the file.

- `SearchesAnsweredOnce`: a search is not made, called, waiting or answered and in one
  of these only (`UnbornIsNowhere` and `AnsweredOnce` together are inductive with the
  types). `Removed` and `Taken` say what taking a search out of the list leaves.
- `AnswersAreOwn`: `AnswerIsOwn` looks at the last call only. `OwnInv` says of the call in
  the inbox, of the job and of the signal alike that they belong to a search that was
  made, in no other repos than it named (`OwnJob`), and that the configuration is read
  only for a search that named none. With `Taken`, that `search_take` returns the search
  of the job, this passes from the call to the callback.
- `OlderMeansNewer`: `compare_versions` is the order that is meant, for all versions.
- `FilterKeepsNewest`: the filter computes `IsNewestOfEach` for lists of any length.
  `Filtered` is the invariant of its loop and `KeepFiltered` one turn of it; a turn may
  replace a package in its place, which is why the places are compared by the first of
  each slot (`FirstOfSlot`). `NewestAreKept` applies it to what a callback is handed.
- `ResultsAreSnapshots`: `LocalInv` adds to the property that the file and what the call
  has open are documents it has seen (`CallKnown`, `HeldWasSeen`), that what is held has the
  length that was measured unless it is torn, so that `CutTo` cuts nothing, and that
  `ll-cli` is asked for the list only if a file was missing or empty, and for a package
  only when the file may not have had it (`CommandIsNeeded`). `ParseIds` and
  `FindFacts` say what the two searches of a document return, for any list of layers.
- `QueriesTypes`: the types, from the invariants above.

The loops of the code are recursive functions of the number of turns. TLAPS does not
take the library's induction, whose parameter is an operator, but an induction over a
set of numbers is a first-order fact: `NumbersByInduction` proves it from the least
number outside the set, and `LoopHasValues` that a function with the values of the loop
exists. What is summed up by a fold or a `SelectSeq` of the library has no such proof,
which is why the loops are not written with them.

`RequestsAssumption`, `PackagesAssumption` and `DocumentsAssumption` name the constants apart
(NULL is no string, a request of this client no job of another), give records their
fields, and say that results are lists of packages, that an empty document, and no other, has
no bytes, and that what is read, mixtures included, has a list of layers.

- `QuietSearchesAnswered`: once no call blocks, the daemon has no job and every signal was
  handled, each search made was answered or its job died with the daemon. `ComesInv` says
  where an answer comes from: a search without one waits for its reply or in
  `pending_searches`, and then its job is under way. This is the safety
  `EverySearchAnswered` rests on.

Only model-checked: `EverySearchAnswered` itself (liveness).

`NewestKept` is about results without a circle of versions (`NoCircleAssumption`):
`compare_versions` is not transitive when versions with the same numbers have other
text, so that with "1.2", "1-3" and "1-x" the order of the results decides which is
kept. The dotted numbers of the packages have no such circle.

## Limits of the proofs

All invariants and action properties of the passing runs are proved, `BindsOwn` and
`LastWordIsOutcome` under the conditions of the run `own`, `NoneForgotten` and
`KeepsLifecycle` without failing allocations, as said above. Left to TLC are the four
properties that the code violates and liveness (`EveryRequestEnds`, `CheckEnds`,
`PostReturns`, `OperationEnds`, `EverySearchAnswered`): the prover takes neither fairness nor
`ENABLED`. The safety that each of these rests on, that what it waits for is still there
or that nobody waits in vain, is stated with the guards of the actions and proved:
`StillToComeHolds`, `CheckIsPendingHolds`, `PoolNoStandstill`, `TablesProbingsStop` and
`QuietSearchesAnswered`.

Loops are proved about where they are recursive functions over numbers. The data of a
loop must then be a function or a sequence with a length; what a parser makes of bytes
is not modelled at all.

## Not modelled

- `TaskTracker`: percentages, messages and error codes (data next to the state,
  treated alike), malformed signals (the handlers return early), freeing the context
  (called when the process ends) and a crash of the daemon: no `TaskRemoved` comes
  then and the slots stay taken.
- `StoreUpdates`: percentages, simulated updates (a build option), copies of strings
  that fail, a full event queue and the effect of writes to freed memory on the rest of the heap.
- `CurlPool`: the list of headers, which is made and freed with its handle, and
  what a thread does with the pool after the process began to end.
- `RemotePages`: closing the window, `clear_search` and `on_search_results` (which
  nothing calls), a list entry that could not be converted (the log of
  `handle_user_event` reads through it), events lost because the queue is full. The
  list `installed` and the set and map of its ids are built once before the loop.
- Views: colours, texts, cards and the arena of the strings of a frame, which is
  emptied with each frame.
- `LocalList`: allocations that fail. A buffer that cannot be allocated counts as no file,
  and `ll-cli` is asked.
- D-Bus messages: the bytes. The parsers are seen through what they can find.
- Building requests to the server and reading its records in
  `lib/linyaps_remote.c`: pure conversions of strings.
- A search without a callback, which changes nothing.
- Tests (`tests/`) drive the library from outside; cJSON is vendored; kilnui is a
  submodule whose directory is empty.

Worth adding: a loop that composes the frames of `RemotePages` with the turns of
`StoreUpdates`, and the last word of a request that is bound to the task of another.
