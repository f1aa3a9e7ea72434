------------------------------ MODULE SearchOps ------------------------------
(***************************************************************************)
(* Searches of lib/linyaps_context.c and lib/linyaps_task.c: linyaps_search *)
(* asks the daemon for a job and blocks for the reply, and the answer comes *)
(* later with the signal SearchFinished. The list of the searches that wait *)
(* for their signal is what joins the two.                                 *)
(*                                                                         *)
(* The daemon names each job anew, so a job has the name of its request    *)
(* here. Signals that come while a call blocks are queued by sd-bus and    *)
(* handled by linyaps_process.                                             *)
(***************************************************************************)
EXTENDS SearchFilter

CONSTANTS
  Requests,        \* calls of linyaps_search, each made at most once
  OtherJobs,       \* searches of other clients; SearchFinished is broadcast
  RepoArgs,        \* arguments repos, as sets of what is between commas
  Configurations,  \* what the daemon may have configured: sets of repos
  Results,         \* sequences of packages a search may find
  Nothing, Blank,  \* NULL and ""
  Unborn,          \* in wants: not called yet
  Stable,          \* "stable", the repo asked when nothing else is known
  MaxCrashes       \* bound: deaths of the daemon

Failed == 1      \* any code but 0
Jobs == Requests \cup OtherJobs
Queries == RepoArgs \cup {Nothing}

ASSUME RequestsAssumption ==
  /\ Nothing \notin Requests \cup {"job", "refused"} /\ Requests \cap OtherJobs = {}
  /\ Unborn \notin Queries
  /\ Results \subseteq Seq(Packages)
  /\ MaxCrashes \in Nat

VARIABLES
  open,      \* the context has not been freed
  wants,     \* history: the repos each request asked for, or Unborn
  calling,   \* the request linyaps_search blocks for and what it waits for
  reply,     \* the reply to it, when it has come
  searches,  \* ctx->searches, the newest first
  inbox,     \* calls of Search the daemon has not looked at
  jobs,      \* searches the daemon is busy with, each with its repos
  signals,   \* SearchFinished, in the order of the bus
  answered,  \* how often the callback of each request was called
  handed,    \* the last step's call of a callback
  lost,      \* the requests with a job that died with the daemon
  crashes

searchVars == <<open, wants, calling, reply, searches, inbox, jobs, signals,
                answered, handed, lost, crashes>>

NoCall == [request |-> Nothing, waits |-> "none"]

(* What the daemon replies to Search: the id of a job with code 0, or not:
   another code, no id, an empty one. *)
Replies == {"job", "refused"}

SearchInit ==
  /\ open = TRUE
  /\ wants = [r \in Requests |-> Unborn]
  /\ calling = NoCall /\ reply = Nothing
  /\ searches = <<>>
  /\ inbox = {} /\ jobs = {[job |-> j, repos |-> {Stable}] : j \in OtherJobs}
  /\ signals = <<>>
  /\ answered = [r \in Requests |-> 0] /\ handed = Nothing
  /\ lost = {} /\ crashes = 0

-----------------------------------------------------------------------------
(* Calling back *)

Answer(request, job, code, packages, items) ==
  /\ answered' = [answered EXCEPT ![request] = @ + 1]
  /\ handed' = [request |-> request, job |-> job, code |-> code,
                packages |-> packages, items |-> items]

Fail(request) == Answer(request, request, Failed, <<>>, <<>>)

Silent == handed' = Nothing /\ UNCHANGED answered

-----------------------------------------------------------------------------
(* linyaps_search, cut where it blocks *)

(* Blank pieces between the commas are left out. *)
append_repos(pieces) == pieces \ {Blank}

Ask(request, pieces) ==
  /\ calling' = [request |-> request, waits |-> "search"]
  /\ inbox' = inbox \cup {[job |-> request, repos |-> append_repos(pieces)]}

linyaps_search(request, repos) ==
  /\ open /\ calling = NoCall
  /\ wants[request] = Unborn
  /\ wants' = [wants EXCEPT ![request] = repos]
  /\ \/ (* no keyword *)
        Fail(request) /\ UNCHANGED <<calling, inbox>>
     \/ /\ Silent
        /\ IF repos \in {Nothing, {}}
           THEN /\ calling' = [request |-> request, waits |-> "configuration"]
                /\ UNCHANGED inbox
           ELSE Ask(request, repos)
  /\ UNCHANGED <<open, reply, searches, jobs, signals, lost, crashes>>

(* A repo is asked for by its alias, by its name when it has none, and not at
   all when that is empty. *)
configured_repos_csv(configuration) ==
  {IF repo.alias # Nothing THEN repo.alias ELSE repo.name : repo \in configuration}
    \ {Nothing, Blank}

(* The property arrives, or cannot be read (Nothing). *)
ConfigurationRead(configuration) ==
  /\ calling.waits = "configuration"
  /\ LET csv == IF configuration = Nothing THEN {}
                ELSE configured_repos_csv(configuration)
     IN  Ask(calling.request, IF csv = {} THEN {Stable} ELSE csv)
  /\ Silent
  /\ UNCHANGED <<open, wants, reply, searches, jobs, signals, lost, crashes>>

search_push(request) == searches' = <<request>> \o searches

(* The reply ends the call. The callback hears at once of a reply that cannot
   be parsed, of a refusal, and of no memory to wait for the job. *)
SearchReturns ==
  /\ calling.waits = "search" /\ reply # Nothing
  /\ calling' = NoCall /\ reply' = Nothing
  /\ \/ reply = "job" /\ search_push(calling.request) /\ Silent
     \/ Fail(calling.request) /\ UNCHANGED searches
  /\ UNCHANGED <<open, wants, inbox, jobs, signals, lost, crashes>>

(* sd_bus_call fails: after its time is up, or because the daemon is gone. A
   reply that comes later is dropped by sd-bus; the job, if the daemon began
   it, goes on. *)
SearchFails ==
  /\ calling.waits = "search" /\ reply = Nothing
  /\ calling' = NoCall
  /\ Fail(calling.request)
  /\ UNCHANGED <<open, wants, reply, searches, inbox, jobs, signals, lost, crashes>>

-----------------------------------------------------------------------------
(* linyaps_process *)

SearchTakeNewest(job) ==
  [request |-> searches[1], rest |-> Tail(searches)]

SearchTakeAndKeep(job) ==
  [request |-> searches[Min({i \in DOMAIN searches : searches[i] = job})],
   rest |-> searches]

(* The first search of the list with this job, and the list without it. *)
search_take(job) ==
  LET i == Min({k \in DOMAIN searches : searches[k] = job})
  IN  [request |-> searches[i], rest |-> RemoveAt(searches, i)]

(* What parse_search_reply makes of a reply: an error, or a code and the
   packages, none when the field is missing. The daemon finds packages in the
   repos it was asked to look in. *)
Payloads(repos) ==
  {[parsed |-> FALSE, code |-> 0, packages |-> <<>>],
   [parsed |-> TRUE, code |-> Failed, packages |-> <<>>]}
  \cup {[parsed |-> TRUE, code |-> 0, packages |-> found] :
          found \in {list \in Results : \A i \in DOMAIN list : list[i].repo \in repos}}

ReportUnlessTorn(taken, job, payload) ==
  IF ~payload.parsed THEN Silent
  ELSE IF payload.code # 0 THEN Answer(taken, job, payload.code, <<>>, <<>>)
  ELSE Answer(taken, job, 0, payload.packages,
              filter_store_search_results(payload.packages))

Report(taken, job, payload) ==
  IF ~payload.parsed \/ payload.code # 0 THEN Answer(taken, job, Failed, <<>>, <<>>)
  ELSE Answer(taken, job, 0, payload.packages,
              filter_store_search_results(payload.packages))

on_search_finished ==
  /\ open /\ calling = NoCall /\ signals # <<>>
  /\ LET signal == Head(signals)
     IN  IF \E i \in DOMAIN searches : searches[i] = signal.job
         THEN LET taken == search_take(signal.job)
              IN  /\ searches' = taken.rest
                  /\ \E payload \in Payloads(signal.repos) :
                       Report(taken.request, signal.job, payload)
         ELSE Silent /\ UNCHANGED searches
  /\ signals' = Tail(signals)
  /\ UNCHANGED <<open, wants, calling, reply, inbox, jobs, lost, crashes>>

(* Searches that still wait are dropped, their callbacks are not called. *)
linyaps_context_free ==
  /\ open /\ calling = NoCall
  /\ open' = FALSE /\ searches' = <<>> /\ signals' = <<>>
  /\ Silent
  /\ UNCHANGED <<wants, calling, reply, inbox, jobs, lost, crashes>>

-----------------------------------------------------------------------------
(* The daemon, as long as somebody listens *)

Looks(call) ==
  /\ call \in inbox /\ inbox' = inbox \ {call}
  /\ \E answer \in Replies :
       /\ jobs' = IF answer = "job" THEN jobs \cup {call} ELSE jobs
       /\ reply' = IF calling = [request |-> call.job, waits |-> "search"]
                   THEN answer ELSE reply
  /\ Silent
  /\ UNCHANGED <<open, wants, calling, searches, signals, lost, crashes>>

Finishes(job) ==
  /\ job \in jobs /\ jobs' = jobs \ {job}
  /\ signals' = Append(signals, job)
  /\ Silent
  /\ UNCHANGED <<open, wants, calling, reply, searches, inbox, lost, crashes>>

(* Another daemon takes over, without the calls and the jobs. *)
Dies ==
  /\ crashes < MaxCrashes /\ crashes' = crashes + 1
  /\ inbox' = {} /\ jobs' = {}
  /\ lost' = lost \cup ({job.job : job \in jobs} \cap Requests)
  /\ Silent
  /\ UNCHANGED <<open, wants, calling, reply, searches, signals>>

-----------------------------------------------------------------------------
Library ==
  \/ \E configuration \in Configurations \cup {Nothing} : ConfigurationRead(configuration)
  \/ SearchReturns \/ SearchFails
  \/ on_search_finished

Daemon ==
  /\ open
  /\ (\E call \in inbox : Looks(call)) \/ (\E job \in jobs : Finishes(job)) \/ Dies

SearchNext ==
  \/ \E r \in Requests, repos \in Queries : linyaps_search(r, repos)
  \/ linyaps_context_free
  \/ Library \/ Daemon

-----------------------------------------------------------------------------
SearchTypeOK ==
  /\ open \in BOOLEAN
  /\ wants \in [Requests -> Queries \cup {Unborn}]
  /\ calling \in [request : Requests, waits : {"configuration", "search"}] \cup {NoCall}
  /\ reply \in Replies \cup {Nothing}
  /\ searches \in Seq(Requests)
  /\ \A job \in inbox \cup jobs \cup ToSet(signals) : job.job \in Jobs
  /\ answered \in [Requests -> Nat]
  /\ lost \subseteq Requests
  /\ crashes \in 0 .. MaxCrashes

Waiting(r) == \E i \in DOMAIN searches : searches[i] = r

(* The callback of a search is called at most once, and from then on nothing
   in the context can call it again: not a signal that overtakes the reply, a
   reply after the time is up, or the answer to a search of another client. *)
AnsweredOnce ==
  /\ \A r \in Requests :
       /\ answered[r] <= 1
       /\ answered[r] = 1 => calling.request # r /\ ~Waiting(r)
       /\ calling.request = r => ~Waiting(r)
  /\ \A i, j \in DOMAIN searches : searches[i] = searches[j] => i = j

(* A callback gets the result of its own search, from the repos it named, and
   packages only with code 0. *)
AnswerIsOwn ==
  handed # Nothing =>
    /\ handed.job = handed.request
    /\ handed.code # 0 => handed.items = <<>>
    /\ wants[handed.request] \notin {Nothing, {}} =>
         \A i \in DOMAIN handed.items :
           handed.items[i].repo \in wants[handed.request]

(* What is shown for a package is its newest version, in whatever order the
   daemon lists the versions, and nothing that was found is missing. *)
NewestKept == handed # Nothing => IsNewestOfEach(handed.items, handed.packages)

(* Every search is answered unless the daemon dies with its job or the context
   is freed. *)
EverySearchAnswered ==
  \A r \in Requests :
    wants[r] # Unborn ~> answered[r] > 0 \/ r \in lost \/ ~open
=============================================================================
