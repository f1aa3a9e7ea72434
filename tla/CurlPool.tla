------------------------------ MODULE CurlPool ------------------------------
(***************************************************************************)
(* The pool of curl handles of lib/linyaps_remote.c. Detached threads post *)
(* requests; each takes a handle from the pool, or makes a temporary one   *)
(* when every entry is in use, and gives it back. The process may end, and *)
(* with it run the destructor of the pool, at any moment.                  *)
(*                                                                         *)
(* The list of headers of a handle is made and freed with the handle and   *)
(* is not modelled apart from it.                                          *)
(***************************************************************************)
EXTENDS Naturals, FiniteSets

CONSTANTS
  Threads,     \* the threads that call http_post_json
  PoolSize,    \* CURL_POOL_SIZE
  Handles,     \* the addresses curl_easy_init may return
  None         \* NULL, and nobody

ASSUME PoolAssumption ==
  /\ PoolSize \in Nat \ {0}
  /\ None \notin Handles \cup Threads

Entries == 1 .. PoolSize

VARIABLES
  mutex,       \* the holder of g_curl_pool_mutex
  handle,      \* g_curl_pool[i].handle
  inUse,       \* g_curl_pool[i].in_use
  live,        \* handles curl_easy_init made and curl_easy_cleanup has not seen
  pc,          \* where each thread is in http_post_json
  entry,       \* the entry i a thread found in curl_pool_acquire
  curl,        \* the local variable curl of each thread
  pooled,      \* is_pooled of each thread
  destroyed    \* curl_pool_destroy has run

vars == <<mutex, handle, inUse, live, pc, entry, curl, pooled, destroyed>>

Places == {"idle", "acquire", "scan", "found", "full", "check", "look",
           "perform", "release", "mark"}

Init ==
  /\ mutex = None
  /\ handle = [i \in Entries |-> None]
  /\ inUse = [i \in Entries |-> FALSE]
  /\ live = {}
  /\ pc = [t \in Threads |-> "idle"]
  /\ entry = [t \in Threads |-> 1]
  /\ curl = [t \in Threads |-> None]
  /\ pooled = [t \in Threads |-> FALSE]
  /\ destroyed = FALSE

Goto(t, place) == pc' = [pc EXCEPT ![t] = place]

At(t, place) == ~destroyed /\ pc[t] = place

(* Every thread locks the mutex at three places and goes on holding it.    *)
Lock(t, from, to) ==
  /\ At(t, from)
  /\ mutex = None
  /\ mutex' = t
  /\ Goto(t, to)

-----------------------------------------------------------------------------
(* curl_pool_acquire *)

Post(t) ==
  /\ At(t, "idle")
  /\ Goto(t, "acquire")
  /\ UNCHANGED <<mutex, handle, inUse, live, entry, curl, pooled, destroyed>>

AcquireLock(t) ==
  /\ Lock(t, "acquire", "scan")
  /\ UNCHANGED <<handle, inUse, live, entry, curl, pooled, destroyed>>

(* Mutant of FirstFree: in_use is not looked at. *)
FirstFreeIgnored(i) == \A j \in 1 .. i - 1 : inUse[j]

(* The loop stops at the first entry that is not in use. *)
FirstFree(i) == ~inUse[i] /\ \A j \in 1 .. i - 1 : inUse[j]

(* Mutant of ScanFinds: the entry is remembered one too low. *)
ScanFindsBelow(t) ==
  /\ At(t, "scan")
  /\ \E i \in Entries :
       /\ FirstFree(i)
       /\ inUse' = [inUse EXCEPT ![i] = TRUE]
       /\ entry' = [entry EXCEPT ![t] = i - 1]
       /\ handle[i] = None
       /\ \E h \in Handles \ live :
            /\ handle' = [handle EXCEPT ![i] = h]
            /\ live' = live \cup {h}
  /\ mutex' = None
  /\ Goto(t, "found")
  /\ UNCHANGED <<curl, pooled, destroyed>>

(* The entry has a handle already, or curl_easy_init makes one at an
   address that is not in use. *)
ScanFinds(t) ==
  /\ At(t, "scan")
  /\ \E i \in Entries :
       /\ FirstFree(i)
       /\ inUse' = [inUse EXCEPT ![i] = TRUE]
       /\ entry' = [entry EXCEPT ![t] = i]
       /\ \/ /\ handle[i] # None
             /\ UNCHANGED <<handle, live>>
          \/ /\ handle[i] = None
             /\ \E h \in Handles \ live :
                  /\ handle' = [handle EXCEPT ![i] = h]
                  /\ live' = live \cup {h}
  /\ mutex' = None
  /\ Goto(t, "found")
  /\ UNCHANGED <<curl, pooled, destroyed>>

(* Mutant of ScanInitFails: the mutex is not unlocked before the return. *)
ScanInitFailsLocked(t) ==
  /\ At(t, "scan")
  /\ \E i \in Entries : FirstFree(i) /\ handle[i] = None
  /\ Goto(t, "idle")
  /\ UNCHANGED <<mutex, handle, inUse, live, entry, curl, pooled, destroyed>>

(* curl_easy_init fails: acquire returns NULL and http_post_json gives up. *)
ScanInitFails(t) ==
  /\ At(t, "scan")
  /\ \E i \in Entries : FirstFree(i) /\ handle[i] = None
  /\ mutex' = None
  /\ Goto(t, "idle")
  /\ UNCHANGED <<handle, inUse, live, entry, curl, pooled, destroyed>>

ScanFindsNone(t) ==
  /\ At(t, "scan")
  /\ \A i \in Entries : inUse[i]
  /\ mutex' = None
  /\ Goto(t, "full")
  /\ UNCHANGED <<handle, inUse, live, entry, curl, pooled, destroyed>>

(* After the unlock: the handle of the entry is read again and reset. *)
TakeEntry(t) ==
  /\ At(t, "found")
  /\ curl' = [curl EXCEPT ![t] = handle[entry[t]]]
  /\ Goto(t, "check")
  /\ UNCHANGED <<mutex, handle, inUse, live, entry, pooled, destroyed>>

MakeTemporary(t) ==
  /\ At(t, "full")
  /\ \E h \in Handles \ live :
       /\ live' = live \cup {h}
       /\ curl' = [curl EXCEPT ![t] = h]
  /\ Goto(t, "check")
  /\ UNCHANGED <<mutex, handle, inUse, entry, pooled, destroyed>>

TemporaryFails(t) ==
  /\ At(t, "full")
  /\ Goto(t, "idle")
  /\ UNCHANGED <<mutex, handle, inUse, live, entry, curl, pooled, destroyed>>

-----------------------------------------------------------------------------
(* curl_pool_contains, the request itself, curl_pool_release *)

ContainsLock(t) ==
  /\ Lock(t, "check", "look")
  /\ UNCHANGED <<handle, inUse, live, entry, curl, pooled, destroyed>>

(* Mutant of Contains: the last entry is not looked at. *)
ContainsShort(t) ==
  /\ At(t, "look")
  /\ pooled' =
       [pooled EXCEPT ![t] = \E i \in 1 .. PoolSize - 1 : handle[i] = curl[t]]
  /\ mutex' = None
  /\ Goto(t, "perform")
  /\ UNCHANGED <<handle, inUse, live, entry, curl, destroyed>>

Contains(t) ==
  /\ At(t, "look")
  /\ pooled' = [pooled EXCEPT ![t] = \E i \in Entries : handle[i] = curl[t]]
  /\ mutex' = None
  /\ Goto(t, "perform")
  /\ UNCHANGED <<handle, inUse, live, entry, curl, destroyed>>

(* curl_easy_perform ends with an answer, an error or the timeout; either
   way the handle goes back. *)
Perform(t) ==
  /\ At(t, "perform")
  /\ Goto(t, "release")
  /\ UNCHANGED <<mutex, handle, inUse, live, entry, curl, pooled, destroyed>>

ReleaseLock(t) ==
  /\ pooled[t]
  /\ Lock(t, "release", "mark")
  /\ UNCHANGED <<handle, inUse, live, entry, curl, pooled, destroyed>>

(* Mutant of ReleasePooled: in_use is not reset. *)
ReleasePooledLeaked(t) ==
  /\ At(t, "mark")
  /\ mutex' = None
  /\ curl' = [curl EXCEPT ![t] = None]
  /\ Goto(t, "idle")
  /\ UNCHANGED <<handle, inUse, live, entry, pooled, destroyed>>

ReleasePooled(t) ==
  /\ At(t, "mark")
  /\ inUse' = [i \in Entries |-> inUse[i] /\ handle[i] # curl[t]]
  /\ mutex' = None
  /\ curl' = [curl EXCEPT ![t] = None]
  /\ Goto(t, "idle")
  /\ UNCHANGED <<handle, live, entry, pooled, destroyed>>

(* Mutant of ReleaseTemporary: the handle is not cleaned up. *)
ReleaseTemporaryLeaked(t) ==
  /\ At(t, "release")
  /\ ~pooled[t]
  /\ curl' = [curl EXCEPT ![t] = None]
  /\ Goto(t, "idle")
  /\ UNCHANGED <<mutex, handle, inUse, live, entry, pooled, destroyed>>

ReleaseTemporary(t) ==
  /\ At(t, "release")
  /\ ~pooled[t]
  /\ live' = live \ {curl[t]}
  /\ curl' = [curl EXCEPT ![t] = None]
  /\ Goto(t, "idle")
  /\ UNCHANGED <<mutex, handle, inUse, entry, pooled, destroyed>>

(* curl_pool_destroy, when the process ends. The detached threads may be
   anywhere; what they do with a pool that is gone is not modelled. *)
Destroy ==
  /\ ~destroyed
  /\ mutex = None
  /\ live' = live \ {handle[i] : i \in Entries}
  /\ handle' = [i \in Entries |-> None]
  /\ inUse' = [i \in Entries |-> FALSE]
  /\ destroyed' = TRUE
  /\ UNCHANGED <<mutex, pc, entry, curl, pooled>>

(* The detached threads, and what they do between two posts. *)
Thread(t) ==
  \/ AcquireLock(t) \/ ScanFinds(t) \/ ScanInitFails(t) \/ ScanFindsNone(t)
  \/ TakeEntry(t) \/ MakeTemporary(t) \/ TemporaryFails(t)
  \/ ContainsLock(t) \/ Contains(t) \/ Perform(t)
  \/ ReleaseLock(t) \/ ReleasePooled(t) \/ ReleaseTemporary(t)

Next == Destroy \/ \E t \in Threads : Post(t) \/ Thread(t)

Spec == Init /\ [][Next]_vars

(* A started request goes on: curl has a timeout, and no thread is kept from
   the mutex for ever. *)
FairSpec == Spec /\ \A t \in Threads : SF_vars(Thread(t))

-----------------------------------------------------------------------------
Holding == {"check", "look", "perform", "release", "mark"}

Holds(t, h) == pc[t] \in Holding /\ curl[t] = h

Pooled == {handle[i] : i \in Entries} \ {None}

TypeOK ==
  /\ mutex \in Threads \cup {None}
  /\ handle \in [Entries -> Handles \cup {None}]
  /\ inUse \in [Entries -> BOOLEAN]
  /\ live \in SUBSET Handles
  /\ pc \in [Threads -> Places]
  /\ entry \in [Threads -> Entries]
  /\ curl \in [Threads -> Handles \cup {None}]
  /\ pooled \in [Threads -> BOOLEAN]
  /\ destroyed \in BOOLEAN

(* Until the process ends, every handle in the pool and every handle a thread
   works with exists: the user of a temporary handle cleans it up, and nobody
   cleans up a handle of the pool, although the question whether a handle is
   one of the pool's is asked when other threads may be filling the pool. *)
Alive ==
  ~destroyed =>
    /\ Pooled \subseteq live
    /\ \A t \in Threads : pc[t] \in Holding => curl[t] \in live

(* No handle is lost, also when the process ends: each one that exists is in
   the pool or with the thread that will clean it up. *)
NoHandleLost == \A h \in live : h \in Pooled \/ \E t \in Threads : Holds(t, h)

(* An entry marked as in use has a thread that will give it back, so that the
   pool does not fill up with entries nobody uses. *)
InUseHasUser ==
  \A i \in Entries : inUse[i] =>
    \E t \in Threads :
      \/ pc[t] = "found" /\ entry[t] = i
      \/ Holds(t, handle[i])

(* No two threads work with one handle, whether it came from the pool or was
   made for the request: the pool implements HandleLoan. *)
Loan == INSTANCE HandleLoan WITH
  using <- [t \in Threads |-> IF pc[t] \in Holding THEN curl[t] ELSE None]
LendsExclusively == Loan!Spec

(* Every post returns, with an answer or without, unless the process ends. *)
PostReturns == \A t \in Threads : pc[t] # "idle" ~> pc[t] = "idle" \/ destroyed
=============================================================================
