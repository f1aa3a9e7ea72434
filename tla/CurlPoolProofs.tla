--------------------------- MODULE CurlPoolProofs ---------------------------
(***************************************************************************)
(* Theorems about CurlPool, for any number of threads, entries and handles *)
(*                                                                         *)
(* The argument: the entries hold different handles, an entry a thread     *)
(* found or works with is marked in_use, and so a thread that takes an     *)
(* unmarked entry, or a handle that did not exist, takes one nobody has.   *)
(***************************************************************************)
EXTENDS CurlPool, NaturalsInduction, WellFoundedInduction, TLAPS

Critical == {"scan", "look", "mark"}

(* A thread in a critical section holds the mutex. *)
Keeps == \A t \in Threads : pc[t] \in Critical => mutex = t

(* No handle is in two entries. *)
Distinct ==
  \A i, j \in Entries : handle[i] # None /\ handle[i] = handle[j] => i = j

(* The entry a thread found stays marked and filled, and is nobody else's. *)
FoundMarked ==
  \A t \in Threads : pc[t] = "found" =>
    inUse[entry[t]] /\ handle[entry[t]] # None

FoundAlone ==
  \A t, u \in Threads :
    pc[t] = "found" /\ pc[u] = "found" /\ entry[t] = entry[u] => t = u

FoundNotHeld ==
  \A t, u \in Threads :
    pc[t] = "found" /\ pc[u] \in Holding => handle[entry[t]] # curl[u]

(* No handle is with two threads, and an entry whose handle is with a thread
   is marked. *)
HeldAlone ==
  \A t, u \in Threads :
    pc[t] \in Holding /\ pc[u] \in Holding /\ curl[t] = curl[u] => t = u

HeldMarked ==
  \A t \in Threads, i \in Entries :
    pc[t] \in Holding /\ curl[t] = handle[i] => inUse[i]

(* The answer of curl_pool_contains stays true until the handle goes back. *)
PooledKnown ==
  \A t \in Threads : pc[t] \in {"perform", "release", "mark"} =>
    (pooled[t] <=> \E i \in Entries : handle[i] = curl[t])

MarkPooled == \A t \in Threads : pc[t] = "mark" => pooled[t]

AliveNow ==
  /\ \A i \in Entries : handle[i] # None => handle[i] \in live
  /\ \A t \in Threads : pc[t] \in Holding => curl[t] \in live

Sound ==
  /\ Distinct
  /\ FoundMarked
  /\ FoundAlone
  /\ FoundNotHeld
  /\ HeldAlone
  /\ HeldMarked
  /\ PooledKnown
  /\ MarkPooled
  /\ AliveNow

IInv == TypeOK /\ Keeps /\ NoHandleLost /\ InUseHasUser /\ (~destroyed => Sound)

-----------------------------------------------------------------------------
LEMMA InitHolds == Init => IInv
<1> SUFFICES ASSUME Init PROVE IInv
  OBVIOUS
<1> USE PoolAssumption DEF Init, Entries
<1>1. TypeOK
  <2>1. 1 \in Entries
    OBVIOUS
  <2> QED
    BY <2>1, Zenon DEF TypeOK, Places
<1>2. Keeps BY DEF Keeps, Critical
<1>3. NoHandleLost /\ InUseHasUser BY DEF NoHandleLost, InUseHasUser
<1>4. Sound
  BY DEF Sound, Distinct, FoundMarked, FoundAlone, FoundNotHeld, HeldAlone,
         HeldMarked, PooledKnown, MarkPooled, AliveNow, Holding
<1> QED BY <1>1, <1>2, <1>3, <1>4 DEF IInv

(* The same case split serves every part of the invariant. *)
LEMMA TypeStep == TypeOK /\ [Next]_vars => TypeOK'
<1> SUFFICES ASSUME TypeOK, [Next]_vars PROVE TypeOK'
  OBVIOUS
<1> USE PoolAssumption DEF TypeOK, Entries, Places, At, Goto, Lock
<1>1. CASE UNCHANGED vars BY <1>1 DEF vars
<1>2. CASE Destroy BY <1>2 DEF Destroy
<1>3. ASSUME NEW t \in Threads, Post(t) \/ Thread(t) PROVE TypeOK'
  <2>1. CASE Post(t) BY <2>1 DEF Post
  <2>2. CASE AcquireLock(t) BY <2>2 DEF AcquireLock
  <2>3. CASE ScanFinds(t) BY <2>3 DEF ScanFinds
  <2>4. CASE ScanInitFails(t) BY <2>4 DEF ScanInitFails
  <2>5. CASE ScanFindsNone(t) BY <2>5 DEF ScanFindsNone
  <2>6. CASE TakeEntry(t) BY <2>6 DEF TakeEntry
  <2>7. CASE MakeTemporary(t) BY <2>7 DEF MakeTemporary
  <2>8. CASE TemporaryFails(t) BY <2>8 DEF TemporaryFails
  <2>9. CASE ContainsLock(t) BY <2>9 DEF ContainsLock
  <2>10. CASE Contains(t) BY <2>10 DEF Contains
  <2>11. CASE Perform(t) BY <2>11 DEF Perform
  <2>12. CASE ReleaseLock(t) BY <2>12 DEF ReleaseLock
  <2>13. CASE ReleasePooled(t) BY <2>13 DEF ReleasePooled
  <2>14. CASE ReleaseTemporary(t) BY <2>14 DEF ReleaseTemporary
  <2> QED
    BY <1>3, <2>1, <2>2, <2>3, <2>4, <2>5, <2>6, <2>7, <2>8, <2>9, <2>10,
       <2>11, <2>12, <2>13, <2>14 DEF Thread
<1> QED BY <1>1, <1>2, <1>3 DEF Next

LEMMA KeepsStep == TypeOK /\ Keeps /\ [Next]_vars => Keeps'
<1> SUFFICES ASSUME TypeOK, Keeps, [Next]_vars PROVE Keeps'
  OBVIOUS
<1> USE PoolAssumption DEF TypeOK, Keeps, Critical, At, Goto, Lock
<1>1. CASE UNCHANGED vars BY <1>1 DEF vars
<1>2. CASE Destroy BY <1>2 DEF Destroy
<1>3. ASSUME NEW t \in Threads, Post(t) \/ Thread(t) PROVE Keeps'
  <2>1. CASE Post(t) BY <2>1 DEF Post
  <2>2. CASE AcquireLock(t) BY <2>2 DEF AcquireLock
  <2>3. CASE ScanFinds(t) BY <2>3 DEF ScanFinds
  <2>4. CASE ScanInitFails(t) BY <2>4 DEF ScanInitFails
  <2>5. CASE ScanFindsNone(t) BY <2>5 DEF ScanFindsNone
  <2>6. CASE TakeEntry(t) BY <2>6 DEF TakeEntry
  <2>7. CASE MakeTemporary(t) BY <2>7 DEF MakeTemporary
  <2>8. CASE TemporaryFails(t) BY <2>8 DEF TemporaryFails
  <2>9. CASE ContainsLock(t) BY <2>9 DEF ContainsLock
  <2>10. CASE Contains(t) BY <2>10 DEF Contains
  <2>11. CASE Perform(t) BY <2>11 DEF Perform
  <2>12. CASE ReleaseLock(t) BY <2>12 DEF ReleaseLock
  <2>13. CASE ReleasePooled(t) BY <2>13 DEF ReleasePooled
  <2>14. CASE ReleaseTemporary(t) BY <2>14 DEF ReleaseTemporary
  <2> QED
    BY <1>3, <2>1, <2>2, <2>3, <2>4, <2>5, <2>6, <2>7, <2>8, <2>9, <2>10,
       <2>11, <2>12, <2>13, <2>14 DEF Thread
<1> QED BY <1>1, <1>2, <1>3 DEF Next

LEMMA SoundStep ==
  TypeOK /\ Keeps /\ (~destroyed => Sound) /\ [Next]_vars
    => (~destroyed' => Sound')
<1> SUFFICES ASSUME TypeOK, Keeps, ~destroyed => Sound, [Next]_vars, ~destroyed'
             PROVE  Sound'
  OBVIOUS
<1> USE PoolAssumption
    DEF TypeOK, Keeps, Critical, At, Goto, Lock, Holding,
        Sound, Distinct, FoundMarked, FoundAlone, FoundNotHeld, HeldAlone,
        HeldMarked, PooledKnown, MarkPooled, AliveNow
<1>1. CASE UNCHANGED vars BY <1>1 DEF vars
<1>2. CASE Destroy BY <1>2 DEF Destroy
<1>3. ASSUME NEW t \in Threads, Post(t) \/ Thread(t) PROVE Sound'
  <2>1. CASE Post(t) BY <2>1 DEF Post
  <2>2. CASE AcquireLock(t) BY <2>2 DEF AcquireLock
  <2>3. CASE ScanFinds(t) BY <2>3 DEF ScanFinds, FirstFree
  <2>4. CASE ScanInitFails(t) BY <2>4 DEF ScanInitFails
  <2>5. CASE ScanFindsNone(t) BY <2>5 DEF ScanFindsNone
  <2>6. CASE TakeEntry(t) BY <2>6 DEF TakeEntry
  <2>7. CASE MakeTemporary(t) BY <2>7 DEF MakeTemporary
  <2>8. CASE TemporaryFails(t) BY <2>8 DEF TemporaryFails
  <2>9. CASE ContainsLock(t) BY <2>9 DEF ContainsLock
  <2>10. CASE Contains(t) BY <2>10 DEF Contains
  <2>11. CASE Perform(t) BY <2>11 DEF Perform
  <2>12. CASE ReleaseLock(t) BY <2>12 DEF ReleaseLock
  <2>13. CASE ReleasePooled(t) BY <2>13 DEF ReleasePooled
  <2>14. CASE ReleaseTemporary(t) BY <2>14 DEF ReleaseTemporary
  <2> QED
    BY <1>3, <2>1, <2>2, <2>3, <2>4, <2>5, <2>6, <2>7, <2>8, <2>9, <2>10,
       <2>11, <2>12, <2>13, <2>14 DEF Thread
<1> QED BY <1>1, <1>2, <1>3 DEF Next

(* A thread that forgets a handle gave it back to the pool or cleaned it up. *)
LEMMA LostStep ==
  TypeOK /\ NoHandleLost /\ (~destroyed => Sound) /\ [Next]_vars
    => NoHandleLost'
<1> SUFFICES ASSUME TypeOK, NoHandleLost, ~destroyed => Sound, [Next]_vars
             PROVE  NoHandleLost'
  OBVIOUS
<1> USE PoolAssumption
    DEF TypeOK, At, Goto, Lock, Holding, NoHandleLost, Holds, Pooled,
        Sound, PooledKnown, MarkPooled, AliveNow
<1>1. CASE UNCHANGED vars BY <1>1 DEF vars
<1>2. CASE Destroy BY <1>2 DEF Destroy
<1>3. ASSUME NEW t \in Threads, Post(t) \/ Thread(t) PROVE NoHandleLost'
  <2>1. CASE Post(t) BY <2>1 DEF Post
  <2>2. CASE AcquireLock(t) BY <2>2 DEF AcquireLock
  <2>3. CASE ScanFinds(t) BY <2>3 DEF ScanFinds
  <2>4. CASE ScanInitFails(t) BY <2>4 DEF ScanInitFails
  <2>5. CASE ScanFindsNone(t) BY <2>5 DEF ScanFindsNone
  <2>6. CASE TakeEntry(t) BY <2>6 DEF TakeEntry
  <2>7. CASE MakeTemporary(t) BY <2>7 DEF MakeTemporary
  <2>8. CASE TemporaryFails(t) BY <2>8 DEF TemporaryFails
  <2>9. CASE ContainsLock(t) BY <2>9 DEF ContainsLock
  <2>10. CASE Contains(t) BY <2>10 DEF Contains
  <2>11. CASE Perform(t) BY <2>11 DEF Perform
  <2>12. CASE ReleaseLock(t) BY <2>12 DEF ReleaseLock
  <2>13. CASE ReleasePooled(t) BY <2>13 DEF ReleasePooled
  <2>14. CASE ReleaseTemporary(t) BY <2>14 DEF ReleaseTemporary
  <2> QED
    BY <1>3, <2>1, <2>2, <2>3, <2>4, <2>5, <2>6, <2>7, <2>8, <2>9, <2>10,
       <2>11, <2>12, <2>13, <2>14 DEF Thread
<1> QED BY <1>1, <1>2, <1>3 DEF Next

(* Whoever stops being the user of an entry unmarks it. *)
LEMMA UserStep ==
  TypeOK /\ InUseHasUser /\ (~destroyed => Sound) /\ [Next]_vars
    => InUseHasUser'
<1> SUFFICES ASSUME TypeOK, InUseHasUser, ~destroyed => Sound, [Next]_vars
             PROVE  InUseHasUser'
  OBVIOUS
<1> USE PoolAssumption
    DEF TypeOK, At, Goto, Lock, Holding, InUseHasUser, Holds,
        Sound, FoundMarked, FoundAlone, FoundNotHeld, HeldAlone, HeldMarked,
        PooledKnown, MarkPooled, AliveNow
<1>1. CASE UNCHANGED vars BY <1>1 DEF vars
<1>2. CASE Destroy BY <1>2 DEF Destroy
<1>3. ASSUME NEW t \in Threads, Post(t) \/ Thread(t) PROVE InUseHasUser'
  <2>1. CASE Post(t) BY <2>1 DEF Post
  <2>2. CASE AcquireLock(t) BY <2>2 DEF AcquireLock
  <2>3. CASE ScanFinds(t) BY <2>3 DEF ScanFinds
  <2>4. CASE ScanInitFails(t) BY <2>4 DEF ScanInitFails
  <2>5. CASE ScanFindsNone(t) BY <2>5 DEF ScanFindsNone
  <2>6. CASE TakeEntry(t) BY <2>6 DEF TakeEntry
  <2>7. CASE MakeTemporary(t) BY <2>7 DEF MakeTemporary
  <2>8. CASE TemporaryFails(t) BY <2>8 DEF TemporaryFails
  <2>9. CASE ContainsLock(t) BY <2>9 DEF ContainsLock
  <2>10. CASE Contains(t) BY <2>10 DEF Contains
  <2>11. CASE Perform(t) BY <2>11 DEF Perform
  <2>12. CASE ReleaseLock(t) BY <2>12 DEF ReleaseLock
  <2>13. CASE ReleasePooled(t) BY <2>13 DEF ReleasePooled
  <2>14. CASE ReleaseTemporary(t) BY <2>14 DEF ReleaseTemporary
  <2> QED
    BY <1>3, <2>1, <2>2, <2>3, <2>4, <2>5, <2>6, <2>7, <2>8, <2>9, <2>10,
       <2>11, <2>12, <2>13, <2>14 DEF Thread
<1> QED BY <1>1, <1>2, <1>3 DEF Next

LEMMA Inductive == IInv /\ [Next]_vars => IInv'
BY TypeStep, KeepsStep, SoundStep, LostStep, UserStep DEF IInv

LEMMA Invariance == Spec => []IInv
<1>1. Init => IInv
  BY InitHolds
<1>2. IInv /\ [Next]_vars => IInv'
  BY Inductive
<1> QED BY <1>1, <1>2, PTL DEF Spec

(* The pool, its handles and the threads keep their types. *)
THEOREM PoolTypes == Spec => []TypeOK
<1>1. IInv => TypeOK
  BY DEF IInv
<1> QED BY <1>1, Invariance, PTL

(* curl_easy_cleanup never sees a handle of the pool or of another thread
   while the process runs. *)
THEOREM PoolAlive == Spec => []Alive
<1>1. IInv => Alive
  BY DEF IInv, Sound, AliveNow, Alive, Pooled
<1> QED BY <1>1, Invariance, PTL

(* curl_pool_release and the destructor leave no handle behind. *)
THEOREM PoolLosesNothing == Spec => []NoHandleLost
<1>1. IInv => NoHandleLost
  BY DEF IInv
<1> QED BY <1>1, Invariance, PTL

(* An entry marked in_use has a thread that unmarks it. *)
THEOREM PoolKeepsUsers == Spec => []InUseHasUser
<1>1. IInv => InUseHasUser
  BY DEF IInv
<1> QED BY <1>1, Invariance, PTL

-----------------------------------------------------------------------------
(* The mutex is held only inside one of the three sections it protects, and not
   when the pool is destroyed. *)
HeldInside == mutex # None => ~destroyed /\ pc[mutex] \in Critical

(* Nothing the next step of a thread needs is missing: only the three places
   before the sections wait, and the loop of the scan comes to an end. *)
GoesOn(t) ==
  /\ pc[t] \in {"acquire", "check"} \/ (pc[t] = "release" /\ pooled[t]) => mutex = None
  /\ pc[t] = "scan" => (\A i \in Entries : inUse[i]) \/ \E i \in Entries : FirstFree(i)

(* A thread that cannot go on waits for the mutex, and its holder can. *)
NoStandstill ==
  ~destroyed => \A t \in Threads : GoesOn(t) \/ (mutex \in Threads /\ GoesOn(mutex))

LEMMA HeldStep ==
  ASSUME TypeOK, Keeps, HeldInside, [Next]_vars
  PROVE  HeldInside'
<1> USE PoolAssumption DEF TypeOK, Keeps, HeldInside, Critical, At, Goto, Lock
<1>1. CASE UNCHANGED vars
  BY <1>1 DEF vars
<1>2. CASE Destroy
  BY <1>2 DEF Destroy
<1>3. ASSUME NEW t \in Threads, AcquireLock(t) \/ ContainsLock(t) \/ ReleaseLock(t)
      PROVE  HeldInside'
  BY <1>3 DEF AcquireLock, ContainsLock, ReleaseLock
<1>4. ASSUME NEW t \in Threads,
             \/ ScanFinds(t) \/ ScanInitFails(t) \/ ScanFindsNone(t)
             \/ Contains(t) \/ ReleasePooled(t)
      PROVE  HeldInside'
  BY <1>4 DEF ScanFinds, ScanInitFails, ScanFindsNone, Contains, ReleasePooled
<1>5. ASSUME NEW t \in Threads,
             \/ Post(t) \/ TakeEntry(t) \/ MakeTemporary(t) \/ TemporaryFails(t)
             \/ Perform(t) \/ ReleaseTemporary(t)
      PROVE  HeldInside'
  <2>1. /\ UNCHANGED <<mutex, destroyed>> /\ pc[t] \notin Critical
        /\ \A u \in Threads : u # t => pc'[u] = pc[u]
    BY <1>5 DEF Post, TakeEntry, MakeTemporary, TemporaryFails, Perform, ReleaseTemporary
  <2> QED
    BY <2>1
<1> QED
  BY <1>1, <1>2, <1>3, <1>4, <1>5 DEF Next, Thread

(* The scan looks at the entries from the first on. *)
LEMMA ScanEnds ==
  ASSUME TypeOK, NEW i \in Entries, ~inUse[i]
  PROVE  \E j \in Entries : FirstFree(j)
<1> DEFINE unused == {j \in Entries : ~inUse[j]}
<1>1. unused \in SUBSET Nat /\ i \in unused
  BY PoolAssumption DEF Entries
<1>2. IsWellFoundedOn(OpToRel(<, Nat), Nat)
  BY NatLessThanWellFounded
<1> HIDE DEF unused
<1>3. PICK least \in unused : \A j \in unused : <<j, least>> \notin OpToRel(<, Nat)
  BY <1>1, <1>2, WFMin
<1>4. ASSUME NEW j \in unused, j < least
      PROVE  FALSE
  <2>1. <<j, least>> \in Nat \X Nat /\ <<j, least>>[1] < <<j, least>>[2]
    BY <1>1, <1>4
  <2>2. <<j, least>> \in OpToRel(<, Nat)
    BY ONLY <2>1, Zenon DEF OpToRel
  <2> QED
    BY <1>3, <2>2
<1>5. least \in Entries /\ ~inUse[least]
  BY DEF unused
<1>6. \A j \in 1 .. least - 1 : inUse[j]
  <2>1. \A j \in 1 .. least - 1 : j \in Entries /\ j < least
    BY <1>5, PoolAssumption DEF Entries
  <2> QED
    BY <1>4, <2>1 DEF unused
<1> QED
  BY <1>5, <1>6 DEF FirstFree

(* The posts never stand still together, for any number of them and any size of
   the pool: every return of acquire, contains and release has unlocked the
   mutex.  It is the safety that PostReturns rests on. *)
THEOREM PoolNoStandstill == Spec => []NoStandstill
<1>1. IInv /\ HeldInside => NoStandstill
  <2> SUFFICES ASSUME IInv, HeldInside, NEW t \in Threads, ~GoesOn(t)
               PROVE  mutex \in Threads /\ GoesOn(mutex)
    BY DEF NoStandstill
  <2>1. ASSUME NEW u \in Threads, pc[u] = "scan"
        PROVE  (\A i \in Entries : inUse[i]) \/ \E i \in Entries : FirstFree(i)
    BY ScanEnds DEF IInv
  <2>2. mutex # None
    BY <2>1 DEF GoesOn
  <2>3. mutex \in Threads /\ pc[mutex] \in Critical
    BY <2>2 DEF IInv, TypeOK, HeldInside
  <2> QED
    BY <2>1, <2>3 DEF GoesOn, Critical
<1>2. Init => HeldInside
  BY DEF Init, HeldInside
<1>3. IInv /\ HeldInside /\ [Next]_vars => HeldInside'
  BY HeldStep DEF IInv
<1> QED
  BY <1>1, <1>2, <1>3, Invariance, PTL DEF Spec

-----------------------------------------------------------------------------
(* A step of the pool is a loan, a return or a stutter of HandleLoan. *)
LEMMA LoanStep ==
  ASSUME IInv, [Next]_vars
  PROVE  [Loan!Next]_([t \in Threads |->
            IF pc[t] \in Holding THEN curl[t] ELSE None])
<1> DEFINE using == [t \in Threads |-> IF pc[t] \in Holding THEN curl[t] ELSE None]
<1> USE PoolAssumption DEF TypeOK, IInv, At, Goto, Lock, Holding
<1>1. CASE UNCHANGED vars
  BY <1>1 DEF vars
<1>2. CASE Destroy
  BY <1>2 DEF Destroy
<1>3. ASSUME NEW t \in Threads, Post(t) \/ Thread(t)
      PROVE  Loan!Borrow(t) \/ Loan!Return(t) \/ UNCHANGED using
  <2>1. CASE TakeEntry(t) \/ MakeTemporary(t)
    <3>1. Sound
      BY <2>1 DEF TakeEntry, MakeTemporary
    <3>2. curl'[t] \in Handles /\ using[t] = None
      BY <2>1, <3>1 DEF TakeEntry, MakeTemporary, Sound, FoundMarked
    <3>3. \A u \in Threads : using[u] # curl'[t]
      BY <2>1, <3>1, <3>2
      DEF TakeEntry, MakeTemporary, Sound, FoundNotHeld, AliveNow
    <3>4. using' = [using EXCEPT ![t] = curl'[t]]
      BY <2>1 DEF TakeEntry, MakeTemporary
    <3> QED BY <3>2, <3>3, <3>4 DEF Loan!Borrow
  <2>2. CASE ReleasePooled(t) \/ ReleaseTemporary(t)
    <3>1. using[t] # None
      BY <2>2 DEF ReleasePooled, ReleaseTemporary, Sound, AliveNow
    <3>2. using' = [using EXCEPT ![t] = None]
      BY <2>2 DEF ReleasePooled, ReleaseTemporary
    <3> QED BY <3>1, <3>2 DEF Loan!Return
  <2>3. CASE \/ Post(t) \/ AcquireLock(t) \/ ScanFinds(t)
             \/ ScanInitFails(t) \/ ScanFindsNone(t) \/ TemporaryFails(t)
             \/ ContainsLock(t) \/ Contains(t) \/ Perform(t) \/ ReleaseLock(t)
    <3>1. \A u \in Threads : (pc'[u] \in Holding <=> pc[u] \in Holding)
      BY <2>3
      DEF Post, AcquireLock, ScanFinds, ScanInitFails, ScanFindsNone,
          TemporaryFails, ContainsLock, Contains, Perform, ReleaseLock
    <3>2. curl' = curl
      BY <2>3
      DEF Post, AcquireLock, ScanFinds, ScanInitFails, ScanFindsNone,
          TemporaryFails, ContainsLock, Contains, Perform, ReleaseLock
    <3> QED BY <3>1, <3>2
  <2> QED BY <1>3, <2>1, <2>2, <2>3 DEF Thread
<1> QED BY <1>1, <1>2, <1>3 DEF Next, Loan!Next

(* The pool implements HandleLoan: no two posts ever share a handle, whatever
   the number of threads and the size of the pool. *)
THEOREM PoolLendsExclusively == Spec => LendsExclusively
<1> DEFINE using == [t \in Threads |-> IF pc[t] \in Holding THEN curl[t] ELSE None]
<1>1. Init => Loan!Init
  BY DEF Init, Loan!Init, Holding
<1>2. IInv /\ [Next]_vars => [Loan!Next]_using
  BY LoanStep
<1> QED
  BY <1>1, <1>2, Invariance, PTL DEF Spec, LendsExclusively, Loan!Spec
=============================================================================
