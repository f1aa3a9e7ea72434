------------------------ MODULE PackageQueriesProofs ------------------------
(***************************************************************************)
(* What holds of the queries for every value of the constants: of searches *)
(* AnsweredOnce, AnswerIsOwn and NewestKept, with what the comparison of   *)
(* versions means and the filter of the results computes for lists of any  *)
(* length; of the local list ResultIsSnapshot; and the types of both.      *)
(***************************************************************************)
EXTENDS PackageQueries, TLAPS, SequenceTheorems, WellFoundedInduction

(* A search is unborn, called, waiting or answered, and in one of the four. *)
Types ==
  /\ wants \in [Requests -> Queries \cup {Unborn}]
  /\ answered \in [Requests -> Nat]
  /\ searches \in Seq(Requests)
  /\ calling \in [request : Requests, waits : {"configuration", "search"}] \cup {NoCall}

UnbornIsNowhere ==
  \A r \in Requests :
    wants[r] = Unborn => answered[r] = 0 /\ calling.request # r /\ ~Waiting(r)

OnceInv == Types /\ UnbornIsNowhere /\ AnsweredOnce

-----------------------------------------------------------------------------
(* Versions *)

LEMMA LeastNumber ==
  ASSUME NEW S \in SUBSET Nat, S # {}
  PROVE  Min(S) \in S /\ \A i \in S : Min(S) <= i
  <1>1. IsWellFoundedOn(OpToRel(<, Nat), Nat)
    BY NatLessThanWellFounded
  <1>2. PICK least \in S : \A i \in S : <<i, least>> \notin OpToRel(<, Nat)
    BY <1>1, WFMin
  <1>3. ASSUME NEW i \in S
        PROVE  least <= i
    <2>1. CASE i < least
      <3>1. <<i, least>> \in Nat \X Nat /\ <<i, least>>[1] < <<i, least>>[2]
        BY <2>1
      <3>2. <<i, least>> \in OpToRel(<, Nat)
        BY ONLY <3>1, Zenon DEF OpToRel
      <3> QED
        BY <1>2, <3>2
    <2> QED
      BY <2>1
  <1> QED
    BY <1>3 DEF Min

(* The comparison of the code is the one that is meant: a version is older when
   the other is newer in the first number that differs, or else in the text. *)
THEOREM OlderMeansNewer ==
  ASSUME NEW a \in VersionRecords \cup {NoVersion},
         NEW b \in VersionRecords \cup {NoVersion},
         NoVersion \notin VersionRecords
  PROVE  Older(a, b) <=> IsNewer(b, a)
  <1>1. CASE a = NoVersion \/ b = NoVersion
    BY <1>1 DEF Older, IsNewer
  <1>2. CASE a # NoVersion /\ b # NoVersion
    <2>1. /\ a.numbers \in Seq(Nat) /\ b.numbers \in Seq(Nat)
          /\ a.text \in Int /\ b.text \in Int
      BY <1>2 DEF VersionRecords
    <2> /\ DOMAIN a.numbers = 1 .. Len(a.numbers) /\ Len(a.numbers) \in Nat
        /\ DOMAIN b.numbers = 1 .. Len(b.numbers) /\ Len(b.numbers) \in Nat
      BY <2>1
    <2>2. ASSUME NEW i \in DOMAIN a.numbers \cap DOMAIN b.numbers
          PROVE  /\ i \in Nat /\ i >= 1 /\ i <= Len(a.numbers) /\ i <= Len(b.numbers)
                 /\ a.numbers[i] \in Nat /\ b.numbers[i] \in Nat
      <3>1. i \in 1 .. Len(a.numbers) /\ i \in 1 .. Len(b.numbers)
        OBVIOUS
      <3> QED
        BY <2>1, <3>1, SMTT(20)
    <2>3. ASSUME NEW i \in DOMAIN a.numbers \cap DOMAIN b.numbers, NEW k \in 1 .. i - 1
          PROVE  k \in DOMAIN a.numbers \cap DOMAIN b.numbers /\ k < i /\ k \in Nat
      <3>1. k \in 1 .. Len(a.numbers) /\ k \in 1 .. Len(b.numbers) /\ k < i /\ k \in Nat
        BY <2>2
      <3> QED
        BY <3>1
    <2>4. CASE Differing(a, b) = {}
      BY <1>2, <2>1, <2>2, <2>4 DEF Differing, Older, IsNewer
    <2>5. CASE Differing(a, b) # {}
      <3>1. PICK m : m = Min(Differing(a, b))
        OBVIOUS
      <3>2. m \in Differing(a, b) /\ \A i \in Differing(a, b) : m <= i
        BY <2>2, <2>5, <3>1, LeastNumber DEF Differing
      <3>3. /\ m \in DOMAIN a.numbers \cap DOMAIN b.numbers
            /\ a.numbers[m] # b.numbers[m]
        BY <3>2 DEF Differing
      <3>4. SameNumbersBefore(b, a, m)
        <4>1. ASSUME NEW k \in 1 .. m - 1
              PROVE  b.numbers[k] = a.numbers[k]
          <5>1. k \in DOMAIN a.numbers \cap DOMAIN b.numbers /\ k < m /\ k \in Nat /\ m \in Nat
            BY <2>2, <2>3, <3>3
          <5>2. k \notin Differing(a, b)
            BY <3>2, <5>1
          <5> QED
            BY <5>1, <5>2 DEF Differing
        <4> QED
          BY <4>1 DEF SameNumbersBefore
      <3>5. ASSUME NEW i \in DOMAIN a.numbers \cap DOMAIN b.numbers,
                   SameNumbersBefore(b, a, i), b.numbers[i] > a.numbers[i]
            PROVE  i = m
        <4>1. i \in Differing(a, b) /\ m <= i
          BY <2>2, <3>2, <3>5 DEF Differing
        <4>2. m \in Nat /\ i \in Nat /\ m >= 1
          BY <2>1, <2>2, <3>3
        <4>3. ~(m < i)
          BY <3>3, <3>5, <4>2 DEF SameNumbersBefore
        <4> QED
          BY <4>1, <4>2, <4>3
      <3>6. Older(a, b) <=> a.numbers[m] < b.numbers[m]
        BY <1>2, <2>5, <3>1 DEF Older
      <3>7. IsNewer(b, a) <=> b.numbers[m] > a.numbers[m]
        BY <1>2, <2>2, <3>3, <3>4, <3>5 DEF IsNewer
      <3> QED
        BY <2>2, <3>3, <3>6, <3>7
    <2> QED
      BY <2>4, <2>5
  <1> QED
    BY <1>1, <1>2

-----------------------------------------------------------------------------
(* Loops over an array *)

(* Induction, for a set of numbers. *)
LEMMA NumbersByInduction ==
  ASSUME NEW S \in SUBSET Nat, 0 \in S, \A n \in S : n + 1 \in S
  PROVE  \A n \in Nat : n \in S
  <1> SUFFICES ASSUME Nat \ S # {} PROVE FALSE
    OBVIOUS
  <1>1. PICK m : m = Min(Nat \ S)
    OBVIOUS
  <1>2. m \in Nat \ S /\ \A i \in Nat \ S : m <= i
    BY <1>1, LeastNumber
  <1>3. m # 0
    BY <1>2
  <1>4. m - 1 \in Nat /\ ~(m <= m - 1) /\ m - 1 + 1 = m
    BY <1>2, <1>3
  <1>5. m - 1 \in S
    BY <1>2, <1>4
  <1> QED
    BY <1>2, <1>4, <1>5

(* What the variable of a loop over N elements holds after each turn. *)
LoopValues(S, start, N, turn) ==
  {f \in [0 .. N -> S] : f[0] = start /\ \A i \in 1 .. N : f[i] = turn[i][f[i - 1]]}

LEMMA LoopHasValues ==
  ASSUME NEW S, NEW start \in S, NEW N \in Nat, NEW turn \in [1 .. N -> [S -> S]]
  PROVE  LoopValues(S, start, N, turn) # {}
  <1> DEFINE Upto(n, f) == /\ f \in [0 .. n -> S] /\ f[0] = start
                           /\ \A i \in 1 .. n : f[i] = turn[i][f[i - 1]]
             Good == {n \in Nat : n <= N => \E f : Upto(n, f)}
  <1>1. 0 \in Good
    <2>1. Upto(0, [i \in 0 .. 0 |-> start])
      OBVIOUS
    <2> QED
      BY <2>1
  <1>2. ASSUME NEW n \in Good
        PROVE  n + 1 \in Good
    <2> SUFFICES ASSUME n + 1 <= N PROVE \E f : Upto(n + 1, f)
      OBVIOUS
    <2>1. PICK f : Upto(n, f)
      OBVIOUS
    <2> DEFINE g == [i \in 0 .. n + 1 |-> IF i <= n THEN f[i] ELSE turn[n + 1][f[n]]]
    <2>2. n \in Nat /\ n \in 0 .. n /\ n + 1 \in 1 .. N
      OBVIOUS
    <2>3. f[n] \in S /\ turn[n + 1] \in [S -> S] /\ turn[n + 1][f[n]] \in S
      BY <2>1, <2>2
    <2>4. g \in [0 .. n + 1 -> S]
      <3>1. ASSUME NEW i \in 0 .. n + 1 PROVE g[i] \in S
        BY <2>1, <2>2, <2>3
      <3> QED
        BY <3>1
    <2>5. g[0] = start
      BY <2>1, <2>2
    <2>6. ASSUME NEW i \in 1 .. n + 1 PROVE g[i] = turn[i][g[i - 1]]
      <3>1. i \in 0 .. n + 1 /\ i - 1 \in 0 .. n + 1 /\ i - 1 <= n
        BY <2>2
      <3>2. g[i - 1] = f[i - 1]
        BY <3>1
      <3>3. CASE i <= n
        <4>1. i \in 1 .. n /\ g[i] = f[i]
          BY <2>2, <3>1, <3>3
        <4> QED
          BY <2>1, <3>2, <4>1
      <3>4. CASE i = n + 1
        <4>1. g[i] = turn[n + 1][f[n]] /\ i - 1 = n
          BY <2>2, <3>1, <3>4
        <4> QED
          BY <3>2, <3>4, <4>1
      <3> QED
        BY <2>2, <3>3, <3>4
    <2>7. Upto(n + 1, g)
      BY <2>4, <2>5, <2>6
    <2> QED
      BY <2>7
  <1> HIDE DEF Upto
  <1>3. Good \in SUBSET Nat
    OBVIOUS
  <1> HIDE DEF Good
  <1>4. N \in Good
    BY <1>1, <1>2, <1>3, NumbersByInduction
  <1> QED
    BY <1>4 DEF Good, Upto, LoopValues

-----------------------------------------------------------------------------
(* The filter of results *)

(* What filter_store_search_results has kept of the first n packages. *)
Filtered(kept, packages, n) ==
  /\ kept \in Seq(Packages)
  /\ \A i \in 1 .. n :
       packages[i].module # Develop =>
         \E j \in DOMAIN kept : same_package_slot(kept[j], packages[i])
  /\ \A j \in DOMAIN kept :
       /\ kept[j].module # Develop
       /\ \E i \in 1 .. n : packages[i] = kept[j]
       /\ \A i \in 1 .. n :
            same_package_slot(packages[i], kept[j]) =>
              ~Older(kept[j].version, packages[i].version)
  /\ \A i, j \in DOMAIN kept :
       i < j => FirstOf(packages, kept[i]) < FirstOf(packages, kept[j])

(* The first package of a slot; it is the same for all of the slot. *)
LEMMA FirstOfSlot ==
  ASSUME NEW packages \in Seq(Packages), NEW p
  PROVE  /\ \A i \in 1 .. Len(packages) :
              same_package_slot(packages[i], p) =>
                /\ FirstOf(packages, p) \in 1 .. i
                /\ same_package_slot(packages[FirstOf(packages, p)], p)
         /\ \A q : same_package_slot(q, p) => FirstOf(packages, q) = FirstOf(packages, p)
  <1>1. ASSUME NEW i \in 1 .. Len(packages), same_package_slot(packages[i], p)
        PROVE  /\ FirstOf(packages, p) \in 1 .. i
               /\ same_package_slot(packages[FirstOf(packages, p)], p)
    <2>1. PICK S : S = {k \in DOMAIN packages : same_package_slot(packages[k], p)}
      OBVIOUS
    <2>2. S \in SUBSET Nat /\ i \in S
      BY <1>1, <2>1
    <2>3. Min(S) \in S /\ Min(S) <= i
      BY <2>2, LeastNumber
    <2>4. FirstOf(packages, p) = Min(S)
      BY <2>1 DEF FirstOf
    <2>5. Min(S) \in 1 .. Len(packages) /\ same_package_slot(packages[Min(S)], p)
      BY <2>1, <2>3
    <2> QED
      BY <2>3, <2>4, <2>5
  <1>2. ASSUME NEW q, same_package_slot(q, p)
        PROVE  FirstOf(packages, q) = FirstOf(packages, p)
    <2>1. \A k \in DOMAIN packages :
            same_package_slot(packages[k], q) <=> same_package_slot(packages[k], p)
      BY <1>2 DEF same_package_slot
    <2>2. {k \in DOMAIN packages : same_package_slot(packages[k], q)}
            = {k \in DOMAIN packages : same_package_slot(packages[k], p)}
      BY <2>1
    <2> QED
      BY <2>2 DEF FirstOf
  <1> QED
    BY <1>1, <1>2

(* No version is older than itself, nor two than each other. *)
LEMMA OlderOneWay ==
  ASSUME NEW p \in Packages, NEW q \in Packages, Older(p.version, q.version)
  PROVE  ~Older(q.version, p.version)
  <1>1. PICK v : v = p.version
    OBVIOUS
  <1>2. v \in VersionRecords \cup {NoVersion}
    BY <1>1, PackagesAssumption
  <1>3. ~Older(v, v)
    <2>1. Differing(v, v) = {}
      BY DEF Differing
    <2>2. v # NoVersion => v.text \in Int
      BY <1>2 DEF VersionRecords
    <2> QED
      BY <2>1, <2>2 DEF Older
  <1> QED
    BY <1>1, <1>3, NoCircleAssumption

(* One turn of the loop. *)
LEMMA KeepFiltered ==
  ASSUME NEW packages \in Seq(Packages), NEW n \in 1 .. Len(packages), NEW kept,
         Filtered(kept, packages, n - 1)
  PROVE  Filtered(Keep(kept, packages[n]), packages, n)
  <1>1. PICK p \in Packages : p = packages[n]
    OBVIOUS
  <1>2. kept \in Seq(Packages) /\ DOMAIN kept = 1 .. Len(kept) /\ Len(kept) \in Nat
    BY DEF Filtered
  <1>3. /\ n \in Nat /\ n \in 1 .. n
        /\ \A i \in 1 .. n - 1 : i \in 1 .. n /\ i \in 1 .. Len(packages) /\ i < n
        /\ \A i \in 1 .. n : i \in 1 .. n - 1 \/ i = n
    OBVIOUS
  <1>4. PICK same : same = {i \in DOMAIN kept : same_package_slot(kept[i], p)}
    OBVIOUS
  <1>5. CASE p.module = Develop
    <2>1. Keep(kept, p) = kept
      BY <1>5 DEF Keep
    <2>2. \A j \in DOMAIN kept : ~same_package_slot(p, kept[j])
      BY <1>5 DEF Filtered, same_package_slot
    <2> QED
      BY <1>1, <1>3, <1>5, <2>1, <2>2 DEF Filtered
  <1>6. CASE p.module # Develop /\ same = {}
    <2>1. PICK new : new = Append(kept, p)
      OBVIOUS
    <2>2. Keep(kept, p) = new
      BY <1>4, <1>6, <2>1 DEF Keep
    <2>3. /\ new \in Seq(Packages) /\ Len(new) = Len(kept) + 1
          /\ \A j \in 1 .. Len(kept) : new[j] = kept[j]
          /\ new[Len(kept) + 1] = p
      BY <1>1, <1>2, <2>1
    <2>4. /\ DOMAIN new = 1 .. Len(kept) + 1
          /\ \A j \in DOMAIN new : j \in DOMAIN kept \/ j = Len(kept) + 1
          /\ \A j \in DOMAIN kept : j \in DOMAIN new /\ new[j] = kept[j]
      BY <1>2, <2>3
    <2>5. \A j \in DOMAIN kept : ~same_package_slot(p, kept[j])
      BY <1>4, <1>6 DEF same_package_slot
    <2>6. \A i \in 1 .. n - 1 : ~same_package_slot(packages[i], p)
      <3>1. SUFFICES ASSUME NEW i \in 1 .. n - 1, same_package_slot(packages[i], p)
                     PROVE  FALSE
        OBVIOUS
      <3>2. packages[i].module # Develop
        BY <1>6, <3>1 DEF same_package_slot
      <3>3. PICK j \in DOMAIN kept : same_package_slot(kept[j], packages[i])
        BY <3>2 DEF Filtered
      <3> QED
        BY <2>5, <3>1, <3>3 DEF same_package_slot
    <2>7. \A i \in 1 .. n : packages[i].module # Develop =>
            \E j \in DOMAIN new : same_package_slot(new[j], packages[i])
      <3>1. same_package_slot(new[Len(kept) + 1], p) /\ Len(kept) + 1 \in DOMAIN new
        BY <1>2, <2>3, <2>4 DEF same_package_slot
      <3>2. ASSUME NEW i \in 1 .. n - 1, packages[i].module # Develop
            PROVE  \E j \in DOMAIN new : same_package_slot(new[j], packages[i])
        <4>1. PICK j \in DOMAIN kept : same_package_slot(kept[j], packages[i])
          BY <3>2 DEF Filtered
        <4> QED
          BY <2>4, <4>1
      <3> QED
        BY <1>1, <1>3, <3>1, <3>2
    <2>8. ASSUME NEW j \in DOMAIN new
          PROVE  /\ new[j].module # Develop
                 /\ \E i \in 1 .. n : packages[i] = new[j]
                 /\ \A i \in 1 .. n : same_package_slot(packages[i], new[j]) =>
                      ~Older(new[j].version, packages[i].version)
      <3>1. CASE j \in DOMAIN kept
        BY <1>1, <1>3, <2>4, <2>5, <3>1 DEF Filtered
      <3>2. CASE j = Len(kept) + 1
        <4>1. new[j] = p /\ ~Older(p.version, p.version)
          BY <2>3, <3>2, OlderOneWay
        <4> QED
          BY <1>1, <1>3, <1>6, <2>6, <4>1
      <3> QED
        BY <2>4, <3>1, <3>2
    <2>9. ASSUME NEW i \in DOMAIN new, NEW j \in DOMAIN new, i < j
          PROVE  FirstOf(packages, new[i]) < FirstOf(packages, new[j])
      <3>1. i \in DOMAIN kept /\ new[i] = kept[i]
        BY <1>2, <2>4, <2>9
      <3>2. CASE j \in DOMAIN kept
        BY <2>4, <2>9, <3>1, <3>2 DEF Filtered
      <3>3. CASE j = Len(kept) + 1
        <4>1. PICK k \in 1 .. n - 1 : packages[k] = kept[i]
          BY <3>1 DEF Filtered
        <4>2. same_package_slot(packages[k], kept[i]) /\ same_package_slot(packages[n], p)
          BY <1>1, <4>1 DEF same_package_slot
        <4>3. FirstOf(packages, kept[i]) \in 1 .. k
          BY <1>3, <4>2, FirstOfSlot
        <4>4. /\ FirstOf(packages, p) \in 1 .. n
              /\ same_package_slot(packages[FirstOf(packages, p)], p)
          BY <4>2, FirstOfSlot
        <4>5. FirstOf(packages, p) = n
          BY <1>3, <2>6, <4>4
        <4> QED
          BY <1>3, <2>3, <3>1, <3>3, <4>3, <4>5
      <3> QED
        BY <2>4, <3>2, <3>3
    <2> QED
      BY <1>1, <2>2, <2>3, <2>7, <2>8, <2>9 DEF Filtered
  <1>7. CASE p.module # Develop /\ same # {}
    <2>1. PICK m : m = Min(same)
      OBVIOUS
    <2>2. m \in DOMAIN kept /\ same_package_slot(kept[m], p)
      <3>1. same \in SUBSET Nat
        BY <1>2, <1>4
      <3> QED
        BY <1>4, <1>7, <2>1, <3>1, LeastNumber
    <2>3. \A j \in DOMAIN kept : same_package_slot(p, kept[j]) => j = m
      <3>1. SUFFICES ASSUME NEW j \in DOMAIN kept, same_package_slot(p, kept[j])
                     PROVE  j = m
        OBVIOUS
      <3>2. same_package_slot(kept[j], kept[m])
        BY <2>2, <3>1 DEF same_package_slot
      <3>3. FirstOf(packages, kept[j]) = FirstOf(packages, kept[m])
        BY <3>2, FirstOfSlot
      <3>4. FirstOf(packages, kept[m]) \in Nat
        <4>1. PICK k \in 1 .. n - 1 : packages[k] = kept[m]
          BY <2>2 DEF Filtered
        <4>2. same_package_slot(packages[k], kept[m])
          BY <4>1 DEF same_package_slot
        <4>3. FirstOf(packages, kept[m]) \in 1 .. k
          BY <1>3, <4>2, FirstOfSlot
        <4> QED
          BY <4>3
      <3>5. ~(j < m) /\ ~(m < j)
        BY <2>2, <3>1, <3>3, <3>4 DEF Filtered
      <3> QED
        BY <1>2, <2>2, <3>5
    <2>4. CASE ~Older(kept[m].version, p.version)
      <3>1. Keep(kept, p) = kept
        BY <1>4, <1>7, <2>1, <2>4 DEF Keep
      <3>2. \A j \in DOMAIN kept : same_package_slot(p, kept[j]) =>
              ~Older(kept[j].version, p.version)
        BY <2>3, <2>4
      <3>3. \E j \in DOMAIN kept : same_package_slot(kept[j], p)
        BY <2>2
      <3> QED
        BY <1>1, <1>3, <3>1, <3>2, <3>3 DEF Filtered
    <2>5. CASE Older(kept[m].version, p.version)
      <3>1. PICK new : new = [kept EXCEPT ![m] = p]
        OBVIOUS
      <3>2. Keep(kept, p) = new
        BY <1>4, <1>7, <2>1, <2>5, <3>1 DEF Keep
      <3>3. /\ new \in Seq(Packages) /\ DOMAIN new = DOMAIN kept /\ new[m] = p
            /\ \A j \in DOMAIN kept : j # m => new[j] = kept[j]
        BY <1>2, <2>2, <3>1
      <3>4. \A q : same_package_slot(q, new[m]) <=> same_package_slot(q, kept[m])
        BY <2>2, <3>3 DEF same_package_slot
      <3>5. \A q : \A j \in DOMAIN kept :
              same_package_slot(new[j], q) <=> same_package_slot(kept[j], q)
        BY <2>2, <3>3 DEF same_package_slot
      <3>6. \A i \in 1 .. n : packages[i].module # Develop =>
              \E j \in DOMAIN new : same_package_slot(new[j], packages[i])
        <4>1. same_package_slot(new[m], p) /\ m \in DOMAIN new
          BY <2>2, <3>3 DEF same_package_slot
        <4>2. ASSUME NEW i \in 1 .. n - 1, packages[i].module # Develop
              PROVE  \E j \in DOMAIN new : same_package_slot(new[j], packages[i])
          <5>1. PICK j \in DOMAIN kept : same_package_slot(kept[j], packages[i])
            BY <4>2 DEF Filtered
          <5> QED
            BY <3>3, <3>5, <5>1
        <4> QED
          BY <1>1, <1>3, <4>1, <4>2
      <3>7. ASSUME NEW j \in DOMAIN new
            PROVE  /\ new[j].module # Develop
                   /\ \E i \in 1 .. n : packages[i] = new[j]
                   /\ \A i \in 1 .. n : same_package_slot(packages[i], new[j]) =>
                        ~Older(new[j].version, packages[i].version)
        <4>1. CASE j # m
          <5>1. j \in DOMAIN kept /\ new[j] = kept[j] /\ ~same_package_slot(p, kept[j])
            BY <2>3, <3>3, <4>1
          <5> QED
            BY <1>1, <1>3, <5>1 DEF Filtered
        <4>2. CASE j = m
          <5>1. kept[m] \in Packages /\ ~Older(p.version, kept[m].version)
            BY <1>2, <2>2, <2>5, OlderOneWay
          <5>2. ASSUME NEW i \in 1 .. n - 1, same_package_slot(packages[i], p)
                PROVE  ~Older(p.version, packages[i].version)
            <6>1. packages[i] \in Packages /\ same_package_slot(packages[i], kept[m])
              BY <1>3, <2>2, <5>2 DEF same_package_slot
            <6>2. ~Older(kept[m].version, packages[i].version)
              BY <2>2, <6>1 DEF Filtered
            <6> QED
              BY <5>1, <6>1, <6>2, NoCircleAssumption
          <5>3. ~Older(p.version, p.version)
            BY OlderOneWay
          <5> QED
            BY <1>1, <1>3, <1>7, <3>3, <4>2, <5>2, <5>3
        <4> QED
          BY <4>1, <4>2
      <3>8. \A j \in DOMAIN kept : FirstOf(packages, new[j]) = FirstOf(packages, kept[j])
        <4>1. same_package_slot(new[m], kept[m])
          BY <2>2, <3>3 DEF same_package_slot
        <4> QED
          BY <3>3, <4>1, FirstOfSlot
      <3>9. \A i, j \in DOMAIN new :
              i < j => FirstOf(packages, new[i]) < FirstOf(packages, new[j])
        BY <3>3, <3>8 DEF Filtered
      <3> QED
        BY <1>1, <3>2, <3>3, <3>6, <3>7, <3>9 DEF Filtered
    <2> QED
      BY <2>4, <2>5
  <1> QED
    BY <1>5, <1>6, <1>7

LEMMA KeepType ==
  ASSUME NEW kept \in Seq(Packages), NEW package \in Packages
  PROVE  Keep(kept, package) \in Seq(Packages)
  <1>1. Append(kept, package) \in Seq(Packages)
    OBVIOUS
  <1>2. \A i \in DOMAIN kept : [kept EXCEPT ![i] = package] \in Seq(Packages)
    OBVIOUS
  <1>3. PICK same : same = {i \in DOMAIN kept : same_package_slot(kept[i], package)}
    OBVIOUS
  <1>4. same # {} => Min(same) \in DOMAIN kept
    <2>1. same \in SUBSET Nat /\ same \subseteq DOMAIN kept
      BY <1>3
    <2> QED
      BY <2>1, LeastNumber
  <1> QED
    BY <1>1, <1>2, <1>3, <1>4 DEF Keep

(* The loop has gone over all packages. *)
LEMMA FilterIsFiltered ==
  ASSUME NEW packages \in Seq(Packages)
  PROVE  Filtered(filter_store_search_results(packages), packages, Len(packages))
  <1> PICK N : N = Len(packages)
    OBVIOUS
  <1> PICK turn :
        turn = [n \in 1 .. N |-> [kept \in Seq(Packages) |-> Keep(kept, packages[n])]]
    OBVIOUS
  <1>1. N \in Nat /\ <<>> \in Seq(Packages) /\ \A n \in 1 .. N : packages[n] \in Packages
    OBVIOUS
  <1>2. turn \in [1 .. N -> [Seq(Packages) -> Seq(Packages)]]
    <2>1. \A n \in 1 .. N, kept \in Seq(Packages) : Keep(kept, packages[n]) \in Seq(Packages)
      BY <1>1, KeepType
    <2> QED
      BY <2>1
  <1>3. PICK f \in [0 .. N -> Seq(Packages)] :
          f[0] = <<>> /\ \A n \in 1 .. N : f[n] = turn[n][f[n - 1]]
    <2>1. N \in Nat
      BY <1>1
    <2>2. <<>> \in Seq(Packages)
      BY <1>1
    <2>3. LoopValues(Seq(Packages), <<>>, N, turn) # {}
      BY ONLY <1>2, <2>1, <2>2, LoopHasValues, Zenon
    <2> QED
      BY ONLY <2>3, Zenon DEF LoopValues
  <1>4. ASSUME NEW n \in 1 .. N PROVE f[n] = Keep(f[n - 1], packages[n])
    <2>1. n - 1 \in 0 .. N
      BY <1>1
    <2>2. f[n - 1] \in Seq(Packages)
      BY <2>1
    <2>3. turn[n][f[n - 1]] = Keep(f[n - 1], packages[n])
      BY <2>2
    <2> QED
      BY <1>3, <2>3
  <1>5. f = [n \in 0 .. N |-> IF n = 0 THEN <<>> ELSE Keep(f[n - 1], packages[n])]
    <2>1. ASSUME NEW n \in 0 .. N
          PROVE  f[n] = IF n = 0 THEN <<>> ELSE Keep(f[n - 1], packages[n])
      <3>1. n = 0 \/ n \in 1 .. N
        BY <1>1
      <3> QED
        BY <1>1, <1>3, <1>4, <3>1
    <2> QED
      BY <2>1
  <1>6. PICK g : /\ g = [n \in 0 .. N |-> IF n = 0 THEN <<>> ELSE Keep(g[n - 1], packages[n])]
                 /\ filter_store_search_results(packages) = g[N]
    BY <1>5 DEF filter_store_search_results
  <1> DEFINE S == {n \in Nat : n <= N => Filtered(g[n], packages, n)}
  <1>7. 0 \in S
    <2>1. g[0] = <<>>
      BY <1>1, <1>6
    <2>2. 1 .. 0 = {} /\ DOMAIN g[0] = {} /\ g[0] \in Seq(Packages)
      BY <1>1, <2>1
    <2>3. Filtered(g[0], packages, 0)
      BY <2>2 DEF Filtered
    <2> QED
      BY <2>3
  <1>8. ASSUME NEW n \in S PROVE n + 1 \in S
    <2> SUFFICES ASSUME n + 1 <= N PROVE Filtered(g[n + 1], packages, n + 1)
      OBVIOUS
    <2>1. n \in Nat /\ n + 1 \in 1 .. N /\ n + 1 \in 0 .. N /\ n + 1 # 0 /\ n + 1 - 1 = n
      BY <1>1
    <2>2. g[n + 1] = Keep(g[n], packages[n + 1])
      BY <1>6, <2>1
    <2>3. Filtered(g[n], packages, n)
      BY <2>1
    <2> QED
      BY <2>1, <2>2, <2>3, KeepFiltered
  <1>9. S \in SUBSET Nat
    OBVIOUS
  <1>10. N \in S
    <2> HIDE DEF S
    <2> QED
      BY <1>1, <1>7, <1>8, <1>9, NumbersByInduction
  <1> QED
    BY <1>1, <1>6, <1>10

(* filter_store_search_results keeps of each slot that is not for development
   the newest package of those found, in the order in which the slots were
   found, whatever the daemon lists and in whatever order. *)
THEOREM FilterKeepsNewest ==
  ASSUME NEW packages \in Seq(Packages)
  PROVE  IsNewestOfEach(filter_store_search_results(packages), packages)
  <1>1. PICK kept : kept = filter_store_search_results(packages)
    OBVIOUS
  <1>2. Filtered(kept, packages, Len(packages)) /\ DOMAIN packages = 1 .. Len(packages)
    BY <1>1, FilterIsFiltered
  <1>3. ASSUME NEW j \in DOMAIN kept, NEW i \in DOMAIN packages,
               same_package_slot(packages[i], kept[j])
        PROVE  ~IsNewer(packages[i].version, kept[j].version)
    <2>1. ~Older(kept[j].version, packages[i].version)
      BY <1>2, <1>3 DEF Filtered
    <2>2. kept[j] \in Packages /\ packages[i] \in Packages
      BY <1>2 DEF Filtered
    <2>3. /\ kept[j].version \in VersionRecords \cup {NoVersion}
          /\ packages[i].version \in VersionRecords \cup {NoVersion}
          /\ NoVersion \notin VersionRecords
      BY <2>2, PackagesAssumption
    <2> QED
      BY <2>1, <2>3, OlderMeansNewer
  <1>4. \A i, j \in DOMAIN kept :
          i < j => FirstOf(packages, kept[i]) < FirstOf(packages, kept[j])
    BY <1>2 DEF Filtered
  <1> QED
    BY <1>1, <1>2, <1>3, <1>4 DEF Filtered, IsNewestOfEach

-----------------------------------------------------------------------------
(* The list of searches *)

LEMMA Pushed ==
  ASSUME searches \in Seq(Requests), NEW r \in Requests, search_push(r)
  PROVE  /\ searches' \in Seq(Requests)
         /\ Len(searches') = Len(searches) + 1
         /\ searches'[1] = r
         /\ \A i \in DOMAIN searches' : i # 1 =>
              i - 1 \in DOMAIN searches /\ searches'[i] = searches[i - 1]
  BY DEF search_push

(* What is left of a sequence without its n-th element. *)
LEMMA Removed ==
  ASSUME NEW S, NEW s \in Seq(S), NEW n \in 1 .. Len(s)
  PROVE  /\ RemoveAt(s, n) \in Seq(S) /\ Len(RemoveAt(s, n)) = Len(s) - 1
         /\ \A i \in 1 .. n - 1 : RemoveAt(s, n)[i] = s[i]
         /\ \A i \in n .. Len(s) - 1 : RemoveAt(s, n)[i] = s[i + 1]
  <1>1. PICK left : left = SubSeq(s, 1, n - 1)
    OBVIOUS
  <1>2. PICK right : right = SubSeq(s, n + 1, Len(s))
    OBVIOUS
  <1>3. Len(s) \in Nat /\ n \in Nat /\ n >= 1 /\ n <= Len(s)
    OBVIOUS
  <1>4. /\ left \in Seq(S) /\ Len(left) = n - 1
        /\ \A i \in 1 .. n - 1 : left[i] = s[i]
    BY <1>1, <1>3
  <1>5. /\ right \in Seq(S) /\ Len(right) = Len(s) - n
        /\ \A i \in 1 .. Len(s) - n : right[i] = s[n + i]
    BY <1>2, <1>3
  <1>6. /\ left \o right \in Seq(S) /\ Len(left \o right) = Len(left) + Len(right)
        /\ \A i \in 1 .. Len(left) + Len(right) :
             (left \o right)[i] = IF i <= Len(left) THEN left[i] ELSE right[i - Len(left)]
    BY ONLY <1>4, <1>5, ConcatProperties
  <1>7. RemoveAt(s, n) = left \o right
    BY <1>1, <1>2 DEF RemoveAt
  <1>8. \A i \in 1 .. n - 1 : (left \o right)[i] = s[i]
    BY ONLY <1>3, <1>4, <1>5, <1>6
  <1>9. ASSUME NEW i \in n .. Len(s) - 1
        PROVE  (left \o right)[i] = s[i + 1]
    <2>1. i - (n - 1) \in 1 .. Len(s) - n /\ n + (i - (n - 1)) = i + 1
          /\ i \in 1 .. (n - 1) + (Len(s) - n) /\ ~(i <= n - 1)
      BY ONLY <1>3, i \in n .. Len(s) - 1
    <2>2. (left \o right)[i] = right[i - (n - 1)]
      BY ONLY <1>4, <1>5, <1>6, <2>1
    <2> QED
      BY ONLY <1>5, <2>1, <2>2
  <1>10. left \o right \in Seq(S) /\ Len(left \o right) = Len(s) - 1
    BY ONLY <1>3, <1>4, <1>5, <1>6
  <1> QED
    BY ONLY <1>7, <1>8, <1>9, <1>10

(* A search is found by its job, and nothing else leaves the list. *)
LEMMA Taken ==
  ASSUME searches \in Seq(Requests), NEW job,
         \E i \in DOMAIN searches : searches[i] = job,
         \A i, j \in DOMAIN searches : searches[i] = searches[j] => i = j,
         searches' = search_take(job).rest
  PROVE  /\ search_take(job).request = job
         /\ searches' \in Seq(Requests)
         /\ ~Waiting(job)'
         /\ \A r \in Requests : Waiting(r)' => Waiting(r)
         /\ \A i, j \in DOMAIN searches' : searches'[i] = searches'[j] => i = j
  <1>1. PICK n \in DOMAIN searches : {k \in DOMAIN searches : searches[k] = job} = {n}
    OBVIOUS
  <1>2. n \in Nat /\ n >= 1 /\ n <= Len(searches) /\ searches[n] = job
    BY <1>1
  <1>3. Min({k \in DOMAIN searches : searches[k] = job}) = n
    BY <1>1, <1>2 DEF Min
  <1>4. search_take(job) = [request |-> searches[n], rest |-> RemoveAt(searches, n)]
    BY <1>3 DEF search_take
  <1>5. searches' = RemoveAt(searches, n) /\ n \in 1 .. Len(searches)
    BY <1>2, <1>3 DEF search_take
  <1>6. /\ searches' \in Seq(Requests) /\ Len(searches') = Len(searches) - 1
        /\ \A i \in 1 .. n - 1 : searches'[i] = searches[i]
        /\ \A i \in n .. Len(searches) - 1 : searches'[i] = searches[i + 1]
    BY <1>5, Removed
  <1>7. ASSUME NEW i \in DOMAIN searches'
        PROVE  \E k \in DOMAIN searches :
                 k # n /\ searches'[i] = searches[k] /\ k = IF i < n THEN i ELSE i + 1
    <2>1. i \in Nat /\ i >= 1 /\ i <= Len(searches) - 1 /\ Len(searches) \in Nat
      BY <1>6
    <2>2. CASE i < n
      BY <1>2, <1>6, <2>1, <2>2
    <2>3. CASE i >= n
      BY <1>2, <1>6, <2>1, <2>3, SMTT(20)
    <2> QED
      BY <1>2, <2>1, <2>2, <2>3
  <1>8. ~Waiting(job)'
    BY <1>1, <1>7 DEF Waiting
  <1>9. \A r \in Requests : Waiting(r)' => Waiting(r)
    BY <1>7 DEF Waiting
  <1>10. ASSUME NEW i \in DOMAIN searches', NEW j \in DOMAIN searches',
                searches'[i] = searches'[j]
         PROVE  i = j
    <2>1. i \in Nat /\ j \in Nat
      BY <1>6
    <2>2. (IF i < n THEN i ELSE i + 1) = (IF j < n THEN j ELSE j + 1)
      BY <1>7, <1>10
    <2> QED
      BY <1>2, <2>1, <2>2
  <1> QED
    BY <1>2, <1>4, <1>6, <1>8, <1>9, <1>10

-----------------------------------------------------------------------------
(* The invariant *)

LEMMA OnceInit == Init => OnceInv
  BY RequestsAssumption DEF Init, SearchInit, OnceInv, Types, UnbornIsNowhere, AnsweredOnce,
    Waiting, NoCall

(* Steps of the daemon and of the local list are none of theirs. *)
LEMMA OnceStutter ==
  ASSUME OnceInv, UNCHANGED <<wants, answered, searches, calling>>
  PROVE  OnceInv'
  BY DEF OnceInv, Types, UnbornIsNowhere, AnsweredOnce, Waiting

LEMMA OnceSearch ==
  ASSUME OnceInv, NEW r \in Requests, NEW repos \in Queries, linyaps_search(r, repos)
  PROVE  OnceInv'
  <1> USE RequestsAssumption DEF OnceInv, Types
  <1>1. /\ wants[r] = Unborn /\ answered[r] = 0 /\ ~Waiting(r)
        /\ calling = NoCall /\ searches' = searches
        /\ wants' = [wants EXCEPT ![r] = repos]
    BY DEF linyaps_search, UnbornIsNowhere
  <1>2. \A q \in Requests : Waiting(q)' = Waiting(q)
    BY <1>1 DEF Waiting
  <1>3. CASE Fail(r) /\ UNCHANGED calling
    <2>1. answered' = [answered EXCEPT ![r] = 1]
      BY <1>1, <1>3 DEF Fail, Answer
    <2> QED
      BY <1>1, <1>2, <1>3, <2>1 DEF UnbornIsNowhere, AnsweredOnce, NoCall
  <1>4. CASE /\ UNCHANGED answered
             /\ \/ calling' = [request |-> r, waits |-> "configuration"]
                \/ calling' = [request |-> r, waits |-> "search"]
    BY <1>1, <1>2, <1>4 DEF UnbornIsNowhere, AnsweredOnce, NoCall
  <1> QED
    BY <1>3, <1>4 DEF linyaps_search, Silent, Ask

LEMMA OnceConfiguration ==
  ASSUME OnceInv, NEW configuration, ConfigurationRead(configuration)
  PROVE  OnceInv'
  <1> USE RequestsAssumption DEF OnceInv, Types
  <1>1. /\ calling.request \in Requests
        /\ calling' = [request |-> calling.request, waits |-> "search"]
        /\ UNCHANGED <<wants, answered, searches>>
    BY DEF ConfigurationRead, Silent, Ask, NoCall
  <1> QED
    BY <1>1 DEF UnbornIsNowhere, AnsweredOnce, Waiting

(* The call that returns has not been answered: its callback is called now, or
   it goes to the list, where it was not. *)
LEMMA OnceReturns ==
  ASSUME OnceInv, SearchReturns \/ SearchFails
  PROVE  OnceInv'
  <1> USE RequestsAssumption DEF OnceInv, Types
  <1> DEFINE r == calling.request
  <1>1. /\ r \in Requests /\ calling' = NoCall /\ UNCHANGED wants
        /\ answered[r] = 0 /\ ~Waiting(r) /\ wants[r] # Unborn
    <2>1. r \in Requests /\ calling' = NoCall /\ UNCHANGED wants
      BY DEF SearchReturns, SearchFails, NoCall
    <2> QED
      BY <2>1 DEF AnsweredOnce, UnbornIsNowhere
  <1>2. CASE Fail(r) /\ UNCHANGED searches
    <2>1. answered' = [answered EXCEPT ![r] = 1]
      BY <1>1, <1>2 DEF Fail, Answer
    <2>2. \A q \in Requests : Waiting(q)' = Waiting(q)
      BY <1>2 DEF Waiting
    <2> QED
      BY <1>1, <1>2, <2>1, <2>2 DEF UnbornIsNowhere, AnsweredOnce, NoCall
  <1>3. CASE search_push(r) /\ Silent
    <2>1. /\ searches' \in Seq(Requests)
          /\ Len(searches') = Len(searches) + 1
          /\ searches'[1] = r
          /\ \A i \in DOMAIN searches' : i # 1 =>
               i - 1 \in DOMAIN searches /\ searches'[i] = searches[i - 1]
      BY <1>1, <1>3, Pushed
    <2>2. \A q \in Requests : q # r /\ Waiting(q)' => Waiting(q)
      BY <2>1 DEF Waiting
    <2>3. ASSUME NEW i \in DOMAIN searches', NEW j \in DOMAIN searches',
                 searches'[i] = searches'[j]
          PROVE  i = j
      <3>1. i \in Nat /\ j \in Nat
        BY <2>1
      <3>2. CASE i = 1 \/ j = 1
        BY <1>1, <2>1, <2>3, <3>1, <3>2 DEF Waiting
      <3>3. CASE i # 1 /\ j # 1
        <4>1. i - 1 = j - 1
          BY <2>1, <2>3, <3>3 DEF AnsweredOnce
        <4> QED
          BY <3>1, <4>1
      <3> QED
        BY <3>2, <3>3
    <2>4. UNCHANGED answered
      BY <1>3 DEF Silent
    <2>5. UnbornIsNowhere'
      BY <1>1, <2>2, <2>4 DEF UnbornIsNowhere, NoCall
    <2>6. AnsweredOnce'
      BY <1>1, <2>2, <2>3, <2>4 DEF AnsweredOnce, NoCall
    <2> QED
      BY <1>1, <2>1, <2>4, <2>5, <2>6
  <1> QED
    BY <1>2, <1>3 DEF SearchReturns, SearchFails

(* What is answered leaves the list first. *)
LEMMA OnceFinished ==
  ASSUME OnceInv, on_search_finished
  PROVE  OnceInv'
  <1> USE RequestsAssumption DEF OnceInv, Types
  <1> DEFINE job == Head(signals).job
  <1>1. UNCHANGED <<wants, calling>> /\ calling = NoCall
    BY DEF on_search_finished
  <1>2. CASE \E i \in DOMAIN searches : searches[i] = job
    <2> PICK j \in Requests : j = job /\ Waiting(j)
      BY <1>2 DEF Waiting
    <2>1. /\ searches' = search_take(j).rest
          /\ \E payload : Report(search_take(j).request, j, payload)
      BY <1>2 DEF on_search_finished
    <2>2. /\ search_take(j).request = j
          /\ searches' \in Seq(Requests)
          /\ ~Waiting(j)'
          /\ \A r \in Requests : Waiting(r)' => Waiting(r)
          /\ \A i, k \in DOMAIN searches' : searches'[i] = searches'[k] => i = k
      <3>1. \A i, k \in DOMAIN searches : searches[i] = searches[k] => i = k
        BY DEF AnsweredOnce
      <3>2. \E i \in DOMAIN searches : searches[i] = j
        BY DEF Waiting
      <3> QED
        BY <2>1, <3>1, <3>2, Taken
    <2>3. answered[j] = 0 /\ wants[j] # Unborn
      BY DEF AnsweredOnce, UnbornIsNowhere
    <2>4. answered' = [answered EXCEPT ![j] = 1]
      BY <2>1, <2>2, <2>3 DEF Report, Answer
    <2>5. UnbornIsNowhere'
      BY <1>1, <2>2, <2>3, <2>4 DEF UnbornIsNowhere
    <2>6. AnsweredOnce'
      BY <1>1, <2>2, <2>3, <2>4 DEF AnsweredOnce, NoCall
    <2> QED
      BY <1>1, <2>2, <2>4, <2>5, <2>6
  <1>3. CASE ~\E i \in DOMAIN searches : searches[i] = job
    BY <1>1, <1>3, OnceStutter DEF on_search_finished, Silent
  <1> QED
    BY <1>2, <1>3

LEMMA OnceFree ==
  ASSUME OnceInv, linyaps_context_free
  PROVE  OnceInv'
  BY DEF linyaps_context_free, Silent, OnceInv, Types, UnbornIsNowhere, AnsweredOnce, Waiting

LEMMA OnceStep == OnceInv /\ [Next]_vars => OnceInv'
  <1> SUFFICES ASSUME OnceInv, [Next]_vars
               PROVE  OnceInv'
    OBVIOUS
  <1>1. CASE UNCHANGED vars
    BY <1>1, OnceStutter DEF vars, searchVars
  <1>2. CASE SearchNext
    <2>1. CASE \E r \in Requests, repos \in Queries : linyaps_search(r, repos)
      BY <2>1, OnceSearch
    <2>2. CASE linyaps_context_free
      BY <2>2, OnceFree
    <2>3. CASE Library
      BY <2>3, OnceConfiguration, OnceReturns, OnceFinished DEF Library
    <2>4. CASE Daemon
      BY <2>4, OnceStutter DEF Daemon, Looks, Finishes, Dies, Silent
    <2> QED
      BY <1>2, <2>1, <2>2, <2>3, <2>4 DEF SearchNext
  <1>3. CASE LocalNext /\ UNCHANGED searchVars
    BY <1>3, OnceStutter DEF searchVars
  <1> QED
    BY <1>1, <1>2, <1>3 DEF Next

(* The callback of a search is called at most once, and after it nothing in the
   context can call it again. *)
THEOREM SearchesAnsweredOnce == Spec => []AnsweredOnce
  <1>1. OnceInv => AnsweredOnce
    BY DEF OnceInv
  <1> QED
    BY <1>1, OnceInit, OnceStep, PTL DEF Spec

-----------------------------------------------------------------------------
(* What a callback is handed *)

(* What the daemon has of a search: the call, the job and the signal. *)
Work == inbox \cup jobs \cup ToSet(signals)

(* The daemon looks in no other repos than those that were asked for. *)
OwnJob(job) ==
  /\ job.job \in Jobs
  /\ job.job \in Requests =>
       /\ wants[job.job] # Unborn
       /\ wants[job.job] \notin {Nothing, {}} => job.repos \subseteq wants[job.job]

OwnInv ==
  /\ OnceInv
  /\ \E S : signals \in Seq(S)
  /\ \A job \in Work : OwnJob(job)
  /\ calling.waits = "configuration" => wants[calling.request] \in {Nothing, {}}
  /\ AnswerIsOwn
  /\ NewestKept

LEMMA SignalFacts ==
  ASSUME NEW S, NEW s \in Seq(S)
  PROVE  /\ \A e : Append(s, e) \in Seq(S \cup {e}) /\ ToSet(Append(s, e)) = ToSet(s) \cup {e}
         /\ s # <<>> => /\ Tail(s) \in Seq(S) /\ ToSet(Tail(s)) \subseteq ToSet(s)
                        /\ Head(s) \in ToSet(s)
         /\ ToSet(<<>>) = {}
  <1>1. ASSUME NEW e
        PROVE  Append(s, e) \in Seq(S \cup {e}) /\ ToSet(Append(s, e)) = ToSet(s) \cup {e}
    <2>1. s \in Seq(S \cup {e}) /\ Len(s) \in Nat /\ DOMAIN s = 1 .. Len(s)
      OBVIOUS
    <2>2. /\ Append(s, e) \in Seq(S \cup {e})
          /\ DOMAIN Append(s, e) = 1 .. Len(s) + 1
          /\ \A i \in 1 .. Len(s) : Append(s, e)[i] = s[i]
          /\ Append(s, e)[Len(s) + 1] = e
      BY <2>1
    <2>3. DOMAIN Append(s, e) = DOMAIN s \cup {Len(s) + 1}
      BY <2>1, <2>2
    <2> QED
      BY <2>1, <2>2, <2>3 DEF ToSet
  <1>2. ASSUME s # <<>>
        PROVE  /\ Tail(s) \in Seq(S) /\ ToSet(Tail(s)) \subseteq ToSet(s)
               /\ Head(s) \in ToSet(s)
    <2>1. /\ Tail(s) \in Seq(S) /\ Len(s) \in Nat \ {0} /\ DOMAIN Tail(s) = 1 .. Len(s) - 1
          /\ \A i \in 1 .. Len(s) - 1 : Tail(s)[i] = s[i + 1]
          /\ Head(s) = s[1] /\ DOMAIN s = 1 .. Len(s)
      BY <1>2
    <2>2. /\ 1 \in DOMAIN s
          /\ \A i \in DOMAIN Tail(s) : i + 1 \in DOMAIN s /\ Tail(s)[i] = s[i + 1]
      BY <2>1
    <2> QED
      BY <2>1, <2>2 DEF ToSet
  <1>3. ToSet(<<>>) = {}
    BY DEF ToSet
  <1> QED
    BY <1>1, <1>2, <1>3

(* Steps that hand nothing to a callback. *)
LEMMA OwnSilent ==
  ASSUME OwnInv, OnceInv', handed' = Nothing, UNCHANGED wants,
         \E S : (signals \in Seq(S))', \A job \in Work' : OwnJob(job),
         calling'.waits = "configuration" => calling' = calling
  PROVE  OwnInv'
  <1>1. \A job \in Work' : OwnJob(job)'
    BY DEF OwnJob
  <1>2. AnswerIsOwn' /\ NewestKept'
    BY DEF AnswerIsOwn, NewestKept
  <1>3. (calling.waits = "configuration" => wants[calling.request] \in {Nothing, {}})'
    BY DEF OwnInv
  <1> QED
    BY <1>1, <1>2, <1>3 DEF OwnInv

LEMMA EmptyIsNewest == IsNewestOfEach(<<>>, <<>>)
  BY DEF IsNewestOfEach

(* A callback that is told of a failure gets nothing. *)
LEMMA FailIsOwn ==
  ASSUME NEW r, Fail(r)
  PROVE  AnswerIsOwn' /\ NewestKept'
  <1>1. /\ handed'.job = r /\ handed'.request = r /\ handed'.code = 1
        /\ handed'.packages = <<>> /\ handed'.items = <<>>
    BY DEF Fail, Answer, Failed
  <1> QED
    BY <1>1, EmptyIsNewest DEF AnswerIsOwn, NewestKept

LEMMA OwnSearch ==
  ASSUME OwnInv, OnceInv', NEW r \in Requests, NEW repos \in Queries, linyaps_search(r, repos)
  PROVE  OwnInv'
  <1>1. /\ wants[r] = Unborn /\ wants' = [wants EXCEPT ![r] = repos]
        /\ calling = NoCall
        /\ UNCHANGED <<jobs, signals>>
    BY DEF linyaps_search
  <1>2. /\ wants'[r] = repos /\ repos # Unborn
        /\ \A q \in Requests : q # r => wants'[q] = wants[q]
    BY <1>1, RequestsAssumption DEF OwnInv, OnceInv, Types
  <1>3. \A job \in Work : OwnJob(job)'
    BY <1>1, <1>2 DEF OwnInv, OwnJob
  <1>4. \E S : (signals \in Seq(S))'
    BY <1>1 DEF OwnInv
  <1>5. CASE Fail(r) /\ UNCHANGED <<calling, inbox>>
    <2>1. Work' = Work /\ calling'.waits # "configuration"
      BY <1>1, <1>5 DEF Work, NoCall
    <2>2. AnswerIsOwn' /\ NewestKept'
      BY <1>5, FailIsOwn
    <2> QED
      BY <1>3, <1>4, <2>1, <2>2 DEF OwnInv
  <1>6. CASE /\ Silent
             /\ IF repos \in {Nothing, {}}
                THEN /\ calling' = [request |-> r, waits |-> "configuration"]
                     /\ UNCHANGED inbox
                ELSE Ask(r, repos)
    <2>1. AnswerIsOwn' /\ NewestKept'
      BY <1>6 DEF Silent, AnswerIsOwn, NewestKept
    <2>2. CASE /\ repos \in {Nothing, {}} /\ UNCHANGED inbox
               /\ calling' = [request |-> r, waits |-> "configuration"]
      <3>1. Work' = Work /\ calling'.request = r
        BY <1>1, <2>2 DEF Work
      <3> QED
        BY <1>2, <1>3, <1>4, <2>1, <2>2, <3>1 DEF OwnInv
    <2>3. CASE repos \notin {Nothing, {}} /\ Ask(r, repos)
      <3> DEFINE call == [job |-> r, repos |-> append_repos(repos)]
      <3>1. /\ calling'.waits = "search"
            /\ inbox' = inbox \cup {call}
        BY <2>3 DEF Ask
      <3>2. call.job = r /\ call.repos \subseteq repos
        BY DEF append_repos
      <3>3. OwnJob(call)'
        BY <1>2, <3>2 DEF OwnJob, Jobs
      <3>4. \A job \in Work' : job \in Work \/ job = call
        BY <1>1, <3>1 DEF Work
      <3> QED
        BY <1>3, <1>4, <2>1, <3>1, <3>3, <3>4 DEF OwnInv
    <2> QED
      BY <1>6, <2>2, <2>3
  <1> QED
    BY <1>5, <1>6 DEF linyaps_search

LEMMA OwnConfiguration ==
  ASSUME OwnInv, OnceInv', NEW configuration, ConfigurationRead(configuration)
  PROVE  OwnInv'
  <1> DEFINE r == calling.request
  <1>1. /\ calling.waits = "configuration" /\ handed' = Nothing
        /\ UNCHANGED <<wants, jobs, signals>>
    BY DEF ConfigurationRead, Silent
  <1>2. r \in Requests /\ wants[r] # Unborn /\ wants[r] \in {Nothing, {}}
    BY <1>1 DEF OwnInv, OnceInv, Types, UnbornIsNowhere, NoCall
  <1>3. PICK pieces : Ask(r, pieces)
    BY DEF ConfigurationRead
  <1> DEFINE call == [job |-> r, repos |-> append_repos(pieces)]
  <1>4. inbox' = inbox \cup {call} /\ calling'.waits = "search"
    BY <1>3 DEF Ask
  <1>5. OwnJob(call)
    BY <1>2 DEF OwnJob, Jobs
  <1>6. \A job \in Work' : job \in Work \/ job = call
    BY <1>1, <1>4 DEF Work
  <1>7. \A job \in Work' : OwnJob(job)
    BY <1>5, <1>6 DEF OwnInv
  <1>8. \E S : (signals \in Seq(S))'
    BY <1>1 DEF OwnInv
  <1> QED
    BY <1>1, <1>4, <1>7, <1>8, OwnSilent

LEMMA OwnReturns ==
  ASSUME OwnInv, OnceInv', SearchReturns \/ SearchFails
  PROVE  OwnInv'
  <1>1. calling'.waits # "configuration" /\ Work' = Work /\ UNCHANGED <<wants, signals>>
    BY DEF SearchReturns, SearchFails, NoCall, Work
  <1>2. (\A job \in Work' : OwnJob(job)) /\ \E S : (signals \in Seq(S))'
    BY <1>1 DEF OwnInv
  <1>3. CASE Silent
    BY <1>1, <1>2, <1>3, OwnSilent DEF Silent
  <1>4. CASE Fail(calling.request)
    <2>1. AnswerIsOwn' /\ NewestKept'
      BY <1>4, FailIsOwn
    <2>2. \A job \in Work' : OwnJob(job)'
      BY <1>1, <1>2 DEF OwnJob
    <2> QED
      BY <1>1, <1>2, <2>1, <2>2 DEF OwnInv
  <1> QED
    BY <1>3, <1>4 DEF SearchReturns, SearchFails

(* The packages come from the signal of the job that was waited for, and the
   filter adds none. *)
LEMMA OwnFinished ==
  ASSUME OwnInv, OnceInv', on_search_finished
  PROVE  OwnInv'
  <1>1. /\ signals # <<>> /\ signals' = Tail(signals)
        /\ calling = NoCall /\ UNCHANGED <<wants, calling, inbox, jobs>>
    BY DEF on_search_finished
  <1>2. PICK signal : signal = Head(signals)
    OBVIOUS
  <1>3. PICK S : signals \in Seq(S)
    BY DEF OwnInv
  <1>4. signals' \in Seq(S) /\ ToSet(signals') \subseteq ToSet(signals) /\ signal \in ToSet(signals)
    BY <1>1, <1>2, <1>3, SignalFacts
  <1>5. (\A job \in Work' : OwnJob(job)) /\ OwnJob(signal)
    BY <1>1, <1>4 DEF OwnInv, Work
  <1>6. calling'.waits # "configuration"
    BY <1>1 DEF NoCall
  <1>7. CASE Silent
    BY <1>1, <1>4, <1>5, <1>6, <1>7, OwnSilent DEF Silent
  <1>8. CASE \E i \in DOMAIN searches : searches[i] = signal.job
    <2>1. PICK j \in Requests : j = signal.job
      BY <1>8 DEF OwnInv, OnceInv, Types
    <2>2. search_take(j).request = j
      <3>1. searches \in Seq(Requests)
        BY DEF OwnInv, OnceInv, Types
      <3>2. \A i, k \in DOMAIN searches : searches[i] = searches[k] => i = k
        BY DEF OwnInv, OnceInv, AnsweredOnce
      <3>3. searches' = search_take(j).rest
        BY <1>2, <1>8, <2>1 DEF on_search_finished
      <3> QED
        BY <1>8, <2>1, <3>1, <3>2, <3>3, Taken
    <2>3. PICK payload \in Payloads(signal.repos) : Report(j, j, payload)
      BY <1>2, <1>8, <2>1, <2>2 DEF on_search_finished
    <2>4. CASE Fail(j)
      <3>1. AnswerIsOwn' /\ NewestKept'
        BY <2>4, FailIsOwn
      <3>2. \A job \in Work' : OwnJob(job)'
        BY <1>1, <1>5 DEF OwnJob
      <3> QED
        BY <1>4, <1>6, <3>1, <3>2 DEF OwnInv
    <2>5. CASE ~Fail(j)
      <3>1. /\ payload.parsed /\ payload.code = 0
            /\ Answer(j, j, 0, payload.packages, filter_store_search_results(payload.packages))
        BY <2>3, <2>5 DEF Report, Fail
      <3>2. PICK found \in Results :
              /\ found = payload.packages
              /\ \A i \in DOMAIN found : found[i].repo \in signal.repos
        BY <2>3, <3>1 DEF Payloads, Failed
      <3>3. PICK items : items = filter_store_search_results(found)
        OBVIOUS
      <3>4. /\ handed'.job = j /\ handed'.request = j /\ handed'.code = 0
            /\ handed'.packages = found /\ handed'.items = items
        BY <3>1, <3>2, <3>3 DEF Answer
      <3>5. IsNewestOfEach(items, found)
        BY <3>2, <3>3, RequestsAssumption, FilterKeepsNewest
      <3>6. NewestKept'
        BY <3>4, <3>5 DEF NewestKept
      <3>7. \A i \in DOMAIN items : items[i].repo \in signal.repos
        BY <3>2, <3>5 DEF IsNewestOfEach
      <3>8. wants[j] \notin {Nothing, {}} => signal.repos \subseteq wants[j]
        BY <1>5, <2>1 DEF OwnJob
      <3>9. AnswerIsOwn'
        BY <1>1, <3>4, <3>7, <3>8 DEF AnswerIsOwn
      <3>10. \A job \in Work' : OwnJob(job)'
        BY <1>1, <1>5 DEF OwnJob
      <3> QED
        BY <1>4, <1>6, <3>6, <3>9, <3>10 DEF OwnInv
    <2> QED
      BY <2>4, <2>5
  <1> QED
    BY <1>2, <1>7, <1>8 DEF on_search_finished

LEMMA OwnFree ==
  ASSUME OwnInv, OnceInv', linyaps_context_free
  PROVE  OwnInv'
  <1>1. /\ handed' = Nothing /\ signals' = <<>>
        /\ UNCHANGED <<wants, calling, inbox, jobs>>
    BY DEF linyaps_context_free, Silent
  <1>2. Work' \subseteq Work /\ \E S : (signals \in Seq(S))'
    <2>1. ToSet(<<>>) = {}
      BY DEF ToSet
    <2>2. <<>> \in Seq({})
      OBVIOUS
    <2> QED
      BY <1>1, <2>1, <2>2 DEF Work
  <1>3. \A job \in Work' : OwnJob(job)
    BY <1>2 DEF OwnInv
  <1> QED
    BY <1>1, <1>2, <1>3, OwnSilent

LEMMA OwnDaemon ==
  ASSUME OwnInv, OnceInv', Daemon
  PROVE  OwnInv'
  <1>1. handed' = Nothing /\ UNCHANGED <<wants, calling>>
    BY DEF Daemon, Looks, Finishes, Dies, Silent
  <1>2. PICK S : signals \in Seq(S)
    BY DEF OwnInv
  <1>3. ASSUME Work' \subseteq Work, \E T : (signals \in Seq(T))'
        PROVE  OwnInv'
    <2>1. \A job \in Work' : OwnJob(job)
      BY <1>3 DEF OwnInv
    <2> QED
      BY <1>1, <1>3, <2>1, OwnSilent
  <1>4. ASSUME NEW call \in inbox, Looks(call)
        PROVE  OwnInv'
    <2>1. inbox' \subseteq inbox /\ jobs' \subseteq jobs \cup {call} /\ UNCHANGED signals
      BY <1>4 DEF Looks
    <2>2. Work' \subseteq Work
      BY <2>1 DEF Work
    <2> QED
      BY <1>2, <1>3, <2>1, <2>2
  <1>5. ASSUME NEW job \in jobs, Finishes(job)
        PROVE  OwnInv'
    <2>1. jobs' \subseteq jobs /\ UNCHANGED inbox /\ signals' = Append(signals, job)
      BY <1>5 DEF Finishes
    <2>2. signals' \in Seq(S \cup {job}) /\ ToSet(signals') = ToSet(signals) \cup {job}
      BY <1>2, <2>1, SignalFacts
    <2>3. Work' \subseteq Work
      BY <2>1, <2>2 DEF Work
    <2> QED
      BY <1>3, <2>2, <2>3
  <1>6. CASE Dies
    <2>1. inbox' = {} /\ jobs' = {} /\ UNCHANGED signals
      BY <1>6 DEF Dies
    <2>2. Work' \subseteq Work
      BY <2>1 DEF Work
    <2> QED
      BY <1>2, <1>3, <2>1, <2>2
  <1> QED
    BY <1>4, <1>5, <1>6 DEF Daemon

LEMMA OwnInit == Init => OwnInv
  <1> SUFFICES ASSUME Init PROVE OwnInv
    OBVIOUS
  <1>1. OnceInv
    BY OnceInit
  <1>2. /\ signals = <<>> /\ handed = Nothing /\ inbox = {}
        /\ jobs = {[job |-> j, repos |-> {Stable}] : j \in OtherJobs}
        /\ calling.waits = "none"
    BY DEF Init, SearchInit, NoCall
  <1>3. signals \in Seq({}) /\ ToSet(signals) = {}
    BY <1>2 DEF ToSet
  <1>4. \A job \in Work : OwnJob(job)
    BY <1>2, <1>3, RequestsAssumption DEF Work, OwnJob, Jobs
  <1>5. AnswerIsOwn /\ NewestKept
    BY <1>2 DEF AnswerIsOwn, NewestKept
  <1> QED
    BY <1>1, <1>2, <1>3, <1>4, <1>5 DEF OwnInv

LEMMA OwnStep == OwnInv /\ [Next]_vars => OwnInv'
  <1> SUFFICES ASSUME OwnInv, [Next]_vars PROVE OwnInv'
    OBVIOUS
  <1>1. OnceInv'
    BY OnceStep DEF OwnInv
  <1>2. CASE UNCHANGED searchVars
    <2>1. UNCHANGED <<wants, calling, inbox, jobs, signals, handed>>
      BY <1>2 DEF searchVars
    <2>2. Work' = Work
      BY <2>1 DEF Work
    <2>3. \A job \in Work' : OwnJob(job)'
      BY <2>1, <2>2 DEF OwnInv, OwnJob
    <2>4. AnswerIsOwn' /\ NewestKept'
      BY <2>1 DEF OwnInv, AnswerIsOwn, NewestKept
    <2> QED
      BY <1>1, <2>1, <2>3, <2>4 DEF OwnInv
  <1>3. CASE SearchNext
    BY <1>1, <1>3, OwnSearch, OwnFree, OwnConfiguration, OwnReturns, OwnFinished, OwnDaemon
    DEF SearchNext, Library
  <1> QED
    BY <1>2, <1>3 DEF Next, vars

LEMMA OwnHolds == Spec => []OwnInv
  BY OwnInit, OwnStep, PTL DEF Spec

(* A callback gets the result of the job of its own request, only packages from
   the repos it named, and packages only with code 0, for any number of searches
   at once and of searches by other clients. *)
THEOREM AnswersAreOwn == Spec => []AnswerIsOwn
  <1>1. OwnInv => AnswerIsOwn
    BY DEF OwnInv
  <1> QED
    BY <1>1, OwnHolds, PTL

(* What a callback gets is the newest package of each slot that was found, for
   results of any length. *)
THEOREM NewestAreKept == Spec => []NewestKept
  <1>1. OwnInv => NewestKept
    BY DEF OwnInv
  <1> QED
    BY <1>1, OwnHolds, PTL

-----------------------------------------------------------------------------
(* The installed packages *)

(* What parse_states_json has made of the first n layers. *)
Parsed(items, layers, n) ==
  /\ \E S : items \in Seq(S)
  /\ {package.id : package \in ToSet(items)}
       = {layers[i].id : i \in {k \in 1 .. n : IsApp(layers[k])}}

LEMMA LayerFacts ==
  ASSUME NEW d \in Readable
  PROVE  /\ Len(d.layers) \in Nat /\ DOMAIN d.layers = 1 .. Len(d.layers)
         /\ \A i \in 1 .. Len(d.layers) :
              /\ d.layers[i].id \in Ids \cup {Absent}
              /\ d.layers[i].kind \in {"app", "runtime", Absent}
  <1>1. d.layers \in Seq(ToSet(d.layers))
    BY DocumentsAssumption
  <1>2. Len(d.layers) \in Nat /\ DOMAIN d.layers = 1 .. Len(d.layers)
    BY <1>1
  <1>3. \A i \in 1 .. Len(d.layers) : d.layers[i] \in ToSet(d.layers)
    BY <1>2 DEF ToSet
  <1> QED
    BY <1>2, <1>3, DocumentsAssumption

(* One turn of the loop. *)
LEMMA ParseTurn ==
  ASSUME NEW layers, NEW n \in Nat, NEW items, Parsed(items, layers, n), NEW next,
         next = Parse(items, layers[n + 1])
  PROVE  Parsed(next, layers, n + 1)
  <1>1. PICK S : items \in Seq(S)
    BY DEF Parsed
  <1>2. \A k : k \in 1 .. n + 1 <=> k \in 1 .. n \/ k = n + 1
    OBVIOUS
  <1>3. CASE ~IsApp(layers[n + 1])
    <2>1. {k \in 1 .. n + 1 : IsApp(layers[k])} = {k \in 1 .. n : IsApp(layers[k])}
      BY <1>2, <1>3
    <2> QED
      BY <1>3, <2>1 DEF Parsed, Parse
  <1>4. CASE IsApp(layers[n + 1])
    <2>1. PICK package : package = Package(layers[n + 1])
      OBVIOUS
    <2>2. next \in Seq(S \cup {package}) /\ ToSet(next) = ToSet(items) \cup {package}
      BY <1>1, <1>4, <2>1, SignalFacts DEF Parse
    <2>3. package.id = layers[n + 1].id
      BY <2>1 DEF Package
    <2>4. {k \in 1 .. n + 1 : IsApp(layers[k])} = {k \in 1 .. n : IsApp(layers[k])} \cup {n + 1}
      BY <1>2, <1>4
    <2>5. {x.id : x \in ToSet(next)} = {x.id : x \in ToSet(items)} \cup {layers[n + 1].id}
      BY <2>2, <2>3
    <2>6. {layers[i].id : i \in {k \in 1 .. n + 1 : IsApp(layers[k])}}
            = {layers[i].id : i \in {k \in 1 .. n : IsApp(layers[k])}} \cup {layers[n + 1].id}
      BY <2>4
    <2> QED
      BY <2>2, <2>5, <2>6 DEF Parsed
  <1> QED
    BY <1>3, <1>4

(* The list that is made of a document has the ids of its apps. *)
LEMMA ParseIds ==
  ASSUME NEW d \in Readable
  PROVE  /\ \E S : parse_states_json(d) \in Seq(S)
         /\ {package.id : package \in ToSet(parse_states_json(d))} = AppIds(d)
         /\ d.shape \notin {"layers", "array"} => parse_states_json(d) = <<>>
  <1>1. CASE d.shape \notin {"layers", "array"}
    <2>1. parse_states_json(d) = <<>> /\ AppIds(d) = {}
      BY <1>1 DEF parse_states_json, AppIds
    <2>2. ToSet(<<>>) = {} /\ <<>> \in Seq({})
      BY DEF ToSet
    <2> QED
      BY <2>1, <2>2
  <1>2. CASE d.shape \in {"layers", "array"}
    <2> PICK layers, N : layers = d.layers /\ N = Len(layers)
      OBVIOUS
    <2>1. N \in Nat /\ DOMAIN layers = 1 .. N
      BY LayerFacts
    <2> PICK S : S = {Package(layers[i]) : i \in 1 .. N}
      OBVIOUS
    <2> PICK turn : turn = [n \in 1 .. N |-> [items \in Seq(S) |-> Parse(items, layers[n])]]
      OBVIOUS
    <2>2. turn \in [1 .. N -> [Seq(S) -> Seq(S)]]
      <3>1. \A n \in 1 .. N, items \in Seq(S) : Parse(items, layers[n]) \in Seq(S)
        BY DEF Parse
      <3>2. \A n \in 1 .. N :
              [items \in Seq(S) |-> Parse(items, layers[n])] \in [Seq(S) -> Seq(S)]
        BY ONLY <3>1, Zenon
      <3> QED
        BY ONLY <3>2, turn = [n \in 1 .. N |-> [items \in Seq(S) |-> Parse(items, layers[n])]],
          Zenon
    <2>3. PICK f \in [0 .. N -> Seq(S)] :
            f[0] = <<>> /\ \A n \in 1 .. N : f[n] = turn[n][f[n - 1]]
      <3>1. N \in Nat
        BY <2>1
      <3>2. <<>> \in Seq(S)
        OBVIOUS
      <3>3. LoopValues(Seq(S), <<>>, N, turn) # {}
        BY ONLY <2>2, <3>1, <3>2, LoopHasValues, Zenon
      <3> QED
        BY ONLY <3>3, Zenon DEF LoopValues
    <2>4. ASSUME NEW n \in 1 .. N
          PROVE  f[n] = Parse(f[n - 1], layers[n])
      <3>1. n - 1 \in 0 .. N
        BY <2>1
      <3>2. f[n - 1] \in Seq(S)
        BY <3>1
      <3>3. turn[n][f[n - 1]] = Parse(f[n - 1], layers[n])
        BY <3>2
      <3> QED
        BY <2>3, <3>3
    <2>5. f = [n \in 0 .. N |-> IF n = 0 THEN <<>> ELSE Parse(f[n - 1], layers[n])]
      <3>1. ASSUME NEW n \in 0 .. N
            PROVE  f[n] = IF n = 0 THEN <<>> ELSE Parse(f[n - 1], layers[n])
        <4>1. n = 0 \/ n \in 1 .. N
          BY <2>1
        <4> QED
          BY <2>1, <2>3, <2>4, <4>1
      <3> QED
        BY <3>1
    <2>6. PICK g : /\ g = [n \in 0 .. N |->
                             IF n = 0 THEN <<>> ELSE Parse(g[n - 1], layers[n])]
                   /\ parse_states_json(d) = g[N]
      BY <1>2, <2>5 DEF parse_states_json
    <2> DEFINE Done == {n \in Nat : n <= N => Parsed(g[n], layers, n)}
    <2>7. 0 \in Done
      <3>1. g[0] = <<>> /\ 1 .. 0 = {} /\ ToSet(<<>>) = {} /\ <<>> \in Seq({})
        BY <2>1, <2>6 DEF ToSet
      <3>2. Parsed(g[0], layers, 0)
        BY <3>1 DEF Parsed
      <3> QED
        BY <3>2
    <2>8. ASSUME NEW n \in Done PROVE n + 1 \in Done
      <3> SUFFICES ASSUME n + 1 <= N PROVE Parsed(g[n + 1], layers, n + 1)
        OBVIOUS
      <3>1. n \in Nat /\ n + 1 \in 0 .. N /\ n + 1 # 0 /\ n + 1 - 1 = n
        BY <2>1
      <3>2. g[n + 1] = Parse(g[n], layers[n + 1])
        BY <2>6, <3>1
      <3>3. Parsed(g[n], layers, n)
        BY <2>1, <3>1
      <3> QED
        BY <3>1, <3>2, <3>3, ParseTurn
    <2>9. Done \in SUBSET Nat
      OBVIOUS
    <2>10. N \in Done
      <3> HIDE DEF Done
      <3> QED
        BY <2>1, <2>7, <2>8, <2>9, NumbersByInduction
    <2>11. Parsed(parse_states_json(d), layers, N)
      BY <2>1, <2>6, <2>10
    <2>12. {layers[i].id : i \in {k \in 1 .. N : IsApp(layers[k])}} = AppIds(d)
      <3>1. \A i \in 1 .. N :
              IsApp(layers[i]) <=> layers[i].kind # "runtime" /\ layers[i].id # Absent
        BY LayerFacts, DocumentsAssumption DEF IsApp
      <3>2. AppIds(d) = {l.id : l \in {k \in ToSet(layers) : k.kind # "runtime" /\ k.id # Absent}}
        BY <1>2 DEF AppIds
      <3> QED
        BY <2>1, <3>1, <3>2 DEF ToSet
    <2> QED
      BY <1>2, <2>11, <2>12 DEF Parsed
  <1> QED
    BY <1>1, <1>2

LEMMA AppIdsAreIds ==
  ASSUME NEW d \in Readable
  PROVE  AppIds(d) \subseteq Ids
  <1>1. \A l \in ToSet(d.layers) : l.id \in Ids \cup {Absent}
    BY DocumentsAssumption
  <1> QED
    BY <1>1 DEF AppIds

(* A package is found in a document that has it, and no other is. *)
LEMMA FindFacts ==
  ASSUME NEW d \in Readable, NEW id \in Ids
  PROVE  /\ Find(d, id) = <<>> <=> ~HasId(d, id)
         /\ Find(d, id) # <<>> => /\ \E S : Find(d, id) \in Seq(S)
                                  /\ {package.id : package \in ToSet(Find(d, id))} = {id}
  <1> PICK places : places = {i \in DOMAIN d.layers : d.layers[i].id = id}
    OBVIOUS
  <1>1. places = {} <=> ~\E i \in DOMAIN d.layers : d.layers[i].id = id
    OBVIOUS
  <1>2. CASE d.shape # "layers" \/ places = {}
    BY <1>1, <1>2 DEF Find, HasId
  <1>3. CASE d.shape = "layers" /\ places # {}
    <2>1. Min(places) \in places
      <3>1. places \in SUBSET Nat
        BY LayerFacts
      <3> QED
        BY <1>3, <3>1, LeastNumber
    <2> PICK package : package = Package(d.layers[Min(places)])
      OBVIOUS
    <2>2. Find(d, id) = <<package>> /\ package.id = id /\ HasId(d, id)
      BY <1>1, <1>3, <2>1 DEF Find, HasId, Package
    <2> PICK found : found = <<package>>
      OBVIOUS
    <2>3. found \in Seq({package}) /\ Len(found) = 1 /\ found[1] = package
      OBVIOUS
    <2>4. DOMAIN found = {1} /\ found # <<>>
      BY <2>3
    <2>5. {x.id : x \in ToSet(found)} = {package.id}
      <3>1. ToSet(found) = {package}
        BY ONLY <2>3, <2>4 DEF ToSet
      <3> QED
        BY ONLY <3>1
    <2> QED
      BY <2>2, <2>3, <2>4, <2>5
  <1> QED
    BY <1>2, <1>3

(* The ids of a result, whatever its length. *)
LEMMA ResultIdsIn ==
  ASSUME NEW list, NEW S, {package.id : package \in ToSet(list)} \subseteq S
  PROVE  \A i \in DOMAIN list : list[i].id \in S
  BY DEF ToSet

(* Between its first look at the file and its return, a call knows which one it
   is and has not asked ll-cli, what it has open is something the file was and as
   long as it was measured, and ll-cli is asked only when the file was not there
   or, for a package, may not have had it. *)
CallKnown == at # "idle" => file \in seen /\ ask \in Ids \cup {"list"} /\ printed = {}

HeldWasSeen ==
  /\ at \in {"opened", "measured"} => Held \in seen
  /\ at = "measured" => torn \/ Held.length = size

CommandIsNeeded ==
  at = "command" =>
    /\ ask = "list" => seen \cap {Missing, Empty} # {}
    /\ ask \in Ids => torn \/ \E d \in seen : d = Missing \/ ~HasId(d, ask)

LocalInv == LocalTypeOK /\ CallKnown /\ HeldWasSeen /\ CommandIsNeeded /\ ResultIsSnapshot

LEMMA LocalBegins ==
  ASSUME LocalInv, NEW what \in Ids \cup {"list"}, Begin(what)
  PROVE  LocalInv'
  <1>1. /\ at = "idle" /\ ask' = what /\ fd' = Current /\ size' = 0 /\ torn' = FALSE
        /\ at' = IF file = Missing THEN "command" ELSE "opened"
        /\ seen' = {file} /\ printed' = {} /\ result' = <<>>
        /\ file' = file /\ writes' = writes
    BY DEF Begin
  <1>2. file \in Contents \cup {Missing} /\ writes \in 0 .. MaxWrites
    BY DEF LocalInv, LocalTypeOK
  <1>3. Held' = file
    BY <1>1 DEF Held
  <1>4. LocalTypeOK'
    <2>1. at' \in {"command", "opened"} /\ (at' = "opened" => file # Missing)
      BY <1>1
    <2>2. \A i \in DOMAIN result' : result'[i].id \in Ids
      BY <1>1
    <2>3. torn' \in BOOLEAN
      BY <1>1
    <2>4. size' \in Nat /\ (at' = "measured" => size' > 0)
      BY <1>1, <2>1
    <2>5. at' \in {"opened", "measured"} => Held' # Missing
      BY <1>3, <2>1
    <2> QED
      BY <1>1, <1>2, <2>1, <2>2, <2>3, <2>4, <2>5 DEF LocalTypeOK
  <1>5. CallKnown' /\ HeldWasSeen' /\ CommandIsNeeded'
    BY <1>1, <1>3 DEF CallKnown, HeldWasSeen, CommandIsNeeded
  <1>6. ResultIsSnapshot'
    BY <1>1 DEF ResultIsSnapshot
  <1> QED
    BY <1>4, <1>5, <1>6 DEF LocalInv

LEMMA LocalMeasures == LocalInv /\ Measure => LocalInv'
  <1> SUFFICES ASSUME LocalInv, Measure PROVE LocalInv'
    OBVIOUS
  <1>1. /\ at = "opened" /\ size' = Held.length
        /\ at' = IF Held.length > 0 THEN "measured" ELSE "command"
        /\ file' = file /\ writes' = writes /\ ask' = ask /\ fd' = fd
        /\ seen' = seen /\ printed' = printed /\ result' = result
    BY DEF Measure, Measured
  <1>2. torn' = torn
    BY DEF Measure
  <1>3. Held' = Held /\ Held \in Contents /\ Held \in seen
    <2>1. Held # Missing /\ file \in Contents \cup {Missing} /\ fd \in Contents \cup {Current}
      BY <1>1 DEF LocalInv, LocalTypeOK
    <2>2. Held \in Contents
      BY <2>1 DEF Held
    <2>3. Held \in seen
      BY <1>1 DEF LocalInv, HeldWasSeen
    <2> QED
      BY <1>1, <2>2, <2>3 DEF Held
  <1>4. Held.length \in Nat /\ (Held.length = 0 => Held = Empty)
    BY <1>3, DocumentsAssumption
  <1>5. LocalTypeOK'
    <2>1. torn' \in BOOLEAN
      BY <1>2 DEF LocalInv, LocalTypeOK
    <2>2. size' \in Nat /\ (at' = "measured" => size' > 0)
      BY <1>1, <1>4
    <2>3. at' \in {"measured", "command"}
      BY <1>1
    <2>4. /\ file' \in Contents \cup {Missing} /\ writes' \in 0 .. MaxWrites
          /\ ask' \in Ids \cup {"list", "none"} /\ fd' \in Contents \cup {Current}
          /\ \A i \in DOMAIN result' : result'[i].id \in Ids
          /\ printed' \subseteq Documents \cup {Garbage}
      BY <1>1 DEF LocalInv, LocalTypeOK
    <2>5. Held' # Missing
      BY <1>3, DocumentsAssumption
    <2> QED
      BY <2>1, <2>2, <2>3, <2>4, <2>5 DEF LocalTypeOK
  <1>6. CallKnown' /\ HeldWasSeen'
    BY <1>1, <1>3 DEF LocalInv, CallKnown, HeldWasSeen
  <1>7. CommandIsNeeded'
    <2>1. at' = "command" => Held = Empty
      BY <1>1, <1>4
    <2>2. ~HasId(Empty, ask')
      BY DocumentsAssumption DEF HasId
    <2> QED
      BY <1>1, <1>3, <2>1, <2>2 DEF CommandIsNeeded
  <1>8. ResultIsSnapshot'
    <2>1. at' # "idle"
      BY <1>1
    <2> QED
      BY <2>1 DEF ResultIsSnapshot
  <1> QED
    BY <1>5, <1>6, <1>7, <1>8 DEF LocalInv

(* What is left of the type invariant when a call returns or goes on to ll-cli. *)
LEMMA LocalReturns ==
  ASSUME LocalInv, at' \in {"idle", "command"},
         UNCHANGED <<file, writes, ask, fd, size, torn>>,
         \A i \in DOMAIN result' : result'[i].id \in Ids,
         printed' \subseteq Documents \cup {Garbage}
  PROVE  LocalTypeOK'
  <1>1. torn' \in BOOLEAN
    BY DEF LocalInv, LocalTypeOK
  <1>2. /\ file' \in Contents \cup {Missing} /\ writes' \in 0 .. MaxWrites
        /\ ask' \in Ids \cup {"list", "none"} /\ fd' \in Contents \cup {Current}
        /\ size' \in Nat
    BY DEF LocalInv, LocalTypeOK
  <1> QED
    BY <1>1, <1>2 DEF LocalTypeOK

LEMMA LocalReads == LocalInv /\ Read => LocalInv'
  <1> SUFFICES ASSUME LocalInv, Read PROVE LocalInv'
    OBVIOUS
  <1>1. /\ at = "measured" /\ UNCHANGED <<file, writes, ask, fd, size>>
        /\ seen' = seen /\ printed' = printed
    BY DEF Read
  <1>2. torn' = torn
    BY DEF Read
  <1>3. /\ file \in seen /\ ask \in Ids \cup {"list"} /\ Held \in seen
        /\ Held \in Contents /\ printed = {}
        /\ size > 0 /\ (torn \/ Held.length = size)
    <2>1. Held # Missing /\ file \in Contents \cup {Missing} /\ fd \in Contents \cup {Current}
      BY <1>1 DEF LocalInv, LocalTypeOK
    <2>2. Held \in Contents
      BY <2>1 DEF Held
    <2> QED
      BY <1>1, <2>2 DEF LocalInv, LocalTypeOK, CallKnown, HeldWasSeen
  <1>4. "list" \notin Ids
    BY DocumentsAssumption
  <1>5. PICK buf \in Bytes :
          IF ask = "list" THEN Return(parse_states_json(buf))
          ELSE IF Find(buf, ask) # <<>> THEN Return(Find(buf, ask))
          ELSE at' = "command" /\ result' = result
    BY DEF Read
  <1>6. buf \in Readable /\ (torn \/ buf = Held)
    <2>1. Held \in Readable /\ (~torn => CutTo(Held, size) = Held)
      BY <1>3, DocumentsAssumption DEF CutTo, Readable
    <2>2. CASE torn
      BY <1>5, <2>2 DEF Bytes
    <2>3. CASE ~torn
      BY <1>5, <2>1, <2>3 DEF Bytes
    <2> QED
      BY <2>2, <2>3
  <1>7. Held # Missing /\ (~torn => Held # Empty)
    BY <1>3, DocumentsAssumption
  <1>8. CASE ask = "list"
    <2>1. at' = "idle" /\ result' = parse_states_json(buf)
      BY <1>5, <1>8 DEF Return
    <2>2. ResultIds' = AppIds(buf) /\ AppIds(buf) \subseteq Ids
      BY <1>6, <2>1, ParseIds, AppIdsAreIds DEF ResultIds
    <2>3. \A i \in DOMAIN result' : result'[i].id \in Ids
      BY <2>2, ResultIdsIn DEF ResultIds
    <2>4. LocalTypeOK'
      BY <1>1, <1>2, <1>3, <2>1, <2>3, LocalReturns
    <2>5. CallKnown' /\ HeldWasSeen' /\ CommandIsNeeded'
      BY <2>1 DEF CallKnown, HeldWasSeen, CommandIsNeeded
    <2>6. torn' \/ \E document \in seen' \ {Missing, Empty} : ResultIds' = AppIds(document)
      BY <1>1, <1>2, <1>3, <1>6, <1>7, <2>2
    <2>7. ResultIsSnapshot'
      BY <1>1, <1>3, <1>4, <1>8, <2>6 DEF ResultIsSnapshot
    <2> QED
      BY <2>4, <2>5, <2>7 DEF LocalInv
  <1>9. CASE ask \in Ids
    <2>1. ask # "list" /\ ask' = ask
      BY <1>1, <1>4, <1>9
    <2>2. CASE Find(buf, ask) # <<>>
      <3>1. at' = "idle" /\ result' = Find(buf, ask)
        BY <1>5, <2>1, <2>2 DEF Return
      <3>2. ResultIds' = {ask}
        BY <1>6, <1>9, <2>2, <3>1, FindFacts DEF ResultIds
      <3>3. \A i \in DOMAIN result' : result'[i].id \in Ids
        BY <1>9, <3>2, ResultIdsIn DEF ResultIds
      <3>4. LocalTypeOK'
        BY <1>1, <1>2, <1>3, <3>1, <3>3, LocalReturns
      <3>5. CallKnown' /\ HeldWasSeen' /\ CommandIsNeeded'
        BY <3>1 DEF CallKnown, HeldWasSeen, CommandIsNeeded
      <3>6. HasId(buf, ask)
        BY <1>6, <1>9, <2>2, FindFacts
      <3>7. torn' \/ \E document \in seen' \ {Missing} :
                      HasId(document, ask') /\ result' = Find(document, ask')
        BY <1>1, <1>2, <1>3, <1>6, <1>7, <2>1, <3>1, <3>6
      <3>8. ResultIsSnapshot'
        BY <1>9, <2>1, <3>2, <3>7 DEF ResultIsSnapshot
      <3> QED
        BY <3>4, <3>5, <3>8 DEF LocalInv
    <2>3. CASE Find(buf, ask) = <<>>
      <3>1. at' = "command" /\ result' = result
        BY <1>5, <2>1, <2>3
      <3>2. ~HasId(buf, ask)
        BY <1>6, <1>9, <2>3, FindFacts
      <3>3. \A i \in DOMAIN result' : result'[i].id \in Ids
        BY <3>1 DEF LocalInv, LocalTypeOK
      <3>4. LocalTypeOK'
        BY <1>1, <1>2, <1>3, <3>1, <3>3, LocalReturns
      <3>5. CallKnown' /\ HeldWasSeen'
        BY <1>1, <1>3, <3>1 DEF CallKnown, HeldWasSeen
      <3>6. torn' \/ \E d \in seen' : d = Missing \/ ~HasId(d, ask')
        BY <1>1, <1>2, <1>3, <1>6, <3>2
      <3>7. CommandIsNeeded'
        BY <2>1, <3>6 DEF CommandIsNeeded
      <3>8. ResultIsSnapshot'
        BY <3>1 DEF ResultIsSnapshot
      <3> QED
        BY <3>4, <3>5, <3>7, <3>8 DEF LocalInv
    <2> QED
      BY <2>2, <2>3
  <1> QED
    BY <1>3, <1>8, <1>9

LEMMA LocalRunsList ==
  ASSUME LocalInv, NEW output \in Documents \cup {Garbage}, RunList(output)
  PROVE  LocalInv'
  <1>1. /\ at = "command" /\ ask = "list" /\ at' = "idle"
        /\ result' = parse_states_json(output) /\ printed' = {output} /\ seen' = seen
        /\ UNCHANGED <<file, writes, ask, fd, size, torn>>
    BY DEF RunList, Return
  <1>2. output \in Readable
    BY DEF Readable, Contents
  <1>3. ResultIds' = AppIds(output) /\ AppIds(output) \subseteq Ids
    BY <1>1, <1>2, ParseIds, AppIdsAreIds DEF ResultIds
  <1>4. \A i \in DOMAIN result' : result'[i].id \in Ids
    BY <1>3, ResultIdsIn DEF ResultIds
  <1>5. LocalTypeOK'
    BY <1>1, <1>4, LocalReturns
  <1>6. CallKnown' /\ HeldWasSeen' /\ CommandIsNeeded'
    BY <1>1 DEF CallKnown, HeldWasSeen, CommandIsNeeded
  <1>7. ask' \notin Ids /\ seen' \cap {Missing, Empty} # {}
    BY <1>1, DocumentsAssumption DEF LocalInv, CommandIsNeeded
  <1>8. ResultIsSnapshot'
    BY <1>1, <1>3, <1>7 DEF ResultIsSnapshot
  <1> QED
    BY <1>5, <1>6, <1>8 DEF LocalInv

LEMMA LocalRunsInfo ==
  ASSUME LocalInv, NEW found \in BOOLEAN, RunInfo(found)
  PROVE  LocalInv'
  <1>1. /\ at = "command" /\ ask \in Ids /\ at' = "idle"
        /\ result' = <<>> \/ result' = <<[id |-> ask, repo |-> Local]>>
        /\ seen' = seen /\ printed' = printed
        /\ UNCHANGED <<file, writes, ask, fd, size, torn>>
    BY DEF RunInfo, Return
  <1>2. PICK package : package = [id |-> ask, repo |-> Local]
    OBVIOUS
  <1>3. ResultIds' \subseteq {ask}
    <2>1. ToSet(result') \subseteq {package}
      <3>1. \A i \in DOMAIN result' : result'[i] = package
        BY <1>1, <1>2
      <3> QED
        BY <3>1 DEF ToSet
    <2>2. package.id = ask
      BY <1>2
    <2> QED
      BY <2>1, <2>2 DEF ResultIds
  <1>4. \A i \in DOMAIN result' : result'[i].id \in Ids
    BY <1>1, <1>3, ResultIdsIn DEF ResultIds
  <1>5. LocalTypeOK'
    <2>1. printed' \subseteq Documents \cup {Garbage}
      BY <1>1 DEF LocalInv, LocalTypeOK
    <2> QED
      BY <1>1, <1>4, <2>1, LocalReturns
  <1>6. CallKnown' /\ HeldWasSeen' /\ CommandIsNeeded'
    BY <1>1 DEF CallKnown, HeldWasSeen, CommandIsNeeded
  <1>7. torn' \/ \E d \in seen' : d = Missing \/ ~HasId(d, ask')
    BY <1>1 DEF LocalInv, CommandIsNeeded
  <1>8. ask' # "list"
    BY <1>1, DocumentsAssumption
  <1>9. ResultIsSnapshot'
    BY <1>1, <1>3, <1>7, <1>8 DEF ResultIsSnapshot
  <1> QED
    BY <1>5, <1>6, <1>9 DEF LocalInv

(* The daemon changes the file: what the call has open is still a file that
   was seen, and what was seen only grows. *)
LEMMA LocalChanges ==
  ASSUME LocalInv, NEW document \in Contents \cup {Missing}, Change(document),
         fd' \in Contents \cup {Current}, torn' \in BOOLEAN,
         torn => torn', at = "idle" => torn' = torn,
         at \in {"opened", "measured"} => Held' \in seen' \ {Missing},
         at = "measured" => torn' \/ Held' = Held
  PROVE  LocalInv'
  <1>1. /\ writes < MaxWrites /\ writes' = writes + 1 /\ file' = document
        /\ seen' = IF at = "idle" THEN seen ELSE seen \cup {document}
        /\ UNCHANGED <<ask, at, size, printed, result>>
    BY DEF Change
  <1>2. LocalTypeOK'
    <2>1. writes' \in 0 .. MaxWrites
      BY <1>1, DocumentsAssumption DEF LocalInv, LocalTypeOK
    <2>2. size' \in Nat /\ (at' = "measured" => size' > 0)
      BY <1>1 DEF LocalInv, LocalTypeOK
    <2>3. /\ file' \in Contents \cup {Missing}
          /\ ask' \in Ids \cup {"list", "none"}
          /\ at' \in {"idle", "opened", "measured", "command"}
          /\ \A i \in DOMAIN result' : result'[i].id \in Ids
          /\ at' \in {"opened", "measured"} => Held' # Missing
          /\ printed' \subseteq Documents \cup {Garbage}
      BY <1>1 DEF LocalInv, LocalTypeOK
    <2> QED
      BY <2>1, <2>2, <2>3 DEF LocalTypeOK
  <1>3. CallKnown'
    BY <1>1 DEF LocalInv, CallKnown
  <1>4. HeldWasSeen'
    BY <1>1 DEF LocalInv, HeldWasSeen
  <1>5. CommandIsNeeded'
    BY <1>1 DEF LocalInv, CommandIsNeeded
  <1>6. ResultIsSnapshot'
    <2>1. CASE at = "idle"
      <3>1. /\ ResultIds' = ResultIds /\ seen' = seen /\ ask' = ask /\ at' = at
            /\ printed' = printed /\ result' = result
        BY <1>1, <2>1 DEF ResultIds
      <3> QED
        BY <2>1, <3>1 DEF LocalInv, ResultIsSnapshot
    <2>2. CASE at # "idle"
      BY <1>1, <2>2 DEF ResultIsSnapshot
    <2> QED
      BY <2>1, <2>2
  <1> QED
    BY <1>2, <1>3, <1>4, <1>5, <1>6 DEF LocalInv

LEMMA LocalReplaces ==
  ASSUME LocalInv, NEW document \in Documents \cup {Missing}, Replace(document)
  PROVE  LocalInv'
  <1>1. /\ Change(document) /\ file' = document
        /\ fd' = IF at \in {"opened", "measured"} THEN Held ELSE fd
    BY DEF Replace, Change
  <1>2. torn' = torn
    BY DEF Replace
  <1>3. document \in Contents \cup {Missing}
    BY DEF Contents
  <1>4. /\ file \in Contents \cup {Missing} /\ fd \in Contents \cup {Current}
        /\ at \in {"opened", "measured"} => Held # Missing /\ Held \in seen
    BY DEF LocalInv, LocalTypeOK, HeldWasSeen
  <1>5. at \in {"opened", "measured"} => Held \in Contents
    BY <1>4 DEF Held
  <1>6. fd' \in Contents \cup {Current}
    BY <1>1, <1>4, <1>5
  <1>7. seen \subseteq seen'
    BY <1>1 DEF Change
  <1>8. at \in {"opened", "measured"} => Held' = Held /\ Held' \in seen' \ {Missing}
    <2>1. Current \notin Contents
      BY DocumentsAssumption
    <2>2. at \in {"opened", "measured"} => Held' = Held
      BY <1>1, <1>5, <2>1 DEF Held
    <2> QED
      BY <1>4, <1>7, <2>2
  <1>9. torn' \in BOOLEAN
    BY <1>2 DEF LocalInv, LocalTypeOK
  <1> QED
    BY <1>1, <1>2, <1>3, <1>6, <1>8, <1>9, LocalChanges

LEMMA LocalWritesOver ==
  ASSUME LocalInv, NEW document \in Contents, WriteOver(document)
  PROVE  LocalInv'
  <1>1. Change(document) /\ document # Missing /\ file' = document /\ fd' = fd
    BY DEF WriteOver, Change
  <1>2. torn' = (torn \/ (at = "measured" /\ fd = Current))
    BY DEF WriteOver
  <1>3. /\ fd \in Contents \cup {Current}
        /\ at \in {"opened", "measured"} => Held # Missing /\ Held \in seen
    BY DEF LocalInv, LocalTypeOK, HeldWasSeen
  <1>4. torn' \in BOOLEAN /\ (torn => torn') /\ (at = "idle" => torn' = torn)
    <2>1. torn \in BOOLEAN
      BY DEF LocalInv, LocalTypeOK
    <2> QED
      BY <1>2, <2>1
  <1>5. at # "idle" => seen' = seen \cup {document}
    BY <1>1 DEF Change
  <1>6. at \in {"opened", "measured"} => Held' \in seen' \ {Missing}
    <2>1. CASE fd = Current
      BY <1>1, <1>5, <2>1 DEF Held
    <2>2. CASE fd # Current
      BY <1>1, <1>3, <1>5, <2>2 DEF Held
    <2> QED
      BY <2>1, <2>2
  <1>7. document \in Contents \cup {Missing} /\ fd' \in Contents \cup {Current}
    BY <1>1, <1>3
  <1>8. at = "measured" => torn' \/ Held' = Held
    BY <1>1, <1>2 DEF Held
  <1> QED
    BY <1>1, <1>4, <1>6, <1>7, <1>8, LocalChanges

LEMMA LocalInitial == Init => LocalInv
  <1> SUFFICES ASSUME Init PROVE LocalInv
    OBVIOUS
  <1>1. /\ file \in Documents \cup {Empty, Missing} /\ writes = 0 /\ ask = "none"
        /\ at = "idle" /\ fd = Current /\ size = 0 /\ torn = FALSE /\ result = <<>>
        /\ printed = {}
    BY DEF Init, LocalInit
  <1>2. ask \notin Ids /\ 0 \in 0 .. MaxWrites
    BY <1>1, DocumentsAssumption
  <1>3. torn \in BOOLEAN
    BY <1>1
  <1>4. \A i \in DOMAIN result : result[i].id \in Ids
    BY <1>1
  <1>5. LocalTypeOK
    BY <1>1, <1>2, <1>3, <1>4 DEF LocalTypeOK, Contents
  <1>6. CallKnown /\ HeldWasSeen /\ CommandIsNeeded /\ ResultIsSnapshot
    BY <1>1, <1>2 DEF CallKnown, HeldWasSeen, CommandIsNeeded, ResultIsSnapshot
  <1> QED
    BY <1>5, <1>6 DEF LocalInv

LEMMA LocalStep == LocalInv /\ [Next]_vars => LocalInv'
  <1> SUFFICES ASSUME LocalInv, [Next]_vars PROVE LocalInv'
    OBVIOUS
  <1>1. CASE UNCHANGED localVars
    <2>1. UNCHANGED <<file, writes, ask, at, fd, size, seen, printed, result>>
      BY <1>1 DEF localVars
    <2>2. torn' = torn
      BY <1>1 DEF localVars
    <2>3. Held' = Held /\ ResultIds' = ResultIds
      BY <2>1 DEF Held, ResultIds
    <2>4. torn' \in BOOLEAN
      BY <2>2 DEF LocalInv, LocalTypeOK
    <2>5. LocalTypeOK'
      BY <2>1, <2>3, <2>4 DEF LocalInv, LocalTypeOK
    <2>6. CallKnown' /\ HeldWasSeen' /\ CommandIsNeeded'
      BY <2>1, <2>2, <2>3 DEF LocalInv, CallKnown, HeldWasSeen, CommandIsNeeded
    <2>7. ResultIsSnapshot'
      BY <2>1, <2>2, <2>3 DEF LocalInv, ResultIsSnapshot
    <2> QED
      BY <2>5, <2>6, <2>7 DEF LocalInv
  <1>2. CASE LocalNext
    <2>1. ASSUME linyaps_list_installed PROVE LocalInv'
      BY <2>1, LocalBegins DEF linyaps_list_installed
    <2>2. ASSUME NEW id \in Ids, linyaps_info(id) PROVE LocalInv'
      BY <2>2, LocalBegins DEF linyaps_info
    <2>3. ASSUME NEW output \in Documents \cup {Garbage}, RunList(output) PROVE LocalInv'
      BY <2>3, LocalRunsList
    <2> QED
      BY <1>2, <2>1, <2>2, <2>3, LocalMeasures, LocalReads, LocalRunsInfo, LocalReplaces,
        LocalWritesOver
      DEF LocalNext
  <1> QED
    BY <1>1, <1>2 DEF Next, vars

LEMMA LocalHolds == Spec => []LocalInv
  BY LocalInitial, LocalStep, PTL DEF Spec

(* Unless the states file is written over after its size was measured, a list is
   that of what the file was at one moment of the call, or, when at some moment
   there was none, of what ll-cli printed; a package is as the file listed it, or,
   when at some moment it did not, as ll-cli has it; and no other is returned for
   it, whatever is read. *)
THEOREM ResultsAreSnapshots == Spec => []ResultIsSnapshot
  <1>1. LocalInv => ResultIsSnapshot
    BY DEF LocalInv
  <1> QED
    BY <1>1, LocalHolds, PTL

-----------------------------------------------------------------------------
(* Types *)

RestTypes ==
  /\ part \in {"searches", "local"}
  /\ open \in BOOLEAN
  /\ reply \in Replies \cup {Nothing}
  /\ lost \subseteq Requests
  /\ crashes \in 0 .. MaxCrashes

LEMMA RestInit == Init => RestTypes
  BY RequestsAssumption DEF Init, SearchInit, RestTypes

LEMMA RestStep == RestTypes /\ [Next]_vars => RestTypes'
  <1> SUFFICES ASSUME RestTypes, [Next]_vars PROVE RestTypes'
    OBVIOUS
  <1>1. part' = part
    BY DEF Next, vars
  <1>2. CASE UNCHANGED searchVars
    BY <1>1, <1>2 DEF RestTypes, searchVars
  <1>3. CASE SearchNext
    <2>1. open' = open \/ open' = FALSE
      BY <1>3 DEF SearchNext, Library, Daemon, linyaps_search, linyaps_context_free,
        ConfigurationRead, SearchReturns, SearchFails, on_search_finished, Looks, Finishes, Dies
    <2>2. open' \in BOOLEAN
      BY <2>1 DEF RestTypes
    <2>3. reply' = reply \/ reply' = Nothing \/ reply' \in Replies
      BY <1>3 DEF SearchNext, Library, Daemon, linyaps_search, linyaps_context_free,
        ConfigurationRead, SearchReturns, SearchFails, on_search_finished, Looks, Finishes, Dies
    <2>4. \/ lost' = lost /\ crashes' = crashes
          \/ /\ crashes < MaxCrashes /\ crashes' = crashes + 1
             /\ lost' = lost \cup ({job.job : job \in jobs} \cap Requests)
      BY <1>3 DEF SearchNext, Library, Daemon, linyaps_search, linyaps_context_free,
        ConfigurationRead, SearchReturns, SearchFails, on_search_finished, Looks, Finishes, Dies
    <2>5. lost' \subseteq Requests /\ crashes' \in 0 .. MaxCrashes
      BY <2>4, RequestsAssumption DEF RestTypes
    <2> QED
      BY <1>1, <2>2, <2>3, <2>5 DEF RestTypes
  <1> QED
    BY <1>2, <1>3 DEF Next, vars

(* Every variable has its type, and the ids of a result are ids one may ask for. *)
THEOREM QueriesTypes == Spec => []TypeOK
  <1>1. OwnInv /\ LocalInv /\ RestTypes => TypeOK
    <2> SUFFICES ASSUME OwnInv, LocalInv, RestTypes PROVE TypeOK
      OBVIOUS
    <2>1. \A job \in inbox \cup jobs \cup ToSet(signals) : job.job \in Jobs
      BY DEF OwnInv, OwnJob, Work
    <2>2. Types
      BY DEF OwnInv, OnceInv
    <2>3. open \in BOOLEAN
      BY DEF RestTypes
    <2>4. SearchTypeOK
      BY <2>1, <2>2, <2>3 DEF Types, RestTypes, SearchTypeOK
    <2> QED
      BY <2>4 DEF TypeOK, LocalInv, RestTypes
  <1> QED
    BY <1>1, OwnHolds, LocalHolds, RestInit, RestStep, PTL DEF Spec

-----------------------------------------------------------------------------
(* No search is left without an answer *)

(* The job of a search is under way: the daemon is busy with it, or its signal
   waits to be handled. *)
UnderWay(r) == \E job \in jobs \cup ToSet(signals) : job.job = r

(* A search that was made and not answered waits for its reply or for its
   signal, and one that waits for its signal has a job that is under way, unless
   that died with the daemon. *)
ComesInv ==
  /\ reply # Nothing => calling.waits = "search"
  /\ reply = "job" => calling.request \in lost \/ UnderWay(calling.request)
  /\ open =>
       \A r \in Requests :
         /\ Waiting(r) => r \in lost \/ UnderWay(r)
         /\ wants[r] # Unborn /\ answered[r] = 0 => calling.request = r \/ Waiting(r)

(* Nothing is under way: no call blocks, the daemon has no job, every signal was
   handled. *)
Quiet == open /\ calling = NoCall /\ jobs = {} /\ signals = <<>>

AllAnswered == \A r \in Requests : wants[r] # Unborn => answered[r] > 0 \/ r \in lost

QuietIsAnswered == Quiet => AllAnswered

(* What taking and pushing do not take away. *)
LEMMA PushedKeeps ==
  ASSUME searches \in Seq(Requests), NEW r \in Requests, search_push(r)
  PROVE  Waiting(r)' /\ \A q : Waiting(q) => Waiting(q)'
  <1>1. /\ DOMAIN searches' = 1 .. Len(searches) + 1 /\ DOMAIN searches = 1 .. Len(searches)
        /\ Len(searches) \in Nat /\ searches'[1] = r
        /\ \A i \in 1 .. Len(searches) : searches'[i + 1] = searches[i]
    BY DEF search_push
  <1>2. 1 \in DOMAIN searches' /\ \A i \in DOMAIN searches : i + 1 \in DOMAIN searches'
    BY <1>1
  <1> QED
    BY <1>1, <1>2 DEF Waiting

LEMMA TakenKeeps ==
  ASSUME searches \in Seq(Requests), NEW job,
         \E i \in DOMAIN searches : searches[i] = job,
         \A i, j \in DOMAIN searches : searches[i] = searches[j] => i = j,
         searches' = search_take(job).rest
  PROVE  \A r : r # job /\ Waiting(r) => Waiting(r)'
  <1>1. PICK n \in DOMAIN searches : {k \in DOMAIN searches : searches[k] = job} = {n}
    OBVIOUS
  <1>2. n \in 1 .. Len(searches) /\ Len(searches) \in Nat /\ searches[n] = job
        /\ DOMAIN searches = 1 .. Len(searches)
    BY <1>1
  <1>3. Min({k \in DOMAIN searches : searches[k] = job}) = n
    BY <1>1, <1>2 DEF Min
  <1>4. searches' = RemoveAt(searches, n)
    BY <1>3 DEF search_take
  <1>5. /\ DOMAIN searches' = 1 .. Len(searches) - 1
        /\ \A i \in 1 .. n - 1 : searches'[i] = searches[i]
        /\ \A i \in n .. Len(searches) - 1 : searches'[i] = searches[i + 1]
    <2>1. n \in 1 .. Len(searches)
      BY <1>2
    <2>2. /\ RemoveAt(searches, n) \in Seq(Requests)
          /\ Len(RemoveAt(searches, n)) = Len(searches) - 1
          /\ \A i \in 1 .. n - 1 : RemoveAt(searches, n)[i] = searches[i]
          /\ \A i \in n .. Len(searches) - 1 : RemoveAt(searches, n)[i] = searches[i + 1]
      BY <2>1, Removed
    <2> QED
      BY <1>4, <2>2
  <1>6. ASSUME NEW k \in DOMAIN searches, k # n
        PROVE  \E i \in DOMAIN searches' : searches'[i] = searches[k]
    <2>1. CASE k < n
      BY <1>2, <1>5, <2>1
    <2>2. CASE k > n
      <3>1. k - 1 \in n .. Len(searches) - 1 /\ k - 1 \in DOMAIN searches' /\ k - 1 + 1 = k
        BY <1>2, <1>5, <2>2
      <3> QED
        BY <1>5, <3>1
    <2> QED
      BY <1>2, <1>6, <2>1, <2>2
  <1> QED
    BY <1>2, <1>6 DEF Waiting

LEMMA HeadAndTail ==
  ASSUME NEW S, NEW s \in Seq(S), s # <<>>
  PROVE  ToSet(s) \subseteq {Head(s)} \cup ToSet(Tail(s))
  <1>1. /\ Len(s) \in Nat \ {0} /\ DOMAIN s = 1 .. Len(s) /\ Head(s) = s[1]
        /\ DOMAIN Tail(s) = 1 .. Len(s) - 1
        /\ \A i \in 1 .. Len(s) - 1 : Tail(s)[i] = s[i + 1]
    OBVIOUS
  <1>2. ASSUME NEW i \in DOMAIN s, i # 1
        PROVE  i - 1 \in DOMAIN Tail(s) /\ Tail(s)[i - 1] = s[i]
    <2>1. i - 1 \in 1 .. Len(s) - 1 /\ i - 1 + 1 = i
      BY <1>1, <1>2
    <2> QED
      BY <1>1, <2>1
  <1>3. ASSUME NEW i \in DOMAIN s PROVE s[i] \in {Head(s)} \cup ToSet(Tail(s))
    BY <1>1, <1>2 DEF ToSet
  <1> QED
    BY <1>3 DEF ToSet

(* The daemon may bring a job on, lose it, or reply to the call that blocks. *)
LEMMA ComesOn ==
  ASSUME ComesInv, UNCHANGED <<open, wants, calling, searches, answered>>,
         \A r \in Requests \cup {calling.request} :
           r \in lost \/ UnderWay(r) => r \in lost' \/ UnderWay(r)',
         reply' # reply => calling.waits = "search",
         reply' # reply /\ reply' = "job" => UnderWay(calling.request)'
  PROVE  ComesInv'
  <1>1. \A r : Waiting(r)' <=> Waiting(r)
    BY DEF Waiting
  <1>2. (reply # Nothing => calling.waits = "search")'
    BY DEF ComesInv
  <1>3. reply' = "job" => calling.request \in lost' \/ UnderWay(calling.request)'
    BY DEF ComesInv
  <1> QED
    BY <1>1, <1>2, <1>3 DEF ComesInv

LEMMA ComesSearch ==
  ASSUME OnceInv, ComesInv, NEW r \in Requests, NEW repos \in Queries, linyaps_search(r, repos)
  PROVE  ComesInv'
  <1>1. /\ calling = NoCall /\ wants' = [wants EXCEPT ![r] = repos]
        /\ UNCHANGED <<open, reply, searches, jobs, signals, lost>>
    BY DEF linyaps_search
  <1>2. reply' = Nothing /\ Nothing # "job"
    BY <1>1, RequestsAssumption DEF ComesInv, NoCall
  <1>3. \A q : /\ Waiting(q)' <=> Waiting(q)
               /\ UnderWay(q)' <=> UnderWay(q)
    BY <1>1 DEF Waiting, UnderWay
  <1>4. \A q \in Requests : q # r => wants'[q] = wants[q]
    BY <1>1 DEF OnceInv, Types
  <1>5. calling.request \notin Requests
    BY <1>1, RequestsAssumption DEF NoCall
  <1>6. CASE Fail(r)
    <2>1. answered' = [answered EXCEPT ![r] = @ + 1]
      BY <1>6 DEF Fail, Answer
    <2>2. answered'[r] # 0 /\ \A q \in Requests : q # r => answered'[q] = answered[q]
      BY <2>1 DEF OnceInv, Types
    <2> QED
      BY <1>1, <1>2, <1>3, <1>4, <1>5, <2>2 DEF ComesInv
  <1>7. CASE Silent /\ calling'.request = r
    <2>1. answered' = answered
      BY <1>7 DEF Silent
    <2> QED
      BY <1>1, <1>2, <1>3, <1>4, <1>5, <1>7, <2>1 DEF ComesInv
  <1> QED
    BY <1>6, <1>7 DEF linyaps_search, Ask

LEMMA ComesConfiguration ==
  ASSUME ComesInv, NEW configuration, ConfigurationRead(configuration)
  PROVE  ComesInv'
  <1>1. /\ calling.waits = "configuration" /\ calling'.request = calling.request
        /\ UNCHANGED <<open, wants, reply, searches, jobs, signals, lost, answered>>
    BY DEF ConfigurationRead, Ask, Silent
  <1>2. reply' = Nothing /\ Nothing # "job"
    BY <1>1, RequestsAssumption DEF ComesInv
  <1>3. \A q : /\ Waiting(q)' <=> Waiting(q)
               /\ UnderWay(q)' <=> UnderWay(q)
    BY <1>1 DEF Waiting, UnderWay
  <1> QED
    BY <1>1, <1>2, <1>3 DEF ComesInv

LEMMA ComesReturns ==
  ASSUME OnceInv, ComesInv, SearchReturns \/ SearchFails
  PROVE  ComesInv'
  <1> PICK r : r = calling.request
    OBVIOUS
  <1>1. /\ calling.waits = "search" /\ calling' = NoCall /\ reply' = Nothing
        /\ UNCHANGED <<open, wants, jobs, signals, lost>>
    BY DEF SearchReturns, SearchFails
  <1>2. r \in Requests /\ Nothing # "job"
    BY <1>1, RequestsAssumption DEF OnceInv, Types, NoCall
  <1>3. \A q : UnderWay(q)' <=> UnderWay(q)
    BY <1>1 DEF UnderWay
  <1>4. CASE Fail(r) /\ UNCHANGED searches
    <2>1. answered' = [answered EXCEPT ![r] = @ + 1]
      BY <1>4 DEF Fail, Answer
    <2>2. answered'[r] # 0 /\ \A q \in Requests : q # r => answered'[q] = answered[q]
      BY <1>2, <2>1 DEF OnceInv, Types
    <2>3. \A q : Waiting(q)' <=> Waiting(q)
      BY <1>4 DEF Waiting
    <2> QED
      BY <1>1, <1>2, <1>3, <2>2, <2>3 DEF ComesInv
  <1>5. CASE reply = "job" /\ search_push(r) /\ Silent
    <2>1. answered' = answered
      BY <1>5 DEF Silent
    <2>2. searches \in Seq(Requests)
      BY DEF OnceInv, Types
    <2>3. Waiting(r)' /\ \A q : Waiting(q) => Waiting(q)'
      BY <1>2, <1>5, <2>2, PushedKeeps
    <2>4. \A q \in Requests : q # r /\ Waiting(q)' => Waiting(q)
      <3>1. \A i \in DOMAIN searches' : i # 1 =>
              i - 1 \in DOMAIN searches /\ searches'[i] = searches[i - 1]
        BY <1>2, <1>5, <2>2, Pushed
      <3>2. searches'[1] = r
        BY <1>2, <1>5, <2>2, Pushed
      <3> QED
        BY <3>1, <3>2 DEF Waiting
    <2>5. r \in lost \/ UnderWay(r)
      BY <1>5 DEF ComesInv
    <2> QED
      BY <1>1, <1>2, <1>3, <2>1, <2>3, <2>4, <2>5 DEF ComesInv
  <1> QED
    BY <1>4, <1>5 DEF SearchReturns, SearchFails

LEMMA ComesFinished ==
  ASSUME OwnInv, ComesInv, on_search_finished
  PROVE  ComesInv'
  <1>1. /\ signals # <<>> /\ signals' = Tail(signals) /\ calling = NoCall
        /\ UNCHANGED <<open, wants, calling, reply, jobs, lost>>
    BY DEF on_search_finished
  <1>2. reply' = Nothing /\ Nothing # "job"
    BY <1>1, RequestsAssumption DEF ComesInv, NoCall
  <1>3. PICK j : j = Head(signals).job
    OBVIOUS
  <1>4. PICK S : signals \in Seq(S)
    BY DEF OwnInv
  <1>5. \A q : q # j /\ UnderWay(q) => UnderWay(q)'
    <2>1. ToSet(signals) \subseteq {Head(signals)} \cup ToSet(signals')
      BY <1>1, <1>4, HeadAndTail
    <2> QED
      BY <1>1, <1>3, <2>1 DEF UnderWay
  <1>6. searches \in Seq(Requests) /\ answered \in [Requests -> Nat]
    BY DEF OwnInv, OnceInv, Types
  <1>7. CASE Waiting(j)
    <2>1. \A i, k \in DOMAIN searches : searches[i] = searches[k] => i = k
      BY DEF OwnInv, OnceInv, AnsweredOnce
    <2>2. searches' = search_take(j).rest
      BY <1>3, <1>7 DEF on_search_finished, Waiting
    <2>3. \E i \in DOMAIN searches : searches[i] = j
      BY <1>7 DEF Waiting
    <2>4. /\ search_take(j).request = j /\ ~Waiting(j)'
          /\ \A q \in Requests : Waiting(q)' => Waiting(q)
      BY <1>6, <2>1, <2>2, <2>3, Taken
    <2>5. \A q : q # j /\ Waiting(q) => Waiting(q)'
      BY <1>6, <2>1, <2>2, <2>3, TakenKeeps
    <2>6. answered' = [answered EXCEPT ![j] = @ + 1]
      BY <1>3, <2>3, <2>4 DEF on_search_finished, Report, Answer
    <2>7. j \in Requests
      BY <1>6, <2>3
    <2>8. answered'[j] # 0 /\ \A q \in Requests : q # j => answered'[q] = answered[q]
      BY <1>6, <2>6, <2>7
    <2> QED
      BY <1>1, <1>2, <1>5, <2>4, <2>5, <2>8 DEF ComesInv
  <1>8. CASE ~Waiting(j)
    <2>1. Silent /\ UNCHANGED searches
      BY <1>3, <1>8 DEF on_search_finished, Waiting
    <2>2. answered' = answered /\ \A q : Waiting(q)' <=> Waiting(q)
      BY <2>1 DEF Silent, Waiting
    <2> QED
      BY <1>1, <1>2, <1>5, <1>8, <2>2 DEF ComesInv
  <1> QED
    BY <1>7, <1>8

LEMMA ComesDaemon ==
  ASSUME OwnInv, ComesInv, Daemon
  PROVE  ComesInv'
  <1>1. UNCHANGED <<open, wants, calling, searches, answered>>
    BY DEF Daemon, Looks, Finishes, Dies, Silent
  <1>2. ASSUME NEW call \in inbox, Looks(call)
        PROVE  ComesInv'
    <2>1. PICK answer \in Replies :
            /\ jobs' = IF answer = "job" THEN jobs \cup {call} ELSE jobs
            /\ reply' = IF calling = [request |-> call.job, waits |-> "search"]
                        THEN answer ELSE reply
      BY <1>2 DEF Looks
    <2>2. UNCHANGED <<signals, lost>>
      BY <1>2 DEF Looks
    <2>3. \A r : UnderWay(r) => UnderWay(r)'
      BY <2>1, <2>2 DEF UnderWay
    <2>4. reply' # reply => calling.waits = "search" /\ calling.request = call.job
      BY <2>1
    <2>5. ASSUME reply' # reply, reply' = "job" PROVE UnderWay(calling.request)'
      <3>1. answer = "job"
        BY <2>1, <2>5
      <3>2. call \in jobs'
        BY <2>1, <3>1
      <3> QED
        BY <1>1, <2>4, <2>5, <3>2 DEF UnderWay
    <2> QED
      BY <1>1, <2>2, <2>3, <2>4, <2>5, ComesOn
  <1>3. ASSUME NEW job \in jobs, Finishes(job)
        PROVE  ComesInv'
    <2>1. jobs' = jobs \ {job} /\ signals' = Append(signals, job) /\ UNCHANGED <<reply, lost>>
      BY <1>3 DEF Finishes
    <2>2. PICK S : signals \in Seq(S)
      BY DEF OwnInv
    <2>3. ToSet(signals') = ToSet(signals) \cup {job}
      BY <2>1, <2>2, SignalFacts
    <2>4. \A r : UnderWay(r) => UnderWay(r)'
      BY <2>1, <2>3 DEF UnderWay
    <2> QED
      BY <1>1, <2>1, <2>4, ComesOn
  <1>4. CASE Dies
    <2>1. /\ lost' = lost \cup ({job.job : job \in jobs} \cap Requests)
          /\ UNCHANGED <<reply, signals>>
      BY <1>4 DEF Dies
    <2>2. \A r \in Requests : r \in lost \/ UnderWay(r) => r \in lost' \/ UnderWay(r)'
      BY <2>1 DEF UnderWay
    <2>3. reply = "job" => calling.request \in Requests
      BY RequestsAssumption DEF ComesInv, OwnInv, OnceInv, Types, NoCall
    <2>4. \A r : Waiting(r)' <=> Waiting(r)
      BY <1>1 DEF Waiting
    <2> QED
      BY <1>1, <2>1, <2>2, <2>3, <2>4 DEF ComesInv
  <1> QED
    BY <1>2, <1>3, <1>4 DEF Daemon

LEMMA ComesInit == Init => ComesInv
  BY RequestsAssumption DEF Init, SearchInit, ComesInv, Waiting

LEMMA ComesStep == OwnInv /\ ComesInv /\ [Next]_vars => ComesInv'
  <1> SUFFICES ASSUME OwnInv, ComesInv, [Next]_vars PROVE ComesInv'
    OBVIOUS
  <1>1. OnceInv
    BY DEF OwnInv
  <1>2. CASE UNCHANGED searchVars
    BY <1>2 DEF searchVars, ComesInv, Waiting, UnderWay
  <1>3. CASE SearchNext
    <2>1. CASE linyaps_context_free
      <3>1. open' = FALSE /\ calling = NoCall /\ reply' = reply
        BY <2>1 DEF linyaps_context_free
      <3>2. reply' = Nothing /\ Nothing # "job"
        BY <3>1, RequestsAssumption DEF ComesInv, NoCall
      <3> QED
        BY <3>1, <3>2 DEF ComesInv
    <2> QED
      BY <1>1, <1>3, <2>1, ComesSearch, ComesConfiguration, ComesReturns, ComesFinished, ComesDaemon
      DEF SearchNext, Library
  <1> QED
    BY <1>2, <1>3 DEF Next, vars

(* When nothing is under way any more every search that was made was answered,
   unless its job died with the daemon: the safety that EverySearchAnswered rests
   on. *)
THEOREM QuietSearchesAnswered == Spec => []QuietIsAnswered
  <1>1. OwnInv /\ ComesInv => QuietIsAnswered
    <2> SUFFICES ASSUME OwnInv, ComesInv, Quiet, NEW r \in Requests, wants[r] # Unborn
                 PROVE  answered[r] > 0 \/ r \in lost
      BY DEF QuietIsAnswered, AllAnswered
    <2>1. open /\ calling.request \notin Requests
      BY RequestsAssumption DEF Quiet, NoCall
    <2>2. ~UnderWay(r)
      <3>1. jobs = {} /\ ToSet(signals) = {}
        BY DEF Quiet, ToSet
      <3> QED
        BY <3>1 DEF UnderWay
    <2>3. answered[r] \in Nat
      BY DEF OwnInv, OnceInv, Types
    <2>4. answered[r] = 0 => r \in lost
      BY <2>1, <2>2 DEF ComesInv
    <2> QED
      BY <2>3, <2>4
  <1>2. Init => OwnInv /\ ComesInv
    BY OwnInit, ComesInit
  <1>3. OwnInv /\ ComesInv /\ [Next]_vars => OwnInv' /\ ComesInv'
    BY OwnStep, ComesStep
  <1> QED
    BY <1>1, <1>2, <1>3, PTL DEF Spec
=============================================================================
