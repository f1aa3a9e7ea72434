---------------------------- MODULE SearchFilter ----------------------------
(***************************************************************************)
(* What lib/linyaps_dbus_msg.c does with the packages of a search before   *)
(* the callback sees them: one is kept of each (repo, id, module), the     *)
(* newest.                                                                 *)
(***************************************************************************)
EXTENDS Integers, SequencesExt

CONSTANTS
  Packages,    \* records with a repo, an id, a module and a version
  NoVersion,   \* NULL
  Develop      \* the module of development files

(* A version is the numbers in its string and the place of the string in the
   order of strcmp. *)
VersionRecords == [numbers : Seq(Nat), text : Int]

ASSUME PackagesAssumption ==
  /\ NoVersion \notin VersionRecords
  /\ \A p \in Packages : p.version \in VersionRecords \cup {NoVersion}

Differing(a, b) ==
  {i \in DOMAIN a.numbers \cap DOMAIN b.numbers : a.numbers[i] # b.numbers[i]}

OlderAsText(a, b) ==
  \/ a = NoVersion /\ b # NoVersion
  \/ a # NoVersion /\ b # NoVersion /\ a.text < b.text

(* compare_versions(a, b) < 0: the first number that differs decides, and the
   whole strings when one version runs out of numbers. *)
Older(a, b) ==
  \/ a = NoVersion /\ b # NoVersion
  \/ /\ a # NoVersion /\ b # NoVersion
     /\ IF Differing(a, b) = {} THEN a.text < b.text
        ELSE LET i == Min(Differing(a, b)) IN a.numbers[i] < b.numbers[i]

(* Strings with the same numbers and different text can be older than each
   other in a circle ("1.2" < "1-3" < "1-x" < "1.2"). The properties are about
   results without such a circle, as the dotted numbers of linyaps give. *)
ASSUME NoCircleAssumption ==
  \A p, q, r \in Packages :
    /\ Older(p.version, q.version) /\ Older(q.version, r.version)
         => Older(p.version, r.version)
    /\ ~Older(p.version, q.version) /\ ~Older(q.version, r.version)
         => ~Older(p.version, r.version)

same_package_slot(p, q) == p.repo = q.repo /\ p.id = q.id /\ p.module = q.module

(* One turn of the loop: what is kept so far and the next package. *)
Keep(kept, package) ==
  LET same == {i \in DOMAIN kept : same_package_slot(kept[i], package)}
  IN  IF package.module = Develop THEN kept
      ELSE IF same = {} THEN Append(kept, package)
      ELSE LET i == Min(same)
           IN  IF Older(kept[i].version, package.version)
               THEN [kept EXCEPT ![i] = package] ELSE kept

filter_store_search_results(packages) ==
  LET kept[n \in 0 .. Len(packages)] ==
        IF n = 0 THEN <<>> ELSE Keep(kept[n - 1], packages[n])
  IN  kept[Len(packages)]

(* What newer means: later in the first number that is not the same, or in the
   text after the same numbers. *)
SameNumbersBefore(a, b, i) == \A k \in 1 .. i - 1 : a.numbers[k] = b.numbers[k]

IsNewer(a, b) ==
  /\ a # NoVersion
  /\ \/ b = NoVersion
     \/ \E i \in DOMAIN a.numbers \cap DOMAIN b.numbers :
          SameNumbersBefore(a, b, i) /\ a.numbers[i] > b.numbers[i]
     \/ /\ \A i \in DOMAIN a.numbers \cap DOMAIN b.numbers : a.numbers[i] = b.numbers[i]
        /\ a.text > b.text

(* What the filter promises: of each slot that is not for development one
   package, none of the slot is newer, and the slots stay in the order in
   which the daemon found them. *)
FirstOf(packages, package) ==
  Min({i \in DOMAIN packages : same_package_slot(packages[i], package)})

IsNewestOfEach(kept, packages) ==
  /\ \A i \in DOMAIN packages :
       packages[i].module # Develop =>
         \E j \in DOMAIN kept : same_package_slot(kept[j], packages[i])
  /\ \A j \in DOMAIN kept :
       /\ kept[j].module # Develop
       /\ \E i \in DOMAIN packages : packages[i] = kept[j]
       /\ \A i \in DOMAIN packages :
            same_package_slot(packages[i], kept[j]) =>
              ~IsNewer(packages[i].version, kept[j].version)
  /\ \A i, j \in DOMAIN kept :
       i < j => FirstOf(packages, kept[i]) < FirstOf(packages, kept[j])
=============================================================================
