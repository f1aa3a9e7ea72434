------------------------------ MODULE LocalList ------------------------------
(***************************************************************************)
(* The installed packages, lib/linyaps_local.c: linyaps_list_installed and *)
(* linyaps_info read the states file of the daemon, which may change it    *)
(* meanwhile, and fall back to the command ll-cli.                         *)
(***************************************************************************)
EXTENDS Integers, SequencesExt

CONSTANTS
  Ids, SafeIds,    \* ids one may ask for, and those with safe characters only
  Documents,       \* what the states file can hold
  Empty, Garbage,  \* documents: no bytes, and bytes that are no JSON
  Mixtures,        \* what one can read that is made of the bytes of several documents
  Missing,         \* no file
  Current,         \* in fd: the states file itself
  Absent,          \* NULL, and a field that is missing
  Local,           \* "local"
  MaxWrites        \* bound: changes of the states file

(* A document is an object with layers, an array, or something else; it has a
   length in bytes and the infos in it, each of a layer. The kind "runtime"
   stands for every string but "app". *)
Contents == Documents \cup {Empty, Garbage}
Readable == Contents \cup Mixtures

ASSUME DocumentsAssumption ==
  /\ SafeIds \subseteq Ids /\ Ids \cap {Absent, "list", "none"} = {}
  /\ Contents \cap {Missing, Current} = {} /\ Missing # Current
  /\ \A d \in Contents : d.length \in Nat /\ (d.length = 0 <=> d = Empty)
  /\ \A d \in Readable : d.layers \in Seq(ToSet(d.layers))
  /\ \A d \in Readable : \A layer \in ToSet(d.layers) :
       layer.id \in Ids \cup {Absent} /\ layer.kind \in {"app", "runtime", Absent}
  /\ Absent # "runtime"
  /\ {Empty.shape, Garbage.shape} \cap {"layers", "array"} = {}
  /\ MaxWrites \in Nat

VARIABLES
  file,      \* the states file, or Missing
  writes,    \* changes so far
  ask,       \* "list", the id linyaps_info is asked for, or "none"
  at,        \* "idle", "opened", "measured" or "command"
  fd,        \* Current, or what is left of a file that was replaced
  size,      \* file_size
  torn,      \* the open file was written over after it was measured
  seen,      \* history: what the file was during the call
  printed,   \* history: the list ll-cli printed in the call, Garbage if it failed
  result     \* of the last call

localVars == <<file, writes, ask, at, fd, size, torn, seen, printed, result>>

LocalInit ==
  /\ file \in Documents \cup {Empty, Missing}
  /\ writes = 0
  /\ ask = "none" /\ at = "idle" /\ fd = Current /\ size = 0
  /\ torn = FALSE /\ seen = {} /\ printed = {} /\ result = <<>>

-----------------------------------------------------------------------------
(* Parsing *)

(* package_info_from_json_object: an object without an id is no package. *)
Package(layer) ==
  [id |-> layer.id, repo |-> IF layer.repo = Absent THEN Local ELSE layer.repo]

(* Only what says to be something else than an app is skipped. *)
IsApp(layer) == layer.kind \in {"app", Absent} /\ layer.id # Absent

Parse(items, layer) == IF IsApp(layer) THEN Append(items, Package(layer)) ELSE items

parse_states_json(document) ==
  IF document.shape \in {"layers", "array"}
  THEN LET items[n \in 0 .. Len(document.layers)] ==
             IF n = 0 THEN <<>> ELSE Parse(items[n - 1], document.layers[n])
       IN  items[Len(document.layers)]
  ELSE <<>>

(* linyaps_info looks in the layers of an object, whatever their kind. *)
Find(document, id) ==
  IF document.shape # "layers" THEN <<>>
  ELSE LET places == {i \in DOMAIN document.layers : document.layers[i].id = id}
       IN  IF places = {} THEN <<>> ELSE <<Package(document.layers[Min(places)])>>

-----------------------------------------------------------------------------
(* The call, cut where the file can change *)

Held == IF fd = Current THEN file ELSE fd

Begin(what) ==
  /\ at = "idle"
  /\ ask' = what
  /\ fd' = Current /\ size' = 0 /\ torn' = FALSE
  /\ at' = IF file = Missing THEN "command" ELSE "opened"
  /\ seen' = {file} /\ printed' = {}
  /\ result' = <<>>
  /\ UNCHANGED <<file, writes>>

linyaps_list_installed == Begin("list")

linyaps_info(id) == Begin(id)

MeasuredEmptyToo(length) == length >= 0
Measured(length) == length > 0

(* fseek, ftell: an empty file counts as none. *)
Measure ==
  /\ at = "opened"
  /\ size' = Held.length
  /\ at' = IF Measured(Held.length) THEN "measured" ELSE "command"
  /\ UNCHANGED <<file, writes, ask, fd, torn, seen, printed, result>>

(* fread gives at most the size that was measured, and a document that is cut
   short is no JSON. *)
CutTo(document, length) == IF document.length <= length THEN document ELSE Garbage

(* Variant: the file is opened again after its size was measured. *)
BytesReopened == {CutTo(IF file = Missing THEN Held ELSE file, size)}

(* A file that is written over meanwhile can give anything between its old and
   its new bytes: either document, a part of one, or parts of both, which may
   well be JSON. *)
Bytes == IF torn THEN Readable ELSE {CutTo(Held, size)}

Return(value) == at' = "idle" /\ result' = value

(* A file that is no JSON is no reason to ask ll-cli for the list; a package
   that is not in the file is. *)
Read ==
  /\ at = "measured"
  /\ \E buf \in Bytes :
       IF ask = "list" THEN Return(parse_states_json(buf))
       ELSE IF Find(buf, ask) # <<>> THEN Return(Find(buf, ask))
       ELSE at' = "command" /\ UNCHANGED result
  /\ UNCHANGED <<file, writes, ask, fd, size, torn, seen, printed>>

(* ll-cli list --json prints a list, or fails: then the call returns no package. *)
RunList(output) ==
  /\ at = "command" /\ ask = "list"
  /\ Return(parse_states_json(output))
  /\ printed' = {output}
  /\ UNCHANGED <<file, writes, ask, fd, size, torn, seen>>

(* ll-cli info prints an object for the package, or none. *)
RunInfo(found) ==
  /\ at = "command" /\ ask \in Ids
  /\ Return(IF found /\ ask \in SafeIds
            THEN <<[id |-> ask, repo |-> Local]>> ELSE <<>>)
  /\ UNCHANGED <<file, writes, ask, fd, size, torn, seen, printed>>

-----------------------------------------------------------------------------
(* The daemon *)

Change(document) ==
  /\ writes < MaxWrites /\ writes' = writes + 1
  /\ document # file
  /\ file' = document
  /\ seen' = IF at = "idle" THEN seen ELSE seen \cup {document}
  /\ UNCHANGED <<ask, at, size, printed, result>>

(* By a new file in its place, or by no file: who has the old one open keeps it. *)
Replace(document) ==
  /\ Change(document)
  /\ fd' = IF at \in {"opened", "measured"} THEN Held ELSE fd
  /\ UNCHANGED torn

(* In place, over the old bytes. *)
WriteOver(document) ==
  /\ file # Missing /\ document # Missing
  /\ Change(document)
  /\ torn' = (torn \/ (at = "measured" /\ fd = Current))
  /\ UNCHANGED fd

-----------------------------------------------------------------------------
LocalNext ==
  \/ linyaps_list_installed
  \/ \E id \in Ids : linyaps_info(id)
  \/ Measure \/ Read
  \/ \E output \in Documents \cup {Garbage} : RunList(output)
  \/ \E found \in BOOLEAN : RunInfo(found)
  \/ \E document \in Documents \cup {Missing} : Replace(document)
  \/ \E document \in Contents : WriteOver(document)

-----------------------------------------------------------------------------
LocalTypeOK ==
  /\ file \in Contents \cup {Missing}
  /\ writes \in 0 .. MaxWrites
  /\ ask \in Ids \cup {"list", "none"}
  /\ at \in {"idle", "opened", "measured", "command"}
  /\ fd \in Contents \cup {Current}
  /\ torn \in BOOLEAN
  /\ size \in Nat /\ (at = "measured" => size > 0)
  /\ at \in {"opened", "measured"} => Held # Missing
  /\ printed \subseteq Documents \cup {Garbage}
  /\ \A i \in DOMAIN result : result[i].id \in Ids

ResultIds == {package.id : package \in ToSet(result)}

AppIds(document) ==
  IF document.shape \in {"layers", "array"}
  THEN {layer.id : layer \in {l \in ToSet(document.layers) :
                                l.kind # "runtime" /\ l.id # Absent}}
  ELSE {}

HasId(document, id) ==
  document.shape = "layers" /\ \E i \in DOMAIN document.layers : document.layers[i].id = id

(* The states file is opened once and replaced, removed or written over at any
   point of the call. Unless it was written over after its size was measured, in
   which case what is read may be a mixture:
   - a list is that of what the file was at one moment of the call (none, if that
     was no JSON), or, when at some moment there was no file or an empty one, the
     list ll-cli printed (none, if it failed);
   - a package is as the file listed it at one moment, or, when at some moment it
     did not list it, as ll-cli has it.
   No package is ever returned for another. *)
ResultIsSnapshot ==
  at = "idle" =>
    /\ ask \in Ids => ResultIds \subseteq {ask}
    /\ \/ torn
       \/ ask = "none"
       \/ /\ ask = "list" /\ printed = {}
          /\ \E document \in seen \ {Missing, Empty} : ResultIds = AppIds(document)
       \/ /\ ask = "list" /\ seen \cap {Missing, Empty} # {}
          /\ \E output \in printed : ResultIds = AppIds(output)
       \/ /\ ask \in Ids
          /\ \E document \in seen \ {Missing} :
               HasId(document, ask) /\ result = Find(document, ask)
       \/ /\ ask \in Ids /\ \E document \in seen : document = Missing \/ ~HasId(document, ask)
          /\ result \in {<<>>, <<[id |-> ask, repo |-> Local]>>}
=============================================================================
