----------------------------- MODULE Dictionary -----------------------------
(***************************************************************************)
(* What ui/id_set.c and ui/id_map.c promise: a dictionary. An insertion    *)
(* puts one key and disturbs no other, and nothing but an emptying takes a *)
(* key out.                                                                *)
(***************************************************************************)
CONSTANTS Keys, AllValues

VARIABLE dict     \* a set of pairs <<key, value>>

Put(k, v) == dict' = {pair \in dict : pair[1] # k} \cup {<<k, v>>}

Empty == dict' = {}

Spec ==
  /\ dict = {}
  /\ [][Empty \/ \E k \in Keys : \E v \in AllValues : Put(k, v)]_dict
=============================================================================
