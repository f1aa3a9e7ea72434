----------------------------- MODULE MCIdTables -----------------------------
(* Ids that all meet in a table of two slots, and in the larger ones from two
   sides of its end, and two package lists: one with an id twice and a package
   without an id, one that makes a table grow. *)
EXTENDS IdTables

CONSTANTS a, b, c, d, v

Package(k, x) == [id |-> k, version |-> x]

MCLists ==
  {<<Package(a, v), Package(NoKey, v), Package(b, NoValue), Package(a, v)>>,
   <<Package(c, v), Package(b, v), Package(d, v)>>}
=============================================================================
