--------------------------- MODULE MCTaskTracker ---------------------------
(***************************************************************************)
(* TaskTracker on small instances.  The requests are interchangeable when  *)
(* all or none of them ask for confirmation; the runs that check liveness  *)
(* do without the symmetry.                                                *)
(***************************************************************************)
EXTENDS TaskTracker, TLC

Symmetry == Permutations(Ops)

=============================================================================
