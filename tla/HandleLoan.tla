----------------------------- MODULE HandleLoan -----------------------------
(* What http_post_json relies on: while a thread works with a curl handle,   *)
(* nobody else does. Where the handle comes from is left open.               *)
EXTENDS Naturals

CONSTANTS Threads, Handles, None

VARIABLE using   \* the handle each thread works with, or None

Init == using = [t \in Threads |-> None]

Borrow(t) ==
  /\ using[t] = None
  /\ \E h \in Handles :
       /\ \A u \in Threads : using[u] # h
       /\ using' = [using EXCEPT ![t] = h]

Return(t) ==
  /\ using[t] # None
  /\ using' = [using EXCEPT ![t] = None]

Next == \E t \in Threads : Borrow(t) \/ Return(t)

Spec == Init /\ [][Next]_using
=============================================================================
