------------------------- MODULE RequestLifecycle -------------------------
(***************************************************************************)
(* What the library promises the caller of linyaps_install,                *)
(* linyaps_uninstall and linyaps_update about one progress callback: the   *)
(* request waits, may become bound to a task, and is over exactly once.    *)
(* The callback is called with task states only while the request is       *)
(* bound, it is called at least once before or when the request is over,   *)
(* and never afterwards.  A request the library gives up hears Failed as   *)
(* its last word.                                                          *)
(***************************************************************************)
EXTENDS Sequences

CONSTANTS
  Requests,  \* the requests a client makes
  States     \* what a callback may be told; contains "Failed"

VARIABLES
  phase,     \* "new", "waiting", "bound" or "over"
  told       \* every state each callback was called with

vars == <<phase, told>>

Init ==
  /\ phase = [o \in Requests |-> "new"]
  /\ told = [o \in Requests |-> <<>>]

Moves(o, from, to) ==
  /\ phase[o] \in from
  /\ phase' = [phase EXCEPT ![o] = to]

Hears(o, s) == told' = [told EXCEPT ![o] = Append(@, s)]

Submit(o) == Moves(o, {"new"}, "waiting") /\ UNCHANGED told

Bind(o) == Moves(o, {"waiting"}, "bound") /\ UNCHANGED told

Report(o, s) == Moves(o, {"bound"}, "bound") /\ Hears(o, s)

Finish(o, s) == Moves(o, {"bound"}, "over") /\ Hears(o, s)

GiveUp(o) == Moves(o, {"new", "waiting", "bound"}, "over") /\ Hears(o, "Failed")

Next == \E o \in Requests :
  \/ Submit(o)
  \/ Bind(o)
  \/ GiveUp(o)
  \/ \E s \in States : Report(o, s) \/ Finish(o, s)

Spec == Init /\ [][Next]_vars

=============================================================================
