---------------------------- MODULE PackageQueries ----------------------------
(***************************************************************************)
(* The two ways lib/ answers questions about packages: searches, through   *)
(* the daemon, and the installed packages, from its states file. They      *)
(* share no state, so a behaviour is one of either with the other at rest. *)
(***************************************************************************)
EXTENDS SearchOps, LocalList

VARIABLE part     \* which of the two this behaviour is about

vars == <<part, searchVars, localVars>>

Init == part \in {"searches", "local"} /\ SearchInit /\ LocalInit

Next ==
  /\ UNCHANGED part
  /\ \/ part = "searches" /\ SearchNext /\ UNCHANGED localVars
     \/ part = "local" /\ LocalNext /\ UNCHANGED searchVars

(* A blocking call returns, by its time limit if by nothing else; the loop of
   the program calls linyaps_process again and again; a daemon that lives
   finishes the jobs it began. The daemon need not look at a call. *)
Fairness ==
  /\ WF_vars(part = "searches" /\ Library /\ UNCHANGED <<part, localVars>>)
  /\ \A r \in Requests :
       WF_vars(/\ part = "searches"
               /\ open /\ \E job \in jobs : job.job = r /\ Finishes(job)
               /\ UNCHANGED <<part, localVars>>)

Spec == Init /\ [][Next]_vars /\ Fairness

TypeOK == part \in {"searches", "local"} /\ SearchTypeOK /\ LocalTypeOK
=============================================================================
