--------------------------- MODULE MCJobsAndWalks ---------------------------
(***************************************************************************)
(* JobQueue and Pagination side by side.  They share no state, so a safety *)
(* property of one of them holds in every interleaving if it holds while   *)
(* the other stays in an initial state; of those of Pagination one will do.*)
(***************************************************************************)
EXTENDS JobQueue, Pagination, TLC

\* Every runner has a handler for every kind.
AllHandle == [w \in Workers |-> Jobs]

Symmetry == {f @@ g : f \in Permutations(Workers), g \in Permutations(Jobs)}

BothInit == Init /\ WalkInit

BothNext ==
    \/ WalkInit /\ listing = "users" /\ Next /\ UNCHANGED pagingVars
    \/ Init /\ WalkNext /\ UNCHANGED vars

SideBySide == BothInit /\ [][BothNext]_<<vars, pagingVars>>
=============================================================================
