----------------------------- MODULE MCJobQueue -----------------------------
(* An instance of JobQueue for TLC: one runner registers every kind, the other *)
(* one the kind of j1 only.                                                    *)
EXTENDS JobQueue, TLC

CONSTANTS w1, j1

FirstHandles == [w \in Workers |-> IF w = w1 THEN Jobs ELSE {j1}]
=============================================================================
