---------------------------- MODULE EventDelivery ----------------------------
(***************************************************************************)
(* What the transactional outbox promises its users, without relayers,     *)
(* transactions or locks: an event is published when the domain change it  *)
(* belongs to commits, and every published event becomes exactly one job.  *)
(***************************************************************************)
CONSTANT Events

VARIABLE fate   \* [Events -> {"none", "published", "queued"}]

Init == fate = [e \in Events |-> "none"]

\* The transaction that appended e commits.
Publish(e) ==
    /\ fate[e] = "none"
    /\ fate' = [fate EXCEPT ![e] = "published"]

\* A batch of published events becomes visible in the jobs table, all at once.
Queue(B) ==
    /\ B # {}
    /\ \A e \in B : fate[e] = "published"
    /\ fate' = [e \in Events |-> IF e \in B THEN "queued" ELSE fate[e]]

Next ==
    \/ \E e \in Events : Publish(e)
    \/ \E B \in SUBSET Events : Queue(B)

Spec == Init /\ [][Next]_fate
=============================================================================
