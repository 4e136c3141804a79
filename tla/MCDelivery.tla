----------------------------- MODULE MCDelivery -----------------------------
(***************************************************************************)
(* OutboxRelay and AuditTrail side by side.  They share no state, so a     *)
(* property of one of them holds in every interleaving if it holds while   *)
(* the other stays in its initial state.  The fairness is that of FairSpec *)
(* and of FairAuditSpec, each for the side that moves.                     *)
(***************************************************************************)
EXTENDS OutboxRelay, AuditTrail, TLC

both == <<vars, auditVars>>

\* The outbox, or the audit trail, takes step A and the other one has not begun.
Outbox(A) == AuditInit /\ A /\ UNCHANGED auditVars
Audit(A) == Init /\ A /\ UNCHANGED vars

DeliveryInit == Init /\ AuditInit
DeliveryNext == Outbox(Next) \/ Audit(AuditNext)

SideBySide ==
    /\ DeliveryInit
    /\ [][DeliveryNext]_both
    /\ \A r \in Relayers :
          WF_both(Outbox(RelayerStep(r))) /\ WF_both(Outbox(ServerRollback(r)))
    /\ \A r \in Stable : WF_both(Outbox(spawn(r)))
    /\ \A e \in AuditEvents : WF_both(Audit(Change(e) \/ record(e) \/ Abandon(e)))
    /\ WF_both(Audit(WorkerStep))
    /\ WF_both(Audit(ServeReturns)) /\ WF_both(Audit(Stop))
=============================================================================
