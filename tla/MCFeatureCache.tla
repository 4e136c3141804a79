--------------------------- MODULE MCFeatureCache ---------------------------
(* Instances of FeatureCache for TLC: the requests of one node.  A handler   *)
(* that is dropped between its write and its invalidate leaves this node     *)
(* what a write on another node does.                                        *)
EXTENDS FeatureCache

CONSTANT n1

OneNode == [r \in Calls |-> n1]
=============================================================================
