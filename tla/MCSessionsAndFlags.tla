------------------------- MODULE MCSessionsAndFlags -------------------------
(***************************************************************************)
(* Sessions and FeatureCache side by side.  They share no state, so a      *)
(* safety property of one of them holds in every interleaving if it holds  *)
(* while the other stays in its initial state.                             *)
(***************************************************************************)
EXTENDS MCSessions, MCFeatureCache

BothInit == Init /\ FlagInit

BothNext ==
    \/ FlagInit /\ Next /\ UNCHANGED flagVars
    \/ Init /\ FlagNext /\ UNCHANGED vars

SideBySide == BothInit /\ [][BothNext]_<<vars, flagVars>>
=============================================================================
