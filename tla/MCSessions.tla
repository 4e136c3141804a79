----------------------------- MODULE MCSessions -----------------------------
(* Constants of Sessions for TLC. *)
EXTENDS Sessions, TLC

MCGrants == {{}, {ChannelsManage}, {TenantsManageAll}}
Symmetry == Permutations(Requests) \cup Permutations(Orgs) \cup Permutations(Data)
=============================================================================
