----------------------------- MODULE MCApiKeys -----------------------------
(* Constants of ApiKeys for TLC. *)
EXTENDS ApiKeys, TLC

CONSTANTS p, q

MCPerms == {p, q}
MCScopes == {{p}, {p, q}}
Symmetry == Permutations(Admins)
MCGrants == {{}, {p, q}}
=============================================================================
