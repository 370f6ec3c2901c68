------------------------------ MODULE MCTrusts ------------------------------
(* Small instances of Trusts: one editable and one global role.            *)
EXTENDS Trusts, TLC

CONSTANTS r1, g1, s1, s2

MCGlobalRoles == g1 :> {s2}
MCSymmetry == Permutations(Users)
=============================================================================
