------------------------------- MODULE MCNuke -------------------------------
(* Two nukes with words of their own, over two stored messages.            *)
EXTENDS Nuke, TLC

CONSTANTS d1, d2, m1, m2

MCHits == d1 :> {m1, m2} @@ d2 :> {m2}
MCSymmetry == Permutations(Runs)
=============================================================================
