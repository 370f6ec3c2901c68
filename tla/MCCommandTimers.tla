--------------------------- MODULE MCCommandTimers ---------------------------
(* Two chat commands on a wheel of three slots.                            *)
EXTENDS CommandTimers, TLC

MCArgs == [text : Texts, timer : Objs]
MCSymmetry == Permutations(Ids) \cup Permutations(Objs)
=============================================================================
