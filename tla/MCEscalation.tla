---------------------------- MODULE MCEscalation ----------------------------
(* Small instances of Escalation: reset times in ticks.                    *)
EXTENDS Escalation, TLC

CONSTANTS Default, Vip, Emotes

MCDurationReset == "default" :> Default @@ "vip" :> Vip @@ "emotes" :> Emotes
MCSymmetry == Permutations(Workers) \cup Permutations(Inners)
=============================================================================
