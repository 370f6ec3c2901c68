----------------------------- MODULE MCSpamFlood -----------------------------
(* Messages of one user of one or two texts.                               *)
EXTENDS SpamFlood, TLC

CONSTANT Off

\* Everything is on and the stream is live, but for the settings in Off.
MCSettings == [s \in {"bot", "default", "vip", "paused", "live"} |->
                  (s # "paused") # (s \in Off)]

MCSymmetry == Permutations(Texts) \cup Permutations(Inners)
=============================================================================
