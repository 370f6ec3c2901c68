----------------------------- MODULE MCIRCWaiter -----------------------------
(* Two waits for one message, delivered twice, and one for another.        *)
EXTENDS IRCWaiter, TLC

CONSTANTS w1, w2, w3, m1, m2

MCMsgOf == w1 :> m1 @@ w2 :> m1 @@ w3 :> m2
=============================================================================
