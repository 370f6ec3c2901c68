----------------------------- MODULE MCEventSub -----------------------------
(* Two channels added at start-up, two event types, two connections.       *)
EXTENDS EventSub

MCTypes == <<"stream.online", "stream.offline">>
=============================================================================
