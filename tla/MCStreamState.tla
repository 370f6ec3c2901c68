--------------------------- MODULE MCStreamState ---------------------------
(* Two workers and the loop; the stream goes on and off air.               *)
EXTENDS StreamState
=============================================================================
