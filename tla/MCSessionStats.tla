--------------------------- MODULE MCSessionStats ---------------------------
EXTENDS SessionStats, TLC
=============================================================================
