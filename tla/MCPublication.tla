--------------------------- MODULE MCPublication ---------------------------
EXTENDS Publication
=============================================================================
