------------------------ MODULE MCSessionDurability ------------------------
EXTENDS SessionDurability, TLC
CONSTANTS a1, v1, v2
=============================================================================
