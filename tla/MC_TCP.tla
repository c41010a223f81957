-------------------------------- MODULE MC_TCP --------------------------------
EXTENDS TCP

CONSTANTS a1, a2, n1, n2

MCAppSockets == {a1, a2}
MCNewSockets == {n1}
=============================================================================
