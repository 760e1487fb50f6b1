------------------------- MODULE MCTelemetrySender -------------------------
EXTENDS TelemetrySender, TLC

CONSTANTS p1, p2, c1, c2, e1, e2, f1, f2
=============================================================================
