------------------------------ MODULE MCEngine ------------------------------
EXTENDS Engine, TLC

CONSTANTS o1, o2, o3
=============================================================================
