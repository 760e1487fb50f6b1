---------------------------- MODULE MCTtyProbes ----------------------------
(* Two thread ids and a map and a ring buffer for one entry each, so that  *)
(* both are full at times.                                                 *)
EXTENDS TtyProbes, TLC

CONSTANTS t1, t2

MCTid == {t1, t2}
MCSymmetry == Permutations(MCTid)
=============================================================================
