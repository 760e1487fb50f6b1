---------------------------- MODULE MCHookSteps ----------------------------
(* Two tasks on two CPUs, so that calls run side by side and one preempts  *)
(* another; a file and a device.  One task opens files; no answer depends  *)
(* on what another task does.                                              *)
EXTENDS HookSteps, TLC

CONSTANTS t1, t2, cpu0, cpu1, file, device

MCTask == {t1, t2}
MCOpener == {t1}
MCCpu == {cpu0, cpu1}
MCInode == {file, device}
MCDevice == {device}
=============================================================================
