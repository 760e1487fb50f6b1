-------------------------- MODULE MCWindowsEngine --------------------------
(* Two trace threads (a first start and a restart) and the host as         *)
(* producers; two handle values, so that a closed one is reused; two       *)
(* instances of the pipe.                                                  *)
EXTENDS WindowsEngine, TLC

CONSTANTS t1, t2, host, h1, h2, c1, c2

MCThread == {t1, t2}
MCProducers == {t1, t2, host}
MCHandle == {h1, h2}
MCConn == {c1, c2}
=============================================================================
