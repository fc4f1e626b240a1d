---------------------------- MODULE MCEventLoop ----------------------------
(* The event loop with a child queue and a scheduling thread or two.       *)
EXTENDS EventLoop, TLC

CONSTANTS t1, t2, nobody

OneThread == {t1}
TwoThreads == {t1, t2}
OneChild == {"child"}
=============================================================================
