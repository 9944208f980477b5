---------------------------- MODULE MCEventLoops ----------------------------
(***************************************************************************)
(* Small instances of EventLoops.                                          *)
(***************************************************************************)
EXTENDS EventLoops

MCTwoWorkers == {1, 2}
MCOneWorker == {1}
MCZero == {0}
MCGarbage == {-1, 0}
MCUpper == 0 .. MaxTask - 1
MCNested == Task
=============================================================================
