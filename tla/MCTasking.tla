------------------------------ MODULE MCTasking ------------------------------
(***************************************************************************)
(* Small instances of Tasking.                                             *)
(***************************************************************************)
EXTENDS Tasking

MCOneWorker == {1}
MCTwoWorkers == {1, 2}
MCThreeWorkers == {1, 2, 3}
MCNegative == {-1}
MCNegativeOrUnused == {-1, MaxTask + 1}
MCFlat == {Root}
MCNested == Task
MCAllCapture == Task \ {Root}
MCSomeCapture == {1, 2}
MCFirstCaptures == {1}
MCNobody == {}
=============================================================================
