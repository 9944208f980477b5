------------------------------- MODULE MCMemory -------------------------------
(***************************************************************************)
(* Small instances of Memory: every task may create others.                *)
(***************************************************************************)
EXTENDS Memory

MCWorker == {1, 2}
MCNested == Task
MCFlat == {Root}
MCValue == {0, 1}
=============================================================================
