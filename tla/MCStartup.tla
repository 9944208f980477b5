------------------------------ MODULE MCStartup ------------------------------
(***************************************************************************)
(* Small instances of Startup: up to three groups of ranks.                *)
(***************************************************************************)
EXTENDS Startup

MCWorldSize == 1 .. 8
MCPerRuntime == {3, 4, 8, 9}
=============================================================================
