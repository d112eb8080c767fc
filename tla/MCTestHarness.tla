---------------------------- MODULE MCTestHarness ----------------------------
(***************************************************************************)
(* Small instances of the staged bring-up for TLC.                         *)
(***************************************************************************)
EXTENDS TestHarness
=============================================================================
