--------------------------- MODULE MCPcieMailbox ---------------------------
(***************************************************************************)
(* PcieMailbox for TLC.  All of its variables are finite; only the number  *)
(* of suspends that the model starts is open, and they repeat states.      *)
(***************************************************************************)
EXTENDS PcieMailboxRefinement
=============================================================================
