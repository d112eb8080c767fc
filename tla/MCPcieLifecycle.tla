-------------------------- MODULE MCPcieLifecycle --------------------------
(***************************************************************************)
(* Small instances of the life cycle for TLC, explored side by side.       *)
(***************************************************************************)
EXTENDS PcieLifecycle

OneAtATime == Events \ {"overlap"}
\* Three probes in which nothing overlaps; two in which failures, suspends and
\* unbinds come at any moment; and the BCM4360 with everything.
MCSettings == {<<FALSE, 3, OneAtATime>>, <<FALSE, 2, Events \ {"crash"}>>,
               <<TRUE, 2, Events>>}
=============================================================================
