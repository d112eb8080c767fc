--------------------------- MODULE SleepHandshake ---------------------------
(***************************************************************************)
(* What suspend and resume promise, whatever words, bits and threads carry *)
(* the messages: the device goes to sleep only when it is asked to, the    *)
(* host only when the device sleeps or is beyond asking, and a sleeping    *)
(* device stays asleep as long as its host does.  A request the host gave  *)
(* up on leaves a doubt until the next boot: the device may hear of it, or *)
(* answer it, at any later time.                                           *)
(***************************************************************************)
VARIABLES
  host,    \* "off", "awake", "asking" or "asleep"
  device,  \* "off", "awake", "told", "asleep" or "dead"
  doubt    \* the host has given up on a request since the last boot

vars == <<host, device, doubt>>

TypeOK ==
  /\ host \in {"off", "awake", "asking", "asleep"}
  /\ device \in {"off", "awake", "told", "asleep", "dead"}
  /\ doubt \in BOOLEAN

Init == host = "off" /\ device = "off" /\ doubt = FALSE

Boot ==
  /\ host = "off"
  /\ host' = "awake" /\ device' = "awake" /\ doubt' = FALSE

Ask ==
  /\ host = "awake"
  /\ host' = "asking"
  /\ UNCHANGED <<device, doubt>>

Sleep ==
  /\ host = "asking"
  /\ device \in {"asleep", "dead"} \/ doubt
  /\ host' = "asleep"
  /\ UNCHANGED <<device, doubt>>

GiveUp ==
  /\ host = "asking"
  /\ host' = "awake" /\ doubt' = TRUE
  /\ UNCHANGED device

Wake ==
  /\ host = "asleep"
  /\ host' = "awake"
  /\ UNCHANGED <<device, doubt>>

Close ==
  /\ host = "awake"
  /\ host' = "off"
  /\ UNCHANGED <<device, doubt>>

Hear ==
  /\ host = "asking" \/ doubt
  /\ device \in {"awake", "asleep", "told"}
  /\ device' = "told"
  /\ UNCHANGED <<host, doubt>>

FallAsleep ==
  /\ device = "told"
  /\ host = "asking" \/ doubt
  /\ device' = "asleep"
  /\ UNCHANGED <<host, doubt>>

GetUp ==
  /\ device \in {"told", "asleep"}
  /\ host # "asleep" \/ doubt
  /\ device' = "awake"
  /\ UNCHANGED <<host, doubt>>

Die ==
  /\ device \in {"awake", "told"}
  /\ device' = "dead"
  /\ UNCHANGED <<host, doubt>>

\* a suspended system may take the power away
LosePower ==
  /\ host = "asleep"
  /\ device' = "off"
  /\ UNCHANGED <<host, doubt>>

Next ==
  \/ Boot \/ Ask \/ Sleep \/ GiveUp \/ Wake \/ Close
  \/ Hear \/ FallAsleep \/ GetUp \/ Die \/ LosePower

Spec == Init /\ [][Next]_vars
-----------------------------------------------------------------------------
\* A host that sleeps and never gave up on a request has a device that sleeps, has
\* died or has lost its power.
AsleepTogether == host = "asleep" /\ ~doubt => device \in {"asleep", "dead", "off"}
=============================================================================
