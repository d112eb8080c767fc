------------------------------ MODULE MCNetdev ------------------------------
(* Netdev with the primary interface and one more, two objects to make them of. *)
EXTENDS Netdev

MCBss   == {0, 1}
MCIfidx == {0, 1, 2}
MCIfs   == {1, 2}
MCTraffic == {1}
=============================================================================
