------------------------------ MODULE MCDaemon ------------------------------
(* Two daemons, configured for one endpoint and for an instrument each. *)
EXTENDS Daemon

CONSTANTS d1, d2, v1, v2

OneEach == [d \in {d1, d2} |-> IF d = d1 THEN v1 ELSE v2]
=============================================================================
