-------------------------- MODULE MCServeDiscovery --------------------------
(***************************************************************************)
(* Small instances of ServeDiscovery.                                      *)
(***************************************************************************)
EXTENDS ServeDiscovery, TLC

CONSTANTS r1, r2, r3, t1, t2
=============================================================================
