---------------------------- MODULE MCLocalStore ----------------------------
(* Instances of LocalStore for TLC: calls from this machine and over SSH.  *)
EXTENDS LocalStore

CONSTANTS out, drv, n1, n2, local, ssh

MCObjects == {out, drv}
MCDerivations == {drv}
MCNars == {n1, n2}
MCClients == {local, ssh}
MCRemote == {ssh}
=============================================================================
