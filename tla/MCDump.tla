------------------------------- MODULE MCDump -------------------------------
(***************************************************************************)
(* Small instances of Dump: an archive of more pieces than the pipes hold. *)
(***************************************************************************)
EXTENDS Dump
=============================================================================
