-------------------------- MODULE MCUploadPipeline --------------------------
(***************************************************************************)
(* A small instance of UploadPipeline: a refers to c, which the input may  *)
(* also name on its own; Nix knows d, but its store does not have it.      *)
(***************************************************************************)
EXTENDS UploadPipeline, TLC

CONSTANTS a, c, d, w1, w2, w3

MCClosure == [p \in Paths |-> IF p = a THEN {a, c} ELSE {p}]
=============================================================================
