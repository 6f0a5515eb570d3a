----------------------------- MODULE MCUICache -----------------------------
(***************************************************************************)
(* Small instances of UICache.  "nix" is the default store directory; p2   *)
(* belongs to "gnu" where a .cfg says so.                                  *)
(***************************************************************************)
EXTENDS UICache, TLC

CONSTANTS c1, p1, p2, p3, n1, n2, xz, bz, nix, gnu

AllInNix == [p \in Paths |-> nix]

OneInGnu == [p \in Paths |-> IF p = p2 THEN gnu ELSE nix]

\* The two NARs are told apart by nothing but their identity.
NarSymmetry == Permutations(Nars)
=============================================================================
