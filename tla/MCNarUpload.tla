---------------------------- MODULE MCNarUpload ----------------------------
(***************************************************************************)
(* Small instances of NarUpload.  u1 compresses with "xz", u2 with "bz";   *)
(* u2 runs with --force where the .cfg says so.                            *)
(***************************************************************************)
EXTENDS NarUpload, TLC

CONSTANTS u1, u2, j1, j2, p, n1, n2, k1, k2, xz, bz, dir1, dir2

\* Two processes with one slot each.
OwnerSplit == (j1 :> u1) @@ (j2 :> u2)

\* One process with the default --jobs=2; another one has no work.
OwnerOne == [j \in Jobs |-> u1]

MCCompression == [u \in Uploaders |-> IF u = u1 THEN xz ELSE bz]

\* Builds on two machines may agree or not, and so may those on one machine
\* that a path gets before and after a batch.
BuiltAgain == [u \in Uploaders |-> [o \in Paths |-> Nars]]

\* Each machine signs with a key of its own.
MCLocalKeys == [u \in Uploaders |-> IF u = u1 THEN {k1} ELSE {k2}]

AllKeys == [u \in Uploaders |-> Keys]

SameDir == [u \in Uploaders |-> dir1]

OtherDirs == [u \in Uploaders |-> IF u = u1 THEN dir1 ELSE dir2]
=============================================================================
