------------------------------ MODULE NarInfo ------------------------------
(***************************************************************************)
(* The data that nixcached stores in a bucket: NAR files and the .narinfo  *)
(* files that describe them.  Contents are opaque values; two contents     *)
(* have the same hash and size iff they are the same value, and a file key *)
(* ("nar/<FileHash>.nar<ext>") names exactly one file content.             *)
(***************************************************************************)
CONSTANTS
  Paths,          \* store objects, by the digest of their store path
  Nars,           \* uncompressed NAR contents
  Keys,           \* names of the signing keys
  Compressions,   \* compression algorithms
  NoCompression,  \* the algorithm of an uncompressed NAR
  None,           \* "no such blob", "no URL yet", "nothing held"
  Garbled         \* a .narinfo blob that does not parse

\* A compressed NAR file, named by its own hash: content and key in one.
Files == [nar : Nars, comp : Compressions]

\* A signature covers the hash and size of the uncompressed NAR.
Signatures == [key : Keys, nar : Nars]

\* The fields of nix.NARInfo that the upload and serve code tells apart:
\* NARHash/NARSize, Compression, URL/FileHash/FileSize and Sig.
Infos == [nar : Nars, comp : Compressions,
          url : Files \cup {None}, sigs : SUBSET Signatures]

ASSUME DataAssumption ==
  /\ NoCompression \in Compressions
  /\ None \notin Infos /\ Garbled \notin Infos

Blobs == Infos \cup {None, Garbled}

\* Every signature is one over the NAR that the .narinfo advertises.
SignaturesOver(i) == \A s \in i.sigs : s.nar = i.nar

\* A client that fetches the URL, decompresses what it gets with the stated
\* algorithm and hashes it finds what the .narinfo says.
Describes(i) == i.url \in Files /\ i.url.nar = i.nar /\ i.url.comp = i.comp

Consistent(i) == Describes(i) /\ SignaturesOver(i)

\* What a reader of the .narinfo would download.
FileOf(b) == IF b \in Infos THEN b.url ELSE b
=============================================================================
