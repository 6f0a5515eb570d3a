---------------------------- MODULE BinaryCache ----------------------------
(***************************************************************************)
(* What a bucket promises the Nix clients that read it, whoever writes it: *)
(* content is only ever added, and a .narinfo is published only when it    *)
(* is right about a file that is already there.  A client that has read a  *)
(* .narinfo, however long ago, can therefore still fetch and verify it.    *)
(***************************************************************************)
EXTENDS NarInfo

VARIABLES
  nars,     \* the NAR files stored under nar/
  narinfo   \* the .narinfo blob of every path

bucketVars == <<nars, narinfo>>

BucketType ==
  /\ nars \subseteq Files
  /\ narinfo \in [Paths -> Blobs]

\* A bucket that earlier, complete uploads left behind.
Init ==
  /\ narinfo \in [Paths -> {i \in Infos : Consistent(i)} \cup {None, Garbled}]
  /\ nars = {narinfo[p].url : p \in {q \in Paths : narinfo[q] \in Infos}}

StoreFile(f) ==
  /\ nars' = nars \cup {f}
  /\ UNCHANGED narinfo

Publish(p, i) ==
  /\ Consistent(i)
  /\ i.url \in nars
  /\ narinfo' = [narinfo EXCEPT ![p] = i]
  /\ UNCHANGED nars

Next ==
  \/ \E f \in Files : StoreFile(f)
  \/ \E p \in Paths, i \in Infos : Publish(p, i)

Spec == Init /\ [][Next]_bucketVars
=============================================================================
