----------------------------- MODULE NarUpload -----------------------------
(***************************************************************************)
(* upload.go: ensureCacheInfo, uploadStorePath, checkUploadOverwrite and   *)
(* dump.  Several `nixcached upload` processes write one bucket; each runs *)
(* a fixed number of job slots (the semaphore of processUploads), and each *)
(* slot runs one uploadStorePath after another, two slots of a process     *)
(* possibly for the same store path.  Every call on the bucket is a step   *)
(* of its own.  A call may fail, and a write that failed may nevertheless  *)
(* have reached the bucket.                                                *)
(***************************************************************************)
EXTENDS NarInfo

CONSTANTS
  Uploaders,      \* `nixcached upload` processes
  Jobs,           \* the job slots of all processes
  Owner,          \* the process a slot belongs to
  Forced,          \* the processes run with --force
  Listing,        \* the processes that write NAR listings
  Compression,    \* each process's --compression
  StoreNars,      \* the NARs that Nix on each process's machine may report
                  \* for a path, one after another: it may be built again
  LocalKeys,      \* the keys whose signatures a process's Nix store holds
  StoreDirs,      \* store directories
  StoreDir,       \* each process's own store directory
  DefaultDir,     \* nix.DefaultStoreDirectory
  Unset           \* the value of a nix-cache-info without a StoreDir line

ASSUME UploadAssumption ==
  /\ Owner \in [Jobs -> Uploaders]
  /\ Forced \subseteq Uploaders /\ Listing \subseteq Uploaders
  /\ Compression \in [Uploaders -> Compressions]
  /\ StoreNars \in [Uploaders -> [Paths -> SUBSET Nars]]
  /\ LocalKeys \in [Uploaders -> SUBSET Keys]
  /\ StoreDir \in [Uploaders -> StoreDirs]
  /\ DefaultDir \in StoreDirs
  /\ Unset \notin StoreDirs /\ None \notin StoreDirs \cup {Unset}

VARIABLES
  nars,       \* the bucket: NAR files under nar/
  narinfo,    \* the bucket: .narinfo blobs
  listings,   \* the bucket: paths that have a .ls blob
  cacheInfo,  \* the bucket: store directory in nix-cache-info, Unset or None
  up,         \* progress of each process through ensureCacheInfo
  pc,         \* where each slot is in uploadStorePath
  path,       \* the store path each slot is working on
  info        \* the NARInfo that each slot holds

vars == <<nars, narinfo, listings, cacheInfo, up, pc, path, info>>
bucket == <<nars, narinfo, listings, cacheInfo>>
slots == <<pc, path, info>>

Bucket == INSTANCE BinaryCache

UpStates == {"read", "create", "run", "failed"}

Labels == {"idle", "check", "merge", "dump", "nar", "listing", "narinfo"}

TypeOK ==
  /\ Bucket!BucketType
  /\ listings \subseteq Paths
  /\ cacheInfo \in StoreDirs \cup {Unset, None}
  /\ up \in [Uploaders -> UpStates]
  /\ pc \in [Jobs -> Labels]
  /\ path \in [Jobs -> Paths \cup {None}]
  /\ info \in [Jobs -> Infos \cup {None}]
  /\ \A j \in Jobs : pc[j] # "idle" => path[j] \in Paths /\ info[j] \in Infos

Init ==
  /\ Bucket!Init
  /\ listings = {}
  /\ cacheInfo \in StoreDirs \cup {Unset, None}
  /\ up = [u \in Uploaders |-> "read"]
  /\ pc = [j \in Jobs |-> "idle"]
  /\ path = [j \in Jobs |-> None]
  /\ info = [j \in Jobs |-> None]

-----------------------------------------------------------------------------
(* ensureCacheInfo: one read, then possibly one write, before any job.     *)

EffectiveDir(d) == IF d = Unset THEN DefaultDir ELSE d

\* Mutant: the store directory of an existing nix-cache-info is not compared.
AcceptAnyCacheInfo(u) ==
  /\ up[u] = "read"
  /\ up' = [up EXCEPT ![u] = IF cacheInfo = None THEN "create" ELSE "run"]
  /\ UNCHANGED <<bucket, slots>>

ReadCacheInfo(u) ==
  /\ up[u] = "read"
  /\ \/ /\ cacheInfo = None
        /\ up' = [up EXCEPT ![u] = "create"]
     \/ /\ cacheInfo # None
        /\ EffectiveDir(cacheInfo) = StoreDir[u]
        /\ up' = [up EXCEPT ![u] = "run"]
     \/ \* another store directory, an unreadable file, or a failed read
        up' = [up EXCEPT ![u] = "failed"]
  /\ UNCHANGED <<bucket, slots>>

CreateCacheInfo(u) ==
  /\ up[u] = "create"
  /\ \/ /\ cacheInfo' = StoreDir[u]
        /\ up' = [up EXCEPT ![u] = "run"]
     \/ /\ cacheInfo' \in {cacheInfo, StoreDir[u]}
        /\ up' = [up EXCEPT ![u] = "failed"]
  /\ UNCHANGED <<nars, narinfo, listings, slots>>

-----------------------------------------------------------------------------
(* uploadStorePath, one action per call on the bucket.                     *)

Goto(j, label) == pc' = [pc EXCEPT ![j] = label]

\* uploadStorePath returns: uploaded, skipped or failed is only logged.
Return(j) ==
  /\ pc' = [pc EXCEPT ![j] = "idle"]
  /\ path' = [path EXCEPT ![j] = None]
  /\ info' = [info EXCEPT ![j] = None]

\* What `nix path-info` reports for a path when the batch of a job is
\* gathered, every batch anew: NAR n, and its signatures with the keys ks.
LocalInfo(n, ks) ==
  [nar |-> n, comp |-> NoCompression, url |-> None,
   sigs |-> [key : ks, nar : {n}]]

StartJob(j) ==
  LET u == Owner[j] IN
  /\ up[u] = "run"
  /\ pc[j] = "idle"
  /\ \E p \in Paths, ks \in SUBSET LocalKeys[u] :
       /\ path' = [path EXCEPT ![j] = p]
       /\ \E n \in StoreNars[u][p] :
            info' = [info EXCEPT ![j] = LocalInfo(n, ks)]
  /\ Goto(j, IF u \in Forced THEN "dump" ELSE "check")
  /\ UNCHANGED <<bucket, up>>

\* Mutant: the union is taken in the local .narinfo, and that one is written.
MergedIntoLocal(old, new) == [new EXCEPT !.sigs = old.sigs \cup new.sigs]

\* Mutant: only the local signatures are published.
MergedReplacing(old, new) == [old EXCEPT !.sigs = new.sigs]

\* AddSignatures of the local signatures to the .narinfo that was read.
Merged(old, new) == [old EXCEPT !.sigs = old.sigs \cup new.sigs]

\* Mutant: signatures are added although the NAR hashes differ.
MayMergeAnyNar(old, new) == old \in Infos /\ ~ (new.sigs \subseteq old.sigs)

\* checkUploadOverwrite decides to update the signatures of old.
MayMerge(old, new) ==
  /\ old \in Infos
  /\ old.nar = new.nar
  /\ ~ (new.sigs \subseteq old.sigs)

Check(j) ==
  LET old == narinfo[path[j]] IN
  /\ pc[j] = "check"
  /\ \/ /\ old = None
        /\ Goto(j, "dump")
        /\ UNCHANGED <<path, info>>
     \/ /\ MayMerge(old, info[j])
        /\ info' = [info EXCEPT ![j] = Merged(old, info[j])]
        /\ Goto(j, "merge")
        /\ UNCHANGED path
     \/ \* errStoreObjectExists with nothing to add, or the read failed
        /\ Return(j)
  /\ UNCHANGED <<bucket, up>>

\* Writes blob i for path p; a failed write may or may not take effect.
WriteNarInfo(p, i) == narinfo' = [narinfo EXCEPT ![p] = i]

Merge(j) ==
  /\ pc[j] = "merge"
  /\ WriteNarInfo(path[j], info[j]) \/ UNCHANGED narinfo
  /\ Return(j)
  /\ UNCHANGED <<nars, listings, cacheInfo, up>>

\* Mutant: the local .narinfo keeps its compression (fixed in 0.3.1).
DumpedKeepsCompression(i, read, comp) ==
  [i EXCEPT !.url = [nar |-> read, comp |-> comp]]

\* dump() produced a file from what it read off the disk.
Dumped(i, read, comp) ==
  [i EXCEPT !.comp = comp, !.url = [nar |-> read, comp |-> comp]]

\* Mutant: what was dumped is not compared with the Nix database.
DumpUnchecked(i, read) == TRUE

DumpMatches(i, read) == read = i.nar

Dump(j) ==
  /\ pc[j] = "dump"
  /\ \/ \E read \in Nars :
          /\ DumpMatches(info[j], read)
          /\ info' = [info EXCEPT ![j] =
                        Dumped(info[j], read, Compression[Owner[j]])]
          /\ Goto(j, "nar")
          /\ UNCHANGED path
     \/ \* no temporary file, a dump error, or a hash or size that differs
        Return(j)
  /\ UNCHANGED <<bucket, up>>

\* Mutant: a failed NAR upload is logged and the job goes on.
PutNarIgnoringErrors(j) ==
  /\ pc[j] = "nar"
  /\ nars' \in {nars, nars \cup {info[j].url}}
  /\ Goto(j, IF Owner[j] \in Listing THEN "listing" ELSE "narinfo")
  /\ UNCHANGED <<narinfo, listings, cacheInfo, up, path, info>>

PutNar(j) ==
  /\ pc[j] = "nar"
  /\ \/ /\ nars' = nars \cup {info[j].url}
        /\ \/ Goto(j, "listing") /\ Owner[j] \in Listing
           \/ Goto(j, "narinfo")     \* no listing wanted, or none produced
        /\ UNCHANGED <<path, info>>
     \/ /\ nars' \in {nars, nars \cup {info[j].url}}
        /\ Return(j)
  /\ UNCHANGED <<narinfo, listings, cacheInfo, up>>

\* A listing that cannot be written is only a warning.
PutListing(j) ==
  /\ pc[j] = "listing"
  /\ listings' \in {listings, listings \cup {path[j]}}
  /\ Goto(j, "narinfo")
  /\ UNCHANGED <<nars, narinfo, cacheInfo, up, path, info>>

PutNarInfo(j) ==
  /\ pc[j] = "narinfo"
  /\ WriteNarInfo(path[j], info[j]) \/ UNCHANGED narinfo
  /\ Return(j)
  /\ UNCHANGED <<nars, listings, cacheInfo, up>>

-----------------------------------------------------------------------------
\* The process is killed; every job dies where it is.  systemd starts it
\* again (Restart=on-failure), and it begins with ensureCacheInfo.
Crash(u) ==
  LET mine == {j \in Jobs : Owner[j] = u} IN
  /\ up' = [up EXCEPT ![u] = "read"]
  /\ pc' = [j \in Jobs |-> IF j \in mine THEN "idle" ELSE pc[j]]
  /\ path' = [j \in Jobs |-> IF j \in mine THEN None ELSE path[j]]
  /\ info' = [j \in Jobs |-> IF j \in mine THEN None ELSE info[j]]
  /\ UNCHANGED bucket

Job(j) ==
  \/ StartJob(j) \/ Check(j) \/ Merge(j) \/ Dump(j)
  \/ PutNar(j) \/ PutListing(j) \/ PutNarInfo(j)

Next ==
  \/ \E u \in Uploaders : ReadCacheInfo(u) \/ CreateCacheInfo(u) \/ Crash(u)
  \/ \E j \in Jobs : Job(j)

Spec == Init /\ [][Next]_vars

-----------------------------------------------------------------------------
(* Properties.                                                             *)

\* "Start with the content so that clients don't observe dangling objects"
\* (upload.go:385): whatever fails, crashes or runs at the same time, the
\* file that a published .narinfo names is in the bucket.
NoDanglingInfo ==
  \A p \in Paths : narinfo[p] \in Infos => narinfo[p].url \in nars

\* The hash, size, URL and compression of a published .narinfo belong to one
\* and the same file, even after signature updates that race with --force
\* and after a local store object that changed on disk (upload.go:366-378).
PublishedInfoDescribesFile ==
  \A p \in Paths : narinfo[p] \in Infos => Describes(narinfo[p])

\* Merging signatures across machines whose builds of a path differ never
\* publishes a signature over another NAR (upload.go:560-566).
SignaturesVerify ==
  \A p \in Paths : narinfo[p] \in Infos => SignaturesOver(narinfo[p])

\* All uploads, however they interleave, keep the bucket a binary cache.
ImplementsBinaryCache == Bucket!Spec

\* The file that a job past the check is about to make of its path.
FileToBe(j) == [nar |-> info[j].nar, comp |-> Compression[Owner[j]]]

\* Jobs that are about to upload one path are about to upload one file.
Uploading == {"dump", "nar", "listing", "narinfo"}
UploadsAgree ==
  \A i, j \in Jobs :
    pc[i] \in Uploading /\ pc[j] \in Uploading /\ path[i] = path[j] =>
      FileToBe(i) = FileToBe(j)

\* No job is about to make a .narinfo that is there, readable or not, name
\* another file.
WritesKeepFile ==
  \A j \in Jobs :
    pc[j] \in {"merge", "narinfo"} /\ narinfo[path[j]] # None =>
      FileOf(narinfo[path[j]]) = FileOf(info[j])

\* --force means "replace already-uploaded store objects" (upload.go:56).
\* Without it no job is ever about to replace one, though each checks long
\* before it writes, unless two were on their way at the same time with
\* different files for one path: two machines, or one on which the path was
\* built again between two batches.  Other builds that come later, retries
\* after a crash and late signature updates do not get there.
PublishedFileStableUnlessRaced == []UploadsAgree => []WritesKeepFile

\* No two jobs are on their way to write the .narinfo of one path.
Writing == {"dump", "nar", "listing", "narinfo", "merge"}
NoOverlap ==
  \A i, j \in Jobs :
    i # j /\ pc[i] \in Writing /\ pc[j] \in Writing => path[i] # path[j]

\* No job is about to write a .narinfo that lacks a published signature.
WritesKeepSignatures ==
  \A j \in Jobs : pc[j] \in {"merge", "narinfo"} =>
    \/ narinfo[path[j]] = None
    \/ /\ narinfo[path[j]] \in Infos
       /\ narinfo[path[j]].sigs \subseteq info[j].sigs

\* An update of an existing .narinfo publishes "the union of the signatures"
\* (upload.go:541-544), and nothing that fails, crashes or has been written
\* unnoticed makes a job without --force drop one: only two jobs at one path
\* at the same time can, as the TODO at upload.go:577 knows.
SignaturesKeptUnlessRaced == []NoOverlap => []WritesKeepSignatures

\* A process that uploads has the store directory that the bucket states
\* (upload.go:218, TestEnsureCacheInfo/ConflictingDirs).
OneStoreDir ==
  \A u \in Uploaders :
    up[u] = "run" => EffectiveDir(cacheInfo) = StoreDir[u]

\* No two processes have found the bucket without a nix-cache-info and not
\* written it yet.
OneCreates ==
  \A u, v \in Uploaders : up[u] = "create" /\ up[v] = "create" => u = v

\* Such a race is the only way to uploads of two store directories into one
\* bucket: no crash, restart or failed write, whether it took effect or not,
\* lets a process in that the bucket's directory excludes, or replaces that
\* directory under a process that uploads.
OneStoreDirUnlessRaced == []OneCreates => []OneStoreDir
=============================================================================
