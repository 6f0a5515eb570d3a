-------------------------- MODULE NarUploadProofs --------------------------
(***************************************************************************)
(* Proofs that uploads keep the bucket a binary cache, for any number of   *)
(* processes, slots, paths, NAR contents and keys, with any mix of --force *)
(* and compression.  The published .narinfos alone are not inductive: what *)
(* a slot may write depends on what it has established by the label it has *)
(* reached, and that is what SlotInv records.                              *)
(***************************************************************************)
EXTENDS NarUpload, TLAPS

\* Every published .narinfo is right about a NAR file that is there.
PublishedInv ==
  \A p \in Paths : narinfo[p] \in Infos =>
    Consistent(narinfo[p]) /\ narinfo[p].url \in nars

\* What each slot knows at each label.
SlotInv ==
  \A j \in Jobs :
    /\ pc[j] \in {"check", "dump"} => SignaturesOver(info[j])
    /\ pc[j] \in {"merge", "nar", "listing", "narinfo"} => Consistent(info[j])
    /\ pc[j] \in {"merge", "listing", "narinfo"} => info[j].url \in nars

IInv == TypeOK /\ PublishedInv /\ SlotInv

-----------------------------------------------------------------------------
(* Facts about the data.                                                   *)

\* The instance of the abstract specification speaks of the same data.
LEMMA SameData ==
  /\ Bucket!Infos = Infos /\ Bucket!Files = Files /\ Bucket!Blobs = Blobs
  /\ \A i \in Infos : Bucket!Consistent(i) <=> Consistent(i)
BY DEF Bucket!Infos, Bucket!Files, Bucket!Blobs, Bucket!Signatures,
       Bucket!Consistent, Bucket!Describes, Bucket!SignaturesOver,
       Infos, Files, Blobs, Signatures, Consistent, Describes, SignaturesOver

\* `nix path-info` reports a well-formed .narinfo with sound signatures.
LEMMA LocalInfoSound ==
  ASSUME NEW u \in Uploaders, NEW p \in Paths,
         NEW n \in StoreNars[u][p], NEW ks \in SUBSET LocalKeys[u]
  PROVE  /\ LocalInfo(n, ks) \in Infos
         /\ SignaturesOver(LocalInfo(n, ks))
<1>1. n \in Nars /\ ks \subseteq Keys
  BY UploadAssumption DEF UploadAssumption
<1>2. [key : ks, nar : {n}] \subseteq Signatures
  BY <1>1 DEF Signatures
<1> QED
  BY <1>1, <1>2, DataAssumption
  DEF LocalInfo, Infos, SignaturesOver, DataAssumption

\* Merging into a right .narinfo with the same NAR leaves a right .narinfo.
LEMMA MergedSound ==
  ASSUME NEW old \in Infos, NEW new \in Infos
  PROVE  /\ Merged(old, new) \in Infos
         /\ Merged(old, new).url = old.url
         /\ Consistent(old) /\ SignaturesOver(new) /\ MayMerge(old, new)
            => Consistent(Merged(old, new))
BY DEF Merged, MayMerge, Infos, Consistent, Describes, SignaturesOver

\* A dump that matches turns local information into a right .narinfo.
LEMMA DumpedSound ==
  ASSUME NEW i \in Infos, NEW read \in Nars, NEW c \in Compressions
  PROVE  /\ Dumped(i, read, c) \in Infos
         /\ Dumped(i, read, c).url \in Files
         /\ SignaturesOver(i) /\ DumpMatches(i, read)
            => Consistent(Dumped(i, read, c))
BY DEF Dumped, DumpMatches, Infos, Files, Consistent, Describes,
       SignaturesOver

-----------------------------------------------------------------------------
(* Type correctness.                                                       *)

LEMMA TypeInit == Init => TypeOK
<1> SUFFICES ASSUME Init PROVE TypeOK
  OBVIOUS
<1>1. narinfo \in [Paths -> Blobs]
  BY SameData DEF Init, Bucket!Init, Blobs
<1>2. nars \subseteq Files
  <2>1. \A i \in Infos : Consistent(i) => i.url \in Files
    BY DEF Consistent, Describes
  <2>2. \A p \in Paths : narinfo[p] \in Infos => narinfo[p].url \in Files
    <3> SUFFICES ASSUME NEW p \in Paths, narinfo[p] \in Infos
                 PROVE  narinfo[p].url \in Files
      OBVIOUS
    <3> QED
      BY <2>1, SameData, DataAssumption
      DEF Init, Bucket!Init, DataAssumption
  <2> QED
    BY <2>2, SameData DEF Init, Bucket!Init
<1> QED
  BY <1>1, <1>2, SameData
  DEF Init, TypeOK, Bucket!BucketType, UpStates, Labels

\* A slot that goes on to another label stays typed, whatever it then holds.
LEMMA GotoTyped ==
  ASSUME TypeOK, NEW j \in Jobs, NEW label \in Labels, Goto(j, label),
         NEW p \in Paths, path' = [path EXCEPT ![j] = p],
         NEW i \in Infos, info' = [info EXCEPT ![j] = i]
  PROVE  /\ pc' \in [Jobs -> Labels]
         /\ path' \in [Jobs -> Paths \cup {None}]
         /\ info' \in [Jobs -> Infos \cup {None}]
         /\ \A k \in Jobs :
              pc'[k] # "idle" => path'[k] \in Paths /\ info'[k] \in Infos
BY DEF TypeOK, Goto

LEMMA ReturnTyped ==
  ASSUME TypeOK, NEW j \in Jobs, Return(j)
  PROVE  /\ pc' \in [Jobs -> Labels]
         /\ path' \in [Jobs -> Paths \cup {None}]
         /\ info' \in [Jobs -> Infos \cup {None}]
         /\ \A k \in Jobs :
              pc'[k] # "idle" => path'[k] \in Paths /\ info'[k] \in Infos
BY DEF TypeOK, Return, Labels

LEMMA TypeNext == IInv /\ [Next]_vars => TypeOK'
<1> SUFFICES ASSUME TypeOK, SlotInv, [Next]_vars PROVE TypeOK'
  BY DEF IInv
<1>0. /\ nars \subseteq Files /\ narinfo \in [Paths -> Blobs]
      /\ (nars' \subseteq Files /\ narinfo' \in [Paths -> Blobs]
           => Bucket!BucketType')
  BY SameData DEF TypeOK, Bucket!BucketType
<1>1. ASSUME NEW u \in Uploaders, ReadCacheInfo(u) PROVE TypeOK'
  BY <1>0, <1>1 DEF ReadCacheInfo, bucket, slots, TypeOK, UpStates
<1>2. ASSUME NEW u \in Uploaders, CreateCacheInfo(u) PROVE TypeOK'
  <2>1. StoreDir[u] \in StoreDirs
    BY UploadAssumption DEF UploadAssumption
  <2>2. cacheInfo' \in StoreDirs \cup {Unset, None}
    BY <1>2, <2>1 DEF CreateCacheInfo, TypeOK
  <2>3. up' \in [Uploaders -> UpStates]
    BY <1>2 DEF CreateCacheInfo, TypeOK, UpStates
  <2> QED
    BY <1>0, <1>2, <2>2, <2>3 DEF CreateCacheInfo, slots, TypeOK
<1>3. ASSUME NEW u \in Uploaders, Crash(u) PROVE TypeOK'
  BY <1>0, <1>3 DEF Crash, bucket, TypeOK, UpStates, Labels
<1>4. ASSUME NEW j \in Jobs, StartJob(j) PROVE TypeOK'
  <2>0. PICK p \in Paths, ks \in SUBSET LocalKeys[Owner[j]] :
          /\ path' = [path EXCEPT ![j] = p]
          /\ \E n \in StoreNars[Owner[j]][p] :
               info' = [info EXCEPT ![j] = LocalInfo(n, ks)]
    BY <1>4 DEF StartJob
  <2>1. PICK n \in StoreNars[Owner[j]][p] :
          info' = [info EXCEPT ![j] = LocalInfo(n, ks)]
    BY <2>0
  <2>2. LocalInfo(n, ks) \in Infos
    BY LocalInfoSound, UploadAssumption DEF UploadAssumption
  <2>3. PICK label \in Labels : Goto(j, label)
    BY <1>4 DEF StartJob, Labels
  <2> QED
    BY <1>0, <1>4, <2>0, <2>1, <2>2, <2>3, GotoTyped DEF StartJob, bucket, TypeOK
<1>5. ASSUME NEW j \in Jobs, Check(j) PROVE TypeOK'
  <2>1. /\ path[j] \in Paths /\ info[j] \in Infos
        /\ path = [path EXCEPT ![j] = path[j]]
        /\ info = [info EXCEPT ![j] = info[j]]
    BY <1>5 DEF Check, TypeOK
  <2>2. UNCHANGED <<bucket, up>>
    BY <1>5 DEF Check
  <2>3. CASE Goto(j, "dump") /\ UNCHANGED <<path, info>>
    BY <1>0, <2>1, <2>2, <2>3, GotoTyped DEF TypeOK, bucket, Labels
  <2>4. CASE /\ MayMerge(narinfo[path[j]], info[j])
             /\ info' = [info EXCEPT ![j] = Merged(narinfo[path[j]], info[j])]
             /\ Goto(j, "merge")
             /\ UNCHANGED path
    <3>1. Merged(narinfo[path[j]], info[j]) \in Infos
      BY <2>1, <2>4, MergedSound DEF MayMerge
    <3> QED
      BY <1>0, <2>1, <2>2, <2>4, <3>1, GotoTyped DEF TypeOK, bucket, Labels
  <2>5. CASE Return(j)
    BY <1>0, <2>2, <2>5, ReturnTyped DEF TypeOK, bucket
  <2> QED
    BY <1>5, <2>3, <2>4, <2>5 DEF Check
<1>6. ASSUME NEW j \in Jobs, Merge(j) PROVE TypeOK'
  BY <1>0, <1>6, ReturnTyped DEF Merge, WriteNarInfo, Blobs, TypeOK
<1>7. ASSUME NEW j \in Jobs, Dump(j) PROVE TypeOK'
  <2>1. /\ path[j] \in Paths /\ info[j] \in Infos
        /\ path = [path EXCEPT ![j] = path[j]]
    BY <1>7 DEF Dump, TypeOK
  <2>2. UNCHANGED <<bucket, up>>
    BY <1>7 DEF Dump
  <2>3. ASSUME NEW read \in Nars, Goto(j, "nar"), UNCHANGED path,
               info' = [info EXCEPT ![j] =
                          Dumped(info[j], read, Compression[Owner[j]])]
        PROVE  TypeOK'
    <3>1. Compression[Owner[j]] \in Compressions
      BY UploadAssumption DEF UploadAssumption
    <3>2. Dumped(info[j], read, Compression[Owner[j]]) \in Infos
      BY <2>1, <3>1, DumpedSound
    <3> QED
      BY <1>0, <2>1, <2>2, <2>3, <3>2, GotoTyped DEF TypeOK, bucket, Labels
  <2>4. CASE Return(j)
    BY <1>0, <2>2, <2>4, ReturnTyped DEF TypeOK, bucket
  <2> QED
    BY <1>7, <2>3, <2>4 DEF Dump
<1>8. ASSUME NEW j \in Jobs, PutNar(j) PROVE TypeOK'
  <2>1. /\ path[j] \in Paths /\ info[j] \in Infos
        /\ path = [path EXCEPT ![j] = path[j]]
        /\ info = [info EXCEPT ![j] = info[j]]
    BY <1>8 DEF PutNar, TypeOK
  <2>2. /\ nars' \subseteq Files
        /\ UNCHANGED <<narinfo, listings, cacheInfo, up>>
    BY <1>0, <1>8 DEF PutNar, SlotInv, Consistent, Describes
  <2>3. ASSUME NEW label \in Labels, Goto(j, label), UNCHANGED <<path, info>>
        PROVE  TypeOK'
    BY <1>0, <2>1, <2>2, <2>3, GotoTyped DEF TypeOK
  <2>4. CASE Return(j)
    BY <1>0, <2>2, <2>4, ReturnTyped DEF TypeOK
  <2> QED
    BY <1>8, <2>3, <2>4 DEF PutNar, Labels
<1>9. ASSUME NEW j \in Jobs, PutListing(j) PROVE TypeOK'
  BY <1>0, <1>9 DEF PutListing, Goto, TypeOK, Labels
<1>10. ASSUME NEW j \in Jobs, PutNarInfo(j) PROVE TypeOK'
  BY <1>0, <1>10, ReturnTyped DEF PutNarInfo, WriteNarInfo, Blobs, TypeOK
<1>11. CASE UNCHANGED vars
  BY <1>0, <1>11 DEF vars, TypeOK
<1> QED
  BY <1>1, <1>2, <1>3, <1>4, <1>5, <1>6, <1>7, <1>8, <1>9, <1>10, <1>11
  DEF Next, Job

-----------------------------------------------------------------------------
(* The inductive invariant.                                                *)

LEMMA IInvInit == Init => IInv
<1> SUFFICES ASSUME Init PROVE PublishedInv /\ SlotInv
  BY TypeInit DEF IInv
<1>1. SlotInv
  BY DEF Init, SlotInv
<1>2. ASSUME NEW p \in Paths, narinfo[p] \in Infos
      PROVE  Consistent(narinfo[p]) /\ narinfo[p].url \in nars
  BY <1>2, SameData, DataAssumption DEF Init, Bucket!Init, DataAssumption
<1> QED
  BY <1>1, <1>2 DEF PublishedInv

\* NAR files are never removed, so a slot or a .narinfo that no step touches
\* keeps what it had.
LEMMA SlotKept ==
  ASSUME IInv, nars \subseteq nars', NEW j \in Jobs,
         \A k \in Jobs \ {j} : pc'[k] = pc[k] /\ info'[k] = info[k],
         \/ pc'[j] = "idle"
         \/ /\ pc'[j] \in {"check", "dump"} => SignaturesOver(info'[j])
            /\ pc'[j] \in {"merge", "nar", "listing", "narinfo"}
               => Consistent(info'[j])
            /\ pc'[j] \in {"merge", "listing", "narinfo"}
               => info'[j].url \in nars'
  PROVE  SlotInv'
BY DEF IInv, SlotInv

LEMMA PublishedKept ==
  ASSUME IInv, nars \subseteq nars', UNCHANGED narinfo
  PROVE  PublishedInv'
BY DEF IInv, PublishedInv

LEMMA PublishedWritten ==
  ASSUME IInv, NEW p \in Paths, NEW i \in Infos, UNCHANGED nars,
         Consistent(i), i.url \in nars,
         WriteNarInfo(p, i) \/ UNCHANGED narinfo
  PROVE  PublishedInv'
BY DEF IInv, TypeOK, Bucket!BucketType, PublishedInv, WriteNarInfo

LEMMA IInvNext == IInv /\ [Next]_vars => IInv'
<1> SUFFICES ASSUME IInv, [Next]_vars PROVE PublishedInv' /\ SlotInv'
  BY TypeNext DEF IInv
<1>0. TypeOK /\ SlotInv /\ PublishedInv
  BY DEF IInv
<1>1. ASSUME NEW u \in Uploaders, ReadCacheInfo(u)
      PROVE  PublishedInv' /\ SlotInv'
  BY <1>0, <1>1 DEF ReadCacheInfo, bucket, slots, PublishedInv, SlotInv
<1>2. ASSUME NEW u \in Uploaders, CreateCacheInfo(u)
      PROVE  PublishedInv' /\ SlotInv'
  BY <1>0, <1>2 DEF CreateCacheInfo, slots, PublishedInv, SlotInv
<1>3. ASSUME NEW u \in Uploaders, Crash(u)
      PROVE  PublishedInv' /\ SlotInv'
  BY <1>0, <1>3 DEF Crash, bucket, PublishedInv, SlotInv
<1>4. ASSUME NEW j \in Jobs, StartJob(j)
      PROVE  PublishedInv' /\ SlotInv'
  <2>0. PICK p \in Paths, ks \in SUBSET LocalKeys[Owner[j]] :
          \E n \in StoreNars[Owner[j]][p] :
            info' = [info EXCEPT ![j] = LocalInfo(n, ks)]
    BY <1>4 DEF StartJob
  <2>1. PICK n \in StoreNars[Owner[j]][p] :
          info' = [info EXCEPT ![j] = LocalInfo(n, ks)]
    BY <2>0
  <2>2. SignaturesOver(info'[j])
    BY <1>0, <2>1, LocalInfoSound, UploadAssumption
    DEF UploadAssumption, TypeOK
  <2>3. /\ pc'[j] \in {"check", "dump"}
        /\ \A k \in Jobs \ {j} : pc'[k] = pc[k] /\ info'[k] = info[k]
    BY <1>0, <1>4, <2>1 DEF StartJob, Goto, TypeOK
  <2> QED
    BY <1>4, <2>2, <2>3, SlotKept, PublishedKept DEF StartJob, bucket
<1>5. ASSUME NEW j \in Jobs, Check(j)
      PROVE  PublishedInv' /\ SlotInv'
  <2>1. /\ path[j] \in Paths /\ info[j] \in Infos
        /\ SignaturesOver(info[j])
        /\ UNCHANGED <<nars, narinfo>>
    BY <1>0, <1>5 DEF Check, TypeOK, SlotInv, bucket
  <2>2. CASE Goto(j, "dump") /\ UNCHANGED <<path, info>>
    BY <1>0, <2>1, <2>2, SlotKept, PublishedKept DEF Goto, TypeOK
  <2>3. CASE /\ MayMerge(narinfo[path[j]], info[j])
             /\ info' = [info EXCEPT ![j] = Merged(narinfo[path[j]], info[j])]
             /\ Goto(j, "merge")
    <3> DEFINE old == narinfo[path[j]]
    <3>1. old \in Infos /\ Consistent(old) /\ old.url \in nars
      BY <1>0, <2>1, <2>3 DEF MayMerge, PublishedInv
    <3>2. /\ Consistent(Merged(old, info[j]))
          /\ Merged(old, info[j]).url \in nars
      BY <2>1, <2>3, <3>1, MergedSound
    <3>3. /\ pc'[j] = "merge" /\ info'[j] = Merged(old, info[j])
          /\ \A k \in Jobs \ {j} : pc'[k] = pc[k] /\ info'[k] = info[k]
      BY <1>0, <2>3 DEF Goto, TypeOK
    <3> QED
      BY <2>1, <3>2, <3>3, SlotKept, PublishedKept
  <2>4. CASE Return(j)
    BY <1>0, <2>1, <2>4, SlotKept, PublishedKept DEF Return, TypeOK
  <2> QED
    BY <1>5, <2>2, <2>3, <2>4 DEF Check
<1>6. ASSUME NEW j \in Jobs, Merge(j)
      PROVE  PublishedInv' /\ SlotInv'
  <2>1. PublishedInv'
    BY <1>0, <1>6, PublishedWritten DEF Merge, TypeOK, SlotInv
  <2>2. SlotInv'
    BY <1>0, <1>6, SlotKept DEF Merge, Return, TypeOK
  <2> QED
    BY <2>1, <2>2
<1>7. ASSUME NEW j \in Jobs, Dump(j)
      PROVE  PublishedInv' /\ SlotInv'
  <2>1. /\ info[j] \in Infos /\ SignaturesOver(info[j])
        /\ UNCHANGED <<nars, narinfo>>
    BY <1>0, <1>7 DEF Dump, TypeOK, SlotInv, bucket
  <2>2. ASSUME NEW read \in Nars, DumpMatches(info[j], read), Goto(j, "nar"),
               info' = [info EXCEPT ![j] =
                          Dumped(info[j], read, Compression[Owner[j]])]
        PROVE  SlotInv'
    <3>1. Compression[Owner[j]] \in Compressions
      BY UploadAssumption DEF UploadAssumption
    <3>2. Consistent(info'[j])
      BY <1>0, <2>1, <2>2, <3>1, DumpedSound DEF TypeOK
    <3> QED
      BY <1>0, <2>1, <2>2, <3>2, SlotKept DEF Goto, TypeOK
  <2>3. CASE Return(j)
    BY <1>0, <2>1, <2>3, SlotKept, PublishedKept DEF Return, TypeOK
  <2> QED
    BY <1>7, <2>1, <2>2, <2>3, PublishedKept DEF Dump
<1>8. ASSUME NEW j \in Jobs, PutNar(j)
      PROVE  PublishedInv' /\ SlotInv'
  <2>1. /\ nars \subseteq nars' /\ UNCHANGED narinfo
        /\ Consistent(info[j])
    BY <1>0, <1>8 DEF PutNar, SlotInv
  <2>2. ASSUME NEW label \in Labels, Goto(j, label), UNCHANGED info,
               nars' = nars \cup {info[j].url}
        PROVE  SlotInv'
    <3>1. /\ pc'[j] = label
          /\ \A k \in Jobs \ {j} : pc'[k] = pc[k] /\ info'[k] = info[k]
      BY <1>0, <2>2 DEF Goto, TypeOK
    <3> QED
      BY <2>1, <2>2, <3>1, SlotKept DEF Consistent
  <2>3. ASSUME Return(j) PROVE SlotInv'
    BY <1>0, <2>1, <2>3, SlotKept DEF Return, TypeOK
  <2>4. \/ Return(j)
        \/ /\ Goto(j, "listing") \/ Goto(j, "narinfo")
           /\ nars' = nars \cup {info[j].url} /\ info' = info
    BY <1>8 DEF PutNar
  <2>5. SlotInv'
    BY <2>2, <2>3, <2>4 DEF Labels
  <2> QED
    BY <2>1, <2>5, PublishedKept
<1>9. ASSUME NEW j \in Jobs, PutListing(j)
      PROVE  PublishedInv' /\ SlotInv'
  <2>1. /\ UNCHANGED <<nars, narinfo, info>>
        /\ pc' = [pc EXCEPT ![j] = "narinfo"]
        /\ Consistent(info[j]) /\ info[j].url \in nars
    BY <1>0, <1>9 DEF PutListing, Goto, SlotInv
  <2> QED
    BY <1>0, <2>1, SlotKept, PublishedKept DEF TypeOK
<1>10. ASSUME NEW j \in Jobs, PutNarInfo(j)
       PROVE  PublishedInv' /\ SlotInv'
  <2>1. PublishedInv'
    BY <1>0, <1>10, PublishedWritten DEF PutNarInfo, TypeOK, SlotInv
  <2>2. SlotInv'
    BY <1>0, <1>10, SlotKept DEF PutNarInfo, Return, TypeOK
  <2> QED
    BY <2>1, <2>2
<1>11. CASE UNCHANGED vars
  BY <1>0, <1>11 DEF vars, PublishedInv, SlotInv
<1> QED
  BY <1>1, <1>2, <1>3, <1>4, <1>5, <1>6, <1>7, <1>8, <1>9, <1>10, <1>11
  DEF Next, Job

LEMMA Invariance == Spec => []IInv
BY IInvInit, IInvNext, PTL DEF Spec

-----------------------------------------------------------------------------
(* The theorems.                                                           *)

\* Every state of every run of the uploads is well typed; that the url of a
\* slot about to store its NAR is a file needs SlotInv.
THEOREM UploadTypeCorrect == Spec => []TypeOK
BY Invariance, PTL DEF IInv

\* Whatever fails, crashes or runs at the same time, no published .narinfo
\* names a NAR file that is missing.
THEOREM UploadNeverDangles == Spec => []NoDanglingInfo
<1>1. IInv => NoDanglingInfo
  BY DEF IInv, PublishedInv, NoDanglingInfo
<1> QED
  BY <1>1, Invariance, PTL

\* A published .narinfo is right about its file, after any number of
\* signature updates and replacements by other processes.
THEOREM UploadDescribesFile == Spec => []PublishedInfoDescribesFile
<1>1. IInv => PublishedInfoDescribesFile
  BY DEF IInv, PublishedInv, PublishedInfoDescribesFile, Consistent
<1> QED
  BY <1>1, Invariance, PTL

\* Machines whose builds of a path differ never make a bucket carry a
\* signature over another NAR.
THEOREM UploadSignaturesVerify == Spec => []SignaturesVerify
<1>1. IInv => SignaturesVerify
  BY DEF IInv, PublishedInv, SignaturesVerify, Consistent
<1> QED
  BY <1>1, Invariance, PTL

\* The steps that touch the bucket, and what each is to a reader of it.
LEMMA StepRefines ==
  IInv /\ [Next]_vars => [Bucket!Next]_(Bucket!bucketVars)
<1> SUFFICES ASSUME IInv, Next
             PROVE  Bucket!Next \/ UNCHANGED <<nars, narinfo>>
  BY DEF Bucket!bucketVars, vars
<1>0. TypeOK /\ SlotInv
  BY DEF IInv
<1>1. ASSUME NEW j \in Jobs, NEW p \in Paths, NEW i \in Infos,
             Consistent(i), i.url \in nars, UNCHANGED nars,
             WriteNarInfo(p, i) \/ UNCHANGED narinfo
      PROVE  Bucket!Next \/ UNCHANGED <<nars, narinfo>>
  <2>1. ASSUME WriteNarInfo(p, i) PROVE Bucket!Publish(p, i)
    BY <1>1, <2>1, SameData DEF Bucket!Publish, WriteNarInfo
  <2> QED
    BY <1>1, <2>1, SameData DEF Bucket!Next
<1>2. ASSUME NEW j \in Jobs, Merge(j) \/ PutNarInfo(j)
      PROVE  Bucket!Next \/ UNCHANGED <<nars, narinfo>>
  <2>1. /\ path[j] \in Paths /\ info[j] \in Infos
        /\ Consistent(info[j]) /\ info[j].url \in nars
        /\ UNCHANGED nars
        /\ WriteNarInfo(path[j], info[j]) \/ UNCHANGED narinfo
    BY <1>0, <1>2 DEF Merge, PutNarInfo, TypeOK, SlotInv
  <2> QED
    BY <1>1, <2>1
<1>3. ASSUME NEW j \in Jobs, PutNar(j)
      PROVE  Bucket!Next \/ UNCHANGED <<nars, narinfo>>
  <2>1. info[j].url \in Bucket!Files
    BY <1>0, <1>3, SameData DEF PutNar, SlotInv, Consistent, Describes
  <2>2. UNCHANGED narinfo /\ (nars' = nars \/ nars' = nars \cup {info[j].url})
    BY <1>3 DEF PutNar
  <2> QED
    BY <2>1, <2>2 DEF Bucket!Next, Bucket!StoreFile
<1>4. ASSUME NEW j \in Jobs,
             StartJob(j) \/ Check(j) \/ Dump(j) \/ PutListing(j)
      PROVE  UNCHANGED <<nars, narinfo>>
  BY <1>4 DEF StartJob, Check, Dump, PutListing, bucket
<1>5. ASSUME NEW u \in Uploaders,
             ReadCacheInfo(u) \/ CreateCacheInfo(u) \/ Crash(u)
      PROVE  UNCHANGED <<nars, narinfo>>
  BY <1>5 DEF ReadCacheInfo, CreateCacheInfo, Crash, bucket
<1> QED
  BY <1>2, <1>3, <1>4, <1>5 DEF Next, Job

\* All uploads together implement the bucket that Nix clients rely on: files
\* are only added, and a .narinfo is published only when it is right.
THEOREM UploadRefinement == Spec => ImplementsBinaryCache
<1>1. Init => Bucket!Init
  BY DEF Init
<1> QED
  BY <1>1, StepRefines, Invariance, PTL
  DEF Spec, ImplementsBinaryCache, Bucket!Spec
-----------------------------------------------------------------------------
(* Store directories.                                                      *)

\* Whoever uploads has the directory of the nix-cache-info that is there, and
\* whoever is about to write one still sees none: with two such processes
\* the second part does not hold.
DirAgrees(u) ==
  /\ up[u] = "run" => cacheInfo # None /\ EffectiveDir(cacheInfo) = StoreDir[u]
  /\ up[u] = "create" => cacheInfo = None

DirInv == \A u \in Uploaders : DirAgrees(u)

LEMMA DirNext == IInv /\ DirInv /\ OneCreates /\ [Next]_vars => DirInv'
<1> SUFFICES ASSUME IInv, DirInv, OneCreates, [Next]_vars,
                    NEW v \in Uploaders
             PROVE  DirAgrees(v)'
  BY DEF DirInv
<1>0. up \in [Uploaders -> UpStates]
  BY DEF IInv, TypeOK
<1>1. ASSUME NEW u \in Uploaders, ReadCacheInfo(u) PROVE DirAgrees(v)'
  BY <1>0, <1>1 DEF ReadCacheInfo, bucket, DirInv, DirAgrees, EffectiveDir, UpStates
<1>2. ASSUME NEW u \in Uploaders, CreateCacheInfo(u) PROVE DirAgrees(v)'
  <2>1. cacheInfo = None /\ \A w \in Uploaders \ {u} : up[w] \notin {"run", "create"}
    BY <1>2 DEF CreateCacheInfo, DirInv, DirAgrees, OneCreates
  <2>2. /\ StoreDir[u] # None
        /\ EffectiveDir(StoreDir[u]) = StoreDir[u]
    BY UploadAssumption DEF UploadAssumption, EffectiveDir
  <2> QED
    BY <1>0, <1>2, <2>1, <2>2 DEF CreateCacheInfo, DirAgrees, EffectiveDir, UpStates
<1>3. ASSUME NEW u \in Uploaders, Crash(u) PROVE DirAgrees(v)'
  BY <1>0, <1>3 DEF Crash, bucket, DirInv, DirAgrees, EffectiveDir, UpStates
<1>4. ASSUME NEW j \in Jobs, Job(j) PROVE DirAgrees(v)'
  <2>1. UNCHANGED <<cacheInfo, up>>
    BY <1>4 DEF Job, StartJob, Check, Merge, Dump, PutNar, PutListing,
                PutNarInfo, bucket
  <2> QED
    BY <2>1 DEF DirInv, DirAgrees, EffectiveDir
<1>5. CASE UNCHANGED vars
  BY <1>5 DEF vars, DirInv, DirAgrees, EffectiveDir
<1> QED
  BY <1>1, <1>2, <1>3, <1>4, <1>5 DEF Next

\* If no two processes find the bucket without a nix-cache-info at the same
\* time, whatever else fails, all that upload have the bucket's directory.
THEOREM DirectoryAgreed == Spec => OneStoreDirUnlessRaced
<1>1. Init => DirInv
  BY DEF Init, DirInv, DirAgrees
<1>2. DirInv => OneStoreDir
  BY DEF DirInv, DirAgrees, OneStoreDir
<1> QED
  BY <1>1, <1>2, DirNext, Invariance, PTL DEF Spec, OneStoreDirUnlessRaced

-----------------------------------------------------------------------------
(* Published files stay.                                                   *)

\* That a .narinfo names a file.
Names(b, f) == b \in Infos /\ b.url = f

\* A slot that will publish a file publishes the one that is published, if
\* there is one by then; a slot that merges has the URL that is published.
SlotStable(j) ==
  /\ pc[j] \in {"nar", "listing", "narinfo"} => info[j].url = FileToBe(j)
  /\ pc[j] \in Uploading =>
       narinfo[path[j]] = None \/ Names(narinfo[path[j]], FileToBe(j))
  /\ pc[j] = "merge" => Names(narinfo[path[j]], info[j].url)

StableInv == \A j \in Jobs : SlotStable(j)

\* What slot j may do to what is published.
StableWrite(j) ==
  \/ UNCHANGED narinfo
  \/ /\ WriteNarInfo(path[j], info[j])
     /\ path[j] \in Paths /\ info[j] \in Infos
     /\ \/ Names(narinfo[path[j]], info[j].url)
        \/ /\ narinfo[path[j]] = None
           /\ pc[j] = "narinfo" /\ info[j].url = FileToBe(j)

\* Only slot j has moved.
OnlySlot(j) ==
  \A k \in Jobs \ {j} : pc'[k] = pc[k] /\ path'[k] = path[k] /\ info'[k] = info[k]

LEMMA StableWriteKeeps ==
  ASSUME IInv, NEW j \in Jobs, StableWrite(j), NEW p \in Paths
  PROVE  /\ narinfo'[p] # None /\ narinfo[p] = None =>
              /\ pc[j] = "narinfo" /\ path[j] = p
              /\ Names(narinfo'[p], FileToBe(j))
         /\ \A f : Names(narinfo[p], f) => Names(narinfo'[p], f)
<1>1. narinfo \in [Paths -> Blobs]
  BY DEF IInv, TypeOK, Bucket!BucketType, Bucket!Blobs, Blobs,
         Bucket!Infos, Infos, Bucket!Files, Files, Bucket!Signatures, Signatures
<1>2. None \notin Infos
  BY DataAssumption DEF DataAssumption
<1> QED
  BY <1>1, <1>2 DEF StableWrite, WriteNarInfo, Names

LEMMA OthersStable ==
  ASSUME IInv, StableInv, UploadsAgree, NEW j \in Jobs, StableWrite(j),
         OnlySlot(j), SlotStable(j)'
  PROVE  StableInv'
<1> SUFFICES ASSUME NEW k \in Jobs \ {j} PROVE SlotStable(k)'
  BY DEF StableInv
<1>1. /\ pc'[k] = pc[k] /\ path'[k] = path[k] /\ info'[k] = info[k]
      /\ FileToBe(k)' = FileToBe(k)
  BY DEF OnlySlot, FileToBe
<1>2. CASE pc[k] \notin Uploading \cup {"merge"}
  BY <1>1, <1>2 DEF SlotStable, Uploading
<1>3. CASE pc[k] \in Uploading \cup {"merge"}
  <2>1. path[k] \in Paths /\ SlotStable(k)
    BY <1>3 DEF IInv, TypeOK, StableInv, Uploading
  <2>2. /\ narinfo'[path[k]] # None /\ narinfo[path[k]] = None =>
             /\ pc[j] = "narinfo" /\ path[j] = path[k]
             /\ Names(narinfo'[path[k]], FileToBe(j))
        /\ \A f : Names(narinfo[path[k]], f) => Names(narinfo'[path[k]], f)
    BY <2>1, StableWriteKeeps
  <2>3. pc[j] = "narinfo" /\ path[j] = path[k] /\ pc[k] \in Uploading =>
          FileToBe(j) = FileToBe(k)
    BY DEF UploadsAgree, Uploading
  <2>4. pc[k] \in Uploading =>
          narinfo'[path[k]] = None \/ Names(narinfo'[path[k]], FileToBe(k))
    BY <2>1, <2>2, <2>3 DEF SlotStable
  <2> QED
    BY <1>1, <2>1, <2>2, <2>4 DEF SlotStable
<1> QED
  BY <1>2, <1>3

\* Each step of a slot keeps its own part and writes at most that way.
LEMMA JobStable ==
  ASSUME IInv, StableInv, Forced = {}, NEW j \in Jobs, Job(j)
  PROVE  StableWrite(j) /\ OnlySlot(j) /\ SlotStable(j)'
<1>0. /\ pc \in [Jobs -> Labels]
      /\ path \in [Jobs -> Paths \cup {None}]
      /\ info \in [Jobs -> Infos \cup {None}]
      /\ pc[j] # "idle" => path[j] \in Paths /\ info[j] \in Infos
  BY DEF IInv, TypeOK
<1>1. SlotStable(j)
  BY DEF StableInv
<1>2. CASE Return(j) /\ StableWrite(j)
  BY <1>0, <1>2 DEF Return, OnlySlot, SlotStable, Uploading
<1>3. CASE StartJob(j)
  <2>1. pc' = [pc EXCEPT ![j] = "check"] /\ UNCHANGED narinfo
    BY <1>3 DEF StartJob, Goto, bucket
  <2>2. OnlySlot(j) /\ pc'[j] = "check"
    BY <1>0, <1>3, <2>1 DEF StartJob, OnlySlot
  <2> QED
    BY <2>1, <2>2 DEF SlotStable, StableWrite, Uploading
<1>4. CASE Check(j)
  <2>0. UNCHANGED narinfo /\ pc[j] = "check"
    BY <1>4 DEF Check, bucket
  <2>1. CASE narinfo[path[j]] = None /\ Goto(j, "dump") /\ UNCHANGED <<path, info>>
    BY <1>0, <2>0, <2>1 DEF Goto, OnlySlot, SlotStable, StableWrite, Uploading
  <2>2. CASE /\ MayMerge(narinfo[path[j]], info[j])
             /\ info' = [info EXCEPT ![j] = Merged(narinfo[path[j]], info[j])]
             /\ Goto(j, "merge")
             /\ UNCHANGED path
    <3>1. /\ narinfo[path[j]] \in Infos
          /\ Merged(narinfo[path[j]], info[j]).url = narinfo[path[j]].url
      BY <1>0, <2>0, <2>2, MergedSound DEF MayMerge
    <3> QED
      BY <1>0, <2>0, <2>2, <3>1
      DEF Goto, OnlySlot, SlotStable, StableWrite, Names, Uploading
  <2>3. CASE Return(j)
    BY <1>2, <2>0, <2>3 DEF StableWrite
  <2> QED
    BY <1>4, <2>1, <2>2, <2>3 DEF Check
<1>5. CASE Merge(j)
  <2>1. StableWrite(j)
    BY <1>0, <1>1, <1>5 DEF Merge, StableWrite, SlotStable
  <2> QED
    BY <1>2, <1>5, <2>1 DEF Merge
<1>6. CASE Dump(j)
  <2>0. UNCHANGED narinfo /\ pc[j] = "dump"
    BY <1>6 DEF Dump, bucket
  <2>1. CASE Return(j)
    BY <1>2, <2>0, <2>1 DEF StableWrite
  <2>2. ASSUME NEW read \in Nars,
               DumpMatches(info[j], read),
               info' = [info EXCEPT ![j] =
                          Dumped(info[j], read, Compression[Owner[j]])],
               Goto(j, "nar"), UNCHANGED path
        PROVE  OnlySlot(j) /\ SlotStable(j)'
    <3>1. info[j] \in Infos /\ read = info[j].nar
      BY <1>0, <2>0, <2>2 DEF DumpMatches
    <3>2. /\ info'[j].url = FileToBe(j)
          /\ FileToBe(j)' = FileToBe(j)
      BY <1>0, <2>2, <3>1 DEF Dumped, FileToBe, Infos
    <3> QED
      BY <1>0, <1>1, <2>0, <2>2, <3>2
      DEF Goto, OnlySlot, SlotStable, Uploading
  <2> QED
    BY <1>6, <2>0, <2>1, <2>2 DEF Dump, StableWrite
<1>7. CASE PutNar(j)
  <2>0. UNCHANGED narinfo /\ pc[j] = "nar"
    BY <1>7 DEF PutNar
  <2>1. CASE Return(j)
    BY <1>2, <2>0, <2>1 DEF StableWrite
  <2>2. CASE (Goto(j, "listing") \/ Goto(j, "narinfo")) /\ UNCHANGED <<path, info>>
    BY <1>0, <1>1, <2>0, <2>2
    DEF Goto, OnlySlot, SlotStable, StableWrite, FileToBe, Uploading
  <2> QED
    BY <1>7, <2>1, <2>2 DEF PutNar
<1>8. CASE PutListing(j)
  BY <1>0, <1>1, <1>8
  DEF PutListing, Goto, OnlySlot, SlotStable, StableWrite, FileToBe, Uploading
<1>9. CASE PutNarInfo(j)
  <2>1. StableWrite(j)
    BY <1>0, <1>1, <1>9 DEF PutNarInfo, StableWrite, SlotStable, Uploading
  <2> QED
    BY <1>2, <1>9, <2>1 DEF PutNarInfo
<1> QED
  BY <1>3, <1>4, <1>5, <1>6, <1>7, <1>8, <1>9 DEF Job

LEMMA StableNext ==
  ASSUME IInv, StableInv, UploadsAgree, Forced = {}, [Next]_vars
  PROVE  StableInv'
<1>1. CASE \E j \in Jobs : Job(j)
  BY <1>1, JobStable, OthersStable
<1>2. ASSUME NEW u \in Uploaders, Crash(u)
      PROVE  StableInv'
  BY <1>2 DEF Crash, bucket, StableInv, SlotStable, FileToBe, Uploading
<1>3. CASE (\E u \in Uploaders : ReadCacheInfo(u) \/ CreateCacheInfo(u))
           \/ UNCHANGED vars
  <2>1. UNCHANGED <<narinfo, pc, path, info>>
    BY <1>3 DEF ReadCacheInfo, CreateCacheInfo, vars, bucket, slots
  <2> QED
    BY <2>1 DEF StableInv, SlotStable, FileToBe
<1> QED
  BY <1>1, <1>2, <1>3 DEF Next

\* Without --force, no job is ever about to replace what was published for a
\* path by another file, unless two were uploading different files for one
\* path at the same time: for any number of processes, whatever they build,
\* however often they build it again, and however they compress it.
THEOREM PublishedFilesStay ==
  Forced = {} => (Spec => PublishedFileStableUnlessRaced)
<1> SUFFICES ASSUME Forced = {} PROVE Spec => PublishedFileStableUnlessRaced
  OBVIOUS
<1>1. Init => StableInv
  BY DEF Init, StableInv, SlotStable, Uploading
<1>2. IInv /\ StableInv /\ UploadsAgree /\ [Next]_vars => StableInv'
  BY StableNext
<1>3. IInv /\ StableInv => WritesKeepFile
  BY DEF StableInv, SlotStable, WritesKeepFile, Names, FileOf, Uploading,
         IInv, TypeOK
<1> QED
  BY <1>1, <1>2, <1>3, Invariance, PTL DEF Spec, PublishedFileStableUnlessRaced
-----------------------------------------------------------------------------
(* Signatures stay.                                                        *)

\* Who dumps has seen no .narinfo, and who merges holds all its signatures;
\* both are still true of the bucket while nobody else writes that path.
SlotKeeps(j) ==
  /\ pc[j] \in {"dump", "nar", "listing", "narinfo"} => narinfo[path[j]] = None
  /\ pc[j] = "merge" =>
       /\ narinfo[path[j]] \in Infos
       /\ narinfo[path[j]].sigs \subseteq info[j].sigs

KeepInv == \A j \in Jobs : SlotKeeps(j)

\* What slot j writes is at its own path, and only on its way out.
LEMMA JobKeeps ==
  ASSUME IInv, KeepInv, Forced = {}, NEW j \in Jobs, Job(j)
  PROVE  /\ OnlySlot(j) /\ SlotKeeps(j)'
         /\ \/ UNCHANGED narinfo
            \/ pc[j] \in Writing /\ WriteNarInfo(path[j], info[j])
<1>0. /\ pc \in [Jobs -> Labels]
      /\ path \in [Jobs -> Paths \cup {None}]
      /\ info \in [Jobs -> Infos \cup {None}]
      /\ pc[j] # "idle" => path[j] \in Paths /\ info[j] \in Infos
  BY DEF IInv, TypeOK
<1>1. SlotKeeps(j)
  BY DEF KeepInv
<1>2. ASSUME Return(j) PROVE OnlySlot(j) /\ SlotKeeps(j)'
  BY <1>0, <1>2 DEF Return, OnlySlot, SlotKeeps
<1>3. CASE StartJob(j)
  BY <1>0, <1>3 DEF StartJob, Goto, bucket, OnlySlot, SlotKeeps
<1>4. CASE Check(j)
  <2>0. UNCHANGED narinfo /\ pc[j] = "check"
    BY <1>4 DEF Check, bucket
  <2>1. CASE narinfo[path[j]] = None /\ Goto(j, "dump") /\ UNCHANGED <<path, info>>
    BY <1>0, <2>0, <2>1 DEF Goto, OnlySlot, SlotKeeps
  <2>2. CASE /\ MayMerge(narinfo[path[j]], info[j])
             /\ info' = [info EXCEPT ![j] = Merged(narinfo[path[j]], info[j])]
             /\ Goto(j, "merge")
             /\ UNCHANGED path
    <3>1. /\ narinfo[path[j]] \in Infos
          /\ narinfo[path[j]].sigs \subseteq Merged(narinfo[path[j]], info[j]).sigs
      BY <2>2 DEF MayMerge, Merged, Infos
    <3> QED
      BY <1>0, <2>0, <2>2, <3>1 DEF Goto, OnlySlot, SlotKeeps
  <2> QED
    BY <1>2, <1>4, <2>0, <2>1, <2>2 DEF Check
<1>5. CASE Merge(j) \/ PutNarInfo(j)
  BY <1>2, <1>5 DEF Merge, PutNarInfo, Writing
<1>6. CASE Dump(j)
  <2>1. UNCHANGED narinfo /\ pc[j] = "dump"
    BY <1>6 DEF Dump, bucket
  <2>2. CASE Goto(j, "nar") /\ UNCHANGED path
             /\ \A k \in Jobs \ {j} : info'[k] = info[k]
    BY <1>0, <1>1, <2>1, <2>2 DEF Goto, OnlySlot, SlotKeeps
  <2> QED
    BY <1>0, <1>2, <1>6, <2>1, <2>2 DEF Dump
<1>7. CASE PutNar(j) \/ PutListing(j)
  <2>1. UNCHANGED narinfo /\ pc[j] \in {"nar", "listing"}
    BY <1>7 DEF PutNar, PutListing
  <2>2. CASE (Goto(j, "listing") \/ Goto(j, "narinfo")) /\ UNCHANGED <<path, info>>
    BY <1>0, <1>1, <2>1, <2>2 DEF Goto, OnlySlot, SlotKeeps
  <2> QED
    BY <1>2, <1>7, <2>1, <2>2 DEF PutNar, PutListing
<1> QED
  BY <1>3, <1>4, <1>5, <1>6, <1>7 DEF Job

LEMMA KeepNext ==
  ASSUME IInv, KeepInv, NoOverlap, Forced = {}, [Next]_vars
  PROVE  KeepInv'
<1> SUFFICES ASSUME NEW k \in Jobs PROVE SlotKeeps(k)'
  BY DEF KeepInv
<1>0. /\ SlotKeeps(k) /\ pc \in [Jobs -> Labels] /\ DOMAIN narinfo = Paths
      /\ pc[k] # "idle" => path[k] \in Paths
  BY DEF KeepInv, IInv, TypeOK, Bucket!BucketType
<1>1. ASSUME NEW j \in Jobs, Job(j) PROVE SlotKeeps(k)'
  <2>1. CASE j = k
    BY <1>1, <2>1, JobKeeps
  <2>2. CASE j # k
    <3>1. pc'[k] = pc[k] /\ path'[k] = path[k] /\ info'[k] = info[k]
      BY <1>1, <2>2, JobKeeps DEF OnlySlot
    <3>2. CASE pc[k] \notin Writing
      BY <3>1, <3>2 DEF SlotKeeps, Writing
    <3>3. CASE pc[k] \in Writing
      <4>1. narinfo'[path[k]] = narinfo[path[k]]
        BY <1>0, <1>1, <2>2, <3>3, JobKeeps DEF NoOverlap, WriteNarInfo, Writing
      <4> QED
        BY <1>0, <3>1, <4>1 DEF SlotKeeps
    <3> QED
      BY <3>2, <3>3
  <2> QED
    BY <2>1, <2>2
<1>2. ASSUME NEW u \in Uploaders, Crash(u) PROVE SlotKeeps(k)'
  BY <1>0, <1>2 DEF Crash, bucket, SlotKeeps
<1>3. CASE (\E u \in Uploaders : ReadCacheInfo(u) \/ CreateCacheInfo(u))
           \/ UNCHANGED vars
  <2>1. UNCHANGED <<narinfo, pc, path, info>>
    BY <1>3 DEF ReadCacheInfo, CreateCacheInfo, vars, bucket, slots
  <2> QED
    BY <1>0, <2>1 DEF SlotKeeps
<1> QED
  BY <1>1, <1>2, <1>3 DEF Next

\* Without --force, no job is ever about to drop a published signature, unless
\* two have been writing one path at the same time: for any number of
\* processes, whatever their builds and keys.
THEOREM SignaturesStay == Forced = {} => (Spec => SignaturesKeptUnlessRaced)
<1> SUFFICES ASSUME Forced = {} PROVE Spec => SignaturesKeptUnlessRaced
  OBVIOUS
<1>1. Init => KeepInv
  BY DEF Init, KeepInv, SlotKeeps
<1>2. IInv /\ KeepInv /\ NoOverlap /\ [Next]_vars => KeepInv'
  BY KeepNext
<1>3. KeepInv => WritesKeepSignatures
  BY DEF KeepInv, SlotKeeps, WritesKeepSignatures
<1> QED
  BY <1>1, <1>2, <1>3, Invariance, PTL DEF Spec, SignaturesKeptUnlessRaced
=============================================================================
