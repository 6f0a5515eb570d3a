---------------------------- MODULE UICacheProofs ----------------------------
(***************************************************************************)
(* Proofs that the cache in front of the bucket stays right, for any sets  *)
(* of paths, NARs, clients and store directories and any number of uploads *)
(* and crawls.  Four invariants are added to the types one at a time: what *)
(* anybody holds is sound, rows keep their directory, what a client has    *)
(* got fits together, and a crawl accounts for every digest it has seen.   *)
(* At the end, that a crawl can always go on, and not for ever.            *)
(***************************************************************************)
EXTENDS UICache, FiniteSetTheorems, TLAPS

-----------------------------------------------------------------------------
(* Types.                                                                  *)

LEMMA InfoFields ==
  ASSUME NEW i \in Infos
  PROVE  i.comp \in Compressions /\ i.url \in Files \cup {None}
BY DEF Infos

LEMMA Distinct ==
  /\ None \notin Infos /\ None \notin Paths /\ None \notin Files
  /\ None \notin Compressions /\ None \notin StoreDirs /\ None # Unset
  /\ Crawler \notin Clients /\ DefaultDir \in StoreDirs
BY DataAssumption, UICacheAssumption DEF DataAssumption, UICacheAssumption

\* The instance of BinaryCache speaks of the same data.
LEMMA SameBucketData ==
  /\ Bucket!Infos = Infos /\ Bucket!Files = Files /\ Bucket!Blobs = Blobs
  /\ \A i \in Infos : Bucket!Consistent(i) <=> Consistent(i)
BY DEF Bucket!Infos, Bucket!Files, Bucket!Blobs, Bucket!Signatures,
       Bucket!Consistent, Bucket!Describes, Bucket!SignaturesOver,
       Infos, Files, Blobs, Signatures, Consistent, Describes, SignaturesOver

LEMMA TypeInit == Init => TypeOK
<1> SUFFICES ASSUME Init PROVE TypeOK
  OBVIOUS
<1>1. Bucket!BucketType
  <2>1. narinfo \in [Paths -> Blobs]
    BY SameBucketData DEF Init, Bucket!Init, Blobs
  <2>2. \A q \in Paths : narinfo[q] \in Infos => narinfo[q].url \in Files
    BY <2>1, SameBucketData, DataAssumption
    DEF Init, Bucket!Init, Consistent, Describes, DataAssumption
  <2> QED
    BY <2>1, <2>2, SameBucketData DEF Init, Bucket!Init, Bucket!BucketType
<1>2. 0 \in 0..MaxPublish /\ 0 \in 0..MaxCrawls
  BY UICacheAssumption DEF UICacheAssumption
<1> QED
  BY <1>1, <1>2, Distinct DEF Init, TypeOK, Actors, InfoOrNone

\* The steps of whoever it is that needs the store directory.
LEMMA TypeDir ==
  ASSUME TypeOK, NEW a \in Actors,
         LookupDir(a) \/ FetchDir(a) \/ SaveDir(a)
  PROVE  TypeOK'
<1> USE DEF TypeOK, Goto, AfterDir, Bucket!BucketType
<1>1. CASE LookupDir(a)
  BY <1>1, Distinct DEF LookupDir, bucket, client, crawl, listing, Actors
<1>2. CASE FetchDir(a)
  BY <1>2, Distinct DEF FetchDir, bucket, client, crawl, listing, Actors
<1>3. CASE SaveDir(a)
  BY <1>3, Distinct DEF SaveDir, bucket, client, crawl, listing, Actors
<1> QED
  BY <1>1, <1>2, <1>3

LEMMA TypeClient ==
  ASSUME TypeOK, NEW r \in Clients,
         \/ AskNar(r) \/ Lookup(r) \/ Fetch(r) \/ Save(r) \/ RespondInfo(r)
         \/ RespondNar(r) \/ GiveUp(r) \/ \E p \in Paths : Ask(r, p)
  PROVE  TypeOK'
<1> USE DEF TypeOK, Goto, Bucket!BucketType, Actors, InfoOrNone
<1>1. CASE \E p \in Paths : Ask(r, p)
  BY <1>1, Distinct DEF Ask, bucket, crawl, listing
<1>2. CASE AskNar(r)
  <2>1. got[r].comp \in Compressions
    BY <1>2, InfoFields DEF AskNar
  <2> QED
    BY <1>2, <2>1, Distinct DEF AskNar, bucket, crawl, listing
<1>3. CASE Lookup(r)
  BY <1>3, Distinct DEF Lookup, bucket, crawl, listing
<1>4. CASE Fetch(r)
  BY <1>4, Distinct DEF Fetch, bucket, crawl, listing
<1>5. CASE Save(r)
  BY <1>5, Distinct DEF Save, Upsert, bucket, client, crawl, listing
<1>6. CASE RespondInfo(r)
  BY <1>6, Distinct DEF RespondInfo, Done, bucket, crawl, listing
<1>7. CASE RespondNar(r)
  <2>1. body'[r] \in Files /\ body' = [body EXCEPT ![r] = held[r].url]
    BY <1>7, SameBucketData DEF RespondNar
  <2> QED
    BY <1>7, <2>1, Distinct DEF RespondNar, Done, bucket, crawl, listing
<1>8. CASE GiveUp(r)
  BY <1>8, Distinct DEF GiveUp, Done, bucket, crawl, listing
<1> QED
  BY <1>1, <1>2, <1>3, <1>4, <1>5, <1>6, <1>7, <1>8

LEMMA TypeCrawl ==
  ASSUME TypeOK,
         \/ BeginCrawl \/ Cancel \/ CrawlFails \/ BeginList \/ ListEnds
         \/ ListFails \/ BatchFull \/ CheckContext \/ FetchedAll \/ SaveBatch
         \/ \E p \in Paths : ReadDigest(p) \/ FetchOne(p)
  PROVE  TypeOK'
<1> USE DEF TypeOK, Goto, Bucket!BucketType, Actors, InfoOrNone
<1>1. CASE BeginCrawl
  BY <1>1, Distinct, UICacheAssumption
  DEF BeginCrawl, bucket, client, listing, UICacheAssumption
<1>2. CASE Cancel
  BY <1>2, Distinct DEF Cancel, bucket, client, listing
<1>3. CASE CrawlFails
  BY <1>3, Distinct DEF CrawlFails, EndCrawl, bucket, client, listing
<1>4. CASE BeginList
  BY <1>4, Distinct DEF BeginList, Existing, bucket, client
<1>5. CASE ListEnds \/ ListFails
  BY <1>5, Distinct DEF ListEnds, ListFails, bucket, client
<1>6. CASE BatchFull \/ FetchedAll
  BY <1>6, Distinct DEF BatchFull, FetchedAll, bucket, client, crawl, listing
<1>7. CASE CheckContext
  <2>1. CASE EndCrawl
    BY <1>7, <2>1, Distinct DEF CheckContext, EndCrawl, bucket, client, listing
  <2>2. CASE ~ EndCrawl
    BY <1>7, <2>2, Distinct DEF CheckContext, bucket, client, listing
  <2> QED
    BY <2>1, <2>2
<1>8. ASSUME NEW p \in Paths, ReadDigest(p) PROVE TypeOK'
  BY <1>8, Distinct DEF ReadDigest, bucket, client
<1>9. ASSUME NEW p \in Paths, FetchOne(p) PROVE TypeOK'
  <2>1. /\ fetched' \in [Paths -> Infos \cup {None}] /\ missed' \subseteq Paths
        /\ failed' \in BOOLEAN
    BY <1>9, ZenonT(30) DEF FetchOne
  <2> QED
    BY <1>9, <2>1, Distinct DEF FetchOne, bucket, client
<1>10. CASE SaveBatch
  <2>1. cache' \in [Paths -> Infos \cup {None}] /\ missed' \subseteq Paths
    BY <1>10 DEF SaveBatch, SaveResults, Upsert, Results
  <2> QED
    <3>1. CASE EndCrawl
      BY <1>10, <2>1, <3>1, Distinct DEF SaveBatch, EndCrawl, bucket, client
    <3>2. CASE ~ EndCrawl
      <4>1. /\ UNCHANGED <<bucket, dirRow, client, iter, seen, batch, present,
                           cancelled, crawls, dir, discovered>>
            /\ fetched' = [p \in Paths |-> None] /\ failed' = FALSE
            /\ pc' = [pc EXCEPT ![Crawler] = "read"] /\ pc[Crawler] = "save"
        BY <1>10, <3>2 DEF SaveBatch
      <4>2. \A a \in Actors : pc'[a] = pc[a] \/ pc'[a] = "read"
        <5>1. DOMAIN pc = Actors
          OBVIOUS
        <5> QED
          BY ONLY <4>1, <5>1
      <4>3. \A a \in Actors : pc'[a] \notin {"idle", "dir", "fetchDir"} => dir'[a] # None
        BY <4>1, <4>2
      <4> QED
        BY <2>1, <4>1, <4>2, <4>3, Distinct DEF bucket, client
    <3> QED
      BY <3>1, <3>2
<1> QED
  BY <1>1, <1>2, <1>3, <1>4, <1>5, <1>6, <1>7, <1>8, <1>9, <1>10

LEMMA TypeUploads ==
  ASSUME TypeOK, Uploads
  PROVE  TypeOK'
<1> USE DEF TypeOK, Bucket!BucketType
<1>1. ASSUME NEW f \in Files, Upload(f) PROVE TypeOK'
  BY <1>1, SameBucketData DEF Upload, Bucket!StoreFile, client, crawl, listing
<1>2. ASSUME NEW p \in Paths, NEW i \in Infos, Publish(p, i) PROVE TypeOK'
  <2>1. published' \in 0..MaxPublish
    BY <1>2, UICacheAssumption DEF Publish, UICacheAssumption
  <2> QED
    BY <1>2, <2>1, SameBucketData
    DEF Publish, Bucket!Publish, Blobs, client, crawl, listing
<1>3. CASE CreateCacheInfo
  BY <1>3, UICacheAssumption
  DEF CreateCacheInfo, client, crawl, listing, UICacheAssumption
<1> QED
  BY <1>1, <1>2, <1>3 DEF Uploads

LEMMA TypeNext == TypeOK /\ [Next]_vars => TypeOK'
<1> SUFFICES ASSUME TypeOK, [Next]_vars PROVE TypeOK'
  OBVIOUS
<1>1. CASE UNCHANGED vars
  BY <1>1 DEF vars, bucket, client, crawl, listing, TypeOK, Bucket!BucketType
<1>2. ASSUME NEW r \in Clients,
             AskNar(r) \/ Serve(r) \/ \E p \in Paths : Ask(r, p)
      PROVE  TypeOK'
  BY <1>2, TypeDir, TypeClient DEF Serve, Actors
<1>3. CASE BeginCrawl \/ Cancel \/ Crawl
  BY <1>3, TypeDir, TypeCrawl DEF Crawl, Actors
<1>4. CASE Uploads
  BY <1>4, TypeUploads
<1> QED
  BY <1>1, <1>2, <1>3, <1>4 DEF Next

LEMMA Types == Spec => []TypeOK
BY TypeInit, TypeNext, PTL DEF Spec

\* The crawl's steps that touch nothing but the crawl itself.
ListSteps ==
  \/ BeginCrawl \/ Cancel \/ CrawlFails \/ BeginList \/ ListEnds \/ ListFails
  \/ BatchFull \/ CheckContext \/ FetchedAll \/ \E p \in Paths : ReadDigest(p)

DirSteps(a) == LookupDir(a) \/ FetchDir(a) \/ SaveDir(a)

LEMMA ListStepsQuiet ==
  ASSUME ListSteps
  PROVE  UNCHANGED <<bucket, dirRow, cache, client, fetched>>
BY DEF ListSteps, BeginCrawl, Cancel, CrawlFails, BeginList, ListEnds,
       ListFails, BatchFull, CheckContext, FetchedAll, ReadDigest, crawl, listing

LEMMA DirStepsQuiet ==
  ASSUME NEW a \in Actors, DirSteps(a)
  PROVE  /\ UNCHANGED <<nars, narinfo, cacheInfo, published, replaced>>
         /\ UNCHANGED <<cache, client, crawl>>
BY DEF DirSteps, LookupDir, FetchDir, SaveDir, bucket

-----------------------------------------------------------------------------
(* Soundness of everything that is held.                                   *)

\* A file stays in the bucket, so a sound .narinfo stays sound; whoever
\* holds one has it from the bucket or from somebody who held it.
SoundInv ==
  /\ \A p \in Paths : narinfo[p] \in Infos => Sound(narinfo[p])
  /\ RowsSound

LEMMA SoundInit == Init => SoundInv
<1> SUFFICES ASSUME Init PROVE SoundInv
  OBVIOUS
<1>1. ASSUME NEW p \in Paths, narinfo[p] \in Infos PROVE Sound(narinfo[p])
  BY <1>1, SameBucketData, DataAssumption
  DEF Init, Bucket!Init, Sound, DataAssumption
<1> QED
  BY <1>1 DEF Init, SoundInv, RowsSound

LEMMA SoundNext == TypeOK /\ SoundInv /\ [Next]_vars => SoundInv'
<1> SUFFICES ASSUME TypeOK, SoundInv, [Next]_vars PROVE SoundInv'
  OBVIOUS
<1> USE DEF SoundInv, RowsSound
<1> DEFINE content == <<nars, narinfo, cache, fetched, held, got>>
<1>0. /\ cache \in [Paths -> Infos \cup {None}]
      /\ fetched \in [Paths -> Infos \cup {None}]
      /\ held \in [Clients -> Infos \cup {None}]
      /\ got \in [Clients -> Infos \cup {None}]
      /\ narinfo \in [Paths -> Blobs]
  BY SameBucketData DEF TypeOK, InfoOrNone, Bucket!BucketType
<1>1. ASSUME UNCHANGED content PROVE SoundInv'
  BY <1>1 DEF Sound
<1>2. ASSUME NEW a \in Actors, DirSteps(a) PROVE SoundInv'
  BY <1>1, <1>2, DirStepsQuiet DEF bucket, client, crawl, listing
<1>3. CASE ListSteps
  BY <1>1, <1>3, ListStepsQuiet DEF bucket, client
<1>4. CASE UNCHANGED vars
  BY <1>1, <1>4 DEF vars, bucket, client, crawl, listing
<1>5. ASSUME NEW r \in Clients, AskNar(r) \/ RespondNar(r) \/ GiveUp(r)
             \/ Lookup(r) \/ Fetch(r) \/ Save(r) \/ RespondInfo(r)
             \/ \E p \in Paths : Ask(r, p)
      PROVE  SoundInv'
  <2>1. UNCHANGED <<nars, narinfo, fetched>>
    BY <1>5 DEF AskNar, RespondNar, GiveUp, Lookup, Fetch, Save, RespondInfo,
                Ask, bucket, crawl, listing
  <2>2. CASE AskNar(r)
    BY <1>1, <2>1, <2>2 DEF AskNar
  <2>3. CASE GiveUp(r) \/ RespondNar(r)
    BY <1>0, <2>1, <2>3, Distinct DEF GiveUp, RespondNar, Done, Sound
  <2>4. CASE \E p \in Paths : Ask(r, p)
    BY <1>0, <2>1, <2>4, Distinct DEF Ask, Sound
  <2>5. CASE Lookup(r)
    BY <1>0, <2>1, <2>5, Distinct DEF Lookup, Sound, TypeOK
  <2>6. CASE Fetch(r)
    BY <1>0, <2>1, <2>6, Distinct DEF Fetch, Sound, TypeOK
  <2>7. CASE Save(r)
    BY <1>0, <2>1, <2>7, Distinct DEF Save, Upsert, Sound, TypeOK, client
  <2>8. CASE RespondInfo(r)
    BY <1>0, <2>1, <2>8, Distinct DEF RespondInfo, Done, Sound, TypeOK
  <2> QED
    BY <1>5, <2>2, <2>3, <2>4, <2>5, <2>6, <2>7, <2>8
<1>6. ASSUME NEW p \in Paths, FetchOne(p) PROVE SoundInv'
  <2>1. UNCHANGED <<nars, narinfo, cache, held, got>>
    BY <1>6 DEF FetchOne, bucket, client
  <2> QED
    BY <1>0, <1>6, <2>1 DEF FetchOne, Sound
<1>7. CASE SaveBatch
  <2>1. UNCHANGED <<nars, narinfo, held, got>>
        /\ fetched' = [p \in Paths |-> None]
    BY <1>7 DEF SaveBatch, bucket, client
  <2>2. \A p \in Paths : cache'[p] \in {cache[p], fetched[p]}
    BY <1>7 DEF SaveBatch, SaveResults, Upsert
  <2> QED
    BY <1>0, <2>1, <2>2 DEF Sound
<1>8. CASE Uploads
  <2>1. UNCHANGED <<cache, fetched, held, got>>
    BY <1>8 DEF Uploads, Upload, Publish, CreateCacheInfo, client, crawl, listing
  <2>2. nars \subseteq nars'
    BY <1>8 DEF Uploads, Upload, Publish, CreateCacheInfo, Bucket!StoreFile,
                Bucket!Publish
  <2>3. \A i : Sound(i) => (i.url \in nars' /\ Consistent(i))
    BY <2>2 DEF Sound
  <2>4. ASSUME NEW q \in Paths, narinfo'[q] \in Infos
        PROVE  Consistent(narinfo'[q]) /\ narinfo'[q].url \in nars'
    <3>1. CASE \E f \in Files : Upload(f)
      BY <2>3, <2>4, <3>1 DEF Upload, Bucket!StoreFile
    <3>2. CASE \E p \in Paths, i \in Infos : Publish(p, i)
      BY <1>0, <2>3, <2>4, <3>2, SameBucketData DEF Publish, Bucket!Publish
    <3>3. CASE CreateCacheInfo
      BY <2>3, <2>4, <3>3 DEF CreateCacheInfo
    <3> QED
      BY <1>8, <3>1, <3>2, <3>3 DEF Uploads
  <2> QED
    BY <2>1, <2>3, <2>4 DEF Sound
<1> QED
  BY <1>2, <1>3, <1>4, <1>5, <1>6, <1>7, <1>8
  DEF Next, Serve, Crawl, Actors, ListSteps, DirSteps

LEMMA SoundInvariance == Spec => []SoundInv
BY Types, SoundInit, SoundNext, PTL DEF Spec

-----------------------------------------------------------------------------
(* The store directory.                                                    *)

\* Whatever anybody takes for the store directory, and the directory of every
\* row, is one that the bucket has answered.
DirInv ==
  /\ \A a \in Actors : dir[a] # None => dir[a] \in answers
  /\ dirRow # None => dirRow \in answers
  /\ \A p \in Paths : cache[p] # None => DirOf[p] \in answers
  /\ \A r \in Clients : pc[r] \in {"save", "respond"} => DirOf[path[r]] \in answers

LEMMA DirInit == Init => DirInv
BY DEF Init, DirInv, Actors

LEMMA DirNext == TypeOK /\ DirInv /\ [Next]_vars => DirInv'
<1> SUFFICES ASSUME TypeOK, DirInv, [Next]_vars PROVE DirInv'
  OBVIOUS
<1> USE DEF DirInv
<1>0. /\ dir \in [Actors -> StoreDirs \cup {Unset, None}]
      /\ cache \in [Paths -> InfoOrNone]
      /\ pc = [a \in Actors |-> pc[a]]
      /\ path \in [Clients -> Paths \cup {None}]
      /\ \A a \in Actors : pc[a] \notin {"idle", "dir", "fetchDir"} => dir[a] # None
      /\ \A r \in Clients : pc[r] # "idle" => path[r] \in Paths
      /\ Crawler \in Actors /\ Clients \subseteq Actors /\ Crawler \notin Clients
  BY Distinct DEF TypeOK, Actors
<1>1. ASSUME UNCHANGED <<answers, dirRow, cache, pc, dir, path>> PROVE DirInv'
  BY <1>1
<1>2. CASE UNCHANGED vars
  BY <1>1, <1>2 DEF vars, bucket, client
<1>3. CASE Uploads
  BY <1>1, <1>3 DEF Uploads, Upload, Publish, CreateCacheInfo, client
<1>4. ASSUME NEW a \in Actors, DirSteps(a) PROVE DirInv'
  <2>1. UNCHANGED <<cache, path>>
    BY <1>4, DirStepsQuiet DEF client
  <2>2. CASE LookupDir(a)
    BY <1>0, <2>1, <2>2, Distinct DEF LookupDir, Goto, AfterDir, bucket
  <2>3. CASE FetchDir(a)
    <3>1. PICK d \in {IF cacheInfo = None THEN DefaultDir ELSE cacheInfo} :
            dir' = [dir EXCEPT ![a] = d] /\ answers' = answers \cup {d}
      BY <2>3 DEF FetchDir
    <3> QED
      BY <1>0, <2>1, <2>3, <3>1 DEF FetchDir, Goto
  <2>4. CASE SaveDir(a)
    BY <1>0, <2>1, <2>4 DEF SaveDir, Goto, AfterDir, bucket
  <2> QED
    BY <1>4, <2>2, <2>3, <2>4 DEF DirSteps
<1>5. CASE ListSteps
  <2>1. UNCHANGED <<answers, dirRow, cache, path>>
    BY <1>5, ListStepsQuiet DEF bucket, client
  <2>2. /\ \A a \in Actors : dir'[a] \in {dir[a], None}
        /\ \A r \in Clients : pc'[r] = pc[r]
    BY <1>0, <1>5
    DEF ListSteps, BeginCrawl, Cancel, CrawlFails, BeginList, ListEnds,
        ListFails, BatchFull, CheckContext, FetchedAll, ReadDigest, EndCrawl, Goto
  <2> QED
    BY <2>1, <2>2
<1>6. ASSUME NEW r \in Clients, AskNar(r) \/ RespondNar(r) \/ GiveUp(r)
             \/ Lookup(r) \/ Fetch(r) \/ Save(r) \/ RespondInfo(r)
             \/ \E p \in Paths : Ask(r, p)
      PROVE  DirInv'
  <2>1. UNCHANGED <<answers, dirRow>>
    BY <1>6 DEF AskNar, RespondNar, GiveUp, Lookup, Fetch, Save, RespondInfo,
       Ask, bucket
  <2>2. CASE AskNar(r) \/ \E p \in Paths : Ask(r, p)
    <3>1. /\ UNCHANGED <<dir, cache>> /\ pc'[r] = "dir"
          /\ \A q \in Clients \ {r} : pc'[q] = pc[q] /\ path'[q] = path[q]
      BY <1>0, <2>2 DEF AskNar, Ask, Goto
    <3> QED
      BY <2>1, <3>1
  <2>3. CASE GiveUp(r) \/ RespondNar(r) \/ RespondInfo(r)
    BY <1>0, <2>1, <2>3 DEF GiveUp, RespondNar, RespondInfo, Done, Goto
  <2>4. CASE Lookup(r)
    BY <1>0, <2>1, <2>4 DEF Lookup, Goto
  <2>5. CASE Fetch(r)
    BY <1>0, <2>1, <2>5 DEF Fetch, Goto
  <2>6. CASE Save(r)
    BY <1>0, <2>1, <2>6 DEF Save, Goto, client
  <2> QED
    BY <1>6, <2>2, <2>3, <2>4, <2>5, <2>6
<1>7. ASSUME NEW p \in Paths, FetchOne(p) PROVE DirInv'
  BY <1>1, <1>7 DEF FetchOne, bucket, client
<1>8. CASE SaveBatch
  <2>1. UNCHANGED <<answers, dirRow, path>>
    BY <1>8 DEF SaveBatch, bucket, client
  <2>2. /\ \A a \in Actors : dir'[a] \in {dir[a], None}
        /\ \A r \in Clients : pc'[r] = pc[r]
    BY <1>0, <1>8 DEF SaveBatch, EndCrawl, Goto
  <2>3. \A p \in Paths : cache'[p] = cache[p] \/ DirOf[p] = dir[Crawler]
    BY <1>8 DEF SaveBatch, SaveResults, Cachable
  <2>4. dir[Crawler] \in answers
    BY <1>0, <1>8 DEF SaveBatch
  <2> QED
    BY <2>1, <2>2, <2>3, <2>4
<1> QED
  BY <1>2, <1>3, <1>4, <1>5, <1>6, <1>7, <1>8
  DEF Next, Serve, Crawl, Actors, ListSteps, DirSteps

-----------------------------------------------------------------------------
(* What a client has got.                                                  *)

\* i is about the NAR that the bucket has for p, if that never changed.
Current(p, i) ==
  p \notin replaced => narinfo[p] \in Infos /\ i.nar = narinfo[p].nar

\* A NAR is asked for by the URL of the .narinfo that the client got.
Answered(r) ==
  /\ pc[r] \in {"save", "respond"} => Current(path[r], held[r])
  /\ got[r] # None => Current(path[r], got[r])
  /\ want[r] = None => body[r] = None
  /\ want[r] # None => got[r] # None /\ got[r].comp = want[r]
  /\ body[r] # None =>
       /\ body[r].comp = got[r].comp
       /\ path[r] \notin replaced => body[r].nar = got[r].nar

AnswerInv ==
  /\ \A p \in Paths : cache[p] # None => Current(p, cache[p])
  /\ \A p \in Paths : fetched[p] # None => Current(p, fetched[p])
  /\ \A r \in Clients : Answered(r)

LEMMA AnswerInit == Init => AnswerInv
BY DEF Init, AnswerInv, Answered, Actors

LEMMA AnswerNext == TypeOK /\ SoundInv /\ AnswerInv /\ [Next]_vars => AnswerInv'
<1> SUFFICES ASSUME TypeOK, SoundInv, AnswerInv, [Next]_vars PROVE AnswerInv'
  OBVIOUS
<1> USE DEF AnswerInv, Answered
<1>0. /\ pc = [a \in Actors |-> pc[a]]
      /\ cache \in [Paths -> Infos \cup {None}]
      /\ fetched \in [Paths -> Infos \cup {None}]
      /\ held \in [Clients -> Infos \cup {None}]
      /\ got \in [Clients -> Infos \cup {None}]
      /\ body \in [Clients -> Files \cup {None}]
      /\ narinfo \in [Paths -> Blobs]
      /\ path \in [Clients -> Paths \cup {None}]
      /\ want \in [Clients -> Compressions \cup {None}]
      /\ \A r \in Clients : pc[r] # "idle" \/ got[r] # None => path[r] \in Paths
      /\ \A r \in Clients : pc[r] \in {"save", "respond"} => held[r] \in Infos
      /\ Crawler \in Actors /\ Clients \subseteq Actors /\ Crawler \notin Clients
  BY SameBucketData, Distinct DEF TypeOK, Actors, InfoOrNone, Bucket!BucketType
<1>1. ASSUME UNCHANGED <<narinfo, replaced>>, NEW p, NEW i, Current(p, i)
      PROVE  Current(p, i)'
  BY <1>1 DEF Current
<1>2. ASSUME UNCHANGED <<narinfo, replaced, cache, fetched, client>>,
             \A r \in Clients : pc'[r] \in {"save", "respond"} => pc'[r] = pc[r]
      PROVE  AnswerInv'
  BY <1>2 DEF Current, client
<1>3. CASE UNCHANGED vars
  BY <1>2, <1>3 DEF vars, bucket, crawl, listing
<1>4. ASSUME NEW a \in Actors, DirSteps(a) PROVE AnswerInv'
  <2>1. \A r \in Clients : pc'[r] \in {"save", "respond"} => pc'[r] = pc[r]
    BY <1>0, <1>4
    DEF DirSteps, LookupDir, FetchDir, SaveDir, Goto, AfterDir
  <2> QED
    BY <1>2, <1>4, <2>1, DirStepsQuiet DEF bucket, crawl, listing
<1>5. CASE ListSteps
  <2>1. \A r \in Clients : pc'[r] = pc[r]
    BY <1>0, <1>5
    DEF ListSteps, BeginCrawl, Cancel, CrawlFails, BeginList, ListEnds,
        ListFails, BatchFull, CheckContext, FetchedAll, ReadDigest, EndCrawl, Goto
  <2> QED
    BY <1>2, <1>5, <2>1, ListStepsQuiet DEF bucket
<1>6. ASSUME NEW r \in Clients, AskNar(r) \/ RespondNar(r) \/ GiveUp(r)
             \/ Lookup(r) \/ Fetch(r) \/ Save(r) \/ RespondInfo(r)
             \/ \E p \in Paths : Ask(r, p)
      PROVE  AnswerInv'
  <2>1. UNCHANGED <<narinfo, replaced, fetched>>
    BY <1>6 DEF AskNar, RespondNar, GiveUp, Lookup, Fetch, Save,
       RespondInfo, Ask, bucket, crawl, listing
  <2>2. ASSUME Answered(r)', UNCHANGED cache,
               \A s \in Clients \ {r} :
                 /\ pc'[s] = pc[s] /\ path'[s] = path[s] /\ want'[s] = want[s]
                 /\ held'[s] = held[s] /\ got'[s] = got[s] /\ body'[s] = body[s]
        PROVE  AnswerInv'
    BY <2>1, <2>2 DEF Current
  <2>3. CASE AskNar(r)
    <3>1. got[r] \in Infos /\ got[r].comp # None
      BY <1>0, <2>3, Distinct, InfoFields DEF AskNar
    <3>2. Answered(r)'
      BY <1>0, <2>1, <2>3, <3>1 DEF AskNar, Goto, Current
    <3> QED
      BY <1>0, <2>2, <2>3, <3>2 DEF AskNar, Goto
  <2>4. ASSUME NEW p \in Paths, Ask(r, p) PROVE AnswerInv'
    <3>1. Answered(r)'
      BY <1>0, <2>1, <2>4 DEF Ask, Goto
    <3> QED
      BY <1>0, <2>2, <2>4, <3>1 DEF Ask, Goto
  <2>5. CASE GiveUp(r)
    <3>1. Answered(r)'
      BY <1>0, <2>1, <2>5 DEF GiveUp, Done, Goto, Current
    <3> QED
      BY <1>0, <2>2, <2>5, <3>1 DEF GiveUp, Done, Goto
  <2>6. CASE Lookup(r)
    <3>1. Answered(r)'
      BY <1>0, <2>1, <2>6 DEF Lookup, Goto, Current
    <3> QED
      BY <1>0, <2>2, <2>6, <3>1 DEF Lookup, Goto
  <2>7. CASE Fetch(r)
    <3>1. Answered(r)'
      BY <1>0, <2>1, <2>7 DEF Fetch, Goto, Current
    <3> QED
      BY <1>0, <2>2, <2>7, <3>1 DEF Fetch, Goto
  <2>8. CASE Save(r)
    <3>1. UNCHANGED client /\ pc' = [pc EXCEPT ![r] = "respond"] /\ pc[r] = "save"
      BY <2>8 DEF Save, Goto
    <3>2. \A p \in Paths : cache'[p] = cache[p] \/ (p = path[r] /\ cache'[p] = held[r])
      BY <1>0, <2>8 DEF Save, Upsert
    <3>3. \A p \in Paths : cache'[p] # None => Current(p, cache'[p])
      BY <3>1, <3>2
    <3>4. \A s \in Clients : Answered(s)'
      BY <1>0, <2>1, <3>1 DEF client, Current
    <3> QED
      BY <2>1, <3>3, <3>4 DEF Current
  <2>9. CASE RespondInfo(r)
    <3>1. /\ got'[r] = held[r] /\ pc'[r] = "idle" /\ pc[r] = "respond"
          /\ want'[r] = None /\ want[r] = None
          /\ body'[r] = body[r] /\ path'[r] = path[r]
      BY <1>0, <2>9 DEF RespondInfo, Done, Goto
    <3>2. Answered(r)'
      BY <2>1, <3>1 DEF Current
    <3> QED
      BY <1>0, <2>2, <2>9, <3>2 DEF RespondInfo, Done, Goto
  <2>10. CASE RespondNar(r)
    <3>1. held[r].url.nar = held[r].nar /\ held[r].url.comp = held[r].comp
      BY <1>0, <2>10, Distinct
      DEF RespondNar, SoundInv, RowsSound, Sound, Consistent, Describes
    <3>2. /\ pc'[r] = "idle" /\ pc[r] = "respond"
          /\ want[r] # None /\ held[r].comp = want[r] /\ body'[r] = held[r].url
          /\ want'[r] = want[r] /\ got'[r] = got[r] /\ path'[r] = path[r]
      BY <1>0, <2>10 DEF RespondNar, Done, Goto
    <3>3. Answered(r)'
      BY <2>1, <3>1, <3>2 DEF Current
    <3> QED
      BY <1>0, <2>2, <2>10, <3>3 DEF RespondNar, Done, Goto
  <2> QED
    BY <1>6, <2>3, <2>4, <2>5, <2>6, <2>7, <2>8, <2>9, <2>10
<1>7. ASSUME NEW p \in Paths, FetchOne(p) PROVE AnswerInv'
  <2>1. UNCHANGED <<narinfo, replaced, cache, pc, path, want, held, got, body>>
    BY <1>7 DEF FetchOne, bucket, client
  <2>2. \A q \in Paths :
          \/ fetched'[q] = fetched[q]
          \/ narinfo[q] \in Infos /\ fetched'[q] = narinfo[q]
    <3>1. CASE UNCHANGED fetched
      BY <3>1
    <3>2. CASE /\ narinfo[p] \in Infos
               /\ fetched' = [fetched EXCEPT ![p] = narinfo[p]]
      BY <1>0, <3>2
    <3> QED
      BY <1>7, <3>1, <3>2 DEF FetchOne
  <2> QED
    BY <2>1, <2>2 DEF Current
<1>8. CASE SaveBatch
  <2>1. UNCHANGED <<narinfo, replaced, path, want, held, got, body>>
        /\ fetched' = [p \in Paths |-> None]
    BY <1>8 DEF SaveBatch, bucket, client
  <2>2. \A r \in Clients : pc'[r] = pc[r]
    BY <1>0, <1>8 DEF SaveBatch, EndCrawl, Goto
  <2>3. \A p \in Paths : cache'[p] \in {cache[p], fetched[p]}
    BY <1>8 DEF SaveBatch, SaveResults, Upsert
  <2> QED
    BY <2>1, <2>2, <2>3 DEF Current
<1>9. CASE Uploads
  <2>1. UNCHANGED <<cache, fetched, pc, client>>
    BY <1>9 DEF Uploads, Upload, Publish, CreateCacheInfo, crawl, listing
  <2>2. ASSUME NEW q \in Paths, NEW i, Current(q, i)
        PROVE  q \notin replaced' => narinfo'[q] \in Infos /\ i.nar = narinfo'[q].nar
    <3>1. CASE \E f \in Files : Upload(f)
      BY <2>2, <3>1 DEF Upload, Bucket!StoreFile, Current
    <3>2. CASE \E p \in Paths, j \in Infos : Publish(p, j)
      BY <1>0, <2>2, <3>2, SameBucketData DEF Publish, Bucket!Publish, Current
    <3>3. CASE CreateCacheInfo
      BY <2>2, <3>3 DEF CreateCacheInfo, Current
    <3> QED
      BY <1>9, <3>1, <3>2, <3>3 DEF Uploads
  <2>3. replaced \subseteq replaced'
    BY <1>9 DEF Uploads, Upload, Publish, CreateCacheInfo
  <2> QED
    <3>1. UNCHANGED <<cache, fetched, pc, path, want, held, got, body>>
      BY <2>1 DEF client
    <3>2. \A q \in Paths : \A i : Current(q, i) => Current(q, i)'
      BY <2>2 DEF Current
    <3>3. /\ (\A p \in Paths : cache[p] # None => Current(p, cache[p]))'
          /\ (\A p \in Paths : fetched[p] # None => Current(p, fetched[p]))'
      BY <3>1, <3>2
    <3>4. ASSUME NEW r \in Clients PROVE Answered(r)'
      <4>1. /\ (pc[r] \in {"save", "respond"} => Current(path[r], held[r]))'
            /\ (got[r] # None => Current(path[r], got[r]))'
        BY <1>0, <3>1, <3>2
      <4>2. /\ (want[r] = None => body[r] = None)'
            /\ (want[r] # None => got[r] # None /\ got[r].comp = want[r])'
        BY <3>1
      <4>3. (body[r] # None =>
               /\ body[r].comp = got[r].comp
               /\ path[r] \notin replaced => body[r].nar = got[r].nar)'
        BY <2>3, <3>1
      <4> QED
        BY <4>1, <4>2, <4>3
    <3> QED
      BY <3>3, <3>4
<1> QED
  BY <1>3, <1>4, <1>5, <1>6, <1>7, <1>8, <1>9
  DEF Next, Serve, Crawl, Actors, ListSteps, DirSteps

-----------------------------------------------------------------------------
(* The crawl.                                                              *)

Cached == {p \in Paths : cache[p] # None}

\* Every digest that the listing produced is given up, in the batch, among
\* its results, or in the database; only a cancelled crawl leaves a batch.
CrawlInv ==
  /\ seen \subseteq missed \cup batch \cup Results \cup Cached
  /\ iter = "eof" => present \subseteq seen
  /\ pc[Crawler] \notin {"fetch", "save"} => Results = {}
  /\ pc[Crawler] \notin {"read", "check", "fetch"} => batch = {} \/ cancelled

LEMMA CrawlInit == Init => CrawlInv
BY Distinct DEF Init, CrawlInv, Results, Actors

LEMMA CrawlNext == TypeOK /\ CrawlInv /\ [Next]_vars => CrawlInv'
<1> SUFFICES ASSUME TypeOK, CrawlInv, [Next]_vars PROVE CrawlInv'
  OBVIOUS
<1> USE DEF CrawlInv
<1>0. /\ pc = [a \in Actors |-> pc[a]]
      /\ cache \in [Paths -> Infos \cup {None}]
      /\ fetched \in [Paths -> Infos \cup {None}]
      /\ \A r \in Clients : pc[r] # "idle" => path[r] \in Paths
      /\ \A r \in Clients : pc[r] \in {"save", "respond"} => held[r] \in Infos
      /\ Crawler \in Actors /\ Clients \subseteq Actors /\ Crawler \notin Clients
      /\ seen \subseteq Paths /\ batch \subseteq Paths /\ cancelled \in BOOLEAN
      /\ None \notin Infos
  BY Distinct DEF TypeOK, Actors, InfoOrNone
<1>1. ASSUME UNCHANGED <<listing, cancelled>>, Cached \subseteq Cached',
             \/ pc'[Crawler] = pc[Crawler]
             \/ {pc[Crawler], pc'[Crawler]}
                  \subseteq {"idle", "dir", "fetchDir", "saveDir", "list"}
      PROVE  CrawlInv'
  BY <1>1 DEF listing, Results
<1>2. CASE UNCHANGED vars \/ Uploads
  BY <1>1, <1>2
  DEF vars, crawl, Uploads, Upload, Publish, CreateCacheInfo, Cached
<1>3. ASSUME NEW a \in Actors, DirSteps(a) PROVE CrawlInv'
  BY <1>0, <1>1, <1>3
  DEF DirSteps, LookupDir, FetchDir, SaveDir, Goto, AfterDir, Cached, crawl
<1>4. ASSUME NEW r \in Clients, AskNar(r) \/ RespondNar(r) \/ GiveUp(r)
             \/ Lookup(r) \/ Fetch(r) \/ Save(r) \/ RespondInfo(r)
             \/ \E p \in Paths : Ask(r, p)
      PROVE  CrawlInv'
  <2>1. UNCHANGED crawl /\ pc'[Crawler] = pc[Crawler]
    BY <1>0, <1>4 DEF AskNar, RespondNar, GiveUp, Lookup, Fetch, Save,
       RespondInfo, Ask, Done, Goto
  <2>2. CASE UNCHANGED cache
    BY <1>1, <2>1, <2>2 DEF crawl, Cached
  <2>3. CASE Save(r)
    BY <1>0, <1>1, <2>1, <2>3 DEF crawl, Cached, Save, Upsert
  <2> QED
    BY <1>4, <2>2, <2>3
    DEF AskNar, RespondNar, GiveUp, Lookup, Fetch, RespondInfo, Ask
<1>5. CASE BeginCrawl \/ CrawlFails
  BY <1>0, <1>1, <1>5 DEF BeginCrawl, CrawlFails, EndCrawl, Goto, Cached
<1>6. CASE Cancel
  BY <1>6 DEF Cancel, listing, Results, Cached
<1>7. CASE BeginList
  BY <1>0, <1>7 DEF BeginList, Goto, Results, Cached
<1>8. ASSUME NEW p \in Paths, ReadDigest(p) PROVE CrawlInv'
  <2>1. /\ UNCHANGED <<pc, cache, fetched, iter, present, cancelled>>
        /\ pc[Crawler] = "read" /\ seen' = seen \cup {p}
        /\ batch \subseteq batch' /\ missed \subseteq missed'
        /\ p \in batch' \cup missed' \cup Cached
    BY <1>8 DEF ReadDigest, Cached
  <2> QED
    BY <2>1 DEF Results, Cached
<1>9. CASE ListEnds \/ ListFails
  BY <1>0, <1>9 DEF ListEnds, ListFails, Goto, Results, Cached
<1>10. CASE BatchFull \/ FetchedAll
  BY <1>0, <1>10 DEF BatchFull, FetchedAll, Goto, crawl, listing, Results, Cached
<1>11. CASE CheckContext
  BY <1>0, <1>11 DEF CheckContext, EndCrawl, Goto, listing, Results, Cached
<1>12. ASSUME NEW p \in Paths, FetchOne(p) PROVE CrawlInv'
  <2>1. /\ UNCHANGED <<pc, cache, seen, iter, present, cancelled>>
        /\ pc[Crawler] = "fetch" /\ batch' = batch \ {p}
        /\ missed \subseteq missed'
    BY <1>12 DEF FetchOne
  <2>2. Results \subseteq Results' /\ p \in Results' \cup missed'
    BY <1>0, <1>12 DEF FetchOne, Results
  <2> QED
    BY <2>1, <2>2 DEF Cached
<1>13. CASE SaveBatch
  <2>1. /\ UNCHANGED <<seen, batch, iter, present, cancelled>>
        /\ pc[Crawler] = "save" /\ Results' = {}
        /\ pc'[Crawler] \in {"idle", "read"}
    BY <1>0, <1>13 DEF SaveBatch, EndCrawl, Goto, Results
  <2>2. missed \cup Results \cup Cached \subseteq missed' \cup Cached'
    BY <1>13 DEF SaveBatch, SaveResults, Upsert, Cachable, Results, Cached
  <2> QED
    BY <2>1, <2>2
<1> QED
  BY <1>2, <1>3, <1>4, <1>5, <1>6, <1>7, <1>8, <1>9, <1>10, <1>11, <1>12, <1>13
  DEF Next, Serve, Crawl, Actors, DirSteps

-----------------------------------------------------------------------------
(* The theorems.                                                           *)

\* Handlers, the crawler and uploads keep the tables and their own variables
\* in the ranges that the code relies on.
THEOREM CacheTypeCorrect == Spec => []TypeOK
BY Types

\* However old a row is and whoever wrote it last, the file it names is in
\* the bucket and is what the row says.
THEOREM CacheStaysSound == Spec => []RowsSound
<1>1. SoundInv => RowsSound
  BY DEF SoundInv
<1> QED
  BY <1>1, SoundInvariance, PTL

\* Rows are presented with the directory they have, also by a server that
\* began before there was a nix-cache-info, unless two of its tasks got two
\* answers from the bucket.
THEOREM RowsStayInTheirDir == Spec => []RowsKeepTheirDirUnlessTwoAnswers
<1>1. DirInv => RowsKeepTheirDirUnlessTwoAnswers
  BY DEF DirInv, RowsKeepTheirDirUnlessTwoAnswers
<1> QED
  BY <1>1, Types, DirInit, DirNext, PTL DEF Spec

\* A client that follows the URL it was given gets what that .narinfo says.
THEOREM AnswersFitTogether == Spec => []BodyMatchesInfo
<1>1. AnswerInv => BodyMatchesInfo
  BY DEF AnswerInv, Answered, BodyMatchesInfo
<1> QED
  BY <1>1, Types, SoundInvariance, AnswerInit, AnswerNext, PTL DEF Spec

\* A crawl that got to the end has accounted for all that was there.
THEOREM CrawlForgetsNothing == Spec => []DiscoveryComplete
<1>1. TypeOK /\ CrawlInv => DiscoveryComplete
  BY DEF CrawlInv, DiscoveryComplete, Cached, TypeOK
<1> QED
  BY <1>1, Types, CrawlInit, CrawlNext, PTL DEF Spec
-----------------------------------------------------------------------------
(* Why a crawl ends: what DiscoveryEnds rests on, but for the scheduling.  *)

\* What the crawler has listed stays in the bucket, and a batch is fetched
\* to its end before its results are saved.
ListInv ==
  /\ present \subseteq Existing /\ seen \subseteq Existing /\ batch \subseteq seen
  /\ pc[Crawler] = "read" => iter = "more"
  /\ pc[Crawler] = "save" => batch = {}
  /\ pc[Crawler] \notin {"lookup", "respond"}

\* The crawler can go on: the conditions of its actions, without those that
\* depend on a failure that may not happen.
CrawlerCanGoOn ==
  \/ pc[Crawler] = "dir" /\ dirRow \in StoreDirs \cup {None, Unset}
  \/ pc[Crawler] \in {"fetchDir", "saveDir", "list", "check", "save"}
  \/ pc[Crawler] = "read" /\ (Full \/ present \subseteq seen \/ Existing \ seen # {})
  \/ pc[Crawler] = "fetch" /\ (batch = {} \/ \E p \in batch : narinfo[p] # None)

CrawlNeverStuck == pc[Crawler] # "idle" => CrawlerCanGoOn

\* How many steps a crawl has left: a digest that is not yet listed costs one
\* to list and one to fetch, and a round of the loop for its batch.
DirLeft == [dir |-> 4, fetchDir |-> 3, saveDir |-> 2, list |-> 1]
RoundLeft == [read |-> 1, check |-> 4, fetch |-> 3, save |-> 2]

ListLeft ==
  6 * Cardinality(Paths \ seen) + Cardinality(batch)
    + (IF iter = "more" THEN 4 ELSE 0)
    + (IF pc[Crawler] = "read" /\ batch # {} THEN 4 ELSE 0)

StepsLeft ==
  IF pc[Crawler] = "idle" THEN 0
  ELSE IF pc[Crawler] \in DOMAIN DirLeft
  THEN 6 * Cardinality(Paths) + 10 + DirLeft[pc[Crawler]]
  ELSE ListLeft + RoundLeft[pc[Crawler]]

CrawlIsUsedUp ==
  [][/\ ~ BeginCrawl => StepsLeft' \in 0..StepsLeft
     /\ Crawl => StepsLeft' < StepsLeft]_vars

LEMMA ListInit == Init => ListInv
BY DEF Init, ListInv, Actors

LEMMA ListNext == TypeOK /\ ListInv /\ [Next]_vars => ListInv'
<1> SUFFICES ASSUME TypeOK, ListInv, [Next]_vars PROVE ListInv'
  OBVIOUS
<1> USE DEF ListInv
<1>0. /\ pc = [a \in Actors |-> pc[a]] /\ narinfo = [p \in Paths |-> narinfo[p]]
      /\ Crawler \in Actors /\ Clients \subseteq Actors /\ Crawler \notin Clients
      /\ seen \subseteq Paths /\ batch \subseteq Paths /\ None \notin Infos
  BY Distinct DEF TypeOK, Actors, Bucket!BucketType
<1>1. ASSUME UNCHANGED listing, Existing \subseteq Existing',
             \/ pc'[Crawler] = pc[Crawler]
             \/ pc'[Crawler] \notin {"read", "save", "lookup", "respond"}
      PROVE  ListInv'
  BY <1>1 DEF listing
<1>2. CASE UNCHANGED vars \/ Cancel
  BY <1>1, <1>2 DEF vars, bucket, crawl, Cancel, Existing
<1>3. CASE Uploads
  <2>1. UNCHANGED <<pc, crawl>>
    BY <1>3 DEF Uploads, Upload, Publish, CreateCacheInfo
  <2>2. Existing \subseteq Existing'
    <3>1. CASE \E f \in Files : Upload(f)
      BY <3>1 DEF Upload, Bucket!StoreFile, Existing
    <3>2. CASE \E p \in Paths, i \in Infos : Publish(p, i)
      BY <1>0, <3>2 DEF Publish, Bucket!Publish, Existing
    <3>3. CASE CreateCacheInfo
      BY <3>3 DEF CreateCacheInfo, Existing
    <3> QED
      BY <1>3, <3>1, <3>2, <3>3 DEF Uploads
  <2> QED
    BY <1>1, <2>1, <2>2 DEF crawl
<1>4. ASSUME NEW a \in Actors, DirSteps(a) PROVE ListInv'
  BY <1>0, <1>1, <1>4
  DEF DirSteps, LookupDir, FetchDir, SaveDir, Goto, AfterDir, crawl, bucket,
      Existing
<1>5. ASSUME NEW r \in Clients, AskNar(r) \/ RespondNar(r) \/ GiveUp(r)
             \/ Lookup(r) \/ Fetch(r) \/ Save(r) \/ RespondInfo(r)
             \/ \E p \in Paths : Ask(r, p)
      PROVE  ListInv'
  BY <1>0, <1>1, <1>5
  DEF AskNar, RespondNar, GiveUp, Lookup, Fetch, Save, RespondInfo, Ask, Done,
      Goto, crawl, bucket, Existing
<1>6. CASE BeginCrawl \/ CrawlFails \/ CheckContext
  BY <1>0, <1>1, <1>6
  DEF BeginCrawl, CrawlFails, CheckContext, EndCrawl, Goto, bucket, Existing
<1>7. CASE BeginList
  BY <1>0, <1>7 DEF BeginList, Goto, bucket, Existing
<1>8. ASSUME NEW p \in Paths, ReadDigest(p) PROVE ListInv'
  BY <1>8 DEF ReadDigest, bucket, Existing
<1>9. CASE ListEnds \/ ListFails
  BY <1>0, <1>9 DEF ListEnds, ListFails, Goto, bucket, Existing
<1>10. CASE BatchFull \/ FetchedAll
  BY <1>0, <1>10 DEF BatchFull, FetchedAll, Goto, crawl, listing, bucket, Existing
<1>11. ASSUME NEW p \in Paths, FetchOne(p) PROVE ListInv'
  BY <1>11 DEF FetchOne, bucket, Existing
<1>12. CASE SaveBatch
  BY <1>0, <1>12 DEF SaveBatch, EndCrawl, Goto, bucket, Existing
<1> QED
  BY <1>2, <1>3, <1>4, <1>5, <1>6, <1>7, <1>8, <1>9, <1>10, <1>11, <1>12
  DEF Next, Serve, Crawl, Actors, DirSteps

LEMMA ListInvariance == Spec => []ListInv
BY Types, ListInit, ListNext, PTL DEF Spec

\* The crawler never comes to a standstill: what it has listed and not yet
\* fetched is there to be fetched, and what the listing still owes it is there
\* to be listed, whatever uploads do in between.
THEOREM CrawlGoesOn == Spec => []CrawlNeverStuck
<1>1. ASSUME TypeOK, ListInv, pc[Crawler] # "idle" PROVE CrawlerCanGoOn
  <2> USE <1>1 DEF CrawlerCanGoOn
  <2>1. /\ dirRow \in StoreDirs \cup {Unset, None}
        /\ pc[Crawler] \in {"dir", "fetchDir", "saveDir", "lookup", "fetch",
                            "save", "respond", "list", "read", "check"}
    BY DEF TypeOK, Actors
  <2>2. CASE pc[Crawler] = "read"
    BY <2>2 DEF ListInv
  <2>3. CASE pc[Crawler] = "fetch"
    BY <2>3 DEF ListInv, Existing
  <2>4. pc[Crawler] \notin {"lookup", "respond"}
    BY DEF ListInv
  <2> QED
    BY <2>1, <2>2, <2>3, <2>4
<1>2. TypeOK /\ ListInv => CrawlNeverStuck
  BY <1>1 DEF CrawlNeverStuck
<1> QED
  BY <1>2, Types, ListInvariance, PTL

LEMMA Remaining ==
  /\ DOMAIN DirLeft = {"dir", "fetchDir", "saveDir", "list"}
  /\ DirLeft["dir"] = 4 /\ DirLeft["fetchDir"] = 3 /\ DirLeft["saveDir"] = 2
  /\ DirLeft["list"] = 1
  /\ RoundLeft["read"] = 1 /\ RoundLeft["check"] = 4 /\ RoundLeft["fetch"] = 3
  /\ RoundLeft["save"] = 2
BY DEF DirLeft, RoundLeft

LEMMA Sizes ==
  ASSUME IsFiniteSet(Paths), TypeOK
  PROVE  /\ IsFiniteSet(batch) /\ IsFiniteSet(Paths \ seen)
         /\ Cardinality(batch) \in Nat /\ Cardinality(Paths \ seen) \in Nat
         /\ Cardinality(Paths) \in Nat
         /\ ListLeft \in Nat
<1>1. IsFiniteSet(batch) /\ IsFiniteSet(Paths \ seen)
  BY FS_Subset DEF TypeOK
<1>2. /\ Cardinality(batch) \in Nat /\ Cardinality(Paths \ seen) \in Nat
      /\ Cardinality(Paths) \in Nat
  BY <1>1, FS_CardinalityType
<1> QED
  BY <1>1, <1>2 DEF ListLeft

\* Somewhere in the loop of discover.
InRound == pc[Crawler] \in {"read", "check", "fetch", "save"}

LEMMA StepsLeftCases ==
  ASSUME TypeOK, ListInv
  PROVE  /\ pc[Crawler] = "idle" => StepsLeft = 0
         /\ pc[Crawler] \in {"dir", "fetchDir", "saveDir", "list"} =>
              StepsLeft = 6 * Cardinality(Paths) + 10 + DirLeft[pc[Crawler]]
         /\ InRound => StepsLeft = ListLeft + RoundLeft[pc[Crawler]]
         /\ \/ pc[Crawler] = "idle"
            \/ pc[Crawler] \in {"dir", "fetchDir", "saveDir", "list"}
            \/ InRound
<1>1. pc[Crawler] \in {"idle", "dir", "fetchDir", "saveDir", "fetch", "save",
                       "list", "read", "check"}
  BY DEF TypeOK, Actors, ListInv
<1> QED
  BY <1>1, Remaining DEF StepsLeft, InRound

LEMMA StepsLeftType ==
  ASSUME IsFiniteSet(Paths), TypeOK, ListInv
  PROVE  StepsLeft \in Nat
<1>1. Cardinality(Paths) \in Nat /\ ListLeft \in Nat
  BY Sizes
<1>2. CASE pc[Crawler] = "idle"
  BY <1>2, StepsLeftCases
<1>3. CASE pc[Crawler] \in {"dir", "fetchDir", "saveDir", "list"}
  BY <1>1, <1>3, StepsLeftCases, Remaining
<1>4. CASE InRound
  BY <1>1, <1>4, StepsLeftCases, Remaining DEF InRound
<1> QED
  BY <1>2, <1>3, <1>4, StepsLeftCases

\* Every step of the crawler uses up one of its own.
LEMMA CrawlStep ==
  ASSUME IsFiniteSet(Paths), TypeOK, ListInv, TypeOK', ListInv', Crawl
  PROVE  StepsLeft' < StepsLeft
<1> DEFINE P == Cardinality(Paths)
           U == Cardinality(Paths \ seen)
           B == Cardinality(batch)
           M == IF iter = "more" THEN 4 ELSE 0
           R == IF pc[Crawler] = "read" /\ batch # {} THEN 4 ELSE 0
<1>0. /\ pc = [a \in Actors |-> pc[a]] /\ Crawler \in Actors
      /\ seen \subseteq Paths /\ batch \subseteq Paths /\ seen' \subseteq Paths
      /\ DOMAIN DirLeft = {"dir", "fetchDir", "saveDir", "list"}
  BY Remaining DEF TypeOK, Actors
<1>1. /\ P \in Nat /\ U \in Nat /\ B \in Nat /\ U' \in Nat /\ B' \in Nat
      /\ IsFiniteSet(batch) /\ IsFiniteSet(Paths \ seen)
      /\ ListLeft \in Nat /\ ListLeft' \in Nat
  <2>1. /\ IsFiniteSet(batch) /\ IsFiniteSet(Paths \ seen) /\ P \in Nat
        /\ U \in Nat /\ B \in Nat /\ ListLeft \in Nat
    BY Sizes
  <2>2. (U \in Nat /\ B \in Nat /\ ListLeft \in Nat)'
    <3>1. (IsFiniteSet(Paths))'
      OBVIOUS
    <3> QED
      BY <3>1, Sizes, PTL
  <2> QED
    BY <2>1, <2>2
<1>2. M \in {0, 4} /\ R \in {0, 4} /\ M' \in {0, 4} /\ R' \in {0, 4}
  OBVIOUS
<1>3. ListLeft = 6 * U + B + M + R /\ ListLeft' = 6 * U' + B' + M' + R'
  BY DEF ListLeft
<1>4. /\ pc[Crawler] # "read" => R = 0
      /\ pc'[Crawler] # "read" => R' = 0
      /\ batch' = {} => R' = 0
      /\ pc[Crawler] = "read" /\ batch # {} => R = 4
      /\ iter = "more" => M = 4
      /\ iter' # "more" => M' = 0
      /\ iter' = iter => M' = M
  OBVIOUS
<1>5. UNCHANGED seen => U' = U
  OBVIOUS
<1>6. UNCHANGED batch => B' = B
  OBVIOUS
<1>7. /\ pc[Crawler] = "idle" => StepsLeft = 0
      /\ pc[Crawler] \in DOMAIN DirLeft =>
           StepsLeft = 6 * P + 10 + DirLeft[pc[Crawler]]
      /\ InRound => StepsLeft = ListLeft + RoundLeft[pc[Crawler]]
  BY <1>0, StepsLeftCases
<1>8. /\ pc'[Crawler] = "idle" => StepsLeft' = 0
      /\ pc'[Crawler] \in DOMAIN DirLeft =>
           StepsLeft' = 6 * P + 10 + DirLeft[pc'[Crawler]]
      /\ InRound' => StepsLeft' = ListLeft' + RoundLeft[pc'[Crawler]]
  BY <1>0 DEF StepsLeft, InRound
<1>9. /\ DirLeft["dir"] = 4 /\ DirLeft["fetchDir"] = 3 /\ DirLeft["saveDir"] = 2
      /\ DirLeft["list"] = 1
      /\ RoundLeft["read"] = 1 /\ RoundLeft["check"] = 4 /\ RoundLeft["fetch"] = 3
      /\ RoundLeft["save"] = 2
  BY Remaining
<1> HIDE DEF P, U, B, M, R
<1>10. ASSUME InRound, pc'[Crawler] = "idle" PROVE StepsLeft' < StepsLeft
  BY <1>1, <1>7, <1>8, <1>9, <1>10 DEF InRound
<1>11. ASSUME pc[Crawler] \in DOMAIN DirLeft, pc'[Crawler] = "idle"
       PROVE  StepsLeft' < StepsLeft
  BY <1>0, <1>1, <1>7, <1>8, <1>9, <1>11
<1>12. ASSUME pc[Crawler] \in DOMAIN DirLeft, pc'[Crawler] \in DOMAIN DirLeft,
              DirLeft[pc'[Crawler]] < DirLeft[pc[Crawler]]
       PROVE  StepsLeft' < StepsLeft
  <2>1. /\ DirLeft[pc[Crawler]] \in Nat /\ DirLeft[pc'[Crawler]] \in Nat
        /\ StepsLeft = 6 * P + 10 + DirLeft[pc[Crawler]]
        /\ StepsLeft' = 6 * P + 10 + DirLeft[pc'[Crawler]]
    BY <1>0, <1>7, <1>8, <1>9, <1>12
  <2> QED
    BY <1>1, <1>12, <2>1
<1>13. ASSUME InRound, InRound',
              ListLeft' + RoundLeft[pc'[Crawler]] < ListLeft + RoundLeft[pc[Crawler]]
       PROVE  StepsLeft' < StepsLeft
  BY <1>7, <1>8, <1>13
<1>14. CASE LookupDir(Crawler) \/ FetchDir(Crawler) \/ SaveDir(Crawler)
  <2>1. /\ pc[Crawler] \in DOMAIN DirLeft /\ pc'[Crawler] \in DOMAIN DirLeft
        /\ DirLeft[pc'[Crawler]] < DirLeft[pc[Crawler]]
    BY <1>0, <1>9, <1>14 DEF LookupDir, FetchDir, SaveDir, AfterDir, Goto
  <2> QED
    BY <1>12, <2>1
<1>15. CASE CrawlFails
  BY <1>0, <1>11, <1>15 DEF CrawlFails, EndCrawl, Goto
<1>16. CASE BeginList
  <2>1. /\ pc[Crawler] = "list" /\ pc'[Crawler] = "read" /\ InRound'
        /\ seen' = {} /\ batch' = {}
    BY <1>0, <1>16 DEF BeginList, Goto, InRound
  <2>2. U' = P /\ B' = 0
    <3>1. Paths \ seen' = Paths
      BY <2>1
    <3> QED
      BY <2>1, <3>1, FS_EmptySet DEF U, B, P
  <2>3. StepsLeft = 6 * P + 10 + 1
    BY <1>0, <1>7, <1>9, <2>1
  <2>4. StepsLeft' = ListLeft' + 1 /\ R' = 0
    BY <1>4, <1>8, <1>9, <2>1
  <2>5. ListLeft' = 6 * P + M'
    BY <1>1, <1>2, <1>3, <2>2, <2>4
  <2>6. \A x \in Nat, m \in {0, 4} : 6 * x + m + 1 < 6 * x + 10 + 1
    OBVIOUS
  <2> QED
    BY <1>1, <1>2, <2>3, <2>4, <2>5, <2>6
<1>17. ASSUME NEW p \in Paths, ReadDigest(p) PROVE StepsLeft' < StepsLeft
  <2>1. /\ pc[Crawler] = "read" /\ pc'[Crawler] = "read" /\ InRound /\ InRound'
        /\ iter' = iter /\ p \notin seen /\ seen' = seen \cup {p}
        /\ batch' = batch \/ batch' = batch \cup {p}
    BY <1>17 DEF ReadDigest, InRound
  <2>2. U' = U - 1
    <3>1. Paths \ seen' = (Paths \ seen) \ {p} /\ p \in Paths \ seen
      BY <2>1
    <3> QED
      BY <1>1, <3>1, FS_RemoveElement, ZenonT(30) DEF U
  <2>3. B' <= B + 1 /\ (batch # {} => B' <= B + 1 /\ R = 4)
    <3>1. CASE batch' = batch
      BY <1>1, <1>4, <1>6, <2>1, <3>1
    <3>2. CASE batch' = batch \cup {p} /\ p \notin batch
      <4>1. B' = B + 1
        BY <1>1, <3>2, FS_AddElement DEF B
      <4>2. batch # {} => R = 4
        BY <1>4, <2>1
      <4> QED
        BY <1>1, <4>1, <4>2
    <3>3. CASE batch' = batch \cup {p} /\ p \in batch
      <4>1. batch' = batch
        BY <3>3
      <4> QED
        BY <3>1, <4>1
    <3> QED
      BY <2>1, <3>1, <3>2, <3>3
  <2>4. M' = M
    BY <1>4, <2>1
  <2> QED
    BY <1>1, <1>2, <1>3, <1>9, <1>13, <2>1, <2>2, <2>3, <2>4
<1>18. CASE ListEnds \/ ListFails
  <2>1. /\ pc[Crawler] = "read" /\ pc'[Crawler] = "check" /\ InRound /\ InRound'
        /\ iter = "more" /\ iter' # "more" /\ UNCHANGED <<seen, batch>>
    BY <1>0, <1>18 DEF ListEnds, ListFails, Goto, InRound, ListInv
  <2>2. M = 4 /\ M' = 0 /\ R' = 0 /\ U' = U /\ B' = B
    BY <1>4, <1>5, <1>6, <2>1
  <2> QED
    BY <1>1, <1>2, <1>3, <1>9, <1>13, <2>1, <2>2
<1>19. CASE BatchFull
  <2>1. /\ pc[Crawler] = "read" /\ pc'[Crawler] = "check" /\ InRound /\ InRound'
        /\ UNCHANGED <<iter, seen, batch>> /\ Full
    BY <1>0, <1>19 DEF BatchFull, Goto, InRound, crawl, listing
  <2>2. batch # {}
    BY <2>1, FS_EmptySet, UICacheAssumption, SMTT(30)
    DEF Full, UICacheAssumption
  <2>3. M' = M /\ R = 4 /\ R' = 0 /\ U' = U /\ B' = B
    BY <1>4, <1>5, <1>6, <2>1, <2>2
  <2> QED
    BY <1>1, <1>2, <1>3, <1>9, <1>13, <2>1, <2>3
<1>20. CASE CheckContext
  <2>1. pc[Crawler] = "check" /\ InRound
    BY <1>20 DEF CheckContext, InRound
  <2>2. CASE EndCrawl
    BY <1>0, <1>10, <2>1, <2>2 DEF EndCrawl, Goto
  <2>3. CASE Goto(Crawler, "fetch")
    <3>1. /\ pc'[Crawler] = "fetch" /\ InRound'
          /\ UNCHANGED <<iter, seen, batch>>
      BY <1>0, <1>20, <2>3 DEF CheckContext, Goto, InRound, listing
    <3>2. M' = M /\ R = 0 /\ R' = 0 /\ U' = U /\ B' = B
      BY <1>4, <1>5, <1>6, <2>1, <3>1
    <3> QED
      BY <1>1, <1>2, <1>3, <1>9, <1>13, <2>1, <3>1, <3>2
  <2> QED
    BY <1>20, <2>2, <2>3 DEF CheckContext
<1>21. ASSUME NEW p \in Paths, FetchOne(p) PROVE StepsLeft' < StepsLeft
  <2>1. /\ pc[Crawler] = "fetch" /\ pc'[Crawler] = "fetch" /\ InRound /\ InRound'
        /\ UNCHANGED <<iter, seen>> /\ p \in batch /\ batch' = batch \ {p}
    BY <1>21 DEF FetchOne, InRound
  <2>2. B' = B - 1
    BY <1>1, <2>1, FS_RemoveElement DEF B
  <2>3. M' = M /\ R = 0 /\ R' = 0 /\ U' = U
    BY <1>4, <1>5, <2>1
  <2> QED
    BY <1>1, <1>2, <1>3, <1>9, <1>13, <2>1, <2>2, <2>3
<1>22. CASE FetchedAll
  <2>1. /\ pc[Crawler] = "fetch" /\ pc'[Crawler] = "save" /\ InRound /\ InRound'
        /\ UNCHANGED <<iter, seen, batch>>
    BY <1>0, <1>22 DEF FetchedAll, Goto, InRound, crawl, listing
  <2>2. M' = M /\ R = 0 /\ R' = 0 /\ U' = U /\ B' = B
    BY <1>4, <1>5, <1>6, <2>1
  <2> QED
    BY <1>1, <1>2, <1>3, <1>9, <1>13, <2>1, <2>2
<1>23. CASE SaveBatch
  <2>1. pc[Crawler] = "save" /\ InRound
    BY <1>23 DEF SaveBatch, InRound
  <2>2. CASE EndCrawl
    BY <1>0, <1>10, <2>1, <2>2 DEF EndCrawl, Goto
  <2>3. CASE Goto(Crawler, "read")
    <3>1. /\ pc'[Crawler] = "read" /\ InRound' /\ batch' = {}
          /\ UNCHANGED <<iter, seen, batch>>
      BY <1>0, <1>23, <2>3 DEF SaveBatch, Goto, InRound, ListInv
    <3>2. M' = M /\ R = 0 /\ R' = 0 /\ U' = U /\ B' = B
      BY <1>4, <1>5, <1>6, <2>1, <3>1
    <3> QED
      BY <1>1, <1>2, <1>3, <1>9, <1>13, <2>1, <3>1, <3>2
  <2> QED
    BY <1>23, <2>2, <2>3 DEF SaveBatch
<1> QED
  BY <1>14, <1>15, <1>16, <1>17, <1>18, <1>19, <1>20, <1>21, <1>22, <1>23
  DEF Crawl

\* Nobody else's step changes what it has left.
LEMMA OthersStep ==
  ASSUME TypeOK, [Next]_vars, ~ BeginCrawl, ~ Crawl
  PROVE  StepsLeft' = StepsLeft
<1>0. pc = [a \in Actors |-> pc[a]] /\ Crawler \in Actors /\ Crawler \notin Clients
  BY Distinct DEF TypeOK, Actors
<1>1. ASSUME UNCHANGED listing, pc'[Crawler] = pc[Crawler]
      PROVE  StepsLeft' = StepsLeft
  BY <1>1 DEF StepsLeft, ListLeft, listing
<1>2. CASE UNCHANGED vars \/ Cancel \/ Uploads
  BY <1>1, <1>2
  DEF vars, crawl, Cancel, Uploads, Upload, Publish, CreateCacheInfo
<1>3. ASSUME NEW r \in Clients, AskNar(r) \/ Serve(r) \/ \E p \in Paths : Ask(r, p)
      PROVE  StepsLeft' = StepsLeft
  BY <1>0, <1>1, <1>3
  DEF Serve, AskNar, RespondNar, GiveUp, Lookup, Fetch, Save, RespondInfo, Ask,
      LookupDir, FetchDir, SaveDir, AfterDir, Done, Goto, crawl
<1> QED
  BY <1>2, <1>3 DEF Next

\* A crawl is finite, however long the bucket, however many uploads, requests
\* and failures there are meanwhile: every step it takes uses up some of what
\* it had left when it began, and nobody gives it more.  A batch is cleared in
\* each round of discover's loop, and a digest is listed at most once.
THEOREM CrawlIsBounded ==
  ASSUME IsFiniteSet(Paths)
  PROVE  Spec => CrawlIsUsedUp
<1>1. ASSUME TypeOK, ListInv, TypeOK', ListInv', [Next]_vars
      PROVE  [/\ ~ BeginCrawl => StepsLeft' \in 0..StepsLeft
              /\ Crawl => StepsLeft' < StepsLeft]_vars
  <2>1. StepsLeft \in Nat
    BY <1>1, StepsLeftType
  <2>2. (StepsLeft \in Nat)'
    <3>1. (IsFiniteSet(Paths))'
      OBVIOUS
    <3> QED
      BY <1>1, <3>1, StepsLeftType, PTL
  <2>3. CASE Crawl
    <3>1. StepsLeft' < StepsLeft
      BY <1>1, <2>3, CrawlStep
    <3> QED
      BY <2>1, <2>2, <3>1
  <2>4. CASE ~ Crawl
    <3>1. ~ BeginCrawl => StepsLeft' = StepsLeft
      BY <1>1, <2>4, OthersStep
    <3> QED
      BY <2>1, <2>4, <3>1
  <2> QED
    BY <2>3, <2>4
<1>2. TypeOK /\ ListInv /\ TypeOK' /\ ListInv' /\ [Next]_vars =>
        [/\ ~ BeginCrawl => StepsLeft' \in 0..StepsLeft
         /\ Crawl => StepsLeft' < StepsLeft]_vars
  BY <1>1
<1> QED
  BY <1>2, Types, ListInvariance, PTL DEF Spec, CrawlIsUsedUp
=============================================================================
