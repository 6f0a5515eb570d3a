------------------------------ MODULE UICache ------------------------------
(***************************************************************************)
(* uicache.go, with serveNARInfo and serveNAR of serve.go: the SQLite      *)
(* database in front of a bucket.  Request handlers look a row up, fetch   *)
(* the .narinfo if there is none, save it and answer from what they hold;  *)
(* a crawler (discover) lists the bucket and saves in batches.  A row is   *)
(* never looked up in the bucket again, while uploads go on changing it.   *)
(* Every SQL transaction and every call on the bucket is a step of its     *)
(* own.  Connections are left to ServeDiscovery.                           *)
(***************************************************************************)
EXTENDS NarInfo, Naturals, FiniteSets

CONSTANTS
  StoreDirs,     \* store directories
  DefaultDir,    \* nix.DefaultStoreDirectory
  Unset,         \* the value of a nix-cache-info without a StoreDir line
  DirOf,         \* the store directory of a path: its digest is made from it
  NewDirs,       \* what a nix-cache-info that is written later may state
  Clients,       \* clients, each with one request at a time
  Crawler,       \* the discovery task
  BatchCap,      \* capacity of batchDigests (100)
  Routable,      \* the domain of compressionExtensions
  Faulty,        \* whether calls on the bucket and the database may fail
  MaxPublish,    \* bound: .narinfo files published while the server runs
  MaxCrawls      \* bound: discoveries

ASSUME UICacheAssumption ==
  /\ DefaultDir \in StoreDirs /\ NewDirs \subseteq StoreDirs
  /\ Unset \notin StoreDirs /\ None \notin StoreDirs \cup {Unset}
  /\ DirOf \in [Paths -> StoreDirs]
  /\ Crawler \notin Clients
  /\ BatchCap \in Nat \ {0}
  /\ Routable \subseteq Compressions
  /\ Faulty \in BOOLEAN
  /\ MaxPublish \in Nat /\ MaxCrawls \in Nat
  /\ None \notin Compressions /\ None \notin Files /\ None \notin Paths

VARIABLES
  nars, narinfo, \* the bucket: NAR files and .narinfo blobs
  cacheInfo,     \* the bucket: directory in nix-cache-info, Unset or None
  published,     \* how often an upload has published
  replaced,      \* history: paths that came to name another NAR
  answers,       \* history: the directories that Bucket.CacheInfo returned
  dirRow,        \* table "store": its row, or None
  cache,         \* table "store_objects" and its satellites
  pc, dir,       \* where each client's handler and the crawler are, and the
                 \* store directory that their CacheInfo returned
  path, want,    \* the path of a client's request; None for its .narinfo, or
                 \* the compression in the NAR's URL
  held,          \* the NARInfo in the handler's hands
  got, body,     \* the .narinfo and the NAR file that the client received
  iter,          \* iterError: "more" (nil), "eof" or "error"
  seen, batch,   \* digests listed, and those of them to fetch
  failed,        \* a fetch of the batch failed: grpCtx is cancelled
  fetched,       \* results of BatchNARInfo
  cancelled,     \* discoveryCtx is done
  discovered,    \* lastDiscoveryEnd is set
  crawls,        \* how many discoveries have begun
  present,       \* history: what the bucket had when the listing began
  missed         \* history: digests that were given up

bucket == <<nars, narinfo, cacheInfo, published, replaced, answers>>
client == <<path, want, held, got, body>>
listing == <<iter, seen, batch, failed, fetched, present, missed>>
crawl == <<listing, cancelled, discovered, crawls>>
vars == <<bucket, dirRow, cache, pc, dir, client, crawl>>

Bucket == INSTANCE BinaryCache

Actors == Clients \cup {Crawler}
InfoOrNone == Infos \cup {None}

TypeOK ==
  /\ Bucket!BucketType
  /\ cacheInfo \in StoreDirs \cup {Unset, None}
  /\ published \in 0..MaxPublish
  /\ replaced \subseteq Paths /\ answers \subseteq StoreDirs \cup {Unset}
  /\ dirRow \in StoreDirs \cup {Unset, None}
  /\ cache \in [Paths -> InfoOrNone]
  /\ pc \in [Actors -> {"idle", "dir", "fetchDir", "saveDir", "lookup", "fetch",
                        "save", "respond", "list", "read", "check"}]
  /\ dir \in [Actors -> StoreDirs \cup {Unset, None}]
  /\ path \in [Clients -> Paths \cup {None}]
  /\ want \in [Clients -> Compressions \cup {None}]
  /\ held \in [Clients -> InfoOrNone]
  /\ got \in [Clients -> InfoOrNone]
  /\ body \in [Clients -> Files \cup {None}]
  /\ iter \in {"more", "eof", "error"}
  /\ seen \subseteq Paths /\ batch \subseteq Paths
  /\ failed \in BOOLEAN
  /\ fetched \in [Paths -> InfoOrNone]
  /\ cancelled \in BOOLEAN /\ discovered \in BOOLEAN
  /\ crawls \in 0..MaxCrawls
  /\ present \subseteq Paths /\ missed \subseteq Paths
  /\ \A a \in Actors :
       pc[a] \notin {"idle", "dir", "fetchDir"} => dir[a] # None
  /\ \A r \in Clients :
       /\ pc[r] \in {"idle", "dir", "fetchDir", "saveDir", "lookup", "fetch",
                     "save", "respond"}
       /\ pc[r] # "idle" \/ got[r] # None => path[r] \in Paths
       /\ pc[r] \in {"save", "respond"} => held[r] \in Infos

Init ==
  /\ Bucket!Init
  /\ cacheInfo \in StoreDirs \cup {Unset, None}
  /\ published = 0 /\ replaced = {} /\ answers = {}
  /\ dirRow = None
  /\ cache = [p \in Paths |-> None]
  /\ pc = [a \in Actors |-> "idle"]
  /\ dir = [a \in Actors |-> None]
  /\ path = [r \in Clients |-> None] /\ want = [r \in Clients |-> None]
  /\ held = [r \in Clients |-> None] /\ got = [r \in Clients |-> None]
  /\ body = [r \in Clients |-> None]
  /\ iter = "more" /\ seen = {} /\ batch = {} /\ failed = FALSE
  /\ fetched = [p \in Paths |-> None]
  /\ cancelled = FALSE /\ discovered = FALSE /\ crawls = 0
  /\ present = {} /\ missed = {}

-----------------------------------------------------------------------------
(* The bucket, as uploads change it meanwhile.                             *)

Upload(f) ==
  /\ published < MaxPublish
  /\ Bucket!StoreFile(f)
  /\ UNCHANGED <<cacheInfo, published, replaced, answers, dirRow, cache, pc,
                 dir, client, crawl>>

Publish(p, i) ==
  /\ published < MaxPublish
  /\ published' = published + 1
  /\ Bucket!Publish(p, i)
  /\ replaced' = IF narinfo[p] \in Infos /\ narinfo[p].nar # i.nar
                   THEN replaced \cup {p} ELSE replaced
  /\ UNCHANGED <<cacheInfo, answers, dirRow, cache, pc, dir, client, crawl>>

\* The first upload creates nix-cache-info, with the directory that its own
\* Nix uses.
CreateCacheInfo ==
  /\ cacheInfo = None
  /\ cacheInfo' \in NewDirs
  /\ UNCHANGED <<nars, narinfo, published, replaced, answers, dirRow, cache, pc,
                 dir, client, crawl>>

-----------------------------------------------------------------------------
(* uiCacheConn.CacheInfo, which everything begins with.                    *)

Goto(a, label) == pc' = [pc EXCEPT ![a] = label]

AfterDir(a) == Goto(a, IF a = Crawler THEN "list" ELSE "lookup")

\* A row that is no clean store directory is an error (see GiveUp).
LookupDir(a) ==
  /\ pc[a] = "dir"
  /\ \/ /\ dirRow \in StoreDirs
        /\ dir' = [dir EXCEPT ![a] = dirRow]
        /\ AfterDir(a)
     \/ /\ dirRow = None
        /\ Goto(a, "fetchDir")
        /\ UNCHANGED dir
  /\ UNCHANGED <<bucket, dirRow, cache, client, crawl>>

\* Bucket.CacheInfo: what it returns may differ from what it returned to
\* somebody who asked before.
FetchDir(a) ==
  /\ pc[a] = "fetchDir"
  /\ \E d \in {IF cacheInfo = None THEN DefaultDir ELSE cacheInfo} :
       /\ dir' = [dir EXCEPT ![a] = d]
       /\ answers' = answers \cup {d}
  /\ Goto(a, "saveDir")
  /\ UNCHANGED <<nars, narinfo, cacheInfo, published, replaced, dirRow, cache,
                 client, crawl>>

\* updateCachedStoreDirectory; that it failed is only logged.
SaveDir(a) ==
  /\ pc[a] = "saveDir"
  /\ dirRow' = dir[a] \/ (Faulty /\ UNCHANGED dirRow)
  /\ AfterDir(a)
  /\ UNCHANGED <<bucket, cache, dir, client, crawl>>

-----------------------------------------------------------------------------
(* uiCacheConn.NARInfo, serveNARInfo and serveNAR.                         *)

\* A client asks for <digest>.narinfo.
Ask(r, p) ==
  /\ pc[r] = "idle"
  /\ path' = [path EXCEPT ![r] = p]
  /\ want' = [want EXCEPT ![r] = None]
  /\ got' = [got EXCEPT ![r] = None]
  /\ body' = [body EXCEPT ![r] = None]
  /\ Goto(r, "dir")
  /\ UNCHANGED <<bucket, dirRow, cache, dir, held, crawl>>

\* It follows the URL in the .narinfo that it got: nar/<digest>.nar<ext>.
AskNar(r) ==
  /\ pc[r] = "idle"
  /\ got[r] # None
  /\ want' = [want EXCEPT ![r] = got[r].comp]
  /\ body' = [body EXCEPT ![r] = None]
  /\ Goto(r, "dir")
  /\ UNCHANGED <<bucket, dirRow, cache, dir, path, held, got, crawl>>

\* The handler returns.
Done(r) ==
  /\ Goto(r, "idle")
  /\ held' = [held EXCEPT ![r] = None]
  /\ dir' = [dir EXCEPT ![r] = None]

\* It answers "not found" or "internal server error", for want of a blob or
\* because something failed or the client hung up.
GiveUp(r) ==
  /\ pc[r] \in {"dir", "fetchDir", "lookup", "fetch", "respond"}
  /\ Done(r)
  /\ UNCHANGED <<bucket, dirRow, cache, path, want, got, body, crawl>>

\* The view "narinfo" puts the store path of a row together with dirRow; a
\* row without one does not parse.
Lookup(r) ==
  /\ pc[r] = "lookup"
  /\ cache[path[r]] # None => dirRow \in StoreDirs
  /\ held' = [held EXCEPT ![r] = cache[path[r]]]
  /\ Goto(r, IF cache[path[r]] = None THEN "fetch" ELSE "respond")
  /\ UNCHANGED <<bucket, dirRow, cache, dir, path, want, got, body, crawl>>

\* Mutant: the store directory is not compared.
FetchAnyDir(r) ==
  /\ pc[r] = "fetch"
  /\ narinfo[path[r]] \in Infos
  /\ held' = [held EXCEPT ![r] = narinfo[path[r]]]
  /\ Goto(r, "save")
  /\ UNCHANGED <<bucket, dirRow, cache, dir, path, want, got, body, crawl>>

Fetch(r) ==
  /\ pc[r] = "fetch"
  /\ narinfo[path[r]] \in Infos
  /\ DirOf[path[r]] = dir[r]
  /\ held' = [held EXCEPT ![r] = narinfo[path[r]]]
  /\ Goto(r, "save")
  /\ UNCHANGED <<bucket, dirRow, cache, dir, path, want, got, body, crawl>>

\* Mutant: "on conflict do update set" leaves out one column, the URL.
UpsertKeepingUrl(old, new) ==
  IF old = None THEN new ELSE [new EXCEPT !.url = old.url]

\* upsert_object.sql replaces the row and all that hangs on it.
Upsert(old, new) == new

\* Failing to cache what was found is only a warning.
Save(r) ==
  /\ pc[r] = "save"
  /\ \/ cache' = [cache EXCEPT ![path[r]] = Upsert(@, held[r])]
     \/ Faulty /\ UNCHANGED cache
  /\ Goto(r, "respond")
  /\ UNCHANGED <<bucket, dirRow, dir, client, crawl>>

\* buildNARURL gives the .narinfo a URL of the server's own.
RespondInfo(r) ==
  /\ pc[r] = "respond" /\ want[r] = None
  /\ held[r].comp \in Routable
  /\ got' = [got EXCEPT ![r] = held[r]]
  /\ Done(r)
  /\ UNCHANGED <<bucket, dirRow, cache, path, want, body, crawl>>

\* Mutant: the compression in the URL is ignored.
RespondAnyNar(r) ==
  /\ pc[r] = "respond" /\ want[r] # None
  /\ held[r].url \in nars
  /\ body' = [body EXCEPT ![r] = held[r].url]
  /\ Done(r)
  /\ UNCHANGED <<bucket, dirRow, cache, path, want, got, crawl>>

\* Bucket.Download of the file that the .narinfo names.
RespondNar(r) ==
  /\ pc[r] = "respond" /\ want[r] # None
  /\ held[r].comp = want[r]
  /\ held[r].url \in nars
  /\ body' = [body EXCEPT ![r] = held[r].url]
  /\ Done(r)
  /\ UNCHANGED <<bucket, dirRow, cache, path, want, got, crawl>>

-----------------------------------------------------------------------------
(* discover.                                                               *)

BeginCrawl ==
  /\ pc[Crawler] = "idle"
  /\ ~ cancelled
  /\ crawls < MaxCrawls
  /\ crawls' = crawls + 1
  /\ Goto(Crawler, "dir")
  /\ UNCHANGED <<bucket, dirRow, cache, dir, client, listing, cancelled,
                 discovered>>

\* runServe cancels the discovery when it stops.
Cancel ==
  /\ ~ cancelled
  /\ cancelled' = TRUE
  /\ UNCHANGED <<bucket, dirRow, cache, pc, dir, client, listing, discovered,
                 crawls>>

\* discover returns and signalDiscovery's goroutine records the end.
EndCrawl ==
  /\ Goto(Crawler, "idle")
  /\ dir' = [dir EXCEPT ![Crawler] = None]
  /\ discovered' = TRUE

\* CacheInfo failed.
CrawlFails ==
  /\ \/ pc[Crawler] = "dir" /\ (Faulty \/ dirRow = Unset)
     \/ pc[Crawler] = "fetchDir" /\ Faulty
  /\ EndCrawl
  /\ UNCHANGED <<bucket, dirRow, cache, client, listing, cancelled, crawls>>

Existing == {p \in Paths : narinfo[p] # None}

BeginList ==
  /\ pc[Crawler] = "list"
  /\ iter' = "more" /\ seen' = {} /\ batch' = {} /\ failed' = FALSE
  /\ present' = Existing /\ missed' = {}
  /\ Goto(Crawler, "read")
  /\ UNCHANGED <<bucket, dirRow, cache, dir, client, fetched, cancelled,
                 discovered, crawls>>

Full == Cardinality(batch) >= BatchCap

\* The next digest; one that is in the database is not fetched again.  An
\* interrupted or failed query is logged.
ReadDigest(p) ==
  /\ pc[Crawler] = "read" /\ ~ Full
  /\ p \in Existing \ seen
  /\ seen' = seen \cup {p}
  /\ \/ /\ batch' = IF cache[p] = None THEN batch \cup {p} ELSE batch
        /\ UNCHANGED missed
     \/ /\ Faulty \/ cancelled
        /\ missed' = missed \cup {p}
        /\ UNCHANGED batch
  /\ UNCHANGED <<bucket, dirRow, cache, pc, dir, client, iter, failed, fetched,
                 present, cancelled, discovered, crawls>>

\* io.EOF: every digest that was there all the time has been listed, and
\* perhaps some that were added meanwhile.
ListEnds ==
  /\ pc[Crawler] = "read" /\ ~ Full
  /\ present \subseteq seen
  /\ iter' = "eof"
  /\ Goto(Crawler, "check")
  /\ UNCHANGED <<bucket, dirRow, cache, dir, client, seen, batch, failed,
                 fetched, present, missed, cancelled, discovered, crawls>>

ListFails ==
  /\ pc[Crawler] = "read" /\ ~ Full
  /\ Faulty \/ cancelled
  /\ iter' = "error"
  /\ Goto(Crawler, "check")
  /\ UNCHANGED <<bucket, dirRow, cache, dir, client, seen, batch, failed,
                 fetched, present, missed, cancelled, discovered, crawls>>

BatchFull ==
  /\ pc[Crawler] = "read" /\ Full
  /\ Goto(Crawler, "check")
  /\ UNCHANGED <<bucket, dirRow, cache, dir, client, crawl>>

\* Mutant: the loop is left at the end of the listing, with a batch in hand.
CheckContextAndEnd ==
  /\ pc[Crawler] = "check"
  /\ \/ /\ cancelled \/ iter # "more"
        /\ EndCrawl
     \/ /\ ~ cancelled /\ iter = "more"
        /\ Goto(Crawler, "fetch")
        /\ UNCHANGED <<dir, discovered>>
  /\ UNCHANGED <<bucket, dirRow, cache, client, listing, cancelled, crawls>>

\* A cancelled crawl gives its batch up; the end of the listing or an error
\* in it does not.
CheckContext ==
  /\ pc[Crawler] = "check"
  /\ \/ cancelled /\ EndCrawl
     \/ /\ ~ cancelled
        /\ Goto(Crawler, "fetch")
        /\ UNCHANGED <<dir, discovered>>
  /\ UNCHANGED <<bucket, dirRow, cache, client, listing, cancelled, crawls>>

\* BatchNARInfo, one call for each digest: after the first error the context
\* of the others is cancelled, and each of them may or may not fail with it.
FetchOne(p) ==
  /\ pc[Crawler] = "fetch"
  /\ p \in batch
  /\ batch' = batch \ {p}
  /\ \/ /\ narinfo[p] \in Infos
        /\ fetched' = [fetched EXCEPT ![p] = narinfo[p]]
        /\ UNCHANGED <<failed, missed>>
     \/ /\ narinfo[p] = Garbled \/ failed \/ cancelled \/ Faulty
        /\ failed' = TRUE
        /\ missed' = missed \cup {p}
        /\ UNCHANGED fetched
  /\ UNCHANGED <<bucket, dirRow, cache, pc, dir, client, iter, seen, present,
                 cancelled, discovered, crawls>>

FetchedAll ==
  /\ pc[Crawler] = "fetch"
  /\ batch = {}
  /\ Goto(Crawler, "save")
  /\ UNCHANGED <<bucket, dirRow, cache, dir, client, crawl>>

Results == {p \in Paths : fetched[p] # None}

\* Objects of another store directory are skipped.
Cachable == {p \in Results : DirOf[p] = dir[Crawler]}

\* The rows of S are upserted; the other results are lost, with a message.
SaveResults(S) ==
  /\ cache' = [p \in Paths |->
                 IF p \in S THEN Upsert(cache[p], fetched[p]) ELSE cache[p]]
  /\ missed' = missed \cup (Results \ S)

\* Mutant: a batch that could not be saved is fetched again.
SaveBatchRetrying ==
  /\ pc[Crawler] = "save"
  /\ fetched' = [p \in Paths |-> None]
  /\ failed' = FALSE
  /\ \/ /\ SaveResults(Cachable)
        /\ \/ iter # "more" /\ EndCrawl
           \/ /\ iter = "more"
              /\ Goto(Crawler, "read")
              /\ UNCHANGED <<dir, discovered>>
        /\ UNCHANGED batch
     \/ /\ Faulty
        /\ batch' = Results
        /\ Goto(Crawler, "fetch")
        /\ UNCHANGED <<cache, missed, dir, discovered>>
  /\ UNCHANGED <<bucket, dirRow, client, iter, seen, present, cancelled, crawls>>

\* One transaction for the batch.  A row may fail alone, or all of them.
SaveBatch ==
  /\ pc[Crawler] = "save"
  /\ \E S \in IF Faulty \/ cancelled THEN SUBSET Cachable ELSE {Cachable} :
       SaveResults(S)
  /\ fetched' = [p \in Paths |-> None]
  /\ failed' = FALSE
  /\ \/ iter # "more" /\ EndCrawl
     \/ /\ iter = "more"
        /\ Goto(Crawler, "read")
        /\ UNCHANGED <<dir, discovered>>
  /\ UNCHANGED <<bucket, dirRow, client, iter, seen, batch, present, cancelled,
                 crawls>>

-----------------------------------------------------------------------------
Serve(r) ==
  \/ LookupDir(r) \/ FetchDir(r) \/ SaveDir(r) \/ Lookup(r) \/ Fetch(r)
  \/ Save(r) \/ RespondInfo(r) \/ RespondNar(r) \/ GiveUp(r)

Crawl ==
  \/ LookupDir(Crawler) \/ FetchDir(Crawler) \/ SaveDir(Crawler)
  \/ CrawlFails \/ BeginList \/ ListEnds \/ ListFails \/ BatchFull
  \/ CheckContext \/ FetchedAll \/ SaveBatch
  \/ \E p \in Paths : ReadDigest(p) \/ FetchOne(p)

Uploads ==
  \/ \E f \in Files : Upload(f)
  \/ \E p \in Paths, i \in Infos : Publish(p, i)
  \/ CreateCacheInfo

Next ==
  \/ \E r \in Clients : AskNar(r) \/ Serve(r) \/ \E p \in Paths : Ask(r, p)
  \/ BeginCrawl \/ Cancel \/ Crawl
  \/ Uploads

Spec == Init /\ [][Next]_vars

\* The discovery goroutine is scheduled, and its calls return.
FairSpec == Spec /\ WF_vars(Crawl)

-----------------------------------------------------------------------------
(* Properties.                                                             *)

Sound(i) == Consistent(i) /\ i.url \in nars

\* Every row, and every .narinfo in anybody's hands, is right about a file
\* that is still in the bucket, however old it is, and however requests and
\* the crawler overwrite each other's rows.
RowsSound ==
  /\ \A p \in Paths : cache[p] # None => Sound(cache[p])
  /\ \A p \in Paths : fetched[p] # None => Sound(fetched[p])
  /\ \A r \in Clients : held[r] # None => Sound(held[r])
  /\ \A r \in Clients : got[r] # None => Sound(got[r])

\* A row is presented as the store object that was published: its store path
\* is put together (repeatable.sql:17) with the directory it really has.  A
\* server that began before there was a nix-cache-info refuses the objects of
\* another directory than the default one, but does not show them under it;
\* unless two callers of CacheInfo got two answers from the bucket, neither
\* having found the other's in the database.
RowsKeepTheirDirUnlessTwoAnswers ==
  (\A d, e \in answers : d = e) =>
    \A p \in Paths : cache[p] # None /\ dirRow # None => dirRow = DirOf[p]

\* The file that a client gets from the URL in the .narinfo it got is one
\* that this .narinfo describes, unless another NAR was published for the
\* path since the server started.
BodyMatchesInfo ==
  \A r \in Clients : body[r] # None =>
    /\ body[r].comp = got[r].comp
    /\ path[r] \notin replaced => body[r].nar = got[r].nar

\* A crawl that reached the end of the listing has saved every object that
\* was there when it began, or has logged why not; it forgets none on the
\* boundary of a batch or at the end.
DiscoveryComplete ==
  pc[Crawler] = "idle" /\ iter = "eof" /\ ~ cancelled =>
    \A p \in present : cache[p] # None \/ p \in missed

\* A crawl ends, whatever fails.
DiscoveryEnds == pc[Crawler] # "idle" ~> pc[Crawler] = "idle"
=============================================================================
