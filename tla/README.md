# A verification development for nixcached

nixcached uploads Nix store objects to a blob bucket (`upload`), feeds an
uploader from build hooks (`send`), and serves a bucket to Nix clients and
browsers from behind a SQLite cache (`serve`). This directory holds TLA+
modules translated from the Go sources, TLC configurations that check them on
small instances, and proofs, checked by TLAPS, of what matters most for
instances of any size.

## 1. Inventory

| Part | State it keeps | Operations | Interacts with |
|---|---|---|---|
| **Upload of one object** (`upload.go` `ensureCacheInfo`, `uploadStorePath`, `checkUploadOverwrite`, `dump`) | the bucket: `nix-cache-info`, `nar/*`, `*.narinfo`, `*.ls` | check or create `nix-cache-info`; per object: look at the existing `.narinfo`, merge signatures or dump, write the NAR, then the listing, then the `.narinfo` | other jobs and other processes, through the bucket only |
| **Upload pipeline** (`runUpload`, `processUploads`, `gatherStorePathSet`) | the channel, the batch, the semaphore, the context | read lines, batch up to 100 paths or until a timer, ask Nix for closures (fall back to single queries), one job per object, drain | main goroutine, processor goroutine, job goroutines, signals |
| **Dump** (`dump`, `xzcmd/writer.go`) | a temporary file, a pipe to the listing goroutine, an xz child process | hash, compress, parse the listing on the side | `nix-store --dump`, xz |
| **Send and the pipe** (`send.go`, `openFileCtx`/`writeCtx` of `main.go`, `scanLinesWithEOF`) | a FIFO shared by senders and one uploader | batch lines into writes of at most `PIPE_BUF` bytes, give up after a timeout, in-band end marker | several senders, one uploader |
| **Serve: pool, discovery, shutdown** (`runServe`, `signalDiscovery`) | connection pool, `cancelDiscovery`, `discoveryDone`, `lastDiscoveryEnd` | start at most one discovery, rate-limit it, stop in order | handler goroutines, discovery goroutine, signal |
| **Serve: UI cache and blobs** (`uicache.go`, `serveNARInfo`, `serveNAR`) | SQLite tables `store`, `store_objects` and satellites | `CacheInfo`, `NARInfo` (look up, fetch, save), `discover` (list, batch, fetch, save), stream a NAR | the bucket, which uploads change meanwhile |
| **Index page** (`index.sql`, `has_more.sql`, `cachedList`) | none of its own | keyset paging, closure sizes | the tables |
| **Routing and NAR URLs** (`serve.go`) | none | parse and build `nar/<digest>.nar<ext>` | handlers |
| **Store clients** (`internal/nixstore`) | none | list, look up, ask for path info, dump, over local Nix or SSH; `BatchNARInfo`; the bucket as a store | external programs, buckets; Nix changes the store meanwhile |
| **main** | process signals, log level, bucket driver registry | start a command under a context cancelled by SIGTERM and SIGINT | all |
| **NixOS module, packaging, browser assets** | configuration | units, FIFO, `Restart=on-failure` | systemd |

What is hard to test here, and makes each part correct:

* *Uploads* have no lock and no precondition on any write. What keeps a reader
  safe is order (NAR first) and self-consistency of each `.narinfo` written.
  Every published `.narinfo` must name a file that is there and describe it,
  whichever job crashes, fails, races with `--force`, or meets a build of the
  same path that differs; signatures must be over the NAR advertised and must
  not be lost; one bucket has one store directory.
* *The pipeline* must bound concurrency by `--jobs`, forget no path on the way
  from the input to a job (also if another path of its batch is bad), end
  after the end of input and after a signal, and not leave a job behind.
* *Serve* lets handlers hold a connection while waiting for another. At most
  one discovery may run, no more often than the rate limit; shutdown must
  drain handlers and the discovery, and close the store and then the pool.
* *Dump* must not report a file before its last byte has been written and
  hashed, though a process and two goroutines stand between; it must not leave
  any of them behind, nor wait for one that has gone.
* *Send* must keep lines whole among other senders' and reads that end
  anywhere, must tell the truth about what it has sent, and must return when
  its time is over and be silent from then on, whoever does or does not read.
* *The UI cache* never revalidates a row. Rows must nevertheless stay true of
  the bucket, the `.narinfo` a client has and the NAR it fetches by its URL
  must fit together although the server resolves the URL afresh, and a crawl
  must not drop objects at batch boundaries or at the end.
* *Store clients* read the store directory, then ask Nix, then read the object,
  while Nix builds and collects. What they say must have been true during the
  call, and what was there all the time must be found.
* *Index pages* must show, to somebody who follows their links while rows are
  added, each row once and in order, skip none that was there, and end.

`PROJECT.json` lists each hazard at its line with the properties that cover it,
and a note on each that no property covers yet.

## 2. Modules

```
 NarInfo        data: NAR files, .narinfo records, when one describes the other
   |
 BinaryCache    abstract: what a bucket promises to its readers
   |       \
 NarUpload  UICache        the first implements BinaryCache, the second reads
                           a bucket that changes by BinaryCache's steps
 LineChannel    abstract: what senders and an uploader promise each other
   |
 SendPipe       bytes, batches, timeouts; implements LineChannel
   |
 ScanLines      the split function of the scanner

 UploadPipeline   lines to jobs            Dump         one job's NAR file
 ServeDiscovery   pool, crawls, shutdown   IndexPages   pages over the rows
 LocalStore       a Nix store as a source
```

Between them the modules follow a path all the way: SendPipe delivers lines,
UploadPipeline makes jobs of them, Dump is the one step `Dump` of a job of
NarUpload, UICache reads what NarUpload publishes, ServeDiscovery says when
UICache's crawl runs, and IndexPages shows UICache's rows. LocalStore is the
source that `serve` has in place of a bucket.

`MC<module>` gives model values and constant functions to a module;
`<module>Proofs` extends it with theorems. Definitions marked `Mutant:` in the
modules are plausible wrong versions of an action or operator, kept beside the
right one; no specification uses them. They are the evidence that a property
can fail: `PROJECT.json` ("mutants") pairs each with the property it breaks.

**NarInfo** fixes the abstraction of data. A content is an opaque value, equal
contents have equal hashes, and a file key `nar/<FileHash>.nar<ext>` names one
content, so `Files` is a pair (uncompressed content, algorithm). A `.narinfo`
keeps the four fields the code tells apart: NAR, compression, URL, signatures.

**BinaryCache** is the abstract specification: NAR files are only added, and a
`.narinfo` is published only if it is consistent and its file is there.

**NarUpload** models `uploadStorePath` with one action per call on the bucket.
Code to action: `ensureCacheInfo` is `ReadCacheInfo` and `CreateCacheInfo`;
the job loop starts a job in `StartJob`; `checkUploadOverwrite` is `Check`;
the write of a merged `.narinfo` is `Merge`; `dump` and the comparison with the Nix database
(`upload.go:366-378`) are `Dump`; the writes are `PutNar`, `PutListing`,
`PutNarInfo`. A call may fail, and a write that failed may have reached the
bucket. `Crash` kills a process with all its jobs; it comes back as systemd
would have it. `--jobs` appears as slots, and two slots may work on the same
path, which two batches of one process can bring about. What Nix says of a
path is asked for every batch anew, so each job gets any of the builds in
`StoreNars`: the path may have been collected and built again in between.

**UploadPipeline** models the goroutines around the jobs. `ReadPath`/`ReadEnd`
are the scan loop, `HandOver` the unbuffered channel, `Interrupted` its
`select` on the context; `StopReceiving`, `EndBatch`, `AbandonBatch` are the
inner loop with its timer (the timer may fire at any time); `Gather`,
`GatherOne`, `GatheredAll`, `AbandonSet` are `gatherStorePathSet` with its
fallback to single queries; `Dispatch` and `FinishJob` take and return a
token; `Drain`/`Drained` fill the semaphore at the end. `Terminate` is
SIGTERM or SIGINT, `HangUp` any signal that is not handled.

**ServeDiscovery** models what a handler holds and where runServe is in its
deferred calls: `GetConn`, `FirstCheck`, `GetSecond`, `SecondCheck`, `Respond`
follow an index request through `signalDiscovery`; `EndDiscovery` and
`ReturnConn` are the two last steps of the discovery goroutine, whose order
matters; `Signal`, `ServeReturns`, `CancelDiscovery`, `DiscoveryDone`,
`CloseStore`, `ClosePool` are the shutdown. Other requests take one connection.

**UICache** models the content of the tables, one action per SQL transaction
or bucket call. `LookupDir`, `FetchDir`, `SaveDir` are `CacheInfo`, which both
handlers and the crawler run (`answers` remembers what the bucket said); `Lookup`, `Fetch`, `Save`, `RespondInfo`,
`RespondNar` are `NARInfo` and the handlers over it; `BeginList`,
`ReadDigest`, `ListEnds`, `ListFails`, `BatchFull`, `CheckContext`, `FetchOne`,
`FetchedAll`, `SaveBatch` are `discover` and `BatchNARInfo`. Meanwhile
`Upload`, `Publish` and `CreateCacheInfo` change the bucket by steps that
BinaryCache allows. That NarUpload takes no others is checked and proved
(`ImplementsBinaryCache`), so the two modules fit: UICache relies on what
NarUpload guarantees. What is checked of a client is what Nix does: get a
`.narinfo`, then the URL in it, any time later.

**ScanLines** is `matchInlineEOF` and `scanLinesWithEOF` over the four kinds
of bytes that they tell apart, with `bufio.ScanLines` as an external part. It
also says what a scan of an input is, whoever wrote it: a history of what was
read and what the scanner returned (`IsScan`), with a buffer of a given size. A
final result without a token makes `Scan` of Go 1.21 (`go.mod:3`) return the
empty one (`TokenLength`), as `upload_test.go:303` expects. An end marker in
the same buffer as the line in front of it comes with that line; cut off from
it, it comes with an empty token of its own. The constant `Scans` is any set
of scans, and `ScannerReturnsLines` (in SendPipe, of an uploader whose input is open)
compares what each returned with the lines of the whole input in front of its first end
marker (`AreLinesBeforeEnd`), and, if it failed, with those in front of a line
that is too long for the buffer (`AreLinesBeforeLong`).

**LineChannel** is the abstract specification of the pipe: whole lines, each
delivered at most once and in the order in which they were sent, those of one
sender in the order of its arguments, until the uploader stops at an end
marker, finds nothing left, or has had a signal (`Signal`).

**SendPipe** models `runSend` argument by argument: `Open` and `OpenAbandoned`
are `openFileCtx`; `Skip`, `Add`, `Write`, `Written` and `Finish` the loop;
`WriteFails` the two ways out of `writeCtx` with an error; `Close` the
deferred close, which also ends a write that `writeCtx` has left behind.
`PipeTakes` is the system call of that write: atomic up to `PIPE_BUF` bytes,
otherwise in portions, and only when there is room. Every byte in the pipe
remembers whose line it is of. `OpenInput`, `Read`, `ReadEOF`, `Scan` and
`CloseInput` are the uploader; `Scan` calls ScanLines with what it has read, at
most `MaxTokenSize` bytes at a time, and leaves out blank tokens, which
`runUpload` skips (`upload.go:157`): the one for a lone end marker is never a
store path. `GiveUp` is what makes `upload` close its input with lines pending:
a signal, or a bucket that it cannot use. `Expire` is `--timeout` of a send or a
signal to it. The refinement maps the newlines in the
stream to `sent` (`LinesIn`, the lines that end with each of them in turn) and
the scanner's tokens to `delivered`.

**Dump** counts pieces of the archive at five places between `nar.DumpPath`
and the file. `Write` and `PassToLister` are the MultiWriter's two halves;
`CloseXz`, `Wait` are `xzcmd.Writer.Close`; `Collect`, `Receive` and `Leave`
the closing of the listing pipe, the receive from `listingChan` and the
deferred function. `ListAll`, `CloseChannel`, `Misparse` and `StopListing` are
the listing goroutine; `Xz...` the process; `Copy...` the goroutine of os/exec
behind `cmd.Stdout`. Every one of them may fail or die.

**IndexPages** models the two queries as operators (`Relevant`, `FirstOf`,
`HasMore`, `Requisites`, `ClosureNarSize`), `cachedList` with `serveIndex` as
`Page`, and somebody who opens a page (`Visit`) and follows its links
(`FollowLink`) while rows are added (`AddRows`, the effect of UICache's
`Save` and `SaveBatch`).

**LocalStore** models calls of `nixstore.Local` and `nixstore.SSH`. Both read
names (`ReadSome`) from a directory that changes; the system promises only that
a name which is there all the time has been returned by the end (`AtEnd`).
`Local.NARInfo` stops at the first match; the other calls read all names and
sort them (`ReadAll`, `LookUp`). `PathInfo` is `nix path-info`, once for outputs
and once for derivations. Nix itself is six external steps: it takes and
releases a lock file, unpacks, registers, invalidates and removes an object. A
lock file has the digest of its object, as `StoreDirectory.Object` sees it.

## 3. Runs

No run looks for deadlocks, because each of these programs may legitimately
come to rest (the comment in each `.cfg` says why); that the programs do end
when they must is stated as liveness where it matters.

| Run | Instance | Shows |
|---|---|---|
| `upload_shared` | two processes, one with `--force`, with different algorithms and keys, and builds of one path that differ | `NoDanglingInfo`, `PublishedInfoDescribesFile`, `SignaturesVerify`, and the refinement `ImplementsBinaryCache`, under failures and crashes |
| `upload_one_process` | one process, two jobs for one path, which may be built again between their batches; two keys; another process of another directory | without `--force` a published file stays unless two are uploading different builds at once (`PublishedFileStableUnlessRaced`); `SignaturesKeptUnlessRaced`; `OneStoreDirUnlessRaced` |
| `pipeline` | three paths with a shared reference, one of them not in the store; batches of two, two jobs, three lines, both kinds of signals | `JobsBounded`, `NoJobAfterExit`, `CleanExitComplete`, `NothingForgotten`, and `EndOfInputStops`, `SignalStops` |
| `serve_pool` | three requests over three connections | `OneDiscovery`, `StoreOutlivesUsers`; `SignalDrains`: shutdown gets as far as the pool; `ConnsKeptUnlessTwoDecide` and `StopsUnlessTwoDecide`: nothing but two overlapping requests loses a connection or hangs the exit |
| `serve_hang` | two requests over four connections | **violation** of `SignalStops`: see 6 |
| `ui_requests` | one path, one client, one crawl, two NARs, two algorithms, two directories, failures, a publication and a new `nix-cache-info` of either directory meanwhile | `RowsSound`, `RowsKeepTheirDirUnlessTwoAnswers`, `BodyMatchesInfo` |
| `ui_crawl` | three paths, one of another directory, batches of two, two crawls, failures, a publication meanwhile | `DiscoveryComplete`, `DiscoveryEnds` |
| `send` | two senders with batches of four bytes, one with `--finish`, one with a path that cannot be sent; a pipe of six bytes; an uploader with a buffer of seven, with and without `--keep-alive`, and a signal to it at any time; every scan of every input of up to four bytes, with two sizes of buffer, for the scanner alone | `StreamWhole`, `SuccessMeansSent`, `SilentAfterReturn`, `TimeoutReturns`, `SentArrives`, `ScannerReturnsLines`, and the refinement `ImplementsLineChannel` |
| `dump` | five pieces, pipes of two; a library or xz, with and without a listing | `InfoIsFinal`, `ListingWhole`, `NothingLeft`, `DumpReturns` |
| `index_pages` | five objects, two of the same name, pages of two, with and without a search | `PagesInOrder`, `LastPageCompletes`, `LinksLeadSomewhere` |
| `local_store` | one call of any kind, local or over SSH, two objects, a derivation and an output, one build, failures | `AnswersWereTrue`, `BatchFindsKept`, `NARInfoFindsKeptUnlessLocked` |
| `index_closure` | the objects of `index_pages`, with references over two steps | **violation** of `ClosureCounted`: see 6 |

Some properties are conditional, `[]P => []Q` or `[]P => (A ~> B)`: every
behaviour in which `P` holds throughout has the right-hand side. They say that
one thing, `~P`, is the *only* way in which the code can go wrong, whatever
else fails: two jobs that write one path's `.narinfo` at the same time, two
jobs that upload different builds of one path at the same time, two
processes that both find no `nix-cache-info`, two tasks that get two answers
about the store directory (the variable `answers` of UICache, a history that no
action reads), two index
requests between the two checks of `signalDiscovery`, a lock file of Nix beside
the object looked for, a listing goroutine that
gives up in the middle of the archive. `SentArrives` has the fairness of the
uploader as its condition.

A hazard that is such an exception is not covered by the property, and
`PROJECT.json` says so with a note.

Type invariants, the soundness of the pool (`PoolSound`) and the rate limit of
discoveries (`DiscoveryRateLimited`) are proved (section 4) and not run.

### Bounds

* `MaxLines` (3 lines of input): enough for a full batch of two and another,
  for a path in two batches, and for a bad path beside a good one.
* `MaxPublish` (1 publication while the server runs): one replacement is
  enough to make every cached, held or fetched copy stale. The theorems hold
  for any number.
* `MaxCrawls` (1 or 2): the second crawl meets the rows, and the leftovers, of
  the first.
* `BatchCap` stands for 100, `Concurrency` for `--jobs`, `PoolSize` for the
  pool of the SQLite package; a batch of two is the least that has a
  neighbour, a pool of `2n` the least that lets `n` requests all get past the
  wait, and one of `n` the least with which `n` requests block each other.
* `BuiltAgain`: a job of any process may find either of two builds of a path,
  so two jobs of one process may differ as those of two do.
* Two processes with one slot each, or one with two, are the least that race;
  every property of NarUpload is about one path, so one path is enough, and
  the proofs cover the rest. Pairwise races on one blob do not need a third.
* In `send`, a batch of four bytes holds one line or two; the pipe holds one
  batch and a part of the next, so writes wait for room. `AtomicSize` is
  `PIPE_BUF`, and as large as a batch: the least that the code relies on.
  `MaxTokenSize` stands for the 64 KiB of `bufio.MaxScanTokenSize`: seven is the
  longest line of a batch and a whole end marker behind it.
  `MCScans` has every input of up to `InputBytes` (4) bytes and every way to cut it:
  an end marker with its carriage return, and a line or a part of one behind or
  in front of the short form of the marker; a buffer of three (`BufferSizes`),
  the size of that marker, is filled by a line of three bytes, and one of five
  never is. The theorem has any input and any buffer of at least three.
* In `dump`, five pieces are more than one pipe of the system holds, and more
  than both and the process in between.
* Pages of two over five rows are three pages, the last one not full or, with
  a search or fewer rows, full. Two rows of the same name fall on a page
  boundary.
* In `local_store`, calls share nothing, so one is enough; one build is enough
  to replace an object that was collected, which the start may have or not.
* The two NARs of `ui_requests` are interchangeable (no constant or property
  names one), which makes the symmetry set sound; the run has no liveness
  property. `NewDirs` has both directories: a `nix-cache-info` that is written
  late may contradict what the server has assumed.

### Fairness

* `UploadPipeline`: the main and processor goroutines and every job are
  scheduled (weak fairness). A job returns: its calls are on the bucket and on
  child processes with a context. Nobody is obliged to write lines, to close
  the input or to send signals; the liveness properties begin after one of
  these has happened.
* `ServeDiscovery`: handlers and discovery tasks are scheduled, and their calls
  return. A client may wait for ever: a blocked `Pool.Get` must fail only after
  the signal, when the server's context is done. `runServe` is scheduled. No
  request has to arrive, and time need not pass.
* `UICache`: the discovery goroutine is scheduled. Uploads and clients owe
  nothing. `DiscoveryEnds` does not follow from fairness alone: the listing is
  finite since publications are, and every loop makes progress.

* `SendPipe`: senders are scheduled, and a write to a pipe with room goes on.
  No timeout need pass, nobody need read; `TimeoutReturns` begins when a
  timeout has passed, and `SentArrives` assumes an uploader that reads.
* `Dump`: goroutines are scheduled, and xz goes on with its input and output.
  Nobody need fail or die.

## 4. Proofs

`tlapm` checks all theorems from the named assumptions of each module
(`DataAssumption`, `UploadAssumption`, `PipelineAssumption`,
`DiscoveryAssumption`, `UICacheAssumption`, `SendAssumption`, `ScansAssumption`,
`DumpAssumption`, `IndexAssumption`, `StoreAssumption`): constants have their types, `None`
and the like are not data, a closure relation is reflexive and transitive,
capacities are naturals. There is no bound on how many paths, processes, jobs,
clients, connections, senders, bytes or rows there are, or on `Max...`.

**NarUploadProofs.** `UploadTypeCorrect`, `UploadNeverDangles`,
`UploadDescribesFile`, `UploadSignaturesVerify`, `UploadRefinement`. The
invariant is `TypeOK /\ PublishedInv /\ SlotInv`. That published records are
consistent is not inductive, for a slot writes what it has held since long
before; `SlotInv` says, for each place in `uploadStorePath`, what the held
`.narinfo` is by then (signatures over its NAR from the start, a file of its own after
the dump, that file in the bucket before the `.narinfo` is written). Not even
types are inductive alone: that a URL is set when it is stored needs `SlotInv`.
For the refinement, every action is a step or a stutter of BinaryCache, under
the invariant.

`DirectoryAgreed` (`OneStoreDirUnlessRaced`): whoever uploads has the directory
of the `nix-cache-info` that is there, and whoever is about to create one still
sees none; the second half is what a race breaks. `PublishedFilesStay`
(`PublishedFileStableUnlessRaced`) holds for any number of processes without
`--force`, whatever they build, however often, and however they compress: a
slot that will write a file writes the one that is published, if one has been
published since it looked; a slot that merges has the URL that is published.
What this rests on is that two which upload one path at the same time upload
the same file (`UploadsAgree`), of whichever process they are. Nothing in the
code makes them, see 6. Builds that differ but do not meet are no exception:
the later one finds the `.narinfo` and goes no further.
`SignaturesStay` (`SignaturesKeptUnlessRaced`), for processes without `--force`:
whoever dumps has seen no `.narinfo`, whoever merges holds all its signatures,
and both stay true while nobody else is on the way to write that path.

**UploadPipelineProofs.** `PipelineTypeCorrect`, `PipelineBoundsJobs`,
`PipelineQuietAtExit`, `PipelineForgetsNothing`, `PipelineServesAll`. Two
arguments are independent: tokens are those of busy jobs and those the drain
has put (`SemaphoreInv`), so a full drain means that no job is left; and every
received path is in a batch, waits for its single query, or has all its
objects under way (`PathInv`, which also needs that the objects of a path
visited by an earlier single query are under way). `PipelineNeverStuck` and
`PipelineWorkIsBounded`: see "What liveness rests on" below.

**ServeDiscoveryProofs.** `AtMostOneDiscovery`, `StoreClosedLast`,
`DiscoveriesAreRare`, `PoolIsSound`, `ConnsKept`, `DiscoveryTypeCorrect`. The
invariant relates running tasks to `current`, and each stage of the shutdown
to what has ended by then. For the pool, connections are counted: those of
handlers with one, of handlers with two, of tasks. For `ConnsKept`, as long as
two requests never decide at once, the one that waited for its second
connection finds no discovery started meanwhile, so it starts one and the
connection goes to the task. `LostConnHangsServer` is the other half: once a
connection is forgotten it stays forgotten, and the server never exits. That is
how the counterexample of `serve_hang` comes about, in pools of every size.

**UICacheProofs.** `CacheTypeCorrect`, `CacheStaysSound`,
`RowsStayInTheirDir`, `AnswersFitTogether`, `CrawlForgetsNothing`,
`CrawlGoesOn`, `CrawlIsBounded` (for these two see below). Four
invariants, one upon the types each. *Sound:* files stay, so whoever holds a
sound `.narinfo` keeps one. *Dir:* the directory in the database, and whatever
a task has in hand, is one of the `answers` that the bucket has given, and rows
are saved only if their directory is the one in hand. If all answers were the
same, rows are of the directory in the database; if two calls around the
creation of the file got two, they need not be (6). *Answer:* everything held for a path whose NAR was not replaced is
about the NAR that the bucket has; a NAR is asked for with the compression of
the `.narinfo` that was got. *Crawl:* every digest listed is given up with a
message, in the batch, among its results, or in the database.

**SendPipeProofs.** `SendTypeCorrect`, `LinesStayWhole`, `SuccessIsHonest`,
`ReturnedSendersAreSilent`, `ScannerIsBetweenLines`, `PipeIsLineChannel`,
`LinesFit`, `ScansAgree`, `NothingIsHeldBack`. The invariant (`IInv`) says that a sender's
batch is made of whole lines, that a write has not begun or is over (since batches fit into
`PIPE_BUF`), and that every argument that is behind is in the pipe, in the
batch, or was refused with `failed` set. Most of the work is in lemmas about
concatenated sequences of lines.

For the refinement (`PipeIsLineChannel`) two more things are needed.
`ScannerOK`: the scanner stands between two whole lines, has returned
those behind it and nothing else but blank tokens, and waits for bytes only if no whole line is left of those it
has read. `InOrder`: the newlines of one sender are in the stream in the order
of its arguments. Both speak of the stream through `LinesIn`, and the lemmas
say how that changes: a batch in the pipe appends its lines, and the stream
splits in two between lines (`SplitOfLines`). Then each step of SendPipe is a
step of the channel or a stutter: `PipeTakes` of a batch is `Send`, `Scan` is
`Deliver` of the next line or, at an end marker, `Stop`, `ReadEOF` with nothing
left is `Stop`, `GiveUp` is `Signal`, `CloseInput` before the end is the `Stop` that
a signal allows, and nothing else is seen. `NothingIsHeldBack` is a consequence:
while the uploader waits at an empty pipe it has had every line that was sent.
So is `LinesFit`: what the scanner waits for is the rest of one line, or of a
line and the end marker behind it, and senders refuse lines longer than a
batch; with a buffer of `PipeBufSize + 3` bytes or more (512 and 65536 in the
code) it always has room for another byte, and never fails with `ErrTooLong`.

`ScansAgree` is about the scanner alone, with inputs that no sender writes. By
induction along a scan, the position is the end of a line or the start, the
tokens are the lines before it, each once, and none of them is an end marker,
while the scan goes on; at its end there may be the empty token, which is
where the first end marker is. A scan that fails does so at a full buffer that
holds no more than a line and a part of an end marker.
That the steps of a scan are numbered makes this an induction over naturals;
it goes by a least counterexample (`WFMin`), since an induction principle with
an operator as parameter is out of reach.

**DumpProofs.** `DumpTypeCorrect`, `InfoDescribesTheFile`, `ListingIsWhole`,
`DumpCleansUp`. The invariant orders the five counters and ties each place in
`dump` to what must have ended before it. `DumpNeverStuck` and `DumpIsBounded`:
see below.

**IndexPagesProofs.** `IndexTypeCorrect`, `PagesFollowEachOther`,
`NothingIsSkipped`, `NoEmptyNextPage`, for finite tables of any size. The key
is a lemma: the first rows of a set are closed downwards in the order, so what
is not on a page is behind its last row. The invariant: every row that was
there at the first page is on a page or behind the cursor, and every row shown
is not behind it.

**LocalStoreProofs.** `StoreTypeCorrect`, `AnswersAreTrue`,
`BatchMissesNothing`, `OnlyLocksHide`. For a call in progress: what is not in
`absent` is valid, and since a valid object is in the directory, its name is
not in `gone`; so whoever reads to the end has read it, and after the lookup
has its name in hand. One lemma (`FindingKept`) serves both a call that sorts
and a scan that meets neither a lock nor an error.

**What liveness rests on.** A program that must end ends because nobody waits
in vain and nobody goes on for ever; then it is enough that everybody is
scheduled. The proof system has no rule for the last step, which TLC checks
(`DumpReturns`, `DiscoveryEnds`, `EndOfInputStops`, `SignalStops`,
`SignalDrains`, `StopsUnlessTwoDecide`, `TimeoutReturns`, `SentArrives`), but
the first two are safety, and proved. They are theorems only; no run has them.

* *Nobody waits in vain* says that in every state in which there is something
  left to do, somebody can do it. "Can" is written out as the guards of the
  actions that the fairness is about (`SomebodyCanGoOn`, `CrawlerCanGoOn`,
  `SenderCanGoOn`), without failures that may not happen, because `ENABLED` is
  out of reach. `DumpNeverStuck`, `PipelineNeverStuck`, `SendNeverStuck` and
  `CrawlGoesOn` are about circles of waiting: three pipes around xz; main,
  processor and a full semaphore; writers and a reader of a full pipe.
  `ShutdownWaitsForLostOnly` is about `serve` after a signal: the only thing it
  can wait for in vain is a connection that nobody holds, and unless two
  requests decide at once there is none (`ShutdownNeverHangs`).
* *Nobody goes on for ever* is a number that never grows and that each step of
  the actor makes smaller: of everybody in `dump` (`DumpIsBounded`: at most
  `6 * Size + 18` steps), of a sender (`SendIsBounded`: four per argument, and
  the phases), of a crawl (`CrawlIsBounded`: six per object of the bucket, and
  some), of the upload pipeline (`PipelineWorkIsBounded`: two per store object
  it may have to dispatch, one per token, path and job). In the pipeline each
  path handed over adds to it, so the bound is on what is left after the end of
  the input or a signal, when nobody hands one over any more. That others
  cannot make it grow is the point: no upload gives a crawl more to do than
  there are paths, and no other sender keeps one in its loop.

Hypotheses of these theorems, beyond the named assumptions: at least one job
and enough goroutines to be one each (`Concurrency \in 1..Cardinality(Workers)`;
with `--jobs=0` the claim is false), at least one goroutine for a discovery
(`Tasks # {}`), finitely many paths or store objects (`IsFiniteSet(Paths)`). The
first two are about the model's identities for goroutines, of which Go makes as
many as it needs.

**Only model-checked:** the liveness properties listed above, for what is left
of them, and `ClosureCounted`, which a run refutes. What a recursive algorithm
computes for every input would need an induction over data.

## 5. What is not modelled

* **Routing and NAR URLs**: parsing without state. UICache uses the digest and
  the compression that they yield.
* **`Download`** of a Nix store: one dump, without state.
* **Text around the Nix CLI, `ssh` and SFTP**: arguments, quoting and JSON.
  LocalStore has their calls, UploadPipeline `QueryRecursive` by its effect,
  NarUpload what `nix path-info` reports (`LocalInfo`).
* **The UI cache in front of a Nix store**: UICache reads a bucket. Its
  guarantees about NAR files would not hold there, because a garbage collector
  removes what a bucket keeps, and rows are for ever.
* **An uploader without `--allow-finish`** reads plain lines, with
  `bufio.ScanLines`; **an output of `send` that is a regular file** has no
  reader and no limit. Both are simpler than what SendPipe has.
* **Sizes, times, references, derivers**: no decision modelled depends on them,
  except NAR size, which goes with the NAR hash.
* **main, packaging, assets**: flags, bucket drivers, logging, units, markup.
* **The pool's inside** and SQLite itself: a connection is taken or put back,
  a transaction happens or fails as a whole.
* Readers of a `.narinfo` that is being overwritten: a bucket write is atomic,
  as object stores have it. This is an assumption about the drivers.

## 6. Divergences

Each of these two is a run that ends in a counterexample.

1. **A connection can be lost, and `serve` hangs on exit** (`serve.go:361-366`).
   A request that waited for a second connection and then finds that a
   discovery is running, or is over, keeps that connection. `Pool.Close` waits
   for it for ever after "Waiting for cache connections to finish..."
   (`serve.go:110`).
2. **Closure sizes count direct references only** (`uicache/index.sql:20`). The
   recursive part of `requisites` returns rows under the digest of the
   requisite, not of the object that needs it. Of `a` (1 byte), which needs
   `b` (10), which needs `c` (100), the page says 11.

Noticed, without a run of their own:

* A merged signature can be lost (`upload.go:578`): read, merge and write are
  three steps, and of two jobs that add different signatures to one object the
  second undoes the first, although the comment promises the union
  (`upload.go:541-544`). The TODO at `upload.go:577` knows of it, and
  `SignaturesKeptUnlessRaced` says that this race is the only way.
* A lock file hides an object (`local.go:189`). `Local.NARInfo` takes the first
  name with the digest, in the order of the directory; a lock file of Nix may
  come before the object, Nix does not know its path, and a valid object is
  called `ErrNotFound`, which is for objects that do not exist
  (`nixstore.go:103-104`). `BatchNARInfo` and SSH sort first.
  `NARInfoFindsKeptUnlessLocked` says that this and a failed lookup, for which
  the code says `ErrNotFound` as well (`local.go:94-97`), are the only ways.
* A collected object is not reported as missing: `nixstore.go:45-46` promises
  `ErrNotFound` from `Download`, but the error of the dump is returned as it is
  (`local.go:223`, `ssh.go:241`), so `serveNAR` gives no 404.
* A bucket can get uploaders of two store directories (`upload.go:197`): both
  find no `nix-cache-info`, both write it, both go on, although
  `upload.go:218-219` and `TestEnsureCacheInfo/ConflictingDirs` refuse the
  second if it comes later. `OneStoreDirUnlessRaced` says that this race is
  the only way.
* A server can show rows under a directory that is not theirs
  (`bucket.go:84`, `uicache.go:187-199`): of two tasks that ask for the
  directory, one before and one after `nix-cache-info` is written, the last to
  save its answer decides, and rows that the other has saved or will save
  are shown under it. `RowsKeepTheirDirUnlessTwoAnswers` says that this is the
  only way.
* The crawl is called complete too early (`serve.go:400`). One `.narinfo` that
  does not parse cancels the other fetches of its batch, in every crawl; the
  page then no longer says that the list has not finished downloading
  (`client/templates/index.html:17-21`).
* `README.md:86-88` says that `SIGHUP` lets uploads finish, which was replaced
  by `send --finish` (`CHANGELOG.md:63`); `main.go:65` does not handle it, and
  `HangUp` in UploadPipeline kills the process.
* `--force` means "replace already-uploaded store objects" (`upload.go:56`),
  yet two jobs without it may replace each other's, since each checks long
  before it writes (`upload.go:339`, `:420`): those of two processes that build
  or compress differently, and those of one process, if the path was collected
  and built again with another content between two batches (`upload.go:297`).
  `PublishedFileStableUnlessRaced` says that this race is the only way.
* If `nar.List` refused the middle of an archive that `nar.DumpPath` wrote,
  `dump` would wait for ever at its next write (`upload.go:454-458`, `:465`):
  the goroutine returns without closing its end of the pipe. `DumpReturns`
  says that this is the only way.
* When `nar.DumpPath` fails, nobody closes the compressor (`upload.go:468-470`),
  and an xz process stays until its input is garbage-collected. `NothingLeft`
  says that this is the only way.
* Lines that a sender writes after the uploader has seen the end of its input,
  or that are in the pipe when a signal ends it, are lost, and the sender
  succeeds (`upload.go:147`, `:151-153`, `:89`).
* A line of 64 KiB ends the upload with an error (`upload.go:182`), after what
  precedes it; `send` writes none (`LinesFit`), other writers may.
* `SSH.sshExe` looks at `Executable` where it means `SSHExecutable`
  (`ssh.go:60-65`); a crawl counts an object and its lock file twice;
  a store path that disappears between the listing and `nix path-info` fails
  its whole batch, unlike what `nixstore.go:52-54` says of digests not found.

## 7. Plan

Written: NarInfo, BinaryCache, NarUpload, UploadPipeline, ServeDiscovery,
UICache, ScanLines, LineChannel, SendPipe, Dump, IndexPages and LocalStore, all
but the data, the abstract and the scanner modules with proofs of their own
(those of ScanLines are in SendPipeProofs). What would come next:

1. **UICache over LocalStore**: what a client may still rely on when rows
   outlive the objects they are of.
2. **Row conversions**: what of a `.narinfo` survives the tables
   (`extractNARInfoFromRow`, `upsert_object.sql`), file sizes included.
3. **Proofs**: how many steps `serve` has left after a signal, as for dump,
   senders, crawls and the pipeline.
