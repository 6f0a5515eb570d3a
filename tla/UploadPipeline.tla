--------------------------- MODULE UploadPipeline ---------------------------
(***************************************************************************)
(* upload.go: runUpload's scan loop, processUploads and gatherStorePathSet.*)
(* The main goroutine hands store paths over an unbuffered channel to one  *)
(* processor goroutine, which batches them, asks Nix for their closures    *)
(* and starts an upload job per store object, as many at a time as the     *)
(* semaphore lets it.  A job is opaque here: NarUpload models what it does.*)
(***************************************************************************)
EXTENDS Naturals, Sequences, FiniteSets

CONSTANTS
  Paths,        \* store objects
  Closure,      \* the references of each, transitively, itself included
  Absent,       \* known to Nix but not in the store: no NAR hash
  Workers,      \* identities of job goroutines
  Concurrency,  \* --jobs
  BatchCap,     \* capacity of storePathBatch (100)
  Signals,      \* the signals that the environment may send
  MaxLines,     \* bound: store paths that the input holds
  None          \* "no path"

ASSUME PipelineAssumption ==
  /\ Closure \in [Paths -> SUBSET Paths]
  /\ \A p \in Paths : p \in Closure[p]
  /\ \A p \in Paths : \A q \in Closure[p] : Closure[q] \subseteq Closure[p]
  /\ Absent \subseteq Paths
  /\ IsFiniteSet(Workers)
  /\ Concurrency \in Nat
  /\ BatchCap \in Nat \ {0}
  /\ MaxLines \in Nat
  /\ Signals \subseteq {"TERM", "HUP"}
  /\ None \notin Paths

VARIABLES
  main,       \* where runUpload is
  line,       \* the store path it wants to hand over
  lines,      \* how many it has read
  cancelled,  \* ctx, and with it processCtx, is done
  proc,       \* where processUploads is
  batch,      \* storePathBatch
  todo,       \* gatherStorePathSet: paths still to be queried one by one
  visited,    \* gatherStorePathSet: paths that a single query reported
  set,        \* store objects gathered and not yet dispatched
  tokens,     \* how full the semaphore is
  drained,    \* how many tokens the final loop of processUploads has put
  job,        \* the store object each goroutine is uploading
  received,   \* history: paths taken off the channel
  warned,     \* history: paths whose own query failed and was logged
  attempted   \* history: store objects whose upload ran to its end

mainVars == <<main, line, lines>>
procVars == <<proc, batch, todo, visited, set, drained>>
jobVars == <<tokens, job>>
history == <<received, warned, attempted>>
vars == <<mainVars, cancelled, procVars, jobVars, history>>

Busy == {w \in Workers : job[w] # None}

Elems(s) == {s[i] : i \in 1..Len(s)}

TypeOK ==
  /\ main \in {"scan", "send", "closed", "cancelling", "exited", "killed"}
  /\ line \in Paths \cup {None}
  /\ main = "send" => line \in Paths
  /\ lines \in 0..MaxLines
  /\ cancelled \in BOOLEAN
  /\ proc \in {"recv", "batch", "gather", "single", "dispatch", "drain", "done"}
  /\ batch \in Seq(Paths) /\ Len(batch) <= BatchCap
  /\ proc = "recv" => batch = <<>>
  /\ todo \in Seq(Paths)
  /\ visited \subseteq Paths /\ set \subseteq Paths
  /\ tokens \in 0..Concurrency /\ drained \in 0..Concurrency
  /\ job \in [Workers -> Paths \cup {None}]
  /\ received \subseteq Paths /\ warned \subseteq Paths
  /\ attempted \subseteq Paths

Init ==
  /\ main = "scan" /\ line = None /\ lines = 0
  /\ cancelled = FALSE
  /\ proc = "recv" /\ batch = <<>> /\ todo = <<>>
  /\ visited = {} /\ set = {} /\ drained = 0
  /\ tokens = 0
  /\ job = [w \in Workers |-> None]
  /\ received = {} /\ warned = {} /\ attempted = {}

Alive == main \notin {"exited", "killed"}

-----------------------------------------------------------------------------
(* The environment: input and signals.                                     *)

\* A line that is a valid store path; the loop skips all others.
ReadPath(p) ==
  /\ main = "scan"
  /\ lines < MaxLines
  /\ lines' = lines + 1
  /\ line' = p
  /\ main' = "send"
  /\ UNCHANGED <<cancelled, procVars, jobVars, history>>

\* The end of the input, an inline EOF or a read error: close(storePaths).
ReadEnd ==
  /\ main = "scan"
  /\ main' = "closed"
  /\ UNCHANGED <<line, lines, cancelled, procVars, jobVars, history>>

\* main.go: SIGTERM and SIGINT cancel the context.
Terminate ==
  /\ Alive /\ "TERM" \in Signals /\ ~ cancelled
  /\ cancelled' = TRUE
  /\ UNCHANGED <<mainVars, procVars, jobVars, history>>

\* No other signal is handled: the process and its goroutines are gone.
HangUp ==
  /\ Alive /\ "HUP" \in Signals
  /\ main' = "killed"
  /\ job' = [w \in Workers |-> None]
  /\ UNCHANGED <<line, lines, cancelled, procVars, tokens, history>>

-----------------------------------------------------------------------------
(* runUpload.                                                              *)

\* Mutant: only the wait for input is abandoned, not the one to hand over.
InterruptedWhileScanning ==
  /\ main = "scan"
  /\ cancelled
  /\ main' = "cancelling"
  /\ UNCHANGED <<line, lines, cancelled, procVars, jobVars, history>>

\* The select of the loop, on the scanner or on the channel, sees ctx.Done.
Interrupted ==
  /\ main \in {"scan", "send"}
  /\ cancelled
  /\ main' = "cancelling"
  /\ UNCHANGED <<line, lines, cancelled, procVars, jobVars, history>>

\* The unbuffered channel: both sides move in one step.
HandOver ==
  /\ main = "send"
  /\ proc = "recv" \/ (proc = "batch" /\ Len(batch) < BatchCap)
  /\ batch' = Append(batch, line)
  /\ received' = received \cup {line}
  /\ main' = "scan"
  /\ line' = None
  /\ proc' = "batch"
  /\ UNCHANGED <<lines, cancelled, todo, visited, set, drained,
                 jobVars, warned, attempted>>

\* <-processDone, then the deferred bucket.Close.
Exit ==
  /\ main \in {"closed", "cancelling"}
  /\ proc = "done"
  /\ main' = "exited"
  /\ UNCHANGED <<line, lines, cancelled, procVars, jobVars, history>>

-----------------------------------------------------------------------------
(* processUploads.                                                         *)

Running(where) == main # "killed" /\ proc = where

\* The channel is closed, or processCtx is done, between two batches.
StopReceiving ==
  /\ Running("recv")
  /\ main = "closed" \/ cancelled
  /\ proc' = "drain"
  /\ UNCHANGED <<mainVars, cancelled, batch, todo, visited, set, drained,
                 jobVars, history>>

\* The batch is full, the timer fired, or the channel is closed.
EndBatch ==
  /\ Running("batch")
  /\ proc' = "gather"
  /\ UNCHANGED <<mainVars, cancelled, batch, todo, visited, set, drained,
                 jobVars, history>>

\* processCtx is done while the batch still has room.
AbandonBatch ==
  /\ Running("batch")
  /\ cancelled /\ Len(batch) < BatchCap
  /\ proc' = "drain"
  /\ UNCHANGED <<mainVars, cancelled, batch, todo, visited, set, drained,
                 jobVars, history>>

\* Mutant: a batch with a path that Nix does not know is given up.
GatherAllOrNothing ==
  /\ Running("gather")
  /\ set' \in {{}, UNION {Closure[p] : p \in Elems(batch)}}
  /\ proc' = "dispatch"
  /\ UNCHANGED <<mainVars, cancelled, batch, todo, visited, drained,
                 jobVars, history>>

\* One query for the whole batch; on an error the paths are tried one by one.
Gather ==
  /\ Running("gather")
  /\ \/ /\ set' = UNION {Closure[p] : p \in Elems(batch)}
        /\ proc' = "dispatch"
        /\ UNCHANGED <<todo, visited>>
     \/ /\ set' = {}
        /\ todo' = batch
        /\ visited' = {}
        /\ proc' = "single"
  /\ UNCHANGED <<mainVars, cancelled, batch, drained, jobVars, history>>

\* Mutant: the last result replaces the ones before it.
GatherOneReplacing ==
  /\ Running("single")
  /\ todo # <<>>
  /\ todo' = Tail(todo)
  /\ LET p == Head(todo) IN
     \/ p \in visited /\ UNCHANGED <<visited, set, warned>>
     \/ /\ p \notin visited
        /\ warned' = warned \cup {p}
        /\ UNCHANGED <<visited, set>>
     \/ /\ p \notin visited
        /\ set' = (Closure[p] \ visited) \ Absent
        /\ visited' = visited \cup Closure[p]
        /\ UNCHANGED warned
  /\ UNCHANGED <<mainVars, cancelled, proc, batch, drained, jobVars,
                 received, attempted>>

GatherOne ==
  /\ Running("single")
  /\ todo # <<>>
  /\ todo' = Tail(todo)
  /\ LET p == Head(todo) IN
     \/ p \in visited /\ UNCHANGED <<visited, set, warned>>
     \/ /\ p \notin visited
        /\ warned' = warned \cup {p}
        /\ UNCHANGED <<visited, set>>
     \/ /\ p \notin visited
        /\ set' = set \cup ((Closure[p] \ visited) \ Absent)
        /\ visited' = visited \cup Closure[p]
        /\ UNCHANGED warned
  /\ UNCHANGED <<mainVars, cancelled, proc, batch, drained, jobVars,
                 received, attempted>>

GatheredAll ==
  /\ Running("single")
  /\ todo = <<>>
  /\ proc' = "dispatch"
  /\ UNCHANGED <<mainVars, cancelled, batch, todo, visited, set, drained,
                 jobVars, history>>

\* Mutant: the token is taken inside the goroutine, after it was started.
DispatchUnlimited(w) ==
  /\ Running("dispatch")
  /\ job[w] = None
  /\ tokens' = IF tokens < Concurrency THEN tokens + 1 ELSE tokens
  /\ \E p \in set :
       /\ set' = set \ {p}
       /\ job' = [job EXCEPT ![w] = p]
  /\ UNCHANGED <<mainVars, cancelled, proc, batch, todo, visited, drained,
                 history>>

\* A token goes into the semaphore and a goroutine starts.
Dispatch(w) ==
  /\ Running("dispatch")
  /\ job[w] = None
  /\ tokens < Concurrency
  /\ tokens' = tokens + 1
  /\ \E p \in set :
       /\ set' = set \ {p}
       /\ job' = [job EXCEPT ![w] = p]
  /\ UNCHANGED <<mainVars, cancelled, proc, batch, todo, visited, drained,
                 history>>

AbandonSet ==
  /\ Running("dispatch")
  /\ set # {} /\ cancelled
  /\ proc' = "drain"
  /\ UNCHANGED <<mainVars, cancelled, batch, todo, visited, set, drained,
                 jobVars, history>>

\* The whole set is dispatched: the next batch starts empty.
NextBatch ==
  /\ Running("dispatch")
  /\ set = {}
  /\ batch' = <<>>
  /\ proc' = "recv"
  /\ UNCHANGED <<mainVars, cancelled, todo, visited, set, drained,
                 jobVars, history>>

\* Mutant: a job that fails returns before it takes its token out.
FinishJobKeepingToken(w) ==
  /\ job[w] # None
  /\ attempted' = attempted \cup {job[w]}
  /\ job' = [job EXCEPT ![w] = None]
  /\ UNCHANGED <<mainVars, cancelled, procVars, tokens, received, warned>>

\* The job's goroutine: uploadStorePath returns, and the token is taken out.
FinishJob(w) ==
  /\ job[w] # None
  /\ attempted' = attempted \cup {job[w]}
  /\ job' = [job EXCEPT ![w] = None]
  /\ tokens' = tokens - 1
  /\ UNCHANGED <<mainVars, cancelled, procVars, received, warned>>

\* The deferred loop fills the semaphore once more, waiting for every job.
Drain ==
  /\ Running("drain")
  /\ drained < Concurrency
  /\ tokens < Concurrency
  /\ tokens' = tokens + 1
  /\ drained' = drained + 1
  /\ UNCHANGED <<mainVars, cancelled, proc, batch, todo, visited, set, job,
                 history>>

\* Mutant: one job may still be running when the drain is over.
DrainedOneShort ==
  /\ Running("drain")
  /\ drained + 1 >= Concurrency
  /\ proc' = "done"
  /\ UNCHANGED <<mainVars, cancelled, batch, todo, visited, set, drained,
                 jobVars, history>>

Drained ==
  /\ Running("drain")
  /\ drained = Concurrency
  /\ proc' = "done"
  /\ UNCHANGED <<mainVars, cancelled, batch, todo, visited, set, drained,
                 jobVars, history>>

-----------------------------------------------------------------------------
Main == HandOver \/ Interrupted \/ Exit

Process ==
  \/ StopReceiving \/ EndBatch \/ AbandonBatch
  \/ Gather \/ GatherOne \/ GatheredAll
  \/ AbandonSet \/ NextBatch \/ Drain \/ Drained
  \/ \E w \in Workers : Dispatch(w)

Environment ==
  \/ \E p \in Paths : ReadPath(p)
  \/ ReadEnd \/ Terminate \/ HangUp

Next ==
  \/ Main \/ Process \/ Environment
  \/ \E w \in Workers : FinishJob(w)

Spec == Init /\ [][Next]_vars

\* Goroutines are scheduled, and an upload returns sooner or later (with a
\* cancelled context at the latest).  Nobody has to write to the input, or
\* to close it, or to send a signal.
Fairness ==
  /\ WF_vars(Main) /\ WF_vars(Process)
  /\ \A w \in Workers : WF_vars(FinishJob(w))

FairSpec == Spec /\ Fairness

-----------------------------------------------------------------------------
(* Properties.                                                             *)

\* --jobs is the "number of upload jobs to perform simultaneously"
\* (upload.go:57), across batches and while processUploads drains.
JobsBounded == Cardinality(Busy) <= Concurrency

\* The bucket is closed, and the process ends, only when no job uses it any
\* more, be it after the end of the input or after a signal.
NoJobAfterExit == main = "exited" => Busy = {}

\* What has become of a path taken off the channel: its store objects were
\* attempted, or Nix refused the path itself, with a warning.
Served(p) == p \in warned \/ Closure[p] \ Absent \subseteq attempted

\* A process that ends because its input did has tried to upload the whole
\* closure of every path it received, also when other paths of the same
\* batch were bad (upload.go:287-290).
CleanExitComplete ==
  main = "exited" /\ ~ cancelled => \A p \in received : Served(p)

\* Nothing received is forgotten on the way: until a signal arrives, a path
\* is in the batch, or being gathered, dispatched or uploaded, or served.
NothingForgotten ==
  Alive /\ ~ cancelled => \A p \in received :
    \/ Served(p)
    \/ proc \in {"batch", "gather"} /\ p \in Elems(batch)
    \/ proc = "single" /\ p \in Elems(todo)
    \/ Closure[p] \ Absent \subseteq
         attempted \cup {job[w] : w \in Busy} \cup set

\* After the end of the input or a signal, the process ends.
EndOfInputStops == main = "closed" ~> ~ Alive
SignalStops == cancelled ~> ~ Alive
=============================================================================
