--------------------------- MODULE ServeDiscovery ---------------------------
(***************************************************************************)
(* serve.go: the connection pool shared by request handlers and discovery, *)
(* signalDiscovery, and the order in which runServe shuts down.  An index  *)
(* request keeps its own connection while it waits for a second one, which *)
(* it hands to the discovery task it starts; every other request holds one *)
(* connection until its response is written.  What is read and written     *)
(* through a connection is left out.                                       *)
(***************************************************************************)
EXTENDS Naturals, FiniteSets

CONSTANTS
  Requests,  \* identities of handler goroutines
  Tasks,     \* identities of discovery goroutines
  PoolSize,  \* connections of the sqlitemigration.Pool
  None       \* no task

ASSUME DiscoveryAssumption ==
  /\ IsFiniteSet(Requests) /\ IsFiniteSet(Tasks)
  /\ PoolSize \in Nat
  /\ None \notin Tasks

VARIABLES
  server,      \* where runServe is
  free,        \* how many connections are in the pool
  req,         \* where each handler is
  task,        \* where each discovery goroutine is
  current,     \* the task of cancelDiscovery and discoveryDone, or None
  interrupted, \* tasks whose context is cancelled
  discovered,  \* lastDiscoveryEnd is set
  recent,      \* ... and no longer than maxListFrequency ago
  waitFor      \* the task whose done channel runServe waits for

vars == <<server, free, req, task, current, interrupted, discovered, recent,
          waitFor>>
discovery == <<task, current, interrupted, discovered, recent>>

ReqStates == {"idle",
  "get",      \* waits for a connection, to serve the index
  "first",    \* about to call signalDiscovery(ctx, nil)
  "second",   \* signalDiscovery waits for a second connection
  "check",    \* signalDiscovery(ctx, conn)
  "list",     \* reads the list and responds
  "getOther", \* waits for a connection, to serve anything else
  "other"}    \* reads, writes, downloads and responds

TypeOK ==
  /\ server \in {"serving", "stopping", "lock", "wait", "store", "pool",
                 "exited"}
  /\ free \in 0..PoolSize
  /\ req \in [Requests -> ReqStates]
  /\ task \in [Tasks -> {"none", "running", "returning"}]
  /\ current \in Tasks \cup {None}
  /\ interrupted \subseteq Tasks
  /\ discovered \in BOOLEAN /\ recent \in BOOLEAN
  /\ waitFor \in Tasks \cup {None}

Init ==
  /\ server = "serving"
  /\ free = PoolSize
  /\ req = [r \in Requests |-> "idle"]
  /\ task = [t \in Tasks |-> "none"]
  /\ current = None /\ interrupted = {}
  /\ discovered = FALSE /\ recent = FALSE
  /\ waitFor = None

-----------------------------------------------------------------------------
(* Handlers.                                                               *)

Move(r, s) == req' = [req EXCEPT ![r] = s]

Arrive(r) ==
  /\ server = "serving"
  /\ req[r] = "idle"
  /\ Move(r, "get") \/ Move(r, "getOther")
  /\ UNCHANGED <<server, free, discovery, waitFor>>

GetConn(r) ==
  /\ free > 0
  /\ \/ req[r] = "get" /\ Move(r, "first")
     \/ req[r] = "getOther" /\ Move(r, "other")
  /\ free' = free - 1
  /\ UNCHANGED <<server, discovery, waitFor>>

\* The client is gone, or the server is stopping: Get returns an error.
GetFails(r) ==
  /\ req[r] \in {"get", "getOther"}
  /\ Move(r, "idle")
  /\ UNCHANGED <<server, free, discovery, waitFor>>

\* "Discovery already in progress or rate-limited."
InProgress == current # None
Blocked == InProgress \/ (discovered /\ recent)

\* CacheInfo succeeded; the first look at the state, under srv.mu.
FirstCheck(r) ==
  /\ req[r] = "first"
  /\ Move(r, IF Blocked THEN "list" ELSE "second")
  /\ UNCHANGED <<server, free, discovery, waitFor>>

\* Mutant: the early return does not put the connection back.
CacheInfoFailsKeeping(r) ==
  /\ req[r] = "first"
  /\ Move(r, "idle")
  /\ UNCHANGED <<server, free, discovery, waitFor>>

\* CacheInfo failed: the handler returns and its connection with it.
CacheInfoFails(r) ==
  /\ req[r] = "first"
  /\ Move(r, "idle")
  /\ free' = free + 1
  /\ UNCHANGED <<server, discovery, waitFor>>

GetSecond(r) ==
  /\ req[r] = "second"
  /\ free > 0
  /\ free' = free - 1
  /\ Move(r, "check")
  /\ UNCHANGED <<server, discovery, waitFor>>

GetSecondFails(r) ==
  /\ req[r] = "second"
  /\ Move(r, "list")
  /\ UNCHANGED <<server, free, discovery, waitFor>>

Start(t) ==
  /\ task[t] = "none"
  /\ task' = [task EXCEPT ![t] = "running"]
  /\ current' = t
  /\ interrupted' = interrupted \ {t}
  /\ UNCHANGED <<discovered, recent>>

\* Mutant: the state is not looked at again after the wait.
SecondCheckOnce(r) ==
  /\ req[r] = "check"
  /\ Move(r, "list")
  /\ \E t \in Tasks : Start(t)
  /\ UNCHANGED <<server, free, waitFor>>

\* The second look, now with a connection to hand over.  A caller that finds
\* the discovery started or over in the meantime returns, and nothing puts
\* the second connection back into the pool.
SecondCheck(r) ==
  /\ req[r] = "check"
  /\ Move(r, "list")
  /\ \/ Blocked /\ UNCHANGED discovery
     \/ ~ Blocked /\ \E t \in Tasks : Start(t)
  /\ UNCHANGED <<server, free, waitFor>>

\* The response is written and the deferred Put returns the connection.
Respond(r) ==
  /\ req[r] \in {"list", "other"}
  /\ Move(r, "idle")
  /\ free' = free + 1
  /\ UNCHANGED <<server, discovery, waitFor>>

-----------------------------------------------------------------------------
(* The discovery goroutine.                                                *)

\* Mutant: runServe keeps srv.mu while it waits for the discovery.
EndDiscoveryLockedOut(t) ==
  /\ task[t] = "running"
  /\ server # "wait"
  /\ task' = [task EXCEPT ![t] = "returning"]
  /\ current' = None
  /\ discovered' = TRUE /\ recent' = TRUE
  /\ UNCHANGED <<server, free, req, interrupted, waitFor>>

\* discover returned; under srv.mu its end is recorded and done is closed.
EndDiscovery(t) ==
  /\ task[t] = "running"
  /\ task' = [task EXCEPT ![t] = "returning"]
  /\ current' = None
  /\ discovered' = TRUE /\ recent' = TRUE
  /\ UNCHANGED <<server, free, req, interrupted, waitFor>>

\* Mutant: the task's connection is not put back.
ReturnConnNever(t) ==
  /\ task[t] = "returning"
  /\ task' = [task EXCEPT ![t] = "none"]
  /\ UNCHANGED <<server, free, req, current, interrupted, discovered, recent,
                 waitFor>>

\* The deferred Put comes last, after done is closed.
ReturnConn(t) ==
  /\ task[t] = "returning"
  /\ task' = [task EXCEPT ![t] = "none"]
  /\ free' = free + 1
  /\ UNCHANGED <<server, req, current, interrupted, discovered, recent,
                 waitFor>>

\* maxListFrequency has passed since lastDiscoveryEnd.
Age ==
  /\ recent
  /\ recent' = FALSE
  /\ UNCHANGED <<server, free, req, task, current, interrupted, discovered,
                 waitFor>>

-----------------------------------------------------------------------------
(* runServe: a signal, then runhttp.Serve returns and the defers run.      *)

Signal ==
  /\ server = "serving"
  /\ server' = "stopping"
  /\ UNCHANGED <<free, req, discovery, waitFor>>

\* http.Server.Shutdown waits for the handlers.
ServeReturns ==
  /\ server = "stopping"
  /\ \A r \in Requests : req[r] = "idle"
  /\ server' = "lock"
  /\ UNCHANGED <<free, req, discovery, waitFor>>

\* Mutant: the discovery is cancelled but not waited for.
CancelWithoutWaiting ==
  /\ server = "lock"
  /\ interrupted' = interrupted \cup (Tasks \cap {current})
  /\ server' = "store"
  /\ UNCHANGED <<free, req, task, current, discovered, recent, waitFor>>

CancelDiscovery ==
  /\ server = "lock"
  /\ \/ /\ current = None
        /\ server' = "store"
        /\ UNCHANGED <<interrupted, waitFor>>
     \/ /\ current # None
        /\ interrupted' = interrupted \cup {current}
        /\ waitFor' = current
        /\ server' = "wait"
  /\ UNCHANGED <<free, req, task, current, discovered, recent>>

\* <-done, captured under the lock.
DiscoveryDone ==
  /\ server = "wait"
  /\ task[waitFor] # "running"
  /\ server' = "store"
  /\ UNCHANGED <<free, req, discovery, waitFor>>

\* bstore.Close.
CloseStore ==
  /\ server = "store"
  /\ server' = "pool"
  /\ UNCHANGED <<free, req, discovery, waitFor>>

\* cachePool.Close blocks until every connection is back.
ClosePool ==
  /\ server = "pool"
  /\ free = PoolSize
  /\ server' = "exited"
  /\ UNCHANGED <<free, req, discovery, waitFor>>

-----------------------------------------------------------------------------
Handler(r) ==
  \/ GetConn(r) \/ FirstCheck(r) \/ CacheInfoFails(r) \/ GetSecond(r)
  \/ SecondCheck(r) \/ Respond(r)

Shutdown ==
  ServeReturns \/ CancelDiscovery \/ DiscoveryDone \/ CloseStore \/ ClosePool

Next ==
  \/ \E r \in Requests :
       Arrive(r) \/ Handler(r) \/ GetFails(r) \/ GetSecondFails(r)
  \/ \E t \in Tasks : EndDiscovery(t) \/ ReturnConn(t)
  \/ Age \/ Signal \/ Shutdown

Spec == Init /\ [][Next]_vars

\* Handlers and tasks are scheduled, and what they ask of the store and of
\* the client returns.  A client may wait for ever, so a blocked Get fails
\* for certain only once the server's context is cancelled.
Fairness ==
  /\ \A r \in Requests :
       /\ WF_vars(Handler(r))
       /\ WF_vars(server # "serving" /\ (GetFails(r) \/ GetSecondFails(r)))
  /\ \A t \in Tasks : WF_vars(EndDiscovery(t)) /\ WF_vars(ReturnConn(t))
  /\ WF_vars(Shutdown)

FairSpec == Spec /\ Fairness

-----------------------------------------------------------------------------
(* Properties.                                                             *)

Running == {t \in Tasks : task[t] = "running"}

\* However many index requests pass the first check together, at most one
\* discovery runs, and it is the one that shutdown would cancel.
OneDiscovery == Running = IF current = None THEN {} ELSE {current}

\* A discovery starts only if the last one ended maxListFrequency ago, also
\* when it ended while the caller waited for its connection.
DiscoveryRateLimited ==
  [][\A t \in Tasks :
       task[t] = "none" /\ task'[t] = "running" => ~ (discovered /\ recent)]_vars

\* No handler and no discovery is left that could use the store, or take a
\* connection, once the store is being closed.
StoreOutlivesUsers ==
  server \in {"store", "pool", "exited"} =>
    Running = {} /\ \A r \in Requests : req[r] = "idle"

\* Connections are taken by handlers and tasks and by nobody else.
HoldOne == {r \in Requests : req[r] \in {"first", "second", "list", "other"}}
HoldTwo == {r \in Requests : req[r] \in {"check"}}
HoldingTasks == {t \in Tasks : task[t] \in {"running", "returning"}}

Held ==
  Cardinality(HoldOne) + 2 * Cardinality(HoldTwo) + Cardinality(HoldingTasks)

\* The pool never gives out more connections than it has, and no connection
\* is put back twice.
PoolSound == free + Held <= PoolSize

\* Every connection is in the pool or in somebody's hands.
NoConnLost == free + Held = PoolSize

\* No two index requests are between the two checks of signalDiscovery.
Deciding == {r \in Requests : req[r] \in {"second", "check"}}
OneDecides == \A q, r \in Deciding : q = r

\* Two requests that overlap between the checks are the only way in which a
\* connection is lost: no failure, cancellation or timing loses one.
ConnsKeptUnlessTwoDecide == []OneDecides => []NoConnLost

\* After a signal the handlers end, even if all of them wait for connections
\* that only the others have, and the discovery ends.
SignalDrains == server = "stopping" ~> server = "pool"

\* After a signal the process ends ("Waiting for cache connections to
\* finish...", serve.go:110).
SignalStops == server = "stopping" ~> server = "exited"

\* ... and it does unless two index requests have overlapped.
StopsUnlessTwoDecide == []OneDecides => SignalStops
=============================================================================
