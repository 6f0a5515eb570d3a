------------------------ MODULE ServeDiscoveryProofs ------------------------
(***************************************************************************)
(* Proofs about signalDiscovery and the shutdown of `nixcached serve`, for *)
(* any number of handlers, discovery goroutines and connections.  What the *)
(* closing of the store relies on is not visible in the pool: that from    *)
(* the moment runServe looks at cancelDiscovery nobody can start a task,   *)
(* and that the task it waits for is the only one (ShutdownInv).  At the   *)
(* end, what a shutdown can wait for in vain, and what it never does.      *)
(***************************************************************************)
EXTENDS ServeDiscovery, FiniteSetTheorems, TLAPS

\* TypeOK without the bounds of free, which need the number of holders.
KindOK ==
  /\ server \in {"serving", "stopping", "lock", "wait", "store", "pool",
                 "exited"}
  /\ req \in [Requests -> ReqStates]
  /\ task \in [Tasks -> {"none", "running", "returning"}]
  /\ current \in Tasks \cup {None}
  /\ waitFor \in Tasks \cup {None}

ShutdownInv ==
  /\ server \notin {"serving", "stopping"} =>
       \A r \in Requests : req[r] = "idle"
  /\ server = "wait" => Running \subseteq {waitFor}
  /\ server \in {"store", "pool", "exited"} => Running = {}

IInv == KindOK /\ OneDiscovery /\ ShutdownInv

-----------------------------------------------------------------------------
LEMMA DiscoveryInit == Init => IInv
BY DiscoveryAssumption
DEF Init, IInv, KindOK, OneDiscovery, ShutdownInv, Running, ReqStates,
    DiscoveryAssumption

\* A step that neither starts nor ends a task, nor gives anybody work.
LEMMA Quiet ==
  ASSUME IInv, UNCHANGED <<server, task, current, waitFor>>,
         req' \in [Requests -> ReqStates],
         \/ server \in {"serving", "stopping"}
         \/ \A r \in Requests : req'[r] = "idle"
  PROVE  IInv'
BY DEF IInv, KindOK, OneDiscovery, ShutdownInv, Running

LEMMA DiscoveryNext == IInv /\ [Next]_vars => IInv'
<1> SUFFICES ASSUME IInv, [Next]_vars PROVE IInv'
  OBVIOUS
<1>0. KindOK /\ OneDiscovery /\ ShutdownInv
  BY DEF IInv
<1>1. ASSUME NEW r \in Requests, req[r] # "idle"
      PROVE  server \in {"serving", "stopping"}
  BY <1>0, <1>1 DEF ShutdownInv, KindOK
<1>2. ASSUME NEW r \in Requests,
             \/ Arrive(r) \/ GetConn(r) \/ GetFails(r) \/ FirstCheck(r)
             \/ CacheInfoFails(r) \/ GetSecond(r) \/ GetSecondFails(r)
             \/ Respond(r)
      PROVE  IInv'
  <2>1. /\ UNCHANGED <<server, task, current, waitFor>>
        /\ \E s \in ReqStates : Move(r, s)
        /\ server \in {"serving", "stopping"}
    BY <1>1, <1>2
    DEF Arrive, GetConn, GetFails, FirstCheck, CacheInfoFails, GetSecond,
        GetSecondFails, Respond, discovery, ReqStates
  <2>2. req' \in [Requests -> ReqStates]
    BY <1>0, <2>1 DEF Move, KindOK
  <2> QED
    BY <2>1, <2>2, Quiet
<1>3. ASSUME NEW r \in Requests, SecondCheck(r) PROVE IInv'
  <2>1. /\ UNCHANGED <<server, waitFor>> /\ server \in {"serving", "stopping"}
        /\ req' \in [Requests -> ReqStates]
    BY <1>0, <1>1, <1>3 DEF SecondCheck, Move, KindOK, ReqStates
  <2>2. CASE UNCHANGED discovery
    BY <2>1, <2>2, Quiet DEF discovery
  <2>3. CASE ~ Blocked /\ \E t \in Tasks : Start(t)
    <3>1. PICK t \in Tasks : Start(t)
      BY <2>3
    <3>2. Running = {}
      BY <1>0, <2>3 DEF Blocked, InProgress, OneDiscovery
    <3>3. Running' = {t} /\ current' = t /\ t # None
      BY <1>0, <3>1, <3>2, DiscoveryAssumption
      DEF Start, Running, KindOK, DiscoveryAssumption
    <3>4. KindOK' /\ OneDiscovery'
      BY <1>0, <2>1, <3>1, <3>3 DEF KindOK, OneDiscovery, Start
    <3> QED
      BY <2>1, <3>4 DEF IInv, ShutdownInv
  <2> QED
    BY <1>3, <2>2, <2>3 DEF SecondCheck
<1>4. ASSUME NEW t \in Tasks, EndDiscovery(t) PROVE IInv'
  <2>1. current = t /\ Running = {t}
    BY <1>0, <1>4 DEF EndDiscovery, OneDiscovery, Running
  <2>2. Running' = {}
    BY <1>0, <1>4, <2>1 DEF EndDiscovery, Running, KindOK
  <2> QED
    BY <1>0, <1>4, <2>2
    DEF EndDiscovery, IInv, KindOK, OneDiscovery, ShutdownInv
<1>5. ASSUME NEW t \in Tasks, ReturnConn(t) PROVE IInv'
  <2>1. Running' = Running
    BY <1>0, <1>5 DEF ReturnConn, Running, KindOK
  <2> QED
    BY <1>0, <1>5, <2>1
    DEF ReturnConn, IInv, KindOK, OneDiscovery, ShutdownInv
<1>6. CASE Age \/ UNCHANGED vars
  BY <1>0, <1>6, Quiet DEF Age, vars, KindOK, ShutdownInv
<1>7. CASE Signal \/ Shutdown
  <2>1. Running' = Running /\ UNCHANGED <<req, task, current>>
    BY <1>7 DEF Signal, Shutdown, ServeReturns, CancelDiscovery,
       DiscoveryDone, CloseStore, ClosePool, discovery, Running
  <2>2. KindOK' /\ OneDiscovery'
    BY <1>0, <1>7, <2>1
    DEF Signal, Shutdown, ServeReturns, CancelDiscovery, DiscoveryDone,
        CloseStore, ClosePool, KindOK, OneDiscovery
  <2> SUFFICES ShutdownInv'
    BY <2>2 DEF IInv
  <2>3. CASE Signal
    BY <1>0, <2>1, <2>3 DEF Signal, ShutdownInv
  <2>4. CASE ServeReturns
    BY <2>1, <2>4 DEF ServeReturns, ShutdownInv
  <2>5. CASE CancelDiscovery
    BY <1>0, <2>1, <2>5 DEF CancelDiscovery, ShutdownInv, OneDiscovery
  <2>6. CASE DiscoveryDone
    <3>1. Running = {}
      BY <1>0, <2>6 DEF DiscoveryDone, ShutdownInv, Running
    <3> QED
      BY <1>0, <2>1, <2>6, <3>1 DEF DiscoveryDone, ShutdownInv
  <2>7. CASE CloseStore \/ ClosePool
    BY <1>0, <2>1, <2>7 DEF CloseStore, ClosePool, ShutdownInv
  <2> QED
    BY <1>7, <2>3, <2>4, <2>5, <2>6, <2>7 DEF Shutdown
<1> QED
  BY <1>2, <1>3, <1>4, <1>5, <1>6, <1>7 DEF Next, Handler

LEMMA Invariance == Spec => []IInv
BY DiscoveryInit, DiscoveryNext, PTL DEF Spec

-----------------------------------------------------------------------------
(* The theorems.                                                           *)

\* However many handlers pass the first check of signalDiscovery together,
\* one discovery runs at most, and shutdown knows it.
THEOREM AtMostOneDiscovery == Spec => []OneDiscovery
BY Invariance, PTL DEF IInv

\* The store is closed when nobody can be using it.
THEOREM StoreClosedLast == Spec => []StoreOutlivesUsers
<1>1. IInv => StoreOutlivesUsers
  BY DEF IInv, ShutdownInv, StoreOutlivesUsers
<1> QED
  BY <1>1, Invariance, PTL

\* Discoveries start no more often than maxListFrequency allows.
THEOREM DiscoveriesAreRare == Spec => DiscoveryRateLimited
<1>1. IInv /\ [Next]_vars =>
        [\A t \in Tasks : task[t] = "none" /\ task'[t] = "running"
           => ~ (discovered /\ recent)]_vars
  <2> SUFFICES ASSUME IInv, Next, NEW t \in Tasks,
                      task[t] = "none", task'[t] = "running"
               PROVE  ~ (discovered /\ recent)
    OBVIOUS
  <2>1. ASSUME NEW r \in Requests, SecondCheck(r)
        PROVE  ~ (discovered /\ recent)
    BY <2>1 DEF SecondCheck, Blocked, discovery
  <2>2. ASSUME NEW u \in Tasks, EndDiscovery(u) \/ ReturnConn(u)
        PROVE  FALSE
    BY <2>2 DEF EndDiscovery, ReturnConn, IInv, KindOK
  <2>3. ASSUME NEW r \in Requests,
               \/ Arrive(r) \/ GetConn(r) \/ GetFails(r) \/ FirstCheck(r)
               \/ CacheInfoFails(r) \/ GetSecond(r) \/ GetSecondFails(r)
               \/ Respond(r)
        PROVE  FALSE
    BY <2>3 DEF Arrive, GetConn, GetFails, FirstCheck, CacheInfoFails,
       GetSecond, GetSecondFails, Respond, discovery
  <2>4. CASE Age \/ Signal \/ Shutdown
    BY <2>4 DEF Age, Signal, Shutdown, ServeReturns, CancelDiscovery,
       DiscoveryDone, CloseStore, ClosePool, discovery
  <2> QED
    BY <2>1, <2>2, <2>3, <2>4 DEF Next, Handler
<1> QED
  BY <1>1, Invariance, PTL DEF Spec, DiscoveryRateLimited

-----------------------------------------------------------------------------
(* The connections.  A handler's state says how many it holds.             *)

Bit(e, P) == IF e \in P THEN 1 ELSE 0

Weight(s) == Bit(s, {"first", "second", "list", "other"})
             + 2 * Bit(s, {"check"})

\* How many arguments a function maps into P.
Count(D, f, P) == Cardinality({y \in D : f[y] \in P})

\* f and g are the same on D but perhaps at x.
SameBut(D, f, g, x) == \A y \in D : y # x => g[y] = f[y]

\* Functions that differ in one argument differ in that number by at most one.
LEMMA CountUpdated ==
  ASSUME NEW D, IsFiniteSet(D), NEW f, NEW g, NEW x \in D, NEW P,
         SameBut(D, f, g, x)
  PROVE  /\ Count(D, f, P) \in Nat /\ Count(D, g, P) \in Nat
         /\ Count(D, g, P) + Bit(f[x], P) = Count(D, f, P) + Bit(g[x], P)
<1> DEFINE F == {y \in D : f[y] \in P}
           G == {y \in D : g[y] \in P}
           Others == F \ {x}
<1>1. IsFiniteSet(F) /\ IsFiniteSet(G) /\ IsFiniteSet(Others)
  BY FS_Subset
<1>2. /\ Cardinality(F) \in Nat /\ Cardinality(G) \in Nat
      /\ Cardinality(Others) \in Nat
  BY <1>1, FS_CardinalityType
<1>3. /\ F = (IF f[x] \in P THEN Others \cup {x} ELSE Others)
      /\ G = (IF g[x] \in P THEN Others \cup {x} ELSE Others)
  BY DEF SameBut
<1>4. Cardinality(Others \cup {x}) = Cardinality(Others) + 1
  BY <1>1, FS_AddElement
<1>5. Count(D, f, P) = Cardinality(F) /\ Count(D, g, P) = Cardinality(G)
  BY DEF Count
<1> HIDE DEF Others, F, G
<1>6. Cardinality(F) = Cardinality(Others) + Bit(f[x], P)
  BY <1>2, <1>3, <1>4 DEF Bit
<1>7. Cardinality(G) = Cardinality(Others) + Bit(g[x], P)
  BY <1>2, <1>3, <1>4 DEF Bit
<1>8. Bit(f[x], P) \in Nat /\ Bit(g[x], P) \in Nat
  BY DEF Bit
<1> QED
  BY <1>2, <1>5, <1>6, <1>7, <1>8

One == {"first", "second", "list", "other"}
Two == {"check"}
Holding == {"running", "returning"}

LEMMA HeldCounts ==
  /\ Cardinality(HoldOne) = Count(Requests, req, One)
  /\ Cardinality(HoldTwo) = Count(Requests, req, Two)
  /\ Cardinality(HoldingTasks) = Count(Tasks, task, Holding)
BY DEF Count, HoldOne, HoldTwo, HoldingTasks, One, Two, Holding

LEMMA HeldCountsPrimed ==
  /\ Cardinality(HoldOne)' = Count(Requests, req', One)
  /\ Cardinality(HoldTwo)' = Count(Requests, req', Two)
  /\ Cardinality(HoldingTasks)' = Count(Tasks, task', Holding)
BY DEF Count, HoldOne, HoldTwo, HoldingTasks, One, Two, Holding

LEMMA RequestCount ==
  ASSUME NEW r \in Requests, NEW P, SameBut(Requests, req, req', r)
  PROVE  /\ Count(Requests, req, P) \in Nat /\ Count(Requests, req', P) \in Nat
         /\ Count(Requests, req', P) + Bit(req[r], P)
              = Count(Requests, req, P) + Bit(req'[r], P)
<1>1. IsFiniteSet(Requests)
  BY DiscoveryAssumption DEF DiscoveryAssumption
<1> QED
  BY <1>1, CountUpdated

LEMMA TaskCount ==
  ASSUME NEW t \in Tasks, NEW P, SameBut(Tasks, task, task', t)
  PROVE  /\ Count(Tasks, task, P) \in Nat /\ Count(Tasks, task', P) \in Nat
         /\ Count(Tasks, task', P) + Bit(task[t], P)
              = Count(Tasks, task, P) + Bit(task'[t], P)
<1>1. IsFiniteSet(Tasks)
  BY DiscoveryAssumption DEF DiscoveryAssumption
<1> QED
  BY <1>1, CountUpdated

\* What a handler's step does to the number of connections in use.
LEMMA HandlersHold ==
  ASSUME KindOK, NEW r \in Requests, NEW s \in ReqStates, Move(r, s)
  PROVE  /\ Cardinality(HoldOne) \in Nat /\ Cardinality(HoldOne)' \in Nat
         /\ Cardinality(HoldTwo) \in Nat /\ Cardinality(HoldTwo)' \in Nat
         /\ Cardinality(HoldOne)' + 2 * Cardinality(HoldTwo)'
              + Weight(req[r])
              = Cardinality(HoldOne) + 2 * Cardinality(HoldTwo) + Weight(s)
<1>1. req'[r] = s /\ SameBut(Requests, req, req', r)
  BY DEF KindOK, Move, SameBut
<1>2. \A P :
        /\ Count(Requests, req, P) \in Nat /\ Count(Requests, req', P) \in Nat
        /\ Count(Requests, req', P) + Bit(req[r], P)
             = Count(Requests, req, P) + Bit(req'[r], P)
  BY <1>1, RequestCount
<1>3. \A P : Bit(req[r], P) \in Nat /\ Bit(s, P) \in Nat
  BY DEF Bit
<1>4. /\ Weight(req[r]) = Bit(req[r], One) + 2 * Bit(req[r], Two)
      /\ Weight(s) = Bit(s, One) + 2 * Bit(s, Two)
  BY DEF Weight, One, Two
<1> QED
  BY <1>1, <1>2, <1>3, <1>4, HeldCounts, HeldCountsPrimed

\* ... and what a task's step does.
Becomes(t, s) == task' = [task EXCEPT ![t] = s]

LEMMA TasksHold ==
  ASSUME KindOK, NEW t \in Tasks, NEW s, Becomes(t, s)
  PROVE  /\ Cardinality(HoldingTasks) \in Nat
         /\ Cardinality(HoldingTasks)' \in Nat
         /\ Cardinality(HoldingTasks)' + Bit(task[t], Holding)
              = Cardinality(HoldingTasks) + Bit(s, Holding)
<1>1. task'[t] = s /\ SameBut(Tasks, task, task', t)
  BY DEF KindOK, Becomes, SameBut
<1>2. /\ Count(Tasks, task, Holding) \in Nat
      /\ Count(Tasks, task', Holding) \in Nat
      /\ Count(Tasks, task', Holding) + Bit(task[t], Holding)
           = Count(Tasks, task, Holding) + Bit(task'[t], Holding)
  BY <1>1, TaskCount
<1> QED
  BY <1>1, <1>2, HeldCounts, HeldCountsPrimed

LEMMA HeldType ==
  ASSUME KindOK
  PROVE  /\ Cardinality(HoldOne) \in Nat /\ Cardinality(HoldTwo) \in Nat
         /\ Cardinality(HoldingTasks) \in Nat
         /\ Held \in Nat
<1>1. IsFiniteSet(HoldOne) /\ IsFiniteSet(HoldTwo) /\ IsFiniteSet(HoldingTasks)
  BY DiscoveryAssumption, FS_Subset
  DEF DiscoveryAssumption, HoldOne, HoldTwo, HoldingTasks
<1> QED
  BY <1>1, FS_CardinalityType DEF Held

\* A handler's step that leaves the tasks alone, and what it does to Held.
LEMMA HandlerHeld ==
  ASSUME KindOK, KindOK', UNCHANGED task,
         NEW r \in Requests, NEW s \in ReqStates, Move(r, s)
  PROVE  Held \in Nat /\ Held' \in Nat /\ Held' + Weight(req[r]) = Held + Weight(s)
<1>1. Cardinality(HoldingTasks)' = Cardinality(HoldingTasks)
  BY DEF HoldingTasks
<1>2. Weight(req[r]) \in Nat /\ Weight(s) \in Nat
  BY DEF Weight, Bit
<1> QED
  BY <1>1, <1>2, HandlersHold, HeldType DEF Held

LEMMA TaskHeld ==
  ASSUME KindOK, KindOK', UNCHANGED req, NEW t \in Tasks,
         NEW s \in {"none", "running", "returning"}, Becomes(t, s)
  PROVE  /\ Held \in Nat /\ Held' \in Nat
         /\ Held' + Bit(task[t], Holding)
              = Held + Bit(s, Holding)
<1>1. /\ Cardinality(HoldOne)' = Cardinality(HoldOne)
      /\ Cardinality(HoldTwo)' = Cardinality(HoldTwo)
  BY DEF HoldOne, HoldTwo
<1>2. /\ Bit(task[t], Holding) \in Nat
      /\ Bit(s, Holding) \in Nat
  BY DEF Bit
<1> QED
  BY <1>1, <1>2, TasksHold, HeldType DEF Held

-----------------------------------------------------------------------------
(* Every step keeps free + Held, or lowers it when signalDiscovery gives   *)
(* up with its second connection in hand (Forgets).                        *)

Forgets == \E r \in Requests : SecondCheck(r) /\ Blocked

PoolInv == IInv /\ free \in Nat /\ free + Held <= PoolSize

LEMMA PoolInit == Init => free \in Nat /\ NoConnLost
<1> SUFFICES ASSUME Init PROVE free \in Nat /\ NoConnLost
  OBVIOUS
<1>1. HoldOne = {} /\ HoldTwo = {} /\ HoldingTasks = {}
  BY DEF Init, HoldOne, HoldTwo, HoldingTasks
<1> QED
  BY <1>1, FS_EmptySet, DiscoveryAssumption
  DEF Init, Held, NoConnLost, DiscoveryAssumption

LEMMA ConnsCounted ==
  ASSUME IInv, IInv', [Next]_vars, free \in Nat
  PROVE  /\ free' \in Nat
         /\ Held \in Nat /\ Held' \in Nat
         /\ ~ Forgets => free' + Held' = free + Held
         /\ free' + Held' <= free + Held
<1>0. KindOK /\ KindOK'
  BY DEF IInv
<1>1. Held \in Nat
  BY <1>0, HeldType
<1>2. ASSUME NEW r \in Requests, Arrive(r) \/ GetFails(r)
      PROVE  free' = free /\ Held' \in Nat /\ Held' = Held
  <2>1. PICK s \in ReqStates : Move(r, s) /\ Weight(s) = Weight(req[r])
    BY <1>2 DEF Arrive, GetFails, ReqStates, Weight, Bit
  <2>2. UNCHANGED <<free, task>>
    BY <1>2 DEF Arrive, GetFails, discovery
  <2>3. Weight(req[r]) \in Nat
    BY DEF Weight, Bit
  <2> QED
    BY <1>0, <2>1, <2>2, <2>3, HandlerHeld
<1>3. ASSUME NEW r \in Requests, FirstCheck(r) \/ GetSecondFails(r)
      PROVE  free' = free /\ Held' \in Nat /\ Held' = Held
  <2>1. PICK s \in ReqStates : Move(r, s) /\ Weight(s) = 1
    BY <1>3 DEF FirstCheck, GetSecondFails, ReqStates, Weight, Bit
  <2>2. UNCHANGED <<free, task>> /\ Weight(req[r]) = 1
    BY <1>3 DEF FirstCheck, GetSecondFails, discovery, Weight, Bit
  <2> QED
    BY <1>0, <2>1, <2>2, HandlerHeld
<1>4. ASSUME NEW r \in Requests, GetConn(r) \/ GetSecond(r)
      PROVE  /\ free' \in Nat /\ free' = free - 1
             /\ Held' \in Nat /\ Held' = Held + 1
  <2>1. PICK s \in ReqStates : Move(r, s) /\ Weight(s) = Weight(req[r]) + 1
    BY <1>4 DEF GetConn, GetSecond, ReqStates, Weight, Bit
  <2>2. UNCHANGED task /\ free' = free - 1 /\ free > 0
    BY <1>4 DEF GetConn, GetSecond, discovery
  <2>3. Weight(req[r]) \in Nat
    BY DEF Weight, Bit
  <2> QED
    BY <1>0, <2>1, <2>2, <2>3, HandlerHeld
<1>5. ASSUME NEW r \in Requests, CacheInfoFails(r) \/ Respond(r)
      PROVE  /\ free' = free + 1
             /\ Held' \in Nat /\ Held' + 1 = Held
  <2>1. "idle" \in ReqStates /\ Move(r, "idle") /\ Weight("idle") = 0
    BY <1>5 DEF CacheInfoFails, Respond, ReqStates, Weight, Bit
  <2>2. UNCHANGED task /\ free' = free + 1 /\ Weight(req[r]) = 1
    BY <1>5 DEF CacheInfoFails, Respond, discovery, Weight, Bit
  <2> QED
    BY <1>0, <2>1, <2>2, HandlerHeld
<1>6. ASSUME NEW r \in Requests, SecondCheck(r)
      PROVE  /\ free' = free /\ Held' \in Nat
             /\ Held' = Held - 1 \/ Held' = Held
             /\ ~ Blocked => Held' = Held
  <2>0. free' = free /\ Move(r, "list") /\ req[r] = "check"
    BY <1>6 DEF SecondCheck
  <2>1. Weight("check") = 2 /\ Weight("list") = 1 /\ "list" \in ReqStates
    BY DEF Weight, Bit, ReqStates
  <2>2. CASE Blocked /\ UNCHANGED discovery
    BY <1>0, <1>1, <2>0, <2>1, <2>2, HandlerHeld DEF discovery
  <2>3. CASE ~ Blocked /\ \E t \in Tasks : Start(t)
    <3>1. PICK t \in Tasks : Start(t)
      BY <2>3
    <3>2. /\ Cardinality(HoldingTasks) \in Nat
          /\ Cardinality(HoldingTasks)' \in Nat
          /\ Cardinality(HoldingTasks)' = Cardinality(HoldingTasks) + 1
      <4>1. Becomes(t, "running") /\ task[t] = "none"
        BY <3>1 DEF Start, Becomes
      <4> QED
        BY <1>0, <4>1, TasksHold DEF Bit, Holding
    <3>3. /\ Cardinality(HoldOne) \in Nat /\ Cardinality(HoldOne)' \in Nat
          /\ Cardinality(HoldTwo) \in Nat /\ Cardinality(HoldTwo)' \in Nat
          /\ Cardinality(HoldOne)' + 2 * Cardinality(HoldTwo)' + 2
               = Cardinality(HoldOne) + 2 * Cardinality(HoldTwo) + 1
      BY <1>0, <2>0, <2>1, HandlersHold
    <3> QED
      BY <2>0, <2>3, <3>2, <3>3 DEF Held
  <2> QED
    BY <1>6, <2>2, <2>3 DEF SecondCheck
<1>7. ASSUME NEW t \in Tasks, EndDiscovery(t)
      PROVE  free' = free /\ Held' \in Nat /\ Held' = Held
  <2>1. /\ Becomes(t, "returning") /\ task[t] = "running"
        /\ UNCHANGED <<free, req>>
    BY <1>7 DEF EndDiscovery, Becomes
  <2> QED
    BY <1>0, <2>1, TaskHeld DEF Bit, Holding
<1>8. ASSUME NEW t \in Tasks, ReturnConn(t)
      PROVE  free' = free + 1 /\ Held' \in Nat /\ Held' + 1 = Held
  <2>1. /\ Becomes(t, "none") /\ task[t] = "returning"
        /\ UNCHANGED req /\ free' = free + 1
    BY <1>8 DEF ReturnConn, Becomes
  <2> QED
    BY <1>0, <2>1, TaskHeld DEF Bit, Holding
<1>9. CASE Age \/ Signal \/ Shutdown \/ UNCHANGED vars
  <2>1. UNCHANGED <<free, req, task>>
    BY <1>9 DEF Age, Signal, Shutdown, ServeReturns, CancelDiscovery,
       DiscoveryDone, CloseStore, ClosePool, discovery, vars
  <2>2. Held' = Held
    BY <2>1 DEF Held, HoldOne, HoldTwo, HoldingTasks
  <2> QED
    BY <1>1, <2>1, <2>2
<1>10. CASE \E r \in Requests : SecondCheck(r)
  BY <1>1, <1>6, <1>10 DEF Forgets
<1>11. CASE \E r \in Requests : Arrive(r) \/ GetFails(r) \/ FirstCheck(r)
                                \/ GetSecondFails(r)
  BY <1>1, <1>2, <1>3, <1>11
<1>12. CASE \E r \in Requests : GetConn(r) \/ GetSecond(r)
  BY <1>1, <1>4, <1>12
<1>13. CASE \E r \in Requests : CacheInfoFails(r) \/ Respond(r)
  BY <1>1, <1>5, <1>13
<1>14. CASE \E t \in Tasks : EndDiscovery(t) \/ ReturnConn(t)
  BY <1>1, <1>7, <1>8, <1>14
<1> QED
  BY <1>9, <1>10, <1>11, <1>12, <1>13, <1>14 DEF Next, Handler

LEMMA PoolInvariance == Spec => []PoolInv
<1>1. Init => PoolInv
  BY PoolInit, DiscoveryInit, DiscoveryAssumption
  DEF NoConnLost, DiscoveryAssumption, PoolInv
<1>2. PoolInv /\ [Next]_vars => PoolInv'
  <2> SUFFICES ASSUME PoolInv, [Next]_vars PROVE PoolInv'
    OBVIOUS
  <2>1. IInv'
    BY DiscoveryNext DEF PoolInv
  <2> QED
    BY <2>1, ConnsCounted, DiscoveryAssumption DEF DiscoveryAssumption, PoolInv
<1> QED
  BY <1>1, <1>2, PTL DEF Spec

\* Whatever fails and whoever gives up, the pool never hands out more
\* connections than it has and no deferred Put returns one twice.
THEOREM PoolIsSound == Spec => []PoolSound
<1>1. PoolInv => PoolSound
  BY DEF PoolInv, PoolSound
<1> QED
  BY <1>1, PoolInvariance, PTL

\* The variables keep their types; the bound on the free connections is the
\* pool's soundness.
THEOREM DiscoveryTypeCorrect == Spec => []TypeOK
<1> DEFINE T == interrupted \subseteq Tasks /\ discovered \in BOOLEAN
                /\ recent \in BOOLEAN
<1>1. Init => T
  BY DEF Init
<1>2. T /\ IInv /\ [Next]_vars => T'
  <2> SUFFICES ASSUME T, IInv, [Next]_vars PROVE T'
    OBVIOUS
  <2>1. ASSUME NEW r \in Requests, SecondCheck(r) PROVE T'
    BY <2>1 DEF SecondCheck, discovery, Start
  <2>2. ASSUME NEW t \in Tasks, EndDiscovery(t) \/ ReturnConn(t) PROVE T'
    BY <2>2 DEF EndDiscovery, ReturnConn
  <2>3. ASSUME NEW r \in Requests,
               \/ Arrive(r) \/ GetConn(r) \/ GetFails(r) \/ FirstCheck(r)
               \/ CacheInfoFails(r) \/ GetSecond(r) \/ GetSecondFails(r)
               \/ Respond(r)
        PROVE  T'
    BY <2>3 DEF Arrive, GetConn, GetFails, FirstCheck, CacheInfoFails,
       GetSecond, GetSecondFails, Respond, discovery
  <2>4. CASE Age \/ Signal \/ Shutdown \/ UNCHANGED vars
    BY <2>4 DEF Age, Signal, Shutdown, ServeReturns, CancelDiscovery,
       DiscoveryDone, CloseStore, ClosePool, discovery, vars, IInv, KindOK
  <2> QED
    BY <2>1, <2>2, <2>3, <2>4 DEF Next, Handler
<1>3. T /\ PoolInv => TypeOK
  <2> SUFFICES ASSUME T, PoolInv PROVE TypeOK
    OBVIOUS
  <2>1. Held \in Nat
    BY HeldType DEF PoolInv, IInv
  <2>2. free \in 0..PoolSize
    BY <2>1, DiscoveryAssumption DEF DiscoveryAssumption, PoolInv
  <2> QED
    BY <2>2 DEF TypeOK, PoolInv, IInv, KindOK
<1>4. PoolInv => IInv
  BY DEF PoolInv
<1> QED
  BY <1>1, <1>2, <1>3, <1>4, PoolInvariance, PTL DEF Spec

-----------------------------------------------------------------------------
\* While no two handlers are between the two checks, the one that is there
\* still finds what the first check found, and so nothing is forgotten.
StillUnblocked == \A r \in Deciding : ~ Blocked

LEMMA UnblockedInit == Init => StillUnblocked
BY DEF Init, StillUnblocked, Deciding

LEMMA UnblockedNext ==
  ASSUME IInv, StillUnblocked, OneDecides, [Next]_vars
  PROVE  StillUnblocked' /\ ~ Forgets
<1>0. KindOK /\ OneDiscovery
  BY DEF IInv
<1>1. ~ Forgets
  BY DEF Forgets, SecondCheck, StillUnblocked, Deciding
<1>2. ASSUME NEW r \in Requests, FirstCheck(r) PROVE StillUnblocked'
  <2>1. UNCHANGED Blocked
    BY <1>2 DEF FirstCheck, discovery, Blocked, InProgress
  <2>2. ~ Blocked => Deciding' \subseteq Deciding \cup {r}
    BY <1>0, <1>2 DEF FirstCheck, Move, Deciding, KindOK
  <2>3. Blocked => Deciding' \subseteq Deciding
    BY <1>0, <1>2 DEF FirstCheck, Move, Deciding, KindOK
  <2> QED
    BY <2>1, <2>2, <2>3 DEF StillUnblocked
<1>3. ASSUME NEW r \in Requests, SecondCheck(r) PROVE StillUnblocked'
  <2>1. Deciding = {r}
    BY <1>3 DEF SecondCheck, OneDecides, Deciding
  <2>2. Deciding' = {}
    BY <1>0, <1>3, <2>1 DEF SecondCheck, Move, Deciding, KindOK
  <2> QED
    BY <2>2 DEF StillUnblocked
<1>4. ASSUME NEW t \in Tasks, EndDiscovery(t) PROVE StillUnblocked'
  <2>1. InProgress
    BY <1>0, <1>4
    DEF EndDiscovery, OneDiscovery, Running, InProgress
  <2>2. Deciding' = {}
    BY <1>4, <2>1 DEF EndDiscovery, StillUnblocked, Blocked, Deciding
  <2> QED
    BY <2>2 DEF StillUnblocked
<1>5. ASSUME NEW r \in Requests,
             \/ Arrive(r) \/ GetConn(r) \/ GetFails(r) \/ CacheInfoFails(r)
             \/ GetSecond(r) \/ GetSecondFails(r) \/ Respond(r)
      PROVE  StillUnblocked'
  <2>1. UNCHANGED Blocked
    BY <1>5 DEF Arrive, GetConn, GetFails, CacheInfoFails, GetSecond,
       GetSecondFails, Respond, discovery, Blocked, InProgress
  <2>2. Deciding' \subseteq Deciding
    BY <1>0, <1>5 DEF Arrive, GetConn, GetFails, CacheInfoFails, GetSecond,
       GetSecondFails, Respond, Move, Deciding, KindOK
  <2> QED
    BY <2>1, <2>2 DEF StillUnblocked
<1>6. CASE \/ Age \/ Signal \/ Shutdown \/ UNCHANGED vars
           \/ \E t \in Tasks : ReturnConn(t)
  <2>1. UNCHANGED <<req, current, discovered>> /\ (recent' => recent)
    BY <1>6 DEF Age, Signal, Shutdown, ServeReturns, CancelDiscovery,
       DiscoveryDone, CloseStore, ClosePool, ReturnConn, discovery, vars
  <2>2. Deciding' = Deciding /\ (Blocked' => Blocked)
    BY <2>1 DEF Deciding, Blocked, InProgress
  <2> QED
    BY <1>1, <2>2 DEF StillUnblocked
<1>7. CASE \E r \in Requests : FirstCheck(r) \/ SecondCheck(r)
  BY <1>1, <1>2, <1>3, <1>7
<1>8. CASE \E t \in Tasks : EndDiscovery(t)
  BY <1>1, <1>4, <1>8
<1>9. CASE \E r \in Requests :
             \/ Arrive(r) \/ GetConn(r) \/ GetFails(r) \/ CacheInfoFails(r)
             \/ GetSecond(r) \/ GetSecondFails(r) \/ Respond(r)
  BY <1>1, <1>5, <1>9
<1>10. \/ Next \/ UNCHANGED vars
  OBVIOUS
<1> QED
  BY <1>1, <1>6, <1>7, <1>8, <1>9, <1>10 DEF Next, Handler

\* A connection is lost only when two index requests overlap between the
\* checks of signalDiscovery: it is never lost otherwise.
THEOREM ConnsKept == Spec => ConnsKeptUnlessTwoDecide
<1> DEFINE J == StillUnblocked /\ free \in Nat /\ free + Held = PoolSize
<1>1. Init => J
  BY UnblockedInit, PoolInit DEF NoConnLost
<1>2. J /\ IInv /\ IInv' /\ OneDecides /\ [Next]_vars => J'
  <2> SUFFICES ASSUME J, IInv, IInv', OneDecides, [Next]_vars PROVE J'
    OBVIOUS
  <2> QED
    BY UnblockedNext, ConnsCounted
<1>3. J => NoConnLost
  BY DEF NoConnLost
<1> QED
  BY <1>1, <1>2, <1>3, Invariance, PTL DEF Spec, ConnsKeptUnlessTwoDecide

-----------------------------------------------------------------------------
(* Whether the server stops: what SignalDrains and StopsUnlessTwoDecide    *)
(* rest on, but for the scheduling.                                        *)

\* The tasks that runServe waits for, and who is left at the end.
WaitInv ==
  /\ server = "wait" => waitFor \in Tasks
  /\ server = "exited" => NoConnLost

\* Somebody can go on after a signal: the conditions of the actions that
\* Fairness is about.  A discovery needs a goroutine that is not in use.
SomebodyCanGoOn ==
  \/ \E r \in Requests :
       \/ req[r] \in {"get", "getOther", "first", "second", "list", "other"}
       \/ req[r] = "check" /\ (Blocked \/ \E t \in Tasks : task[t] = "none")
  \/ \E t \in Tasks : task[t] \in {"running", "returning"}
  \/ server = "stopping" /\ \A r \in Requests : req[r] = "idle"
  \/ server \in {"lock", "store"}
  \/ server = "wait" /\ task[waitFor] # "running"
  \/ server = "pool" /\ free = PoolSize

\* cachePool.Close waits for a connection that nobody holds.
WaitsForLost == server = "pool" /\ Held = 0 /\ free < PoolSize

ShutdownNeverStuck ==
  server \notin {"serving", "exited"} /\ ~ WaitsForLost => SomebodyCanGoOn

Lost == free + Held < PoolSize
LossIsForGood == [](Lost => [](Lost /\ server # "exited"))
NoStandstill == [](server \notin {"serving", "exited"} => SomebodyCanGoOn)

\* Nobody holds a connection when the handlers are idle and no task runs.
LEMMA NobodyHolds ==
  ASSUME IInv, \A r \in Requests : req[r] = "idle",
         \A t \in Tasks : task[t] \notin {"running", "returning"}
  PROVE  Held = 0
<1>1. HoldOne = {} /\ HoldTwo = {} /\ HoldingTasks = {}
  BY DEF HoldOne, HoldTwo, HoldingTasks
<1> QED
  BY <1>1, FS_EmptySet DEF Held

\* What is lost stays lost, and the server does not exit without it.
LEMMA LostStep ==
  ASSUME PoolInv, WaitInv, [Next]_vars
  PROVE  WaitInv' /\ (Lost => Lost' /\ server' # "exited")
<1>1. IInv /\ KindOK /\ ShutdownInv /\ free \in Nat /\ free + Held <= PoolSize
      /\ PoolSize \in Nat
  BY DiscoveryAssumption DEF PoolInv, IInv, DiscoveryAssumption
<1>2. IInv'
  BY <1>1, DiscoveryNext
<1>3. /\ Held \in Nat /\ Held' \in Nat /\ free' \in Nat
      /\ ~ Forgets => free' + Held' = free + Held
      /\ free' + Held' <= free + Held
  BY <1>1, <1>2, ConnsCounted
<1>4. Lost => Lost'
  <2>1. \A a, b, c \in Nat : a <= b /\ b < c => a < c
    OBVIOUS
  <2>2. /\ \A a, b \in Nat : a + b \in Nat
        /\ free \in Nat /\ Held \in Nat /\ free' \in Nat /\ Held' \in Nat
    BY <1>1, <1>3
  <2>3. free + Held < PoolSize => free' + Held' < PoolSize
    BY <1>1, <1>3, <2>1, <2>2
  <2> QED
    BY <2>3 DEF Lost
<1>5. ASSUME server # "exited", server' = "exited"
      PROVE  NoConnLost /\ ~ Forgets
  <2>1. ClosePool
    <3>1. ASSUME NEW r \in Requests, SecondCheck(r) PROVE UNCHANGED server
      BY <3>1 DEF SecondCheck
    <3>2. ASSUME NEW r \in Requests,
                 \/ Arrive(r) \/ GetConn(r) \/ GetFails(r) \/ FirstCheck(r)
                 \/ CacheInfoFails(r) \/ GetSecond(r) \/ GetSecondFails(r)
                 \/ Respond(r)
          PROVE  UNCHANGED server
      BY <3>2 DEF Arrive, GetConn, GetFails, FirstCheck, CacheInfoFails,
         GetSecond, GetSecondFails, Respond
    <3>3. ASSUME NEW t \in Tasks, EndDiscovery(t) \/ ReturnConn(t)
          PROVE  UNCHANGED server
      BY <3>3 DEF EndDiscovery, ReturnConn
    <3>4. ~ (Age \/ Signal \/ ServeReturns \/ CancelDiscovery
             \/ DiscoveryDone \/ CloseStore \/ UNCHANGED vars)
      BY <1>5 DEF Age, Signal, ServeReturns, CancelDiscovery, DiscoveryDone,
         CloseStore, vars
    <3> QED
      BY <1>5, <3>1, <3>2, <3>3, <3>4 DEF Next, Handler, Shutdown
  <2>2. free = PoolSize /\ server = "pool"
    BY <2>1 DEF ClosePool
  <2>3. ~ Forgets
    BY <1>1, <2>2 DEF Forgets, SecondCheck, ShutdownInv
  <2> QED
    BY <1>1, <1>3, <2>2, <2>3 DEF NoConnLost
<1>6. ASSUME server = "exited" PROVE NoConnLost /\ ~ Forgets
  BY <1>1, <1>6 DEF WaitInv, Forgets, SecondCheck, ShutdownInv
<1>7. Lost => server' # "exited" \/ server = "exited"
  BY <1>1, <1>3, <1>5 DEF Lost, NoConnLost
<1>8. Lost => server # "exited"
  BY <1>1, <1>3, <1>6 DEF Lost, NoConnLost
<1>9. server' = "exited" => NoConnLost'
  <2> SUFFICES ASSUME server' = "exited" PROVE NoConnLost'
    OBVIOUS
  <2>1. NoConnLost /\ ~ Forgets
    BY <1>5, <1>6
  <2> QED
    BY <1>3, <2>1 DEF NoConnLost
<1>10. server' = "wait" => waitFor' \in Tasks
  <2> SUFFICES ASSUME server' = "wait" PROVE waitFor' \in Tasks
    OBVIOUS
  <2>1. CASE server = "wait"
    <3>1. waitFor \in Tasks
      BY <2>1 DEF WaitInv
    <3>2. UNCHANGED waitFor \/ CancelDiscovery
      BY DEF Next, Handler, Arrive, GetConn, GetFails, FirstCheck,
         CacheInfoFails, GetSecond, GetSecondFails, SecondCheck, Respond,
         EndDiscovery, ReturnConn, Age, Signal, Shutdown, ServeReturns,
         DiscoveryDone, CloseStore, ClosePool, vars
    <3> QED
      BY <2>1, <3>1, <3>2 DEF CancelDiscovery
  <2>2. CASE server # "wait"
    <3>1. CancelDiscovery
      BY <2>2 DEF Next, Handler, Arrive, GetConn, GetFails, FirstCheck,
         CacheInfoFails, GetSecond, GetSecondFails, SecondCheck, Respond,
         EndDiscovery, ReturnConn, Age, Signal, Shutdown, ServeReturns,
         DiscoveryDone, CloseStore, ClosePool, vars
    <3> QED
      BY <1>1, <2>2, <3>1 DEF CancelDiscovery, KindOK
  <2> QED
    BY <2>1, <2>2
<1> QED
  BY <1>4, <1>7, <1>8, <1>9, <1>10 DEF WaitInv

LEMMA WaitInvariance == Spec => []WaitInv
<1>1. Init => WaitInv
  BY DEF Init, WaitInv
<1>2. WaitInv /\ PoolInv /\ [Next]_vars => WaitInv'
  BY LostStep
<1> QED
  BY <1>1, <1>2, PoolInvariance, PTL DEF Spec

\* Once a second connection is forgotten it never comes back, and the server
\* never exits: cachePool.Close waits for it whatever else happens.
THEOREM LostConnHangsServer == Spec => LossIsForGood
<1>1. PoolInv /\ WaitInv /\ [Next]_vars /\ Lost
        => Lost' /\ (server # "exited")'
  BY LostStep
<1>2. PoolInv /\ WaitInv => (Lost => server # "exited")
  <2> SUFFICES ASSUME PoolInv, WaitInv, Lost, server = "exited" PROVE FALSE
    OBVIOUS
  <2>1. Held \in Nat
    BY HeldType DEF PoolInv, IInv
  <2> QED
    BY <2>1, DiscoveryAssumption
    DEF WaitInv, NoConnLost, Lost, PoolInv, DiscoveryAssumption
<1> QED
  BY <1>1, <1>2, PoolInvariance, WaitInvariance, PTL DEF Spec, LossIsForGood

LEMMA ShutdownGoesOn ==
  ASSUME Tasks # {}
  PROVE  PoolInv /\ WaitInv => ShutdownNeverStuck
<1> SUFFICES ASSUME PoolInv, WaitInv, server \notin {"serving", "exited"},
                    ~ WaitsForLost, ~ SomebodyCanGoOn
             PROVE  FALSE
  BY DEF ShutdownNeverStuck
<1>0. KindOK /\ OneDiscovery /\ ShutdownInv /\ IInv /\ free \in Nat
      /\ free + Held <= PoolSize /\ PoolSize \in Nat
  BY DiscoveryAssumption DEF PoolInv, IInv, DiscoveryAssumption
<1>1. \A t \in Tasks : task[t] \notin {"running", "returning"}
  BY DEF SomebodyCanGoOn
<1>2. \A t \in Tasks : task[t] = "none"
  BY <1>0, <1>1 DEF KindOK
<1>3. \A r \in Requests : req[r] = "idle"
  <2>1. \A r \in Requests : req[r] \in {"idle", "check"}
    BY <1>0 DEF SomebodyCanGoOn, KindOK, ReqStates
  <2>2. \A r \in Requests : req[r] # "check"
    BY <1>2 DEF SomebodyCanGoOn
  <2> QED
    BY <2>1, <2>2
<1>4. server = "wait" => task[waitFor] # "running"
  BY <1>1 DEF WaitInv
<1>5. server = "pool"
  BY <1>0, <1>3, <1>4 DEF SomebodyCanGoOn, KindOK
<1>6. free # PoolSize
  BY <1>5 DEF SomebodyCanGoOn
<1>7. Held = 0
  BY <1>0, <1>1, <1>3, NobodyHolds
<1> QED
  BY <1>0, <1>5, <1>6, <1>7 DEF WaitsForLost

\* After a signal handlers, tasks and runServe never wait for one another in
\* a circle, however few connections there are: the only thing that shutdown
\* can wait for in vain is a connection that nobody holds.
THEOREM ShutdownWaitsForLostOnly ==
  ASSUME Tasks # {}
  PROVE  Spec => []ShutdownNeverStuck
BY ShutdownGoesOn, PoolInvariance, WaitInvariance, PTL

\* ... which there is only after two index requests overlapped: otherwise
\* shutdown never comes to a standstill.
THEOREM ShutdownNeverHangs ==
  ASSUME Tasks # {}
  PROVE  Spec => ([]OneDecides => NoStandstill)
<1>1. PoolInv /\ ShutdownNeverStuck /\ NoConnLost =>
        (server \notin {"serving", "exited"} => SomebodyCanGoOn)
  <2>1. PoolInv /\ NoConnLost => ~ WaitsForLost
    BY DiscoveryAssumption
    DEF PoolInv, NoConnLost, WaitsForLost, DiscoveryAssumption
  <2> QED
    BY <2>1 DEF ShutdownNeverStuck
<1> QED
  BY <1>1, ConnsKept, ShutdownWaitsForLostOnly, PoolInvariance, PTL
  DEF ConnsKeptUnlessTwoDecide, NoStandstill
=============================================================================
