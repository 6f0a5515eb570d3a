------------------------ MODULE UploadPipelineProofs ------------------------
(***************************************************************************)
(* Proofs that the pipeline bounds its jobs, outlives them and forgets no  *)
(* path, for any closure relation, batch capacity, concurrency and number  *)
(* of lines.  The argument has two independent halves: the accounting of   *)
(* semaphore tokens (SemaphoreInv), and that of received paths (PathInv).  *)
(* The first also says why nobody waits in vain for a token; the last part *)
(* counts what the processor and its jobs have left to do.                 *)
(***************************************************************************)
EXTENDS UploadPipeline, FiniteSetTheorems, TLAPS

Live == main # "killed"

\* Every token in the semaphore belongs to a running job or to the drain.
SemaphoreInv ==
  /\ Live => tokens = Cardinality(Busy) + drained
  /\ drained # 0 => proc \in {"drain", "done"}
  /\ proc = "done" => drained = Concurrency
  /\ main = "exited" => proc = "done"
  /\ main = "killed" => Busy = {}

Uploading == {job[w] : w \in Busy}

\* The store objects of p are all on their way.
UnderWay(p) == Closure[p] \ Absent \subseteq attempted \cup Uploading \cup set

\* Where a received path may be while no signal has arrived.
Accounted(p) ==
  \/ p \in warned
  \/ proc \in {"batch", "gather"} /\ p \in Elems(batch)
  \/ proc = "single" /\ p \in Elems(todo)
  \/ UnderWay(p)

\* A path that an earlier query of the batch has visited is under way; the
\* set is empty whenever it is about to be replaced or left behind.
PathInv ==
  /\ \A p \in received : Accounted(p)
  /\ proc = "single" => \A p \in visited : UnderWay(p)
  /\ proc \in {"recv", "batch", "gather", "drain", "done"} => set = {}

PathsInv == Live /\ ~ cancelled => PathInv

IInv == TypeOK /\ SemaphoreInv /\ PathsInv

-----------------------------------------------------------------------------
(* Type correctness and the semaphore.                                     *)

LEMMA ElemsAppend ==
  ASSUME NEW s \in Seq(Paths), NEW p \in Paths
  PROVE  Elems(Append(s, p)) = Elems(s) \cup {p}
BY DEF Elems

LEMMA ElemsTail ==
  ASSUME NEW s \in Seq(Paths), s # <<>>
  PROVE  Elems(s) \subseteq {Head(s)} \cup Elems(Tail(s))
<1> SUFFICES ASSUME NEW i \in 1..Len(s), i # 1
             PROVE  s[i] \in Elems(Tail(s))
  BY DEF Elems
<1>1. Len(Tail(s)) = Len(s) - 1 /\ i - 1 \in 1..Len(Tail(s))
  OBVIOUS
<1>2. s[i] = Tail(s)[i - 1]
  BY <1>1
<1> QED
  BY <1>1, <1>2 DEF Elems

LEMMA BusyFinite == IsFiniteSet(Busy)
BY PipelineAssumption, FS_Subset DEF PipelineAssumption, Busy

\* Starting and finishing a job changes the number of busy goroutines by one.
LEMMA BusyStart ==
  ASSUME TypeOK, NEW w \in Workers, NEW p \in Paths, job[w] = None,
         job' = [job EXCEPT ![w] = p]
  PROVE  Cardinality(Busy') = Cardinality(Busy) + 1
<1>1. Busy' = Busy \cup {w} /\ w \notin Busy
  BY PipelineAssumption DEF PipelineAssumption, Busy, TypeOK
<1> QED
  BY <1>1, BusyFinite, FS_AddElement

LEMMA BusyFinish ==
  ASSUME TypeOK, NEW w \in Workers, job[w] # None,
         job' = [job EXCEPT ![w] = None]
  PROVE  Cardinality(Busy') = Cardinality(Busy) - 1
<1>1. Busy' = Busy \ {w} /\ w \in Busy
  BY DEF Busy, TypeOK
<1> QED
  BY <1>1, BusyFinite, FS_RemoveElement

LEMMA BusyNat == Cardinality(Busy) \in Nat /\ (Cardinality(Busy) = 0 => Busy = {})
BY BusyFinite, FS_CardinalityType, FS_EmptySet

LEMMA PipelineInit == Init => IInv
<1> SUFFICES ASSUME Init PROVE IInv
  OBVIOUS
<1>1. TypeOK
  <2>1. <<>> \in Seq(Paths) /\ Len(<<>>) = 0 /\ 0 <= BatchCap
        /\ 0 \in 0..MaxLines /\ 0 \in 0..Concurrency
    BY PipelineAssumption DEF PipelineAssumption
  <2> QED
    BY <2>1 DEF Init, TypeOK
<1>2. Busy = {} /\ Cardinality(Busy) = 0
  BY FS_EmptySet DEF Init, Busy
<1> QED
  BY <1>1, <1>2 DEF Init, IInv, SemaphoreInv, PathsInv, PathInv

\* One step per action; most move few variables.
LEMMA TypeNext == IInv /\ [Next]_vars => TypeOK'
<1> SUFFICES ASSUME TypeOK, SemaphoreInv, [Next]_vars PROVE TypeOK'
  BY DEF IInv
<1> USE DEF TypeOK
<1>0. /\ Concurrency \in Nat /\ BatchCap \in Nat /\ MaxLines \in Nat
      /\ BatchCap > 0 /\ Closure \in [Paths -> SUBSET Paths]
  BY PipelineAssumption DEF PipelineAssumption
<1>1. ASSUME NEW p \in Paths, ReadPath(p) PROVE TypeOK'
  BY <1>0, <1>1 DEF ReadPath, procVars, jobVars, history
<1>2. CASE ReadEnd
  BY <1>2 DEF ReadEnd, procVars, jobVars, history
<1>3. CASE Terminate
  BY <1>3 DEF Terminate, mainVars, procVars, jobVars, history
<1>4. CASE HangUp
  BY <1>4 DEF HangUp, procVars, history
<1>5. CASE Interrupted
  BY <1>5 DEF Interrupted, procVars, jobVars, history
<1>6. CASE HandOver
  <2>1. /\ line \in Paths /\ batch' = Append(batch, line)
        /\ Len(batch) < BatchCap \/ batch = <<>>
    BY <1>6 DEF HandOver
  <2>2. batch' \in Seq(Paths) /\ Len(batch') <= BatchCap
    BY <1>0, <2>1
  <2> QED
    BY <1>6, <2>1, <2>2 DEF HandOver, jobVars
<1>7. CASE Exit
  BY <1>7 DEF Exit, procVars, jobVars, history
<1>8. CASE StopReceiving \/ EndBatch \/ AbandonBatch \/ GatheredAll
           \/ AbandonSet \/ Drained
  BY <1>8 DEF StopReceiving, EndBatch, AbandonBatch, GatheredAll, AbandonSet,
              Drained, mainVars, jobVars, history
<1>9. CASE Gather
  <2>1. UNION {Closure[p] : p \in Elems(batch)} \subseteq Paths
    BY <1>0 DEF Elems
  <2> QED
    BY <1>9, <2>1 DEF Gather, mainVars, jobVars, history
<1>10. CASE GatherOne
  <2>1. Head(todo) \in Paths /\ Tail(todo) \in Seq(Paths)
    BY <1>10 DEF GatherOne
  <2>2. Closure[Head(todo)] \subseteq Paths
    BY <1>0, <2>1
  <2>3. set' \subseteq Paths /\ visited' \subseteq Paths /\ warned' \subseteq Paths
    BY <1>10, <2>1, <2>2 DEF GatherOne
  <2> QED
    BY <1>10, <2>1, <2>3 DEF GatherOne, mainVars, jobVars
<1>11. CASE NextBatch
  BY <1>0, <1>11 DEF NextBatch, mainVars, jobVars, history
<1>12. CASE Drain
  BY <1>0, <1>12 DEF Drain, mainVars, history
<1>13. ASSUME NEW w \in Workers, Dispatch(w) PROVE TypeOK'
  BY <1>0, <1>13 DEF Dispatch, mainVars, history
<1>14. ASSUME NEW w \in Workers, FinishJob(w) PROVE TypeOK'
  <2>1. w \in Busy /\ Live
    BY <1>14 DEF FinishJob, Busy, SemaphoreInv, Live
  <2>2. tokens - 1 \in 0..Concurrency
    BY <1>0, <2>1, BusyNat DEF SemaphoreInv
  <2> QED
    BY <1>14, <2>2 DEF FinishJob, mainVars, procVars
<1>15. CASE UNCHANGED vars
  BY <1>15 DEF vars, mainVars, procVars, jobVars, history
<1> QED
  BY <1>1, <1>2, <1>3, <1>4, <1>5, <1>6, <1>7, <1>8, <1>9, <1>10, <1>11,
     <1>12, <1>13, <1>14, <1>15
  DEF Next, Main, Process, Environment

LEMMA SemaphoreNext == IInv /\ [Next]_vars => SemaphoreInv'
<1> SUFFICES ASSUME TypeOK, SemaphoreInv, [Next]_vars PROVE SemaphoreInv'
  BY DEF IInv
<1> USE DEF SemaphoreInv, Live
<1>0. Concurrency \in Nat /\ tokens \in Nat /\ drained \in Nat
  BY PipelineAssumption DEF PipelineAssumption, TypeOK
<1>1. ASSUME UNCHANGED jobVars, UNCHANGED drained,
             \/ UNCHANGED <<main, proc>>
             \/ UNCHANGED main /\ proc \in {"recv", "batch", "gather", "single",
                                           "dispatch"} /\ proc' # "done"
             \/ UNCHANGED proc /\ main \notin {"exited", "killed"}
                /\ main' \in {"scan", "send", "closed", "cancelling"}
             \/ Exit \/ HandOver \/ Drained
      PROVE  SemaphoreInv'
  <2>1. Busy' = Busy
    BY <1>1 DEF Busy, jobVars
  <2> QED
    BY <1>0, <1>1, <2>1 DEF jobVars, Exit, HandOver, Drained, Running, TypeOK,
                            mainVars, procVars
<1>2. CASE HangUp
  <2>1. Busy' = {}
    BY <1>2 DEF HangUp, Busy
  <2> QED
    BY <1>2, <2>1 DEF HangUp, Alive, procVars
<1>3. CASE Drain
  <2>1. Busy' = Busy
    BY <1>3 DEF Drain, Busy
  <2> QED
    BY <1>0, <1>3, <2>1, BusyNat DEF Drain, Running, mainVars
<1>4. ASSUME NEW w \in Workers, Dispatch(w) PROVE SemaphoreInv'
  <2>1. PICK p \in Paths : job' = [job EXCEPT ![w] = p]
    BY <1>4 DEF Dispatch, TypeOK
  <2>2. Cardinality(Busy') = Cardinality(Busy) + 1
    BY <1>4, <2>1, BusyStart DEF Dispatch
  <2> QED
    BY <1>0, <1>4, <2>2, BusyNat DEF Dispatch, Running, mainVars
<1>5. ASSUME NEW w \in Workers, FinishJob(w) PROVE SemaphoreInv'
  <2>1. Cardinality(Busy') = Cardinality(Busy) - 1 /\ Live
    BY <1>5, BusyFinish DEF FinishJob, Busy
  <2> QED
    BY <1>0, <1>5, <2>1, BusyNat DEF FinishJob, mainVars, procVars
<1>6. CASE UNCHANGED vars
  BY <1>1, <1>6 DEF vars, mainVars, procVars, jobVars
<1>7. ASSUME NEW p \in Paths, ReadPath(p) PROVE SemaphoreInv'
  BY <1>1, <1>7 DEF ReadPath, procVars
<1>8. CASE ReadEnd \/ Terminate \/ Interrupted \/ HandOver \/ Exit
  BY <1>1, <1>8 DEF ReadEnd, Terminate, Interrupted, HandOver, Exit,
                    procVars, mainVars
<1>9. CASE \/ StopReceiving \/ EndBatch \/ AbandonBatch \/ Gather \/ GatherOne
           \/ GatheredAll \/ AbandonSet \/ NextBatch \/ Drained
  BY <1>1, <1>9 DEF StopReceiving, EndBatch, AbandonBatch, Gather, GatherOne,
       GatheredAll, AbandonSet, NextBatch, Drained, Running, mainVars
<1> QED
  BY <1>2, <1>3, <1>4, <1>5, <1>6, <1>7, <1>8, <1>9
  DEF Next, Main, Process, Environment

-----------------------------------------------------------------------------
(* The paths.                                                              *)

\* A path accounted for stays so when its batch, its queries and the set are
\* left alone and no job gives up its store object.
LEMMA AccountedKept ==
  ASSUME UNCHANGED <<proc, batch, todo, set>>,
         warned \subseteq warned',
         attempted \cup Uploading \subseteq attempted' \cup Uploading'
  PROVE  /\ \A p \in Paths : Accounted(p) => Accounted(p)'
         /\ \A p \in Paths : UnderWay(p) => UnderWay(p)'
BY DEF Accounted, UnderWay

LEMMA PathsNext == IInv /\ [Next]_vars => PathsInv'
<1> SUFFICES ASSUME IInv, [Next]_vars, Live', ~ cancelled' PROVE PathInv'
  BY DEF PathsInv
<1>0. TypeOK /\ SemaphoreInv
  BY DEF IInv
<1>a. Live /\ ~ cancelled
  <2>1. CASE UNCHANGED vars
    BY <2>1 DEF vars, mainVars, Live
  <2>2. ASSUME NEW w \in Workers, FinishJob(w) \/ Dispatch(w)
        PROVE  Live /\ ~ cancelled
    BY <2>2 DEF FinishJob, Dispatch, mainVars, Live
  <2>3. CASE Main \/ Environment
    BY <2>3 DEF Main, HandOver, Interrupted, Exit, Environment, ReadPath,
                ReadEnd, Terminate, HangUp, Alive, mainVars, Live
  <2>4. CASE \/ StopReceiving \/ EndBatch \/ AbandonBatch \/ Gather
             \/ GatherOne \/ GatheredAll \/ AbandonSet \/ NextBatch
             \/ Drain \/ Drained
    BY <2>4 DEF StopReceiving, EndBatch, AbandonBatch, Gather, GatherOne,
         GatheredAll, AbandonSet, NextBatch, Drain, Drained, mainVars, Live
  <2> QED
    BY <2>1, <2>2, <2>3, <2>4 DEF Next, Process
<1>b. PathInv
  BY <1>a DEF IInv, PathsInv
<1>c. /\ received \subseteq Paths /\ visited \subseteq Paths
      /\ batch \in Seq(Paths) /\ todo \in Seq(Paths)
  BY <1>0 DEF TypeOK
<1>1. ASSUME UNCHANGED <<procVars, jobVars, history>> PROVE PathInv'
  <2>1. Uploading' = Uploading
    BY <1>1 DEF Uploading, Busy, jobVars
  <2> QED
    BY <1>1, <1>b, <2>1
    DEF PathInv, Accounted, UnderWay, procVars, jobVars, history
<1>2. CASE HandOver
  <2>1. Uploading' = Uploading
    BY <1>2 DEF HandOver, jobVars, Uploading, Busy
  <2>2. PICK q \in Paths : q = line
    BY <1>0, <1>2 DEF HandOver, TypeOK
  <2>3. /\ Elems(batch') = Elems(batch) \cup {q}
        /\ received' = received \cup {q}
    BY <1>2, <1>c, <2>2, ElemsAppend DEF HandOver
  <2>4. /\ proc' = "batch" /\ set' = {} /\ set = {}
        /\ proc \in {"recv", "batch"}
        /\ UNCHANGED <<warned, attempted>>
    BY <1>2, <1>b DEF HandOver, PathInv
  <2>5. ASSUME NEW p \in received PROVE Accounted(p)'
    BY <1>b, <2>1, <2>3, <2>4 DEF PathInv, Accounted, UnderWay
  <2>6. Accounted(q)'
    BY <2>3, <2>4 DEF Accounted
  <2> QED
    BY <2>3, <2>4, <2>5, <2>6 DEF PathInv
<1>3. CASE StopReceiving \/ EndBatch \/ Drained \/ Drain
  <2>1. Uploading' = Uploading
    BY <1>3 DEF StopReceiving, EndBatch, Drained, Drain, jobVars, Uploading,
                Busy
  <2>2. /\ UNCHANGED <<batch, todo, visited, set, history>>
        /\ \/ proc = "recv" /\ proc' = "drain"
           \/ proc = "batch" /\ proc' = "gather"
           \/ proc = "drain" /\ proc' \in {"drain", "done"}
    BY <1>3 DEF StopReceiving, EndBatch, Drained, Drain, Running
  <2> QED
    BY <1>b, <2>1, <2>2 DEF PathInv, Accounted, UnderWay, history
<1>4. CASE AbandonBatch \/ AbandonSet
  BY <1>a, <1>4 DEF AbandonBatch, AbandonSet
<1>5. CASE Gather
  <2>1. /\ Uploading' = Uploading /\ proc = "gather" /\ set = {}
        /\ UNCHANGED <<batch, history>>
    BY <1>5, <1>b DEF Gather, Running, PathInv, jobVars, Uploading, Busy
  <2>2. ASSUME NEW p \in received
        PROVE  p \in warned \/ p \in Elems(batch) \/ UnderWay(p)
    BY <1>b, <2>1 DEF PathInv, Accounted
  <2>3. CASE /\ set' = UNION {Closure[p] : p \in Elems(batch)}
             /\ proc' = "dispatch"
    BY <1>b, <2>1, <2>2, <2>3 DEF PathInv, Accounted, UnderWay, history
  <2>4. CASE set' = {} /\ todo' = batch /\ visited' = {} /\ proc' = "single"
    BY <1>b, <2>1, <2>2, <2>4 DEF PathInv, Accounted, UnderWay, history
  <2> QED
    BY <1>5, <2>3, <2>4 DEF Gather
<1>6. CASE GatherOne
  <2> DEFINE h == Head(todo)
  <2>1. /\ Uploading' = Uploading /\ proc = "single" /\ proc' = "single"
        /\ UNCHANGED <<received, attempted>> /\ h \in Paths
        /\ Elems(todo) \subseteq {h} \cup Elems(todo')
    BY <1>6, <1>c, ElemsTail
    DEF GatherOne, Running, procVars, jobVars, Uploading, Busy
  <2>2. CASE h \in visited /\ UNCHANGED <<visited, set, warned>>
    BY <1>b, <2>1, <2>2 DEF PathInv, Accounted, UnderWay
  <2>3. CASE warned' = warned \cup {h} /\ UNCHANGED <<visited, set>>
    BY <1>b, <2>1, <2>3 DEF PathInv, Accounted, UnderWay
  <2>4. CASE /\ set' = set \cup ((Closure[h] \ visited) \ Absent)
             /\ visited' = visited \cup Closure[h]
             /\ UNCHANGED warned
    <3>1. ASSUME NEW p \in Paths, UnderWay(p) PROVE UnderWay(p)'
      BY <2>1, <2>4, <3>1 DEF UnderWay
    <3>2. ASSUME NEW p \in visited PROVE p \in Absent \/ UnderWay(p)
      BY <1>b, <2>1 DEF PathInv
    <3>3. ASSUME NEW q \in Closure[h], q \notin Absent
          PROVE  q \in attempted' \cup Uploading' \cup set'
      <4>1. CASE q \in visited
        <5>1. q \in Closure[q] /\ UnderWay(q)
          BY <1>b, <1>c, <2>1, <4>1, PipelineAssumption
          DEF PathInv, PipelineAssumption
        <5> QED
          BY <2>1, <2>4, <3>3, <5>1 DEF UnderWay
      <4>2. CASE q \notin visited
        BY <2>4, <3>3, <4>2
      <4> QED
        BY <4>1, <4>2
    <3>4. ASSUME NEW p \in Closure[h] PROVE p \in Paths /\ UnderWay(p)'
      <4>1. p \in Paths /\ Closure[p] \subseteq Closure[h]
        BY <2>1, PipelineAssumption DEF PipelineAssumption
      <4> QED
        BY <3>3, <4>1 DEF UnderWay
    <3>5. h \in Closure[h]
      BY <2>1, PipelineAssumption DEF PipelineAssumption
    <3>6. \A p \in visited' : UnderWay(p)'
      BY <1>b, <1>c, <2>1, <2>4, <3>1, <3>4 DEF PathInv
    <3>7. ASSUME NEW p \in received PROVE Accounted(p)'
      BY <1>b, <1>c, <2>1, <2>4, <3>1, <3>4, <3>5 DEF PathInv, Accounted
    <3> QED
      BY <2>1, <3>6, <3>7 DEF PathInv
  <2> QED
    BY <1>6, <2>2, <2>3, <2>4 DEF GatherOne
<1>7. CASE GatheredAll
  <2>1. Uploading' = Uploading /\ Elems(todo) = {}
    BY <1>7 DEF GatheredAll, jobVars, Uploading, Busy, Elems
  <2> QED
    BY <1>7, <1>b, <2>1
    DEF GatheredAll, Running, PathInv, Accounted, UnderWay, history
<1>8. CASE NextBatch
  <2>1. Uploading' = Uploading
    BY <1>8 DEF NextBatch, jobVars, Uploading, Busy
  <2> QED
    BY <1>8, <1>b, <2>1
    DEF NextBatch, Running, PathInv, Accounted, UnderWay, history
<1>9. ASSUME NEW w \in Workers, Dispatch(w) PROVE PathInv'
  <2>1. PICK p \in set : set' = set \ {p} /\ job' = [job EXCEPT ![w] = p]
    BY <1>9 DEF Dispatch
  <2>2. p \in Paths /\ p # None /\ job[w] = None /\ job' \in [Workers -> Paths \cup {None}]
    BY <1>0, <1>9, <2>1, PipelineAssumption
    DEF Dispatch, TypeOK, PipelineAssumption
  <2>3. Uploading' = Uploading \cup {p}
    <3>1. Busy' = Busy \cup {w} /\ w \notin Busy
      BY <1>0, <2>1, <2>2 DEF Busy, TypeOK
    <3>2. job'[w] = p /\ \A v \in Busy : job'[v] = job[v]
      BY <1>0, <2>1, <3>1 DEF TypeOK, Busy
    <3> QED
      BY <3>1, <3>2 DEF Uploading
  <2>4. proc = "dispatch" /\ UNCHANGED <<proc, batch, todo, visited, history>>
    BY <1>9 DEF Dispatch, Running
  <2> QED
    BY <1>b, <2>1, <2>3, <2>4 DEF PathInv, Accounted, UnderWay, history
<1>10. ASSUME NEW w \in Workers, FinishJob(w) PROVE PathInv'
  <2>1. attempted \cup Uploading \subseteq attempted' \cup Uploading'
    <3>1. \A v \in Busy : v = w \/ (v \in Busy' /\ job'[v] = job[v])
      BY <1>0, <1>10 DEF FinishJob, Busy, TypeOK
    <3>2. attempted' = attempted \cup {job[w]}
      BY <1>10 DEF FinishJob
    <3> QED
      BY <3>1, <3>2 DEF Uploading
  <2>2. UNCHANGED <<proc, batch, todo, visited, set, received, warned>>
    BY <1>10 DEF FinishJob, procVars
  <2> QED
    BY <1>b, <1>c, <2>1, <2>2, AccountedKept DEF PathInv
<1>11. CASE UNCHANGED vars
  BY <1>1, <1>11 DEF vars
<1>12. CASE \/ \E p \in Paths : ReadPath(p)
            \/ ReadEnd \/ Terminate \/ Interrupted \/ Exit
  BY <1>1, <1>12 DEF ReadPath, ReadEnd, Terminate, Interrupted, Exit
<1>13. CASE HangUp
  BY <1>13 DEF HangUp, Live
<1> QED
  BY <1>2, <1>3, <1>4, <1>5, <1>6, <1>7, <1>8, <1>9, <1>10, <1>11, <1>12,
     <1>13
  DEF Next, Main, Process, Environment

LEMMA Invariance == Spec => []IInv
<1>1. IInv /\ [Next]_vars => IInv'
  BY TypeNext, SemaphoreNext, PathsNext DEF IInv
<1> QED
  BY PipelineInit, <1>1, PTL DEF Spec

-----------------------------------------------------------------------------
(* The theorems.                                                           *)

\* Every state of every run is well typed; that a finished job finds its
\* token in the semaphore needs SemaphoreInv.
THEOREM PipelineTypeCorrect == Spec => []TypeOK
BY Invariance, PTL DEF IInv

\* No more than --jobs uploads run at the same time, however many goroutines
\* there could be, also while the last ones are waited for.
THEOREM PipelineBoundsJobs == Spec => []JobsBounded
<1>1. IInv => JobsBounded
  <2> SUFFICES ASSUME IInv PROVE JobsBounded
    OBVIOUS
  <2>1. CASE Live
    BY <2>1, BusyNat, PipelineAssumption
    DEF IInv, SemaphoreInv, TypeOK, JobsBounded, PipelineAssumption
  <2>2. CASE ~ Live
    <3>1. Cardinality(Busy) = 0
      BY <2>2, FS_EmptySet DEF IInv, SemaphoreInv, Live
    <3> QED
      BY <3>1, PipelineAssumption DEF JobsBounded, PipelineAssumption
  <2> QED
    BY <2>1, <2>2
<1> QED
  BY <1>1, Invariance, PTL

\* When the process ends, and with it the bucket, no job is left that uses
\* it: the tokens of the drain have crowded out all others.
THEOREM PipelineQuietAtExit == Spec => []NoJobAfterExit
<1>1. IInv => NoJobAfterExit
  BY BusyNat, PipelineAssumption
  DEF IInv, SemaphoreInv, TypeOK, Live, NoJobAfterExit, PipelineAssumption
<1> QED
  BY <1>1, Invariance, PTL

\* Until a signal arrives no received path is forgotten, whatever queries
\* fail and however the closures of a batch overlap.
THEOREM PipelineForgetsNothing == Spec => []NothingForgotten
<1>1. IInv => NothingForgotten
  BY DEF IInv, PathsInv, PathInv, Live, Alive, NothingForgotten, Accounted,
         UnderWay, Uploading, Served
<1> QED
  BY <1>1, Invariance, PTL

\* A process whose input ends, with no signal, has tried to upload the whole
\* closure of every path it received that Nix itself did not refuse.
THEOREM PipelineServesAll == Spec => []CleanExitComplete
<1>1. IInv => CleanExitComplete
  <2> SUFFICES ASSUME IInv, main = "exited", ~ cancelled, NEW p \in received
               PROVE  Served(p)
    BY DEF CleanExitComplete
  <2>1. proc = "done" /\ set = {} /\ Accounted(p)
    BY DEF IInv, SemaphoreInv, PathsInv, PathInv, Live
  <2>2. Busy = {}
    BY BusyNat, PipelineAssumption
    DEF IInv, SemaphoreInv, TypeOK, Live, PipelineAssumption
  <2> QED
    BY <2>1, <2>2 DEF Accounted, UnderWay, Uploading, Served
<1> QED
  BY <1>1, Invariance, PTL

-----------------------------------------------------------------------------
(* Why the process ends: what EndOfInputStops and SignalStops rest on, but *)
(* for the scheduling.  The main goroutine, the processor, the jobs and    *)
(* the drain wait for one another over the channel, the semaphore and      *)
(* processDone, and never all at once.                                     *)

\* The processor stops only after the end of the input or a signal.
StopInv ==
  /\ main = "cancelling" => cancelled
  /\ Alive /\ proc \in {"drain", "done"} => main = "closed" \/ cancelled

\* The whole pipeline waits for the next line.
WaitsForInput == main = "scan" /\ ~ cancelled /\ proc = "recv"

\* Somebody can go on: the conditions of the actions that Fairness is about.
SomebodyCanGoOn ==
  \/ main = "send" /\ proc = "recv"
  \/ main = "send" /\ proc = "batch" /\ Len(batch) < BatchCap
  \/ main \in {"scan", "send"} /\ cancelled
  \/ main \in {"closed", "cancelling"} /\ proc = "done"
  \/ proc = "recv" /\ (main = "closed" \/ cancelled)
  \/ proc \in {"batch", "gather", "single"}
  \/ proc = "dispatch" /\ (set = {} \/ cancelled)
  \/ proc = "dispatch" /\ tokens < Concurrency /\ Busy # Workers
  \/ proc = "drain" /\ (drained = Concurrency \/ tokens < Concurrency)
  \/ Busy # {}

NeverStuck == Alive /\ ~ WaitsForInput => SomebodyCanGoOn

LEMMA StopInvariance == Spec => []StopInv
<1>1. Init => StopInv
  BY DEF Init, StopInv
<1>2. StopInv /\ [Next]_vars => StopInv'
  <2> SUFFICES ASSUME StopInv, [Next]_vars PROVE StopInv'
    OBVIOUS
  <2> USE DEF StopInv, Alive
  <2>1. ASSUME NEW p \in Paths, ReadPath(p) PROVE StopInv'
    BY <2>1 DEF ReadPath, procVars
  <2>2. CASE ReadEnd \/ Terminate \/ HangUp
    BY <2>2 DEF ReadEnd, Terminate, HangUp, mainVars, procVars
  <2>3. CASE HandOver \/ Interrupted \/ Exit
    BY <2>3 DEF HandOver, Interrupted, Exit, mainVars, procVars
  <2>4. CASE StopReceiving \/ EndBatch \/ AbandonBatch
    BY <2>4 DEF StopReceiving, EndBatch, AbandonBatch, Running, mainVars
  <2>5. CASE Gather \/ GatherOne \/ GatheredAll
    BY <2>5 DEF Gather, GatherOne, GatheredAll, Running, mainVars
  <2>6. CASE AbandonSet \/ NextBatch \/ Drain \/ Drained
    BY <2>6 DEF AbandonSet, NextBatch, Drain, Drained, Running, mainVars
  <2>7. ASSUME NEW w \in Workers, Dispatch(w) \/ FinishJob(w) PROVE StopInv'
    BY <2>7 DEF Dispatch, FinishJob, Running, mainVars, procVars
  <2>8. CASE UNCHANGED vars
    BY <2>8 DEF vars, mainVars, procVars
  <2> QED
    BY <2>1, <2>2, <2>3, <2>4, <2>5, <2>6, <2>7, <2>8
    DEF Next, Main, Process, Environment
<1> QED
  BY <1>1, <1>2, PTL DEF Spec

\* With --jobs at least 1 the pipeline never comes to a standstill before the
\* process ends, but to wait for its input: a full semaphore has a job that
\* will return, in the middle of a set as in the drain, and the main goroutine
\* never waits for a processor that waits for it.
THEOREM PipelineNeverStuck ==
  ASSUME Concurrency \in 1..Cardinality(Workers)
  PROVE  Spec => []NeverStuck
<1>1. ASSUME IInv, StopInv, Alive, ~ WaitsForInput PROVE SomebodyCanGoOn
  <2> USE <1>1 DEF SomebodyCanGoOn, StopInv, Alive, IInv, TypeOK
  <2>1. Live /\ tokens = Cardinality(Busy) + drained
    BY DEF SemaphoreInv, Live
  <2>2. Cardinality(Busy) \in Nat /\ (Busy = {} => Cardinality(Busy) = 0)
    BY BusyNat, FS_EmptySet
  <2>3. CASE proc = "recv"
    BY <2>3 DEF WaitsForInput
  <2>4. CASE proc \in {"batch", "gather", "single"}
    BY <2>4
  <2>5. CASE proc = "dispatch"
    <3>1. drained = 0
      BY <2>5 DEF SemaphoreInv
    <3>2. CASE tokens = Concurrency
      <4>1. Busy # {}
        BY <2>1, <2>2, <3>1, <3>2
      <4> QED
        BY <4>1
    <3>3. CASE tokens < Concurrency
      <4>1. Busy # Workers
        BY <2>1, <2>2, <3>1, <3>3
      <4> QED
        BY <2>5, <3>3, <4>1
    <3>4. tokens = Concurrency \/ tokens < Concurrency
      OBVIOUS
    <3> QED
      BY <3>2, <3>3, <3>4
  <2>6. CASE proc = "drain"
    <3>1. CASE drained # Concurrency /\ ~ tokens < Concurrency
      <4>1. Busy # {}
        BY <2>1, <2>2, <3>1
      <4> QED
        BY <4>1
    <3> QED
      BY <2>6, <3>1
  <2>7. CASE proc = "done"
    BY <2>7
  <2> QED
    BY <2>3, <2>4, <2>5, <2>6, <2>7
<1>2. IInv /\ StopInv => NeverStuck
  BY <1>1 DEF NeverStuck
<1> QED
  BY <1>2, Invariance, StopInvariance, PTL

-----------------------------------------------------------------------------
(* Why it ends: how much work there is.                                    *)

\* What the processor has left, if it is handed nothing more: the drain
\* comes last, each store object is dispatched and then uploaded, and each
\* path of a batch may be queried alone.
DrainLeft == 1 + Concurrency - drained

ProcLeft ==
  IF proc = "done" THEN 0
  ELSE IF proc = "drain" THEN DrainLeft
  ELSE IF proc = "recv" THEN DrainLeft + 1
  ELSE IF proc = "dispatch" THEN DrainLeft + 2 + 2 * Cardinality(set)
  ELSE IF proc = "single" THEN DrainLeft + 3 + 2 * Cardinality(Paths) + Len(todo)
  ELSE IF proc = "gather" THEN DrainLeft + 4 + 2 * Cardinality(Paths) + Len(batch)
  ELSE DrainLeft + 5 + 2 * Cardinality(Paths) + Len(batch)

StepsLeft == ProcLeft + Cardinality(Busy) + (IF Alive THEN 1 ELSE 0)

InputIsOver == main \notin {"scan", "send"}

WorkIsUsedUp ==
  [][/\ ~ HandOver => StepsLeft' \in 0..StepsLeft
     /\ InputIsOver => InputIsOver'
     /\ InputIsOver /\ UNCHANGED cancelled => StepsLeft' < StepsLeft
     /\ Process => StepsLeft' < StepsLeft]_vars

LEMMA LeftTypes ==
  ASSUME IsFiniteSet(Paths), TypeOK
  PROVE  /\ Cardinality(Paths) \in Nat /\ Cardinality(set) \in Nat
         /\ Cardinality(set) <= Cardinality(Paths)
         /\ IsFiniteSet(set) /\ (set = {} => Cardinality(set) = 0)
         /\ Len(todo) \in Nat /\ Len(batch) \in Nat
         /\ DrainLeft \in Nat \ {0} /\ Cardinality(Busy) \in Nat
<1>1. /\ IsFiniteSet(set) /\ Cardinality(set) <= Cardinality(Paths)
  BY FS_Subset DEF TypeOK
<1>2. Cardinality(Paths) \in Nat /\ Cardinality(set) \in Nat
  BY <1>1, FS_CardinalityType
<1>3. Len(todo) \in Nat /\ Len(batch) \in Nat
  BY DEF TypeOK
<1>4. DrainLeft \in Nat \ {0}
  BY PipelineAssumption DEF TypeOK, DrainLeft, PipelineAssumption
<1> QED
  BY <1>1, <1>2, <1>3, <1>4, BusyNat, FS_EmptySet

LEMMA StepsLeftType ==
  ASSUME IsFiniteSet(Paths), TypeOK
  PROVE  StepsLeft \in Nat /\ ProcLeft \in Nat
<1> DEFINE P == Cardinality(Paths)
           Q == Cardinality(set)
           D == DrainLeft
           T == Len(todo)
           B == Len(batch)
<1>1. /\ P \in Nat /\ Q \in Nat /\ D \in Nat /\ T \in Nat /\ B \in Nat
      /\ Cardinality(Busy) \in Nat
  BY LeftTypes
<1>2. ProcLeft \in {0, D, D + 1, D + 2 + 2 * Q, D + 3 + 2 * P + T,
                    D + 4 + 2 * P + B, D + 5 + 2 * P + B}
  BY DEF ProcLeft
<1>3. ProcLeft \in Nat
  <2> HIDE DEF P, Q, D, T, B
  <2> QED
    BY <1>1, <1>2
<1> QED
  BY <1>1, <1>3 DEF StepsLeft

\* The processor gets nearer to its end, whatever the state of main.
LEMMA ProcStep ==
  ASSUME IsFiniteSet(Paths), TypeOK, TypeOK',
         \/ StopReceiving \/ EndBatch \/ AbandonBatch \/ Gather \/ GatherOne
         \/ GatheredAll \/ AbandonSet \/ NextBatch \/ Drain \/ Drained
  PROVE  /\ ProcLeft' < ProcLeft /\ ProcLeft' \in Nat /\ ProcLeft \in Nat
         /\ Busy' = Busy /\ main' = main
<1> DEFINE P == Cardinality(Paths)
           Q == Cardinality(set)
           N == Cardinality(set')
           D == DrainLeft
           E == DrainLeft'
<1>1. /\ P \in Nat /\ Q \in Nat /\ Q <= P /\ (set = {} => Q = 0)
      /\ Len(todo) \in Nat /\ Len(batch) \in Nat /\ D \in Nat \ {0}
  BY LeftTypes
<1>2. (/\ Cardinality(set) \in Nat /\ Cardinality(set) <= Cardinality(Paths)
       /\ Len(todo) \in Nat /\ Len(batch) \in Nat /\ DrainLeft \in Nat \ {0})'
  <2>1. (IsFiniteSet(Paths))'
    OBVIOUS
  <2> QED
    BY <2>1, LeftTypes, PTL
<1>3. ProcLeft \in Nat /\ ProcLeft' \in Nat
  <2>1. (IsFiniteSet(Paths))'
    OBVIOUS
  <2>2. (ProcLeft \in Nat)'
    BY <2>1, StepsLeftType, PTL
  <2> QED
    BY <2>2, StepsLeftType
<1>4. drained' = drained => E = D
  BY DEF DrainLeft
<1>5. Busy' = Busy /\ main' = main
  BY DEF StopReceiving, EndBatch, AbandonBatch, Gather, GatherOne, GatheredAll,
         AbandonSet, NextBatch, Drain, Drained, Busy, jobVars, mainVars
<1> HIDE DEF D, E
<1>6. CASE StopReceiving
  <2>1. proc = "recv" /\ proc' = "drain" /\ E = D
    BY <1>4, <1>6 DEF StopReceiving, Running
  <2>2. ProcLeft = D + 1 /\ ProcLeft' = E
    BY <2>1 DEF ProcLeft, D, E
  <2> QED
    BY <1>1, <1>3, <1>5, <2>1, <2>2
<1>7. CASE EndBatch
  <2>1. proc = "batch" /\ proc' = "gather" /\ E = D /\ batch' = batch
    BY <1>4, <1>7 DEF EndBatch, Running
  <2>2. /\ ProcLeft = D + 5 + 2 * P + Len(batch)
        /\ ProcLeft' = E + 4 + 2 * P + Len(batch')
    BY <2>1 DEF ProcLeft, D, E
  <2> QED
    BY <1>1, <1>3, <1>5, <2>1, <2>2
<1>8. CASE AbandonBatch
  <2>1. proc = "batch" /\ proc' = "drain" /\ E = D
    BY <1>4, <1>8 DEF AbandonBatch, Running
  <2>2. ProcLeft = D + 5 + 2 * P + Len(batch) /\ ProcLeft' = E
    BY <2>1 DEF ProcLeft, D, E
  <2> QED
    BY <1>1, <1>3, <1>5, <2>1, <2>2
<1>9. CASE Gather
  <2>1. /\ proc = "gather" /\ E = D
        /\ proc' = "dispatch" \/ (proc' = "single" /\ todo' = batch)
    BY <1>4, <1>9 DEF Gather, Running
  <2>2. ProcLeft = D + 4 + 2 * P + Len(batch)
    BY <2>1 DEF ProcLeft, D
  <2>3. CASE proc' = "dispatch"
    <3>1. ProcLeft' = E + 2 + 2 * N
      BY <2>3 DEF ProcLeft, E
    <3>2. N \in Nat /\ N <= P
      BY <1>2
    <3> HIDE DEF N, P
    <3> QED
      BY <1>1, <1>3, <1>5, <2>1, <2>2, <3>1, <3>2
  <2>4. CASE proc' = "single" /\ todo' = batch
    <3>1. ProcLeft' = E + 3 + 2 * P + Len(batch)
      BY <2>4 DEF ProcLeft, E
    <3> QED
      BY <1>1, <1>3, <1>5, <2>1, <2>2, <3>1
  <2> QED
    BY <2>1, <2>3, <2>4
<1>10. CASE GatherOne
  <2>1. /\ proc = "single" /\ proc' = "single" /\ E = D
        /\ todo # <<>> /\ todo' = Tail(todo)
    BY <1>4, <1>10 DEF GatherOne, Running
  <2>2. Len(todo') = Len(todo) - 1
    BY <2>1 DEF TypeOK
  <2>3. /\ ProcLeft = D + 3 + 2 * P + Len(todo)
        /\ ProcLeft' = E + 3 + 2 * P + Len(todo')
    BY <2>1 DEF ProcLeft, D, E
  <2> QED
    BY <1>1, <1>3, <1>5, <2>1, <2>2, <2>3
<1>11. CASE GatheredAll
  <2>1. proc = "single" /\ proc' = "dispatch" /\ E = D
    BY <1>4, <1>11 DEF GatheredAll, Running
  <2>2. /\ ProcLeft = D + 3 + 2 * P + Len(todo)
        /\ ProcLeft' = E + 2 + 2 * N
    BY <2>1 DEF ProcLeft, D, E
  <2>3. N \in Nat /\ N <= P
    BY <1>2
  <2> HIDE DEF N, P
  <2> QED
    BY <1>1, <1>3, <1>5, <2>1, <2>2, <2>3
<1>12. CASE AbandonSet \/ NextBatch
  <2>1. proc = "dispatch" /\ proc' \in {"drain", "recv"} /\ E = D
    BY <1>4, <1>12 DEF AbandonSet, NextBatch, Running
  <2>2. ProcLeft = D + 2 + 2 * Q /\ ProcLeft' \in {E, E + 1}
    BY <2>1 DEF ProcLeft, D, E
  <2> QED
    BY <1>1, <1>3, <1>5, <2>1, <2>2
<1>13. CASE Drain
  <2>1. proc = "drain" /\ proc' = "drain" /\ drained' = drained + 1
    BY <1>13 DEF Drain, Running
  <2>2. E = D - 1
    BY <2>1, PipelineAssumption DEF D, E, DrainLeft, TypeOK, PipelineAssumption
  <2>3. ProcLeft = D /\ ProcLeft' = E
    BY <2>1 DEF ProcLeft, D, E
  <2> QED
    BY <1>1, <1>3, <1>5, <2>2, <2>3
<1>14. CASE Drained
  <2>1. proc = "drain" /\ proc' = "done"
    BY <1>14 DEF Drained, Running
  <2>2. ProcLeft = D /\ ProcLeft' = 0
    BY <2>1 DEF ProcLeft, D
  <2> QED
    BY <1>1, <1>3, <1>5, <2>2
<1> QED
  BY <1>6, <1>7, <1>8, <1>9, <1>10, <1>11, <1>12, <1>13, <1>14

LEMMA DispatchStep ==
  ASSUME IsFiniteSet(Paths), TypeOK, TypeOK', NEW w \in Workers, Dispatch(w)
  PROVE  StepsLeft' < StepsLeft /\ main' = main
<1>1. /\ proc = "dispatch" /\ proc' = proc /\ drained' = drained
      /\ job[w] = None /\ main' = main
  BY DEF Dispatch, Running, mainVars
<1>2. PICK p \in set : set' = set \ {p} /\ job' = [job EXCEPT ![w] = p]
  BY DEF Dispatch
<1>3. p \in Paths
  BY <1>2 DEF TypeOK
<1>4. Cardinality(Busy') = Cardinality(Busy) + 1
  BY <1>1, <1>2, <1>3, BusyStart
<1>5. IsFiniteSet(set) /\ Cardinality(set) \in Nat /\ Cardinality(Busy) \in Nat
      /\ DrainLeft \in Nat
  BY LeftTypes
<1>6. Cardinality(set') = Cardinality(set) - 1
  BY <1>2, <1>5, FS_RemoveElement
<1>7. DrainLeft' = DrainLeft /\ (Alive <=> Alive')
  BY <1>1 DEF DrainLeft, Alive
<1>8. /\ ProcLeft = DrainLeft + 2 + 2 * Cardinality(set)
      /\ ProcLeft' = DrainLeft + 2 + 2 * Cardinality(set')
  BY <1>1, <1>7 DEF ProcLeft
<1>9. ProcLeft \in Nat /\ ProcLeft' = ProcLeft - 2
  BY <1>5, <1>6, <1>8
<1> QED
  BY <1>1, <1>4, <1>5, <1>7, <1>9 DEF StepsLeft

\* Each step of the processor uses up work.
LEMMA ProcessStep ==
  ASSUME IsFiniteSet(Paths), TypeOK, TypeOK', Process
  PROVE  StepsLeft' < StepsLeft /\ main' = main
<1>1. CASE \E w \in Workers : Dispatch(w)
  BY <1>1, DispatchStep
<1>2. CASE \/ StopReceiving \/ EndBatch \/ AbandonBatch \/ Gather \/ GatherOne
           \/ GatheredAll \/ AbandonSet \/ NextBatch \/ Drain \/ Drained
  <2>1. /\ ProcLeft' < ProcLeft /\ ProcLeft' \in Nat /\ ProcLeft \in Nat
        /\ Busy' = Busy /\ main' = main
    BY <1>2, ProcStep
  <2>2. Cardinality(Busy') = Cardinality(Busy) /\ Cardinality(Busy) \in Nat
        /\ (Alive <=> Alive')
    BY <2>1, BusyNat DEF Alive
  <2> QED
    BY <2>1, <2>2 DEF StepsLeft
<1> QED
  BY <1>1, <1>2 DEF Process

\* The steps that leave the processor alone; a job that ends, and the end
\* of main, use up work as well.
LEMMA OthersStep ==
  ASSUME IsFiniteSet(Paths), TypeOK, TypeOK',
         \/ Interrupted \/ Exit \/ ReadEnd \/ Terminate \/ HangUp
         \/ \E p \in Paths : ReadPath(p)
         \/ \E w \in Workers : FinishJob(w)
  PROVE  /\ StepsLeft' <= StepsLeft
         /\ InputIsOver => InputIsOver'
         /\ InputIsOver /\ UNCHANGED cancelled => StepsLeft' < StepsLeft
<1> DEFINE B == Cardinality(Busy)
           C == Cardinality(Busy')
<1>1. StepsLeft \in Nat /\ ProcLeft \in Nat /\ B \in Nat
  BY StepsLeftType, BusyNat
<1>2. procVars' = procVars => ProcLeft' = ProcLeft
  BY DEF procVars, ProcLeft, DrainLeft
<1>3. job' = job => C = B
  BY DEF Busy
<1> HIDE DEF B, C
<1>4. StepsLeft = ProcLeft + B + (IF Alive THEN 1 ELSE 0)
      /\ StepsLeft' = ProcLeft' + C + (IF Alive' THEN 1 ELSE 0)
  BY DEF StepsLeft, B, C
<1>5. CASE Interrupted \/ ReadEnd \/ \E p \in Paths : ReadPath(p)
  <2>1. /\ procVars' = procVars /\ job' = job /\ ~ InputIsOver
        /\ Alive /\ Alive'
    BY <1>5 DEF Interrupted, ReadEnd, ReadPath, jobVars, InputIsOver, Alive
  <2> QED
    BY <1>1, <1>2, <1>3, <1>4, <2>1
<1>6. CASE Terminate
  <2>1. procVars' = procVars /\ job' = job /\ main' = main
        /\ cancelled' # cancelled
    BY <1>6 DEF Terminate, jobVars, mainVars
  <2>2. (InputIsOver => InputIsOver') /\ (Alive <=> Alive')
    BY <2>1 DEF InputIsOver, Alive
  <2> QED
    BY <1>1, <1>2, <1>3, <1>4, <2>1, <2>2
<1>7. CASE Exit
  <2>1. procVars' = procVars /\ job' = job /\ main' = "exited" /\ Alive
    BY <1>7 DEF Exit, jobVars, Alive
  <2>2. InputIsOver' /\ ~ Alive'
    BY <2>1 DEF InputIsOver, Alive
  <2> QED
    BY <1>1, <1>2, <1>3, <1>4, <2>1, <2>2
<1>8. CASE HangUp
  <2>1. /\ procVars' = procVars /\ main' = "killed" /\ Alive
        /\ job' = [w \in Workers |-> None]
    BY <1>8 DEF HangUp
  <2>2. Busy' = {}
    BY <2>1 DEF Busy
  <2>3. C = 0
    BY <2>2, FS_EmptySet DEF C
  <2>4. InputIsOver' /\ ~ Alive'
    BY <2>1 DEF InputIsOver, Alive
  <2> QED
    BY <1>1, <1>2, <1>4, <2>1, <2>3, <2>4
<1>9. CASE \E w \in Workers : FinishJob(w)
  <2>1. PICK w \in Workers : FinishJob(w)
    BY <1>9
  <2>2. /\ procVars' = procVars /\ main' = main /\ job[w] # None
        /\ job' = [job EXCEPT ![w] = None]
    BY <2>1 DEF FinishJob, mainVars
  <2>3. C = B - 1
    BY <2>2, BusyFinish DEF B, C
  <2>4. (InputIsOver => InputIsOver') /\ (Alive <=> Alive')
    BY <2>2 DEF InputIsOver, Alive
  <2> QED
    BY <1>1, <1>2, <1>4, <2>2, <2>3, <2>4
<1> QED
  BY <1>5, <1>6, <1>7, <1>8, <1>9

\* Only a store path that is handed over adds work.  Once runUpload asks for
\* no more input (upload.go:121-177), nobody hands one over, and every step
\* but the first signal uses up some of what is left of processUploads and
\* its jobs: a process that is never stuck (NeverStuck) ends.
THEOREM PipelineWorkIsBounded ==
  ASSUME IsFiniteSet(Paths)
  PROVE  Spec => WorkIsUsedUp
<1> DEFINE Used ==
      /\ ~ HandOver => StepsLeft' \in 0..StepsLeft
      /\ InputIsOver => InputIsOver'
      /\ InputIsOver /\ UNCHANGED cancelled => StepsLeft' < StepsLeft
      /\ Process => StepsLeft' < StepsLeft
<1>1. ASSUME TypeOK, TypeOK', Next PROVE Used
  <2>0. StepsLeft \in Nat /\ StepsLeft' \in Nat
    <3>1. (IsFiniteSet(Paths))'
      OBVIOUS
    <3>2. (StepsLeft \in Nat)'
      BY <1>1, <3>1, StepsLeftType, PTL
    <3> QED
      BY <1>1, <3>2, StepsLeftType
  <2>1. CASE Process
    <3>1. StepsLeft' < StepsLeft /\ main' = main
      BY <1>1, <2>1, ProcessStep
    <3>2. InputIsOver => InputIsOver'
      BY <3>1 DEF InputIsOver
    <3>3. StepsLeft' \in 0..StepsLeft
      BY <2>0, <3>1
    <3> QED
      BY <3>1, <3>2, <3>3
  <2>2. CASE HandOver /\ ~ Process
    <3>1. ~ InputIsOver
      BY <2>2 DEF HandOver, InputIsOver
    <3> QED
      BY <2>2, <3>1
  <2>3. CASE ~ Process /\ ~ HandOver
    <3>1. /\ StepsLeft' <= StepsLeft
          /\ InputIsOver => InputIsOver'
          /\ InputIsOver /\ UNCHANGED cancelled => StepsLeft' < StepsLeft
      BY <1>1, <2>3, OthersStep DEF Next, Main, Environment
    <3>2. StepsLeft' \in 0..StepsLeft
      BY <2>0, <3>1
    <3> QED
      BY <2>3, <3>1, <3>2
  <2> QED
    BY <2>1, <2>2, <2>3
<1>2. IInv => TypeOK
  BY DEF IInv
<1>3. (IInv)' => TypeOK'
  BY DEF IInv
<1>4. IInv /\ (IInv)' /\ [Next]_vars => [Used]_vars
  BY <1>1, <1>2, <1>3
<1>5. [][Used]_vars => WorkIsUsedUp
  BY DEF WorkIsUsedUp
<1> QED
  BY <1>4, <1>5, Invariance, PTL DEF Spec
=============================================================================
