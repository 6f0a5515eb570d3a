-------------------------- MODULE LocalStoreProofs --------------------------
(***************************************************************************)
(* For any number of objects, clients, calls and builds: what a local or   *)
(* remote store says was true during the call, and no call misses what was *)
(* valid all the time, unless Local.NARInfo met a lock or an error.        *)
(***************************************************************************)
EXTENDS LocalStore, TLAPS

\* What a call in progress knows of Nix: the histories are up to date.
CallInv(c) ==
  pc[c] \in Calling =>
    /\ \A o \in Objects \ absent[c] : Valid(o)
    /\ \A o \in Objects :
         Valid(o) => [of |-> o, nar |-> registered[o]] \in was[c]

\* While names are read: those that have always been there are there, among
\* them all valid objects, and a scan has met nothing that it looks for.
ReadInv(c) ==
  /\ pc[c] = "reading" =>
       /\ infos[c] = {}
       /\ Names \ gone[c] \subseteq entries
       /\ \A o \in Objects \ absent[c] : Plain(o) \notin gone[c]
       /\ Scans(c) => \A n \in read[c] : n.of \notin query[c]
  /\ pc[c] \in {"outputs", "derivations"} => kind[c] # "list"
  /\ Scans(c) => \E o \in Objects : query[c] = {o}

CallsInv ==
  /\ TypeOK
  /\ AnswersWereTrue
  /\ \A c \in Clients : CallInv(c) /\ ReadInv(c)

\* After the lookup, the names of what was valid all the time are in hand,
\* and after the question for outputs, so are those outputs.
FoundInv(c) ==
  /\ pc[c] \in {"outputs", "derivations"} =>
       \A o \in query[c] \ absent[c] : Plain(o) \in found[c]
  /\ pc[c] = "derivations" =>
       \A o \in query[c] \ absent[c] :
         IsDerivation(Plain(o)) \/ \E i \in infos[c] : i.of = o
  /\ FindsKept(c)

-----------------------------------------------------------------------------
(* Types.                                                                  *)

LEMMA NameTypes ==
  /\ \A o \in Objects : Plain(o) \in Names /\ Lock(o) \in Names
  /\ \A o \in Objects : \A x \in Objects : Plain(o) = Plain(x) => o = x
  /\ \A o \in Objects : \A x \in Objects : Plain(o) # Lock(x)
  /\ \A o \in Objects : Plain(o).of = o /\ ~ Plain(o).temp
  /\ \A n \in Names : n = Plain(n.of) \/ n = Lock(n.of)
  /\ \A n \in Names : n.of \in Objects /\ n.temp \in BOOLEAN
BY DEF Names, Plain, Lock

\* A step of Nix is one of an object, and calls remember it.
LEMMA NixEffect ==
  ASSUME TypeOK, NEW o \in Objects, NixStep(o)
  PROVE  /\ registered' \in [Objects -> Nars \cup {None}]
         /\ \A x \in Objects \ {o} : registered'[x] = registered[x]
         /\ entries' \in SUBSET Names
         /\ \A x \in Objects : Valid(x)' => Plain(x) \in entries'
         /\ builds' \in Nat
         /\ Remember(o)
<1>1. \A n \in Nars : [registered EXCEPT ![o] = n] \in [Objects -> Nars \cup {None}]
  BY DEF TypeOK
<1>2. [registered EXCEPT ![o] = None] \in [Objects -> Nars \cup {None}]
  BY DEF TypeOK
<1>3. CASE TakeLock(o) \/ Unpack(o)
  <2> QED BY <1>3, NameTypes DEF TypeOK, TakeLock, Unpack, Valid
<1>4. CASE ReleaseLock(o)
  <2> QED BY <1>4, NameTypes DEF TypeOK, ReleaseLock, Valid
<1>5. CASE Register(o)
  <2> QED BY <1>5, <1>1, NameTypes DEF TypeOK, Register, Valid
<1>6. CASE Invalidate(o)
  <2> QED BY <1>6, <1>2, NameTypes DEF TypeOK, Invalidate, Valid
<1>7. CASE Remove(o)
  <2> QED BY <1>7, NameTypes DEF TypeOK, Remove, Valid
<1> QED
  BY <1>3, <1>4, <1>5, <1>6, <1>7 DEF NixStep

LEMMA AnswerTypes ==
  ASSUME TypeOK, NEW c \in Clients
  PROVE  /\ Asked(c) \subseteq found[c] /\ found[c] \subseteq Names
         /\ Answer(Asked(c)) \in SUBSET Infos
         /\ \A i \in Answer(Asked(c)) :
              /\ i.of \in Objects /\ Valid(i.of)
              /\ i = [of |-> i.of, nar |-> registered[i.of]]
<1>1. Asked(c) \subseteq found[c] /\ found[c] \subseteq Names
  BY DEF TypeOK, Asked
<1>2. \A n \in Asked(c) : n.of \in Objects
  BY <1>1, NameTypes
<1>3. \A o \in Objects : Valid(o) => registered[o] \in Nars
  BY DEF TypeOK, Valid
<1> QED
  BY <1>1, <1>2, <1>3 DEF Answer, Infos

LEMMA TypesKept == TypeOK /\ [Next]_vars => TypeOK'
<1> SUFFICES ASSUME TypeOK, [Next]_vars PROVE TypeOK'
  OBVIOUS
<1>1. ASSUME NEW o \in Objects, NixStep(o) PROVE TypeOK'
  <2>1. Remember(o)
    BY <1>1, NixEffect
  <2>2. UNCHANGED <<progress, pc, read, found, infos, outcome, unread>>
    BY <2>1 DEF Remember
  <2>3. absent' \in [Clients -> SUBSET Objects]
    BY <2>1 DEF TypeOK, Remember
  <2>4. gone' \in [Clients -> SUBSET Names]
    BY <2>1 DEF TypeOK, Remember
  <2>5. was' \in [Clients -> SUBSET Infos]
    <3>1. registered'[o] # None => [of |-> o, nar |-> registered'[o]] \in Infos
      BY <1>1, NixEffect DEF Infos
    <3> QED BY <2>1, <3>1 DEF TypeOK, Remember
  <2> QED
    BY <1>1, <2>2, <2>3, <2>4, <2>5, NixEffect DEF TypeOK, progress, Valid
<1>2. ASSUME NEW c \in Clients, NEW k \in {"info", "batch", "list"},
             NEW q \in SUBSET Objects, Begin(c, k, q)
      PROVE  TypeOK'
  <2>1. {[of |-> o, nar |-> registered[o]] : o \in {x \in Objects : Valid(x)}}
          \in SUBSET Infos
    BY DEF TypeOK, Infos, Valid
  <2> QED
    BY <1>2, <2>1 DEF TypeOK, Begin, nix, Calling, Valid
<1>3. ASSUME NEW c \in Clients, NEW how \in {"ok", "ErrNotFound", "error"},
             NEW what \in SUBSET Infos, Return(c, how, what),
             \/ Forget(c) /\ unread' \in SUBSET Clients
             \/ UNCHANGED <<read, gone, unread>>
      PROVE  TypeOK'
  BY <1>3 DEF TypeOK, Return, Forget, nix, progress, history, Valid
<1>4. ASSUME NEW c \in Clients, ReadSome(c) PROVE TypeOK'
  <2>1. PICK some \in SUBSET (entries \ read[c]) :
          LET matches == {n \in some : n.of \in query[c]} IN
          IF Scans(c) /\ matches # {}
            THEN /\ \E n \in matches : found' = [found EXCEPT ![c] = {n}]
                 /\ pc' = [pc EXCEPT ![c] = "outputs"]
                 /\ Forget(c)
            ELSE /\ read' = [read EXCEPT ![c] = @ \cup some]
                 /\ UNCHANGED <<found, pc, gone>>
    BY <1>4 DEF ReadSome
  <2>2. some \subseteq Names
    BY DEF TypeOK
  <2>3. UNCHANGED <<nix, progress, history, infos, outcome, unread>>
    BY <1>4 DEF ReadSome
  <2> QED
    BY <2>1, <2>2, <2>3 DEF TypeOK, Forget, nix, progress, history, Valid, Calling
<1>5. ASSUME NEW c \in Clients, ReadAll(c) PROVE TypeOK'
  <2>1. LookUp(read[c], query[c]) \subseteq Names
    BY DEF TypeOK, LookUp
  <2> QED
    BY <1>5, <2>1 DEF TypeOK, ReadAll, Forget, nix, progress, history, Valid, Calling
<1>6. ASSUME NEW c \in Clients, PathInfo(c) PROVE TypeOK'
  <2>1. infos[c] \cup Answer(Asked(c)) \in SUBSET Infos
    BY AnswerTypes DEF TypeOK
  <2>2. CASE pc[c] = "outputs"
    BY <1>6, <2>1, <2>2
      DEF PathInfo, TypeOK, nix, progress, history, Valid, Calling
  <2>3. CASE pc[c] = "derivations"
    BY <1>3, <1>6, <2>1, <2>3 DEF PathInfo, Outcome
  <2> QED
    BY <1>6, <2>2, <2>3 DEF PathInfo
<1>8. ASSUME NEW c \in Clients, Step(c) PROVE TypeOK'
  <2>1. CASE List(c)
    BY <1>2, <2>1 DEF List
  <2>2. CASE NARInfo(c)
    BY <1>2, <2>2 DEF NARInfo
  <2>3. CASE BatchNARInfo(c)
    BY <1>2, <2>3 DEF BatchNARInfo
  <2>4. CASE ListEnds(c) \/ ScanEnds(c) \/ PathInfoFails(c)
    BY <1>3, <2>4 DEF ListEnds, ScanEnds, PathInfoFails, TypeOK
  <2>5. CASE ReadFails(c)
    BY <1>3, <2>5 DEF ReadFails, TypeOK
  <2> QED
    BY <1>4, <1>5, <1>6, <1>8, <2>1, <2>2, <2>3, <2>4, <2>5 DEF Step
<1>9. CASE UNCHANGED vars
  BY <1>9 DEF TypeOK, vars, nix, progress, history, Valid
<1> QED
  BY <1>1, <1>8, <1>9 DEF Next

LEMMA TypesInit == Init => TypeOK
BY NameTypes, StoreAssumption DEF Init, TypeOK, Infos, Valid

\* All variables keep their types, and a valid object is in the directory.
THEOREM StoreTypeCorrect == Spec => []TypeOK
BY TypesInit, TypesKept, PTL DEF Spec

-----------------------------------------------------------------------------
(* What is said was true.                                                  *)

\* Nobody but the caller changes what it does and holds.
LEMMA OtherCalls ==
  ASSUME TypeOK, NEW c \in Clients, NEW d \in Clients, d # c, Step(d)
  PROVE  /\ UNCHANGED <<registered, entries>>
         /\ pc'[c] = pc[c] /\ kind'[c] = kind[c] /\ query'[c] = query[c]
         /\ read'[c] = read[c] /\ found'[c] = found[c]
         /\ infos'[c] = infos[c] /\ outcome'[c] = outcome[c]
         /\ absent'[c] = absent[c] /\ was'[c] = was[c] /\ gone'[c] = gone[c]
<1>1. ASSUME NEW k, NEW q, Begin(d, k, q)
      PROVE  /\ UNCHANGED <<registered, entries>>
             /\ pc'[c] = pc[c] /\ kind'[c] = kind[c] /\ query'[c] = query[c]
             /\ read'[c] = read[c] /\ found'[c] = found[c]
             /\ infos'[c] = infos[c] /\ outcome'[c] = outcome[c]
             /\ absent'[c] = absent[c] /\ was'[c] = was[c] /\ gone'[c] = gone[c]
  BY <1>1 DEF TypeOK, Begin, nix
<1>2. CASE List(d) \/ NARInfo(d) \/ BatchNARInfo(d)
  BY <1>1, <1>2 DEF List, NARInfo, BatchNARInfo
<1>3. CASE ReadSome(d) \/ ReadAll(d)
  BY <1>3 DEF TypeOK, ReadSome, ReadAll, Forget, nix, progress, history
<1>4. CASE ListEnds(d) \/ ScanEnds(d) \/ ReadFails(d) \/ PathInfoFails(d)
  BY <1>4 DEF TypeOK, ListEnds, ScanEnds, ReadFails, PathInfoFails, Return,
              Forget, nix, progress, history
<1>5. CASE PathInfo(d)
  BY <1>5 DEF TypeOK, PathInfo, Return, nix, progress, history
<1> QED
  BY <1>2, <1>3, <1>4, <1>5 DEF Step

LEMMA CallsKept == CallsInv /\ [Next]_vars => CallsInv'
<1> SUFFICES ASSUME CallsInv, [Next]_vars, NEW c \in Clients
             PROVE  infos'[c] \subseteq was'[c] /\ CallInv(c)' /\ ReadInv(c)'
  BY TypesKept DEF CallsInv, AnswersWereTrue
<1> USE DEF Scans, Valid
<1>t. TypeOK /\ TypeOK' /\ infos[c] \subseteq was[c] /\ CallInv(c) /\ ReadInv(c)
  BY TypesKept DEF CallsInv, AnswersWereTrue
<1>1. ASSUME NEW o \in Objects, NixStep(o)
      PROVE  infos'[c] \subseteq was'[c] /\ CallInv(c)' /\ ReadInv(c)'
  <2>1. /\ Remember(o)
        /\ \A x \in Objects \ {o} : registered'[x] = registered[x]
        /\ \A x \in Objects : Valid(x)' => Plain(x) \in entries'
    BY <1>1, <1>t, NixEffect
  <2>2. /\ pc'[c] = pc[c] /\ kind'[c] = kind[c] /\ query'[c] = query[c]
        /\ read'[c] = read[c] /\ infos'[c] = infos[c]
        /\ was[c] \subseteq was'[c]
    BY <2>1, <1>t DEF Remember, progress, TypeOK
  <2>3. CallInv(c)'
    BY <2>1, <2>2, <1>t DEF CallInv, Remember, TypeOK
  <2>4. ReadInv(c)'
    <3>1. ASSUME pc[c] = "reading"
          PROVE  /\ gone'[c] = gone[c] \cup (entries \ entries')
                 /\ Names \ gone'[c] \subseteq entries'
                 /\ \A x \in Objects \ absent'[c] : Plain(x) \notin gone'[c]
      <4>1. gone'[c] = gone[c] \cup (entries \ entries')
        BY <2>1, <3>1, <1>t DEF Remember, TypeOK
      <4>2. ASSUME NEW x \in Objects \ absent'[c] PROVE Plain(x) \notin gone'[c]
        <5>1. registered'[x] # None
          BY <2>3, <2>2, <3>1, <4>2 DEF CallInv, Calling
        <5>2. Plain(x) \in entries'
          BY <2>1, <5>1
        <5>3. absent[c] \subseteq absent'[c]
          BY <2>1, <1>t DEF Remember, TypeOK
        <5> QED
          BY <4>1, <5>2, <5>3, <3>1, <1>t DEF ReadInv
      <4> QED
        BY <4>1, <4>2, <3>1, <1>t DEF ReadInv
    <3> QED
      BY <3>1, <2>2, <1>t DEF ReadInv
  <2> QED
    BY <2>2, <2>3, <2>4, <1>t
<1>2. ASSUME NEW k \in {"info", "batch", "list"}, NEW q \in SUBSET Objects,
             Begin(c, k, q), k = "info" => \E o \in Objects : q = {o}
      PROVE  infos'[c] \subseteq was'[c] /\ CallInv(c)' /\ ReadInv(c)'
  <2>1. /\ UNCHANGED <<registered, entries>>
        /\ pc'[c] = "reading" /\ kind'[c] = k /\ query'[c] = q
        /\ read'[c] = {} /\ infos'[c] = {}
        /\ absent'[c] = {o \in Objects : ~Valid(o)}
        /\ was'[c] = {[of |-> o, nar |-> registered[o]] :
                        o \in {x \in Objects : Valid(x)}}
        /\ gone'[c] = Names \ entries
    BY <1>2, <1>t DEF Begin, TypeOK, nix
  <2>2. CallInv(c)'
    BY <2>1 DEF CallInv
  <2>3. ReadInv(c)'
    BY <2>1, <1>2, <1>t DEF ReadInv, TypeOK
  <2> QED
    BY <2>1, <2>2, <2>3
<1>3. CASE List(c) \/ NARInfo(c) \/ BatchNARInfo(c)
  <2>1. CASE List(c)
    BY <1>2, <2>1 DEF List
  <2>2. CASE NARInfo(c)
    <3>1. PICK o \in Objects : Begin(c, "info", {o})
      BY <2>2 DEF NARInfo
    <3> QED BY <1>2, <3>1
  <2>3. CASE BatchNARInfo(c)
    <3>1. PICK q \in SUBSET Objects : Begin(c, "batch", q)
      BY <2>3 DEF BatchNARInfo
    <3> QED BY <1>2, <3>1
  <2> QED
    BY <1>3, <2>1, <2>2, <2>3
<1>4. CASE ReadSome(c)
  <2>1. /\ pc[c] = "reading" /\ UNCHANGED <<nix, progress, history, infos>>
        /\ \/ pc'[c] = "outputs" /\ Scans(c)
           \/ /\ pc' = pc /\ gone' = gone
              /\ \E some \in SUBSET (entries \ read[c]) :
                   /\ read'[c] = read[c] \cup some
                   /\ Scans(c) => \A n \in some : n.of \notin query[c]
    BY <1>4, <1>t, ZenonT(30) DEF ReadSome, TypeOK
  <2> QED
    BY <2>1, <1>t DEF CallInv, ReadInv, Calling, nix, progress, history
<1>5. CASE ReadAll(c)
  BY <1>5, <1>t
    DEF ReadAll, TypeOK, CallInv, ReadInv, Calling, nix, progress, history
<1>6. ASSUME NEW how, NEW what \in SUBSET was[c], Return(c, how, what)
      PROVE  infos'[c] \subseteq was'[c] /\ CallInv(c)' /\ ReadInv(c)'
  BY <1>6, <1>t
    DEF Return, TypeOK, CallInv, ReadInv, Calling, nix, progress, history
<1>7. CASE ListEnds(c) \/ ScanEnds(c) \/ ReadFails(c) \/ PathInfoFails(c)
  BY <1>6, <1>7 DEF ListEnds, ScanEnds, ReadFails, PathInfoFails
<1>8. CASE PathInfo(c)
  <2>1. pc[c] \in {"outputs", "derivations"}
    BY <1>8 DEF PathInfo
  <2>2. infos[c] \cup Answer(Asked(c)) \subseteq was[c]
    BY <2>1, <1>t, AnswerTypes DEF CallInv, Calling
  <2>3. CASE pc[c] = "outputs"
    BY <1>8, <2>2, <2>3, <1>t
      DEF PathInfo, TypeOK, CallInv, ReadInv, Calling, nix, progress, history
  <2> QED
    BY <1>6, <1>8, <2>1, <2>2, <2>3 DEF PathInfo
<1>9. ASSUME NEW d \in Clients, d # c, Step(d)
       PROVE  infos'[c] \subseteq was'[c] /\ CallInv(c)' /\ ReadInv(c)'
  BY <1>9, <1>t, OtherCalls DEF CallInv, ReadInv
<1>10. CASE UNCHANGED vars
  BY <1>10, <1>t DEF CallInv, ReadInv, vars, nix, progress, history
<1> QED
  BY <1>1, <1>3, <1>4, <1>5, <1>7, <1>8, <1>9, <1>10 DEF Next, Step

LEMMA CallsInit == Init => CallsInv
BY TypesInit DEF Init, CallsInv, AnswersWereTrue, CallInv, ReadInv, Calling, Scans

\* Every result of a call was registered, with that content, during the call.
THEOREM AnswersAreTrue == Spec => []AnswersWereTrue
<1>1. CallsInv => AnswersWereTrue
  BY DEF CallsInv
<1> QED
  BY <1>1, CallsInit, CallsKept, PTL DEF Spec

-----------------------------------------------------------------------------
(* What was valid all the time is found.                                   *)

\* Reading to the end meets every object that has been valid all the time.
LEMMA AllRead ==
  ASSUME CallsInv, NEW c \in Clients, pc[c] = "reading", AtEnd(c),
         NEW o \in Objects \ absent[c]
  PROVE  Plain(o) \in read[c]
<1>1. Plain(o) \in Names \ gone[c]
  BY NameTypes DEF CallsInv, ReadInv
<1>2. Plain(o) \in entries
  BY <1>1 DEF CallsInv, ReadInv
<1> QED
  BY <1>1, <1>2 DEF AtEnd

\* A call that is under way goes on as FoundInv says, if it is not a scan
\* that meets a lock or an error.
LEMMA FindingKept ==
  ASSUME CallsInv, [Next]_vars, NEW c \in Clients,
         (kind'[c] = kind[c] /\ FoundInv(c)) \/ pc'[c] = "reading",
         Scans(c) => NoLockBeside /\ ScansRead'
  PROVE  FoundInv(c)'
<1> USE DEF Valid
<1>t. TypeOK /\ CallInv(c) /\ ReadInv(c) /\ CallsInv'
  BY CallsKept DEF CallsInv
<1>r. CASE pc'[c] = "reading"
  BY <1>r DEF FoundInv, FindsKept
<1> SUFFICES ASSUME pc'[c] # "reading", kind'[c] = kind[c], FoundInv(c)
             PROVE  FoundInv(c)'
  BY <1>r
<1>1. ASSUME NEW o \in Objects, NixStep(o) PROVE FoundInv(c)'
  <2>1. Remember(o)
    BY <1>1, <1>t, NixEffect
  <2>2. /\ pc'[c] = pc[c] /\ query'[c] = query[c] /\ found'[c] = found[c]
        /\ read'[c] = read[c] /\ infos'[c] = infos[c]
        /\ outcome'[c] = outcome[c] /\ absent[c] \subseteq absent'[c]
    BY <2>1, <1>t DEF Remember, progress, TypeOK
  <2> QED
    BY <2>2 DEF FoundInv, FindsKept
<1>2. CASE List(c) \/ NARInfo(c) \/ BatchNARInfo(c)
  <2>1. pc'[c] = "reading"
    BY <1>2, <1>t DEF List, NARInfo, BatchNARInfo, Begin, TypeOK
  <2> QED
    BY <2>1
<1>3. CASE ReadSome(c)
  <2>1. /\ pc[c] = "reading" /\ UNCHANGED <<nix, progress, history>>
    BY <1>3 DEF ReadSome
  <2>2. PICK n \in entries : /\ Scans(c) /\ pc' = [pc EXCEPT ![c] = "outputs"]
                            /\ n.of \in query[c]
                            /\ found' = [found EXCEPT ![c] = {n}]
    <3>1. pc' # pc
      BY <2>1
    <3> QED
      BY <1>3, <3>1 DEF ReadSome
  <2>3. n \in Names /\ n.of \in Objects
    BY <2>2, <1>t, NameTypes DEF TypeOK
  <2>4. query[c] = {n.of}
    BY <2>2, <1>t DEF ReadInv
  <2>5. CASE n = Plain(n.of)
    BY <2>1, <2>2, <2>4, <2>5, <1>t DEF FoundInv, FindsKept, progress, TypeOK
  <2>6. CASE n = Lock(n.of)
    <3>1. ~Valid(n.of)
      BY <2>1, <2>2, <2>6, <2>3 DEF NoLockBeside
    <3>2. n.of \in absent[c]
      BY <3>1, <2>1, <2>3, <1>t DEF CallInv, Calling
    <3> QED
      BY <2>1, <2>2, <2>4, <3>2, <1>t
        DEF FoundInv, FindsKept, progress, history, TypeOK
  <2> QED
    BY <2>3, <2>5, <2>6, NameTypes
<1>4. CASE ReadAll(c)
  <2>1. /\ pc'[c] = "outputs" /\ found'[c] = LookUp(read[c], query[c])
        /\ query' = query /\ absent' = absent
        /\ pc[c] = "reading" /\ AtEnd(c)
    BY <1>4, <1>t DEF ReadAll, TypeOK, progress, history
  <2>2. ASSUME NEW o \in query[c] \ absent[c] PROVE Plain(o) \in found'[c]
    <3>1. o \in Objects \ absent[c]
      BY <1>t DEF TypeOK
    <3> QED
      BY <2>1, <2>2, <3>1, AllRead, NameTypes DEF LookUp
  <2> QED
    BY <2>1, <2>2 DEF FoundInv, FindsKept
<1>5. CASE ListEnds(c)
  <2>1. /\ pc'[c] = "done" /\ kind[c] = "list"
        /\ read' = read /\ absent' = absent
        /\ pc[c] = "reading" /\ AtEnd(c)
    BY <1>5, <1>t DEF ListEnds, Return, TypeOK, history
  <2>2. \A o \in Objects \ absent[c] : Plain(o) \in read[c] /\ Plain(o).of = o
    BY <2>1, AllRead, NameTypes
  <2> QED
    BY <2>1, <2>2 DEF FoundInv, FindsKept
<1>6. CASE ScanEnds(c)
  <2>1. /\ pc'[c] = "done" /\ kind[c] # "list" /\ Scans(c)
        /\ query' = query /\ absent' = absent
        /\ pc[c] = "reading" /\ AtEnd(c)
    BY <1>6, <1>t DEF ScanEnds, Return, Scans, TypeOK, progress, history
  <2>2. query[c] \subseteq absent[c]
    <3> SUFFICES ASSUME NEW o \in query[c], o \notin absent[c] PROVE FALSE
      OBVIOUS
    <3>1. o \in Objects \ absent[c]
      BY <1>t DEF TypeOK
    <3>2. Plain(o) \in read[c] /\ Plain(o).of = o
      BY <3>1, <2>1, AllRead, NameTypes
    <3> QED
      BY <3>2, <2>1, <1>t DEF ReadInv
  <2> QED
    BY <2>1, <2>2 DEF FoundInv, FindsKept
<1>7. CASE ReadFails(c)
  <2>1. /\ pc'[c] = "done" /\ (~Scans(c) => outcome'[c] = "error")
        /\ c \in unread'
    BY <1>7, <1>t DEF ReadFails, Return, TypeOK
  <2>2. ~Scans(c)
    <3> SUFFICES ASSUME Scans(c) PROVE FALSE
      OBVIOUS
    <3>1. ScansRead' /\ Scans(c)'
      BY DEF Scans
    <3> QED
      BY <2>1, <3>1 DEF ScansRead
  <2> QED
    BY <2>1, <2>2 DEF FoundInv, FindsKept
<1>8. CASE PathInfo(c)
  <2>1. /\ found[c] \subseteq Names /\ query[c] \subseteq Objects
        /\ query' = query /\ absent' = absent
        /\ infos'[c] = infos[c] \cup Answer(Asked(c))
        /\ pc[c] \in {"outputs", "derivations"} /\ kind[c] # "list"
    BY <1>8, <1>t DEF PathInfo, Return, TypeOK, progress, history, ReadInv
  <2>2. ASSUME NEW o \in query[c] \ absent[c],
               IsDerivation(Plain(o)) <=> pc[c] = "derivations"
        PROVE  \E i \in Answer(Asked(c)) : i.of = o
    <3>1. Valid(o) /\ o \in Objects
      BY <2>1, <1>t DEF CallInv, Calling
    <3>2. Plain(o) \in Asked(c)
      BY <2>1, <2>2 DEF FoundInv, Asked
    <3>3. [of |-> o, nar |-> registered[o]] \in Answer(Asked(c))
      BY <3>1, <3>2, NameTypes DEF Answer
    <3> QED
      BY <3>3
  <2>3. CASE pc[c] = "outputs"
    <3>1. pc'[c] = "derivations" /\ found' = found
      BY <1>8, <2>3, <1>t DEF PathInfo, TypeOK
    <3> QED
      BY <2>1, <2>2, <2>3, <3>1 DEF FoundInv, FindsKept
  <2>4. CASE pc[c] = "derivations"
    <3>1. pc'[c] = "done"
      BY <1>8, <2>4, <1>t DEF PathInfo, Return, TypeOK
    <3>2. \A o \in query[c] \ absent[c] : \E i \in infos'[c] : i.of = o
      BY <2>1, <2>2, <2>4 DEF FoundInv
    <3> QED
      BY <2>1, <3>1, <3>2 DEF FoundInv, FindsKept
  <2> QED
    BY <2>1, <2>3, <2>4
<1>9. CASE PathInfoFails(c)
  BY <1>9, <1>t DEF PathInfoFails, Return, TypeOK, FoundInv, FindsKept
<1>10. ASSUME NEW d \in Clients, d # c, Step(d) PROVE FoundInv(c)'
  BY <1>10, <1>t, OtherCalls DEF FoundInv, FindsKept
<1>11. CASE UNCHANGED vars
  BY <1>11 DEF FoundInv, FindsKept, vars, nix, progress, history
<1> QED
  BY <1>1, <1>2, <1>3, <1>4, <1>5, <1>6, <1>7, <1>8, <1>9, <1>10, <1>11
    DEF Next, Step

\* A call does not change its kind on the way.
LEMMA KindKept ==
  ASSUME CallsInv, [Next]_vars, NEW c \in Clients
  PROVE  kind'[c] = kind[c] \/ pc'[c] = "reading"
<1>t. TypeOK
  BY DEF CallsInv
<1>1. ASSUME NEW o \in Objects, NixStep(o) PROVE kind' = kind
  BY <1>1, <1>t, NixEffect DEF Remember, progress
<1>2. CASE List(c) \/ NARInfo(c) \/ BatchNARInfo(c)
  BY <1>2, <1>t DEF List, NARInfo, BatchNARInfo, Begin, TypeOK
<1>3. CASE \/ ReadSome(c) \/ ListEnds(c) \/ ScanEnds(c) \/ ReadAll(c)
           \/ ReadFails(c) \/ PathInfo(c) \/ PathInfoFails(c)
  BY <1>3 DEF ReadSome, ListEnds, ScanEnds, ReadAll, ReadFails, PathInfo,
              PathInfoFails, Return, progress
<1>4. ASSUME NEW d \in Clients, d # c, Step(d) PROVE kind'[c] = kind[c]
  BY <1>4, <1>t, OtherCalls
<1>5. CASE UNCHANGED vars
  BY <1>5 DEF vars, progress
<1> QED
  BY <1>1, <1>2, <1>3, <1>4, <1>5 DEF Next, Step

LEMMA FindingInit == Init => \A c \in Clients : FoundInv(c)
BY DEF Init, FoundInv, FindsKept

\* List, BatchNARInfo and SSH.NARInfo miss nothing that was valid all the
\* time, whatever Nix does meanwhile.
THEOREM BatchMissesNothing == Spec => []BatchFindsKept
<1> DEFINE BatchInv == \A c \in Clients : ~Scans(c) => FoundInv(c)
<1>1. Init => BatchInv
  BY FindingInit
<1>2. CallsInv /\ BatchInv /\ [Next]_vars => BatchInv'
  <2> SUFFICES ASSUME CallsInv, BatchInv, [Next]_vars,
                      NEW c \in Clients, ~Scans(c)'
               PROVE  FoundInv(c)'
    OBVIOUS
  <2>1. CASE pc'[c] = "reading"
    BY <2>1 DEF FoundInv, FindsKept
  <2>2. CASE kind'[c] = kind[c]
    <3>1. ~Scans(c)
      BY <2>2 DEF Scans
    <3> QED
      BY <2>2, <3>1, FindingKept
  <2> QED
    BY <2>1, <2>2, KindKept
<1>3. BatchInv => BatchFindsKept
  BY DEF FoundInv, BatchFindsKept
<1> QED
  BY <1>1, <1>2, <1>3, CallsInit, CallsKept, PTL DEF Spec

\* Local.NARInfo calls a valid object missing only if it has met a file of
\* Nix beside it, or could not read the directory.
THEOREM OnlyLocksHide == Spec => NARInfoFindsKeptUnlessLocked
<1> DEFINE ScanInv == \A c \in Clients : FoundInv(c)
<1>1. Init => ScanInv
  BY FindingInit
<1>2. /\ CallsInv /\ ScanInv /\ [Next]_vars
      /\ NoLockBeside /\ ScansRead /\ (NoLockBeside /\ ScansRead)'
      => ScanInv'
  BY KindKept, FindingKept
<1>3. ScanInv => NARInfoFindsKept
  BY DEF FoundInv, NARInfoFindsKept
<1> QED
  BY <1>1, <1>2, <1>3, CallsInit, CallsKept, PTL
    DEF Spec, NARInfoFindsKeptUnlessLocked
=============================================================================
