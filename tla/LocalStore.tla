----------------------------- MODULE LocalStore -----------------------------
(***************************************************************************)
(* internal/nixstore: a Nix store, on this machine (Local) or another one  *)
(* (SSH), as serve reads it.  A call reads the store directory, looks the  *)
(* digest up among the names, and asks the Nix CLI about the path found.   *)
(* Meanwhile Nix builds objects and collects others.                       *)
(*                                                                         *)
(* Nix keeps files of its own in the store directory, whose names are that *)
(* of an object and a suffix, like ".lock".  To StoreDirectory.Object they *)
(* are names like any other, and their digest is that of the object.       *)
(***************************************************************************)
EXTENDS Naturals, FiniteSets

CONSTANTS
  Objects,      \* store objects, by digest
  Derivations,  \* those whose name ends in ".drv"
  Nars,         \* contents
  None,         \* not registered; no outcome yet
  Clients,      \* callers, each with one call at a time
  Remote,       \* those of them that use SSH
  Faulty,       \* whether reading the directory and running nix may fail
  MaxBuilds,    \* bound: objects registered
  MaxCalls      \* bound: calls

ASSUME StoreAssumption ==
  /\ Derivations \subseteq Objects /\ Remote \subseteq Clients
  /\ None \notin Nars
  /\ Faulty \in BOOLEAN
  /\ MaxBuilds \in Nat /\ MaxCalls \in Nat

VARIABLES
  registered,  \* Nix's database: the content of each valid object, or None
  entries,     \* names in the store directory
  builds,      \* how many objects have been registered
  calls,       \* how many calls have begun
  pc, kind,    \* where each client is, in NARInfo, BatchNARInfo or List
  query,       \* digests asked for
  read,        \* names read from the directory
  found,       \* names looked up
  infos,       \* results of nix path-info that have a hash
  outcome,     \* how the call has ended: "ok", ErrNotFound or another error
  absent,      \* history: objects not valid at some time of the call
  was,         \* history: contents registered at some time of the call
  gone,        \* history: names not in the directory at some time of the call
  unread       \* history: clients whose directory could not be read

nix == <<registered, entries, builds>>
progress == <<calls, kind, query>>
history == <<absent, was>>
vars ==
  <<nix, progress, pc, read, found, infos, outcome, history, gone, unread>>

Names == [of : Objects, temp : BOOLEAN]
Plain(o) == [of |-> o, temp |-> FALSE]
Lock(o) == [of |-> o, temp |-> TRUE]
Infos == [of : Objects, nar : Nars]

Valid(o) == registered[o] # None
\* "x.drv.lock" is not the name of a derivation.
IsDerivation(n) == n.of \in Derivations /\ ~n.temp

Calling == {"reading", "outputs", "derivations"}
\* Local.NARInfo stops at the first match; the others read all names and sort.
Scans(c) == kind[c] = "info" /\ c \notin Remote

Init ==
  /\ registered \in [Objects -> Nars \cup {None}]
  /\ entries = {Plain(o) : o \in {x \in Objects : Valid(x)}}
  /\ builds = 0 /\ calls = 0
  /\ pc = [c \in Clients |-> "idle"]
  /\ kind = [c \in Clients |-> "list"]
  /\ query = [c \in Clients |-> {}]
  /\ read = [c \in Clients |-> {}]
  /\ found = [c \in Clients |-> {}]
  /\ infos = [c \in Clients |-> {}]
  /\ outcome = [c \in Clients |-> None]
  /\ absent = [c \in Clients |-> {}]
  /\ was = [c \in Clients |-> {}]
  /\ gone = [c \in Clients |-> {}]
  /\ unread = {}

-----------------------------------------------------------------------------
(* Nix.  Whoever builds, substitutes or checks an object takes its lock,   *)
(* whether or not it turns out to be there already.                        *)

\* What all calls in progress remember of a step of Nix.
Remember(o) ==
  /\ absent' = [c \in Clients |->
       IF pc[c] \in Calling /\ registered'[o] = None
         THEN absent[c] \cup {o} ELSE absent[c]]
  /\ was' = [c \in Clients |->
       IF pc[c] \in Calling /\ registered'[o] # None
         THEN was[c] \cup {[of |-> o, nar |-> registered'[o]]} ELSE was[c]]
  /\ gone' = [c \in Clients |->
       IF pc[c] = "reading" THEN gone[c] \cup (entries \ entries') ELSE gone[c]]
  /\ UNCHANGED <<progress, pc, read, found, infos, outcome, unread>>

TakeLock(o) ==
  /\ Lock(o) \notin entries
  /\ entries' = entries \cup {Lock(o)}
  /\ UNCHANGED <<registered, builds>>
  /\ Remember(o)

ReleaseLock(o) ==
  /\ Lock(o) \in entries
  /\ entries' = entries \ {Lock(o)}
  /\ UNCHANGED <<registered, builds>>
  /\ Remember(o)

\* The object is in the directory before it is valid.
Unpack(o) ==
  /\ Lock(o) \in entries /\ Plain(o) \notin entries
  /\ entries' = entries \cup {Plain(o)}
  /\ UNCHANGED <<registered, builds>>
  /\ Remember(o)

Register(o) ==
  /\ Lock(o) \in entries /\ Plain(o) \in entries /\ ~Valid(o)
  /\ builds < MaxBuilds
  /\ builds' = builds + 1
  /\ \E n \in Nars : registered' = [registered EXCEPT ![o] = n]
  /\ UNCHANGED entries
  /\ Remember(o)

\* The garbage collector: first the database, then the directory.
Invalidate(o) ==
  /\ Valid(o)
  /\ registered' = [registered EXCEPT ![o] = None]
  /\ UNCHANGED <<entries, builds>>
  /\ Remember(o)

Remove(o) ==
  /\ ~Valid(o) /\ Plain(o) \in entries
  /\ entries' = entries \ {Plain(o)}
  /\ UNCHANGED <<registered, builds>>
  /\ Remember(o)

NixStep(o) ==
  \/ TakeLock(o) \/ ReleaseLock(o) \/ Unpack(o) \/ Register(o)
  \/ Invalidate(o) \/ Remove(o)

-----------------------------------------------------------------------------
(* The calls.                                                              *)

Begin(c, k, q) ==
  /\ pc[c] \notin Calling
  /\ calls < MaxCalls
  /\ calls' = calls + 1
  /\ pc' = [pc EXCEPT ![c] = "reading"]
  /\ kind' = [kind EXCEPT ![c] = k]
  /\ query' = [query EXCEPT ![c] = q]
  /\ read' = [read EXCEPT ![c] = {}]
  /\ found' = [found EXCEPT ![c] = {}]
  /\ infos' = [infos EXCEPT ![c] = {}]
  /\ outcome' = [outcome EXCEPT ![c] = None]
  /\ absent' = [absent EXCEPT ![c] = {o \in Objects : ~Valid(o)}]
  /\ was' = [was EXCEPT ![c] =
       {[of |-> o, nar |-> registered[o]] : o \in {x \in Objects : Valid(x)}}]
  /\ gone' = [gone EXCEPT ![c] = Names \ entries]
  /\ unread' = unread \ {c}
  /\ UNCHANGED nix

List(c) == Begin(c, "list", {})
NARInfo(c) == \E o \in Objects : Begin(c, "info", {o})
BatchNARInfo(c) ==
  \E q \in SUBSET Objects : q # {} /\ Begin(c, "batch", q)

\* The names read are not needed any more.
Forget(c) ==
  /\ read' = [read EXCEPT ![c] = {}]
  /\ gone' = [gone EXCEPT ![c] = {}]

Return(c, how, what) ==
  /\ pc' = [pc EXCEPT ![c] = "done"]
  /\ outcome' = [outcome EXCEPT ![c] = how]
  /\ infos' = [infos EXCEPT ![c] = what]
  /\ found' = [found EXCEPT ![c] = {}]
  /\ UNCHANGED <<nix, progress, history>>

\* The system returns some more names, in an order of its own.
ReadSome(c) ==
  /\ pc[c] = "reading"
  /\ \E some \in SUBSET (entries \ read[c]) :
       LET matches == {n \in some : n.of \in query[c]} IN
       /\ some # {}
       /\ IF Scans(c) /\ matches # {}
            THEN /\ \E n \in matches : found' = [found EXCEPT ![c] = {n}]
                 /\ pc' = [pc EXCEPT ![c] = "outputs"]
                 /\ Forget(c)
            ELSE /\ read' = [read EXCEPT ![c] = @ \cup some]
                 /\ UNCHANGED <<found, pc, gone>>
  /\ UNCHANGED <<nix, progress, history, infos, outcome, unread>>

\* Names that have been there all the time have been read by then.
AtEnd(c) == entries \ gone[c] \subseteq read[c]

\* Mutant: the last name of the range of entries.
LookUpLast(names, q) ==
  {n \in names : n.of \in q /\ (~n.temp => Lock(n.of) \notin names)}

\* queryPathFromHashPart among sorted names: a name before its extensions.
LookUp(names, q) ==
  {n \in names : n.of \in q /\ (n.temp => Plain(n.of) \notin names)}

ListEnds(c) ==
  /\ pc[c] = "reading" /\ kind[c] = "list" /\ AtEnd(c)
  /\ Return(c, "ok", {})
  /\ UNCHANGED <<read, gone, unread>>

\* Mutant: one portion of names is all that is looked at.
ScanEndsEarly(c) ==
  /\ pc[c] = "reading" /\ Scans(c) /\ read[c] # {}
  /\ Return(c, "ErrNotFound", {})
  /\ Forget(c)
  /\ UNCHANGED unread

ScanEnds(c) ==
  /\ pc[c] = "reading" /\ Scans(c) /\ AtEnd(c)
  /\ Return(c, "ErrNotFound", {})
  /\ Forget(c)
  /\ UNCHANGED unread

ReadAll(c) ==
  /\ pc[c] = "reading" /\ kind[c] # "list" /\ ~Scans(c) /\ AtEnd(c)
  /\ found' = [found EXCEPT ![c] = LookUp(read[c], query[c])]
  /\ pc' = [pc EXCEPT ![c] = "outputs"]
  /\ Forget(c)
  /\ UNCHANGED <<nix, progress, history, infos, outcome, unread>>

\* Local.NARInfo calls every failure of the lookup ErrNotFound.
ReadFails(c) ==
  /\ Faulty /\ pc[c] = "reading"
  /\ Return(c, IF Scans(c) THEN "ErrNotFound" ELSE "error", {})
  /\ Forget(c)
  /\ unread' = unread \cup {c}

\* Outputs and derivations are asked about separately, and not at all if
\* there are none.
Asked(c) == {n \in found[c] : IsDerivation(n) <=> pc[c] = "derivations"}

\* Mutant: the check for a zero hash is missing.
AnswerWithNulls(names) ==
  {[of |-> n.of, nar |-> registered[n.of]] : n \in names}

\* Of what is not valid, nix prints null or no hash, which is left out.
Answer(names) ==
  {[of |-> n.of, nar |-> registered[n.of]] :
     n \in {x \in names : ~x.temp /\ Valid(x.of)}}

Outcome(c, what) ==
  IF kind[c] = "info" /\ what = {} THEN "ErrNotFound" ELSE "ok"

PathInfo(c) ==
  LET what == infos[c] \cup Answer(Asked(c)) IN
  \/ /\ pc[c] = "outputs"
     /\ infos' = [infos EXCEPT ![c] = what]
     /\ pc' = [pc EXCEPT ![c] = "derivations"]
     /\ UNCHANGED <<nix, progress, history, read, gone, found, outcome, unread>>
  \/ /\ pc[c] = "derivations"
     /\ Return(c, Outcome(c, what), what)
     /\ UNCHANGED <<read, gone, unread>>

\* nix fails for reasons of its own, or for a path that is not valid.
PathInfoFails(c) ==
  /\ pc[c] \in {"outputs", "derivations"}
  /\ Asked(c) # {}
  /\ Faulty \/ \E n \in Asked(c) : n.temp \/ ~Valid(n.of)
  /\ Return(c, "error", {})
  /\ UNCHANGED <<read, gone, unread>>

Step(c) ==
  \/ List(c) \/ NARInfo(c) \/ BatchNARInfo(c)
  \/ ReadSome(c) \/ ListEnds(c) \/ ScanEnds(c) \/ ReadAll(c) \/ ReadFails(c)
  \/ PathInfo(c) \/ PathInfoFails(c)

Next == (\E o \in Objects : NixStep(o)) \/ (\E c \in Clients : Step(c))
Spec == Init /\ [][Next]_vars

-----------------------------------------------------------------------------
\* Types of all variables, and that a valid object is in the directory.
TypeOK ==
  /\ registered \in [Objects -> Nars \cup {None}]
  /\ entries \in SUBSET Names
  /\ \A o \in Objects : Valid(o) => Plain(o) \in entries
  /\ builds \in Nat /\ calls \in Nat
  /\ pc \in [Clients -> Calling \cup {"idle", "done"}]
  /\ kind \in [Clients -> {"info", "batch", "list"}]
  /\ query \in [Clients -> SUBSET Objects]
  /\ read \in [Clients -> SUBSET Names]
  /\ found \in [Clients -> SUBSET Names]
  /\ infos \in [Clients -> SUBSET Infos]
  /\ outcome \in [Clients -> {None, "ok", "ErrNotFound", "error"}]
  /\ absent \in [Clients -> SUBSET Objects]
  /\ was \in [Clients -> SUBSET Infos]
  /\ gone \in [Clients -> SUBSET Names]
  /\ unread \in SUBSET Clients

\* What is said of an object was registered at some time of the call: half-
\* built objects, lock files and what has been collected are no results
\* (the checks of NARHash.IsZero in local.go), although the directory was
\* read at another time than the database was asked.
AnswersWereTrue == \A c \in Clients : infos[c] \subseteq was[c]

\* A call that reports no failure has what was valid all the time.
FindsKept(c) ==
  LET results == IF kind[c] = "list" THEN read[c] ELSE infos[c]
      asked == IF kind[c] = "list" THEN Objects ELSE query[c] IN
  pc[c] = "done" /\ outcome[c] \in {"ok", "ErrNotFound"}
    => asked \ absent[c] \subseteq {r.of : r \in results}

\* List, both BatchNARInfo, and SSH.NARInfo, which is a BatchNARInfo of one,
\* miss nothing that was valid during the whole call, whatever else is built,
\* locked or collected meanwhile (sort.Search in queryPathFromHashPart).
BatchFindsKept == \A c \in Clients : ~Scans(c) => FindsKept(c)

\* Local.NARInfo says ErrNotFound only of what was not there, at some time of
\* the call, as nixstore.go:103-104 has it.  The code does not keep this.
NARInfoFindsKept == \A c \in Clients : Scans(c) => FindsKept(c)

\* No object that is valid is locked while a Local.NARInfo looks for it.
NoLockBeside ==
  \A c \in Clients : Scans(c) /\ pc[c] = "reading" =>
    \A o \in query[c] : Valid(o) => Lock(o) \notin entries
\* No Local.NARInfo has failed to read the directory.
ScansRead == \A c \in unread : ~Scans(c)

\* The two ways in which Local.NARInfo calls a valid object missing, a file
\* of Nix beside it (local.go:189) and a lookup that failed (local.go:94-97),
\* are the only ones.
NARInfoFindsKeptUnlessLocked ==
  [](NoLockBeside /\ ScansRead) => []NARInfoFindsKept
=============================================================================
