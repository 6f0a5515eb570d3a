----------------------------- MODULE DumpProofs -----------------------------
(***************************************************************************)
(* Proofs about dump, for archives and pipes of any size.  What the info   *)
(* says of the file rests on the order in which things end: xz ends after  *)
(* it has read and written everything, the copying goroutine after xz, and *)
(* dump after both (Ends), while the pieces pass the counters in order     *)
(* (Flow).  At the end, that nobody in it waits in vain or for ever.       *)
(***************************************************************************)
EXTENDS Dump, TLAPS

\* Pieces pass the compressor in order, and xz exits when all have passed.
Flow ==
  /\ xz = "library" => n["filed"] <= n["written"]
  /\ xz # "library" =>
       /\ n["filed"] <= n["emitted"] /\ n["emitted"] <= n["taken"]
       /\ n["taken"] <= n["written"]
  /\ xz = "exited" => n["taken"] = n["written"] /\ n["emitted"] = n["taken"]
  /\ copier = "ended" => n["filed"] = n["emitted"]
  /\ pc \in {"close", "wait", "collect", "receive"}
       \/ result \in {"ok", "listed"} => n["written"] = Size
  /\ pc \in {"collect", "receive"} \/ result \in {"ok", "listed"} =>
       n["filed"] = n["written"]

\* The order in which the compressor's parts end.
Ends ==
  /\ result = "none" <=> pc \notin {"leave", "done"}
  /\ pc \in {"start", "write", "list", "close"} =>
       xz \notin {"draining", "exited", "reaped"}
  /\ pc \in {"start"} => xz \in {"library", "none"}
  /\ pc \in {"wait"} => xz \in {"draining", "exited", "dead"}
  /\ xz \in {"library", "none"} <=> copier = "none"
  /\ xz = "none" => n["written"] = 0
  /\ copier = "ended" => ~ Alive
  /\ xz = "reaped" => copier # "running"
  /\ pc \in {"collect", "receive"} \/ result \in {"ok", "listed"} =>
       xz \in {"library", "reaped"}
  /\ pc \in {"leave", "done"} /\ result # "aborted" =>
       xz \in {"library", "none", "reaped"}
  /\ pc = "leave" /\ result = "aborted" => xz \notin {"draining", "exited"}

\* What the listing goroutine has read, and when it ends.
ListerInv ==
  /\ n["read"] <= n["written"]
  /\ pc = "list" => n["read"] < n["written"]
  /\ lister \in {"sent", "ended"} => n["read"] = Size
  /\ pc \in {"list", "receive"} => lister # "none"
  /\ result = "listed" => lister \in {"sent", "ended"}
  /\ result = "ok" => lister \in {"none", "failed"}
  /\ pc = "done" => lister # "reading"

IInv == TypeOK /\ Flow /\ Ends /\ ListerInv

-----------------------------------------------------------------------------
LEMMA DumpInit == Init => IInv
BY DumpAssumption
DEF Init, IInv, TypeOK, Flow, Ends, ListerInv, Counters, Alive, DumpAssumption

LEMMA DumpNext == IInv /\ [Next]_vars => IInv'
<1> SUFFICES ASSUME IInv, [Next]_vars PROVE IInv'
  OBVIOUS
<1> USE DumpAssumption DEF DumpAssumption, IInv, TypeOK, Flow, Ends, ListerInv,
        Counters, Alive, Goto, Step
<1>1. CASE Reject
  BY <1>1 DEF Reject
<1>2. CASE Begin
  BY <1>2 DEF Begin
<1>3. CASE StartXz
  BY <1>3 DEF StartXz
<1>4. CASE Write
  BY <1>4 DEF Write, Compress
<1>5. CASE PassToLister
  BY <1>5 DEF PassToLister
<1>6. CASE Abort
  BY <1>6 DEF Abort
<1>7. CASE Finish
  BY <1>7 DEF Finish
<1>8. CASE CloseLibrary
  BY <1>8 DEF CloseLibrary
<1>9. CASE CloseXz
  BY <1>9 DEF CloseXz
<1>10. CASE Wait
  BY <1>10 DEF Wait
<1>11. CASE Collect
  BY <1>11 DEF Collect
<1>12. CASE Receive
  BY <1>12 DEF Receive
<1>13. CASE Leave
  BY <1>13 DEF Leave
<1>14. CASE ListAll
  BY <1>14 DEF ListAll, List
<1>15. CASE CloseChannel
  BY <1>15 DEF CloseChannel, List
<1>16. CASE Misparse
  BY <1>16 DEF Misparse, List
<1>17. CASE StopListing
  BY <1>17 DEF StopListing, List
<1>18. CASE XzReads
  BY <1>18 DEF XzReads
<1>19. CASE XzWrites
  BY <1>19 DEF XzWrites
<1>20. CASE XzExits
  BY <1>20 DEF XzExits, Become
<1>21. CASE XzLosesReader
  BY <1>21 DEF XzLosesReader, Become
<1>22. CASE XzDies
  BY <1>22 DEF XzDies, Become
<1>23. CASE Finalize
  BY <1>23 DEF Finalize, Become
<1>24. CASE Copy
  BY <1>24 DEF Copy, Copying
<1>25. CASE CopyEnds
  BY <1>25 DEF CopyEnds, Copying
<1>26. CASE CopyFails
  BY <1>26 DEF CopyFails, Copying
<1>27. CASE UNCHANGED vars
  BY <1>27 DEF vars
<1> HIDE DumpAssumption DEF DumpAssumption, IInv, TypeOK, Flow, Ends, ListerInv,
         Counters, Alive, Goto, Step
<1> QED
  BY <1>1, <1>2, <1>3, <1>4, <1>5, <1>6, <1>7, <1>8, <1>9, <1>10, <1>11, <1>12, <1>13, <1>14, <1>15, <1>16, <1>17, <1>18, <1>19, <1>20, <1>21, <1>22, <1>23, <1>24, <1>25, <1>26, <1>27 DEF Next, Dumper, Lister, Xz, Copier

LEMMA Invariance == Spec => []IInv
BY DumpInit, DumpNext, PTL DEF Spec

-----------------------------------------------------------------------------
(* The theorems.                                                           *)

\* No piece is counted twice and nothing is counted past the archive's end.
THEOREM DumpTypeCorrect == Spec => []TypeOK
BY Invariance, PTL DEF IInv

\* The info that dump returns describes the file as it stays, for every
\* compressor: its last byte is written and hashed, and its writers are gone.
THEOREM InfoDescribesTheFile == Spec => []InfoIsFinal
<1>1. IInv => InfoIsFinal
  BY DumpAssumption
  DEF DumpAssumption, IInv, TypeOK, Counters, Flow, Ends, InfoIsFinal
<1> QED
  BY <1>1, Invariance, PTL

\* A listing that dump returns is complete.
THEOREM ListingIsWhole == Spec => []ListingWhole
<1>1. IInv => ListingWhole
  BY DEF IInv, ListerInv, ListingWhole
<1> QED
  BY <1>1, Invariance, PTL

\* dump leaves no goroutine and no process behind, but for a process whose
\* input DumpPath could not finish.
THEOREM DumpCleansUp == Spec => []NothingLeft
<1>1. IInv => NothingLeft
  BY DEF IInv, TypeOK, Ends, ListerInv, Alive, NothingLeft
<1> QED
  BY <1>1, Invariance, PTL

-----------------------------------------------------------------------------
(* Why dump returns: what DumpReturns rests on, but for the scheduling.    *)
(* Every step of the dumper, the goroutines and xz uses up one of a number *)
(* of steps that the archive's size fixes, and one of them can go on       *)
(* unless dump is done or writes to the pipe that has lost its reader.     *)

\* How much is left of the part that s names, which goes through its states
\* in this order.
DumperLeft == [start |-> 8, list |-> 7, write |-> 6, close |-> 5, wait |-> 4,
               collect |-> 3, receive |-> 2, leave |-> 1, done |-> 0]
XzLeft == [none |-> 5, running |-> 4, draining |-> 3, exited |-> 2,
           dead |-> 2, reaped |-> 1, library |-> 0]
CopierLeft == [none |-> 2, running |-> 1, ended |-> 0, failed |-> 0]
ListerLeft == [reading |-> 3, sent |-> 2, ended |-> 1, failed |-> 1, none |-> 0]

\* A piece is written, then listed, so a piece to write counts twice.
PiecesLeft ==
  2 * (Size - n["written"]) + (Size - n["taken"]) + (Size - n["emitted"])
    + (Size - n["filed"]) + (Size - n["read"])

StepsLeft == PiecesLeft + DumperLeft[pc] + XzLeft[xz] + CopierLeft[copier]
               + ListerLeft[lister]

\* Somebody can go on: the conditions of the actions that Fairness is about,
\* but that DumpPath fails only if the process it writes to is gone.
SomebodyCanGoOn ==
  \/ pc \in {"start", "close", "collect"}
  \/ pc = "write" /\ (n["written"] = Size \/ xz \in {"library", "none"})
  \/ pc = "write" /\ Alive /\ n["written"] - n["taken"] < Capacity
  \/ pc = "write" /\ xz \in {"exited", "dead"}
  \/ pc = "list" /\ lister = "reading"
  \/ pc = "wait" /\ xz \in {"exited", "dead"} /\ copier \in {"ended", "failed"}
  \/ pc = "receive" /\ lister # "reading"
  \/ pc = "leave" /\ lister # "reading" /\ ~ (lister = "sent" /\ result = "listed")
  \/ lister = "reading" /\ n["read"] = Size
  \/ lister = "sent"
  \/ lister = "reading" /\ pc \in {"receive", "leave"}
  \/ Alive /\ n["taken"] < n["written"]
  \/ /\ Alive /\ copier = "running"
     /\ n["emitted"] < n["taken"] /\ n["emitted"] - n["filed"] < Capacity
  \/ xz = "draining" /\ n["taken"] = n["written"] /\ n["emitted"] = n["taken"]
  \/ Alive /\ copier = "failed" /\ n["emitted"] < n["taken"]
  \/ copier = "running" /\ (n["filed"] < n["emitted"] \/ ~ Alive)

NeverStuck == pc # "done" /\ ~ NoReader => SomebodyCanGoOn
StepsAreUsedUp == [][StepsLeft' \in 0..(StepsLeft - 1)]_vars

\* Nobody waits for somebody who waits for him: dump, the pipes around xz and
\* the listing goroutine never come to a standstill, however small the pipes.
THEOREM DumpNeverStuck == Spec => []NeverStuck
<1>1. ASSUME IInv, pc # "done", ~ NoReader PROVE SomebodyCanGoOn
  <2> USE <1>1, DumpAssumption DEF DumpAssumption, IInv, TypeOK, Flow, Ends,
          ListerInv, Counters, Alive, NoReader
  <2>1. CASE pc \in {"start", "close", "collect"}
    BY <2>1 DEF SomebodyCanGoOn
  <2>2. CASE pc = "write"
    BY <2>2 DEF SomebodyCanGoOn
  <2>3. CASE pc = "list"
    BY <2>3 DEF SomebodyCanGoOn
  <2>4. CASE pc = "wait"
    BY <2>4 DEF SomebodyCanGoOn
  <2>5. CASE pc = "receive"
    BY <2>5 DEF SomebodyCanGoOn
  <2>6. CASE pc = "leave"
    BY <2>6 DEF SomebodyCanGoOn
  <2> QED
    BY <2>1, <2>2, <2>3, <2>4, <2>5, <2>6
<1>2. IInv => NeverStuck
  BY <1>1 DEF NeverStuck
<1> QED
  BY <1>2, Invariance, PTL

LEMMA Remaining ==
  /\ DumperLeft["start"] = 8 /\ DumperLeft["list"] = 7 /\ DumperLeft["write"] = 6
  /\ DumperLeft["close"] = 5 /\ DumperLeft["wait"] = 4 /\ DumperLeft["collect"] = 3
  /\ DumperLeft["receive"] = 2 /\ DumperLeft["leave"] = 1 /\ DumperLeft["done"] = 0
  /\ XzLeft["none"] = 5 /\ XzLeft["running"] = 4 /\ XzLeft["draining"] = 3
  /\ XzLeft["exited"] = 2 /\ XzLeft["dead"] = 2 /\ XzLeft["reaped"] = 1
  /\ XzLeft["library"] = 0
  /\ CopierLeft["none"] = 2 /\ CopierLeft["running"] = 1
  /\ CopierLeft["ended"] = 0 /\ CopierLeft["failed"] = 0
  /\ ListerLeft["reading"] = 3 /\ ListerLeft["sent"] = 2
  /\ ListerLeft["ended"] = 1 /\ ListerLeft["failed"] = 1 /\ ListerLeft["none"] = 0
BY DEF DumperLeft, XzLeft, CopierLeft, ListerLeft

LEMMA StepsLeftType ==
  ASSUME IInv
  PROVE  /\ PiecesLeft \in Nat /\ DumperLeft[pc] \in Nat /\ XzLeft[xz] \in Nat
         /\ CopierLeft[copier] \in Nat /\ ListerLeft[lister] \in Nat
         /\ StepsLeft \in Nat
<1>1. \A c \in Counters : n[c] \in 0..Size
  BY DEF IInv, TypeOK
<1>2. PiecesLeft \in Nat
  BY <1>1, DumpAssumption DEF DumpAssumption, PiecesLeft, Counters
<1>3. /\ DumperLeft[pc] \in Nat /\ XzLeft[xz] \in Nat
      /\ CopierLeft[copier] \in Nat /\ ListerLeft[lister] \in Nat
  BY Remaining DEF IInv, TypeOK
<1> QED
  BY <1>2, <1>3 DEF StepsLeft

LEMMA StepsLeftDecrease ==
  ASSUME IInv, Next
  PROVE  StepsLeft' < StepsLeft
<1>a. n \in [Counters -> 0..Size] /\ \A c \in Counters : n[c] \in 0..Size
  BY DEF IInv, TypeOK
<1>b. UNCHANGED n => PiecesLeft' = PiecesLeft
  BY DEF PiecesLeft
<1>c. \A c \in Counters \ {"written"} : Step(c) => PiecesLeft' = PiecesLeft - 1
  BY <1>a, DumpAssumption DEF DumpAssumption, Step, PiecesLeft, Counters
<1>d. Write => PiecesLeft' <= PiecesLeft - 2
  BY <1>a, DumpAssumption
  DEF DumpAssumption, Write, Compress, Step, PiecesLeft, Counters, IInv, Flow
<1>e. CloseLibrary => PiecesLeft' <= PiecesLeft
  BY <1>a, <1>b, DumpAssumption
  DEF DumpAssumption, CloseLibrary, Step, PiecesLeft, Counters, IInv, Flow
<1>f. /\ PiecesLeft \in Nat /\ DumperLeft[pc] \in Nat /\ XzLeft[xz] \in Nat
      /\ CopierLeft[copier] \in Nat /\ ListerLeft[lister] \in Nat
  BY StepsLeftType
<1>g. IInv'
  BY DumpNext
<1>h. (/\ PiecesLeft \in Nat /\ DumperLeft[pc] \in Nat /\ XzLeft[xz] \in Nat
       /\ CopierLeft[copier] \in Nat /\ ListerLeft[lister] \in Nat)'
  BY <1>g, StepsLeftType, PTL
<1>i. "read" \in Counters \ {"written"} /\ "taken" \in Counters \ {"written"}
      /\ "emitted" \in Counters \ {"written"} /\ "filed" \in Counters \ {"written"}
  BY DEF Counters
<1> USE <1>f, <1>h, Remaining DEF StepsLeft, IInv, TypeOK
<1>1. CASE Reject
  BY <1>1, <1>b DEF Reject, Goto
<1>2. CASE Begin
  BY <1>2, <1>b DEF Begin, Goto
<1>3. CASE StartXz
  BY <1>3, <1>b DEF StartXz, Ends
<1>4. CASE Write
  BY <1>4, <1>d DEF Write, Goto
<1>5. CASE PassToLister
  BY <1>5, <1>c, <1>i DEF PassToLister, Goto
<1>6. CASE Abort
  BY <1>6, <1>b DEF Abort, Goto
<1>7. CASE Finish
  BY <1>7, <1>b DEF Finish, Goto
<1>8. CASE CloseLibrary
  BY <1>8, <1>e DEF CloseLibrary, Goto
<1>9. CASE CloseXz
  BY <1>9, <1>b DEF CloseXz, Goto
<1>10. CASE Wait
  BY <1>10, <1>b DEF Wait, Goto
<1>11. CASE Collect
  BY <1>11, <1>b DEF Collect, Goto
<1>12. CASE Receive
  BY <1>12, <1>b DEF Receive, Goto
<1>13. CASE Leave
  BY <1>13, <1>b DEF Leave, Goto
<1>14. CASE ListAll
  BY <1>14, <1>b DEF ListAll, List
<1>15. CASE CloseChannel
  BY <1>15, <1>b DEF CloseChannel, List
<1>16. CASE Misparse
  BY <1>16, <1>b DEF Misparse, List
<1>17. CASE StopListing
  BY <1>17, <1>b DEF StopListing, List
<1>18. CASE XzReads
  BY <1>18, <1>c, <1>i DEF XzReads
<1>19. CASE XzWrites
  BY <1>19, <1>c, <1>i DEF XzWrites
<1>20. CASE XzExits
  BY <1>20, <1>b DEF XzExits, Become
<1>21. CASE XzLosesReader
  BY <1>21, <1>b DEF XzLosesReader, Alive, Become
<1>22. CASE XzDies
  BY <1>22, <1>b DEF XzDies, Alive, Become
<1>23. CASE Finalize
  BY <1>23, <1>b DEF Finalize, Become
<1>24. CASE Copy
  BY <1>24, <1>c, <1>i DEF Copy, Copying
<1>25. CASE CopyEnds
  BY <1>25, <1>b DEF CopyEnds, Copying
<1>26. CASE CopyFails
  BY <1>26, <1>b DEF CopyFails, Copying
<1> QED
  BY <1>1, <1>2, <1>3, <1>4, <1>5, <1>6, <1>7, <1>8, <1>9, <1>10, <1>11, <1>12, <1>13, <1>14, <1>15, <1>16, <1>17, <1>18, <1>19, <1>20, <1>21, <1>22, <1>23, <1>24, <1>25, <1>26
  DEF Next, Dumper, Lister, Xz, Copier

\* Every step uses up some of the steps that are left, so dump and what works
\* for it take at most as many as StepsLeft begins with: nothing is retried,
\* and with the theorem before this one only scheduling is left between dump
\* and its return.
THEOREM DumpIsBounded == Spec => StepsAreUsedUp
<1>1. IInv /\ [Next]_vars => [StepsLeft' \in 0..(StepsLeft - 1)]_vars
  <2>1. ASSUME IInv, Next PROVE StepsLeft' \in 0..(StepsLeft - 1)
    <3>1. StepsLeft \in Nat
      BY <2>1, StepsLeftType
    <3>2. IInv'
      BY <2>1, DumpNext
    <3>3. (StepsLeft \in Nat)'
      BY <3>2, StepsLeftType, PTL
    <3> QED
      BY <2>1, <3>1, <3>3, StepsLeftDecrease
  <2> QED
    BY <2>1
<1> QED
  BY <1>1, Invariance, PTL DEF Spec, StepsAreUsedUp
=============================================================================
