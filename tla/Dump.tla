-------------------------------- MODULE Dump --------------------------------
(***************************************************************************)
(* dump (upload.go) and xzcmd.Writer: one archive on its way to a          *)
(* temporary file.  nar.DumpPath writes the NAR in pieces; a MultiWriter   *)
(* gives each one to the compressor and then, through an io.Pipe, to a     *)
(* goroutine that makes the listing.  The compressor is a library that     *)
(* writes to the file itself, or an xz process between two pipes of the    *)
(* operating system, whose output a goroutine of os/exec copies to the     *)
(* file.  The hash writers see what passes them: a piece stands for its    *)
(* bytes, their hash and their number.                                     *)
(***************************************************************************)
EXTENDS Naturals

CONSTANTS
  Size,     \* how many pieces the archive has
  Capacity  \* how many pieces one pipe of the operating system holds

ASSUME DumpAssumption == Size \in Nat \ {0} /\ Capacity \in Nat \ {0}

VARIABLES
  pc,      \* where dump is
  result,  \* what it returns: "listed" is success with a listing, "aborted"
           \* the error of DumpPath
  n,       \* how many pieces have come how far
  xz,      \* the process, or "library"
  copier,  \* the goroutine of os/exec
  lister   \* the listing goroutine

vars == <<pc, result, n, xz, copier, lister>>

Counters == {
  "written",  \* passed uncompressedHashWriter
  "taken",    \* read by xz
  "emitted",  \* written by xz
  "filed",    \* passed compressedHashWriter into the file
  "read"}     \* read by the listing goroutine

Step(counter) == n' = [n EXCEPT ![counter] = @ + 1]

TypeOK ==
  /\ pc \in {"start", "write", "list", "close", "wait", "collect", "receive",
             "leave", "done"}
  /\ result \in {"none", "ok", "listed", "error", "aborted"}
  /\ n \in [Counters -> 0..Size]
  /\ xz \in {"library", "none", "running", "draining", "exited", "dead",
             "reaped"}
  /\ copier \in {"none", "running", "ended", "failed"}
  /\ lister \in {"none", "reading", "sent", "ended", "failed"}

Init ==
  /\ pc = "start" /\ result = "none"
  /\ n = [c \in Counters |-> 0]
  /\ xz \in {"library", "none"} /\ copier = "none"
  /\ lister \in {"none", "reading"}

-----------------------------------------------------------------------------
(* dump itself.                                                            *)

Goto(p, r) == pc' = p /\ result' = r

\* The compression type is unknown, or the library refuses.
Reject ==
  /\ pc = "start"
  /\ Goto("done", "error")
  /\ lister' = "none"
  /\ UNCHANGED <<n, xz, copier>>

Begin ==
  /\ pc = "start"
  /\ Goto("write", result)
  /\ UNCHANGED <<n, xz, copier, lister>>

\* The first Write starts the process.
StartXz ==
  /\ pc = "write" /\ xz = "none"
  /\ xz' = "running" /\ copier' = "running"
  /\ UNCHANGED <<pc, result, n, lister>>

Alive == xz \in {"running", "draining"}

\* A library writes what it likes now and the rest when it is closed; a write
\* to xz blocks while the pipe is full.
Compress ==
  \/ /\ xz = "library"
     /\ \E f \in n["filed"]..(n["written"] + 1) :
          n' = [n EXCEPT !["written"] = @ + 1, !["filed"] = f]
  \/ Alive /\ n["written"] - n["taken"] < Capacity /\ Step("written")

Write ==
  /\ pc = "write" /\ n["written"] < Size
  /\ Compress
  /\ Goto(IF lister = "none" THEN "write" ELSE "list", result)
  /\ UNCHANGED <<xz, copier, lister>>

\* A write to an io.Pipe returns when the reader has taken it.
PassToLister ==
  /\ pc = "list" /\ lister = "reading"
  /\ Step("read")
  /\ Goto("write", result)
  /\ UNCHANGED <<xz, copier, lister>>

\* DumpPath fails: it cannot read the store, xz cannot be started or is gone
\* (EPIPE), or a library could not write to the file.  Only the deferred
\* function is left to do: nobody closes the compressor.
Abort ==
  /\ pc = "write" /\ n["written"] < Size
  /\ Goto("leave", "aborted")
  /\ UNCHANGED <<n, xz, copier, lister>>

Finish ==
  /\ pc = "write" /\ n["written"] = Size
  /\ Goto("close", result)
  /\ UNCHANGED <<n, xz, copier, lister>>

CloseLibrary ==
  /\ pc = "close" /\ xz = "library"
  /\ \/ Goto("collect", result) /\ n' = [n EXCEPT !["filed"] = n["written"]]
     \/ Goto("leave", "error") /\ UNCHANGED n
  /\ UNCHANGED <<xz, copier, lister>>

\* xz will see the end of its standard input.
CloseXz ==
  /\ pc = "close" /\ xz # "library"
  /\ xz' = IF xz = "running" THEN "draining" ELSE xz
  /\ Goto("wait", result)
  /\ UNCHANGED <<n, copier, lister>>

\* Mutant: the goroutine that copies is not waited for.
WaitForXzOnly ==
  /\ pc = "wait" /\ xz \in {"exited", "dead"}
  /\ xz' = "reaped"
  /\ IF xz = "exited" THEN Goto("collect", result) ELSE Goto("leave", "error")
  /\ UNCHANGED <<n, copier, lister>>

\* cmd.Wait: for the process, then for the goroutine.
Wait ==
  /\ pc = "wait" /\ xz \in {"exited", "dead"} /\ copier \in {"ended", "failed"}
  /\ xz' = "reaped"
  /\ IF xz = "exited" /\ copier = "ended"
       THEN Goto("collect", result) ELSE Goto("leave", "error")
  /\ UNCHANGED <<n, copier, lister>>

\* listingWriter.Close.
Collect ==
  /\ pc = "collect"
  /\ IF lister = "none" THEN Goto("leave", "ok") ELSE Goto("receive", result)
  /\ UNCHANGED <<n, xz, copier, lister>>

\* Mutant: a listing that is not ready is not waited for.
ReceiveIfReady ==
  /\ pc = "receive"
  /\ Goto("leave", IF lister \in {"sent", "ended"} THEN "listed" ELSE "ok")
  /\ UNCHANGED <<n, xz, copier, lister>>

\* listingChan yields the listing, or nil if it was closed without one.
Receive ==
  /\ pc = "receive" /\ lister # "reading"
  /\ Goto("leave", IF lister = "failed" THEN "ok" ELSE "listed")
  /\ UNCHANGED <<n, xz, copier, lister>>

\* Mutant: the deferred function does not wait.
LeaveAtOnce ==
  /\ pc = "leave"
  /\ Goto("done", result)
  /\ UNCHANGED <<n, xz, copier, lister>>

\* The deferred function closes the pipe and receives from listingChan: a
\* listing that nobody has taken, or the channel's end.
Leave ==
  /\ pc = "leave"
  /\ lister # "reading" /\ ~ (lister = "sent" /\ result = "listed")
  /\ Goto("done", result)
  /\ UNCHANGED <<n, xz, copier, lister>>

-----------------------------------------------------------------------------
(* The listing goroutine.                                                  *)

List(l) == lister' = l /\ UNCHANGED <<pc, result, n, xz, copier>>

ListAll == lister = "reading" /\ n["read"] = Size /\ List("sent")

CloseChannel == lister = "sent" /\ List("ended")

\* nar.List rejects what it reads: the goroutine logs it and ends, and
\* nobody reads the pipe or closes its reader.
Misparse == pc # "start" /\ lister = "reading" /\ List("failed")

\* Mutant: the pipe is closed on success only.
StopListingOnSuccess ==
  lister = "reading" /\ n["read"] < Size /\ pc = "receive" /\ List("failed")

\* The pipe was closed before the archive's end.
StopListing ==
  /\ lister = "reading" /\ n["read"] < Size /\ pc \in {"receive", "leave"}
  /\ List("failed")

-----------------------------------------------------------------------------
(* The xz process and the goroutine that copies its output.                *)

XzReads ==
  /\ Alive /\ n["taken"] < n["written"]
  /\ Step("taken") /\ UNCHANGED <<pc, result, xz, copier, lister>>

XzWrites ==
  /\ Alive /\ copier = "running"
  /\ n["emitted"] < n["taken"] /\ n["emitted"] - n["filed"] < Capacity
  /\ Step("emitted") /\ UNCHANGED <<pc, result, xz, copier, lister>>

Become(x) == xz' = x /\ UNCHANGED <<pc, result, n, copier, lister>>

XzExits ==
  /\ xz = "draining"
  /\ n["taken"] = n["written"] /\ n["emitted"] = n["taken"]
  /\ Become("exited")

\* Nobody reads what it writes.
XzLosesReader ==
  Alive /\ copier = "failed" /\ n["emitted"] < n["taken"] /\ Become("dead")

XzDies == Alive /\ Become("dead")

\* After an abort dump forgets the open end of xz's standard input, and the
\* garbage collector may close it.
Finalize == pc = "done" /\ xz = "running" /\ Become("draining")

Copying(s) ==
  copier = "running" /\ copier' = s /\ UNCHANGED <<pc, result, xz, lister>>

Copy == n["filed"] < n["emitted"] /\ Copying("running") /\ Step("filed")

\* End of file: xz is gone and the pipe is empty.
CopyEnds ==
  ~ Alive /\ n["filed"] = n["emitted"] /\ Copying("ended") /\ UNCHANGED n

\* The file cannot be written, or the caller has closed it.
CopyFails == n["filed"] < n["emitted"] /\ Copying("failed") /\ UNCHANGED n

-----------------------------------------------------------------------------
Dumper ==
  \/ Reject \/ Begin \/ StartXz \/ Write \/ PassToLister \/ Abort \/ Finish
  \/ CloseLibrary \/ CloseXz \/ Wait \/ Collect \/ Receive \/ Leave

Lister == ListAll \/ CloseChannel \/ StopListing

Xz == XzReads \/ XzWrites \/ XzExits \/ XzLosesReader

Copier == Copy \/ CopyEnds

Next ==
  Dumper \/ Lister \/ Misparse \/ Xz \/ XzDies \/ Finalize \/ Copier \/ CopyFails

Spec == Init /\ [][Next]_vars

\* Goroutines are scheduled, and the xz process goes on with its input.
Fairness ==
  WF_vars(Dumper) /\ WF_vars(Lister) /\ WF_vars(Xz) /\ WF_vars(Copier)

FairSpec == Spec /\ Fairness

-----------------------------------------------------------------------------
(* Properties.                                                             *)

\* When dump returns an info, the whole archive was hashed, the file holds
\* all of it, and FileHash, FileSize and URL were read after its last byte:
\* no process and no goroutine is left that would change the file.
InfoIsFinal ==
  result \in {"ok", "listed"} =>
    /\ n["written"] = Size /\ n["filed"] = Size
    /\ xz \in {"library", "reaped"} /\ copier # "running"

\* A listing is of the whole archive, and it is missing only if it was not
\* asked for or nar.List has failed.
ListingWhole ==
  /\ result = "listed" => n["read"] = Size
  /\ result = "ok" => lister \in {"none", "failed"}

\* When dump returns, the listing goroutine reads no more; a process is left
\* unreaped, and a goroutine that copies, only when DumpPath failed.
NothingLeft ==
  pc = "done" =>
    /\ lister # "reading"
    /\ Alive \/ xz \in {"exited", "dead"} \/ copier = "running" =>
         result = "aborted"

\* dump returns, whatever else fails, unless nar.List gives up in the middle
\* of the archive: the pipe has no reader then, and the next write to it
\* never returns.
NoReader == lister = "failed" /\ n["read"] < Size /\ pc \in {"write", "list"}
DumpReturns == []~NoReader => <>(pc = "done")
=============================================================================
