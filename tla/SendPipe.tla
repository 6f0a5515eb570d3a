------------------------------ MODULE SendPipe ------------------------------
(***************************************************************************)
(* send.go: runSend; main.go: openFileCtx and writeCtx; upload.go: the     *)
(* opening of --input and the scanner.  Several `nixcached send` processes *)
(* write lines to one named pipe, in batches; one `nixcached upload` reads *)
(* bytes from it, cut wherever a read happens to end, and scans them into  *)
(* lines.  What the uploader does with a line is UploadPipeline's.         *)
(***************************************************************************)
EXTENDS ScanLines, FiniteSets

CONSTANTS
  Senders,      \* `nixcached send` processes
  Args,         \* the output paths each was given: [len, newline] records
  Finishing,    \* those run with --finish
  PipeBufSize,  \* pipeBufSize
  AtomicSize,   \* PIPE_BUF of the system
  Capacity,     \* what the pipe holds
  MaxTokenSize, \* bufio.MaxScanTokenSize, what the scanner's buffer holds
  Modes         \* whether upload is run with --keep-alive: a set of BOOLEANs

ASSUME SendAssumption ==
  /\ Args \in [Senders -> Seq([len : Nat \ {0}, newline : BOOLEAN])]
  /\ Finishing \subseteq Senders
  /\ PipeBufSize \in Nat /\ 2 <= PipeBufSize
  /\ AtomicSize \in Nat /\ PipeBufSize <= AtomicSize
  /\ Capacity \in Nat /\ AtomicSize <= Capacity
  /\ MaxTokenSize \in Nat /\ PipeBufSize + 3 <= MaxTokenSize
  /\ Modes \subseteq BOOLEAN

VARIABLES
  pc,         \* where each runSend is
  next,       \* the argument it looks at
  buf,        \* the bytes of its batch
  failed,     \* nfailed > 0
  writing,    \* the bytes that its write call has yet to write
  result,     \* what runSend returned
  expired,    \* senders whose context is done: a timeout or a signal
  gaveUp,     \* upload's context is done, or its bucket is of no use
  keepAlive,  \* upload has opened the pipe for writing as well
  reader,     \* where upload is
  stream,     \* every byte ever written to the pipe
  got,        \* how many of them upload has read
  scanned,    \* how many of those its scanner has left behind
  received    \* the tokens that the scanner returned, without blank ones

senderVars == <<pc, next, buf, failed, writing, result>>
readerVars == <<keepAlive, gaveUp, reader, got, scanned, received>>
vars == <<senderVars, expired, readerVars, stream>>

-----------------------------------------------------------------------------
(* Lines and bytes.  A byte remembers the line that it was written for.    *)

\* --finish appends inlineEOFLine to the arguments.
Out(s) ==
  IF s \in Finishing THEN Append(Args[s], [len |-> 1, newline |-> FALSE])
  ELSE Args[s]

IsMarker(s, i) == s \in Finishing /\ i = Len(Out(s))

Cell(s, i, byte) == [from |-> s, arg |-> i, byte |-> byte]

LineBytes(s, i) ==
  [k \in 1..(Out(s)[i].len + 1) |->
     Cell(s, i, IF k > Out(s)[i].len THEN "nl"
                ELSE IF IsMarker(s, i) THEN "nul" ELSE "text")]

Line(s, i) == [from |-> s, arg |-> i]
Lines == UNION {{Line(s, i) : i \in 1..Len(Out(s))} : s \in Senders}
EndLines == {Line(s, Len(Out(s))) : s \in Finishing}

BytesOf(d) == [k \in DOMAIN d |-> d[k].byte]

\* The bytes that the scanner has been given and not yet left behind.
Unscanned == SubSeq(stream, scanned + 1, got)

SenderStates == {"open", "loop", "write", "close", "done"}
HasOpen(s) == pc[s] \in {"loop", "write", "close"}

Cells ==
  UNION {{Cell(s, i, b) : i \in 1..Len(Out(s)), b \in Bytes} : s \in Senders}

TypeOK ==
  /\ pc \in [Senders -> SenderStates]
  /\ next \in [Senders -> Nat]
  /\ \A s \in Senders : next[s] \in 1..(Len(Out(s)) + 1)
  /\ buf \in [Senders -> Seq(Cells)]
  /\ \A s \in Senders : Len(buf[s]) <= PipeBufSize
  /\ writing \in [Senders -> Seq(Cells)]
  /\ failed \in [Senders -> BOOLEAN]
  /\ result \in [Senders -> {"none", "ok", "error"}]
  /\ expired \subseteq Senders
  /\ keepAlive \in BOOLEAN /\ gaveUp \in BOOLEAN
  /\ reader \in {"opening", "reading", "scanning", "eof",
                "ended", "closed"}
  /\ stream \in Seq(Cells)
  /\ scanned \in Nat /\ got \in Nat
  /\ scanned <= got /\ got <= Len(stream)
  /\ received \in Seq(Seq(Cells))

Init ==
  /\ pc = [s \in Senders |-> "open"]
  /\ next = [s \in Senders |-> 1]
  /\ buf = [s \in Senders |-> <<>>]
  /\ writing = [s \in Senders |-> <<>>]
  /\ failed = [s \in Senders |-> FALSE]
  /\ result = [s \in Senders |-> "none"]
  /\ expired = {}
  /\ keepAlive \in Modes /\ gaveUp = FALSE
  /\ reader = "opening"
  /\ stream = <<>> /\ got = 0 /\ scanned = 0
  /\ received = <<>>

-----------------------------------------------------------------------------
(* runSend.                                                                *)

Move(s, where) == pc' = [pc EXCEPT ![s] = where]
Return(s, r) == result' = [result EXCEPT ![s] = r]

\* The open blocks until upload has, or is opening, the other end.
Open(s) ==
  /\ pc[s] = "open"
  /\ reader # "closed"
  /\ Move(s, "loop")
  /\ UNCHANGED <<next, buf, failed, writing, result, expired, readerVars,
                 stream>>

\* openFileCtx: the open is abandoned.
OpenAbandoned(s) ==
  /\ pc[s] = "open"
  /\ s \in expired
  /\ Move(s, "done")
  /\ Return(s, "error")
  /\ UNCHANGED <<next, buf, failed, writing, expired, readerVars, stream>>

More(s) == next[s] <= Len(Out(s))
LineSize(s) == Out(s)[next[s]].len + 1
Refused(s) == Out(s)[next[s]].newline \/ LineSize(s) > PipeBufSize

\* A path with a newline in it, or one too long for a batch.
Skip(s) ==
  /\ pc[s] = "loop" /\ More(s) /\ Refused(s)
  /\ failed' = [failed EXCEPT ![s] = TRUE]
  /\ next' = [next EXCEPT ![s] = @ + 1]
  /\ UNCHANGED <<pc, buf, writing, result, expired, readerVars, stream>>

\* Mutant: the newline is not counted.
FitsWithoutNewline(s) == Len(buf[s]) + LineSize(s) <= PipeBufSize + 1

Fits(s) == Len(buf[s]) + LineSize(s) <= PipeBufSize

Add(s) ==
  /\ pc[s] = "loop" /\ More(s) /\ ~ Refused(s)
  /\ Fits(s)
  /\ buf' = [buf EXCEPT ![s] = @ \o LineBytes(s, next[s])]
  /\ next' = [next EXCEPT ![s] = @ + 1]
  /\ UNCHANGED <<pc, failed, writing, result, expired, readerVars, stream>>

\* writeCtx starts the write: the batch is full, or it is the last one.
Write(s) ==
  /\ pc[s] = "loop"
  /\ \/ More(s) /\ ~ Refused(s) /\ ~ Fits(s)
     \/ ~ More(s) /\ buf[s] # <<>>
  /\ writing' = [writing EXCEPT ![s] = buf[s]]
  /\ Move(s, "write")
  /\ UNCHANGED <<next, buf, failed, result, expired, readerVars, stream>>

\* Mutant: the batch is not emptied.
WrittenKeepingBatch(s) ==
  /\ pc[s] = "write" /\ writing[s] = <<>>
  /\ Move(s, "loop")
  /\ UNCHANGED <<next, buf, failed, writing, result, expired, readerVars,
                 stream>>

\* writeCtx returns, and the next batch starts empty.
Written(s) ==
  /\ pc[s] = "write" /\ writing[s] = <<>>
  /\ buf' = [buf EXCEPT ![s] = <<>>]
  /\ Move(s, "loop")
  /\ UNCHANGED <<next, failed, writing, result, expired, readerVars, stream>>

\* Mutant: writeCtx waits for its write, as long as it takes.
WriteFailsAtClose(s) ==
  /\ pc[s] = "write"
  /\ writing[s] # <<>> /\ reader = "closed"
  /\ Return(s, "error")
  /\ Move(s, "close")
  /\ UNCHANGED <<next, buf, failed, writing, expired, readerVars, stream>>

\* Nobody will read any more (EPIPE), or writeCtx abandons a write that has
\* not returned; the write itself may go on.
WriteFails(s) ==
  /\ pc[s] = "write"
  /\ s \in expired \/ (writing[s] # <<>> /\ reader = "closed")
  /\ Return(s, "error")
  /\ Move(s, "close")
  /\ UNCHANGED <<next, buf, failed, writing, expired, readerVars, stream>>

\* Mutant: the last batch, not being full, stays behind.
FinishUnflushed(s) ==
  /\ pc[s] = "loop" /\ ~ More(s)
  /\ Return(s, IF failed[s] THEN "error" ELSE "ok")
  /\ Move(s, "close")
  /\ UNCHANGED <<next, buf, failed, writing, expired, readerVars, stream>>

Finish(s) ==
  /\ pc[s] = "loop" /\ ~ More(s) /\ buf[s] = <<>>
  /\ Return(s, IF failed[s] THEN "error" ELSE "ok")
  /\ Move(s, "close")
  /\ UNCHANGED <<next, buf, failed, writing, expired, readerVars, stream>>

\* Mutant: the file stays open, and an abandoned write goes on.
CloseLeavingWrite(s) ==
  /\ pc[s] = "close"
  /\ Move(s, "done")
  /\ UNCHANGED <<next, buf, failed, writing, result, expired, readerVars,
                 stream>>

\* The deferred Close makes a write that is still waiting for room fail.
Close(s) ==
  /\ pc[s] = "close"
  /\ writing' = [writing EXCEPT ![s] = <<>>]
  /\ Move(s, "done")
  /\ UNCHANGED <<next, buf, failed, result, expired, readerVars, stream>>

\* --timeout has passed, or SIGTERM or SIGINT arrives.
Expire(s) ==
  /\ pc[s] # "done" /\ s \notin expired
  /\ expired' = expired \cup {s}
  /\ UNCHANGED <<senderVars, readerVars, stream>>

-----------------------------------------------------------------------------
(* The pipe.                                                               *)

\* How much of the bytes b one step of a write takes: all of them at once,
\* if they are no more than PIPE_BUF, otherwise as many as it likes.
Portions(b) == IF Len(b) <= AtomicSize THEN {Len(b)} ELSE 1..Len(b)

PipeTakes(s) ==
  /\ writing[s] # <<>>
  /\ reader # "closed"
  /\ \E n \in Portions(writing[s]) :
       /\ Len(stream) - got + n <= Capacity
       /\ stream' = stream \o SubSeq(writing[s], 1, n)
       /\ writing' = [writing EXCEPT ![s] = Rest(@, n)]
  /\ UNCHANGED <<pc, next, buf, failed, result, expired, readerVars>>

-----------------------------------------------------------------------------
(* upload: the input is opened, read and scanned.                          *)

\* Opening for reading blocks until somebody has opened for writing, and
\* with --keep-alive that is upload itself (O_RDWR).
OpenInput ==
  /\ reader = "opening"
  /\ keepAlive \/ \E s \in Senders : HasOpen(s) \/ next[s] > 1
  /\ reader' = "reading"
  /\ UNCHANGED <<senderVars, expired, keepAlive, gaveUp, got, scanned, received,
                 stream>>

\* A read returns some of what is in the pipe, as much as the scanner's
\* buffer has room for.  That it never is full is LinesFit in SendPipeProofs:
\* no line that a send writes makes the scanner fail with ErrTooLong.
Read ==
  /\ reader = "reading"
  /\ got' \in (got + 1)..Len(stream)
  /\ got' - scanned <= MaxTokenSize
  /\ reader' = "scanning"
  /\ UNCHANGED <<senderVars, expired, keepAlive, gaveUp, scanned, received, stream>>

\* ... or nothing, because no writer is left.
ReadEOF ==
  /\ reader = "reading"
  /\ got = Len(stream)
  /\ ~ keepAlive /\ \A s \in Senders : ~ HasOpen(s)
  /\ reader' = "eof"
  /\ UNCHANGED <<senderVars, expired, keepAlive, gaveUp, got, scanned, received,
                 stream>>

\* The scanner returns a token, maybe the last one, or it has to read more,
\* or there is no more.  runUpload skips a blank token, such as the one that
\* an end marker without a line in front of it makes.
Scan ==
  /\ reader \in {"scanning", "eof"}
  /\ \E split \in {scanLinesWithEOF(BytesOf(Unscanned), reader = "eof")} :
       /\ scanned' = scanned + split.advance
       /\ received' =
            IF TokenLength(split) \in {NoToken, 0} THEN received
            ELSE Append(received, SubSeq(Unscanned, 1, split.token))
       /\ reader' =
            IF split.final \/ (split = NeedMore /\ reader = "eof") THEN "ended"
            ELSE IF split = NeedMore THEN "reading" ELSE reader
  /\ UNCHANGED <<senderVars, expired, keepAlive, gaveUp, got, stream>>

\* SIGTERM or SIGINT, or the bucket cannot be opened or has another store
\* directory: whatever is in the pipe, upload is going to close it.
GiveUp ==
  /\ ~ gaveUp /\ reader # "closed"
  /\ gaveUp' = TRUE
  /\ UNCHANGED <<senderVars, expired, keepAlive, reader, got, scanned, received,
                 stream>>

\* All uploads are over, or openFileCtx or runUpload returns early.  Until
\* then the goroutine that runs Scan goes on reading.
CloseInput ==
  /\ \/ reader = "ended"
     \/ gaveUp /\ reader # "closed"
  /\ reader' = "closed"
  /\ UNCHANGED <<senderVars, expired, keepAlive, gaveUp, got, scanned, received,
                 stream>>

-----------------------------------------------------------------------------
Sender(s) ==
  \/ Open(s) \/ OpenAbandoned(s) \/ Skip(s) \/ Add(s) \/ Write(s)
  \/ Written(s) \/ WriteFails(s) \/ Finish(s) \/ Close(s)

Upload == OpenInput \/ Read \/ ReadEOF \/ Scan \/ CloseInput

Next ==
  \/ \E s \in Senders : Sender(s) \/ Expire(s) \/ PipeTakes(s)
  \/ Upload \/ GiveUp

Spec == Init /\ [][Next]_vars

\* Senders are scheduled and the pipe takes what fits.  No timeout need ever
\* pass, and the uploader may be stuck for good, say behind a slow bucket.
Fairness == \A s \in Senders : WF_vars(Sender(s)) /\ WF_vars(PipeTakes(s))

FairSpec == Spec /\ Fairness

-----------------------------------------------------------------------------
(* Properties.                                                             *)

\* The bytes b are lines, one whole line after another.
WholeLines(b) ==
  \A k \in 1..Len(b) : b[k].byte = "nl" =>
    LET n == Out(b[k].from)[b[k].arg].len IN
    /\ n < k
    /\ SubSeq(b, k - n, k) = LineBytes(b[k].from, b[k].arg)
    /\ k > n + 1 => b[k - n - 1].byte = "nl"

\* "Lines stay whole": however the batches of several senders meet in the
\* pipe, no line is cut or mixed with another (pipeBufSize, send.go:73-76).
StreamWhole == WholeLines(stream)

SentLines(b) ==
  {Line(b[k].from, b[k].arg) : k \in {j \in 1..Len(b) : b[j].byte = "nl"}}

\* A send that reports success has put every argument, and the end marker
\* of --finish, into the pipe.
SuccessMeansSent ==
  \A s \in Senders : result[s] = "ok" =>
    \A i \in 1..Len(Out(s)) : Line(s, i) \in SentLines(stream)

\* Whatever --input names, for anything may have written to it, and wherever
\* reads of it end, also inside an end marker or between a carriage return and
\* its newline: the scanner of an uploader with an open input returns the
\* lines in front of the first end marker, each of them once, and nothing
\* behind it but at most one empty token, which is for the marker itself
\* (upload.go:607-646, upload_test.go:303).  It fails only at a line that is
\* too long for its buffer, and then has returned those in front of it.
ScannerReturnsLines == reader # "opening" => WrongScans = {}

\* Once send has returned, with success or with an error because its time
\* was over, no byte of it comes after (main.go:132-155).
SilentAfterReturn ==
  [][\A k \in (Len(stream) + 1)..Len(stream') :
       pc[stream'[k].from] # "done"]_vars

\* A token of the scanner, as the line that it is: without its newline.
TornLine == [from |-> "nobody", arg |-> 0]
LineOf(token) ==
  IF token # <<>>
     /\ Append(token, Cell(token[1].from, token[1].arg, "nl"))
          = LineBytes(token[1].from, token[1].arg)
  THEN Line(token[1].from, token[1].arg)
  ELSE TornLine

\* The uploader has seen the end marker, or the end of the input: it takes
\* no more, although a sender can still open the pipe and succeed.
Stopped == reader \in {"eof", "ended", "closed"}

\* The lines that end in b, in the order in which they do.
NewlinesIn(b) == {k \in 1..Len(b) : b[k].byte = "nl"}
Rank(b, k) == Cardinality({j \in NewlinesIn(b) : j <= k})
LinesIn(b) ==
  [n \in 1..Cardinality(NewlinesIn(b)) |->
     LET k == CHOOSE j \in NewlinesIn(b) : Rank(b, j) = n IN
     Line(b[k].from, b[k].arg)]

Channel == INSTANCE LineChannel WITH
  sent <- LinesIn(stream),
  delivered <- [k \in 1..Len(received) |-> LineOf(received[k])],
  stopped <- Stopped,
  signalled <- gaveUp

\* Bytes, batches, reads that end anywhere and the scanner together are a
\* channel of whole lines, each delivered once, in order, up to the end
\* marker or to the end of what was sent, unless the uploader gives up.
ImplementsLineChannel == Channel!Spec

\* send --timeout is the "maximum amount of time to send arguments"
\* (send.go:40), also when nobody reads or the pipe is full: sooner or later
\* every sender whose time was over has returned.
TimeoutReturns == []<>(\A s \in expired : pc[s] = "done")

\* What is in the pipe is received by an uploader that goes on reading, until
\* it stops: neither the look-ahead for the end marker nor a full pipe holds
\* a line back.
SentArrives ==
  WF_vars(Upload) => []<>(Stopped \/ Len(received) = Len(LinesIn(stream)))
=============================================================================
