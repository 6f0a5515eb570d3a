--------------------------- MODULE SendPipeProofs ---------------------------
(***************************************************************************)
(* For every number of senders, whatever paths they were given and however *)
(* reads are cut: the types of SendPipe, that lines stay whole, that a     *)
(* send which reports success has sent everything, that none is heard of   *)
(* after it has returned, and that senders, pipe and scanner together are  *)
(* the channel of whole lines that LineChannel specifies; then, that none  *)
(* of them waits in vain.  At the end, the scanner alone, for every input. *)
(***************************************************************************)
EXTENDS SendPipe, SequenceTheorems, FiniteSetTheorems, WellFoundedInduction, TLAPS

-----------------------------------------------------------------------------
(* The scanner.                                                            *)

\* The first newline of bytes that have one is there, and is the first.
LEMMA FirstNewlineIsOne ==
  ASSUME NEW d \in Seq(Bytes), \E k \in 1..Len(d) : d[k] = "nl"
  PROVE  /\ FirstNewline(d) \in 1..Len(d)
         /\ d[FirstNewline(d)] = "nl"
         /\ \A j \in 1..(FirstNewline(d) - 1) : d[j] # "nl"
<1> DEFINE T == {k \in 1..Len(d) : d[k] = "nl"}
<1>1. T \subseteq Nat /\ T # {}
  OBVIOUS
<1>2. PICK n \in T : \A k \in T : ~ (<<k, n>> \in OpToRel(<, Nat))
  BY <1>1, NatLessThanWellFounded, WFMin
<1>3. \A k \in T : ~ (k < n)
  BY <1>1, <1>2 DEF OpToRel
<1>4. n \in 1..Len(d) /\ d[n] = "nl" /\ \A j \in 1..(n - 1) : d[j] # "nl"
  BY <1>3
<1> QED
  BY <1>4 DEF FirstNewline

\* bufio.ScanLines skips no more than it was given, and its token is at the
\* start of what it skips.
LEMMA PlainSplitShape ==
  ASSUME NEW d \in Seq(Bytes), NEW atEOF \in BOOLEAN
  PROVE  /\ PlainSplit(d, atEOF).advance \in 0..Len(d)
         /\ PlainSplit(d, atEOF).token \in
              {NoToken} \cup 0..PlainSplit(d, atEOF).advance
<1>1. Len(d) \in Nat
  OBVIOUS
<1>2. CASE \E k \in 1..Len(d) : d[k] = "nl"
  <2>1. FirstNewline(d) \in 1..Len(d)
    BY <1>2, FirstNewlineIsOne
  <2>2. DropCR(d, FirstNewline(d) - 1) \in 0..FirstNewline(d)
    BY <1>1, <2>1 DEF DropCR
  <2> QED
    BY <1>2, <2>1, <2>2 DEF PlainSplit, Result
<1>3. CASE ~ \E k \in 1..Len(d) : d[k] = "nl"
  <2>1. DropCR(d, Len(d)) \in 0..Len(d)
    BY <1>1 DEF DropCR
  <2> QED
    BY <1>1, <1>3, <2>1 DEF PlainSplit, Result, NeedMore, NoToken
<1> QED
  BY <1>2, <1>3

\* ... and neither does scanLinesWithEOF.
LEMMA SplitShape ==
  ASSUME NEW d \in Seq(Bytes), NEW atEOF \in BOOLEAN
  PROVE  /\ scanLinesWithEOF(d, atEOF).advance \in 0..Len(d)
         /\ scanLinesWithEOF(d, atEOF).token \in
              {NoToken} \cup 0..scanLinesWithEOF(d, atEOF).advance
<1> DEFINE line == PlainSplit(d, atEOF)
           split == scanLinesWithEOF(d, atEOF)
<1>1. Len(d) \in Nat
  OBVIOUS
<1>2. \/ split = Result(0, NoToken, TRUE)
      \/ split = NeedMore
      \/ split = line
      \/ split = [line EXCEPT !.final = TRUE]
  BY DEF scanLinesWithEOF
<1>3. /\ line.advance \in 0..Len(d)
      /\ line.token \in {NoToken} \cup 0..line.advance
  BY PlainSplitShape
<1>4. line = [advance |-> line.advance, token |-> line.token,
              final |-> line.final]
  BY DEF PlainSplit, Result, NeedMore
<1>5. [line EXCEPT !.final = TRUE].advance = line.advance
      /\ [line EXCEPT !.final = TRUE].token = line.token
  BY <1>4
<1> HIDE DEF line, split
<1>6. /\ Result(0, NoToken, TRUE).advance = 0
      /\ Result(0, NoToken, TRUE).token = NoToken
      /\ NeedMore.advance = 0 /\ NeedMore.token = NoToken
  BY DEF Result, NeedMore
<1>7. /\ split.advance \in 0..Len(d)
      /\ split.token \in {NoToken} \cup 0..split.advance
  <2>1. CASE split = Result(0, NoToken, TRUE) \/ split = NeedMore
    <3>1. split.advance = 0 /\ split.token = NoToken
      BY <1>6, <2>1
    <3> QED
      BY <1>1, <3>1
  <2>2. CASE split = line
    BY <1>3, <2>2
  <2>3. CASE split = [line EXCEPT !.final = TRUE]
    BY <1>3, <1>5, <2>3
  <2> QED
    BY <1>2, <2>1, <2>2, <2>3
<1> QED
  BY <1>7 DEF split

-----------------------------------------------------------------------------
(* Lines and batches.                                                      *)

\* What a sender puts out, and the bytes of a line.
LEMMA OutShape ==
  ASSUME NEW s \in Senders
  PROVE  /\ Out(s) \in Seq([len : Nat \ {0}, newline : BOOLEAN])
         /\ Len(Out(s)) \in Nat
         /\ \A i \in 1..Len(Out(s)) : Out(s)[i].len \in Nat \ {0}
<1> DEFINE P == [len : Nat \ {0}, newline : BOOLEAN]
           marker == [len |-> 1, newline |-> FALSE]
<1>1. Args[s] \in Seq(P) /\ marker \in P
  BY SendAssumption
<1>2. Out(s) \in Seq(P)
  <2>1. Append(Args[s], marker) \in Seq(P)
    BY <1>1, AppendProperties
  <2> QED
    BY <1>1, <2>1 DEF Out
<1> HIDE DEF P
<1>3. Len(Out(s)) \in Nat /\ \A i \in 1..Len(Out(s)) : Out(s)[i] \in P
  BY <1>2, ElementOfSeq, LenProperties
<1> QED
  BY <1>2, <1>3 DEF P

LEMMA LineShape ==
  ASSUME NEW s \in Senders, NEW i \in 1..Len(Out(s))
  PROVE  /\ LineBytes(s, i) \in Seq(Cells)
         /\ Len(LineBytes(s, i)) = Out(s)[i].len + 1
         /\ \A k \in 1..(Out(s)[i].len + 1) :
              LineBytes(s, i)[k] =
                Cell(s, i, IF k > Out(s)[i].len THEN "nl"
                           ELSE IF IsMarker(s, i) THEN "nul" ELSE "text")
<1>1. Out(s)[i].len + 1 \in Nat
  BY OutShape
<1>2. \A b \in Bytes : Cell(s, i, b) \in Cells
  BY DEF Cells
<1>3. \A k \in 1..(Out(s)[i].len + 1) :
        (IF k > Out(s)[i].len THEN "nl"
         ELSE IF IsMarker(s, i) THEN "nul" ELSE "text") \in Bytes
  BY DEF Bytes
<1>4. LineBytes(s, i) \in [1..(Out(s)[i].len + 1) -> Cells]
  BY <1>2, <1>3 DEF LineBytes
<1>5. LineBytes(s, i) \in Seq(Cells)
  BY <1>1, <1>4
<1> QED
  BY <1>1, <1>4, <1>5 DEF LineBytes

\* A sequence of whole lines that ends with a line.
Whole(b) ==
  /\ b \in Seq(Cells)
  /\ WholeLines(b)
  /\ b # <<>> => b[Len(b)].byte = "nl"

\* A cell knows a line that exists.
LEMMA CellShape ==
  ASSUME NEW c \in Cells
  PROVE  /\ c.from \in Senders
         /\ c.arg \in 1..Len(Out(c.from))
         /\ Out(c.from)[c.arg].len \in Nat \ {0}
BY OutShape DEF Cells, Cell

\* One line is whole, and has one newline, its last byte.
LEMMA LineIsWhole ==
  ASSUME NEW s \in Senders, NEW i \in 1..Len(Out(s))
  PROVE  /\ Whole(LineBytes(s, i))
         /\ LineBytes(s, i) # <<>>
         /\ SentLines(LineBytes(s, i)) = {Line(s, i)}
         /\ \A k \in 1..Len(LineBytes(s, i)) : LineBytes(s, i)[k].from = s
<1> DEFINE n == Out(s)[i].len
           b == LineBytes(s, i)
<1>1. n \in Nat \ {0}
  BY OutShape
<1>2. b \in Seq(Cells) /\ Len(b) = n + 1
  BY LineShape
<1>3. \A k \in 1..(n + 1) :
        /\ b[k].from = s /\ b[k].arg = i
        /\ b[k].byte = "nl" <=> k = n + 1
  <2> SUFFICES ASSUME NEW k \in 1..(n + 1)
               PROVE  /\ b[k].from = s /\ b[k].arg = i
                      /\ b[k].byte = "nl" <=> k = n + 1
    OBVIOUS
  <2>1. b[k] = Cell(s, i, IF k > n THEN "nl"
                          ELSE IF IsMarker(s, i) THEN "nul" ELSE "text")
    BY LineShape
  <2>2. k > n <=> k = n + 1
    BY <1>1
  <2> HIDE DEF b, n
  <2> QED
    BY <2>1, <2>2 DEF Cell
<1> HIDE DEF b, n
<1>4. SubSeq(b, 1, n + 1) = b
  BY <1>2, SubSeqFull
<1>5. ASSUME NEW k \in 1..Len(b), b[k].byte = "nl"
      PROVE  /\ n < k
             /\ SubSeq(b, k - n, k) = b
             /\ k > n + 1 => b[k - n - 1].byte = "nl"
  <2>1. k = n + 1 /\ k - n = 1
    BY <1>1, <1>2, <1>3, <1>5
  <2> QED
    BY <1>1, <1>4, <2>1
<1>6. WholeLines(b)
  BY <1>2, <1>3, <1>5 DEF WholeLines, b, n
<1>7. Whole(b) /\ b # <<>>
  BY <1>1, <1>2, <1>3, <1>6 DEF Whole
<1>8. SentLines(b) = {Line(s, i)}
  BY <1>1, <1>2, <1>3 DEF SentLines
<1> QED
  BY <1>2, <1>3, <1>7, <1>8 DEF b

\* Whole lines after whole lines are whole lines.
LEMMA ConcatWhole ==
  ASSUME NEW a, NEW b, Whole(a), Whole(b)
  PROVE  /\ Whole(a \o b)
         /\ SentLines(a \o b) = SentLines(a) \cup SentLines(b)
<1> DEFINE c == a \o b
<1>1. a \in Seq(Cells) /\ b \in Seq(Cells) /\ Len(a) \in Nat /\ Len(b) \in Nat
  BY DEF Whole
<1>2. /\ c \in Seq(Cells)
      /\ Len(c) = Len(a) + Len(b)
      /\ \A k \in 1..Len(a) : c[k] = a[k]
      /\ \A k \in 1..Len(b) : c[Len(a) + k] = b[k]
  BY <1>1, ConcatProperties
<1>3. ASSUME NEW k \in 1..Len(c), c[k].byte = "nl"
      PROVE  LET n == Out(c[k].from)[c[k].arg].len IN
             /\ n < k
             /\ SubSeq(c, k - n, k) = LineBytes(c[k].from, c[k].arg)
             /\ k > n + 1 => c[k - n - 1].byte = "nl"
  <2> DEFINE n == Out(c[k].from)[c[k].arg].len
  <2>0. c[k] \in Cells /\ n \in Nat
    <3>1. c[k] \in Cells
      BY <1>2, ElementOfSeq
    <3> QED
      BY <3>1, CellShape
  <2> HIDE DEF n
  <2>1. CASE k <= Len(a)
    <3>1. c[k] = a[k] /\ k \in 1..Len(a)
      BY <1>1, <1>2, <2>1
    <3>2. /\ n < k
          /\ SubSeq(a, k - n, k) = LineBytes(c[k].from, c[k].arg)
          /\ k > n + 1 => a[k - n - 1].byte = "nl"
      BY <3>1, <1>3 DEF Whole, WholeLines, n
    <3>3. SubSeq(c, k - n, k) = SubSeq(a, k - n, k)
      BY <1>1, <2>0, <3>1, <3>2, SubSeqOfConcat1
    <3>4. k > n + 1 => c[k - n - 1] = a[k - n - 1]
      BY <1>1, <1>2, <2>0, <3>1
    <3> QED
      BY <3>2, <3>3, <3>4 DEF n
  <2>2. CASE k > Len(a)
    <3> DEFINE j == k - Len(a)
    <3>1. j \in 1..Len(b) /\ k = Len(a) + j /\ c[k] = b[j]
      BY <1>1, <1>2, <2>2
    <3> HIDE DEF j
    <3>2. /\ n < j
          /\ SubSeq(b, j - n, j) = LineBytes(c[k].from, c[k].arg)
          /\ j > n + 1 => b[j - n - 1].byte = "nl"
      BY <3>1, <1>3 DEF Whole, WholeLines, n
    <3>3. SubSeq(c, k - n, k) = SubSeq(b, j - n, j)
      <4>0. /\ n \in Nat /\ Len(a) \in Nat /\ Len(b) \in Nat
            /\ j \in 1..Len(b) /\ n < j /\ k = Len(a) + j
        BY <1>1, <2>0, <3>1, <3>2
      <4>1. k - n \in Len(a) + 1..Len(a) + Len(b) /\ k \in Len(a) + 1..Len(a) + Len(b)
        BY ONLY <4>0
      <4>2. k - n - Len(a) = j - n /\ k - Len(a) = j
        BY <1>1, <2>0, <3>1
      <4>3. SubSeq(a \o b, k - n, k) = SubSeq(b, k - n - Len(a), k - Len(a))
        BY <1>1, <4>1, SubSeqOfConcat2
      <4> QED
        BY <4>2, <4>3
    <3>4. k > n + 1 => c[k - n - 1].byte = "nl"
      <4>1. CASE j > n + 1
        <5>1. c[k - n - 1] = b[j - n - 1]
          <6>1. j - n - 1 \in 1..Len(b) /\ Len(a) + (j - n - 1) = k - n - 1
            BY <1>1, <2>0, <3>1, <4>1
          <6> QED
            BY <1>2, <6>1
        <5> QED
          BY <3>2, <4>1, <5>1
      <4>2. CASE ~ (j > n + 1)
        <5>1. k - n - 1 = Len(a)
          <6>1. n < j
            BY <3>2
          <6> QED
            BY <1>1, <2>0, <3>1, <4>2, <6>1
        <5>2. k > n + 1 => a # <<>> /\ Len(a) \in 1..Len(a)
          BY <1>1, <2>0, <5>1
        <5> QED
          BY <1>2, <5>1, <5>2 DEF Whole
      <4> QED
        BY <4>1, <4>2
    <3>5. n < k
      BY <1>1, <2>0, <3>1, <3>2
    <3>6. SubSeq(c, k - n, k) = LineBytes(c[k].from, c[k].arg)
      BY <3>2, <3>3
    <3> HIDE DEF c
    <3> QED
      BY <3>4, <3>5, <3>6 DEF n
  <2>3. k <= Len(a) \/ k > Len(a)
    BY <1>1, <1>2
  <2> HIDE DEF c
  <2> QED
    BY <2>1, <2>2, <2>3
<1>4. WholeLines(c)
  BY <1>3 DEF WholeLines
<1>5. c # <<>> => c[Len(c)].byte = "nl"
  <2>1. CASE b # <<>>
    <3>1. Len(b) \in 1..Len(b)
      BY <1>1, <2>1
    <3> QED
      BY <1>2, <2>1, <3>1 DEF Whole
  <2>2. CASE b = <<>> /\ a # <<>>
    <3>1. Len(a) \in 1..Len(a) /\ Len(c) = Len(a)
      BY <1>1, <1>2, <2>2
    <3> QED
      BY <1>2, <2>2, <3>1 DEF Whole
  <2>3. CASE b = <<>> /\ a = <<>>
    BY <1>2, <2>3
  <2> QED
    BY <2>1, <2>2, <2>3
<1>6. SentLines(c) = SentLines(a) \cup SentLines(b)
  <2>1. ASSUME NEW k \in 1..Len(c), c[k].byte = "nl"
        PROVE  Line(c[k].from, c[k].arg) \in SentLines(a) \cup SentLines(b)
    <3>1. CASE k <= Len(a)
      BY <1>1, <1>2, <2>1, <3>1 DEF SentLines
    <3>2. CASE k > Len(a)
      <4>1. k - Len(a) \in 1..Len(b) /\ c[k] = b[k - Len(a)]
        BY <1>1, <1>2, <3>2
      <4> QED
        BY <2>1, <4>1 DEF SentLines
    <3> QED
      BY <1>1, <3>1, <3>2
  <2>2. ASSUME NEW k \in 1..Len(a), a[k].byte = "nl"
        PROVE  Line(a[k].from, a[k].arg) \in SentLines(c)
    <3>1. k \in 1..Len(c) /\ c[k] = a[k]
      BY <1>1, <1>2
    <3> QED
      BY <2>2, <3>1 DEF SentLines
  <2>3. ASSUME NEW k \in 1..Len(b), b[k].byte = "nl"
        PROVE  Line(b[k].from, b[k].arg) \in SentLines(c)
    <3>1. Len(a) + k \in 1..Len(c) /\ c[Len(a) + k] = b[k]
      BY <1>1, <1>2
    <3> QED
      BY <2>3, <3>1 DEF SentLines
  <2> HIDE DEF c
  <2> QED
    BY <2>1, <2>2, <2>3 DEF SentLines
<1> QED
  BY <1>2, <1>4, <1>5, <1>6 DEF Whole

LEMMA NothingIsWhole == Whole(<<>>) /\ SentLines(<<>>) = {}
BY DEF Whole, WholeLines, SentLines

-----------------------------------------------------------------------------
(* The invariant.  A batch is whole and of one sender; a write that has    *)
(* begun has the whole batch still before it, or nothing; what a sender is *)
(* past is in the pipe, in the batch, or reported.                         *)

OwnBatch(s) ==
  /\ Whole(buf[s])
  /\ \A k \in 1..Len(buf[s]) : buf[s][k].from = s

OwnWrite(s) ==
  /\ writing[s] \in {<<>>, buf[s]}
  /\ writing[s] # <<>> => pc[s] \in {"write", "close"}
  /\ pc[s] = "write" /\ writing[s] = <<>> =>
       SentLines(buf[s]) \subseteq SentLines(stream)

Accounted(s, i) ==
  failed[s] \/ Line(s, i) \in SentLines(stream) \cup SentLines(buf[s])

Progress(s) ==
  /\ pc[s] \in {"open", "loop", "write"} =>
       \A i \in 1..(next[s] - 1) : Accounted(s, i)
  /\ result[s] = "ok" =>
       /\ pc[s] \in {"close", "done"}
       /\ \A i \in 1..Len(Out(s)) : Line(s, i) \in SentLines(stream)

IInv ==
  /\ TypeOK
  /\ Whole(stream)
  /\ \A s \in Senders : OwnBatch(s) /\ OwnWrite(s) /\ Progress(s)

SenderOK(s) == OwnBatch(s) /\ OwnWrite(s) /\ Progress(s)

\* A sender whose own state a step leaves alone stays right, as the pipe
\* never forgets what was sent.
LEMMA OthersKeep ==
  ASSUME NEW s \in Senders, SenderOK(s),
         pc'[s] = pc[s], next'[s] = next[s], buf'[s] = buf[s],
         failed'[s] = failed[s], writing'[s] = writing[s],
         result'[s] = result[s],
         SentLines(stream) \subseteq SentLines(stream')
  PROVE  SenderOK(s)'
<1>1. OwnBatch(s)'
  BY DEF SenderOK, OwnBatch, Whole, WholeLines
<1>2. SentLines(buf[s])' = SentLines(buf[s])
  BY DEF SentLines
<1>3. OwnWrite(s)'
  BY <1>2 DEF SenderOK, OwnWrite
<1>4. ASSUME NEW i, Accounted(s, i)
      PROVE  Accounted(s, i)'
  BY <1>2, <1>4 DEF Accounted, Line
<1>5. Progress(s)'
  BY <1>4 DEF SenderOK, Progress, Line, Out
<1> QED
  BY <1>1, <1>3, <1>5 DEF SenderOK

LEMMA InitOK == Init => IInv
<1> SUFFICES ASSUME Init PROVE IInv
  OBVIOUS
<1>1. TypeOK
  <2>1. \A s \in Senders : 1 \in 1..(Len(Out(s)) + 1)
    BY OutShape
  <2>2. <<>> \in Seq(Cells) /\ <<>> \in Seq(Seq(Cells)) /\ Len(<<>>) = 0
    OBVIOUS
  <2>3. keepAlive \in BOOLEAN /\ gaveUp \in BOOLEAN
    BY SendAssumption, Zenon DEF Init
  <2>4. failed \in [Senders -> BOOLEAN]
    BY DEF Init
  <2> QED
    BY <2>1, <2>2, <2>3, <2>4, SendAssumption DEF Init, TypeOK, SenderStates
<1>2. Whole(stream)
  BY NothingIsWhole DEF Init
<1>3. ASSUME NEW s \in Senders
      PROVE  OwnBatch(s) /\ OwnWrite(s) /\ Progress(s)
  <2>1. OwnBatch(s)
    BY NothingIsWhole DEF Init, OwnBatch
  <2>2. OwnWrite(s)
    BY DEF Init, OwnWrite
  <2>3. Progress(s)
    BY DEF Init, Progress
  <2> QED
    BY <2>1, <2>2, <2>3
<1> QED
  BY <1>1, <1>2, <1>3 DEF IInv

-----------------------------------------------------------------------------
(* The steps of upload, which leave the senders and the pipe alone.        *)

UploadSame == UNCHANGED <<senderVars, stream>>

LEMMA UploadKeepsSenders ==
  ASSUME IInv, UploadSame, TypeOK'
  PROVE  IInv'
<1>1. Whole(stream)'
  BY DEF IInv, UploadSame, Whole, WholeLines
<1>2. ASSUME NEW s \in Senders
      PROVE  SenderOK(s)'
  <2>1. SenderOK(s)
    BY DEF IInv, SenderOK
  <2>2. SentLines(stream) \subseteq SentLines(stream')
    BY DEF UploadSame
  <2> QED
    BY <2>1, <2>2, OthersKeep DEF UploadSame, senderVars
<1> QED
  BY <1>1, <1>2 DEF IInv, SenderOK

LEMMA UnscannedShape ==
  ASSUME TypeOK
  PROVE  /\ Unscanned \in Seq(Cells)
         /\ Len(Unscanned) = got - scanned
         /\ BytesOf(Unscanned) \in Seq(Bytes)
         /\ Len(BytesOf(Unscanned)) = Len(Unscanned)
<1>1. /\ stream \in Seq(Cells)
      /\ scanned \in Nat /\ got \in Nat
      /\ scanned <= got /\ got <= Len(stream)
  BY DEF TypeOK
<1>2. \A k \in (scanned + 1)..got : stream[k] \in Cells
  BY <1>1
<1>3. /\ Unscanned \in Seq(Cells)
      /\ Len(Unscanned) = IF scanned + 1 <= got THEN got - (scanned + 1) + 1 ELSE 0
  BY <1>1, <1>2, SubSeqProperties DEF Unscanned
<1> DEFINE d == Unscanned
<1>4. d \in Seq(Cells)
  BY <1>3
<1> HIDE DEF d
<1>5. \A c \in Cells : c.byte \in Bytes
  BY DEF Cells, Cell
<1>6. BytesOf(d) \in [1..Len(d) -> Bytes] /\ Len(d) \in Nat
  BY <1>4, <1>5 DEF BytesOf
<1>7. BytesOf(d) \in Seq(Bytes) /\ Len(BytesOf(d)) = Len(d)
  BY <1>6
<1> QED
  BY <1>1, <1>3, <1>7 DEF d

LEMMA ScanKeepsTypes ==
  ASSUME TypeOK, Scan
  PROVE  TypeOK'
<1>1. PICK split \in {scanLinesWithEOF(BytesOf(Unscanned), reader = "eof")} :
        /\ scanned' = scanned + split.advance
        /\ received' =
             IF TokenLength(split) \in {NoToken, 0} THEN received
             ELSE Append(received, SubSeq(Unscanned, 1, split.token))
        /\ reader' =
             IF split.final \/ (split = NeedMore /\ reader = "eof") THEN "ended"
             ELSE IF split = NeedMore THEN "reading" ELSE reader
  BY DEF Scan
<1>2. split = scanLinesWithEOF(BytesOf(Unscanned), reader = "eof")
  OBVIOUS
<1>3. /\ split.advance \in 0..(got - scanned)
      /\ split.token \in {NoToken} \cup 0..split.advance
  BY <1>2, UnscannedShape, SplitShape
<1> HIDE <1>2
<1>4. scanned' \in Nat /\ scanned' <= got
  <2>1. scanned \in Nat /\ got \in Nat /\ scanned <= got
    BY DEF TypeOK
  <2>2. scanned' = scanned + split.advance
    BY <1>1
  <2> QED
    BY ONLY <1>3, <2>1, <2>2
<1>5. received' \in Seq(Seq(Cells))
  <2>1. CASE TokenLength(split) \in {NoToken, 0}
    BY <1>1, <2>1 DEF TypeOK
  <2>2. CASE TokenLength(split) \notin {NoToken, 0}
    <3>0. split.token # NoToken
      BY <2>2 DEF TokenLength
    <3>1. split.token \in 0..Len(Unscanned)
      <4>1. /\ Len(Unscanned) = got - scanned
            /\ got \in Nat /\ scanned \in Nat /\ scanned <= got
        BY UnscannedShape DEF TypeOK
      <4>2. split.token \in 0..split.advance
        BY <1>3, <3>0
      <4> QED
        BY ONLY <1>3, <4>1, <4>2
    <3>2. \A k \in 1..split.token : Unscanned[k] \in Cells
      BY <3>1, UnscannedShape
    <3>3. SubSeq(Unscanned, 1, split.token) \in Seq(Cells)
      BY <3>1, <3>2, SubSeqProperties
    <3>4. received \in Seq(Seq(Cells))
      BY DEF TypeOK
    <3>5. Append(received, SubSeq(Unscanned, 1, split.token)) \in Seq(Seq(Cells))
      BY <3>3, <3>4, AppendProperties
    <3> QED
      BY <1>1, <2>2, <3>5
  <2> QED
    BY <2>1, <2>2
<1>6. reader' \in {"opening", "reading", "scanning", "eof", "ended", "closed"}
  BY <1>1 DEF TypeOK, Scan
<1> QED
  BY <1>4, <1>5, <1>6 DEF TypeOK, Scan, senderVars

LEMMA UploadOK ==
  ASSUME IInv, Upload \/ GiveUp
  PROVE  IInv'
<1>1. UploadSame
  BY DEF Upload, OpenInput, Read, ReadEOF, Scan, CloseInput, GiveUp, UploadSame,
         senderVars
<1>2. TypeOK'
  <2>1. CASE OpenInput
    BY <2>1 DEF IInv, TypeOK, OpenInput, senderVars
  <2>2. CASE Read
    BY <2>2 DEF IInv, TypeOK, Read, senderVars
  <2>3. CASE ReadEOF
    BY <2>3 DEF IInv, TypeOK, ReadEOF, senderVars
  <2>4. CASE Scan
    BY <2>4, ScanKeepsTypes DEF IInv
  <2>5. CASE CloseInput
    BY <2>5 DEF IInv, TypeOK, CloseInput, senderVars
  <2>6. CASE GiveUp
    BY <2>6 DEF IInv, TypeOK, GiveUp, senderVars
  <2> QED
    BY <2>1, <2>2, <2>3, <2>4, <2>5, <2>6 DEF Upload
<1> QED
  BY <1>1, <1>2, UploadKeepsSenders

-----------------------------------------------------------------------------
(* The steps of a sender.                                                  *)

OthersSame(s) ==
  \A r \in Senders \ {s} :
    /\ pc'[r] = pc[r] /\ next'[r] = next[r] /\ buf'[r] = buf[r]
    /\ failed'[r] = failed[r] /\ writing'[r] = writing[r]
    /\ result'[r] = result[r]

LEMMA OneSenderMoves ==
  ASSUME IInv, NEW s \in Senders, TypeOK', Whole(stream)', SenderOK(s)',
         OthersSame(s), SentLines(stream) \subseteq SentLines(stream')
  PROVE  IInv'
<1>1. ASSUME NEW r \in Senders PROVE SenderOK(r)'
  <2>1. CASE r = s
    BY <2>1
  <2>2. CASE r # s
    <3>1. SenderOK(r)
      BY DEF IInv, SenderOK
    <3> QED
      BY <2>2, <3>1, OthersKeep DEF OthersSame
  <2> QED
    BY <2>1, <2>2
<1> QED
  BY <1>1 DEF IInv, SenderOK

\* The state of a sender that a step of its does not touch.
LEMMA WholeStreamSame ==
  ASSUME IInv, UNCHANGED stream
  PROVE  /\ Whole(stream)'
         /\ SentLines(stream') = SentLines(stream)
BY DEF IInv, Whole, WholeLines

LEMMA BatchSame ==
  ASSUME IInv, NEW s \in Senders, buf'[s] = buf[s]
  PROVE  /\ OwnBatch(s)'
         /\ SentLines(buf[s])' = SentLines(buf[s])
<1>1. Whole(buf[s]) /\ \A k \in 1..Len(buf[s]) : buf[s][k].from = s
  BY DEF IInv, OwnBatch
<1>2. Whole(buf'[s]) /\ \A k \in 1..Len(buf'[s]) : buf'[s][k].from = s
  BY <1>1
<1>3. SentLines(buf'[s]) = SentLines(buf[s])
  OBVIOUS
<1>4. OwnBatch(s)'
  BY <1>2 DEF OwnBatch, Whole, WholeLines
<1>5. SentLines(buf[s])' = SentLines(buf[s])
  BY <1>3 DEF SentLines
<1> QED
  BY <1>4, <1>5

LEMMA SenderTypes ==
  ASSUME TypeOK, NEW s \in Senders
  PROVE  /\ next[s] \in Nat /\ next[s] \in 1..(Len(Out(s)) + 1)
         /\ Len(Out(s)) \in Nat
         /\ buf[s] \in Seq(Cells) /\ Len(buf[s]) \in Nat
         /\ Len(buf[s]) <= PipeBufSize /\ PipeBufSize \in Nat
         /\ failed[s] \in BOOLEAN
BY OutShape, SendAssumption DEF TypeOK

LEMMA OpenOK ==
  ASSUME IInv, NEW s \in Senders, Open(s)
  PROVE  IInv'
<1>1. TypeOK'
  BY DEF IInv, TypeOK, Open, Move, SenderStates, readerVars
<1>2. OthersSame(s) /\ pc'[s] = "loop"
  BY DEF IInv, TypeOK, Open, Move, OthersSame
<1>3. OwnWrite(s)'
  BY <1>2 DEF IInv, OwnWrite, Open
<1>4. Progress(s)'
  BY <1>2 DEF IInv, Progress, Accounted, Open
<1> QED
  BY <1>1, <1>2, <1>3, <1>4, WholeStreamSame, BatchSame, OneSenderMoves
     DEF Open, SenderOK

LEMMA OpenAbandonedOK ==
  ASSUME IInv, NEW s \in Senders, OpenAbandoned(s)
  PROVE  IInv'
<1>1. TypeOK'
  BY DEF IInv, TypeOK, OpenAbandoned, Move, Return, SenderStates, readerVars
<1>2. OthersSame(s) /\ pc'[s] = "done" /\ result'[s] = "error"
  BY DEF IInv, TypeOK, OpenAbandoned, Move, Return, OthersSame
<1>3. OwnWrite(s)'
  BY <1>2 DEF IInv, OwnWrite, OpenAbandoned
<1>4. Progress(s)'
  BY <1>2 DEF Progress
<1> QED
  BY <1>1, <1>2, <1>3, <1>4, WholeStreamSame, BatchSame, OneSenderMoves
     DEF OpenAbandoned, SenderOK

LEMMA SkipOK ==
  ASSUME IInv, NEW s \in Senders, Skip(s)
  PROVE  IInv'
<1>0. next[s] + 1 \in 1..(Len(Out(s)) + 1) /\ next[s] + 1 \in Nat
  BY SenderTypes DEF IInv, Skip, More
<1>1. TypeOK'
  BY <1>0 DEF IInv, TypeOK, Skip, Move, SenderStates, readerVars
<1>2. OthersSame(s) /\ failed'[s] = TRUE
  BY DEF IInv, TypeOK, Skip, OthersSame
<1>3. OwnWrite(s)'
  BY BatchSame DEF IInv, OwnWrite, Skip
<1>4. Progress(s)'
  BY <1>2 DEF IInv, Progress, Accounted, Skip
<1> QED
  BY <1>1, <1>2, <1>3, <1>4, WholeStreamSame, BatchSame, OneSenderMoves
     DEF Skip, SenderOK

LEMMA AddOK ==
  ASSUME IInv, NEW s \in Senders, Add(s)
  PROVE  IInv'
<1> DEFINE line == LineBytes(s, next[s])
           i == next[s]
<1>0. i + 1 \in 1..(Len(Out(s)) + 1) /\ i + 1 \in Nat /\ i \in 1..Len(Out(s))
  BY SenderTypes DEF IInv, Add, More
<1>1. /\ buf'[s] = buf[s] \o line
      /\ next'[s] = i + 1
      /\ OthersSame(s)
  BY DEF IInv, TypeOK, Add, OthersSame
<1>2. Whole(buf[s]) /\ \A k \in 1..Len(buf[s]) : buf[s][k].from = s
  BY DEF IInv, OwnBatch
<1>3. /\ Whole(line)
      /\ SentLines(line) = {Line(s, i)}
      /\ \A k \in 1..Len(line) : line[k].from = s
  BY <1>0, LineIsWhole
<1>4. line \in Seq(Cells) /\ Len(line) = LineSize(s)
  BY <1>0, LineShape DEF LineSize
<1> HIDE DEF line
<1>5. /\ Whole(buf[s] \o line)
      /\ SentLines(buf[s] \o line) = SentLines(buf[s]) \cup {Line(s, i)}
  BY <1>2, <1>3, ConcatWhole
<1>6. /\ buf[s] \o line \in Seq(Cells)
      /\ Len(buf[s] \o line) = Len(buf[s]) + LineSize(s)
      /\ \A k \in 1..Len(buf[s] \o line) : (buf[s] \o line)[k].from = s
  <2>1. buf[s] \in Seq(Cells) /\ Len(buf[s]) \in Nat /\ Len(line) \in Nat
    BY <1>4, SenderTypes DEF IInv
  <2>2. /\ buf[s] \o line \in Seq(Cells)
        /\ Len(buf[s] \o line) = Len(buf[s]) + Len(line)
        /\ \A k \in 1..(Len(buf[s]) + Len(line)) : (buf[s] \o line)[k] =
              IF k <= Len(buf[s]) THEN buf[s][k] ELSE line[k - Len(buf[s])]
    BY <1>4, <2>1, ConcatProperties
  <2>3. ASSUME NEW k \in 1..(Len(buf[s]) + Len(line))
        PROVE  (buf[s] \o line)[k].from = s
    <3>1. CASE k <= Len(buf[s])
      BY <1>2, <2>1, <2>2, <3>1
    <3>2. CASE k > Len(buf[s])
      <4>1. k - Len(buf[s]) \in 1..Len(line)
        BY <2>1, <3>2
      <4>2. (buf[s] \o line)[k] = line[k - Len(buf[s])]
        BY <2>1, <2>2, <3>2
      <4> QED
        BY <1>3, <4>1, <4>2
    <3>3. k <= Len(buf[s]) \/ k > Len(buf[s])
      BY <2>1
    <3> QED
      BY <3>1, <3>2, <3>3
  <2> QED
    BY <1>4, <2>2, <2>3
<1>7. TypeOK'
  <2>1. next' \in [Senders -> Nat] /\ \A r \in Senders : next'[r] \in 1..(Len(Out(r)) + 1)
    BY <1>0 DEF IInv, TypeOK, Add
  <2>2. /\ buf' \in [Senders -> Seq(Cells)]
        /\ \A r \in Senders : Len(buf'[r]) <= PipeBufSize
    BY <1>1, <1>6 DEF IInv, TypeOK, Add, Fits, OthersSame, line
  <2> QED
    BY <2>1, <2>2 DEF IInv, TypeOK, Add, readerVars
<1>8. OwnBatch(s)'
  <2>1. Whole(buf'[s]) /\ \A k \in 1..Len(buf'[s]) : buf'[s][k].from = s
    BY <1>1, <1>5, <1>6
  <2> QED
    BY <2>1 DEF OwnBatch, Whole, WholeLines
<1>9. OwnWrite(s)'
  <2>1. pc[s] = "loop" /\ pc'[s] = "loop" /\ writing[s] = <<>> /\ writing'[s] = <<>>
    BY DEF IInv, OwnWrite, Add
  <2> QED
    BY <2>1 DEF OwnWrite
<1>10. Progress(s)'
  <2>1. pc[s] = "loop" /\ pc'[s] = "loop" /\ result'[s] = result[s] /\ result[s] # "ok"
    BY DEF IInv, Progress, Add
  <2>2. SentLines(buf[s])' = SentLines(buf[s]) \cup {Line(s, i)}
    BY <1>1, <1>5 DEF SentLines
  <2>3. ASSUME NEW j \in 1..i PROVE Accounted(s, j)'
    <3>1. j = i \/ j \in 1..(i - 1)
      BY <1>0
    <3>2. CASE j = i
      BY <2>2, <3>2 DEF Accounted, Line
    <3>3. CASE j \in 1..(i - 1)
      <4>1. Accounted(s, j)
        BY <2>1, <3>3 DEF IInv, Progress
      <4> QED
        BY <2>2, <4>1 DEF Accounted, Add, Line
    <3> QED
      BY <3>1, <3>2, <3>3
  <2>4. next'[s] - 1 = i
    BY <1>0, <1>1
  <2> HIDE DEF i
  <2> QED
    BY <2>1, <2>3, <2>4 DEF Progress
<1> QED
  BY <1>1, <1>7, <1>8, <1>9, <1>10, WholeStreamSame, OneSenderMoves
     DEF Add, SenderOK

LEMMA WriteOK ==
  ASSUME IInv, NEW s \in Senders, Write(s)
  PROVE  IInv'
<1>1. TypeOK'
  BY DEF IInv, TypeOK, Write, Move, SenderStates, readerVars
<1>2. OthersSame(s) /\ pc'[s] = "write" /\ writing'[s] = buf[s]
  BY DEF IInv, TypeOK, Write, Move, OthersSame
<1>3. OwnWrite(s)'
  <2>1. writing'[s] = <<>> => SentLines(buf[s]) = {}
    BY <1>2, NothingIsWhole
  <2>2. SentLines(buf[s])' = SentLines(buf[s]) /\ buf'[s] = buf[s]
    BY BatchSame DEF Write
  <2> QED
    BY <1>2, <2>1, <2>2 DEF OwnWrite
<1>4. Progress(s)'
  <2>1. SentLines(buf[s])' = SentLines(buf[s])
    BY BatchSame DEF Write
  <2> QED
    BY <1>2, <2>1 DEF IInv, Progress, Accounted, Write
<1> QED
  BY <1>1, <1>2, <1>3, <1>4, WholeStreamSame, BatchSame, OneSenderMoves
     DEF Write, SenderOK

LEMMA WrittenOK ==
  ASSUME IInv, NEW s \in Senders, Written(s)
  PROVE  IInv'
<1>1. TypeOK'
  <2>1. <<>> \in Seq(Cells) /\ Len(<<>>) = 0
    OBVIOUS
  <2> QED
    BY <2>1, SendAssumption
       DEF IInv, TypeOK, Written, Move, SenderStates, readerVars
<1>2. OthersSame(s) /\ pc'[s] = "loop" /\ buf'[s] = <<>>
  BY DEF IInv, TypeOK, Written, Move, OthersSame
<1>3. OwnWrite(s)'
  BY <1>2 DEF OwnWrite, Written
<1>4. OwnBatch(s)'
  <2>1. Whole(buf'[s]) /\ \A k \in 1..Len(buf'[s]) : buf'[s][k].from = s
    BY <1>2, NothingIsWhole
  <2> QED
    BY <2>1 DEF OwnBatch, Whole, WholeLines
<1>5. Progress(s)'
  <2>1. SentLines(buf[s]) \subseteq SentLines(stream)
    BY DEF IInv, OwnWrite, Written
  <2>2. pc[s] = "write" /\ result'[s] = result[s] /\ result[s] # "ok"
        /\ next'[s] = next[s]
    BY DEF IInv, Progress, Written
  <2>3. ASSUME NEW i \in 1..(next[s] - 1) PROVE Accounted(s, i)'
    <3>1. Accounted(s, i)
      BY <2>2 DEF IInv, Progress
    <3> QED
      BY <2>1, <3>1 DEF Accounted, Written
  <2> QED
    BY <1>2, <2>2, <2>3 DEF Progress
<1> QED
  BY <1>1, <1>2, <1>3, <1>4, <1>5, WholeStreamSame, OneSenderMoves
     DEF Written, SenderOK

LEMMA WriteFailsOK ==
  ASSUME IInv, NEW s \in Senders, WriteFails(s)
  PROVE  IInv'
<1>1. TypeOK'
  BY DEF IInv, TypeOK, WriteFails, Move, Return, SenderStates, readerVars
<1>2. OthersSame(s) /\ pc'[s] = "close" /\ result'[s] = "error"
  BY DEF IInv, TypeOK, WriteFails, Move, Return, OthersSame
<1>3. OwnWrite(s)'
  BY <1>2 DEF IInv, OwnWrite, WriteFails
<1>4. Progress(s)'
  BY <1>2 DEF Progress
<1> QED
  BY <1>1, <1>2, <1>3, <1>4, WholeStreamSame, BatchSame, OneSenderMoves
     DEF WriteFails, SenderOK

LEMMA FinishOK ==
  ASSUME IInv, NEW s \in Senders, Finish(s)
  PROVE  IInv'
<1>1. TypeOK'
  BY DEF IInv, TypeOK, Finish, Move, Return, SenderStates, readerVars
<1>2. /\ OthersSame(s) /\ pc'[s] = "close"
      /\ result'[s] = IF failed[s] THEN "error" ELSE "ok"
  BY DEF IInv, TypeOK, Finish, Move, Return, OthersSame
<1>3. OwnWrite(s)'
  BY <1>2 DEF IInv, OwnWrite, Finish
<1>4. Progress(s)'
  <2>1. ASSUME ~ failed[s], NEW i \in 1..Len(Out(s))
        PROVE  Line(s, i) \in SentLines(stream)
    <3>1. i \in 1..(next[s] - 1)
      BY SenderTypes DEF IInv, Finish, More
    <3>2. Accounted(s, i)
      BY <3>1 DEF IInv, Progress, Finish
    <3>3. SentLines(buf[s]) = {}
      BY NothingIsWhole DEF Finish
    <3> QED
      BY <2>1, <3>2, <3>3 DEF Accounted
  <2>2. SentLines(stream') = SentLines(stream)
    BY WholeStreamSame DEF Finish
  <2> QED
    BY <1>2, <2>1, <2>2 DEF Progress, Line, Out
<1> QED
  BY <1>1, <1>2, <1>3, <1>4, WholeStreamSame, BatchSame, OneSenderMoves
     DEF Finish, SenderOK

LEMMA CloseOK ==
  ASSUME IInv, NEW s \in Senders, Close(s)
  PROVE  IInv'
<1>1. TypeOK'
  <2>1. <<>> \in Seq(Cells)
    OBVIOUS
  <2> QED
    BY <2>1 DEF IInv, TypeOK, Close, Move, SenderStates, readerVars
<1>2. OthersSame(s) /\ pc'[s] = "done" /\ writing'[s] = <<>>
  BY DEF IInv, TypeOK, Close, Move, OthersSame
<1>3. OwnWrite(s)'
  BY <1>2 DEF OwnWrite
<1>4. Progress(s)'
  BY <1>2, WholeStreamSame DEF IInv, Progress, Close, Line, Out
<1> QED
  BY <1>1, <1>2, <1>3, <1>4, WholeStreamSame, BatchSame, OneSenderMoves
     DEF Close, SenderOK

LEMMA ExpireOK ==
  ASSUME IInv, NEW s \in Senders, Expire(s)
  PROVE  IInv'
<1>1. TypeOK'
  BY DEF IInv, TypeOK, Expire, senderVars, readerVars
<1>2. UploadSame
  BY DEF Expire, UploadSame
<1> QED
  BY <1>1, <1>2, UploadKeepsSenders

\* A write has its whole batch still before it, which is small enough to go
\* into the pipe at once.
LEMMA TakesTheBatch ==
  ASSUME IInv, NEW s \in Senders, PipeTakes(s)
  PROVE  /\ stream' = stream \o buf[s]
         /\ writing' = [writing EXCEPT ![s] = <<>>]
         /\ writing[s] = buf[s]
<1>1. writing[s] = buf[s]
  BY DEF IInv, OwnWrite, PipeTakes
<1>2. /\ buf[s] \in Seq(Cells) /\ Len(buf[s]) \in Nat
      /\ Len(buf[s]) <= AtomicSize
  BY SenderTypes, SendAssumption DEF IInv
<1>3. Portions(writing[s]) = {Len(buf[s])}
  BY <1>1, <1>2 DEF Portions
<1>4. SubSeq(buf[s], 1, Len(buf[s])) = buf[s]
  BY <1>2, SubSeqFull
<1>5. SubSeq(buf[s], Len(buf[s]) + 1, Len(buf[s])) = <<>>
  BY <1>2, SubSeqEmpty
<1>6. writing' = [writing EXCEPT ![s] = Rest(writing[s], Len(buf[s]))]
  BY <1>3 DEF PipeTakes
<1> QED
  BY <1>1, <1>3, <1>4, <1>5, <1>6 DEF PipeTakes, Rest

LEMMA PipeTakesOK ==
  ASSUME IInv, NEW s \in Senders, PipeTakes(s)
  PROVE  IInv'
<1>1. Whole(stream) /\ Whole(buf[s])
  BY DEF IInv, OwnBatch
<1>2. /\ Whole(stream \o buf[s])
      /\ SentLines(stream \o buf[s]) = SentLines(stream) \cup SentLines(buf[s])
  BY <1>1, ConcatWhole
<1>3. Whole(stream)' /\ SentLines(stream') = SentLines(stream) \cup SentLines(buf[s])
  BY <1>2, TakesTheBatch DEF Whole, WholeLines
<1>4. OthersSame(s) /\ writing'[s] = <<>>
  BY TakesTheBatch DEF IInv, TypeOK, PipeTakes, OthersSame
<1>5. TypeOK'
  <2>1. /\ stream' \in Seq(Cells)
        /\ Len(stream') = Len(stream) + Len(buf[s])
        /\ Len(stream) \in Nat /\ Len(buf[s]) \in Nat
    <3>1. stream \in Seq(Cells) /\ buf[s] \in Seq(Cells)
      BY <1>1 DEF Whole
    <3>2. /\ stream \o buf[s] \in Seq(Cells)
          /\ Len(stream \o buf[s]) = Len(stream) + Len(buf[s])
      BY <3>1, ConcatProperties
    <3> QED
      BY <3>1, <3>2, TakesTheBatch, LenProperties
  <2>2. writing' \in [Senders -> Seq(Cells)]
    <3>1. <<>> \in Seq(Cells)
      OBVIOUS
    <3> QED
      BY <3>1, TakesTheBatch DEF IInv, TypeOK
  <2>3. got <= Len(stream')
    BY <2>1 DEF IInv, TypeOK
  <2> QED
    BY <2>1, <2>2, <2>3 DEF IInv, TypeOK, PipeTakes, readerVars
<1>6. OwnWrite(s)'
  <2>1. SentLines(buf[s])' = SentLines(buf[s])
    BY BatchSame DEF PipeTakes
  <2> QED
    BY <1>3, <1>4, <2>1 DEF OwnWrite
<1>7. Progress(s)'
  <2>1. SentLines(buf[s])' = SentLines(buf[s])
    BY BatchSame DEF PipeTakes
  <2> QED
    BY <1>3, <2>1 DEF IInv, Progress, Accounted, PipeTakes, Line, Out
<1>8. OwnBatch(s)'
  BY BatchSame DEF PipeTakes
<1> QED
  BY <1>3, <1>4, <1>5, <1>6, <1>7, <1>8, OneSenderMoves DEF SenderOK

-----------------------------------------------------------------------------
LEMMA StutterOK ==
  ASSUME IInv, UNCHANGED vars
  PROVE  IInv'
<1>1. TypeOK'
  BY DEF IInv, TypeOK, vars, senderVars, readerVars
<1>2. UploadSame
  BY DEF vars, UploadSame
<1> QED
  BY <1>1, <1>2, UploadKeepsSenders

LEMMA StepOK == IInv /\ [Next]_vars => IInv'
<1> SUFFICES ASSUME IInv, [Next]_vars PROVE IInv'
  OBVIOUS
<1>1. ASSUME NEW s \in Senders, Sender(s) PROVE IInv'
  <2>1. CASE Open(s)
    BY <2>1, OpenOK
  <2>2. CASE OpenAbandoned(s)
    BY <2>2, OpenAbandonedOK
  <2>3. CASE Skip(s)
    BY <2>3, SkipOK
  <2>4. CASE Add(s)
    BY <2>4, AddOK
  <2>5. CASE Write(s)
    BY <2>5, WriteOK
  <2>6. CASE Written(s)
    BY <2>6, WrittenOK
  <2>7. CASE WriteFails(s)
    BY <2>7, WriteFailsOK
  <2>8. CASE Finish(s)
    BY <2>8, FinishOK
  <2>9. CASE Close(s)
    BY <2>9, CloseOK
  <2> QED
    BY <1>1, <2>1, <2>2, <2>3, <2>4, <2>5, <2>6, <2>7, <2>8, <2>9 DEF Sender
<1>2. CASE \E s \in Senders : Expire(s)
  BY <1>2, ExpireOK
<1>3. CASE \E s \in Senders : PipeTakes(s)
  BY <1>3, PipeTakesOK
<1>4. CASE Upload \/ GiveUp
  BY <1>4, UploadOK
<1>5. CASE UNCHANGED vars
  BY <1>5, StutterOK
<1> QED
  BY <1>1, <1>2, <1>3, <1>4, <1>5 DEF Next

THEOREM SendInvariant == Spec => []IInv
<1> QED
  BY InitOK, StepOK, PTL DEF Spec

\* The bounds of every variable: above all, a batch never outgrows its
\* buffer, and the scanner never what was read.
THEOREM SendTypeCorrect == Spec => []TypeOK
<1>1. IInv => TypeOK
  BY DEF IInv
<1> QED
  BY <1>1, SendInvariant, PTL

\* However many senders write at once, the pipe holds whole lines.
THEOREM LinesStayWhole == Spec => []StreamWhole
<1>1. IInv => StreamWhole
  BY DEF IInv, Whole, StreamWhole
<1> QED
  BY <1>1, SendInvariant, PTL

\* A sender that reports success has put every one of its lines into the
\* pipe.
THEOREM SuccessIsHonest == Spec => []SuccessMeansSent
<1>1. IInv => SuccessMeansSent
  BY DEF IInv, Progress, SuccessMeansSent
<1> QED
  BY <1>1, SendInvariant, PTL

\* After a sender has returned, no byte of it enters the pipe.
THEOREM ReturnedSendersAreSilent == Spec => SilentAfterReturn
<1> DEFINE A == \A k \in (Len(stream) + 1)..Len(stream') :
                  pc[stream'[k].from] # "done"
<1>1. ASSUME IInv, Next PROVE [A]_vars
  <2>1. CASE UNCHANGED stream
    <3>1. Len(stream) \in Nat
      BY <1>1 DEF IInv, TypeOK
    <3> QED
      BY <2>1, <3>1
  <2>2. ASSUME NEW s \in Senders, PipeTakes(s) PROVE A
    <3>1. /\ stream' = stream \o buf[s]
          /\ stream \in Seq(Cells) /\ buf[s] \in Seq(Cells)
      BY <1>1, <2>2, TakesTheBatch DEF IInv, TypeOK
    <3>2. pc[s] # "done" /\ \A k \in 1..Len(buf[s]) : buf[s][k].from = s
      BY <1>1, <2>2 DEF IInv, OwnBatch, OwnWrite, PipeTakes
    <3>3. ASSUME NEW k \in (Len(stream) + 1)..Len(stream')
          PROVE  stream'[k].from = s
      <4>1. k - Len(stream) \in 1..Len(buf[s])
            /\ stream'[k] = buf[s][k - Len(stream)]
        BY <3>1, ConcatProperties
      <4> QED
        BY <3>2, <4>1
    <3> QED
      BY <3>2, <3>3
  <2>3. UNCHANGED stream \/ \E s \in Senders : PipeTakes(s)
    BY <1>1 DEF Next, Sender, Open, OpenAbandoned, Skip, Add, Write, Written,
                WriteFails, Finish, Close, Expire, Upload, OpenInput, Read,
                ReadEOF, Scan, CloseInput, GiveUp
  <2> QED
    BY <2>1, <2>2, <2>3
<1>2. IInv /\ [Next]_vars => [A]_vars
  BY <1>1
<1> QED
  BY <1>2, SendInvariant, PTL DEF Spec, SilentAfterReturn

-----------------------------------------------------------------------------
(* The lines that end in a sequence of bytes, in the order in which they   *)
(* do.                                                                     *)

\* Moving a finite set of numbers does not change how many there are.
LEMMA ShiftedSet ==
  ASSUME NEW T \in SUBSET Nat, IsFiniteSet(T), NEW x \in Nat
  PROVE  /\ IsFiniteSet({x + m : m \in T})
         /\ Cardinality({x + m : m \in T}) = Cardinality(T)
<1> DEFINE S == {x + m : m \in T}
           f == [m \in T |-> x + m]
<1>1. f \in Bijection(T, S)
  <2>1. f \in Injection(T, S)
    BY DEF Injection, IsInjective
  <2>2. f \in Surjection(T, S)
    BY DEF Surjection
  <2> QED
    BY <2>1, <2>2 DEF Bijection
<1>2. ExistsBijection(T, S)
  BY <1>1 DEF ExistsBijection
<1> QED
  BY <1>2, FS_Bijection

\* The ranks of the newlines are 1, 2, 3 and so on, in their order.
LEMMA Ranks ==
  ASSUME NEW b \in Seq(Cells)
  PROVE  /\ IsFiniteSet(NewlinesIn(b)) /\ Cardinality(NewlinesIn(b)) \in Nat
         /\ \A k \in NewlinesIn(b) :
              Rank(b, k) \in 1..Cardinality(NewlinesIn(b))
         /\ \A j, k \in NewlinesIn(b) : j < k => Rank(b, j) < Rank(b, k)
         /\ \A n \in 1..Cardinality(NewlinesIn(b)) :
              \E k \in NewlinesIn(b) : Rank(b, k) = n
<1> DEFINE N == NewlinesIn(b)
           U(k) == {j \in N : j <= k}
           c == Cardinality(N)
<1>1. Len(b) \in Nat /\ N \in SUBSET (1..Len(b))
  BY DEF NewlinesIn
<1> HIDE DEF N
<1>2. IsFiniteSet(N) /\ c \in Nat
  <2>1. IsFiniteSet(1..Len(b))
    BY <1>1, FS_Interval
  <2>2. IsFiniteSet(N)
    BY <1>1, <2>1, FS_Subset
  <2> QED
    BY <2>2, FS_CardinalityType
<1>3. \A k : /\ IsFiniteSet(U(k)) /\ Cardinality(U(k)) \in Nat
             /\ Cardinality(U(k)) <= c
  BY <1>2, FS_Subset, FS_CardinalityType
<1>4. \A k : Rank(b, k) = Cardinality(U(k))
  BY DEF Rank, N
<1>5. ASSUME NEW k \in N PROVE Rank(b, k) \in 1..c
  <2>1. k \in U(k)
    BY <1>1
  <2>2. Cardinality(U(k)) # 0
    BY <1>3, <2>1, FS_EmptySet
  <2> QED
    BY <1>2, <1>3, <1>4, <2>2
<1>6. ASSUME NEW j \in N, NEW k \in N, j < k PROVE Rank(b, j) < Rank(b, k)
  <2>1. \A m \in N : m \in Int
    BY <1>1
  <2>2. k \in U(k) /\ k \notin U(j) /\ U(j) \in SUBSET U(k)
    BY <1>6, <2>1
  <2>3. Cardinality(U(j)) <= Cardinality(U(k)) /\ Cardinality(U(j)) # Cardinality(U(k))
    BY <1>3, <2>2, FS_Subset
  <2> HIDE DEF U
  <2> QED
    BY <1>3, <1>4, <2>3
<1>7. ASSUME NEW n \in 1..c PROVE \E k \in N : Rank(b, k) = n
  <2> DEFINE f == [k \in N |-> Rank(b, k)]
  <2>1. f \in [N -> 1..c]
    BY <1>5
  <2>2. \A j, k \in N : f[j] = f[k] => j = k
    <3>1. \A j, k \in N : j \in Int /\ k \in Int
      BY <1>1
    <3>2. \A j \in N : Rank(b, j) \in Int
      BY <1>5
    <3> QED
      BY <1>6, <3>1, <3>2
  <2>3. f \in Injection(N, 1..c)
    BY <2>1, <2>2 DEF Injection, IsInjective
  <2>4. IsFiniteSet(1..c) /\ Cardinality(1..c) = c
    BY <1>2, FS_Interval
  <2>5. f \in Surjection(N, 1..c)
    BY <2>3, <2>4, FS_Injection
  <2> QED
    BY <2>5 DEF Surjection
<1> QED
  BY <1>2, <1>5, <1>6, <1>7 DEF N

\* LinesIn puts the line that ends with the n-th newline in place n.
LEMMA LinesShape ==
  ASSUME NEW b \in Seq(Cells)
  PROVE  /\ LinesIn(b) \in Seq(Lines)
         /\ Len(LinesIn(b)) = Cardinality(NewlinesIn(b))
         /\ \A k \in NewlinesIn(b) :
              LinesIn(b)[Rank(b, k)] = Line(b[k].from, b[k].arg)
<1> DEFINE N == NewlinesIn(b)
           c == Cardinality(N)
           at(n) == CHOOSE j \in N : Rank(b, j) = n
<1>1. \A n \in 1..c : at(n) \in N /\ Rank(b, at(n)) = n
  BY Ranks
<1>2. \A k \in N : at(Rank(b, k)) = k
  <2> SUFFICES ASSUME NEW k \in N PROVE at(Rank(b, k)) = k
    OBVIOUS
  <2> DEFINE j == at(Rank(b, k))
  <2>1. Rank(b, k) \in 1..c /\ c \in Nat
    BY Ranks
  <2>2. j \in N /\ Rank(b, j) = Rank(b, k)
    BY <1>1, <2>1
  <2> HIDE DEF j
  <2>3. j \in Int /\ k \in Int
    BY <2>2 DEF NewlinesIn
  <2>4. ~ (j < k) /\ ~ (k < j)
    BY <2>1, <2>2, Ranks
  <2> QED
    BY <2>3, <2>4 DEF j
<1>3. \A k \in N : Line(b[k].from, b[k].arg) \in Lines
  BY CellShape DEF NewlinesIn, Lines
<1>4. LinesIn(b) = [n \in 1..c |-> Line(b[at(n)].from, b[at(n)].arg)]
  BY DEF LinesIn
<1> HIDE DEF at
<1>5. c \in Nat /\ LinesIn(b) \in [1..c -> Lines]
  BY <1>1, <1>3, <1>4, Ranks
<1>6. LinesIn(b) \in Seq(Lines) /\ Len(LinesIn(b)) = c
  BY <1>5
<1>7. \A k \in N : LinesIn(b)[Rank(b, k)] = Line(b[k].from, b[k].arg)
  BY <1>2, <1>4, Ranks
<1> QED
  BY <1>2, <1>6, <1>7

\* The lines in a sequence are those that SentLines collects.
LEMMA LinesAreSent ==
  ASSUME NEW b \in Seq(Cells)
  PROVE  SentLines(b) = {LinesIn(b)[n] : n \in 1..Len(LinesIn(b))}
<1>1. SentLines(b) = {Line(b[k].from, b[k].arg) : k \in NewlinesIn(b)}
  BY DEF SentLines, NewlinesIn
<1>2. ASSUME NEW k \in NewlinesIn(b)
      PROVE  Line(b[k].from, b[k].arg) \in {LinesIn(b)[n] : n \in 1..Len(LinesIn(b))}
  BY Ranks, LinesShape
<1>3. ASSUME NEW n \in 1..Len(LinesIn(b))
      PROVE  LinesIn(b)[n] \in SentLines(b)
  <2>1. PICK k \in NewlinesIn(b) : Rank(b, k) = n
    BY Ranks, LinesShape
  <2> QED
    BY <1>1, <2>1, LinesShape
<1> QED
  BY <1>1, <1>2, <1>3

\* The lines of one sequence after another are the lines of the one, and
\* then those of the other.
LEMMA LinesOfConcat ==
  ASSUME NEW a \in Seq(Cells), NEW b \in Seq(Cells)
  PROVE  LinesIn(a \o b) = LinesIn(a) \o LinesIn(b)
<1> DEFINE c == a \o b
           A == NewlinesIn(a)
           B == NewlinesIn(b)
           n == Len(a)
           Moved(T) == {n + m : m \in T}
           U(N, k) == {j \in N : j <= k}
<1>1. /\ c \in Seq(Cells) /\ n \in Nat /\ Len(b) \in Nat
      /\ Len(c) = n + Len(b)
      /\ \A k \in 1..n : c[k] = a[k]
      /\ \A k \in 1..Len(b) : c[n + k] = b[k]
  BY ConcatProperties
<1>2. /\ A \in SUBSET Nat /\ \A k \in A : k \in 1..n
      /\ B \in SUBSET Nat /\ \A k \in B : k \in 1..Len(b)
  BY <1>1 DEF NewlinesIn
<1>3. /\ IsFiniteSet(A) /\ Cardinality(A) \in Nat
      /\ IsFiniteSet(B) /\ Cardinality(B) \in Nat
  BY Ranks
<1>4. NewlinesIn(c) = A \cup Moved(B)
  <2>1. ASSUME NEW k \in NewlinesIn(c) PROVE k \in A \cup Moved(B)
    <3>1. k \in 1..Len(c) /\ c[k].byte = "nl"
      BY <2>1 DEF NewlinesIn
    <3> HIDE DEF c
    <3>2. CASE k <= n
      BY <1>1, <3>1, <3>2 DEF NewlinesIn
    <3>3. CASE ~ (k <= n)
      <4>1. k - n \in 1..Len(b) /\ k = n + (k - n)
        BY <1>1, <3>1, <3>3
      <4>2. k - n \in B
        BY <1>1, <3>1, <4>1 DEF NewlinesIn
      <4> QED
        BY <4>1, <4>2
    <3> QED
      BY <3>2, <3>3
  <2>2. ASSUME NEW k \in A PROVE k \in NewlinesIn(c)
    <3> HIDE DEF c
    <3> QED
      BY <1>1, <2>2 DEF NewlinesIn
  <2>3. ASSUME NEW m \in B PROVE n + m \in NewlinesIn(c)
    <3> HIDE DEF c
    <3> QED
      BY <1>1, <2>3 DEF NewlinesIn
  <2> QED
    BY <2>1, <2>2, <2>3
<1> HIDE DEF c, A, B, n
<1>5. ASSUME NEW T \in SUBSET B
      PROVE  /\ IsFiniteSet(A \cup Moved(T))
             /\ Cardinality(A \cup Moved(T)) = Cardinality(A) + Cardinality(T)
             /\ Cardinality(T) \in Nat
  <2>1. IsFiniteSet(T) /\ Cardinality(T) \in Nat /\ T \in SUBSET Nat
    BY <1>2, <1>3, FS_Subset, FS_CardinalityType
  <2>2. IsFiniteSet(Moved(T)) /\ Cardinality(Moved(T)) = Cardinality(T)
    BY <1>1, <2>1, ShiftedSet
  <2>3. A \cap Moved(T) = {}
    BY <1>1, <1>2
  <2>4. Cardinality({}) = 0
    BY FS_EmptySet
  <2>5. /\ IsFiniteSet(A \cup Moved(T))
        /\ Cardinality(A \cup Moved(T)) =
             Cardinality(A) + Cardinality(Moved(T)) - Cardinality(A \cap Moved(T))
    BY <1>3, <2>2, FS_Union
  <2>6. Cardinality(A \cap Moved(T)) = 0
    BY <2>3, <2>4
  <2> HIDE DEF Moved
  <2> QED
    BY <1>3, <2>1, <2>2, <2>5, <2>6
<1>6. Cardinality(NewlinesIn(c)) = Cardinality(A) + Cardinality(B)
  BY <1>4, <1>5
<1>7. ASSUME NEW k \in A PROVE Rank(c, k) = Rank(a, k)
  <2>1. U(A \cup Moved(B), k) = U(A, k)
    BY <1>1, <1>2
  <2> HIDE DEF U, Moved
  <2> QED
    BY <1>4, <2>1 DEF Rank, A, U
<1>8. ASSUME NEW m \in B PROVE Rank(c, n + m) = Cardinality(A) + Rank(b, m)
  <2>1. U(A \cup Moved(B), n + m) = A \cup Moved(U(B, m))
    <3>1. \A k \in A : k <= n + m
      BY <1>1, <1>2
    <3>2. \A j \in B : n + j <= n + m <=> j <= m
      BY <1>1, <1>2
    <3> QED
      BY <3>1, <3>2
  <2>2. U(B, m) \in SUBSET B
    OBVIOUS
  <2>3. Rank(b, m) = Cardinality(U(B, m))
    BY DEF Rank, B
  <2>4. Rank(c, n + m) = Cardinality(U(A \cup Moved(B), n + m))
    BY <1>4 DEF Rank
  <2> HIDE DEF U, Moved
  <2> QED
    BY <1>5, <2>1, <2>2, <2>3, <2>4
<1> DEFINE la == LinesIn(a)
           lb == LinesIn(b)
           lc == LinesIn(c)
<1>9. /\ la \in Seq(Lines) /\ lb \in Seq(Lines) /\ lc \in Seq(Lines)
      /\ Len(la) = Cardinality(A) /\ Len(lb) = Cardinality(B)
      /\ Len(lc) = Len(la) + Len(lb)
  BY <1>1, <1>6, LinesShape DEF A, B
<1>10. ASSUME NEW i \in 1..Len(lc)
       PROVE  lc[i] = IF i <= Len(la) THEN la[i] ELSE lb[i - Len(la)]
  <2>1. PICK k \in NewlinesIn(c) : Rank(c, k) = i
    BY <1>1, <1>9, Ranks, LinesShape
  <2>2. lc[i] = Line(c[k].from, c[k].arg)
    BY <1>1, <2>1, LinesShape
  <2>3. CASE k \in A
    <3>1. Rank(a, k) = i /\ i <= Len(la)
      BY <1>7, <1>9, <2>1, <2>3, Ranks DEF A
    <3>2. la[i] = Line(a[k].from, a[k].arg)
      BY <2>3, <3>1, LinesShape DEF A
    <3>3. c[k] = a[k]
      BY <1>1, <1>2, <2>3
    <3> QED
      BY <2>2, <3>1, <3>2, <3>3
  <2>4. ASSUME NEW m \in B, k = n + m
        PROVE  lc[i] = IF i <= Len(la) THEN la[i] ELSE lb[i - Len(la)]
    <3>1. Rank(b, m) \in 1..Len(lb) /\ i = Len(la) + Rank(b, m)
      BY <1>8, <1>9, <2>1, <2>4, Ranks DEF B
    <3>2. lb[Rank(b, m)] = Line(b[m].from, b[m].arg)
      BY LinesShape DEF B
    <3>3. c[k] = b[m]
      BY <1>1, <1>2, <2>4
    <3>4. Len(la) \in Nat /\ Len(lb) \in Nat
      BY <1>3, <1>9
    <3> HIDE DEF la, lb, lc
    <3>5. i - Len(la) = Rank(b, m) /\ ~ (i <= Len(la))
      BY <3>1, <3>4
    <3> QED
      BY <2>2, <3>2, <3>3, <3>5
  <2> QED
    BY <1>4, <2>3, <2>4
<1> HIDE DEF la, lb, lc
<1>11. lc = la \o lb
  <2>1. /\ la \o lb \in Seq(Lines)
        /\ Len(la \o lb) = Len(la) + Len(lb)
        /\ \A i \in 1..Len(la) + Len(lb) : (la \o lb)[i] =
             IF i <= Len(la) THEN la[i] ELSE lb[i - Len(la)]
    BY <1>9, ConcatProperties
  <2> QED
    BY <1>9, <1>10, <2>1, SeqEqual
<1> QED
  BY <1>11 DEF la, lb, lc, c

LEMMA LinesOfNothing == LinesIn(<<>>) = <<>>
<1>1. NewlinesIn(<<>>) = {}
  BY DEF NewlinesIn
<1>2. <<>> \in Seq(Cells)
  OBVIOUS
<1>3. LinesIn(<<>>) \in Seq(Lines) /\ Len(LinesIn(<<>>)) = 0
  BY <1>1, <1>2, LinesShape, FS_EmptySet
<1> QED
  BY <1>3, EmptySeq

\* The bytes of a line are one line.
LEMMA LinesOfLine ==
  ASSUME NEW s \in Senders, NEW i \in 1..Len(Out(s))
  PROVE  LinesIn(LineBytes(s, i)) = <<Line(s, i)>>
<1> DEFINE b == LineBytes(s, i)
           n == Out(s)[i].len
<1>1. n \in Nat \ {0}
  BY OutShape
<1>2. b \in Seq(Cells) /\ Len(b) = n + 1
  BY LineShape
<1>4. \A k \in 1..(n + 1) :
        /\ b[k].from = s /\ b[k].arg = i
        /\ b[k].byte = "nl" <=> k = n + 1
  <2> SUFFICES ASSUME NEW k \in 1..(n + 1)
               PROVE  /\ b[k].from = s /\ b[k].arg = i
                      /\ b[k].byte = "nl" <=> k = n + 1
    OBVIOUS
  <2>1. b[k] = Cell(s, i, IF k > n THEN "nl"
                          ELSE IF IsMarker(s, i) THEN "nul" ELSE "text")
    BY LineShape
  <2>2. k > n <=> k = n + 1
    BY <1>1
  <2> HIDE DEF b, n
  <2> QED
    BY <2>1, <2>2 DEF Cell
<1> HIDE DEF b, n
<1>5. /\ NewlinesIn(b) = {n + 1}
      /\ b[n + 1].from = s /\ b[n + 1].arg = i
  BY <1>1, <1>2, <1>4 DEF NewlinesIn
<1>6. Cardinality(NewlinesIn(b)) = 1
  BY <1>5, FS_Singleton
<1>7. Rank(b, n + 1) = 1
  BY <1>2, <1>5, <1>6, Ranks
<1>8. LinesIn(b) \in Seq(Lines) /\ Len(LinesIn(b)) = 1 /\ LinesIn(b)[1] = Line(s, i)
  BY <1>2, <1>5, <1>6, <1>7, LinesShape
<1> QED
  BY <1>8 DEF b

-----------------------------------------------------------------------------
(* What the scanner finds at the start of whole lines, however many of     *)
(* their bytes it has been given.                                          *)

LEMMA StartsWithShape ==
  ASSUME NEW d \in Seq(Bytes), NEW s \in Seq(Bytes)
  PROVE  StartsWith(d, s) <=>
           Len(s) <= Len(d) /\ \A i \in 1..Len(s) : d[i] = s[i]
<1>1. Len(d) \in Nat /\ Len(s) \in Nat
  OBVIOUS
<1>2. CASE Len(s) <= Len(d)
  <2>1. \A i \in 1..Len(s) : d[i] \in Bytes
    BY <1>1, <1>2
  <2> DEFINE h == SubSeq(d, 1, Len(s))
  <2>2. /\ h \in Seq(Bytes)
        /\ Len(h) = IF 1 <= Len(s) THEN Len(s) - 1 + 1 ELSE 0
        /\ \A i \in 1..(Len(s) - 1 + 1) : h[i] = d[1 + i - 1]
    BY <1>1, <2>1, SubSeqProperties
  <2>3. Len(h) = Len(s) /\ \A i \in 1..Len(s) : h[i] = d[i]
    BY <1>1, <2>2
  <2> HIDE DEF h
  <2>4. h = s <=> \A i \in 1..Len(s) : h[i] = s[i]
    BY <2>2, <2>3, SeqEqual
  <2> QED
    BY <1>2, <2>3, <2>4 DEF StartsWith, h
<1> QED
  BY <1>2 DEF StartsWith

\* inlineEOFLine, byte by byte.
LEMMA Markers ==
  /\ EndMarkers \subseteq Seq(Bytes)
  /\ \A m \in EndMarkers :
       \/ Len(m) = 2 /\ m[1] = "nul" /\ m[2] = "nl"
       \/ Len(m) = 3 /\ m[1] = "nul" /\ m[2] = "cr" /\ m[3] = "nl"
  /\ \E m \in EndMarkers : Len(m) = 2 /\ m[1] = "nul" /\ m[2] = "nl"
  /\ \E m \in EndMarkers :
       Len(m) = 3 /\ m[1] = "nul" /\ m[2] = "cr" /\ m[3] = "nl"
BY DEF EndMarkers, Bytes

LEMMA EndShape ==
  ASSUME NEW d \in Seq(Bytes)
  PROVE  IsEnd(d) <=>
           \/ 2 <= Len(d) /\ d[1] = "nul" /\ d[2] = "nl"
           \/ 3 <= Len(d) /\ d[1] = "nul" /\ d[2] = "cr" /\ d[3] = "nl"
<1>1. \A m \in EndMarkers : StartsWith(d, m) <=>
        Len(m) <= Len(d) /\ \A i \in 1..Len(m) : d[i] = m[i]
  BY Markers, StartsWithShape
<1>2. ASSUME NEW m \in EndMarkers, Len(m) = 2, m[1] = "nul", m[2] = "nl"
      PROVE  StartsWith(d, m) <=> 2 <= Len(d) /\ d[1] = "nul" /\ d[2] = "nl"
  <2>1. 1..Len(m) = {1, 2}
    BY <1>2
  <2>2. StartsWith(d, m) <=> Len(m) <= Len(d) /\ \A i \in {1, 2} : d[i] = m[i]
    BY <1>1, <2>1
  <2> QED
    BY <1>2, <2>2
<1>3. ASSUME NEW m \in EndMarkers,
             Len(m) = 3, m[1] = "nul", m[2] = "cr", m[3] = "nl"
      PROVE  StartsWith(d, m) <=>
               3 <= Len(d) /\ d[1] = "nul" /\ d[2] = "cr" /\ d[3] = "nl"
  <2>1. 1..Len(m) = {1, 2, 3}
    BY <1>3
  <2>2. StartsWith(d, m) <=> Len(m) <= Len(d) /\ \A i \in {1, 2, 3} : d[i] = m[i]
    BY <1>1, <2>1
  <2> QED
    BY <1>3, <2>2
<1> QED
  BY <1>2, <1>3, Markers DEF IsEnd

LEMMA MayBeEndShape ==
  ASSUME NEW d \in Seq(Bytes)
  PROVE  MayBeEnd(d) <=>
           \/ Len(d) = 1 /\ d[1] = "nul"
           \/ Len(d) = 2 /\ d[1] = "nul" /\ d[2] = "cr"
<1>0. Len(d) \in Nat
  OBVIOUS
<1>1. d = <<>> <=> Len(d) = 0
  BY EmptySeq
<1>2. ASSUME NEW m \in EndMarkers
      PROVE  d # m /\ StartsWith(m, d) <=>
               Len(d) < Len(m) /\ \A i \in 1..Len(d) : m[i] = d[i]
  <2>1. m \in Seq(Bytes) /\ Len(m) \in Nat
    BY Markers
  <2>2. StartsWith(m, d) <=> Len(d) <= Len(m) /\ \A i \in 1..Len(d) : m[i] = d[i]
    BY <2>1, StartsWithShape
  <2>3. d = m <=> Len(d) = Len(m) /\ \A i \in 1..Len(d) : m[i] = d[i]
    BY <2>1, SeqEqual
  <2> QED
    BY <1>0, <2>1, <2>2, <2>3
<1>3. ASSUME NEW m \in EndMarkers, Len(m) = 2, m[1] = "nul", m[2] = "nl"
      PROVE  Len(d) # 0 /\ d # m /\ StartsWith(m, d) <=> Len(d) = 1 /\ d[1] = "nul"
  <2>1. Len(d) # 0 /\ d # m /\ StartsWith(m, d) <=>
          Len(d) = 1 /\ \A i \in 1..Len(d) : m[i] = d[i]
    <3>1. d # m /\ StartsWith(m, d) <=>
            Len(d) < Len(m) /\ \A i \in 1..Len(d) : m[i] = d[i]
      BY <1>2
    <3>2. Len(d) < Len(m) /\ Len(d) # 0 <=> Len(d) = 1
      <4>1. Len(m) = 2
        BY <1>3
      <4>2. \A n \in Nat : n < 2 /\ n # 0 <=> n = 1
        OBVIOUS
      <4> QED
        BY <1>0, <4>1, <4>2
    <3> QED
      BY <3>1, <3>2
  <2> QED
    BY <1>3, <2>1
<1>4. ASSUME NEW m \in EndMarkers,
             Len(m) = 3, m[1] = "nul", m[2] = "cr", m[3] = "nl"
      PROVE  Len(d) # 0 /\ d # m /\ StartsWith(m, d) <=>
               \/ Len(d) = 1 /\ d[1] = "nul"
               \/ Len(d) = 2 /\ d[1] = "nul" /\ d[2] = "cr"
  <2>1. Len(d) # 0 /\ d # m /\ StartsWith(m, d) <=>
          Len(d) \in 1..2 /\ \A i \in 1..Len(d) : m[i] = d[i]
    <3>1. d # m /\ StartsWith(m, d) <=>
            Len(d) < Len(m) /\ \A i \in 1..Len(d) : m[i] = d[i]
      BY <1>2
    <3>2. Len(d) < Len(m) /\ Len(d) # 0 <=> Len(d) \in 1..2
      <4>1. Len(m) = 3
        BY <1>4
      <4>2. \A n \in Nat : n < 3 /\ n # 0 <=> n \in 1..2
        OBVIOUS
      <4> QED
        BY <1>0, <4>1, <4>2
    <3> QED
      BY <3>1, <3>2
  <2>2. CASE Len(d) = 1
    BY <1>4, <2>1, <2>2
  <2>3. CASE Len(d) = 2
    BY <1>4, <2>1, <2>3
  <2> QED
    BY <1>0, <2>1, <2>2, <2>3
<1>5. MayBeEnd(d) <=>
        \E m \in EndMarkers : Len(d) # 0 /\ d # m /\ StartsWith(m, d)
  BY <1>1 DEF MayBeEnd
<1> QED
  BY <1>3, <1>4, <1>5, Markers

LEMMA FirstNewlineIs ==
  ASSUME NEW d \in Seq(Bytes), NEW k \in 1..Len(d),
         d[k] = "nl", \A j \in 1..(k - 1) : d[j] # "nl"
  PROVE  FirstNewline(d) = k
<1>1. /\ FirstNewline(d) \in 1..Len(d)
      /\ d[FirstNewline(d)] = "nl"
      /\ \A j \in 1..(FirstNewline(d) - 1) : d[j] # "nl"
  BY FirstNewlineIsOne
<1> HIDE DEF FirstNewline
<1>2. ~ (FirstNewline(d) < k) /\ ~ (k < FirstNewline(d))
  BY <1>1
<1> QED
  BY <1>1, <1>2

\* The end of a sequence of bytes.
LEMMA RestShape ==
  ASSUME NEW S, NEW b \in Seq(S), NEW n \in 0..Len(b)
  PROVE  /\ SubSeq(b, 1, n) \in Seq(S) /\ Len(SubSeq(b, 1, n)) = n
         /\ \A k \in 1..n : SubSeq(b, 1, n)[k] = b[k]
         /\ Rest(b, n) \in Seq(S) /\ Len(Rest(b, n)) = Len(b) - n
         /\ \A k \in 1..(Len(b) - n) : Rest(b, n)[k] = b[n + k]
         /\ b = SubSeq(b, 1, n) \o Rest(b, n)
<1>1. Len(b) \in Nat /\ n \in Nat /\ n <= Len(b)
  BY LenProperties
<1>2. \A k \in 1..Len(b) : b[k] \in S
  BY ElementOfSeq
<1>3. /\ SubSeq(b, 1, n) \in Seq(S)
      /\ Len(SubSeq(b, 1, n)) = IF 1 <= n THEN n - 1 + 1 ELSE 0
      /\ \A k \in 1..(n - 1 + 1) : SubSeq(b, 1, n)[k] = b[1 + k - 1]
  BY <1>1, <1>2, SubSeqProperties
<1>4. /\ Rest(b, n) \in Seq(S)
      /\ Len(Rest(b, n)) =
           IF n + 1 <= Len(b) THEN Len(b) - (n + 1) + 1 ELSE 0
      /\ \A k \in 1..(Len(b) - (n + 1) + 1) : Rest(b, n)[k] = b[n + 1 + k - 1]
  BY <1>1, <1>2, SubSeqProperties DEF Rest
<1>5. SubSeq(b, 1, n) \o Rest(b, n) = b
  <2>1. SubSeq(b, 1, n) \o SubSeq(b, n + 1, Len(b)) = SubSeq(b, 1, Len(b))
    <3>1. 1 \in 1..Len(b) + 1 /\ n \in 1 - 1..Len(b) /\ Len(b) \in n..Len(b)
      BY <1>1
    <3> QED
      BY <3>1, ConcatAdjacentSubSeq
  <2>2. SubSeq(b, 1, Len(b)) = b
    BY SubSeqFull
  <2> QED
    BY <2>1, <2>2 DEF Rest
<1>6. Len(SubSeq(b, 1, n)) = n /\ Len(Rest(b, n)) = Len(b) - n
  BY <1>1, <1>3, <1>4
<1>7. \A k \in 1..n : SubSeq(b, 1, n)[k] = b[k]
  <2>1. \A k \in 1..n : 1 + k - 1 = k /\ k \in 1..(n - 1 + 1)
    BY <1>1
  <2> QED
    BY <1>3, <2>1
<1>8. \A k \in 1..(Len(b) - n) : Rest(b, n)[k] = b[n + k]
  <2>1. \A k \in 1..(Len(b) - n) :
          n + 1 + k - 1 = n + k /\ k \in 1..(Len(b) - (n + 1) + 1)
    BY <1>1
  <2> QED
    BY <1>4, <2>1
<1> QED
  BY <1>3, <1>4, <1>5, <1>6, <1>7, <1>8

\* What follows whole lines in whole lines is whole lines.
LEMMA RestIsWhole ==
  ASSUME NEW b, Whole(b), NEW n \in 0..Len(b), Whole(SubSeq(b, 1, n))
  PROVE  /\ Whole(Rest(b, n))
         /\ LinesIn(b) = LinesIn(SubSeq(b, 1, n)) \o LinesIn(Rest(b, n))
<1> DEFINE h == SubSeq(b, 1, n)
           r == Rest(b, n)
<1>1. b \in Seq(Cells) /\ Len(b) \in Nat /\ n \in Nat
  BY DEF Whole
<1>2. /\ h \in Seq(Cells) /\ Len(h) = n /\ \A k \in 1..n : h[k] = b[k]
      /\ r \in Seq(Cells) /\ Len(r) = Len(b) - n
      /\ \A k \in 1..(Len(b) - n) : r[k] = b[n + k]
      /\ b = h \o r
  BY <1>1, RestShape, ZenonT(30)
<1>h. Whole(h)
  OBVIOUS
<1> HIDE DEF h, r
<1>3. n # 0 => b[n].byte = "nl"
  <2>1. n # 0 => h # <<>>
    BY <1>2, EmptySeq
  <2>2. n # 0 => h[n] = b[n]
    BY <1>1, <1>2
  <2> QED
    BY <1>h, <1>2, <2>1, <2>2 DEF Whole
<1>4. ASSUME NEW j \in 1..Len(r), r[j].byte = "nl"
      PROVE  LET m == Out(r[j].from)[r[j].arg].len IN
             /\ m < j
             /\ SubSeq(r, j - m, j) = LineBytes(r[j].from, r[j].arg)
             /\ j > m + 1 => r[j - m - 1].byte = "nl"
  <2> DEFINE k == n + j
             s == r[j].from
             i == r[j].arg
             m == Out(s)[i].len
  <2>1. /\ k \in 1..Len(b) /\ b[k] = r[j] /\ n < k
        /\ s \in Senders /\ i \in 1..Len(Out(s)) /\ m \in Nat \ {0}
    <3>1. r[j] \in Cells
      BY <1>2, ElementOfSeq
    <3>2. s \in Senders /\ i \in 1..Len(Out(s)) /\ m \in Nat \ {0}
      BY <3>1, CellShape
    <3>3. k \in 1..Len(b) /\ j \in 1..(Len(b) - n) /\ n < k
      BY <1>1, <1>2
    <3> QED
      BY <1>2, <3>2, <3>3
  <2>2. /\ m < k
        /\ SubSeq(b, k - m, k) = LineBytes(s, i)
        /\ k > m + 1 => b[k - m - 1].byte = "nl"
    BY <1>4, <2>1 DEF Whole, WholeLines
  <2>3. \A x \in 1..(m + 1) : LineBytes(s, i)[x].byte = "nl" => x = m + 1
    <3> SUFFICES ASSUME NEW x \in 1..(m + 1), LineBytes(s, i)[x].byte = "nl"
                 PROVE  x = m + 1
      OBVIOUS
    <3>1. LineBytes(s, i)[x] =
            Cell(s, i, IF x > m THEN "nl"
                       ELSE IF IsMarker(s, i) THEN "nul" ELSE "text")
      BY <2>1, LineShape
    <3> HIDE DEF s, i, m
    <3>2. x > m
      BY <3>1 DEF Cell
    <3> QED
      BY <2>1, <3>2
  <2> HIDE DEF k, s, i, m
  <2>4. \A x \in 1..(m + 1) : SubSeq(b, k - m, k)[x] = b[k - m + x - 1]
    <3>1. \A x \in (k - m)..k : b[x] \in Cells
      <4>1. \A x \in (k - m)..k : x \in 1..Len(b)
        BY <1>1, <2>1, <2>2
      <4> QED
        BY <1>1, <4>1, ElementOfSeq
    <3>2. k \in Int /\ k - m \in Int
      BY <2>1
    <3>3. \A x \in 1..(k - (k - m) + 1) : SubSeq(b, k - m, k)[x] = b[k - m + x - 1]
      <4> DEFINE g == k - m
      <4>1. g \in Int /\ \A x \in g..k : b[x] \in Cells
        BY <3>1, <3>2
      <4> HIDE DEF g
      <4>2. \A x \in 1..(k - g + 1) : SubSeq(b, g, k)[x] = b[g + x - 1]
        BY ONLY <3>2, <4>1, SubSeqProperties
      <4> QED
        BY <4>2 DEF g
    <3>4. k - (k - m) + 1 = m + 1
      BY <2>1
    <3> QED
      BY <3>3, <3>4, Zenon
  <2>5. m < j
    <3> SUFFICES ASSUME ~ (m < j) PROVE FALSE
      OBVIOUS
    <3>1. n \in (k - m)..(k - 1) /\ n # 0
      <4>1. m \in Nat /\ j \in Nat /\ j # 0 /\ n \in Nat /\ k = n + j /\ m < k
        <5>1. k = n + j
          BY DEF k
        <5> QED
          BY <1>1, <2>1, <2>2, <5>1
      <4> QED
        BY <4>1
    <3> DEFINE x == n - (k - m) + 1
    <3>2. x \in 1..m /\ x \in 1..(m + 1) /\ k - m + x - 1 = n
      BY <1>1, <2>1, <3>1
    <3> HIDE DEF x
    <3>3. LineBytes(s, i)[x] = b[n]
      BY <2>2, <2>4, <3>2
    <3>4. x = m + 1
      BY <1>3, <2>3, <3>1, <3>2, <3>3
    <3> QED
      BY <2>1, <3>2, <3>4
  <2>6. SubSeq(r, j - m, j) = SubSeq(b, k - m, k)
    <3>1. /\ k - m \in Len(h) + 1..Len(h) + Len(r)
          /\ k \in Len(h) + 1..Len(h) + Len(r)
      BY <1>1, <1>2, <2>1, <2>5 DEF k
    <3>2. k - m - Len(h) = j - m /\ k - Len(h) = j
      BY <1>1, <1>2, <2>1 DEF k
    <3>3. SubSeq(h \o r, k - m, k) = SubSeq(r, k - m - Len(h), k - Len(h))
      <4>1. h \in Seq(Cells) /\ r \in Seq(Cells)
        BY <1>2
      <4> HIDE DEF h, r
      <4> QED
        BY ONLY <3>1, <4>1, SubSeqOfConcat2
    <3> QED
      BY <1>2, <3>2, <3>3
  <2>7. j > m + 1 => r[j - m - 1].byte = "nl"
    <3> SUFFICES ASSUME j > m + 1 PROVE r[j - m - 1].byte = "nl"
      OBVIOUS
    <3>1. j - m - 1 \in 1..(Len(b) - n) /\ n + (j - m - 1) = k - m - 1 /\ k > m + 1
      <4>1. m \in Nat /\ j \in Nat /\ j <= Len(b) - n
        BY <1>1, <1>2, <2>1
      <4> QED
        BY <1>1, <4>1 DEF k
    <3> QED
      BY <1>2, <2>2, <3>1
  <2> QED
    BY <2>2, <2>5, <2>6, <2>7 DEF s, i, m
<1>5. WholeLines(r)
  BY <1>4 DEF WholeLines
<1>6. r # <<>> => r[Len(r)].byte = "nl"
  <2> SUFFICES ASSUME r # <<>> PROVE r[Len(r)].byte = "nl"
    OBVIOUS
  <2>1. Len(r) \in Nat /\ Len(r) # 0
    BY <1>2
  <2>2. /\ Len(r) \in 1..(Len(b) - n) /\ n + Len(r) = Len(b) /\ b # <<>>
    BY <1>1, <1>2, <2>1
  <2> QED
    BY <1>2, <2>2 DEF Whole
<1>7. LinesIn(b) = LinesIn(h) \o LinesIn(r)
  BY <1>2, LinesOfConcat
<1> QED
  BY <1>2, <1>5, <1>6, <1>7 DEF Whole, h, r

LEMMA BytesShape ==
  ASSUME NEW b \in Seq(Cells)
  PROVE  /\ BytesOf(b) \in Seq(Bytes)
         /\ Len(BytesOf(b)) = Len(b)
         /\ \A k \in 1..Len(b) : BytesOf(b)[k] = b[k].byte
<1>1. \A c \in Cells : c.byte \in Bytes
  BY DEF Cells, Cell
<1>2. BytesOf(b) \in [1..Len(b) -> Bytes] /\ Len(b) \in Nat
  BY <1>1 DEF BytesOf
<1>3. BytesOf(b) \in Seq(Bytes) /\ Len(BytesOf(b)) = Len(b)
  BY <1>2
<1> QED
  BY <1>3 DEF BytesOf

\* Line i of sender s is at the start of r.
StartsWithLine(r, s, i) ==
  /\ Out(s)[i].len + 1 <= Len(r)
  /\ SubSeq(r, 1, Out(s)[i].len + 1) = LineBytes(s, i)

\* Whole lines start with a line.
LEMMA FirstLine ==
  ASSUME NEW r, Whole(r), r # <<>>
  PROVE  \E s \in Senders : \E i \in 1..Len(Out(s)) : StartsWithLine(r, s, i)
<1> DEFINE d == BytesOf(r)
<1>1. r \in Seq(Cells) /\ Len(r) \in Nat \ {0} /\ r[Len(r)].byte = "nl"
  BY EmptySeq DEF Whole
<1>2. /\ d \in Seq(Bytes) /\ Len(d) = Len(r)
      /\ \A k \in 1..Len(r) : d[k] = r[k].byte
  BY <1>1, BytesShape
<1> HIDE DEF d
<1>3. \E k \in 1..Len(d) : d[k] = "nl"
  BY <1>1, <1>2
<1> DEFINE p == FirstNewline(d)
<1>4. p \in 1..Len(r) /\ r[p].byte = "nl" /\ \A j \in 1..(p - 1) : r[j].byte # "nl"
  <2>1. p \in 1..Len(d) /\ d[p] = "nl" /\ \A j \in 1..(p - 1) : d[j] # "nl"
    BY <1>2, <1>3, FirstNewlineIsOne
  <2> HIDE DEF p
  <2>2. \A j \in 1..(p - 1) : j \in 1..Len(r)
    BY <1>1, <1>2, <2>1
  <2> QED
    BY <1>2, <2>1, <2>2
<1> HIDE DEF p
<1> DEFINE s == r[p].from
           i == r[p].arg
           n == Out(s)[i].len
<1>5. s \in Senders /\ i \in 1..Len(Out(s)) /\ n \in Nat \ {0}
  BY <1>1, <1>4, CellShape, ElementOfSeq
<1>6. /\ n < p
      /\ SubSeq(r, p - n, p) = LineBytes(s, i)
      /\ p > n + 1 => r[p - n - 1].byte = "nl"
  BY <1>4 DEF Whole, WholeLines
<1> HIDE DEF s, i, n
<1>7. p = n + 1
  <2>1. p > n + 1 => p - n - 1 \in 1..(p - 1)
    BY <1>4, <1>5
  <2> QED
    BY <1>4, <1>5, <1>6, <2>1
<1>8. p - n = 1 /\ n + 1 <= Len(r)
  BY <1>1, <1>4, <1>5, <1>7
<1>9. StartsWithLine(r, s, i)
  BY <1>6, <1>7, <1>8 DEF StartsWithLine, n
<1> QED
  BY <1>5, <1>9

\* ... and whole lines follow it.
LEMMA AfterFirstLine ==
  ASSUME NEW r, Whole(r), NEW s \in Senders, NEW i \in 1..Len(Out(s)),
         StartsWithLine(r, s, i)
  PROVE  LET p == Out(s)[i].len + 1 IN
         /\ p \in 0..Len(r)
         /\ Whole(Rest(r, p))
         /\ LinesIn(r) = <<Line(s, i)>> \o LinesIn(Rest(r, p))
<1> DEFINE p == Out(s)[i].len + 1
<1>1. p \in Nat /\ r \in Seq(Cells) /\ Len(r) \in Nat
  BY OutShape DEF Whole
<1>2. p \in 0..Len(r) /\ SubSeq(r, 1, p) = LineBytes(s, i)
  BY <1>1 DEF StartsWithLine
<1> HIDE DEF p
<1>3. Whole(SubSeq(r, 1, p))
  BY <1>2, LineIsWhole
<1>4. Whole(Rest(r, p)) /\ LinesIn(r) = LinesIn(SubSeq(r, 1, p)) \o LinesIn(Rest(r, p))
  BY <1>2, <1>3, RestIsWhole
<1> QED
  BY <1>2, <1>4, LinesOfLine DEF p

\* The end marker is the last line of a sender with --finish.
LEMMA MarkerShape ==
  ASSUME NEW s \in Senders, NEW i \in 1..Len(Out(s))
  PROVE  /\ IsMarker(s, i) <=> Line(s, i) \in EndLines
         /\ IsMarker(s, i) => Out(s)[i].len = 1
<1>1. ASSUME NEW t, NEW j, Line(s, i) = Line(t, j) PROVE s = t /\ i = j
  BY <1>1 DEF Line
<1>2. IsMarker(s, i) <=> Line(s, i) \in EndLines
  BY <1>1 DEF IsMarker, EndLines
<1>3. ASSUME IsMarker(s, i) PROVE Out(s)[i].len = 1
  <2> DEFINE P == [len : Nat \ {0}, newline : BOOLEAN]
             e == [len |-> 1, newline |-> FALSE]
  <2>1. Args[s] \in Seq(P) /\ e \in P /\ e.len = 1
    BY SendAssumption
  <2>2. s \in Finishing /\ i = Len(Out(s)) /\ Out(s) = Append(Args[s], e)
    BY <1>3 DEF IsMarker, Out
  <2> HIDE DEF P, e
  <2>3. Len(Append(Args[s], e)) = Len(Args[s]) + 1
        /\ Append(Args[s], e)[Len(Args[s]) + 1] = e
    BY <2>1, AppendProperties
  <2> QED
    BY <2>1, <2>2, <2>3
<1> QED
  BY <1>2, <1>3

\* The bytes at the start of a line that is at the start of r.
LEMMA FirstBytes ==
  ASSUME NEW r, Whole(r), NEW s \in Senders, NEW i \in 1..Len(Out(s)),
         StartsWithLine(r, s, i), NEW m \in 0..Len(r)
  PROVE  LET d == BytesOf(SubSeq(r, 1, m))
             n == Out(s)[i].len IN
         /\ d \in Seq(Bytes) /\ Len(d) = m
         /\ \A k \in 1..m : k <= n + 1 =>
              d[k] = IF k > n THEN "nl"
                     ELSE IF IsMarker(s, i) THEN "nul" ELSE "text"
<1> DEFINE n == Out(s)[i].len
           u == SubSeq(r, 1, m)
           d == BytesOf(u)
<1>1. n \in Nat /\ r \in Seq(Cells) /\ Len(r) \in Nat /\ n + 1 <= Len(r)
  BY OutShape DEF Whole, StartsWithLine
<1>2. u \in Seq(Cells) /\ Len(u) = m /\ \A k \in 1..m : u[k] = r[k]
  BY <1>1, RestShape
<1> HIDE DEF u
<1>3. d \in Seq(Bytes) /\ Len(d) = m /\ \A k \in 1..m : d[k] = u[k].byte
  BY <1>2, BytesShape
<1>4. ASSUME NEW k \in 1..m, k <= n + 1
      PROVE  d[k] = IF k > n THEN "nl"
                    ELSE IF IsMarker(s, i) THEN "nul" ELSE "text"
  <2>1. k \in 1..(n + 1) /\ n + 1 \in 0..Len(r)
    BY <1>1, <1>4
  <2>2. SubSeq(r, 1, n + 1)[k] = r[k]
    BY <1>1, <2>1, RestShape
  <2>3. r[k] = LineBytes(s, i)[k]
    BY <2>2 DEF StartsWithLine
  <2>4. LineBytes(s, i)[k] =
          Cell(s, i, IF k > n THEN "nl"
                     ELSE IF IsMarker(s, i) THEN "nul" ELSE "text")
    BY <2>1, LineShape
  <2> HIDE DEF d, n
  <2>5. d[k] = r[k].byte
    BY <1>2, <1>3
  <2> QED
    BY <2>3, <2>4, <2>5 DEF Cell
<1> QED
  BY <1>3, <1>4 DEF u

\* The scanner knows an end marker by its bytes.
LEMMA EndFound ==
  ASSUME NEW r, Whole(r), NEW s \in Senders, NEW i \in 1..Len(Out(s)),
         StartsWithLine(r, s, i), NEW m \in 0..Len(r)
  PROVE  IsEnd(BytesOf(SubSeq(r, 1, m))) <=> IsMarker(s, i) /\ 2 <= m
<1> DEFINE n == Out(s)[i].len
           d == BytesOf(SubSeq(r, 1, m))
<1>1. n \in Nat \ {0} /\ m \in Nat /\ (IsMarker(s, i) => n = 1)
  BY OutShape, MarkerShape DEF Whole
<1>2. /\ d \in Seq(Bytes) /\ Len(d) = m
      /\ \A k \in 1..m : k <= n + 1 =>
           d[k] = IF k > n THEN "nl"
                  ELSE IF IsMarker(s, i) THEN "nul" ELSE "text"
  BY FirstBytes
<1> HIDE DEF n, d
<1>3. ASSUME IsEnd(d) PROVE IsMarker(s, i) /\ 2 <= m
  <2>1. 2 <= m /\ d[1] = "nul"
    BY <1>1, <1>2, <1>3, EndShape
  <2>2. 1 \in 1..m /\ 1 <= n + 1 /\ ~ (1 > n)
    BY <1>1, <2>1
  <2> QED
    BY <1>2, <2>1, <2>2
<1>4. ASSUME IsMarker(s, i), 2 <= m PROVE IsEnd(d)
  <2>1. n = 1 /\ 1 \in 1..m /\ 2 \in 1..m
    BY <1>1, <1>4
  <2>2. d[1] = "nul" /\ d[2] = "nl"
    BY <1>2, <1>4, <2>1
  <2> QED
    BY <1>2, <1>4, <2>2, EndShape
<1> QED
  BY <1>3, <1>4 DEF d

\* ... and has to wait for more only inside one.
LEMMA LastIsNoHalfMarker ==
  ASSUME NEW r, Whole(r)
  PROVE  ~ MayBeEnd(BytesOf(r))
<1>1. r \in Seq(Cells) /\ Len(r) \in Nat
  BY DEF Whole
<1> DEFINE d == BytesOf(r)
<1>2. d \in Seq(Bytes) /\ Len(d) = Len(r) /\ \A k \in 1..Len(r) : d[k] = r[k].byte
  BY <1>1, BytesShape
<1>3. Len(r) # 0 => r[Len(r)].byte = "nl"
  BY <1>1, EmptySeq DEF Whole
<1> HIDE DEF d
<1>4. Len(r) # 0 => d[Len(r)] = "nl"
  BY <1>1, <1>2, <1>3
<1>5. ~ MayBeEnd(d)
  BY <1>2, <1>4, MayBeEndShape
<1> QED
  BY <1>5 DEF d

\* Changing the last part of a result leaves the others alone.
LEMMA ResultExcept ==
  ASSUME NEW a, NEW t, NEW f, NEW g
  PROVE  [Result(a, t, f) EXCEPT !.final = g] = Result(a, t, g)
<1> DEFINE r == Result(a, t, f)
<1>1. r = [advance |-> a, token |-> t, final |-> f]
  BY DEF Result
<1> HIDE DEF r
<1>2. [r EXCEPT !.final = g] = [advance |-> a, token |-> t, final |-> g]
  BY <1>1
<1> QED
  BY <1>2 DEF Result, r

LEMMA PlainSplitOfNothing ==
  /\ \A atEOF \in BOOLEAN : scanLinesWithEOF(<<>>, atEOF) = NeedMore
  /\ BytesOf(<<>>) = <<>>
  /\ ~ IsEnd(<<>>)
<1>1. <<>> \in Seq(Bytes) /\ Len(<<>>) = 0
  OBVIOUS
<1>2. ~ IsEnd(<<>>) /\ ~ MayBeEnd(<<>>)
  <2>1. \A d \in Seq(Bytes) : Len(d) = 0 => ~ IsEnd(d) /\ ~ MayBeEnd(d)
    <3> SUFFICES ASSUME NEW d \in Seq(Bytes), Len(d) = 0
                 PROVE  ~ IsEnd(d) /\ ~ MayBeEnd(d)
      OBVIOUS
    <3>1. ~ (2 <= Len(d)) /\ ~ (3 <= Len(d)) /\ Len(d) # 1 /\ Len(d) # 2
      OBVIOUS
    <3> QED
      BY <3>1, EndShape, MayBeEndShape
  <2> QED
    BY <1>1, <2>1
<1>3. \A atEOF : PlainSplit(<<>>, atEOF) = NeedMore
  BY DEF PlainSplit
<1>4. Rest(<<>>, 0) = <<>>
  BY SubSeqEmpty DEF Rest
<1>5. NeedMore.advance = 0
  BY DEF NeedMore, Result
<1>6. \A atEOF \in BOOLEAN : scanLinesWithEOF(<<>>, atEOF) = NeedMore
  BY <1>2, <1>3, <1>4, <1>5 DEF scanLinesWithEOF
<1>7. BytesOf(<<>>) = <<>>
  <2>1. <<>> \in Seq(Cells)
    OBVIOUS
  <2> QED
    BY <2>1, BytesShape, EmptySeq
<1> QED
  BY <1>2, <1>6, <1>7

\* Skipping bytes of what was read leaves the bytes of what is skipped to.
LEMMA RestOfBytes ==
  ASSUME NEW r \in Seq(Cells), NEW m \in 0..Len(r), NEW p \in 0..m
  PROVE  /\ m - p \in 0..Len(Rest(r, p))
         /\ Rest(BytesOf(SubSeq(r, 1, m)), p) =
              BytesOf(SubSeq(Rest(r, p), 1, m - p))
<1> DEFINE u == SubSeq(r, 1, m)
           d == BytesOf(u)
           q == Rest(r, p)
           v == SubSeq(q, 1, m - p)
<1>1. Len(r) \in Nat /\ m \in Nat /\ p \in Nat /\ p <= m /\ m <= Len(r)
      /\ p \in 0..Len(r)
  BY LenProperties
<1>2. u \in Seq(Cells) /\ Len(u) = m /\ \A k \in 1..m : u[k] = r[k]
  BY RestShape
<1>3. /\ q \in Seq(Cells) /\ Len(q) = Len(r) - p
      /\ \A k \in 1..(Len(r) - p) : q[k] = r[p + k]
  BY <1>1, RestShape
<1> HIDE DEF u, q
<1>4. m - p \in 0..Len(q)
  BY <1>1, <1>3
<1>5. v \in Seq(Cells) /\ Len(v) = m - p /\ \A k \in 1..(m - p) : v[k] = q[k]
  BY <1>3, <1>4, RestShape
<1> HIDE DEF v
<1>6. d \in Seq(Bytes) /\ Len(d) = m /\ \A k \in 1..m : d[k] = u[k].byte
  BY <1>2, BytesShape
<1> HIDE DEF d
<1>7. /\ Rest(d, p) \in Seq(Bytes) /\ Len(Rest(d, p)) = m - p
      /\ \A k \in 1..(m - p) : Rest(d, p)[k] = d[p + k]
  BY <1>6, RestShape
<1>8. /\ BytesOf(v) \in Seq(Bytes) /\ Len(BytesOf(v)) = m - p
      /\ \A k \in 1..(m - p) : BytesOf(v)[k] = v[k].byte
  BY <1>5, BytesShape
<1>9. ASSUME NEW k \in 1..(m - p) PROVE Rest(d, p)[k] = BytesOf(v)[k]
  <2>1. p + k \in 1..m /\ k \in 1..(Len(r) - p)
    BY <1>1
  <2>2. Rest(d, p)[k] = u[p + k].byte
    BY <1>6, <1>7, <2>1
  <2>3. BytesOf(v)[k] = q[k].byte
    BY <1>5, <1>8
  <2> QED
    BY <1>2, <1>3, <2>1, <2>2, <2>3
<1>10. Rest(d, p) = BytesOf(v)
  BY <1>7, <1>8, <1>9, SeqEqual
<1> QED
  BY <1>4, <1>10 DEF d, u, v, q

\* The token is line i of s, and it is said to be the last one only if an end
\* marker follows it.
TakesLine(r, m, s, i, split) ==
  LET n == Out(s)[i].len IN
  /\ ~ IsMarker(s, i)
  /\ n + 1 <= m
  /\ split \in {Result(n + 1, n, final) : final \in BOOLEAN}
  /\ split.final =>
       \E t \in Senders : \E j \in 1..Len(Out(t)) :
         StartsWithLine(Rest(r, n + 1), t, j) /\ IsMarker(t, j)

\* The first line of r, and two bytes that may begin an end marker, are at
\* least m bytes.
FirstLineHas(r, m) ==
  \E s \in Senders : \E i \in 1..Len(Out(s)) :
    StartsWithLine(r, s, i) /\ m <= Out(s)[i].len + 3

\* Given m of the bytes of the whole lines r, the scanner wants more, unless
\* it has them all or much more than a line; or it stops at an end marker; or
\* it takes the first line.
SplitIsRight(r, m, split) ==
  \/ split = NeedMore /\ (IF r = <<>> THEN m = 0
                         ELSE m # Len(r) /\ FirstLineHas(r, m))
  \/ \E s \in Senders : \E i \in 1..Len(Out(s)) :
       /\ StartsWithLine(r, s, i)
       /\ \/ IsMarker(s, i) /\ split = Result(0, NoToken, TRUE)
          \/ TakesLine(r, m, s, i, split)

LEMMA SplitOfLines ==
  ASSUME NEW r, Whole(r), NEW m \in 0..Len(r)
  PROVE  SplitIsRight(r, m, scanLinesWithEOF(BytesOf(SubSeq(r, 1, m)), FALSE))
<1> DEFINE d == BytesOf(SubSeq(r, 1, m))
           split == scanLinesWithEOF(d, FALSE)
           line == PlainSplit(d, FALSE)
<1>1. r \in Seq(Cells) /\ Len(r) \in Nat /\ m \in Nat
  BY DEF Whole
<1>2. CASE r = <<>>
  <2>1. m = 0
    BY <1>1, <1>2
  <2>2. SubSeq(r, 1, m) = <<>>
    BY <1>2, <2>1, SubSeqEmpty
  <2> QED
    BY <1>2, <2>1, <2>2, PlainSplitOfNothing DEF SplitIsRight
<1>3. CASE r # <<>>
  <2>0. PICK s \in Senders : \E i \in 1..Len(Out(s)) : StartsWithLine(r, s, i)
    BY <1>3, FirstLine
  <2>1. PICK i \in 1..Len(Out(s)) : StartsWithLine(r, s, i)
    BY <2>0
  <2> DEFINE n == Out(s)[i].len
  <2>2. n \in Nat \ {0} /\ n + 1 <= Len(r) /\ (IsMarker(s, i) => n = 1)
    BY <2>1, OutShape, MarkerShape DEF StartsWithLine
  <2>3. /\ d \in Seq(Bytes) /\ Len(d) = m
        /\ \A k \in 1..m : k <= n + 1 =>
             d[k] = IF k > n THEN "nl"
                    ELSE IF IsMarker(s, i) THEN "nul" ELSE "text"
    BY <2>1, FirstBytes
  <2>4. IsEnd(d) <=> IsMarker(s, i) /\ 2 <= m
    BY <2>1, EndFound
  <2>5. m = Len(r) => ~ MayBeEnd(d)
    BY <1>1, SubSeqFull, LastIsNoHalfMarker
  <2> SUFFICES SplitIsRight(r, m, split)
    OBVIOUS
  <2> HIDE DEF d, n
  <2>6. \A k \in 1..m : k <= n => d[k] = IF IsMarker(s, i) THEN "nul" ELSE "text"
    BY <1>1, <2>2, <2>3
  <2>7. CASE m <= n
    <3>1. ~ \E k \in 1..m : d[k] = "nl"
      BY <1>1, <2>2, <2>6, <2>7
    <3>2. line = NeedMore /\ line.advance = 0
      BY <2>3, <3>1 DEF PlainSplit, NeedMore, Result
    <3>3. ~ IsEnd(d)
      BY <1>1, <2>2, <2>4, <2>7
    <3>4. Rest(d, 0) = d
      BY <2>3, SubSeqFull DEF Rest
    <3>5. split = NeedMore
      BY <3>2, <3>3, <3>4 DEF scanLinesWithEOF
    <3>6. m # Len(r) /\ m <= n + 3
      BY <1>1, <2>2, <2>7
    <3>7. FirstLineHas(r, m)
      BY <2>1, <3>6 DEF FirstLineHas, n
    <3> HIDE DEF split
    <3> QED
      BY <1>3, <3>5, <3>6, <3>7 DEF SplitIsRight
  <2>8. CASE m > n /\ IsMarker(s, i)
    <3>1. IsEnd(d)
      BY <1>1, <2>2, <2>4, <2>8
    <3>2. split = Result(0, NoToken, TRUE)
      BY <3>1 DEF scanLinesWithEOF
    <3> HIDE DEF split
    <3> QED
      BY <2>1, <2>8, <3>2 DEF SplitIsRight
  <2>9. CASE m > n /\ ~ IsMarker(s, i)
    <3> DEFINE p == n + 1
               q == Rest(r, p)
               e == Rest(d, p)
    <3>1. p \in 1..m /\ p \in 0..m /\ p \in 0..Len(r) /\ p - 1 = n
      BY <1>1, <2>2, <2>9
    <3>2. d[p] = "nl" /\ \A k \in 1..(p - 1) : d[k] = "text"
      BY <2>2, <2>3, <2>6, <2>9, <3>1
    <3>3. FirstNewline(d) = p /\ \E k \in 1..Len(d) : d[k] = "nl"
      BY <2>3, <3>1, <3>2, FirstNewlineIs
    <3>4. DropCR(d, p - 1) = n
      BY <2>2, <3>1, <3>2 DEF DropCR
    <3>5. line = Result(p, n, FALSE)
      BY <3>3, <3>4 DEF PlainSplit
    <3>6. line.advance = p /\ [line EXCEPT !.final = TRUE] = Result(p, n, TRUE)
      <4> HIDE DEF line, p
      <4>1. line.advance = p
        BY <3>5 DEF Result
      <4>2. \A f, g : [Result(p, n, f) EXCEPT !.final = g] = Result(p, n, g)
        BY ResultExcept
      <4>3. [line EXCEPT !.final = TRUE] = Result(p, n, TRUE)
        BY <3>5, <4>2, Zenon
      <4> QED
        BY <4>1, <4>3
    <3>7. Whole(q)
      BY <2>1, AfterFirstLine DEF n
    <3>8. m - p \in 0..Len(q) /\ e = BytesOf(SubSeq(q, 1, m - p))
      BY <1>1, <2>3, <3>1, RestOfBytes DEF d
    <3>9. ~ IsEnd(d)
      BY <2>4, <2>9
    <3>10. ~ MayBeEnd(d)
      <4>1. 1 \in 1..m /\ 1 <= n
        BY <1>1, <2>2, <2>9
      <4>2. d[1] # "nul"
        BY <2>6, <2>9, <4>1
      <4> QED
        BY <2>3, <4>2, MayBeEndShape
    <3> HIDE DEF p, q, e
    <3>11. split = IF IsEnd(e) THEN Result(p, n, TRUE)
                   ELSE IF MayBeEnd(e) THEN NeedMore ELSE Result(p, n, FALSE)
      BY <3>5, <3>6, <3>9, <3>10 DEF scanLinesWithEOF, e
    <3>12. CASE IsEnd(e)
      <4>1. q # <<>>
        <5> SUFFICES ASSUME q = <<>> PROVE FALSE
          OBVIOUS
        <5>1. m - p = 0
          BY <1>1, <3>1, <3>8
        <5>2. SubSeq(q, 1, 0) = <<>>
          BY SubSeqEmpty
        <5>3. e = <<>>
          BY <3>8, <5>1, <5>2, PlainSplitOfNothing
        <5> QED
          BY <3>12, <5>3, PlainSplitOfNothing
      <4>0. PICK t \in Senders : \E j \in 1..Len(Out(t)) : StartsWithLine(q, t, j)
        BY <3>7, <4>1, FirstLine
      <4>2. PICK j \in 1..Len(Out(t)) : StartsWithLine(q, t, j)
        BY <4>0
      <4>3. IsMarker(t, j)
        BY <3>7, <3>8, <3>12, <4>2, EndFound
      <4>4. split = Result(p, n, TRUE)
        BY <3>11, <3>12
      <4> HIDE DEF split
      <4>6. split \in {Result(n + 1, n, final) : final \in BOOLEAN}
        BY <4>4, Zenon DEF p
      <4>7. n + 1 <= m
        BY <3>1 DEF p
      <4>8. TakesLine(r, m, s, i, split)
        BY <2>9, <4>2, <4>3, <4>6, <4>7 DEF TakesLine, p, q, n
      <4> QED
        BY <2>1, <4>8 DEF SplitIsRight
    <3>13. CASE ~ IsEnd(e) /\ MayBeEnd(e)
      <4>1. m # Len(r)
        <5> SUFFICES ASSUME m = Len(r) PROVE FALSE
          OBVIOUS
        <5>1. SubSeq(q, 1, m - p) = q
          BY <1>1, <3>1, <3>7, RestShape, SubSeqFull DEF q, Whole
        <5> QED
          BY <3>7, <3>8, <3>13, <5>1, LastIsNoHalfMarker
      <4>2. split = NeedMore
        BY <3>11, <3>13
      <4>3. e \in Seq(Bytes) /\ Len(e) = m - p
        <5>1. q \in Seq(Cells) /\ SubSeq(q, 1, m - p) \in Seq(Cells)
              /\ Len(SubSeq(q, 1, m - p)) = m - p
          BY <3>7, <3>8, RestShape DEF Whole
        <5> QED
          BY <3>8, <5>1, BytesShape
      <4>4. Len(e) = 1 \/ Len(e) = 2
        BY <3>13, <4>3, MayBeEndShape, Zenon
      <4>5. m <= n + 3
        <5>1. m - p = 1 \/ m - p = 2
          BY <4>3, <4>4
        <5> QED
          BY <1>1, <2>2, <3>1, <5>1
      <4>6. FirstLineHas(r, m)
        BY <2>1, <4>5 DEF FirstLineHas, n
      <4> HIDE DEF split
      <4> QED
        BY <1>3, <4>1, <4>2, <4>6 DEF SplitIsRight
    <3>14. CASE ~ IsEnd(e) /\ ~ MayBeEnd(e)
      <4>1. split = Result(p, n, FALSE)
        BY <3>11, <3>14
      <4> HIDE DEF split
      <4>2. ~ split.final
        BY <4>1, Zenon DEF Result
      <4>3. split \in {Result(n + 1, n, final) : final \in BOOLEAN}
        BY <4>1, Zenon DEF p
      <4>4. n + 1 <= m
        BY <3>1 DEF p
      <4>5. TakesLine(r, m, s, i, split)
        BY <2>9, <4>2, <4>3, <4>4 DEF TakesLine, n
      <4> QED
        BY <2>1, <4>5 DEF SplitIsRight
    <3> QED
      BY <3>12, <3>13, <3>14
  <2>10. m <= n \/ m > n
    BY <1>1, <2>2
  <2> HIDE DEF split
  <2> QED
    BY <2>7, <2>8, <2>9, <2>10
<1> QED
  BY <1>2, <1>3

-----------------------------------------------------------------------------
(* The invariant of the channel: the lines of a sender go into its batch   *)
(* and into the pipe in the order of its arguments, and the scanner is     *)
(* always between two lines.                                               *)

\* A batch that has not gone into the pipe, and is not given up.
Filling(s) == pc[s] \in {"open", "loop"} \/ writing[s] # <<>>

InOrder(s) ==
  /\ \A k \in 2..Len(LinesIn(buf[s])) :
       LinesIn(buf[s])[k - 1].arg < LinesIn(buf[s])[k].arg
  /\ \A l \in SentLines(buf[s]) : l.arg < next[s]
  /\ \A l \in SentLines(stream) : l.from = s => l.arg < next[s]
  /\ Filling(s) =>
       \A l \in SentLines(stream), m \in SentLines(buf[s]) :
         l.from = s => l.arg < m.arg

Scanned == SubSeq(stream, 1, scanned)
Ahead == Rest(stream, scanned)
Delivered == [k \in 1..Len(received) |-> LineOf(received[k])]

ScannerOK ==
  /\ Whole(Scanned)
  /\ Delivered = LinesIn(Scanned)
  /\ reader = "opening" => got = 0
  /\ reader = "reading" =>
       scanLinesWithEOF(BytesOf(Unscanned), FALSE) = NeedMore
  /\ reader = "eof" => scanned = got

ChannelInv ==
  /\ IInv
  /\ ScannerOK
  /\ \A s \in Senders : InOrder(s)

\* The numbers of lines are numbers.
LEMMA LineTypes ==
  ASSUME NEW b \in Seq(Cells), NEW l \in SentLines(b)
  PROVE  l.from \in Senders /\ l.arg \in Nat
<1>1. PICK k \in 1..Len(b) : l = Line(b[k].from, b[k].arg)
  BY DEF SentLines
<1>2. b[k].from \in Senders /\ b[k].arg \in 1..Len(Out(b[k].from))
  BY CellShape, ElementOfSeq
<1>3. l.from = b[k].from /\ l.arg = b[k].arg
  BY <1>1 DEF Line
<1> QED
  BY <1>2, <1>3, OutShape

LEMMA PrimedLines ==
  ASSUME NEW s \in Senders
  PROVE  /\ LinesIn(buf[s])' = LinesIn(buf'[s])
         /\ SentLines(buf[s])' = SentLines(buf'[s])
         /\ LinesIn(stream)' = LinesIn(stream')
         /\ SentLines(stream)' = SentLines(stream')
         /\ LinesIn(Scanned)' = LinesIn(Scanned')
BY DEF LinesIn, SentLines, NewlinesIn, Rank, Line

\* Lines that a sender does not put into the pipe, and a batch that it does
\* not change, stay in order.
LEMMA OrderKept ==
  ASSUME TypeOK, TypeOK', NEW s \in Senders, InOrder(s),
         buf'[s] = buf[s], next[s] <= next'[s], Filling(s)' => Filling(s),
         \A l \in SentLines(stream') : l.from = s => l \in SentLines(stream)
  PROVE  InOrder(s)'
<1>1. /\ next[s] \in Nat /\ next'[s] \in Nat
      /\ stream \in Seq(Cells) /\ buf[s] \in Seq(Cells)
  BY DEF TypeOK
<1>2. /\ \A l \in SentLines(stream) : l.arg \in Nat
      /\ \A l \in SentLines(buf[s]) : l.arg \in Nat
  BY <1>1, LineTypes
<1>3. \A k \in 2..Len(LinesIn(buf'[s])) :
        LinesIn(buf'[s])[k - 1].arg < LinesIn(buf'[s])[k].arg
  BY DEF InOrder
<1>4. \A l \in SentLines(buf'[s]) : l.arg < next'[s]
  BY <1>1, <1>2 DEF InOrder
<1>5. \A l \in SentLines(stream') : l.from = s => l.arg < next'[s]
  BY <1>1, <1>2 DEF InOrder
<1>6. Filling(s)' =>
        \A l \in SentLines(stream'), m \in SentLines(buf'[s]) :
          l.from = s => l.arg < m.arg
  BY DEF InOrder
<1> QED
  BY <1>3, <1>4, <1>5, <1>6, PrimedLines DEF InOrder

\* A line joins the batch with a number greater than those of all lines that
\* its sender has put anywhere.
LEMMA AddInOrder ==
  ASSUME IInv, TypeOK', NEW s \in Senders, InOrder(s), Add(s)
  PROVE  InOrder(s)'
<1> DEFINE i == next[s]
           line == LineBytes(s, i)
           old == LinesIn(buf[s])
           new == LinesIn(buf'[s])
<1>1. /\ i \in 1..Len(Out(s)) /\ i \in Nat
      /\ next'[s] = i + 1
      /\ buf'[s] = buf[s] \o line
      /\ stream' = stream /\ pc[s] = "loop"
      /\ stream \in Seq(Cells) /\ buf[s] \in Seq(Cells)
  <2>1. i \in 1..Len(Out(s)) /\ i \in Nat
    BY SenderTypes DEF IInv, Add, More
  <2>2. next'[s] = i + 1 /\ buf'[s] = buf[s] \o line
    BY DEF IInv, TypeOK, Add
  <2>3. stream' = stream /\ pc[s] = "loop"
    BY DEF Add
  <2>4. stream \in Seq(Cells) /\ buf[s] \in Seq(Cells)
    BY DEF IInv, TypeOK
  <2> QED
    BY <2>1, <2>2, <2>3, <2>4
<1>2. line \in Seq(Cells) /\ LinesIn(line) = <<Line(s, i)>>
  BY <1>1, LineShape, LinesOfLine
<1>3. new = old \o <<Line(s, i)>>
  BY <1>1, <1>2, LinesOfConcat
<1>4. Whole(buf[s]) /\ Whole(line) /\ SentLines(line) = {Line(s, i)}
  BY <1>1, LineIsWhole DEF IInv, OwnBatch
<1>5. SentLines(buf'[s]) = SentLines(buf[s]) \cup {Line(s, i)}
  BY <1>1, <1>4, ConcatWhole
<1>6. /\ \A l \in SentLines(stream) : l.arg \in Nat
      /\ \A l \in SentLines(buf[s]) : l.arg \in Nat
  BY <1>1, LineTypes
<1>7. Line(s, i).arg = i /\ Line(s, i) \in Lines
  BY <1>1 DEF Line, Lines
<1>8. /\ old \in Seq(Lines)
      /\ SentLines(buf[s]) = {old[n] : n \in 1..Len(old)}
  BY <1>1, LinesShape, LinesAreSent
<1> HIDE DEF i, line, old, new
<1>9. \A k \in 2..Len(new) : new[k - 1].arg < new[k].arg
  <2>1. /\ Len(new) = Len(old) + 1 /\ Len(old) \in Nat
        /\ new[Len(old) + 1] = Line(s, i)
        /\ \A n \in 1..Len(old) : new[n] = old[n]
    <3>1. <<Line(s, i)>> \in Seq(Lines) /\ Len(<<Line(s, i)>>) = 1
          /\ <<Line(s, i)>>[1] = Line(s, i)
      BY <1>7
    <3> HIDE DEF Line
    <3> QED
      BY <1>3, <1>8, <3>1, ConcatProperties
  <2>2. \A n \in 1..Len(old) : old[n].arg < i
    BY <1>8 DEF InOrder, i
  <2> SUFFICES ASSUME NEW k \in 2..Len(new) PROVE new[k - 1].arg < new[k].arg
    OBVIOUS
  <2>3. CASE k <= Len(old)
    <3>1. k \in 2..Len(old) /\ k - 1 \in 1..Len(old) /\ k \in 1..Len(old)
      BY <2>1, <2>3
    <3> QED
      BY <2>1, <3>1 DEF InOrder, old
  <2>4. CASE k = Len(old) + 1
    <3>1. k - 1 \in 1..Len(old) /\ k - 1 = Len(old)
      BY <2>1, <2>4
    <3> QED
      BY <1>7, <2>1, <2>2, <2>4, <3>1
  <2> QED
    BY <2>1, <2>3, <2>4
<1>10. \A l \in SentLines(buf'[s]) : l.arg < next'[s]
  BY <1>1, <1>5, <1>6, <1>7 DEF InOrder, i
<1>11. \A l \in SentLines(stream') : l.from = s => l.arg < next'[s]
  BY <1>1, <1>6 DEF InOrder, i
<1>12. \A l \in SentLines(stream'), m \in SentLines(buf'[s]) :
         l.from = s => l.arg < m.arg
  BY <1>1, <1>5, <1>7 DEF InOrder, Filling, i
<1> QED
  BY <1>9, <1>10, <1>11, <1>12, PrimedLines DEF InOrder, new

\* An empty batch is in order.
LEMMA WrittenInOrder ==
  ASSUME IInv, NEW s \in Senders, InOrder(s), Written(s)
  PROVE  InOrder(s)'
<1>1. buf'[s] = <<>> /\ next'[s] = next[s] /\ stream' = stream
  BY DEF IInv, TypeOK, Written
<1>2. LinesIn(<<>>) = <<>> /\ Len(<<>>) = 0 /\ SentLines(<<>>) = {}
  BY LinesOfNothing, NothingIsWhole
<1>3. \A k \in 2..Len(LinesIn(buf'[s])) :
        LinesIn(buf'[s])[k - 1].arg < LinesIn(buf'[s])[k].arg
  BY <1>1, <1>2
<1> QED
  BY <1>1, <1>2, <1>3, PrimedLines DEF InOrder

\* A batch that has gone into the pipe is given up by its sender.
LEMMA TakesInOrder ==
  ASSUME IInv, TypeOK', NEW s \in Senders, InOrder(s), PipeTakes(s)
  PROVE  InOrder(s)'
<1>1. /\ stream' = stream \o buf[s]
      /\ buf'[s] = buf[s] /\ next'[s] = next[s]
      /\ stream \in Seq(Cells) /\ buf[s] \in Seq(Cells)
  BY TakesTheBatch DEF IInv, TypeOK, PipeTakes
<1>2. SentLines(stream') = SentLines(stream) \cup SentLines(buf[s])
  BY <1>1, ConcatWhole DEF IInv, OwnBatch
<1>3. ~ Filling(s)'
  <2>1. writing'[s] = <<>> /\ pc'[s] = pc[s]
    BY TakesTheBatch, ZenonT(30) DEF IInv, TypeOK, PipeTakes
  <2>2. pc[s] \in {"write", "close"}
    BY DEF IInv, OwnWrite, PipeTakes
  <2> QED
    BY <2>1, <2>2 DEF Filling
<1> QED
  BY <1>1, <1>2, <1>3, PrimedLines DEF InOrder

\* Whatever a sender or the pipe does, lines stay in order.
LEMMA SenderInOrder ==
  ASSUME IInv, IInv', NEW s \in Senders, \A r \in Senders : InOrder(r),
         Sender(s) \/ Expire(s) \/ PipeTakes(s)
  PROVE  \A r \in Senders : InOrder(r)'
<1>1. TypeOK /\ TypeOK'
  BY DEF IInv
<1>2. ASSUME NEW r \in Senders, r # s PROVE InOrder(r)'
  <2>1. /\ buf'[r] = buf[r] /\ next'[r] = next[r]
        /\ pc'[r] = pc[r] /\ writing'[r] = writing[r]
    BY <1>1, <1>2, TakesTheBatch
       DEF TypeOK, Sender, Open, OpenAbandoned, Skip, Add, Write, Written,
           WriteFails, Finish, Close, Move, Expire, PipeTakes, senderVars
  <2>2. next[r] <= next'[r]
    BY <1>1, <2>1 DEF TypeOK
  <2>3. Filling(r)' => Filling(r)
    BY <2>1 DEF Filling
  <2>4. \A l \in SentLines(stream') : l.from = r => l \in SentLines(stream)
    <3>1. CASE PipeTakes(s)
      <4>1. SentLines(stream') = SentLines(stream) \cup SentLines(buf[s])
        BY <3>1, TakesTheBatch, ConcatWhole DEF IInv, OwnBatch
      <4>2. \A l \in SentLines(buf[s]) : l.from = s
        BY DEF IInv, OwnBatch, SentLines, Line
      <4> QED
        BY <1>2, <4>1, <4>2
    <3>2. CASE UNCHANGED stream
      BY <3>2
    <3> QED
      BY <3>1, <3>2
         DEF Sender, Open, OpenAbandoned, Skip, Add, Write, Written,
             WriteFails, Finish, Close, Expire
  <2> QED
    BY <1>1, <2>1, <2>2, <2>3, <2>4, OrderKept
<1>3. InOrder(s)'
  <2>1. CASE Add(s)
    BY <1>1, <2>1, AddInOrder
  <2>2. CASE Written(s)
    BY <2>2, WrittenInOrder
  <2>3. CASE PipeTakes(s)
    BY <1>1, <2>3, TakesInOrder
  <2>4. ASSUME buf'[s] = buf[s], next[s] <= next'[s], stream' = stream,
               Filling(s)' => Filling(s)
        PROVE  InOrder(s)'
    BY <1>1, <2>4, OrderKept
  <2>5. CASE Open(s)
    BY <1>1, <2>4, <2>5 DEF TypeOK, Open, Filling
  <2>6. CASE OpenAbandoned(s)
    BY <1>1, <2>4, <2>6 DEF TypeOK, OpenAbandoned, Move, Filling
  <2>7. CASE Skip(s)
    BY <1>1, <2>4, <2>7 DEF TypeOK, Skip, Filling
  <2>8. CASE Write(s)
    BY <1>1, <2>4, <2>8 DEF TypeOK, Write, Filling
  <2>9. CASE WriteFails(s)
    BY <1>1, <2>4, <2>9 DEF TypeOK, WriteFails, Move, Filling
  <2>10. CASE Finish(s)
    BY <1>1, <2>4, <2>10 DEF TypeOK, Finish, Filling
  <2>11. CASE Close(s)
    BY <1>1, <2>4, <2>11 DEF TypeOK, Close, Move, Filling
  <2>12. CASE Expire(s)
    BY <1>1, <2>4, <2>12 DEF TypeOK, Expire, senderVars, Filling
  <2> QED
    BY <2>1, <2>2, <2>3, <2>5, <2>6, <2>7, <2>8, <2>9, <2>10, <2>11, <2>12
       DEF Sender
<1> QED
  BY <1>2, <1>3

\* What lies ahead of the scanner is whole lines, and it is given the start
\* of them.
LEMMA AheadShape ==
  ASSUME IInv, ScannerOK
  PROVE  /\ Whole(Ahead) /\ Whole(Scanned)
         /\ stream = Scanned \o Ahead /\ stream \in Seq(Cells)
         /\ Len(Ahead) = Len(stream) - scanned
         /\ LinesIn(stream) = Delivered \o LinesIn(Ahead)
         /\ got - scanned \in 0..Len(Ahead)
         /\ Unscanned = SubSeq(Ahead, 1, got - scanned)
<1>1. /\ Whole(stream) /\ stream \in Seq(Cells) /\ Len(stream) \in Nat
      /\ scanned \in Nat /\ got \in Nat /\ scanned <= got /\ got <= Len(stream)
      /\ Whole(Scanned)
  BY DEF IInv, TypeOK, ScannerOK
<1>2. scanned \in 0..Len(stream)
  BY <1>1
<1>3. /\ Ahead \in Seq(Cells) /\ Len(Ahead) = Len(stream) - scanned
      /\ \A k \in 1..(Len(stream) - scanned) : Ahead[k] = stream[scanned + k]
      /\ stream = Scanned \o Ahead
  <2>1. /\ Rest(stream, scanned) \in Seq(Cells)
        /\ Len(Rest(stream, scanned)) = Len(stream) - scanned
        /\ \A k \in 1..(Len(stream) - scanned) :
             Rest(stream, scanned)[k] = stream[scanned + k]
        /\ stream = SubSeq(stream, 1, scanned) \o Rest(stream, scanned)
    BY ONLY <1>1, <1>2, RestShape, Zenon
  <2> QED
    BY <2>1, Zenon DEF Scanned, Ahead
<1>4. Whole(Ahead) /\ LinesIn(stream) = LinesIn(Scanned) \o LinesIn(Ahead)
  BY <1>1, <1>2, RestIsWhole DEF Scanned, Ahead
<1>5. LinesIn(stream) = Delivered \o LinesIn(Ahead)
  BY <1>4 DEF ScannerOK
<1> DEFINE m == got - scanned
           v == SubSeq(Ahead, 1, m)
<1>6. m \in 0..Len(Ahead)
  BY <1>1, <1>3
<1> HIDE DEF Ahead
<1>7. v \in Seq(Cells) /\ Len(v) = m /\ \A k \in 1..m : v[k] = Ahead[k]
  BY <1>3, <1>6, RestShape
<1>8. /\ Unscanned \in Seq(Cells) /\ Len(Unscanned) = m
      /\ \A k \in 1..m : Unscanned[k] = stream[scanned + k]
  <2>1. \A k \in (scanned + 1)..got : stream[k] \in Cells
    BY <1>1, ElementOfSeq
  <2>2. /\ Unscanned \in Seq(Cells)
        /\ Len(Unscanned) = IF scanned + 1 <= got THEN got - (scanned + 1) + 1 ELSE 0
        /\ \A k \in 1..(got - (scanned + 1) + 1) :
             Unscanned[k] = stream[scanned + 1 + k - 1]
    BY <1>1, <2>1, SubSeqProperties DEF Unscanned
  <2>3. \A k \in 1..m : k \in 1..(got - (scanned + 1) + 1)
                        /\ scanned + 1 + k - 1 = scanned + k
    BY <1>1
  <2>4. Len(Unscanned) = m
    BY <1>1, <2>2
  <2> QED
    BY <2>2, <2>3, <2>4
<1>9. \A k \in 1..m : Unscanned[k] = v[k]
  <2>1. \A k \in 1..m : k \in 1..(Len(stream) - scanned)
    BY <1>1
  <2> QED
    BY <1>3, <1>7, <1>8, <2>1
<1> HIDE DEF v
<1>10. Unscanned = v
  BY <1>7, <1>8, <1>9, SeqEqual
<1> QED
  BY <1>1, <1>3, <1>4, <1>5, <1>6, <1>10 DEF v

\* A token is a line without its newline.
LEMMA LineOfToken ==
  ASSUME NEW s \in Senders, NEW i \in 1..Len(Out(s)),
         NEW token \in Seq(Cells), Len(token) = Out(s)[i].len,
         \A k \in 1..Len(token) : token[k] = LineBytes(s, i)[k]
  PROVE  LineOf(token) = Line(s, i)
<1> DEFINE n == Out(s)[i].len
           b == LineBytes(s, i)
           e == Cell(s, i, "nl")
<1>1. n \in Nat \ {0} /\ b \in Seq(Cells) /\ Len(b) = n + 1
  BY OutShape, LineShape
<1>2. e \in Cells
  BY DEF Cells, Bytes
<1>3. b[n + 1] = e /\ b[1].from = s /\ b[1].arg = i
  <2>1. \A k \in 1..(n + 1) :
          b[k] = Cell(s, i, IF k > n THEN "nl"
                            ELSE IF IsMarker(s, i) THEN "nul" ELSE "text")
    BY LineShape
  <2>2. n + 1 > n /\ 1 \in 1..(n + 1) /\ n + 1 \in 1..(n + 1)
    BY <1>1
  <2> HIDE DEF b, n
  <2>3. b[n + 1] = Cell(s, i, "nl")
    BY <2>1, <2>2
  <2>4. PICK x : b[1] = Cell(s, i, x)
    BY <2>1, <2>2
  <2>5. b[1].from = s /\ b[1].arg = i
    BY <2>4 DEF Cell
  <2> QED
    BY <2>3, <2>5
<1> HIDE DEF b, n, e
<1>4. token[1].from = s /\ token[1].arg = i /\ token # <<>>
  <2>1. 1 \in 1..Len(token)
    BY <1>1 DEF n
  <2> QED
    BY <1>3, <2>1 DEF b
<1>5. Append(token, e) = b
  <2>1. /\ Append(token, e) \in Seq(Cells) /\ Len(Append(token, e)) = n + 1
        /\ \A k \in 1..n : Append(token, e)[k] = token[k]
        /\ Append(token, e)[n + 1] = e
    BY <1>2, AppendProperties DEF n
  <2>2. \A k \in 1..n : token[k] = b[k]
    BY DEF n, b
  <2>3. ASSUME NEW k \in 1..(n + 1) PROVE Append(token, e)[k] = b[k]
    <3>1. k \in 1..n \/ k = n + 1
      BY <1>1
    <3> QED
      BY <1>3, <2>1, <2>2, <3>1
  <2> QED
    BY <1>1, <2>1, <2>3, SeqEqual
<1> QED
  BY <1>4, <1>5 DEF LineOf, e, b

\* The scanner goes on, or stops where nothing is left.
ScansNothing ==
  /\ UNCHANGED <<scanned, received>>
  /\ \/ reader = "scanning" /\ reader' = "reading"
        /\ scanLinesWithEOF(BytesOf(Unscanned), FALSE) = NeedMore
     \/ reader = "eof" /\ reader' = "ended"

\* The scanner stops at the end marker ahead of it.
ScansMarker ==
  /\ UNCHANGED <<scanned, received>>
  /\ reader = "scanning" /\ reader' = "ended"
  /\ \E s \in Senders : \E i \in 1..Len(Out(s)) :
       StartsWithLine(Ahead, s, i) /\ IsMarker(s, i)

\* The scanner takes line i of s, and may have seen an end marker behind it.
ScansLine(s, i) ==
  LET p == Out(s)[i].len + 1 IN
  /\ StartsWithLine(Ahead, s, i) /\ ~ IsMarker(s, i)
  /\ scanned' = scanned + p /\ scanned' <= got
  /\ \E token \in Seq(Cells) :
       LineOf(token) = Line(s, i) /\ received' = Append(received, token)
  /\ reader = "scanning"
  /\ \/ reader' = "scanning"
     \/ /\ reader' = "ended"
        /\ \E t \in Senders : \E j \in 1..Len(Out(t)) :
             StartsWithLine(Rest(Ahead, p), t, j) /\ IsMarker(t, j)

LEMMA ScanCases ==
  ASSUME IInv, ScannerOK, Scan
  PROVE  \/ ScansNothing \/ ScansMarker
         \/ \E s \in Senders : \E i \in 1..Len(Out(s)) : ScansLine(s, i)
<1> DEFINE m == got - scanned
<1>1. /\ Whole(Ahead) /\ m \in 0..Len(Ahead) /\ Ahead \in Seq(Cells)
      /\ Unscanned = SubSeq(Ahead, 1, m)
      /\ scanned \in Nat /\ got \in Nat
  BY AheadShape DEF IInv, TypeOK, Whole
<1>2. PICK split \in {scanLinesWithEOF(BytesOf(Unscanned), reader = "eof")} :
        /\ scanned' = scanned + split.advance
        /\ received' =
             IF TokenLength(split) \in {NoToken, 0} THEN received
             ELSE Append(received, SubSeq(Unscanned, 1, split.token))
        /\ reader' =
             IF split.final \/ (split = NeedMore /\ reader = "eof") THEN "ended"
             ELSE IF split = NeedMore THEN "reading" ELSE reader
  BY DEF Scan
<1>3. split = scanLinesWithEOF(BytesOf(Unscanned), reader = "eof")
  OBVIOUS
<1>4. /\ NeedMore.advance = 0 /\ NeedMore.token = NoToken /\ ~ NeedMore.final
      /\ TokenLength(NeedMore) = NoToken
  BY DEF NeedMore, Result, TokenLength
<1>5. CASE reader = "eof"
  <2>1. m = 0
    BY <1>1, <1>5 DEF ScannerOK
  <2>2. Unscanned = <<>>
    BY <1>1, <2>1, SubSeqEmpty
  <2>3. split = NeedMore
    BY <1>3, <1>5, <2>2, PlainSplitOfNothing
  <2> QED
    BY <1>1, <1>2, <1>4, <1>5, <2>3 DEF ScansNothing
<1>6. CASE reader = "scanning"
  <2>1. split = scanLinesWithEOF(BytesOf(SubSeq(Ahead, 1, m)), FALSE)
    BY <1>1, <1>3, <1>6
  <2>2. SplitIsRight(Ahead, m, split)
    BY <1>1, <2>1, SplitOfLines
  <2> HIDE <1>3
  <2>3. CASE split = NeedMore
    <3>1. /\ split.advance = 0 /\ TokenLength(split) = NoToken
          /\ ~ split.final
      BY <1>4, <2>3
    <3>2. scanned' = scanned /\ received' = received
      BY <1>1, <1>2, <3>1
    <3>3. reader' = "reading"
      BY <1>2, <1>6, <2>3, <3>1
    <3>4. scanLinesWithEOF(BytesOf(Unscanned), FALSE) = NeedMore
      BY <1>1, <2>1, <2>3
    <3> QED
      BY <1>6, <3>2, <3>3, <3>4 DEF ScansNothing
  <2>4. ASSUME NEW s \in Senders, NEW i \in 1..Len(Out(s)),
               StartsWithLine(Ahead, s, i), IsMarker(s, i),
               split = Result(0, NoToken, TRUE)
        PROVE  ScansMarker
    <3>1. split.advance = 0 /\ TokenLength(split) = 0 /\ split.final
      BY <2>4 DEF Result, TokenLength
    <3>2. scanned' = scanned /\ received' = received
      BY <1>1, <1>2, <3>1
    <3>3. reader' = "ended"
      BY <1>2, <3>1
    <3> QED
      BY <1>6, <2>4, <3>2, <3>3 DEF ScansMarker
  <2>5. ASSUME NEW s \in Senders, NEW i \in 1..Len(Out(s)),
               StartsWithLine(Ahead, s, i), TakesLine(Ahead, m, s, i, split)
        PROVE  ScansLine(s, i)
    <3> DEFINE n == Out(s)[i].len
               token == SubSeq(Unscanned, 1, n)
    <3>1. n \in Nat \ {0} /\ n + 1 <= m /\ ~ IsMarker(s, i)
      BY <2>5, OutShape DEF TakesLine
    <3>2. PICK final \in BOOLEAN : split = Result(n + 1, n, final)
      BY <2>5 DEF TakesLine
    <3> HIDE DEF n
    <3>3. /\ split.advance = n + 1 /\ split.token = n
          /\ TokenLength(split) \notin {NoToken, 0} /\ split # NeedMore
      <4>1. split.advance = n + 1 /\ split.token = n
        BY <3>2 DEF Result
      <4> QED
        BY <1>4, <3>1, <4>1 DEF NoToken, TokenLength
    <3>4. scanned' = scanned + (n + 1) /\ scanned' <= got
      BY <1>1, <1>2, <3>1, <3>3
    <3>5. received' = Append(received, token)
      BY <1>2, <3>3
    <3>6. /\ token \in Seq(Cells) /\ Len(token) = n
          /\ \A k \in 1..Len(token) : token[k] = LineBytes(s, i)[k]
      <4>1. n \in 0..m /\ n \in 0..Len(Ahead) /\ n + 1 \in 0..Len(Ahead)
            /\ \A k \in 1..n : k \in 1..m /\ k \in 1..(n + 1)
        BY <1>1, <3>1
      <4>2. /\ Unscanned \in Seq(Cells) /\ Len(Unscanned) = m
            /\ \A k \in 1..m : Unscanned[k] = Ahead[k]
        BY <1>1, RestShape
      <4>3. /\ token \in Seq(Cells) /\ Len(token) = n
            /\ \A k \in 1..n : token[k] = Unscanned[k]
        BY <4>1, <4>2, RestShape
      <4>4. \A k \in 1..(n + 1) : SubSeq(Ahead, 1, n + 1)[k] = Ahead[k]
        BY <1>1, <4>1, RestShape
      <4>5. SubSeq(Ahead, 1, n + 1) = LineBytes(s, i)
        BY <2>5 DEF StartsWithLine, n
      <4> HIDE DEF token
      <4> QED
        BY <4>1, <4>2, <4>3, <4>4, <4>5
    <3>7. LineOf(token) = Line(s, i)
      BY <3>6, LineOfToken DEF n
    <3>8. CASE split.final
      <4>1. reader' = "ended"
        BY <1>2, <3>8
      <4>2. \E t \in Senders : \E j \in 1..Len(Out(t)) :
              StartsWithLine(Rest(Ahead, n + 1), t, j) /\ IsMarker(t, j)
        BY <2>5, <3>8 DEF TakesLine, n
      <4> HIDE DEF token
      <4> QED
        BY <1>6, <2>5, <3>1, <3>4, <3>5, <3>6, <3>7, <4>1, <4>2
           DEF ScansLine, n
    <3>9. CASE ~ split.final
      <4>1. reader' = "scanning"
        BY <1>2, <1>6, <3>3, <3>9
      <4> HIDE DEF token
      <4> QED
        BY <1>6, <2>5, <3>1, <3>4, <3>5, <3>6, <3>7, <4>1 DEF ScansLine, n
    <3> QED
      BY <3>8, <3>9
  <2> QED
    BY <2>2, <2>3, <2>4, <2>5 DEF SplitIsRight
<1> QED
  BY <1>5, <1>6 DEF Scan

LEMMA PrefixGrows ==
  ASSUME NEW S, NEW b \in Seq(S), NEW n \in 0..Len(b), NEW p \in 0..(Len(b) - n)
  PROVE  SubSeq(b, 1, n + p) = SubSeq(b, 1, n) \o SubSeq(Rest(b, n), 1, p)
<1> DEFINE h == SubSeq(b, 1, n)
           q == Rest(b, n)
           v == SubSeq(q, 1, p)
           w == SubSeq(b, 1, n + p)
<1>1. Len(b) \in Nat /\ n \in Nat /\ p \in Nat /\ n + p \in 0..Len(b)
  BY LenProperties
<1>2. /\ h \in Seq(S) /\ Len(h) = n /\ \A k \in 1..n : h[k] = b[k]
      /\ q \in Seq(S) /\ Len(q) = Len(b) - n
      /\ \A k \in 1..(Len(b) - n) : q[k] = b[n + k]
  BY RestShape, ZenonT(30)
<1>3. w \in Seq(S) /\ Len(w) = n + p /\ \A k \in 1..(n + p) : w[k] = b[k]
  BY <1>1, RestShape
<1> HIDE DEF h, q, w
<1>4. v \in Seq(S) /\ Len(v) = p /\ \A k \in 1..p : v[k] = q[k]
  BY <1>2, RestShape
<1> HIDE DEF v
<1>5. /\ h \o v \in Seq(S) /\ Len(h \o v) = n + p
      /\ \A k \in 1..(n + p) : (h \o v)[k] = IF k <= n THEN h[k] ELSE v[k - n]
  <2>1. h \in Seq(S) /\ v \in Seq(S) /\ Len(h) = n /\ Len(v) = p
    BY <1>2, <1>4
  <2>2. /\ h \o v \in Seq(S) /\ Len(h \o v) = Len(h) + Len(v)
        /\ \A k \in 1..(Len(h) + Len(v)) :
             (h \o v)[k] = IF k <= Len(h) THEN h[k] ELSE v[k - Len(h)]
    BY <2>1, ConcatProperties, ZenonT(30)
  <2> QED
    BY <2>1, <2>2
<1>6. ASSUME NEW k \in 1..(n + p) PROVE w[k] = (h \o v)[k]
  <2>1. CASE k <= n
    BY <1>1, <1>2, <1>3, <1>5, <2>1
  <2>2. CASE k > n
    <3>1. /\ k - n \in 1..p /\ k - n \in 1..(Len(b) - n) /\ n + (k - n) = k
          /\ ~ (k <= n)
      BY <1>1, <2>2
    <3>2. (h \o v)[k] = v[k - n]
      BY <1>5, <3>1
    <3> QED
      BY <1>2, <1>3, <1>4, <3>1, <3>2, SMTT(30)
  <2>3. k <= n \/ k > n
    BY <1>1
  <2> QED
    BY <2>1, <2>2, <2>3
<1>7. w = h \o v
  BY <1>3, <1>5, <1>6, SeqEqual
<1> QED
  BY <1>7 DEF h, q, v, w

\* What has been delivered does not depend on anything but the tokens.
LEMMA PrimedDelivered ==
  Delivered' = [k \in 1..Len(received') |-> LineOf(received'[k])]
BY DEF Delivered, LineOf, LineBytes, Line, Out, IsMarker, Cell, TornLine

\* The scanner takes a line: it is the next one to be delivered.
LEMMA ScansLineOK ==
  ASSUME IInv, ScannerOK, UNCHANGED <<stream, got>>,
         NEW s \in Senders, NEW i \in 1..Len(Out(s)), ScansLine(s, i)
  PROVE  /\ ScannerOK'
         /\ Delivered' = Append(Delivered, Line(s, i))
<1> DEFINE p == Out(s)[i].len + 1
<1>1. /\ Whole(Ahead) /\ Whole(Scanned) /\ stream \in Seq(Cells)
      /\ Len(Ahead) = Len(stream) - scanned
      /\ scanned \in 0..Len(stream) /\ scanned \in Nat
      /\ received \in Seq(Seq(Cells))
  <2>1. /\ stream \in Seq(Cells) /\ Len(stream) \in Nat
        /\ scanned \in Nat /\ got \in Nat
        /\ scanned <= got /\ got <= Len(stream)
        /\ received \in Seq(Seq(Cells))
    BY LenProperties DEF IInv, TypeOK
  <2>2. scanned \in 0..Len(stream)
    BY <2>1
  <2> QED
    BY <2>1, <2>2, AheadShape
<1>2. /\ p \in 0..Len(Ahead)
      /\ SubSeq(Ahead, 1, p) = LineBytes(s, i)
      /\ scanned' = scanned + p
  BY <1>1, AfterFirstLine DEF ScansLine, StartsWithLine
<1>3. PICK token \in Seq(Cells) :
        LineOf(token) = Line(s, i) /\ received' = Append(received, token)
  BY DEF ScansLine
<1> HIDE DEF p
<1>4. Scanned' = Scanned \o LineBytes(s, i)
  <2>1. SubSeq(stream, 1, scanned + p) = Scanned \o SubSeq(Ahead, 1, p)
    BY <1>1, <1>2, PrefixGrows DEF Scanned, Ahead
  <2> QED
    BY <1>2, <2>1 DEF Scanned
<1>5. Whole(LineBytes(s, i)) /\ LinesIn(LineBytes(s, i)) = <<Line(s, i)>>
  BY LineIsWhole, LinesOfLine
<1>6. Whole(Scanned')
  BY <1>1, <1>4, <1>5, ConcatWhole
<1>7. /\ LinesIn(Scanned') = LinesIn(Scanned) \o <<Line(s, i)>>
      /\ LinesIn(Scanned) \in Seq(Lines)
  <2>1. Scanned \in Seq(Cells) /\ LineBytes(s, i) \in Seq(Cells)
    BY <1>1, <1>5 DEF Whole
  <2>2. LinesIn(Scanned \o LineBytes(s, i)) = LinesIn(Scanned) \o LinesIn(LineBytes(s, i))
    BY <2>1, LinesOfConcat
  <2>3. LinesIn(Scanned) \in Seq(Lines)
    BY <2>1, LinesShape
  <2> QED
    BY <1>4, <1>5, <2>2, <2>3
<1>8. Delivered \o <<Line(s, i)>> = Append(Delivered, Line(s, i))
  <2>1. Delivered \in Seq(Lines) /\ Line(s, i) \in Lines
    BY <1>7 DEF ScannerOK, Lines
  <2> QED
    BY <2>1, AppendIsConcat
<1>9. Delivered' = Append(Delivered, Line(s, i))
  <2>1. /\ Len(received') = Len(received) + 1 /\ Len(received) \in Nat
        /\ \A k \in 1..Len(received) : received'[k] = received[k]
        /\ received'[Len(received) + 1] = token
    BY <1>1, <1>3, AppendProperties, LenProperties
  <2>2. /\ Delivered \in Seq(Lines) /\ Len(Delivered) = Len(received)
        /\ \A k \in 1..Len(received) : Delivered[k] = LineOf(received[k])
    BY <1>7, <2>1 DEF ScannerOK, Delivered
  <2>3. Line(s, i) \in Lines
    BY DEF Lines
  <2> DEFINE a == Append(Delivered, Line(s, i))
  <2>4. /\ a \in Seq(Lines) /\ Len(a) = Len(received) + 1
        /\ \A k \in 1..Len(received) : a[k] = Delivered[k]
        /\ a[Len(received) + 1] = Line(s, i)
    BY <2>2, <2>3, AppendProperties
  <2> HIDE DEF a
  <2>5. \A k \in 1..(Len(received) + 1) : a[k] = LineOf(received'[k])
    <3> SUFFICES ASSUME NEW k \in 1..(Len(received) + 1)
                 PROVE  a[k] = LineOf(received'[k])
      OBVIOUS
    <3>1. k \in 1..Len(received) \/ k = Len(received) + 1
      BY <2>1
    <3> QED
      BY <1>3, <2>1, <2>2, <2>4, <3>1
  <2>6. a = [k \in 1..(Len(received) + 1) |-> a[k]]
    BY <2>4
  <2>7. a = [k \in 1..(Len(received) + 1) |-> LineOf(received'[k])]
    BY <2>5, <2>6
  <2> QED
    BY <2>1, <2>7, PrimedDelivered DEF a
<1>10. Delivered' = LinesIn(Scanned')
  BY <1>7, <1>8, <1>9 DEF ScannerOK
<1>11. reader' \notin {"opening", "reading", "eof"}
  BY DEF ScansLine
<1>12. Whole(Scanned)'
  BY <1>6 DEF Whole, WholeLines
<1>13. Delivered' = LinesIn(Scanned)'
  <2>1. LinesIn(Scanned)' = LinesIn(Scanned')
    BY DEF LinesIn, NewlinesIn, Rank, Line
  <2> QED
    BY <1>10, <2>1
<1> QED
  BY <1>9, <1>11, <1>12, <1>13 DEF ScannerOK

\* What the scanner has left behind, and what it was given, never changes in
\* the pipe.
LEMMA PrefixKept ==
  ASSUME NEW a \in Seq(Cells), NEW x \in Seq(Cells),
         NEW m \in Nat, NEW n \in Nat, 1 <= m, n <= Len(a)
  PROVE  SubSeq(a \o x, m, n) = SubSeq(a, m, n)
<1>1. CASE n < m
  BY <1>1, SubSeqEmpty
<1>2. CASE m <= n
  <2>1. m \in 1..Len(a) /\ n \in 1..Len(a)
    BY <1>2
  <2> QED
    BY <2>1, SubSeqOfConcat1
<1> QED
  BY <1>1, <1>2

\* A step in which the scanner takes nothing.
LEMMA ScannerWaits ==
  ASSUME IInv, ScannerOK, NEW x \in Seq(Cells),
         stream' = stream \o x, scanned' = scanned, received' = received
  PROVE  /\ Whole(Scanned)' /\ Delivered' = Delivered
         /\ Delivered' = LinesIn(Scanned)'
         /\ got' = got => Unscanned' = Unscanned
<1>1. /\ stream \in Seq(Cells) /\ scanned \in Nat /\ got \in Nat
      /\ scanned <= got /\ got <= Len(stream) /\ Len(stream) \in Nat
  BY DEF IInv, TypeOK
<1>2. Scanned' = Scanned
  BY <1>1, PrefixKept DEF Scanned
<1>3. got' = got => Unscanned' = Unscanned
  BY <1>1, PrefixKept DEF Unscanned
<1>4. Whole(Scanned)'
  BY <1>2 DEF ScannerOK, Whole, WholeLines
<1>5. Delivered' = Delivered
  BY PrimedDelivered DEF Delivered
<1>6. LinesIn(Scanned)' = LinesIn(Scanned')
  BY DEF LinesIn, NewlinesIn, Rank, Line
<1> QED
  BY <1>2, <1>3, <1>4, <1>5, <1>6 DEF ScannerOK

LEMMA StreamAsItIs ==
  ASSUME IInv
  PROVE  <<>> \in Seq(Cells) /\ stream = stream \o <<>>
BY ConcatProperties DEF IInv, TypeOK

\* The pipe grows, or a sender does something on its own.
LEMMA PipeGrows ==
  ASSUME IInv, ScannerOK, NEW x \in Seq(Cells), stream' = stream \o x,
         UNCHANGED <<reader, got, scanned, received>>
  PROVE  ScannerOK' /\ Delivered' = Delivered
<1>1. /\ scanned' = scanned /\ received' = received
      /\ got' = got /\ reader' = reader
  OBVIOUS
<1>2. /\ Whole(Scanned)' /\ Delivered' = Delivered
      /\ Delivered' = LinesIn(Scanned)' /\ Unscanned' = Unscanned
  BY <1>1, ScannerWaits
<1>3. scanLinesWithEOF(BytesOf(Unscanned), FALSE)' =
        scanLinesWithEOF(BytesOf(Unscanned), FALSE)
  BY <1>2 DEF BytesOf
<1> QED
  BY <1>1, <1>2, <1>3 DEF ScannerOK

LEMMA SendersLeaveReader ==
  ASSUME IInv, NEW s \in Senders, Sender(s) \/ Expire(s) \/ PipeTakes(s)
  PROVE  /\ UNCHANGED <<reader, got, scanned, received>>
         /\ \E x \in Seq(Cells) : stream' = stream \o x
<1>1. CASE PipeTakes(s)
  BY <1>1, TakesTheBatch DEF PipeTakes, IInv, TypeOK, readerVars
<1>2. CASE Sender(s) \/ Expire(s)
  BY <1>2, StreamAsItIs
     DEF Sender, Open, OpenAbandoned, Skip, Add, Write, Written, WriteFails,
         Finish, Close, Expire, readerVars
<1> QED
  BY <1>1, <1>2

\* A scanner that wants more has been given no whole line and nothing much
\* behind it.
LEMMA WaitsForLine ==
  ASSUME NEW r, NEW m, SplitIsRight(r, m, NeedMore)
  PROVE  IF r = <<>> THEN m = 0 ELSE m # Len(r) /\ FirstLineHas(r, m)
<1>1. NeedMore.advance = 0 /\ ~ NeedMore.final
  BY DEF NeedMore, Result
<1>2. NeedMore # Result(0, NoToken, TRUE)
  BY <1>1 DEF Result
<1>3. ASSUME NEW s \in Senders, NEW i \in 1..Len(Out(s)),
             TakesLine(r, m, s, i, NeedMore)
      PROVE  FALSE
  <2>1. Out(s)[i].len + 1 # 0
    BY OutShape
  <2>2. PICK final \in BOOLEAN :
          NeedMore = Result(Out(s)[i].len + 1, Out(s)[i].len, final)
    BY <1>3 DEF TakesLine
  <2>3. NeedMore.advance = Out(s)[i].len + 1
    BY <2>2 DEF Result
  <2> QED
    BY <1>1, <2>1, <2>3
<1> QED
  BY <1>2, <1>3 DEF SplitIsRight

\* A scanner that has been given all there is has left nothing behind.
LEMMA AllTaken ==
  ASSUME IInv, ScannerOK, reader = "reading", got = Len(stream)
  PROVE  scanned = got /\ Ahead = <<>> /\ ~ Len(LinesIn(Ahead)) > 0
<1> DEFINE m == got - scanned
<1>1. /\ Whole(Ahead) /\ m \in 0..Len(Ahead) /\ Ahead \in Seq(Cells)
      /\ Unscanned = SubSeq(Ahead, 1, m) /\ m = Len(Ahead)
      /\ scanned \in Nat /\ got \in Nat /\ Len(Ahead) \in Nat
  BY AheadShape DEF IInv, TypeOK, Whole
<1>2. scanLinesWithEOF(BytesOf(SubSeq(Ahead, 1, m)), FALSE) = NeedMore
  BY <1>1 DEF ScannerOK
<1>3. SplitIsRight(Ahead, m, NeedMore)
  BY <1>1, <1>2, SplitOfLines
<1> HIDE DEF m
<1>4. Ahead = <<>>
  BY <1>1, <1>3, WaitsForLine
<1>5. scanned = got
  BY <1>1, <1>4, EmptySeq DEF m
<1> QED
  BY <1>4, <1>5, LinesOfNothing

\* What the uploader does on the way from the pipe to its lines.
LEMMA UploadScans ==
  ASSUME IInv, ScannerOK, Upload \/ GiveUp
  PROVE  ScannerOK'
<1>1. CASE Scan
  <2>1. UNCHANGED <<stream, got>>
    BY <1>1 DEF Scan
  <2>2. ASSUME NEW s \in Senders, NEW i \in 1..Len(Out(s)), ScansLine(s, i)
        PROVE  ScannerOK'
    BY <2>1, <2>2, ScansLineOK
  <2>3. ASSUME UNCHANGED <<scanned, received>>,
               reader' = "ended" \/
                 (reader' = "reading"
                  /\ scanLinesWithEOF(BytesOf(Unscanned), FALSE) = NeedMore)
        PROVE  ScannerOK'
    <3>1. /\ Whole(Scanned)' /\ Delivered' = LinesIn(Scanned)'
          /\ Unscanned' = Unscanned
      BY <2>1, <2>3, StreamAsItIs, ScannerWaits
    <3>2. scanLinesWithEOF(BytesOf(Unscanned), FALSE)' =
            scanLinesWithEOF(BytesOf(Unscanned), FALSE)
      BY <3>1 DEF BytesOf
    <3> QED
      BY <2>3, <3>1, <3>2 DEF ScannerOK
  <2>4. CASE ScansNothing
    BY <2>3, <2>4 DEF ScansNothing
  <2>5. CASE ScansMarker
    BY <2>3, <2>5 DEF ScansMarker
  <2> QED
    BY <1>1, <2>2, <2>4, <2>5, ScanCases
<1>2. ASSUME UNCHANGED <<stream, scanned, received>>
      PROVE  Whole(Scanned)' /\ Delivered' = LinesIn(Scanned)'
  BY <1>2, StreamAsItIs, ScannerWaits
<1>3. CASE OpenInput
  <2>1. got' = 0 /\ scanned' = 0 /\ reader' = "reading"
    BY <1>3 DEF OpenInput, ScannerOK, IInv, TypeOK
  <2>2. Unscanned' = <<>>
    BY <2>1, SubSeqEmpty DEF Unscanned
  <2>3. scanLinesWithEOF(BytesOf(Unscanned), FALSE)' =
          scanLinesWithEOF(BytesOf(<<>>), FALSE)
    BY <2>2 DEF BytesOf
  <2>4. scanLinesWithEOF(BytesOf(<<>>), FALSE) = NeedMore
    BY PlainSplitOfNothing
  <2>5. UNCHANGED <<stream, scanned, received>>
    BY <1>3 DEF OpenInput
  <2> QED
    BY <1>2, <2>1, <2>3, <2>4, <2>5 DEF ScannerOK
<1>4. CASE ReadEOF
  <2>1. scanned' = got' /\ reader' = "eof"
    BY <1>4, AllTaken DEF ReadEOF
  <2>2. UNCHANGED <<stream, scanned, received>>
    BY <1>4 DEF ReadEOF
  <2> QED
    BY <1>2, <2>1, <2>2 DEF ScannerOK
<1>5. CASE Read \/ CloseInput
  <2>1. UNCHANGED <<stream, scanned, received>>
        /\ reader' \in {"scanning", "closed"}
    BY <1>5 DEF Read, CloseInput
  <2> QED
    BY <1>2, <2>1 DEF ScannerOK
<1>6. CASE GiveUp
  BY <1>6, StreamAsItIs, PipeGrows DEF GiveUp
<1> QED
  BY <1>1, <1>3, <1>4, <1>5, <1>6 DEF Upload

LEMMA InOrderSame ==
  ASSUME UNCHANGED <<senderVars, stream>>, NEW s \in Senders, InOrder(s)
  PROVE  InOrder(s)'
<1>1. /\ buf' = buf /\ next' = next /\ stream' = stream
      /\ Filling(s)' <=> Filling(s)
  BY DEF senderVars, Filling
<1>2. /\ LinesIn(buf[s])' = LinesIn(buf[s])
      /\ SentLines(buf[s])' = SentLines(buf[s])
      /\ SentLines(stream)' = SentLines(stream)
  BY <1>1, PrimedLines
<1> QED
  BY <1>1, <1>2 DEF InOrder

LEMMA ChannelInitOK == Init => ChannelInv
<1> SUFFICES ASSUME Init PROVE ChannelInv
  OBVIOUS
<1>1. IInv
  BY InitOK
<1>2. /\ stream = <<>> /\ scanned = 0 /\ got = 0 /\ received = <<>>
      /\ reader = "opening"
      /\ \A s \in Senders : buf[s] = <<>>
  BY DEF Init
<1>3. Scanned = <<>>
  BY <1>2, SubSeqEmpty DEF Scanned
<1>4. Whole(<<>>) /\ LinesIn(<<>>) = <<>> /\ SentLines(<<>>) = {}
  BY NothingIsWhole, LinesOfNothing
<1>5. Delivered = <<>>
  BY <1>2 DEF Delivered
<1>6. ScannerOK
  BY <1>2, <1>3, <1>4, <1>5 DEF ScannerOK
<1>7. ASSUME NEW s \in Senders PROVE InOrder(s)
  <2>1. buf[s] = <<>> /\ Len(<<>>) = 0
    BY <1>2
  <2>2. \A k \in 2..Len(LinesIn(buf[s])) :
          LinesIn(buf[s])[k - 1].arg < LinesIn(buf[s])[k].arg
    BY <1>4, <2>1
  <2> QED
    BY <1>2, <1>4, <2>1, <2>2 DEF InOrder
<1> QED
  BY <1>1, <1>6, <1>7 DEF ChannelInv

LEMMA ChannelStepOK == ChannelInv /\ [Next]_vars => ChannelInv'
<1> SUFFICES ASSUME ChannelInv, [Next]_vars PROVE ChannelInv'
  OBVIOUS
<1>1. IInv /\ ScannerOK /\ \A s \in Senders : InOrder(s)
  BY DEF ChannelInv
<1>2. IInv'
  BY <1>1, StepOK
<1>3. ASSUME NEW s \in Senders, Sender(s) \/ Expire(s) \/ PipeTakes(s)
      PROVE  ScannerOK' /\ \A r \in Senders : InOrder(r)'
  BY <1>1, <1>2, <1>3, SendersLeaveReader, PipeGrows, SenderInOrder
<1>4. ASSUME Upload \/ GiveUp
      PROVE  ScannerOK' /\ \A r \in Senders : InOrder(r)'
  <2>1. UNCHANGED <<senderVars, stream>>
    BY <1>4 DEF Upload, OpenInput, Read, ReadEOF, Scan, CloseInput, GiveUp
  <2> QED
    BY <1>1, <1>4, <2>1, UploadScans, InOrderSame
<1>5. ASSUME UNCHANGED vars
      PROVE  ScannerOK' /\ \A r \in Senders : InOrder(r)'
  <2>1. /\ UNCHANGED <<senderVars, stream>>
        /\ UNCHANGED <<reader, got, scanned, received>>
    BY <1>5 DEF vars, readerVars
  <2>2. \E x \in Seq(Cells) : stream' = stream \o x
    BY <1>1, <2>1, StreamAsItIs
  <2> QED
    BY <1>1, <2>1, <2>2, PipeGrows, InOrderSame
<1> QED
  BY <1>2, <1>3, <1>4, <1>5 DEF ChannelInv, Next

\* What the refinement rests on: the scanner is always between two lines, has
\* returned those behind it and nothing else but blank tokens, never waits for
\* a byte when a line is left, and every sender's lines go into the pipe in
\* their order.
THEOREM ScannerIsBetweenLines == Spec => []ChannelInv
<1> QED
  BY ChannelInitOK, ChannelStepOK, PTL DEF Spec

-----------------------------------------------------------------------------
(* Every step of senders, pipe and uploader is one of the channel, or none. *)

\* The line ahead of the scanner is the next one to be delivered.
LEMMA NextLine ==
  ASSUME IInv, ScannerOK, NEW s \in Senders, NEW i \in 1..Len(Out(s)),
         StartsWithLine(Ahead, s, i)
  PROVE  /\ Len(Delivered) + 1 <= Len(LinesIn(stream))
         /\ LinesIn(stream)[Len(Delivered) + 1] = Line(s, i)
         /\ LinesIn(stream)[Len(Delivered) + 1] \in EndLines <=> IsMarker(s, i)
<1> DEFINE first == <<Line(s, i)>>
           rest == LinesIn(Rest(Ahead, Out(s)[i].len + 1))
<1>1. /\ Whole(Ahead) /\ stream \in Seq(Cells)
      /\ LinesIn(stream) = Delivered \o LinesIn(Ahead)
      /\ Delivered = LinesIn(Scanned) /\ Scanned \in Seq(Cells)
  BY AheadShape DEF ScannerOK, Whole
<1>2. LinesIn(Ahead) = first \o rest
      /\ Rest(Ahead, Out(s)[i].len + 1) \in Seq(Cells)
  BY <1>1, AfterFirstLine DEF Whole
<1>3. Delivered \in Seq(Lines) /\ rest \in Seq(Lines)
      /\ LinesIn(Ahead) \in Seq(Lines)
  BY <1>1, <1>2, LinesShape DEF Whole
<1>4. first \in Seq(Lines) /\ Len(first) = 1 /\ first[1] = Line(s, i)
  BY DEF Lines
<1> HIDE DEF first, rest
<1>5. /\ Len(LinesIn(Ahead)) = 1 + Len(rest) /\ Len(rest) \in Nat
      /\ LinesIn(Ahead)[1] = Line(s, i)
  <2>1. /\ Len(first \o rest) = Len(first) + Len(rest)
        /\ \A k \in 1..(Len(first) + Len(rest)) :
             (first \o rest)[k] =
               IF k <= Len(first) THEN first[k] ELSE rest[k - Len(first)]
    BY <1>3, <1>4, ConcatProperties
  <2>2. Len(rest) \in Nat
    BY <1>3
  <2>3. 1 \in 1..(Len(first) + Len(rest)) /\ 1 <= Len(first)
    BY <1>4, <2>2
  <2> QED
    BY <1>2, <1>4, <2>1, <2>2, <2>3
<1>6. /\ Len(Delivered) \in Nat
      /\ Len(LinesIn(stream)) = Len(Delivered) + Len(LinesIn(Ahead))
      /\ LinesIn(stream)[Len(Delivered) + 1] = LinesIn(Ahead)[1]
  <2>1. Len(Delivered) \in Nat
    BY <1>3
  <2>2. Len(Delivered) + 1 \in 1..(Len(Delivered) + Len(LinesIn(Ahead)))
        /\ ~ (Len(Delivered) + 1 <= Len(Delivered))
        /\ Len(Delivered) + 1 - Len(Delivered) = 1
    BY <1>5, <2>1
  <2> QED
    BY <1>1, <1>3, <2>1, <2>2, ConcatProperties
<1> QED
  BY <1>5, <1>6, MarkerShape

\* ... and the marker behind it is the one after.
LEMMA MarkerIsNext ==
  ASSUME IInv, ScannerOK, NEW s \in Senders, NEW i \in 1..Len(Out(s)),
         StartsWithLine(Ahead, s, i),
         NEW t \in Senders, NEW j \in 1..Len(Out(t)), IsMarker(t, j),
         StartsWithLine(Rest(Ahead, Out(s)[i].len + 1), t, j)
  PROVE  /\ Len(Delivered) + 2 <= Len(LinesIn(stream))
         /\ LinesIn(stream)[Len(Delivered) + 2] \in EndLines
<1> DEFINE first == <<Line(s, i)>>
           other == Rest(Ahead, Out(s)[i].len + 1)
           rest == LinesIn(other)
           tail == LinesIn(Rest(other, Out(t)[j].len + 1))
<1>1. /\ Whole(Ahead) /\ stream \in Seq(Cells)
      /\ LinesIn(stream) = Delivered \o LinesIn(Ahead)
      /\ Delivered = LinesIn(Scanned) /\ Scanned \in Seq(Cells)
  BY AheadShape DEF ScannerOK, Whole
<1>2. LinesIn(Ahead) = first \o rest /\ Whole(other)
  BY <1>1, AfterFirstLine
<1>3. rest = <<Line(t, j)>> \o tail
      /\ Rest(other, Out(t)[j].len + 1) \in Seq(Cells)
  BY <1>2, AfterFirstLine DEF Whole
<1>4. Delivered \in Seq(Lines) /\ rest \in Seq(Lines) /\ tail \in Seq(Lines)
      /\ LinesIn(Ahead) \in Seq(Lines)
  BY <1>1, <1>2, <1>3, LinesShape DEF Whole
<1>5. first \in Seq(Lines) /\ Len(first) = 1
  BY DEF Lines
<1>6. /\ <<Line(t, j)>> \in Seq(Lines) /\ Len(<<Line(t, j)>>) = 1
      /\ <<Line(t, j)>>[1] = Line(t, j)
  BY DEF Lines
<1> HIDE DEF first, rest, tail, Line
<1>7. /\ Len(rest) = 1 + Len(tail) /\ Len(tail) \in Nat
      /\ rest[1] = Line(t, j)
  BY <1>3, <1>4, <1>6, ConcatProperties, LenProperties
<1>8. /\ Len(LinesIn(Ahead)) = 1 + Len(rest)
      /\ LinesIn(Ahead)[2] = rest[1]
  <2>1. 2 \in 1..(Len(first) + Len(rest)) /\ ~ (2 <= Len(first))
        /\ 2 - Len(first) = 1
    BY <1>5, <1>7
  <2>2. /\ Len(first \o rest) = Len(first) + Len(rest)
        /\ \A k \in 1..(Len(first) + Len(rest)) :
             (first \o rest)[k] =
               IF k <= Len(first) THEN first[k] ELSE rest[k - Len(first)]
    BY <1>4, <1>5, ConcatProperties
  <2>3. (first \o rest)[2] = rest[1]
    BY <2>1, <2>2
  <2> QED
    BY <1>2, <1>5, <2>2, <2>3
<1>9. /\ Len(Delivered) \in Nat
      /\ Len(LinesIn(stream)) = Len(Delivered) + Len(LinesIn(Ahead))
      /\ LinesIn(stream)[Len(Delivered) + 2] = LinesIn(Ahead)[2]
  <2>1. Len(Delivered) \in Nat
    BY <1>4
  <2>2. Len(Delivered) + 2 \in 1..(Len(Delivered) + Len(LinesIn(Ahead)))
        /\ ~ (Len(Delivered) + 2 <= Len(Delivered))
        /\ Len(Delivered) + 2 - Len(Delivered) = 2
    BY <1>7, <1>8, <2>1
  <2> QED
    BY <1>1, <1>4, <2>1, <2>2, ConcatProperties
<1>10. Line(t, j) \in EndLines
  BY MarkerShape
<1> QED
  BY <1>7, <1>8, <1>9, <1>10

LEMMA TakesIsSend ==
  ASSUME ChannelInv, NEW s \in Senders, PipeTakes(s)
  PROVE  Channel!Next
<1> DEFINE old == LinesIn(stream)
           batch == LinesIn(buf[s])
<1>1. /\ IInv /\ ScannerOK /\ InOrder(s) /\ writing[s] # <<>>
      /\ stream \in Seq(Cells) /\ buf[s] \in Seq(Cells)
      /\ OwnBatch(s)
  BY DEF ChannelInv, IInv, TypeOK, PipeTakes
<1>2. stream' = stream \o buf[s] /\ writing[s] = buf[s]
  BY <1>1, TakesTheBatch
<1>3. LinesIn(stream)' = old \o batch
  BY <1>1, <1>2, PrimedLines, LinesOfConcat
<1>4. /\ old \in Seq(Lines) /\ batch \in Seq(Lines)
      /\ SentLines(stream) = {old[n] : n \in 1..Len(old)}
      /\ SentLines(buf[s]) = {batch[n] : n \in 1..Len(batch)}
  BY <1>1, LinesShape, LinesAreSent
<1>5. Len(batch) \in Nat \ {0} /\ batch # <<>>
  <2>1. Len(buf[s]) \in 1..Len(buf[s]) /\ buf[s][Len(buf[s])].byte = "nl"
    BY <1>1, <1>2, EmptySeq, LenProperties DEF OwnBatch, Whole
  <2>2. SentLines(buf[s]) # {}
    BY <2>1 DEF SentLines
  <2> QED
    BY <1>4, <2>2, EmptySeq, LenProperties
<1>6. \A k \in 1..Len(batch) : batch[k] \in Lines /\ batch[k].from = s
  <2>1. \A l \in SentLines(buf[s]) : l.from = s
    BY <1>1 DEF OwnBatch, SentLines, Line
  <2> QED
    BY <1>4, <2>1, ElementOfSeq
<1>7. \A k \in 1..Len(batch) : k > 1 => batch[k - 1].arg < batch[k].arg
  <2>1. \A k \in 1..Len(batch) : k > 1 => k \in 2..Len(batch)
    BY <1>5
  <2> QED
    BY <1>1, <2>1 DEF InOrder
<1>8. \A k \in 1..Len(old) : old[k].from = s => old[k].arg < batch[1].arg
  <2>1. 1 \in 1..Len(batch) /\ Filling(s)
    BY <1>1, <1>5 DEF Filling
  <2> QED
    BY <1>1, <1>4, <2>1 DEF InOrder
<1>9. UNCHANGED Delivered /\ UNCHANGED Stopped /\ UNCHANGED gaveUp
  BY <1>1, <1>2, PipeGrows DEF PipeTakes, readerVars, Stopped
<1> HIDE DEF batch
<1>10. SubSeq(LinesIn(stream)', Len(old) + 1, Len(LinesIn(stream)')) = batch
  <2>1. /\ Len(old) \in Nat /\ Len(LinesIn(stream)') = Len(old) + Len(batch)
    BY <1>3, <1>4, ConcatProperties, LenProperties
  <2>2. /\ Len(old) + 1 \in (Len(old) + 1)..(Len(old) + Len(batch))
        /\ Len(old) + Len(batch) \in (Len(old) + 1)..(Len(old) + Len(batch))
        /\ Len(old) + 1 - Len(old) = 1
        /\ Len(old) + Len(batch) - Len(old) = Len(batch)
    BY <1>5, <2>1
  <2>3. SubSeq(batch, 1, Len(batch)) = batch
    BY <1>4, SubSeqFull
  <2> QED
    BY <1>3, <1>4, <2>1, <2>2, <2>3, SubSeqOfConcat2
<1>11. Channel!Sendable(batch)
  BY <1>5, <1>6, <1>7, <1>8 DEF Channel!Sendable
<1>12. Channel!Send
  BY <1>3, <1>9, <1>10, <1>11 DEF Channel!Send, Delivered
<1> QED
  BY <1>12 DEF Channel!Next

\* The scanner's step is a delivery, a stop, or nothing to the channel.
LEMMA ScanIsDelivery ==
  ASSUME ChannelInv, Scan
  PROVE  Channel!Next \/ UNCHANGED Channel!channelVars
<1>1. IInv /\ ScannerOK
  BY DEF ChannelInv
<1>2. stream' = stream /\ got' = got /\ gaveUp' = gaveUp
  BY DEF Scan
<1>3. UNCHANGED LinesIn(stream)
  BY <1>2 DEF LinesIn, NewlinesIn, Rank, Line
<1>4. CASE ScansNothing
  <2>1. UNCHANGED Delivered
    BY <1>4, PrimedDelivered DEF ScansNothing, Delivered
  <2>2. UNCHANGED Stopped
    <3>1. CASE reader = "scanning" /\ reader' = "reading"
      BY <3>1 DEF Stopped
    <3>2. CASE reader = "eof" /\ reader' = "ended"
      BY <3>2 DEF Stopped
    <3> QED
      BY <1>4, <3>1, <3>2 DEF ScansNothing
  <2> QED
    BY <1>2, <1>3, <2>1, <2>2 DEF Channel!channelVars, Delivered
<1>5. CASE ScansMarker
  <2>1. UNCHANGED Delivered
    BY <1>5, PrimedDelivered DEF ScansMarker, Delivered
  <2>2. ~ Stopped /\ Stopped' = TRUE
    BY <1>5 DEF ScansMarker, Stopped
  <2>3. /\ Len(Delivered) + 1 <= Len(LinesIn(stream))
        /\ LinesIn(stream)[Len(Delivered) + 1] \in EndLines
    BY <1>1, <1>5, NextLine DEF ScansMarker
  <2>4. Channel!EndsAt(1)
    BY <2>3 DEF Channel!EndsAt, Channel!Pending, Delivered
  <2>5. Channel!Stop
    BY <1>2, <1>3, <2>1, <2>2, <2>4 DEF Channel!Stop, Delivered
  <2> QED
    BY <2>5 DEF Channel!Next
<1>6. ASSUME NEW s \in Senders, NEW i \in 1..Len(Out(s)), ScansLine(s, i)
      PROVE  Channel!Next
  <2>1. /\ StartsWithLine(Ahead, s, i) /\ ~ IsMarker(s, i)
        /\ ~ Stopped
    BY <1>6 DEF ScansLine, Stopped
  <2>2. /\ Len(Delivered) + 1 <= Len(LinesIn(stream))
        /\ LinesIn(stream)[Len(Delivered) + 1] = Line(s, i)
        /\ LinesIn(stream)[Len(Delivered) + 1] \notin EndLines
    BY <1>1, <2>1, NextLine
  <2>3. Channel!Pending(1) /\ ~ Channel!EndsAt(1)
    BY <2>2 DEF Channel!EndsAt, Channel!Pending, Delivered
  <2>4. Delivered' = Append(Delivered, LinesIn(stream)[Len(Delivered) + 1])
    BY <1>1, <1>2, <1>6, <2>2, ScansLineOK
  <2>5. (Stopped' = TRUE /\ Channel!EndsAt(2)) \/ UNCHANGED Stopped
    <3>1. CASE reader' = "scanning"
      BY <2>1, <3>1 DEF Stopped
    <3>2. CASE reader' = "ended"
      <4>1. Stopped' = TRUE
        BY <3>2 DEF Stopped
      <4>2. \E t \in Senders : \E j \in 1..Len(Out(t)) :
              /\ StartsWithLine(Rest(Ahead, Out(s)[i].len + 1), t, j)
              /\ IsMarker(t, j)
        BY <1>6, <3>2 DEF ScansLine
      <4>3. /\ Len(Delivered) + 2 <= Len(LinesIn(stream))
            /\ LinesIn(stream)[Len(Delivered) + 2] \in EndLines
        BY <1>1, <2>1, <4>2, MarkerIsNext
      <4> QED
        BY <4>1, <4>3 DEF Channel!EndsAt, Channel!Pending, Delivered
    <3> QED
      BY <1>6, <3>1, <3>2 DEF ScansLine
  <2>6. Channel!Deliver
    BY <1>2, <1>3, <2>1, <2>3, <2>4, <2>5 DEF Channel!Deliver, Delivered
  <2> QED
    BY <2>6 DEF Channel!Next
<1> QED
  BY <1>1, <1>4, <1>5, <1>6, ScanCases

\* Nothing is left when the end of the input is reached.
LEMMA EndIsStop ==
  ASSUME ChannelInv, ReadEOF
  PROVE  Channel!Next
<1>1. IInv /\ ScannerOK /\ reader = "reading" /\ got = Len(stream)
  BY DEF ChannelInv, ReadEOF
<1>2. UNCHANGED LinesIn(stream) /\ UNCHANGED Delivered
  BY PrimedDelivered
     DEF ReadEOF, LinesIn, NewlinesIn, Rank, Line, Delivered
<1>3. ~ Stopped /\ Stopped' = TRUE
  BY DEF ReadEOF, Stopped
<1>4. ~ (Len(Delivered) + 1 <= Len(LinesIn(stream)))
  <2>1. Ahead = <<>> /\ stream = Scanned \o Ahead /\ Scanned \in Seq(Cells)
    BY <1>1, AllTaken, AheadShape DEF Whole
  <2>2. stream = Scanned
    BY <2>1, ConcatProperties
  <2>3. LinesIn(stream) = Delivered /\ LinesIn(stream) \in Seq(Lines)
    BY <1>1, <2>1, <2>2, LinesShape DEF ScannerOK
  <2> QED
    BY <2>3, LenProperties
<1>5. ~ Channel!Pending(1)
  BY <1>4 DEF Channel!Pending, Delivered
<1>6. Channel!Stop
  BY <1>2, <1>3, <1>5 DEF Channel!Stop, Delivered, ReadEOF
<1> QED
  BY <1>6 DEF Channel!Next

\* The uploader closes its input when it has stopped, or was told to.
LEMMA CloseIsStop ==
  ASSUME ChannelInv, CloseInput
  PROVE  Channel!Next \/ UNCHANGED Channel!channelVars
<1>1. UNCHANGED LinesIn(stream) /\ UNCHANGED Delivered /\ gaveUp' = gaveUp
  BY PrimedDelivered
     DEF CloseInput, LinesIn, NewlinesIn, Rank, Line, Delivered
<1>2. CASE Stopped
  <2>1. UNCHANGED Stopped
    BY <1>2 DEF CloseInput, Stopped
  <2> QED
    BY <1>1, <2>1 DEF Channel!channelVars, Delivered
<1>3. CASE ~ Stopped
  <2>1. gaveUp /\ Stopped' = TRUE
    BY <1>3 DEF CloseInput, Stopped
  <2>2. Channel!Stop
    BY <1>1, <1>3, <2>1 DEF Channel!Stop, Delivered
  <2> QED
    BY <2>2 DEF Channel!Next
<1> QED
  BY <1>2, <1>3

\* Being told to is a step of the channel.
LEMMA GiveUpIsSignal ==
  ASSUME GiveUp
  PROVE  Channel!Next
<1>1. UNCHANGED LinesIn(stream) /\ UNCHANGED Delivered /\ UNCHANGED Stopped
  BY PrimedDelivered
     DEF GiveUp, LinesIn, NewlinesIn, Rank, Line, Delivered, Stopped
<1>2. ~ gaveUp /\ gaveUp' = TRUE
  BY DEF GiveUp
<1>3. Channel!Signal
  BY <1>1, <1>2 DEF Channel!Signal, Delivered
<1> QED
  BY <1>3 DEF Channel!Next

LEMMA ChannelStep ==
  ChannelInv /\ [Next]_vars => [Channel!Next]_(Channel!channelVars)
<1> SUFFICES ASSUME ChannelInv, [Next]_vars
             PROVE  Channel!Next \/ UNCHANGED Channel!channelVars
  OBVIOUS
<1>1. IInv /\ ScannerOK
  BY DEF ChannelInv
<1>2. ASSUME UNCHANGED <<stream, received, gaveUp>>, Stopped' = Stopped
      PROVE  UNCHANGED Channel!channelVars
  <2>1. UNCHANGED LinesIn(stream) /\ UNCHANGED Delivered
    BY <1>2, PrimedDelivered DEF LinesIn, NewlinesIn, Rank, Line, Delivered
  <2> QED
    BY <1>2, <2>1 DEF Channel!channelVars, Delivered
<1>3. ASSUME NEW s \in Senders, Sender(s) \/ Expire(s)
      PROVE  UNCHANGED Channel!channelVars
  <2>1. UNCHANGED <<stream, received, reader, gaveUp>>
    BY <1>3 DEF Sender, Open, OpenAbandoned, Skip, Add, Write, Written,
                WriteFails, Finish, Close, Expire, readerVars
  <2> QED
    BY <1>2, <2>1 DEF Stopped
<1>4. ASSUME NEW s \in Senders, PipeTakes(s) PROVE Channel!Next
  BY <1>4, TakesIsSend
<1>5. CASE OpenInput \/ Read
  <2>1. UNCHANGED <<stream, received, gaveUp>> /\ Stopped' = Stopped
    BY <1>5 DEF OpenInput, Read, Stopped
  <2> QED
    BY <1>2, <2>1
<1>6. CASE UNCHANGED vars
  BY <1>2, <1>6 DEF vars, readerVars, Stopped
<1> QED
  BY <1>3, <1>4, <1>5, <1>6, ScanIsDelivery, EndIsStop, CloseIsStop,
     GiveUpIsSignal DEF Next, Upload

LEMMA ChannelInit == Init => Channel!Init
<1> SUFFICES ASSUME Init PROVE Channel!Init
  OBVIOUS
<1>1. LinesIn(stream) = <<>> /\ Delivered = <<>>
  BY LinesOfNothing DEF Init, Delivered
<1>2. Stopped = FALSE /\ gaveUp = FALSE
  BY DEF Init, Stopped
<1> QED
  BY <1>1, <1>2 DEF Channel!Init, Delivered

\* Senders, pipe and scanner are a channel of whole lines: each is delivered
\* once, in the order sent, up to the end marker, the end of what was sent or
\* the moment at which the uploader gives up, for every number of senders,
\* every list of arguments, every batch size and capacity, and wherever a read
\* ends.
THEOREM PipeIsLineChannel == Spec => ImplementsLineChannel
<1> QED
  BY ScannerIsBetweenLines, ChannelInit, ChannelStep, PTL
     DEF Spec, ImplementsLineChannel, Channel!Spec

-----------------------------------------------------------------------------
(* What a send writes never fills the scanner's buffer.                    *)

IsShort(l) == Out(l.from)[l.arg].len < PipeBufSize
ShortLines == \A l \in SentLines(stream) : IsShort(l)

\* The scanner always has room for the rest of the line that it waits for.
LinesFitScanner == reader = "reading" => got - scanned < MaxTokenSize

\* A line of a batch is no longer than the batch.
LEMMA BatchIsShort ==
  ASSUME IInv, NEW s \in Senders, NEW l \in SentLines(buf[s])
  PROVE  IsShort(l)
<1>1. /\ Whole(buf[s]) /\ Len(buf[s]) \in Nat /\ Len(buf[s]) <= PipeBufSize
      /\ PipeBufSize \in Nat /\ buf[s] \in Seq(Cells)
  BY SenderTypes, SendAssumption DEF IInv, OwnBatch, Whole
<1>2. PICK k \in 1..Len(buf[s]) : /\ buf[s][k].byte = "nl"
                                 /\ l = Line(buf[s][k].from, buf[s][k].arg)
  BY DEF SentLines
<1> DEFINE n == Out(buf[s][k].from)[buf[s][k].arg].len
<1>3. n < k
  BY <1>1, <1>2 DEF Whole, WholeLines
<1>4. n \in Nat
  BY <1>1, <1>2, CellShape, ElementOfSeq
<1>5. n = Out(l.from)[l.arg].len
  BY <1>2 DEF Line
<1> HIDE DEF n
<1>6. n < PipeBufSize
  BY <1>1, <1>3, <1>4
<1> QED
  BY <1>5, <1>6 DEF IsShort

LEMMA LinesStayShort ==
  ASSUME IInv, ShortLines, [Next]_vars
  PROVE  ShortLines'
<1>1. SUFFICES ASSUME NEW l \in SentLines(stream') PROVE IsShort(l)
  BY DEF ShortLines, SentLines, IsShort, Out
<1>2. CASE \E s \in Senders : PipeTakes(s)
  <2>1. PICK s \in Senders : PipeTakes(s)
    BY <1>2
  <2>2. Whole(stream) /\ Whole(buf[s]) /\ stream' = stream \o buf[s]
    BY <2>1, TakesTheBatch DEF IInv, OwnBatch
  <2>3. l \in SentLines(stream) \/ l \in SentLines(buf[s])
    BY <1>1, <2>2, ConcatWhole
  <2> QED
    BY <2>3, BatchIsShort DEF ShortLines
<1>3. CASE stream' = stream
  BY <1>1, <1>3 DEF ShortLines
<1>4. (\E s \in Senders : PipeTakes(s)) \/ stream' = stream
  BY DEF Next, Sender, Open, OpenAbandoned, Skip, Add, Write, Written,
         WriteFails, Finish, Close, Expire, Upload, OpenInput, Read, ReadEOF,
         Scan, CloseInput, GiveUp, vars
<1> QED
  BY <1>2, <1>3, <1>4

LEMMA ShortLinesFit ==
  ASSUME IInv, ScannerOK, ShortLines
  PROVE  LinesFitScanner
<1> SUFFICES ASSUME reader = "reading" PROVE got - scanned < MaxTokenSize
  BY DEF LinesFitScanner
<1> DEFINE m == got - scanned
<1>1. m \in 0..Len(Ahead) /\ SplitIsRight(Ahead, m, NeedMore) /\ m \in Nat
  <2>1. /\ Whole(Ahead) /\ m \in 0..Len(Ahead)
        /\ Unscanned = SubSeq(Ahead, 1, m)
    BY AheadShape
  <2>2. scanLinesWithEOF(BytesOf(SubSeq(Ahead, 1, m)), FALSE) = NeedMore
    BY <2>1 DEF ScannerOK
  <2> HIDE DEF m
  <2>3. m \in Nat
    BY <2>1, LenProperties DEF Whole
  <2>4. SplitIsRight(Ahead, m,
                     scanLinesWithEOF(BytesOf(SubSeq(Ahead, 1, m)), FALSE))
    BY <2>1, SplitOfLines
  <2> QED
    BY <2>1, <2>2, <2>3, <2>4
<1> HIDE DEF m
<1>2. IF Ahead = <<>> THEN m = 0 ELSE FirstLineHas(Ahead, m)
  BY <1>1, WaitsForLine
<1>3. /\ PipeBufSize \in Nat /\ MaxTokenSize \in Nat
      /\ PipeBufSize + 3 <= MaxTokenSize
  BY SendAssumption
<1>4. CASE Ahead = <<>>
  BY <1>2, <1>3, <1>4 DEF m
<1>5. CASE Ahead # <<>>
  <2>1. PICK s \in Senders : \E i \in 1..Len(Out(s)) :
          StartsWithLine(Ahead, s, i) /\ m <= Out(s)[i].len + 3
    BY <1>2, <1>5 DEF FirstLineHas
  <2>2. PICK i \in 1..Len(Out(s)) :
          StartsWithLine(Ahead, s, i) /\ m <= Out(s)[i].len + 3
    BY <2>1
  <2>3. Line(s, i) \in SentLines(stream)
    <3>1. /\ Len(Delivered) + 1 <= Len(LinesIn(stream))
          /\ LinesIn(stream)[Len(Delivered) + 1] = Line(s, i)
      BY <2>2, NextLine
    <3>2. stream \in Seq(Cells) /\ Len(Delivered) \in Nat
      BY DEF IInv, TypeOK, Delivered
    <3>3. Len(LinesIn(stream)) \in Nat
      BY <3>2, LinesShape
    <3>4. Len(Delivered) + 1 \in 1..Len(LinesIn(stream))
      BY <3>1, <3>2, <3>3
    <3> QED
      BY <3>1, <3>2, <3>4, LinesAreSent
  <2>4. Out(s)[i].len < PipeBufSize /\ Out(s)[i].len \in Nat
    BY <2>3, OutShape DEF ShortLines, IsShort, Line
  <2>5. m < MaxTokenSize
    BY <1>1, <1>3, <2>2, <2>4
  <2> QED
    BY <2>5 DEF m
<1> QED
  BY <1>4, <1>5

\* A line of a send, being shorter than its batch, never makes the scanner
\* fail because it is too long.
THEOREM LinesFit == Spec => []LinesFitScanner
<1>1. Init => ShortLines
  BY NothingIsWhole DEF Init, ShortLines
<1>2. IInv /\ ShortLines /\ [Next]_vars => ShortLines'
  BY LinesStayShort
<1>3. Spec => []ShortLines
  BY <1>1, <1>2, SendInvariant, PTL DEF Spec
<1>4. ChannelInv /\ ShortLines => LinesFitScanner
  BY ShortLinesFit DEF ChannelInv
<1> QED
  BY <1>3, <1>4, ScannerIsBetweenLines, PTL

-----------------------------------------------------------------------------
(* What TimeoutReturns and SentArrives rest on, but for the scheduling.    *)

\* What s can do on its own: the conditions of its actions.
SenderCanGoOn(s) ==
  \/ pc[s] = "open" /\ (reader # "closed" \/ s \in expired)
  \/ pc[s] = "loop" /\ More(s) /\ (Refused(s) \/ Fits(s) \/ buf[s] # <<>>)
  \/ pc[s] = "loop" /\ ~ More(s)
  \/ pc[s] = "write" /\ (writing[s] = <<>> \/ s \in expired \/ reader = "closed")
  \/ pc[s] = "close"

PipeHasRoom(s) ==
  /\ writing[s] # <<>> /\ reader # "closed"
  /\ \E n \in Portions(writing[s]) : Len(stream) - got + n <= Capacity

UploadCanGoOn ==
  \/ reader = "opening" /\ (keepAlive \/ \E s \in Senders : HasOpen(s) \/ next[s] > 1)
  \/ reader = "reading" /\ got < Len(stream) /\ got - scanned < MaxTokenSize
  \/ reader \in {"scanning", "eof", "ended"}
  \/ gaveUp /\ reader # "closed"

\* A sender that has not returned can go on by itself if its time is over;
\* before, it may have to wait for the pipe or for an uploader that can go on,
\* or for another uploader to open the pipe.
NeverStuck ==
  \A s \in Senders : pc[s] # "done" =>
    \/ SenderCanGoOn(s)
    \/ /\ s \notin expired
       /\ \/ PipeHasRoom(s) \/ UploadCanGoOn
          \/ pc[s] = "open" /\ reader = "closed"

\* How much a sender has left to do: at most four steps per argument, and
\* the phases.
PhaseLeft == [open |-> 5, loop |-> 2, write |-> 3, close |-> 1, done |-> 0]

StepsLeft(s) ==
  4 * (Len(Out(s)) + 1 - next[s]) + PhaseLeft[pc[s]]
    + (IF pc[s] = "loop" /\ buf[s] # <<>> THEN 2 ELSE 0)

StepsAreUsedUp ==
  [][\A s \in Senders :
       /\ StepsLeft(s)' \in 0..StepsLeft(s)
       /\ Sender(s) => StepsLeft(s)' < StepsLeft(s)]_vars

\* An uploader that waits for more, the pipe being empty, has been given
\* every line that was sent.
NothingHeldBack ==
  reader = "reading" /\ got = Len(stream) => Delivered = LinesIn(stream)

\* A line that is not too long for a batch fits into an empty one.
LEMMA EmptyBatchFits ==
  ASSUME TypeOK, NEW s \in Senders, More(s), ~ Refused(s), buf[s] = <<>>
  PROVE  Fits(s)
<1>1. Len(buf[s]) = 0 /\ ~ (LineSize(s) > PipeBufSize)
  BY DEF Refused
<1>2. next[s] \in 1..Len(Out(s))
  BY SenderTypes DEF More
<1>3. LineSize(s) \in Nat
  BY <1>2, OutShape DEF LineSize
<1> QED
  BY <1>1, <1>3, SendAssumption DEF Fits

LEMMA GoesOn ==
  ASSUME IInv, LinesFitScanner,
         NEW s \in Senders, pc[s] # "done", ~ SenderCanGoOn(s)
  PROVE  /\ s \notin expired
         /\ PipeHasRoom(s) \/ UploadCanGoOn \/ (pc[s] = "open" /\ reader = "closed")
<1>0. /\ TypeOK /\ pc[s] \in SenderStates /\ OwnWrite(s)
      /\ reader \in {"opening", "reading", "scanning", "eof", "ended", "closed"}
  BY DEF IInv, TypeOK
<1>1. pc[s] \in {"open", "loop", "write"}
  BY <1>0 DEF SenderCanGoOn, SenderStates
<1>2. pc[s] # "loop"
  BY <1>0, EmptyBatchFits DEF SenderCanGoOn
<1>3. CASE pc[s] = "open"
  BY <1>3 DEF SenderCanGoOn
<1>4. CASE pc[s] = "write"
  <2>1. s \notin expired /\ writing[s] # <<>> /\ reader # "closed"
    BY <1>4 DEF SenderCanGoOn
  <2>2. CASE reader = "opening"
    BY <1>4, <2>1, <2>2 DEF UploadCanGoOn, HasOpen
  <2>3. CASE reader \in {"scanning", "eof", "ended"}
    BY <2>1, <2>3 DEF UploadCanGoOn
  <2>4. CASE reader = "reading"
    <3>1. Len(stream) \in Nat /\ got \in Nat /\ got <= Len(stream)
      BY <1>0 DEF TypeOK
    <3>2. CASE got < Len(stream)
      BY <2>1, <2>4, <3>2 DEF UploadCanGoOn, LinesFitScanner
    <3>3. CASE got = Len(stream)
      <4>1. writing[s] = buf[s]
        BY <1>0, <2>1 DEF OwnWrite
      <4>2. /\ Len(buf[s]) \in Nat /\ Len(buf[s]) <= AtomicSize
            /\ AtomicSize <= Capacity /\ AtomicSize \in Nat /\ Capacity \in Nat
        BY <1>0, SenderTypes, SendAssumption
      <4>3. Len(buf[s]) \in Portions(writing[s])
        BY <4>1, <4>2 DEF Portions
      <4>4. Len(stream) - got + Len(buf[s]) <= Capacity
        BY <3>1, <3>3, <4>2
      <4> QED
        BY <2>1, <4>3, <4>4 DEF PipeHasRoom
    <3> QED
      BY <3>1, <3>2, <3>3
  <2> QED
    BY <1>0, <2>1, <2>2, <2>3, <2>4
<1> QED
  BY <1>1, <1>2, <1>3, <1>4

\* Senders and uploader never wait for one another in a circle: a batch that
\* finds the pipe full waits for an uploader that has something to read, as a
\* batch fits into an empty pipe, and no sender whose time is over waits.
THEOREM SendNeverStuck == Spec => []NeverStuck
<1>1. IInv /\ LinesFitScanner => NeverStuck
  BY GoesOn DEF NeverStuck
<1> QED
  BY <1>1, SendInvariant, LinesFit, PTL

LEMMA StepsLeftType ==
  ASSUME TypeOK, NEW s \in Senders
  PROVE  StepsLeft(s) \in Nat
<1>1. next[s] \in Nat /\ Len(Out(s)) \in Nat /\ next[s] <= Len(Out(s)) + 1
  BY SenderTypes
<1>2. PhaseLeft[pc[s]] \in Nat
  BY DEF TypeOK, SenderStates, PhaseLeft
<1> DEFINE left == Len(Out(s)) + 1 - next[s]
           phase == PhaseLeft[pc[s]]
           pending == IF pc[s] = "loop" /\ buf[s] # <<>> THEN 2 ELSE 0
<1>3. left \in Nat /\ phase \in Nat /\ pending \in Nat
  BY <1>1, <1>2
<1>4. StepsLeft(s) = 4 * left + phase + pending
  BY DEF StepsLeft
<1> HIDE DEF left, phase, pending
<1> QED
  BY ONLY <1>3, <1>4

\* What s does uses up one of its steps; what others do, none.
LEMMA OwnStep ==
  ASSUME IInv, IInv', NEW s \in Senders, Sender(s)
  PROVE  StepsLeft(s)' < StepsLeft(s)
<1> DEFINE L == Len(Out(s))
<1>0. TypeOK /\ TypeOK' /\ L \in Nat /\ L' = L /\ next[s] \in Nat
      /\ next'[s] \in Nat /\ next[s] <= L + 1 /\ next'[s] <= L + 1
      /\ Len(buf[s]) \in Nat /\ PipeBufSize \in Nat
  <2>1. TypeOK /\ TypeOK'
    BY DEF IInv
  <2>2. next[s] \in Nat /\ next[s] \in 1..(L + 1) /\ L \in Nat
        /\ Len(buf[s]) \in Nat /\ PipeBufSize \in Nat
    BY <2>1, SenderTypes
  <2>3. L' = L
    BY DEF Out
  <2>4. next'[s] \in Nat /\ next'[s] \in 1..(L + 1)
    BY <2>1, <2>3 DEF TypeOK
  <2> QED
    BY <2>1, <2>2, <2>3, <2>4
<1>1. /\ PhaseLeft["open"] = 5 /\ PhaseLeft["loop"] = 2 /\ PhaseLeft["write"] = 3
      /\ PhaseLeft["close"] = 1 /\ PhaseLeft["done"] = 0
  BY DEF PhaseLeft
<1> DEFINE Bonus == IF pc[s] = "loop" /\ buf[s] # <<>> THEN 2 ELSE 0
           A == 4 * (L + 1 - next[s])
           NewBonus == IF pc'[s] = "loop" /\ buf'[s] # <<>> THEN 2 ELSE 0
           B == 4 * (L + 1 - next'[s])
<1>2. /\ StepsLeft(s) = A + PhaseLeft[pc[s]] + Bonus
      /\ StepsLeft(s)' = B + PhaseLeft[pc'[s]] + NewBonus
  BY <1>0 DEF StepsLeft, PhaseLeft
<1>3. A \in Nat /\ B \in Nat /\ Bonus \in {0, 2} /\ NewBonus \in {0, 2}
  BY <1>0, SMTT(30)
<1>4. /\ next'[s] = next[s] => B = A
      /\ next'[s] = next[s] + 1 => B = A - 4
  BY <1>0, SMTT(30)
<1> SUFFICES B + PhaseLeft[pc'[s]] + NewBonus < A + PhaseLeft[pc[s]] + Bonus
  BY <1>2
<1>5. /\ pc[s] # "loop" => Bonus = 0
      /\ pc'[s] # "loop" => NewBonus = 0
      /\ buf[s] # <<>> /\ pc[s] = "loop" => Bonus = 2
      /\ buf'[s] = <<>> => NewBonus = 0
  OBVIOUS
<1>6. /\ pc \in [Senders -> SenderStates] /\ next \in [Senders -> Nat]
      /\ buf \in [Senders -> Seq(Cells)]
  BY <1>0 DEF TypeOK
<1> HIDE DEF A, B, Bonus, NewBonus
<1>7. CASE Open(s)
  BY <1>1, <1>3, <1>4, <1>5, <1>6, <1>7, SMTT(30) DEF Open, Move
<1>8. CASE OpenAbandoned(s)
  BY <1>1, <1>3, <1>4, <1>5, <1>6, <1>8 DEF OpenAbandoned, Move
<1>9. CASE Skip(s)
  <2>1. pc'[s] = pc[s] /\ next'[s] = next[s] + 1 /\ pc[s] = "loop"
    BY <1>6, <1>9 DEF Skip
  <2> QED
    BY <1>1, <1>3, <1>4, <2>1
<1>10. CASE Add(s)
  <2>1. pc'[s] = pc[s] /\ next'[s] = next[s] + 1 /\ pc[s] = "loop"
    BY <1>6, <1>10 DEF Add
  <2> QED
    BY <1>1, <1>3, <1>4, <2>1
<1>11. CASE Write(s)
  <2>1. pc[s] = "loop" /\ pc'[s] = "write" /\ next'[s] = next[s]
    BY <1>6, <1>11 DEF Write, Move
  <2>2. buf[s] # <<>>
    BY <1>0, <1>11, EmptyBatchFits DEF Write
  <2> QED
    BY <1>1, <1>3, <1>4, <1>5, <2>1, <2>2
<1>12. CASE Written(s)
  <2>1. pc[s] = "write" /\ pc'[s] = "loop" /\ next'[s] = next[s] /\ buf'[s] = <<>>
    BY <1>6, <1>12 DEF Written, Move
  <2> QED
    BY <1>1, <1>3, <1>4, <1>5, <2>1
<1>13. CASE WriteFails(s)
  BY <1>1, <1>3, <1>4, <1>5, <1>6, <1>13 DEF WriteFails, Move
<1>14. CASE Finish(s)
  BY <1>1, <1>3, <1>4, <1>5, <1>6, <1>14 DEF Finish, Move
<1>15. CASE Close(s)
  BY <1>1, <1>3, <1>4, <1>5, <1>6, <1>15 DEF Close, Move
<1> QED
  BY <1>7, <1>8, <1>9, <1>10, <1>11, <1>12, <1>13, <1>14, <1>15 DEF Sender

LEMMA OthersStep ==
  ASSUME IInv, [Next]_vars, NEW s \in Senders, ~ Sender(s)
  PROVE  StepsLeft(s)' = StepsLeft(s)
<1>1. /\ pc \in [Senders -> SenderStates] /\ next \in [Senders -> Nat]
      /\ buf \in [Senders -> Seq(Cells)]
  BY DEF IInv, TypeOK
<1>2. pc'[s] = pc[s] /\ next'[s] = next[s] /\ buf'[s] = buf[s]
  <2>1. ASSUME NEW r \in Senders, r # s, Sender(r)
        PROVE  pc'[s] = pc[s] /\ next'[s] = next[s] /\ buf'[s] = buf[s]
    BY <1>1, <2>1 DEF Sender, Open, OpenAbandoned, Skip, Add, Write, Written,
       WriteFails, Finish, Close, Move
  <2>2. ASSUME NEW r \in Senders, Expire(r) \/ PipeTakes(r)
        PROVE  UNCHANGED <<pc, next, buf>>
    BY <2>2 DEF Expire, PipeTakes, senderVars
  <2>3. CASE Upload \/ GiveUp \/ UNCHANGED vars
    BY <2>3 DEF Upload, OpenInput, Read, ReadEOF, Scan, CloseInput, GiveUp,
       senderVars, vars
  <2> QED
    BY <2>1, <2>2, <2>3 DEF Next
<1>3. Out(s)' = Out(s)
  BY DEF Out
<1> QED
  BY <1>2, <1>3 DEF StepsLeft, PhaseLeft

\* A sender takes at most so many steps as StepsLeft begins with, whatever
\* the others do: every batch that it writes has a line in it, and no path
\* keeps it in its loop for ever.
THEOREM SendIsBounded == Spec => StepsAreUsedUp
<1> DEFINE A == \A s \in Senders : /\ StepsLeft(s)' \in 0..StepsLeft(s)
                                   /\ Sender(s) => StepsLeft(s)' < StepsLeft(s)
<1>1. ASSUME IInv, [Next]_vars PROVE A
  <2> SUFFICES ASSUME NEW s \in Senders
               PROVE  /\ StepsLeft(s)' \in 0..StepsLeft(s)
                      /\ Sender(s) => StepsLeft(s)' < StepsLeft(s)
    OBVIOUS
  <2>1. IInv' /\ TypeOK /\ TypeOK'
    BY <1>1, StepOK DEF IInv
  <2>2. StepsLeft(s) \in Nat
    BY <2>1, StepsLeftType
  <2>3. (StepsLeft(s) \in Nat)'
    BY <2>1, StepsLeftType, PTL
  <2>4. CASE Sender(s)
    BY <1>1, <2>1, <2>2, <2>3, <2>4, OwnStep
  <2>5. CASE ~ Sender(s)
    BY <1>1, <2>2, <2>5, OthersStep
  <2> QED
    BY <2>4, <2>5
<1>2. IInv /\ [Next]_vars => [A]_vars
  BY <1>1
<1> QED
  BY <1>2, SendInvariant, PTL DEF Spec, StepsAreUsedUp

\* Neither the look-ahead for the end marker nor a read that ends in the
\* middle of a line holds a line back: while the uploader waits at an empty
\* pipe, all that was sent has been received.
THEOREM NothingIsHeldBack == Spec => []NothingHeldBack
<1>1. ASSUME ChannelInv, reader = "reading", got = Len(stream)
      PROVE  Delivered = LinesIn(stream)
  <2>1. Ahead = <<>> /\ LinesIn(stream) = Delivered \o LinesIn(Ahead)
    BY <1>1, AllTaken, AheadShape DEF ChannelInv
  <2>2. Delivered = LinesIn(Scanned) /\ Scanned \in Seq(Cells)
    BY <1>1, AheadShape DEF ChannelInv, ScannerOK, Whole
  <2>3. \E S : Delivered \in Seq(S)
    BY <2>2, LinesShape
  <2> QED
    BY <2>1, <2>3, LinesOfNothing, ConcatProperties
<1>2. ChannelInv => NothingHeldBack
  BY <1>1 DEF NothingHeldBack
<1> QED
  BY <1>2, ScannerIsBetweenLines, PTL

-----------------------------------------------------------------------------
(* The scanner on its own: any input, cut anywhere.                        *)

\* The rest of what was read is a part of the rest.
LEMMA RestOfPrefix ==
  ASSUME NEW S, NEW r \in Seq(S), NEW m \in 0..Len(r), NEW p \in 0..m
  PROVE  /\ m - p \in 0..Len(Rest(r, p))
         /\ Rest(SubSeq(r, 1, m), p) = SubSeq(Rest(r, p), 1, m - p)
<1> DEFINE u == SubSeq(r, 1, m)
           q == Rest(r, p)
           v == SubSeq(q, 1, m - p)
           w == Rest(u, p)
<1>1. Len(r) \in Nat /\ m \in Nat /\ p \in Nat /\ p <= m /\ m <= Len(r)
      /\ p \in 0..Len(r)
  BY LenProperties
<1>2. u \in Seq(S) /\ Len(u) = m /\ \A k \in 1..m : u[k] = r[k]
  BY RestShape
<1>3. /\ q \in Seq(S) /\ Len(q) = Len(r) - p
      /\ \A k \in 1..(Len(r) - p) : q[k] = r[p + k]
  BY <1>1, RestShape
<1> HIDE DEF u, q
<1>4. m - p \in 0..Len(q)
  BY <1>1, <1>3
<1>5. v \in Seq(S) /\ Len(v) = m - p /\ \A k \in 1..(m - p) : v[k] = q[k]
  BY <1>3, <1>4, RestShape
<1>6. /\ w \in Seq(S) /\ Len(w) = m - p
      /\ \A k \in 1..(m - p) : w[k] = u[p + k]
  BY <1>2, RestShape
<1> HIDE DEF v, w
<1>7. ASSUME NEW k \in 1..(m - p) PROVE w[k] = v[k]
  <2>1. p + k \in 1..m /\ k \in 1..(Len(r) - p)
    BY <1>1
  <2> QED
    BY <1>2, <1>3, <1>5, <1>6, <2>1
<1>8. w = v
  BY <1>5, <1>6, <1>7, SeqEqual
<1> QED
  BY <1>4, <1>8 DEF u, v, w, q

\* An end marker that has been read is one; one that has not been read to its
\* end may be one.
LEMMA EndOfPrefix ==
  ASSUME NEW r \in Seq(Bytes), NEW m \in 0..Len(r)
  PROVE  /\ IsEnd(SubSeq(r, 1, m)) => IsEnd(r)
         /\ IsEnd(r) => \/ IsEnd(SubSeq(r, 1, m)) \/ MayBeEnd(SubSeq(r, 1, m))
                        \/ m = 0
<1> DEFINE d == SubSeq(r, 1, m)
<1>1. /\ d \in Seq(Bytes) /\ Len(d) = m /\ Len(r) \in Nat /\ m \in Nat
      /\ \A k \in 1..m : d[k] = r[k]
  BY RestShape, LenProperties
<1> HIDE DEF d
<1>2. \A n \in Nat : n <= m => n <= Len(r)
  BY <1>1
<1>3. /\ 1 <= m => d[1] = r[1]
      /\ 2 <= m => d[2] = r[2]
      /\ 3 <= m => d[3] = r[3]
  BY <1>1
<1>4. IsEnd(d) => IsEnd(r)
  <2>1. 2 <= m => d[1] = r[1] /\ d[2] = r[2] /\ 2 <= Len(r)
    BY <1>1, <1>3
  <2>2. 3 <= m => d[1] = r[1] /\ d[2] = r[2] /\ d[3] = r[3] /\ 3 <= Len(r)
    BY <1>1, <1>3
  <2>3. IsEnd(d) <=>
          \/ 2 <= m /\ d[1] = "nul" /\ d[2] = "nl"
          \/ 3 <= m /\ d[1] = "nul" /\ d[2] = "cr" /\ d[3] = "nl"
    BY <1>1, EndShape
  <2> QED
    BY <2>1, <2>2, <2>3, EndShape
<1>5. ASSUME IsEnd(r) PROVE IsEnd(d) \/ MayBeEnd(d) \/ m = 0
  <2>1. m = 0 \/ m = 1 \/ m = 2 \/ 3 <= m
    BY <1>1
  <2>2. CASE m = 1
    BY <1>1, <1>3, <1>5, <2>2, EndShape, MayBeEndShape
  <2>3. CASE m = 2
    <3>1. 2 <= Len(d) /\ d[1] = r[1] /\ d[2] = r[2] /\ Len(d) = 2
      BY <1>1, <1>3, <2>3
    <3>2. r[1] = "nul" /\ (r[2] = "nl" \/ r[2] = "cr")
      BY <1>5, EndShape
    <3> QED
      BY <1>1, <3>1, <3>2, EndShape, MayBeEndShape
  <2>4. CASE 3 <= m
    <3>1. 2 <= Len(d) /\ 3 <= Len(d)
          /\ d[1] = r[1] /\ d[2] = r[2] /\ d[3] = r[3]
      BY <1>1, <1>3, <2>4
    <3> QED
      BY <1>1, <1>5, <3>1, EndShape
  <2> QED
    BY <2>1, <2>2, <2>3, <2>4
<1> QED
  BY <1>4, <1>5 DEF d

\* The answer is the first line of what is left of the input, r.
ReturnsLine(r, m, split) ==
  /\ r # <<>> /\ ~ IsEnd(r) /\ LineSpan(r) <= m
  /\ split \in {Result(LineSpan(r), TextLength(r), final) : final \in BOOLEAN}
  /\ split.final => IsEnd(Rest(r, LineSpan(r)))

LEMMA LineIsReturned ==
  ASSUME NEW r, NEW m, NEW split, NEW final \in BOOLEAN,
         r # <<>>, ~ IsEnd(r), LineSpan(r) <= m,
         split = Result(LineSpan(r), TextLength(r), final),
         split.final => IsEnd(Rest(r, LineSpan(r)))
  PROVE  ReturnsLine(r, m, split)
<1>1. split \in {Result(LineSpan(r), TextLength(r), f) : f \in BOOLEAN}
  BY Zenon
<1> QED
  BY <1>1 DEF ReturnsLine

\* More is wanted only of a line, and two bytes that may begin an end marker,
\* that have not all been read.
WantsMore(r, m, atEOF) ==
  /\ atEOF => r = <<>>
  /\ m <= 2 \/ (~ IsEnd(r) /\ m <= LineSpan(r) + 2)

\* Whatever part of r has been read, scanLinesWithEOF wants more, or sees the
\* end marker that r starts with, or returns the line that r starts with.
LEMMA SplitOfInput ==
  ASSUME NEW r \in Seq(Bytes), NEW m \in 0..Len(r),
         NEW atEOF \in BOOLEAN, atEOF => m = Len(r),
         NEW split, split = scanLinesWithEOF(SubSeq(r, 1, m), atEOF)
  PROVE  \/ split = NeedMore /\ WantsMore(r, m, atEOF)
         \/ IsEnd(r) /\ split = Result(0, NoToken, TRUE)
         \/ ReturnsLine(r, m, split)
<1> DEFINE d == SubSeq(r, 1, m)
           line == PlainSplit(d, atEOF)
           rest == Rest(d, line.advance)
<1>1. /\ d \in Seq(Bytes) /\ Len(d) = m /\ Len(r) \in Nat /\ m \in Nat
      /\ \A k \in 1..m : d[k] = r[k]
  BY RestShape, LenProperties
<1>2. atEOF => d = r
  BY SubSeqFull
<1>3. /\ IsEnd(d) => IsEnd(r)
      /\ IsEnd(r) => IsEnd(d) \/ MayBeEnd(d) \/ m = 0
  BY EndOfPrefix
<1>4. split = IF IsEnd(d) THEN Result(0, NoToken, TRUE)
              ELSE IF MayBeEnd(d) /\ ~ atEOF THEN NeedMore
              ELSE IF IsEnd(rest) THEN [line EXCEPT !.final = TRUE]
              ELSE IF MayBeEnd(rest) /\ ~ atEOF THEN NeedMore
              ELSE line
  BY DEF scanLinesWithEOF
<1>5. m = 0 => d = <<>>
  BY <1>1, EmptySeq
<1>6. NeedMore.advance = 0
  BY DEF NeedMore, Result
<1>7. CASE IsEnd(d)
  BY <1>3, <1>4, <1>7
<1>8. CASE d = <<>>
  <2>1. split = NeedMore
    BY <1>8, PlainSplitOfNothing
  <2>2. m <= 2
    BY <1>1, <1>8
  <2> QED
    BY <1>2, <1>8, <2>1, <2>2 DEF WantsMore
<1>9. CASE ~ IsEnd(d) /\ d # <<>> /\ MayBeEnd(d) /\ ~ atEOF
  <2> HIDE DEF d
  <2>1. Len(d) = 1 \/ Len(d) = 2
    BY <1>1, <1>9, MayBeEndShape, Zenon
  <2>2. m <= 2
    BY <1>1, <2>1
  <2> QED
    BY <1>4, <1>9, <2>2 DEF WantsMore
<1>10. CASE ~ IsEnd(d) /\ d # <<>> /\ ~ (MayBeEnd(d) /\ ~ atEOF)
  <2>1. ~ IsEnd(r)
    BY <1>2, <1>3, <1>5, <1>10
  <2>2. m # 0 /\ r # <<>>
    BY <1>1, <1>10, EmptySeq
  <2>3. CASE HasNewline(d)
    <3> DEFINE p == FirstNewline(d)
               text == DropCR(d, p - 1)
    <3>1. p \in 1..m /\ d[p] = "nl" /\ \A j \in 1..(p - 1) : d[j] # "nl"
      BY <1>1, <2>3, FirstNewlineIsOne DEF HasNewline
    <3>2. line = Result(p, text, FALSE)
      BY <2>3 DEF HasNewline, PlainSplit
    <3> HIDE DEF p
    <3>3. /\ p \in 1..Len(r) /\ r[p] = "nl" /\ \A j \in 1..(p - 1) : r[j] # "nl"
          /\ p \in 0..m /\ p - 1 \in Nat /\ p - 1 <= m
      BY <1>1, <3>1
    <3>4. HasNewline(r) /\ FirstNewline(r) = p
      BY <3>3, FirstNewlineIs DEF HasNewline
    <3>5. DropCR(r, p - 1) = text
      <4>1. p - 1 > 0 => p - 1 \in 1..m
        BY <3>3
      <4> QED
        BY <1>1, <4>1 DEF DropCR
    <3> HIDE DEF text
    <3>6. LineSpan(r) = p /\ TextLength(r) = text
      BY <3>4, <3>5 DEF LineSpan, TextLength
    <3>7. line.advance = p /\ ~ line.final
      BY <3>2 DEF Result
    <3>8. IsEnd(rest) => IsEnd(Rest(r, p))
      <4>1. /\ m - p \in 0..Len(Rest(r, p))
            /\ rest = SubSeq(Rest(r, p), 1, m - p)
        BY <3>3, <3>7, RestOfPrefix
      <4>2. p \in 0..Len(r)
        BY <3>3
      <4>3. Rest(r, p) \in Seq(Bytes)
        BY <4>2, RestShape
      <4> QED
        BY <4>1, <4>3, EndOfPrefix
    <3> HIDE DEF rest, line, d
    <3>9. CASE IsEnd(rest)
      <4>1. split = [line EXCEPT !.final = TRUE]
        BY <1>4, <1>10, <3>9, Zenon
      <4>2. split = Result(p, text, TRUE)
        <5>1. \A f, g : [Result(p, text, f) EXCEPT !.final = g] = Result(p, text, g)
          BY ResultExcept
        <5> QED
          BY <3>2, <4>1, <5>1, Zenon
      <4>3. LineSpan(r) <= m /\ IsEnd(Rest(r, LineSpan(r)))
        BY <3>3, <3>6, <3>8, <3>9
      <4> QED
        BY <2>1, <2>2, <3>6, <4>2, <4>3, LineIsReturned, Zenon
    <3>10. CASE ~ IsEnd(rest) /\ MayBeEnd(rest) /\ ~ atEOF
      <4>1. split = NeedMore
        BY <1>4, <1>10, <3>10
      <4>2. rest \in Seq(Bytes) /\ Len(rest) = m - p
        <5>1. p \in 0..Len(d) /\ Len(d) - p = m - p
          BY <1>1, <3>3
        <5>2. Rest(d, p) \in Seq(Bytes) /\ Len(Rest(d, p)) = Len(d) - p
          BY <1>1, <5>1, RestShape
        <5> QED
          BY <3>7, <5>1, <5>2 DEF rest
      <4>3. Len(rest) = 1 \/ Len(rest) = 2
        BY <3>10, <4>2, MayBeEndShape, Zenon
      <4>4. m <= LineSpan(r) + 2
        <5>1. m - p = 1 \/ m - p = 2
          BY <4>2, <4>3
        <5> QED
          BY <1>1, <3>3, <3>6, <5>1
      <4> QED
        BY <2>1, <3>10, <4>1, <4>4 DEF WantsMore
    <3>11. CASE ~ IsEnd(rest) /\ ~ (MayBeEnd(rest) /\ ~ atEOF)
      <4>1. split = Result(p, text, FALSE)
        BY <1>4, <1>10, <3>2, <3>11
      <4>2. ~ split.final
        BY <4>1 DEF Result
      <4>3. LineSpan(r) <= m
        BY <3>3, <3>6
      <4> QED
        BY <2>1, <2>2, <3>6, <4>1, <4>2, <4>3, LineIsReturned, Zenon
    <3> QED
      BY <3>9, <3>10, <3>11
  <2>4. CASE ~ HasNewline(d) /\ atEOF
    <3>1. d = r /\ m = Len(r)
      BY <1>2, <2>4
    <3>2. line = Result(m, DropCR(r, m), FALSE)
      BY <1>1, <1>10, <2>4, <3>1 DEF HasNewline, PlainSplit
    <3>3. LineSpan(r) = m /\ TextLength(r) = DropCR(r, m)
      BY <2>4, <3>1 DEF LineSpan, TextLength
    <3>4. line.advance = m /\ ~ line.final
      BY <3>2 DEF Result
    <3>5. ~ IsEnd(rest) /\ ~ MayBeEnd(rest)
      <4>1. rest \in Seq(Bytes) /\ Len(rest) = 0
        <5>1. m \in 0..Len(d) /\ Len(d) - m = 0
          BY <1>1
        <5>2. rest = Rest(d, m)
          BY <3>4
        <5> HIDE DEF d, rest
        <5>3. Rest(d, m) \in Seq(Bytes) /\ Len(Rest(d, m)) = Len(d) - m
          BY <1>1, <5>1, RestShape
        <5> QED
          BY <5>1, <5>2, <5>3
      <4> HIDE DEF rest, line, d
      <4>2. ~ (2 <= Len(rest)) /\ ~ (3 <= Len(rest))
            /\ Len(rest) # 1 /\ Len(rest) # 2
        BY <4>1
      <4> QED
        BY <4>1, <4>2, EndShape, MayBeEndShape
    <3> HIDE DEF rest, line, d
    <3>6. split = line
      BY <1>4, <1>10, <3>5
    <3>7. LineSpan(r) <= m /\ ~ split.final
      BY <1>1, <3>3, <3>4, <3>6
    <3> QED
      BY <2>1, <2>2, <3>2, <3>3, <3>6, <3>7, LineIsReturned, Zenon
  <2>5. CASE ~ HasNewline(d) /\ ~ atEOF
    <3>1. line = NeedMore
      BY <2>5 DEF HasNewline, PlainSplit
    <3>2. rest = d
      BY <1>1, <1>6, <3>1, SubSeqFull DEF Rest
    <3> HIDE DEF rest, line, d
    <3>3. split = NeedMore
      BY <1>4, <1>10, <2>5, <3>1, <3>2
    <3>4. m <= LineSpan(r) + 2
      <4>1. CASE HasNewline(r)
        <5>1. FirstNewline(r) \in 1..Len(r) /\ r[FirstNewline(r)] = "nl"
          BY <4>1, FirstNewlineIsOne DEF HasNewline
        <5>2. FirstNewline(r) \notin 1..m
          BY <1>1, <2>5, <5>1 DEF HasNewline
        <5>3. LineSpan(r) = FirstNewline(r)
          BY <4>1 DEF LineSpan
        <5> QED
          BY <1>1, <5>1, <5>2, <5>3
      <4>2. CASE ~ HasNewline(r)
        BY <1>1, <4>2 DEF LineSpan
      <4> QED
        BY <4>1, <4>2
    <3> QED
      BY <2>1, <2>5, <3>3, <3>4 DEF WantsMore
  <2> QED
    BY <2>3, <2>4, <2>5
<1> QED
  BY <1>7, <1>8, <1>9, <1>10

\* A place between two lines of d, at its start, or at its end.
BetweenLines(d, at) ==
  at \in 0..Len(d) /\ (at \in {0, Len(d)} \/ d[at] = "nl")

StartsBelow(d, at) == {j \in LineStarts(d) : j < at}

\* From between two lines, the first line leads to the next such place, and
\* no other line starts on the way.
LEMMA NextStart ==
  ASSUME NEW d \in Seq(Bytes), NEW at, BetweenLines(d, at), Rest(d, at) # <<>>
  PROVE  LET p == LineSpan(Rest(d, at)) IN
         /\ p \in Nat \ {0} /\ at \in LineStarts(d)
         /\ BetweenLines(d, at + p)
         /\ StartsBelow(d, at + p) = StartsBelow(d, at) \cup {at}
         /\ TextLength(Rest(d, at)) \in Nat
<1> DEFINE r == Rest(d, at)
           p == LineSpan(r)
<1>1. at \in 0..Len(d) /\ Len(d) \in Nat /\ at \in Nat
  BY DEF BetweenLines
<1>2. /\ r \in Seq(Bytes) /\ Len(r) = Len(d) - at
      /\ \A k \in 1..(Len(d) - at) : r[k] = d[at + k]
  BY <1>1, RestShape
<1>3. Len(r) \in Nat \ {0} /\ at < Len(d)
  <2>1. r # <<>>
    OBVIOUS
  <2> HIDE DEF r
  <2>2. Len(r) \in Nat \ {0}
    BY <1>2, <2>1, EmptySeq
  <2> QED
    BY <1>1, <1>2, <2>2
<1> HIDE DEF r
<1>4. at \in LineStarts(d)
  BY <1>1, <1>3 DEF BetweenLines, LineStarts
<1>5. /\ p \in 1..Len(r)
      /\ \A k \in 1..(p - 1) : r[k] # "nl"
      /\ p = Len(r) \/ r[p] = "nl"
  <2>1. CASE HasNewline(r)
    BY <1>2, <2>1, FirstNewlineIsOne DEF HasNewline, LineSpan
  <2>2. CASE ~ HasNewline(r)
    BY <1>2, <1>3, <2>2 DEF HasNewline, LineSpan
  <2> QED
    BY <2>1, <2>2
<1>6. TextLength(r) \in Nat
  <2>1. \A n \in Nat : DropCR(r, n) \in Nat
    BY DEF DropCR
  <2>2. HasNewline(r) => FirstNewline(r) - 1 \in Nat
    <3>1. HasNewline(r) => FirstNewline(r) \in 1..Len(r)
      BY <1>2, FirstNewlineIsOne DEF HasNewline
    <3> QED
      BY <3>1
  <2> QED
    BY <1>3, <2>1, <2>2 DEF TextLength
<1> HIDE DEF p
<1>7. p \in Nat \ {0} /\ at + p \in 0..Len(d)
  BY <1>1, <1>2, <1>5
<1>8. at + p = Len(d) \/ d[at + p] = "nl"
  <2>1. CASE p = Len(r)
    BY <1>1, <1>2, <2>1
  <2>2. CASE r[p] = "nl"
    <3>1. p \in 1..(Len(d) - at)
      BY <1>2, <1>5
    <3> QED
      BY <1>2, <2>2, <3>1
  <2> QED
    BY <1>5, <2>1, <2>2
<1>9. ASSUME NEW j \in LineStarts(d), j < at + p, ~ (j < at)
      PROVE  j = at
  <2> SUFFICES ASSUME j # at PROVE FALSE
    OBVIOUS
  <2>1. j \in Nat /\ at < j
    BY <1>1, <1>9 DEF LineStarts
  <2>2. d[j] = "nl"
    BY <1>1, <2>1 DEF LineStarts
  <2>3. /\ j - at \in 1..(p - 1) /\ j - at \in 1..(Len(d) - at)
        /\ at + (j - at) = j
    BY <1>1, <1>2, <1>5, <1>7, <1>9, <2>1
  <2> QED
    BY <1>2, <1>5, <2>2, <2>3
<1>10. at < at + p /\ \A j \in LineStarts(d) : j < at => j < at + p
  BY <1>1, <1>7 DEF LineStarts
<1>11. StartsBelow(d, at + p) = StartsBelow(d, at) \cup {at}
  BY <1>4, <1>9, <1>10 DEF StartsBelow
<1> QED
  BY <1>4, <1>6, <1>7, <1>8, <1>11 DEF BetweenLines, p, r

\* The lines in front of a place that none of them ends the input before.
LEMMA BelowIsBefore ==
  ASSUME NEW d \in Seq(Bytes), NEW at, BetweenLines(d, at),
         \A j \in StartsBelow(d, at) : ~ IsEnd(Rest(d, j))
  PROVE  StartsBelow(d, at) = {j \in StartsBeforeEnd(d) : j < at}
<1>1. at \in 0..Len(d) /\ Len(d) \in Nat /\ LineStarts(d) \subseteq Nat
  BY DEF BetweenLines, LineStarts
<1>2. StartsBelow(d, at) \subseteq StartsBeforeEnd(d)
  <2> SUFFICES ASSUME NEW k \in StartsBelow(d, at),
                      NEW j \in LineStarts(d), j <= k
               PROVE  ~ IsEnd(Rest(d, j))
    BY DEF StartsBelow, StartsBeforeEnd
  <2>1. j \in StartsBelow(d, at)
    BY <1>1 DEF StartsBelow
  <2> QED
    BY <2>1
<1> QED
  BY <1>2 DEF StartsBelow, StartsBeforeEnd

\* The first end marker, or the end of the input, comes after those lines.
LEMMA EndsHere ==
  ASSUME NEW d \in Seq(Bytes), NEW at, BetweenLines(d, at),
         \A j \in StartsBelow(d, at) : ~ IsEnd(Rest(d, j)),
         Rest(d, at) = <<>> \/ IsEnd(Rest(d, at))
  PROVE  StartsBeforeEnd(d) = StartsBelow(d, at)
<1>1. at \in 0..Len(d) /\ Len(d) \in Nat /\ LineStarts(d) \subseteq Nat
  BY DEF BetweenLines, LineStarts
<1>2. StartsBelow(d, at) = {j \in StartsBeforeEnd(d) : j < at}
  BY BelowIsBefore
<1>3. ASSUME NEW k \in StartsBeforeEnd(d), ~ (k < at) PROVE FALSE
  <2>1. k \in LineStarts(d) /\ at <= k /\ k < Len(d)
    BY <1>1, <1>3 DEF StartsBeforeEnd, LineStarts
  <2>2. Rest(d, at) # <<>>
    <3>1. Len(Rest(d, at)) = Len(d) - at
      BY <1>1, RestShape
    <3>2. Len(d) - at # 0
      BY <1>1, <2>1
    <3> QED
      BY <3>1, <3>2
  <2>3. at \in LineStarts(d)
    BY <2>2, NextStart
  <2> QED
    BY <2>1, <2>2, <2>3 DEF StartsBeforeEnd
<1> QED
  BY <1>2, <1>3

LEMMA HeldIsPrefix ==
  ASSUME NEW S, NEW d \in Seq(S), NEW at \in 0..Len(d), NEW n \in at..Len(d)
  PROVE  /\ n - at \in 0..Len(Rest(d, at))
         /\ SubSeq(d, at + 1, n) = SubSeq(Rest(d, at), 1, n - at)
<1> DEFINE r == Rest(d, at)
           u == SubSeq(d, at + 1, n)
           v == SubSeq(r, 1, n - at)
<1>1. Len(d) \in Nat /\ at \in Nat /\ n \in Nat /\ at <= n /\ n <= Len(d)
  BY LenProperties
<1>2. /\ r \in Seq(S) /\ Len(r) = Len(d) - at
      /\ \A k \in 1..(Len(d) - at) : r[k] = d[at + k]
  BY RestShape
<1>3. \A k \in (at + 1)..n : d[k] \in S
  BY <1>1, ElementOfSeq
<1>4. /\ u \in Seq(S)
      /\ Len(u) = IF at + 1 <= n THEN n - (at + 1) + 1 ELSE 0
      /\ \A k \in 1..(n - (at + 1) + 1) : u[k] = d[at + 1 + k - 1]
  BY <1>1, <1>3, SubSeqProperties
<1> HIDE DEF r, u
<1>5. n - at \in 0..Len(r)
  BY <1>1, <1>2
<1>6. v \in Seq(S) /\ Len(v) = n - at /\ \A k \in 1..(n - at) : v[k] = r[k]
  BY <1>2, <1>5, RestShape
<1> HIDE DEF v
<1>7. Len(u) = n - at
  BY <1>1, <1>4
<1>8. ASSUME NEW k \in 1..(n - at) PROVE u[k] = v[k]
  <2>1. /\ k \in 1..(n - (at + 1) + 1) /\ at + 1 + k - 1 = at + k
        /\ k \in 1..(Len(d) - at)
    BY <1>1
  <2> QED
    BY <1>2, <1>4, <1>6, <2>1
<1>9. u = v
  BY <1>4, <1>6, <1>7, <1>8, SeqEqual
<1> QED
  BY <1>5, <1>9 DEF r, u, v

LEMMA RestOfRest ==
  ASSUME NEW S, NEW d \in Seq(S), NEW at \in 0..Len(d), NEW p \in 0..(Len(d) - at)
  PROVE  Rest(Rest(d, at), p) = Rest(d, at + p)
<1> DEFINE r == Rest(d, at)
           u == Rest(r, p)
           v == Rest(d, at + p)
<1>1. /\ Len(d) \in Nat /\ at \in Nat /\ p \in Nat
      /\ at + p \in 0..Len(d)
  BY LenProperties
<1>2. /\ r \in Seq(S) /\ Len(r) = Len(d) - at
      /\ \A k \in 1..(Len(d) - at) : r[k] = d[at + k]
  BY RestShape
<1>3. /\ v \in Seq(S) /\ Len(v) = Len(d) - (at + p)
      /\ \A k \in 1..(Len(d) - (at + p)) : v[k] = d[at + p + k]
  BY <1>1, RestShape
<1> HIDE DEF r, v
<1>4. /\ u \in Seq(S) /\ Len(u) = Len(r) - p
      /\ \A k \in 1..(Len(r) - p) : u[k] = r[p + k]
  <2>1. p \in 0..Len(r)
    BY <1>2
  <2> QED
    BY <1>2, <2>1, RestShape
<1> HIDE DEF u
<1>5. Len(u) = Len(d) - (at + p)
  BY <1>1, <1>2, <1>4
<1>6. ASSUME NEW k \in 1..Len(u) PROVE u[k] = v[k]
  <2>1. /\ k \in 1..(Len(r) - p) /\ k \in 1..(Len(d) - (at + p))
        /\ p + k \in 1..(Len(d) - at) /\ at + (p + k) = at + p + k
    BY <1>1, <1>2, <1>4, <1>5
  <2> QED
    BY <1>2, <1>3, <1>4, <2>1
<1>7. u = v
  BY <1>3, <1>4, <1>5, <1>6, SeqEqual
<1> QED
  BY <1>7 DEF r, u, v

\* The tokens t are the lines of d in front of a place between two lines.
AreLinesBelow(t, d, at) ==
  /\ t \in Seq([at : Nat, len : Nat])
  /\ AreLinesAt(t, d, StartsBelow(d, at))

LEMMA OneMoreLine ==
  ASSUME NEW d \in Seq(Bytes), NEW at \in Nat, NEW to \in Nat, NEW t,
         AreLinesBelow(t, d, at),
         StartsBelow(d, to) = StartsBelow(d, at) \cup {at},
         TextLength(Rest(d, at)) \in Nat
  PROVE  AreLinesBelow(Append(t, [at |-> at, len |-> TextLength(Rest(d, at))]),
                       d, to)
<1> DEFINE T == [at : Nat, len : Nat]
           x == [at |-> at, len |-> TextLength(Rest(d, at))]
           u == Append(t, x)
<1>1. t \in Seq(T) /\ x \in T /\ Len(t) \in Nat
      /\ x.at = at /\ x.len = TextLength(Rest(d, at))
  BY LenProperties DEF AreLinesBelow, AreLinesAt
<1> HIDE DEF T, x
<1>2. /\ u \in Seq(T) /\ Len(u) = Len(t) + 1
      /\ \A n \in 1..Len(t) : u[n] = t[n]
      /\ u[Len(t) + 1] = x
  BY <1>1, AppendProperties
<1> HIDE DEF u
<1>3. \A n \in 1..Len(u) : n \in 1..Len(t) \/ n = Len(t) + 1
  BY <1>1, <1>2
<1>4. {u[n].at : n \in 1..Len(u)} = StartsBelow(d, to)
  <2>1. \A n \in 1..Len(t) : n \in 1..Len(u)
    BY <1>1, <1>2
  <2>2. Len(t) + 1 \in 1..Len(u)
    BY <1>1, <1>2
  <2>3. {u[n].at : n \in 1..Len(u)} = {t[n].at : n \in 1..Len(t)} \cup {at}
    BY <1>1, <1>2, <1>3, <2>1, <2>2
  <2> QED
    BY <2>3 DEF AreLinesBelow, AreLinesAt
<1>5. \A n \in 1..Len(u) : u[n].len = TextLength(Rest(d, u[n].at))
  BY <1>1, <1>2, <1>3 DEF AreLinesBelow, AreLinesAt
<1>6. ASSUME NEW n \in 1..(Len(u) - 1) PROVE u[n].at < u[n + 1].at
  <2>1. n \in 1..Len(t)
    BY <1>1, <1>2
  <2>2. CASE n = Len(t)
    <3>1. t[n].at \in StartsBelow(d, at)
      BY <2>1 DEF AreLinesBelow, AreLinesAt
    <3>2. t[n].at < at
      BY <3>1 DEF StartsBelow
    <3> QED
      BY <1>1, <1>2, <2>1, <2>2, <3>2
  <2>3. CASE n # Len(t)
    <3>1. n \in 1..(Len(t) - 1) /\ n + 1 \in 1..Len(t)
      BY <1>1, <2>1, <2>3
    <3> QED
      BY <1>2, <2>1, <3>1 DEF AreLinesBelow, AreLinesAt
  <2> QED
    BY <2>2, <2>3
<1> QED
  BY <1>2, <1>4, <1>5, <1>6 DEF AreLinesBelow, AreLinesAt, T, x, u

\* An end marker may be returned as an empty token behind those lines.
LEMMA MarkerToken ==
  ASSUME NEW d \in Seq(Bytes), NEW at, NEW t,
         AreLinesBelow(t, d, at),
         StartsBeforeEnd(d) = StartsBelow(d, at), IsEnd(Rest(d, at))
  PROVE  AreLinesBeforeEnd(Append(t, [at |-> at, len |-> 0]), d)
<1> DEFINE x == [at |-> at, len |-> 0]
           u == Append(t, x)
           T == {t[n] : n \in 1..Len(t)} \cup {x}
<1>1. x.at = at /\ x.len = 0
  OBVIOUS
<1>2. t \in Seq([at : Nat, len : Nat]) /\ Len(t) \in Nat
  BY LenProperties DEF AreLinesBelow
<1>3. t \in Seq(T)
  <2>1. [n \in 1..Len(t) |-> t[n]] \in Seq(T)
    <3>1. \A n \in 1..Len(t) : t[n] \in T
      OBVIOUS
    <3> HIDE DEF T
    <3> QED
      BY <1>2, <3>1, IsASeq
  <2>2. t = [n \in 1..Len(t) |-> t[n]]
    BY <1>2
  <2> QED
    BY <2>1, <2>2
<1> HIDE DEF x
<1>4. x \in T
  OBVIOUS
<1> HIDE DEF T
<1>5. /\ u \in Seq(T) /\ Len(u) = Len(t) + 1
      /\ \A n \in 1..Len(t) : u[n] = t[n]
      /\ u[Len(t) + 1] = x
  BY <1>3, <1>4, AppendProperties
<1> HIDE DEF u
<1>6. SubSeq(u, 1, Len(u) - 1) = t
  <2>1. Len(t) \in 0..Len(u) /\ Len(u) - 1 = Len(t)
    BY <1>2, <1>5
  <2>2. /\ SubSeq(u, 1, Len(t)) \in Seq(T)
        /\ Len(SubSeq(u, 1, Len(t))) = Len(t)
        /\ \A k \in 1..Len(t) : SubSeq(u, 1, Len(t))[k] = u[k]
    BY <1>5, <2>1, RestShape
  <2> QED
    BY <1>3, <1>5, <2>1, <2>2, SeqEqual
<1>7. u # <<>> /\ u[Len(u)] = x
  BY <1>2, <1>5
<1>8. AreLinesAt(t, d, StartsBeforeEnd(d))
  BY DEF AreLinesBelow
<1> QED
  BY <1>1, <1>6, <1>7, <1>8 DEF AreLinesBeforeEnd, u, x

\* What is true in every state c of a scan of d with a buffer of limit bytes.
ScanRight(d, limit, c) ==
  /\ BetweenLines(d, c.at)
  /\ c.have \in c.at..Len(d)
  /\ c.status \in {"reading", "eof", "over", "too long"}
  /\ c.status = "eof" => c.have = Len(d)
  /\ \A j \in StartsBelow(d, c.at) : ~ IsEnd(Rest(d, j))
  /\ c.status # "over" => AreLinesBelow(c.tokens, d, c.at)
  /\ c.status = "over" => AreLinesBeforeEnd(c.tokens, d)
  /\ c.status = "too long" =>
       c.at \in StartsBeforeEnd(d) /\ IsLong(d, limit, c.at)

LEMMA ScanPlaces ==
  ASSUME NEW d \in Seq(Bytes), NEW limit, NEW c, ScanRight(d, limit, c)
  PROVE  /\ c.at \in 0..Len(d) /\ c.have \in c.at..Len(d)
         /\ Len(d) \in Nat /\ c.at \in Nat
<1>1. c.at \in 0..Len(d) /\ c.have \in c.at..Len(d)
  BY DEF ScanRight, BetweenLines
<1>2. Len(d) \in Nat
  BY LenProperties
<1> QED
  BY ONLY <1>1, <1>2

LEMMA ScanStarts ==
  ASSUME NEW d \in Seq(Bytes), NEW limit
  PROVE  ScanRight(d, limit, Start)
<1>1. /\ Start.at = 0 /\ Start.have = 0 /\ Start.status = "reading"
      /\ Start.tokens = <<>>
  BY DEF Start
<1>2. Len(d) \in Nat /\ 0 \in 0..Len(d)
  BY LenProperties
<1>3. StartsBelow(d, 0) = {}
  BY <1>2 DEF StartsBelow, LineStarts
<1>4. AreLinesBelow(<<>>, d, 0)
  <2>1. <<>> \in Seq([at : Nat, len : Nat]) /\ Len(<<>>) = 0
    OBVIOUS
  <2>2. \A n \in 1..(Len(<<>>) - 1) : FALSE
    BY <2>1
  <2>3. \A n \in 1..Len(<<>>) : FALSE
    BY <2>1
  <2> QED
    BY <1>3, <2>1, <2>2, <2>3 DEF AreLinesBelow, AreLinesAt
<1> QED
  BY <1>1, <1>2, <1>3, <1>4 DEF ScanRight, BetweenLines

\* The ways in which a call of the split function can go.
LEMMA ScanWaits ==
  ASSUME NEW d \in Seq(Bytes), NEW limit, NEW c, NEW e,
         ScanRight(d, limit, c), c.status \in {"reading", "eof"},
         e.at = c.at, e.tokens = c.tokens, e.have \in c.at..Len(d),
         e.status \in {"reading", "eof"}, e.status = "eof" => e.have = Len(d)
  PROVE  ScanRight(d, limit, e)
BY DEF ScanRight

LEMMA ScanEnds ==
  ASSUME NEW d \in Seq(Bytes), NEW limit, NEW c, NEW e,
         ScanRight(d, limit, c), c.status \in {"reading", "eof"},
         e.at = c.at, e.have = c.have, e.status = "over",
         \/ Rest(d, c.at) = <<>> /\ e.tokens = c.tokens
         \/ /\ IsEnd(Rest(d, c.at))
            /\ e.tokens = Append(c.tokens, [at |-> c.at, len |-> 0])
  PROVE  ScanRight(d, limit, e)
<1>1. StartsBeforeEnd(d) = StartsBelow(d, c.at)
  BY EndsHere DEF ScanRight
<1>2. AreLinesBelow(c.tokens, d, c.at)
  BY DEF ScanRight
<1>3. AreLinesBeforeEnd(e.tokens, d)
  <2>1. CASE e.tokens = c.tokens
    BY <1>1, <1>2, <2>1 DEF AreLinesBelow, AreLinesBeforeEnd
  <2>2. CASE /\ IsEnd(Rest(d, c.at))
             /\ e.tokens = Append(c.tokens, [at |-> c.at, len |-> 0])
    BY <1>1, <1>2, <2>2, MarkerToken
  <2> QED
    BY <2>1, <2>2
<1> QED
  BY <1>3 DEF ScanRight

LEMMA ScanFails ==
  ASSUME NEW d \in Seq(Bytes), NEW limit, NEW c, NEW e,
         ScanRight(d, limit, c), c.status \in {"reading", "eof"},
         e.at = c.at, e.have = c.have, e.tokens = c.tokens,
         e.status = "too long", Rest(d, c.at) # <<>>,
         ~ IsEnd(Rest(d, c.at)), IsLong(d, limit, c.at)
  PROVE  ScanRight(d, limit, e)
<1>1. c.at \in LineStarts(d)
  BY NextStart DEF ScanRight
<1>2. ASSUME NEW j \in LineStarts(d), j <= c.at PROVE ~ IsEnd(Rest(d, j))
  <2>1. j = c.at \/ j < c.at
    <3>1. Len(d) \in Nat
      BY LenProperties
    <3>2. j \in 0..(Len(d) - 1) /\ c.at \in 0..(Len(d) - 1) /\ j <= c.at
      BY <1>1, <1>2 DEF LineStarts
    <3> QED
      BY ONLY <3>1, <3>2
  <2>2. j = c.at \/ j \in StartsBelow(d, c.at)
    BY <2>1 DEF StartsBelow
  <2> QED
    BY <2>2 DEF ScanRight
<1>3. c.at \in StartsBeforeEnd(d)
  BY <1>1, <1>2 DEF StartsBeforeEnd
<1> QED
  BY <1>3 DEF ScanRight

LEMMA ScanTakes ==
  ASSUME NEW d \in Seq(Bytes), NEW limit, NEW c, NEW e,
         ScanRight(d, limit, c), c.status \in {"reading", "eof"},
         Rest(d, c.at) # <<>>, ~ IsEnd(Rest(d, c.at)),
         LineSpan(Rest(d, c.at)) <= c.have - c.at,
         e.at = c.at + LineSpan(Rest(d, c.at)),
         e.tokens = Append(c.tokens, [at |-> c.at,
                                      len |-> TextLength(Rest(d, c.at))]),
         e.have = c.have, e.status \in {c.status, "over"},
         e.status = "over" => IsEnd(Rest(d, e.at))
  PROVE  ScanRight(d, limit, e)
<1> DEFINE at == c.at
           p == LineSpan(Rest(d, at))
<1>1. /\ p \in Nat \ {0} /\ BetweenLines(d, at + p)
      /\ StartsBelow(d, at + p) = StartsBelow(d, at) \cup {at}
      /\ TextLength(Rest(d, at)) \in Nat
  BY NextStart DEF ScanRight
<1>2. at \in Nat /\ Len(d) \in Nat /\ c.have \in at..Len(d)
  BY ScanPlaces
<1>3. e.at = at + p
  OBVIOUS
<1> HIDE DEF p
<1>4. AreLinesBelow(e.tokens, d, e.at)
  <2>1. AreLinesBelow(c.tokens, d, at)
    BY DEF ScanRight
  <2>2. at + p \in Nat
    BY <1>1, <1>2
  <2> QED
    BY <1>1, <1>2, <1>3, <2>1, <2>2, OneMoreLine
<1>5. \A j \in StartsBelow(d, e.at) : ~ IsEnd(Rest(d, j))
  BY <1>1, <1>3 DEF ScanRight
<1>6. e.have \in e.at..Len(d)
  BY <1>1, <1>2, <1>3 DEF p
<1>7. e.status = "over" => AreLinesBeforeEnd(e.tokens, d)
  <2> SUFFICES ASSUME e.status = "over" PROVE AreLinesBeforeEnd(e.tokens, d)
    OBVIOUS
  <2>1. StartsBeforeEnd(d) = StartsBelow(d, e.at)
    BY <1>1, <1>3, <1>5, EndsHere
  <2> QED
    BY <1>4, <2>1 DEF AreLinesBelow, AreLinesBeforeEnd
<1>8. BetweenLines(d, e.at)
  BY <1>1, <1>3
<1>9. e.status # "too long" /\ (e.status = "eof" => e.have = Len(d))
      /\ e.status \in {"reading", "eof", "over", "too long"}
  BY DEF ScanRight
<1> QED
  BY <1>4, <1>5, <1>6, <1>7, <1>8, <1>9 DEF ScanRight

LEMMA ScanGoesOn ==
  ASSUME NEW d \in Seq(Bytes), NEW limit \in Nat, 3 <= limit, NEW c, NEW e,
         ScanRight(d, limit, c), e \in ScanSteps(d, limit, c)
  PROVE  ScanRight(d, limit, e)
<1> DEFINE r == Rest(d, c.at)
           m == c.have - c.at
           held == SubSeq(d, c.at + 1, c.have)
           split == scanLinesWithEOF(held, c.status = "eof")
           tokens == IF TokenLength(split) = NoToken THEN c.tokens
                     ELSE Append(c.tokens, [at |-> c.at,
                                            len |-> TokenLength(split)])
           To(have, status) == [at |-> c.at + split.advance, have |-> have,
                                status |-> status, tokens |-> tokens]
<1>1. /\ c.at \in 0..Len(d) /\ c.have \in c.at..Len(d)
      /\ Len(d) \in Nat /\ c.at \in Nat
  BY ScanPlaces
<1>2. r \in Seq(Bytes) /\ Len(r) = Len(d) - c.at
  BY <1>1, RestShape, SMTT(30)
<1>3. m \in 0..Len(r) /\ held = SubSeq(r, 1, m)
  BY <1>1, HeldIsPrefix
<1>4. c.status = "eof" => m = Len(r)
  BY <1>1, <1>2 DEF ScanRight
<1>5. c.status \in {"reading", "eof"}
  BY DEF ScanSteps, ScanRight
<1>6. IF split # NeedMore
      THEN e = To(c.have, IF split.final THEN "over" ELSE c.status)
      ELSE \/ c.status = "eof" /\ e = To(c.have, "over")
           \/ c.status # "eof" /\ m = limit /\ e = To(c.have, "too long")
           \/ \E n \in (c.have + 1)..Len(d) : e = To(n, "reading")
           \/ c.have = Len(d) /\ e = To(c.have, "eof")
  BY <1>5 DEF ScanSteps
<1>7. NeedMore.advance = 0 /\ NeedMore.token = NoToken /\ ~ NeedMore.final
  BY DEF NeedMore, Result
<1>8. \/ split = NeedMore /\ WantsMore(r, m, c.status = "eof")
      \/ IsEnd(r) /\ split = Result(0, NoToken, TRUE)
      \/ ReturnsLine(r, m, split)
  <2>1. PICK atEOF \in BOOLEAN : atEOF = (c.status = "eof")
    OBVIOUS
  <2>2. split = scanLinesWithEOF(SubSeq(r, 1, m), atEOF)
    BY <1>3, <2>1
  <2>3. atEOF => m = Len(r)
    BY <1>4, <2>1
  <2> HIDE DEF split, r, m
  <2>4. \/ split = NeedMore /\ WantsMore(r, m, atEOF)
        \/ IsEnd(r) /\ split = Result(0, NoToken, TRUE)
        \/ ReturnsLine(r, m, split)
    BY <1>2, <1>3, <2>2, <2>3, SplitOfInput
  <2> QED
    BY <2>1, <2>4
<1> HIDE DEF split
<1>9. ASSUME NEW have, NEW status, e = To(have, status)
      PROVE  /\ e.at = c.at + split.advance /\ e.have = have
             /\ e.status = status /\ e.tokens = tokens
  BY <1>9
<1>10. CASE split = NeedMore
  <2>1. c.at + split.advance = c.at /\ tokens = c.tokens
    BY <1>1, <1>7, <1>10 DEF TokenLength
  <2>2. WantsMore(r, m, c.status = "eof")
    <3>1. NeedMore # Result(0, NoToken, TRUE)
      BY <1>7 DEF Result
    <3>2. ~ ReturnsLine(r, m, NeedMore)
      <4> SUFFICES ASSUME ReturnsLine(r, m, NeedMore) PROVE FALSE
        OBVIOUS
      <4>1. LineSpan(r) \in Nat \ {0}
        BY NextStart DEF ReturnsLine, ScanRight
      <4>2. PICK final \in BOOLEAN :
              NeedMore = Result(LineSpan(r), TextLength(r), final)
        BY DEF ReturnsLine
      <4>3. NeedMore.advance = LineSpan(r)
        BY <4>2 DEF Result
      <4> QED
        BY <1>7, <4>1, <4>3
    <3> QED
      BY <1>8, <1>10, <3>1, <3>2
  <2>3. CASE c.status = "eof" /\ e = To(c.have, "over")
    <3>1. /\ e.at = c.at /\ e.have = c.have
          /\ e.status = "over" /\ e.tokens = c.tokens
      BY <1>9, <2>1, <2>3
    <3>2. r = <<>>
      BY <2>2, <2>3 DEF WantsMore
    <3> QED
      BY <1>5, <3>1, <3>2, ScanEnds
  <2>4. CASE c.status # "eof" /\ m = limit /\ e = To(c.have, "too long")
    <3>1. /\ e.at = c.at /\ e.have = c.have
          /\ e.status = "too long" /\ e.tokens = c.tokens
      BY <1>9, <2>1, <2>4
    <3>2. ~ (m <= 2)
      <4>1. m = limit
        BY <2>4
      <4> HIDE DEF m
      <4> QED
        BY <4>1
    <3>3. ~ IsEnd(r) /\ m <= LineSpan(r) + 2
      BY <2>2, <3>2, Zenon DEF WantsMore
    <3>4. r # <<>>
      <4> SUFFICES ASSUME r = <<>> PROVE FALSE
        OBVIOUS
      <4>1. Len(r) = 0
        OBVIOUS
      <4> HIDE DEF r, m
      <4>2. m = 0
        BY <1>3, <4>1
      <4> QED
        BY <3>2, <4>2
    <3>5. LineSpan(r) \in Nat
      BY <3>4, NextStart DEF ScanRight
    <3>6. IsLong(d, limit, c.at)
      BY <2>4, <3>3, <3>5 DEF IsLong
    <3> QED
      BY <1>5, <3>1, <3>3, <3>4, <3>6, ScanFails
  <2>5. CASE \E n \in (c.have + 1)..Len(d) : e = To(n, "reading")
    <3>1. PICK n \in (c.have + 1)..Len(d) : e = To(n, "reading")
      BY <2>5
    <3>2. /\ e.at = c.at /\ e.have = n
          /\ e.status = "reading" /\ e.tokens = c.tokens
      BY <1>9, <2>1, <3>1
    <3>3. n \in c.at..Len(d)
      BY <1>1
    <3> QED
      BY <1>5, <3>2, <3>3, ScanWaits
  <2>6. CASE c.have = Len(d) /\ e = To(c.have, "eof")
    <3>1. /\ e.at = c.at /\ e.have = c.have
          /\ e.status = "eof" /\ e.tokens = c.tokens
      BY <1>9, <2>1, <2>6
    <3> QED
      BY <1>1, <1>5, <2>6, <3>1, ScanWaits
  <2> QED
    BY <1>6, <1>10, <2>3, <2>4, <2>5, <2>6
<1>11. CASE split # NeedMore /\ IsEnd(r) /\ split = Result(0, NoToken, TRUE)
  <2>1. split.advance = 0 /\ split.token = NoToken /\ split.final
    BY <1>11 DEF Result
  <2>2. tokens = Append(c.tokens, [at |-> c.at, len |-> 0])
    BY <2>1 DEF TokenLength, NoToken
  <2>3. e = To(c.have, "over")
    BY <1>6, <1>11, <2>1
  <2>4. /\ e.at = c.at /\ e.have = c.have
        /\ e.status = "over" /\ e.tokens = tokens
    BY <1>1, <1>9, <2>1, <2>3
  <2> HIDE DEF tokens
  <2> QED
    BY <1>5, <1>11, <2>2, <2>4, ScanEnds
<1>12. CASE split # NeedMore /\ ReturnsLine(r, m, split)
  <2>1. PICK final \in BOOLEAN :
          split = Result(LineSpan(r), TextLength(r), final)
    BY <1>12 DEF ReturnsLine
  <2>2. split.advance = LineSpan(r) /\ split.token = TextLength(r)
    BY <2>1 DEF Result
  <2>3. TextLength(r) \in Nat /\ LineSpan(r) \in Nat
    BY <1>12, NextStart DEF ReturnsLine, ScanRight
  <2>4. tokens = Append(c.tokens, [at |-> c.at, len |-> TextLength(r)])
    BY <2>2, <2>3 DEF TokenLength, NoToken
  <2>5. e.at = c.at + LineSpan(r) /\ e.have = c.have /\ e.tokens = tokens
        /\ e.status = (IF split.final THEN "over" ELSE c.status)
    BY <1>6, <1>9, <1>12, <2>2
  <2>6. e.status = "over" => IsEnd(Rest(d, e.at))
    <3>1. LineSpan(r) \in 0..(Len(d) - c.at)
      <4>1. LineSpan(r) <= m
        BY <1>12 DEF ReturnsLine
      <4>2. m \in 0..Len(r)
        BY <1>3
      <4> HIDE DEF r, m
      <4> QED
        BY ONLY <1>1, <1>2, <2>3, <4>1, <4>2
    <3>2. Rest(r, LineSpan(r)) = Rest(d, c.at + LineSpan(r))
      BY <1>1, <3>1, RestOfRest
    <3> QED
      BY <1>5, <1>12, <2>5, <3>2 DEF ReturnsLine
  <2> HIDE DEF tokens
  <2> QED
    BY <1>5, <1>12, <2>4, <2>5, <2>6, ScanTakes DEF ReturnsLine
<1> QED
  BY <1>8, <1>10, <1>11, <1>12

\* The last state of a scan is right, as is every one before it.
LEMMA ScanIsRight ==
  ASSUME NEW scan \in Scans
  PROVE  IsRight(scan)
<1> DEFINE d == scan.input
           limit == scan.limit
           h == scan.states
           n == Len(h)
           W == {k \in 1..n : ~ ScanRight(d, limit, h[k])}
<1>1. /\ d \in Seq(Bytes) /\ limit \in Nat /\ 3 <= limit /\ n \in Nat \ {0}
      /\ h[1] = Start /\ h[n].status \in {"over", "too long"}
      /\ \A k \in 1..(n - 1) : h[k + 1] \in ScanSteps(d, limit, h[k])
  BY ScansAssumption DEF IsScan
<1>0. n \in Nat \ {0}
  BY <1>1
<1> HIDE DEF d, limit, h, n
<1>2. W = {}
  <2> SUFFICES ASSUME W # {} PROVE FALSE
    OBVIOUS
  <2>1. W \subseteq Nat
    BY ONLY <1>0
  <2>2. PICK k \in W : \A j \in W : ~ (<<j, k>> \in OpToRel(<, Nat))
    BY <2>1, NatLessThanWellFounded, WFMin
  <2>3. \A j \in W : ~ (j < k)
    BY <2>1, <2>2 DEF OpToRel
  <2>4. k # 1
    BY <1>1, ScanStarts
  <2>5. k - 1 \in 1..(n - 1) /\ k - 1 \in 1..n /\ k - 1 + 1 = k /\ k - 1 < k
    <3>1. k \in 1..n
      OBVIOUS
    <3> QED
      BY ONLY <1>0, <2>4, <3>1
  <2>6. ScanRight(d, limit, h[k - 1])
    BY <2>3, <2>5
  <2>7. h[k] \in ScanSteps(d, limit, h[k - 1])
    BY <1>1, <2>5
  <2> QED
    BY <1>1, <2>6, <2>7, ScanGoesOn
<1>3. ScanRight(d, limit, h[n])
  <2>1. n \in 1..n
    BY ONLY <1>0
  <2> QED
    BY <1>2, <2>1
<1>4. Returned(scan) = h[n]
  BY DEF Returned, h, n
<1>5. CASE h[n].status = "over"
  BY <1>3, <1>4, <1>5 DEF ScanRight, IsRight, d
<1>6. CASE h[n].status = "too long"
  <2>1. AreLinesAt(h[n].tokens, d, {j \in StartsBeforeEnd(d) : j < h[n].at})
    <3>1. StartsBelow(d, h[n].at) = {j \in StartsBeforeEnd(d) : j < h[n].at}
      BY <1>1, <1>3, BelowIsBefore DEF ScanRight
    <3>2. AreLinesAt(h[n].tokens, d, StartsBelow(d, h[n].at))
      BY <1>3, <1>6 DEF ScanRight, AreLinesBelow
    <3> QED
      BY <3>1, <3>2
  <2>2. h[n].at \in StartsBeforeEnd(d) /\ IsLong(d, limit, h[n].at)
    BY <1>3, <1>6 DEF ScanRight
  <2>3. AreLinesBeforeLong(h[n].tokens, d, limit)
    BY <2>1, <2>2 DEF AreLinesBeforeLong
  <2> QED
    BY <1>4, <1>6, <2>3 DEF IsRight, d, limit
<1> QED
  BY <1>1, <1>5, <1>6

\* For every scan of every input, with every buffer: what it returns are the
\* lines in front of the first end marker, but for an empty token that may
\* stand for the marker, or those in front of a line that fills the buffer,
\* wherever reads end.
THEOREM ScansAgree == Spec => []ScannerReturnsLines
<1>1. WrongScans = {}
  BY ScanIsRight DEF WrongScans
<1>2. ScannerReturnsLines
  BY <1>1 DEF ScannerReturnsLines
<1> QED
  BY <1>2, PTL
=============================================================================
