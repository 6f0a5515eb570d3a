----------------------------- MODULE ScanLines -----------------------------
(***************************************************************************)
(* upload.go: matchInlineEOF and scanLinesWithEOF, the split function that *)
(* the uploader's bufio.Scanner calls with the bytes it has read so far.   *)
(* A byte is one of the three that the functions look at, or "text".       *)
(***************************************************************************)
EXTENDS Integers, Sequences

CONSTANT Scans   \* scans of inputs, whoever wrote them: see IsScan

Bytes == {"text", "nul", "cr", "nl"}

\* inlineEOFLine, "followed by a line feed or a carriage return followed by
\* a line feed".
EndMarkers == {<<"nul", "nl">>, <<"nul", "cr", "nl">>}

StartsWith(d, s) == Len(s) <= Len(d) /\ SubSeq(d, 1, Len(s)) = s

\* matchInlineEOF(data) > 0
IsEnd(d) == \E m \in EndMarkers : StartsWith(d, m)

\* Mutant: nothing at all may still become an end marker.
MayBeEndOfNothing(d) == \E m \in EndMarkers : d # m /\ StartsWith(m, d)

\* matchInlineEOF(data) < 0: more data is needed to tell.
MayBeEnd(d) == d # <<>> /\ \E m \in EndMarkers : d # m /\ StartsWith(m, d)

\* What a split function returns: the bytes to skip, the length of the token
\* at their start (or no token), and whether this was bufio.ErrFinalToken.
NoToken == -1
Result(advance, token, final) ==
  [advance |-> advance, token |-> token, final |-> final]
NeedMore == Result(0, NoToken, FALSE)

\* bufio.ScanLines takes one carriage return off the end of a line.
DropCR(d, n) == IF n > 0 /\ d[n] = "cr" THEN n - 1 ELSE n

FirstNewline(d) ==
  CHOOSE k \in 1..Len(d) : d[k] = "nl" /\ \A j \in 1..(k - 1) : d[j] # "nl"

\* bufio.ScanLines, the default split function.
PlainSplit(d, atEOF) ==
  IF \E k \in 1..Len(d) : d[k] = "nl"
  THEN Result(FirstNewline(d), DropCR(d, FirstNewline(d) - 1), FALSE)
  ELSE IF atEOF /\ d # <<>> THEN Result(Len(d), DropCR(d, Len(d)), FALSE)
  ELSE NeedMore

Rest(d, n) == SubSeq(d, n + 1, Len(d))

\* Mutant: an end marker is recognised by its first byte.
SplitAtNul(d, atEOF) ==
  LET line == PlainSplit(d, atEOF)
      rest == Rest(d, line.advance)
      nul(e) == e # <<>> /\ e[1] = "nul" IN
  IF nul(d) THEN Result(0, NoToken, TRUE)
  ELSE IF nul(rest) THEN [line EXCEPT !.final = TRUE]
  ELSE line

\* scanLinesWithEOF: a line that the end marker follows is the last one.
scanLinesWithEOF(d, atEOF) ==
  LET line == PlainSplit(d, atEOF)
      rest == Rest(d, line.advance) IN
  IF IsEnd(d) THEN Result(0, NoToken, TRUE)
  ELSE IF MayBeEnd(d) /\ ~ atEOF THEN NeedMore
  ELSE IF IsEnd(rest) THEN [line EXCEPT !.final = TRUE]
  ELSE IF MayBeEnd(rest) /\ ~ atEOF THEN NeedMore
  ELSE line

\* What Scan of Go 1.21 (go.mod:3) makes of a final result that has no token:
\* it returns the empty one, as TestScanLinesWithEOF expects for a lone end
\* marker (upload_test.go:303).  One that is found right behind a line, in
\* the same buffer, comes with the token of that line instead.
TokenLength(split) ==
  IF split.final /\ split.token = NoToken THEN 0 ELSE split.token

-----------------------------------------------------------------------------
(* A scan: what has been read and returned after each call of the split    *)
(* function.  The input may come from `send` or be any file or pipe.       *)

Start == [at |-> 0, have |-> 0, status |-> "reading", tokens |-> <<>>]

\* bufio.Scanner: the states that may follow state c of a scan of d with a
\* buffer of limit bytes.  If the split function needs more, a read returns
\* some of it that fits, or finds the end; if the buffer is full of what the
\* split function wants more of, that is bufio.ErrTooLong.
ScanSteps(d, limit, c) ==
  LET split == scanLinesWithEOF(SubSeq(d, c.at + 1, c.have), c.status = "eof")
      tokens == IF TokenLength(split) = NoToken THEN c.tokens
                ELSE Append(c.tokens, [at |-> c.at, len |-> TokenLength(split)])
      To(have, status) == [at |-> c.at + split.advance, have |-> have,
                           status |-> status, tokens |-> tokens] IN
  IF c.status \in {"over", "too long"} THEN {}
  ELSE IF split # NeedMore
  THEN {To(c.have, IF split.final THEN "over" ELSE c.status)}
  ELSE IF c.status = "eof" THEN {To(c.have, "over")}
  ELSE IF c.have - c.at = limit THEN {To(c.have, "too long")}
  ELSE {To(n, "reading") : n \in {k \in (c.have + 1)..Len(d) :
                                    k - c.at <= limit}} \cup
       {To(n, "eof") : n \in {c.have} \cap {Len(d)}}

\* The states of a scan of the whole input, from the first to the last.
IsScan(scan) ==
  LET n == Len(scan.states) IN
  /\ scan.input \in Seq(Bytes)
  /\ scan.limit \in Nat /\ 3 <= scan.limit
  /\ n \in Nat \ {0}
  /\ scan.states[1] = Start
  /\ \A k \in 1..(n - 1) :
       scan.states[k + 1] \in ScanSteps(scan.input, scan.limit, scan.states[k])
  /\ scan.states[n].status \in {"over", "too long"}

ASSUME ScansAssumption == \A scan \in Scans : IsScan(scan)

\* The first line of d, which is not empty: its bytes, with the newline if
\* there is one, and those of its text.
HasNewline(d) == \E k \in 1..Len(d) : d[k] = "nl"
LineSpan(d) == IF HasNewline(d) THEN FirstNewline(d) ELSE Len(d)
TextLength(d) ==
  DropCR(d, IF HasNewline(d) THEN FirstNewline(d) - 1 ELSE Len(d))

\* How many bytes precede each line of d, ...
LineStarts(d) == {k \in 0..(Len(d) - 1) : k = 0 \/ d[k] = "nl"}

\* ... up to the first that is an end marker.
StartsBeforeEnd(d) ==
  {k \in LineStarts(d) : \A j \in LineStarts(d) : j <= k => ~ IsEnd(Rest(d, j))}

\* The tokens t are lines of d, one after another, each with its own text:
\* those that begin at the places p.
AreLinesAt(t, d, p) ==
  /\ {t[n].at : n \in 1..Len(t)} = p
  /\ \A n \in 1..Len(t) : t[n].len = TextLength(Rest(d, t[n].at))
  /\ \A n \in 1..(Len(t) - 1) : t[n].at < t[n + 1].at

\* The lines in front of the first end marker, and behind them possibly the
\* empty token that stands for the marker.
AreLinesBeforeEnd(t, d) ==
  \/ AreLinesAt(t, d, StartsBeforeEnd(d))
  \/ /\ t # <<>>
     /\ AreLinesAt(SubSeq(t, 1, Len(t) - 1), d, StartsBeforeEnd(d))
     /\ t[Len(t)].len = 0 /\ IsEnd(Rest(d, t[Len(t)].at))

\* A line that, with the part of an end marker that may follow it, fills a
\* buffer of limit bytes.
IsLong(d, limit, at) == LineSpan(Rest(d, at)) + 2 >= limit

\* The lines in front of one that is too long for the buffer.
AreLinesBeforeLong(t, d, limit) ==
  \E at \in StartsBeforeEnd(d) :
    /\ IsLong(d, limit, at)
    /\ AreLinesAt(t, d, {j \in StartsBeforeEnd(d) : j < at})

\* Scans that return something else, or fail for no such reason.
Returned(scan) == scan.states[Len(scan.states)]
IsRight(scan) ==
  IF Returned(scan).status = "over"
  THEN AreLinesBeforeEnd(Returned(scan).tokens, scan.input)
  ELSE AreLinesBeforeLong(Returned(scan).tokens, scan.input, scan.limit)

WrongScans == {scan \in Scans : ~ IsRight(scan)}
=============================================================================
