----------------------------- MODULE MCSendPipe -----------------------------
(***************************************************************************)
(* A small instance of SendPipe.  A line of length n takes n + 1 bytes.    *)
(***************************************************************************)
EXTENDS SendPipe, TLC

CONSTANTS s1, s2

Path(n) == [len |-> n, newline |-> FALSE]

\* s1 needs two batches and finishes; s2 has a path that cannot be sent.
MCArgs == (s1 :> <<Path(2)>>) @@
          (s2 :> <<Path(1), [len |-> 1, newline |-> TRUE], Path(1)>>)

-----------------------------------------------------------------------------
(* Every scan of every short input.                                        *)

CONSTANTS
  InputBytes,   \* how long the inputs are
  BufferSizes   \* and what buffers the scanners have

Inputs == UNION {[1..n -> Bytes] : n \in 0..InputBytes}

\* The scans of d with a buffer of size n that begin with the states h.
RECURSIVE ScansOf(_, _, _)
ScansOf(d, n, h) ==
  IF ScanSteps(d, n, h[Len(h)]) = {}
  THEN {[input |-> d, limit |-> n, states |-> h]}
  ELSE UNION {ScansOf(d, n, Append(h, e)) : e \in ScanSteps(d, n, h[Len(h)])}

MCScans == UNION {ScansOf(d, n, <<Start>>) : d \in Inputs, n \in BufferSizes}
=============================================================================
