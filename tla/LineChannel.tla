---------------------------- MODULE LineChannel ----------------------------
(***************************************************************************)
(* What `nixcached send` and `nixcached upload` promise each other over a  *)
(* pipe, whatever the pipe does with bytes: lines travel whole, each at    *)
(* most once, those of one sender in the order of its arguments; the       *)
(* uploader receives them in the order in which they were sent, and stops  *)
(* at an end marker, when nothing is left, or when it is told to.          *)
(***************************************************************************)
EXTENDS Naturals, Sequences

CONSTANTS
  Lines,    \* everything that may be sent: records with a sender and a number
  EndLines  \* the lines that tell the uploader to stop

VARIABLES
  sent,       \* the lines sent so far
  delivered,  \* the lines that the uploader has received
  stopped,    \* the uploader takes no more
  signalled   \* it was told to give up

channelVars == <<sent, delivered, stopped, signalled>>

Init ==
  /\ sent = <<>> /\ delivered = <<>>
  /\ stopped = FALSE /\ signalled = FALSE

\* Lines of one sender, one after the other, none of them sent before.
Sendable(batch) ==
  /\ batch # <<>>
  /\ \A k \in 1..Len(batch) :
       /\ batch[k] \in Lines
       /\ batch[k].from = batch[1].from
       /\ k > 1 => batch[k - 1].arg < batch[k].arg
  /\ \A k \in 1..Len(sent) :
       sent[k].from = batch[1].from => sent[k].arg < batch[1].arg

Send ==
  LET batch == SubSeq(sent', Len(sent) + 1, Len(sent')) IN
  /\ sent' = sent \o batch
  /\ Sendable(batch)
  /\ UNCHANGED <<delivered, stopped, signalled>>

Pending(n) == Len(delivered) + n <= Len(sent)
EndsAt(n) == Pending(n) /\ sent[Len(delivered) + n] \in EndLines

\* The next line is received; an end marker right behind it may be seen too.
Deliver ==
  /\ ~ stopped
  /\ Pending(1) /\ ~ EndsAt(1)
  /\ delivered' = Append(delivered, sent[Len(delivered) + 1])
  /\ (stopped' = TRUE /\ EndsAt(2)) \/ UNCHANGED stopped
  /\ UNCHANGED <<sent, signalled>>

Stop ==
  /\ ~ stopped
  /\ EndsAt(1) \/ ~ Pending(1) \/ signalled
  /\ stopped' = TRUE
  /\ UNCHANGED <<sent, delivered, signalled>>

Signal ==
  /\ ~ signalled
  /\ signalled' = TRUE
  /\ UNCHANGED <<sent, delivered, stopped>>

Next == Send \/ Deliver \/ Stop \/ Signal

Spec == Init /\ [][Next]_channelVars
=============================================================================
