--------------------------- MODULE MessageBuffer ----------------------------
(***************************************************************************)
(* What a channel promises to a plugin: its messages are taken in the      *)
(* order they were sent, each once; the newest ones are kept, up to a      *)
(* capacity, until they are taken; an older one that must give way is      *)
(* refused.  When they are taken, and by whom, is not visible here.        *)
(***************************************************************************)
EXTENDS Integers, Sequences

CONSTANTS Capacities   \* the sizes a buffer may be given

VARIABLES
  sent,       \* number of messages sent; the next one's name
  buffer,     \* those that wait, oldest first
  size,       \* how many may wait
  taken,      \* those taken, in order
  refused     \* those answered with null

bufferVars == <<sent, buffer, size, taken, refused>>

BufferInit ==
  /\ sent = 0 /\ buffer = <<>> /\ size = 1 /\ taken = <<>> /\ refused = {}

\* The oldest messages give way until no more than limit remain.
Overflow(limit) == IF Len(buffer) > limit THEN Len(buffer) - limit ELSE 0
Newest(limit) == SubSeq(buffer, Overflow(limit) + 1, Len(buffer))
Oldest(limit) == {buffer[i] : i \in 1..Overflow(limit)}

\* A message overtakes none that waits.
TakeAtOnce ==
  /\ buffer = <<>>
  /\ sent' = sent + 1
  /\ taken' = Append(taken, sent)
  /\ UNCHANGED <<buffer, size, refused>>

Keep ==
  /\ size > 0
  /\ sent' = sent + 1
  /\ buffer' = Append(Newest(size - 1), sent)
  /\ refused' = refused \cup Oldest(size - 1)
  /\ UNCHANGED <<size, taken>>

\* A channel of size 0 ignores what it cannot hand over.
Ignore ==
  /\ size = 0
  /\ sent' = sent + 1
  /\ UNCHANGED <<buffer, size, taken, refused>>

Take ==
  /\ buffer # <<>>
  /\ taken' = Append(taken, Head(buffer))
  /\ buffer' = Tail(buffer)
  /\ UNCHANGED <<sent, size, refused>>

Resize(n) ==
  /\ size' = n
  /\ buffer' = Newest(n)
  /\ refused' = refused \cup Oldest(n)
  /\ UNCHANGED <<sent, taken>>

BufferNext ==
  TakeAtOnce \/ Keep \/ Ignore \/ Take \/ \E n \in Capacities : Resize(n)

BufferSpec == BufferInit /\ [][BufferNext]_bufferVars
=============================================================================
