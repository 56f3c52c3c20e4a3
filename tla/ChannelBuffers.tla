--------------------------- MODULE ChannelBuffers ---------------------------
(***************************************************************************)
(* One channel of dart:ui's ChannelBuffers: a bounded queue of platform    *)
(* messages, its listener, and the microtasks that drain the queue when a  *)
(* listener is set.  Dart code runs to completion, but a listener is Dart  *)
(* code too: it may push, resize, set or clear listeners before it returns *)
(* to the drain that called it.  Listeners return normally: the framework  *)
(* sets only asynchronous ones (_DefaultBinaryMessenger.setMessageHandler).*)
(***************************************************************************)
EXTENDS Integers, Sequences, FiniteSets

CONSTANTS
  Capacities,    \* the sizes a plugin gives to its channel
  MaxMessages    \* bound: messages pushed

ASSUME ChannelAssumption == Capacities \subseteq Nat /\ MaxMessages \in Nat

VARIABLES
  pushed,      \* number of messages pushed; a message is named by its number
  queue,       \* _queue
  capacity,    \* _capacity
  listener,    \* "set" when _channelCallbackRecord is not null
  draining,    \* _draining, "yes" or "no"
  microtasks,  \* scheduled calls of _drainStep
  inListener,  \* calls of the listener that a _drainStep waits for
  oldDrain,    \* "waits" while the deprecated drain awaits its callback
  handed,      \* messages given to a listener, in order
  refused,     \* messages answered with null when they were discarded
  ignored      \* messages discarded without an answer

listenVars == <<listener, draining, microtasks, inListener>>
vars == <<pushed, queue, capacity, listenVars, oldDrain, handed, refused,
          ignored>>

Buffer == INSTANCE MessageBuffer WITH
  sent <- pushed, buffer <- queue, size <- capacity, taken <- handed

Init ==
  /\ pushed = 0 /\ queue = <<>> /\ capacity = 1
  /\ listener = "none" /\ draining = "no"
  /\ microtasks = 0 /\ inListener = 0 /\ oldDrain = "idle"
  /\ handed = <<>> /\ refused = {} /\ ignored = {}

\* _dropOverflowMessages: the oldest messages are answered with null; and one
\* that does not answer.
Excess(limit) == IF Len(queue) > limit THEN Len(queue) - limit ELSE 0
Silently(limit) == {}
Discarded(limit) == {queue[i] : i \in 1..Excess(limit)}

DropOverflowMessages(limit) ==
  SubSeq(queue, Excess(limit) + 1, Len(queue))

\* A message goes to the listener at once unless a drain is under way; and one
\* that overtakes the drain.
Overtakes == listener = "set"
GoesDirectly == listener = "set" /\ draining = "no"

\* What push leaves in a full queue before it adds its message; and one
\* message too many.
Full == capacity
RoomForOne == capacity - 1

Push ==
  /\ pushed < MaxMessages
  /\ pushed' = pushed + 1
  /\ \/ /\ GoesDirectly
        /\ handed' = Append(handed, pushed)
        /\ UNCHANGED <<queue, refused, ignored>>
     \/ /\ ~GoesDirectly /\ capacity <= 0
        /\ ignored' = ignored \cup {pushed}
        /\ UNCHANGED <<queue, handed, refused>>
     \/ /\ ~GoesDirectly /\ capacity > 0
        /\ queue' = Append(DropOverflowMessages(RoomForOne), pushed)
        /\ refused' = refused \cup Discarded(RoomForOne)
        /\ UNCHANGED <<handed, ignored>>
  /\ UNCHANGED <<capacity, listenVars, oldDrain>>

Resize(newSize) ==
  /\ capacity' = newSize
  /\ queue' = DropOverflowMessages(newSize)
  /\ refused' = refused \cup Discarded(newSize)
  /\ UNCHANGED <<pushed, listenVars, oldDrain, handed, ignored>>

Pop ==
  /\ queue # <<>>
  /\ queue' = Tail(queue)
  /\ handed' = Append(handed, Head(queue))
  /\ UNCHANGED <<pushed, capacity, refused, ignored>>

\* setListener starts a drain if there was no listener and none is under way;
\* and one that forgets a drain that has not noticed that it was cleared.
NewListener == listener = "none"
NeedsDrain == listener = "none" /\ draining = "no"

SetListener ==
  /\ listener' = "set"
  /\ \/ /\ NeedsDrain
        /\ draining' = "yes"
        /\ microtasks' = microtasks + 1
     \/ ~NeedsDrain /\ UNCHANGED <<draining, microtasks>>
  /\ UNCHANGED <<pushed, queue, capacity, inListener, oldDrain, handed,
                 refused, ignored>>

ClearListener ==
  /\ listener' = "none"
  /\ UNCHANGED <<pushed, queue, capacity, draining, microtasks, inListener,
                 oldDrain, handed, refused, ignored>>

\* _drainStep goes on while there are messages and a listener.
MoreToDrain == queue # <<>> /\ listener = "set"

\* A microtask runs when the Dart code that was running has returned.
DrainStep ==
  /\ microtasks > 0 /\ inListener = 0
  /\ microtasks' = microtasks - 1
  /\ \/ /\ MoreToDrain
        /\ Pop
        /\ inListener' = inListener + 1
        /\ UNCHANGED draining
     \/ /\ ~MoreToDrain
        /\ draining' = "no"
        /\ UNCHANGED <<pushed, queue, capacity, inListener, handed, refused,
                       ignored>>
  /\ UNCHANGED <<listener, oldDrain>>

\* The next step is scheduled when the listener has returned; and a drain that
\* handles one message.
Once(n) == n
ScheduleMicrotask(n) == n + 1

ListenerReturns ==
  /\ inListener > 0
  /\ inListener' = inListener - 1
  /\ microtasks' = ScheduleMicrotask(microtasks)
  /\ UNCHANGED <<pushed, queue, capacity, listener, draining, oldDrain, handed,
                 refused, ignored>>

\* The deprecated drain hands the queue to a callback of its own, and awaits
\* each of its answers.
Drain ==
  /\ \/ Pop /\ oldDrain' = "waits"
     \/ /\ queue = <<>>
        /\ oldDrain' = "idle"
        /\ UNCHANGED <<pushed, queue, capacity, handed, refused, ignored>>
  /\ UNCHANGED listenVars

CallbackAnswers == oldDrain = "waits" /\ inListener = 0 /\ Drain

Next ==
  \/ Push
  \/ \E n \in Capacities : Resize(n)
  \/ SetListener \/ ClearListener
  \/ DrainStep \/ ListenerReturns
  \/ oldDrain = "idle" /\ Drain
  \/ CallbackAnswers

Spec == Init /\ [][Next]_vars

\* Microtasks run, and listeners return.
FairSpec == Spec /\ WF_vars(DrainStep) /\ WF_vars(ListenerReturns)

-----------------------------------------------------------------------------
(* Properties.                                                             *)

Messages == 0..(pushed - 1)
Elements(s) == {s[i] : i \in 1..Len(s)}

\* Every variable has its type, and the queue is never longer than the
\* capacity, however it was changed (_Channel.length).
TypeOK ==
  /\ pushed \in Nat /\ capacity \in Nat
  /\ queue \in Seq(Nat) /\ Len(queue) <= capacity
  /\ handed \in Seq(Nat)
  /\ listener \in {"none", "set"} /\ draining \in {"no", "yes"}
  /\ microtasks \in Nat /\ inListener \in Nat
  /\ oldDrain \in {"idle", "waits"}
  /\ refused \subseteq Nat /\ ignored \subseteq Nat

\* The assertion of push: a listener that is called at once leaves no older
\* message behind.
NoBacklog == listener = "set" /\ draining = "no" => queue = <<>>

\* _draining says exactly that a _drainStep is scheduled or will be, and there
\* is never a second one, however listeners are set, cleared and set again.
OneDrain == microtasks + inListener = IF draining = "yes" THEN 1 ELSE 0

Increasing(s) == \A i, j \in 1..Len(s) : i < j => s[i] < s[j]

\* Messages are handled in the order they came.
InOrder ==
  /\ Increasing(handed)
  /\ \A i \in 1..Len(handed), j \in 1..Len(queue) : handed[i] < queue[j]

\* Every message waits, was handled, was refused with an answer, or came when
\* the channel had no room at all: none is lost in an overflow or a resize, and
\* none is answered twice.
NothingLost ==
  /\ Elements(queue) \cup Elements(handed) \cup refused \cup ignored = Messages
  /\ Len(queue) + Len(handed) + Cardinality(refused) + Cardinality(ignored)
       = pushed

\* The channel, with its listeners and drains, is the buffer of MessageBuffer.
ImplementsMessageBuffer == Buffer!BufferSpec

\* What waits when a listener is set is handled, unless it is cleared.
Drained ==
  queue # <<>> /\ listener = "set" ~> queue = <<>> \/ listener = "none"
=============================================================================
