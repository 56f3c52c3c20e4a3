------------------------ MODULE ChannelBuffersProofs -------------------------
(***************************************************************************)
(* Proofs about ChannelBuffers: there is one drain at most, a listener     *)
(* that is called at once leaves no backlog, messages keep their order, no *)
(* message is lost or answered twice, and the channel implements           *)
(* MessageBuffer.                                                          *)
(***************************************************************************)
EXTENDS ChannelBuffers, SequenceTheorems, FiniteSetTheorems, TLAPS

\* InOrder, with the order of the queue itself and the next name.
Sorted ==
  /\ InOrder
  /\ Increasing(queue)
  /\ \A i \in 1..Len(handed) : handed[i] < pushed
  /\ \A i \in 1..Len(queue) : queue[i] < pushed

\* The inductive invariant.
IInv == TypeOK /\ NoBacklog /\ OneDrain /\ Sorted

-----------------------------------------------------------------------------
(* What the operators on the queue return.                                 *)

\* A discard keeps the newest messages.
LEMMA DropKeepsNewest ==
  ASSUME TypeOK, NEW limit \in Nat
  PROVE  /\ DropOverflowMessages(limit) \in Seq(Nat)
         /\ Len(DropOverflowMessages(limit)) <= limit
         /\ Len(DropOverflowMessages(limit)) = Len(queue) - Excess(limit)
         /\ Excess(limit) \in 0..Len(queue)
         /\ \A i \in 1..Len(DropOverflowMessages(limit)) :
              DropOverflowMessages(limit)[i] = queue[i + Excess(limit)]
         /\ Discarded(limit) \subseteq Nat
<1>1. Len(queue) \in Nat
  BY DEF TypeOK
<1>2. Excess(limit) \in 0..Len(queue) /\ Len(queue) - Excess(limit) <= limit
  BY <1>1 DEF Excess
<1> DEFINE m == Excess(limit) + 1
           n == Len(queue)
<1>3. m \in Int /\ n \in Int /\ \A i \in m..n : queue[i] \in Nat
  BY <1>1, <1>2 DEF TypeOK
<1>4. /\ SubSeq(queue, m, n) \in Seq(Nat)
      /\ Len(SubSeq(queue, m, n)) = IF m <= n THEN n - m + 1 ELSE 0
      /\ \A i \in 1..(n - m + 1) : SubSeq(queue, m, n)[i] = queue[m + i - 1]
  BY <1>3, SubSeqProperties
<1>5. Len(DropOverflowMessages(limit)) = Len(queue) - Excess(limit)
  BY <1>1, <1>2, <1>4 DEF DropOverflowMessages
<1>6. \A i \in 1..Len(DropOverflowMessages(limit)) :
        DropOverflowMessages(limit)[i] = queue[i + Excess(limit)]
  BY <1>1, <1>2, <1>4, <1>5 DEF DropOverflowMessages
<1>7. Discarded(limit) \subseteq Nat
  BY <1>1, <1>2 DEF Discarded, TypeOK
<1> QED
  BY <1>2, <1>4, <1>5, <1>6, <1>7 DEF DropOverflowMessages

LEMMA InitInv == Init => IInv
<1> SUFFICES ASSUME Init PROVE IInv
  OBVIOUS
<1>1. Len(queue) = 0 /\ Len(handed) = 0
  BY DEF Init
<1>2. TypeOK
  BY <1>1 DEF Init, TypeOK
<1>3. NoBacklog /\ OneDrain
  BY DEF Init, NoBacklog, OneDrain
<1>4. Sorted
  BY <1>1 DEF Sorted, InOrder, Increasing
<1> QED
  BY <1>2, <1>3, <1>4 DEF IInv

-----------------------------------------------------------------------------
(* Ways in which the messages change.                                      *)

\* A message that is newer than the others goes to the end.
LEMMA AppendIncreases ==
  ASSUME NEW s \in Seq(Nat), NEW m \in Nat, Increasing(s),
         \A i \in 1..Len(s) : s[i] < m
  PROVE  /\ Append(s, m) \in Seq(Nat) /\ Len(Append(s, m)) = Len(s) + 1
         /\ Increasing(Append(s, m))
         /\ \A i \in 1..Len(Append(s, m)) :
              Append(s, m)[i] = m \/ \E k \in 1..Len(s) : Append(s, m)[i] = s[k]
<1> DEFINE t == Append(s, m)
<1>1. /\ t \in Seq(Nat) /\ Len(t) = Len(s) + 1 /\ Len(s) \in Nat
      /\ \A i \in 1..Len(s) : t[i] = s[i]
      /\ t[Len(s) + 1] = m
  BY AppendProperties
<1> HIDE DEF t
<1>2. ASSUME NEW i \in 1..Len(t), NEW j \in 1..Len(t), i < j
      PROVE  t[i] < t[j]
  <2>1. i \in 1..Len(s) /\ t[i] = s[i]
    BY <1>1, <1>2, SMTT(30)
  <2>2. CASE j \in 1..Len(s)
    BY <1>1, <1>2, <2>1, <2>2 DEF Increasing
  <2>3. CASE j = Len(s) + 1
    BY <1>1, <2>1, <2>3
  <2> QED
    BY <1>1, <2>2, <2>3
<1>3. ASSUME NEW i \in 1..Len(t)
      PROVE  t[i] = m \/ \E k \in 1..Len(s) : t[i] = s[k]
  <2>1. CASE i = Len(s) + 1
    BY <1>1, <2>1
  <2>2. CASE i \in 1..Len(s)
    <3>1. t[i] = s[i]
      BY <1>1, <2>2
    <3> QED
      BY <2>2, <3>1
  <2> QED
    BY <1>1, <2>1, <2>2
<1>4. Increasing(t)
  BY <1>2 DEF Increasing
<1> QED
  BY <1>1, <1>3, <1>4 DEF t

\* The newest message goes to the listener past an empty queue.
LEMMA DirectKeeps ==
  ASSUME TypeOK, Sorted, queue = <<>>, queue' = queue, pushed' = pushed + 1,
         handed' = Append(handed, pushed)
  PROVE  Sorted' /\ handed' \in Seq(Nat)
<1>1. pushed \in Nat /\ handed \in Seq(Nat)
  BY DEF TypeOK
<1>2. /\ handed' \in Seq(Nat) /\ Increasing(handed')
      /\ \A i \in 1..Len(handed') :
           handed'[i] = pushed \/ \E k \in 1..Len(handed) : handed'[i] = handed[k]
  BY <1>1, AppendIncreases DEF Sorted, InOrder
<1>3. Len(queue') = 0
  OBVIOUS
<1>4. \A i \in 1..Len(handed) : handed[i] \in Nat /\ handed[i] < pushed
  BY <1>1 DEF Sorted
<1>5. \A i \in 1..Len(handed') : handed'[i] < pushed'
  BY <1>1, <1>2, <1>4
<1> QED
  BY <1>2, <1>3, <1>5 DEF Sorted, InOrder, Increasing

\* The oldest message that waits is handed over.
LEMMA PopKeeps ==
  ASSUME TypeOK, Sorted, Pop
  PROVE  /\ Sorted'
         /\ queue' \in Seq(Nat) /\ Len(queue') <= capacity
         /\ handed' \in Seq(Nat)
<1>1. /\ pushed \in Nat /\ handed \in Seq(Nat) /\ Len(handed) \in Nat
      /\ queue \in Seq(Nat) /\ Len(queue) \in Nat /\ queue # <<>>
      /\ capacity \in Nat /\ Len(queue) <= capacity /\ pushed' = pushed
  BY DEF TypeOK, Pop
<1>2. /\ queue' \in Seq(Nat) /\ Len(queue') = Len(queue) - 1
      /\ \A i \in 1..Len(queue') : queue'[i] = queue[i + 1]
  BY <1>1, HeadTailProperties DEF Pop
<1>3. Head(queue) = queue[1] /\ queue[1] \in Nat /\ 1 \in 1..Len(queue)
  BY <1>1, HeadTailProperties
<1>4. \A i \in 1..Len(handed) : handed[i] < queue[1]
  BY <1>3 DEF Sorted, InOrder
<1>5. /\ handed' \in Seq(Nat) /\ Increasing(handed')
      /\ \A i \in 1..Len(handed') :
           handed'[i] = queue[1] \/ \E k \in 1..Len(handed) : handed'[i] = handed[k]
  <2>1. handed' = Append(handed, queue[1]) /\ Increasing(handed)
    BY <1>3 DEF Pop, Sorted, InOrder
  <2> QED
    BY <1>1, <1>3, <1>4, <2>1, AppendIncreases
<1>6. ASSUME NEW j \in 1..Len(queue')
      PROVE  j + 1 \in 1..Len(queue) /\ queue[1] < queue'[j]
  <2>1. j \in Nat /\ j >= 1 /\ j + 1 \in 1..Len(queue) /\ 1 < j + 1
    BY <1>1, <1>2
  <2>2. queue'[j] = queue[j + 1]
    BY <1>2
  <2>3. queue[1] < queue[j + 1]
    BY <1>3, <2>1 DEF Sorted, Increasing
  <2> QED
    BY <2>1, <2>2, <2>3
<1>7. \A i \in 1..Len(handed'), j \in 1..Len(queue') : handed'[i] < queue'[j]
  BY <1>2, <1>5, <1>6 DEF Sorted, InOrder
<1>8. Increasing(queue')
  <2>1. SUFFICES ASSUME NEW i \in 1..Len(queue'), NEW j \in 1..Len(queue'), i < j
                 PROVE  queue'[i] < queue'[j]
    BY DEF Increasing
  <2>2. i + 1 \in 1..Len(queue) /\ j + 1 \in 1..Len(queue) /\ i + 1 < j + 1
    BY <1>6, <2>1
  <2> QED
    BY <1>2, <2>1, <2>2 DEF Sorted, Increasing
<1>9. \A i \in 1..Len(handed') : handed'[i] < pushed'
  BY <1>1, <1>3, <1>5 DEF Sorted
<1>10. \A i \in 1..Len(queue') : queue'[i] < pushed'
  BY <1>1, <1>2, <1>6 DEF Sorted
<1>11. Len(queue') <= capacity
  BY <1>1, <1>2
<1> QED
  BY <1>2, <1>5, <1>7, <1>8, <1>9, <1>10, <1>11 DEF Sorted, InOrder

\* The oldest messages are discarded; what is left is as before.
LEMMA DropSorted ==
  ASSUME TypeOK, Sorted, NEW limit \in Nat
  PROVE  LET d == DropOverflowMessages(limit)
         IN  /\ Increasing(d)
             /\ \A i \in 1..Len(d) : \E k \in 1..Len(queue) : d[i] = queue[k]
<1> DEFINE d == DropOverflowMessages(limit)
<1>1. /\ Len(d) = Len(queue) - Excess(limit)
      /\ Excess(limit) \in 0..Len(queue) /\ Len(queue) \in Nat
      /\ \A i \in 1..Len(d) : d[i] = queue[i + Excess(limit)]
  <2>1. Len(queue) \in Nat
    BY DEF TypeOK
  <2> QED
    BY <2>1, DropKeepsNewest
<1> HIDE DEF d
<1>2. \A i \in 1..Len(d) : i + Excess(limit) \in 1..Len(queue)
  BY <1>1
<1>3. Increasing(d)
  <2>1. SUFFICES ASSUME NEW i \in 1..Len(d), NEW j \in 1..Len(d), i < j
                 PROVE  d[i] < d[j]
    BY DEF Increasing
  <2>2. i + Excess(limit) < j + Excess(limit)
    BY <1>1, <2>1
  <2>3. queue[i + Excess(limit)] < queue[j + Excess(limit)]
    BY <1>2, <2>2 DEF Sorted, Increasing
  <2> QED
    BY <1>1, <2>3
<1>4. ASSUME NEW i \in 1..Len(d)
      PROVE  \E k \in 1..Len(queue) : d[i] = queue[k]
  BY <1>1, <1>2
<1> QED
  BY <1>3, <1>4 DEF d

LEMMA DropKeeps ==
  ASSUME TypeOK, Sorted, NEW limit \in Nat,
         queue' = DropOverflowMessages(limit), UNCHANGED <<handed, pushed>>
  PROVE  Sorted'
BY DropSorted DEF Sorted, InOrder, Increasing

\* A new message waits behind those that are left.
LEMMA AppendKeeps ==
  ASSUME TypeOK, Sorted, NEW d \in Seq(Nat), Increasing(d),
         \A i \in 1..Len(d) : \E k \in 1..Len(queue) : d[i] = queue[k],
         queue' = Append(d, pushed), pushed' = pushed + 1, handed' = handed
  PROVE  Sorted' /\ queue' \in Seq(Nat) /\ Len(queue') = Len(d) + 1
<1>1. pushed \in Nat /\ handed \in Seq(Nat)
  BY DEF TypeOK
<1>2. ASSUME NEW i \in 1..Len(d)
      PROVE  d[i] < pushed /\ \A h \in 1..Len(handed) : handed[h] < d[i]
  <2>1. PICK k \in 1..Len(queue) : d[i] = queue[k]
    OBVIOUS
  <2> QED
    BY <2>1 DEF Sorted, InOrder
<1>3. /\ queue' \in Seq(Nat) /\ Len(queue') = Len(d) + 1 /\ Increasing(queue')
      /\ \A i \in 1..Len(queue') :
           queue'[i] = pushed \/ \E k \in 1..Len(d) : queue'[i] = d[k]
  BY <1>1, <1>2, AppendIncreases
<1>4. \A h \in 1..Len(handed) : handed[h] \in Nat /\ handed[h] < pushed
  BY <1>1 DEF Sorted
<1>5. \A h \in 1..Len(handed'), i \in 1..Len(queue') : handed'[h] < queue'[i]
  BY <1>2, <1>3, <1>4
<1>6. \A i \in 1..Len(d) : d[i] \in Nat
  OBVIOUS
<1>7. ASSUME NEW i \in 1..Len(queue')
      PROVE  queue'[i] < pushed'
  <2>1. CASE queue'[i] = pushed
    BY <1>1, <2>1
  <2>2. CASE \E k \in 1..Len(d) : queue'[i] = d[k]
    <3>1. PICK k \in 1..Len(d) : queue'[i] = d[k]
      BY <2>2
    <3>2. d[k] \in Nat /\ d[k] < pushed
      BY <1>2, <1>6
    <3> QED
      BY <1>1, <3>1, <3>2
  <2> QED
    BY <1>3, <2>1, <2>2
<1>8. ASSUME NEW h \in 1..Len(handed')
      PROVE  handed'[h] < pushed'
  <2>1. handed[h] \in Nat /\ handed[h] < pushed /\ handed' = handed
    BY <1>4
  <2> QED
    BY <1>1, <2>1
<1>9. Increasing(handed')
  BY DEF Sorted, InOrder
<1> QED
  BY <1>3, <1>5, <1>7, <1>8, <1>9 DEF Sorted, InOrder

-----------------------------------------------------------------------------
(* The invariant is inductive.                                             *)

\* A push goes one of three ways.
LEMMA PushInv == IInv /\ Push => IInv'
<1> SUFFICES ASSUME IInv, Push PROVE IInv'
  OBVIOUS
<1> USE DEF IInv
<1>1. pushed \in Nat /\ capacity \in Nat /\ pushed' = pushed + 1 /\ pushed' \in Nat
      /\ UNCHANGED <<capacity, listener, draining, microtasks, inListener, oldDrain>>
  BY DEF Push, TypeOK, listenVars
<1>2. OneDrain'
  BY <1>1 DEF OneDrain
<1>3. CASE GoesDirectly /\ handed' = Append(handed, pushed)
           /\ UNCHANGED <<queue, refused, ignored>>
  <2>1. queue = <<>>
    BY <1>3 DEF GoesDirectly, NoBacklog
  <2>2. Sorted' /\ handed' \in Seq(Nat)
    BY <1>1, <1>3, <2>1, DirectKeeps
  <2> QED
    BY <1>1, <1>2, <1>3, <2>1, <2>2 DEF TypeOK, NoBacklog
<1>4. CASE ~GoesDirectly /\ ignored' = ignored \cup {pushed}
           /\ UNCHANGED <<queue, handed, refused>>
  <2>1. Sorted'
    BY <1>1, <1>4, SMTT(30) DEF Sorted, InOrder, TypeOK, Increasing
  <2> QED
    BY <1>1, <1>2, <1>4, <2>1 DEF TypeOK, NoBacklog
<1>5. CASE /\ ~GoesDirectly /\ capacity > 0
           /\ queue' = Append(DropOverflowMessages(RoomForOne), pushed)
           /\ refused' = refused \cup Discarded(RoomForOne)
           /\ UNCHANGED <<handed, ignored>>
  <2>1. RoomForOne \in Nat /\ RoomForOne = capacity - 1
    BY <1>1, <1>5 DEF RoomForOne
  <2> DEFINE d == DropOverflowMessages(RoomForOne)
  <2>2. /\ d \in Seq(Nat) /\ Len(d) <= RoomForOne
        /\ Discarded(RoomForOne) \subseteq Nat
    BY <2>1, DropKeepsNewest
  <2>3. Increasing(d) /\ \A i \in 1..Len(d) : \E k \in 1..Len(queue) : d[i] = queue[k]
    BY <2>1, DropSorted
  <2> HIDE DEF d
  <2>4. Sorted' /\ queue' \in Seq(Nat) /\ Len(queue') = Len(d) + 1
    BY <1>1, <1>5, <2>2, <2>3, AppendKeeps DEF d
  <2>5. Len(queue') <= capacity
    BY <1>1, <2>1, <2>2, <2>4
  <2>6. NoBacklog'
    BY <1>1, <1>5 DEF NoBacklog, GoesDirectly
  <2> QED
    BY <1>1, <1>2, <1>5, <2>2, <2>4, <2>5, <2>6 DEF TypeOK
<1> QED
  BY <1>3, <1>4, <1>5 DEF Push

LEMMA ResizeInv ==
  ASSUME IInv, NEW n \in Capacities, Resize(n)
  PROVE  IInv'
<1> USE DEF IInv
<1>1. n \in Nat
  BY ChannelAssumption
<1>2. /\ queue' \in Seq(Nat) /\ Len(queue') <= n
      /\ Discarded(n) \subseteq Nat
      /\ Len(queue') = Len(queue) - Excess(n) /\ Excess(n) \in 0..Len(queue)
  BY <1>1, DropKeepsNewest DEF Resize
<1>3. Sorted'
  BY <1>1, DropKeeps DEF Resize
<1>4. TypeOK' /\ OneDrain'
  BY <1>1, <1>2 DEF Resize, TypeOK, OneDrain, listenVars
<1>5. queue = <<>> => queue' = <<>>
  <2>1. queue = <<>> => Len(queue') = 0
    BY <1>2
  <2> QED
    BY <1>2, <2>1, EmptySeq
<1>6. NoBacklog'
  BY <1>5 DEF Resize, NoBacklog, listenVars
<1> QED
  BY <1>3, <1>4, <1>6

\* Listeners and microtasks.
LEMMA ListenInv ==
  ASSUME IInv, SetListener \/ ClearListener \/ ListenerReturns
  PROVE  IInv'
<1> USE DEF IInv
<1>1. UNCHANGED <<pushed, queue, capacity, oldDrain, handed, refused, ignored>>
  BY DEF SetListener, ClearListener, ListenerReturns
<1>2. Sorted'
  BY <1>1 DEF Sorted, InOrder
<1>3. CASE SetListener
  BY <1>1, <1>2, <1>3 DEF SetListener, NeedsDrain, TypeOK, OneDrain, NoBacklog
<1>4. CASE ClearListener
  BY <1>1, <1>2, <1>4 DEF ClearListener, TypeOK, OneDrain, NoBacklog
<1>5. CASE ListenerReturns
  <2>1. /\ microtasks' = microtasks + 1 /\ inListener' = inListener - 1
        /\ microtasks \in Nat /\ inListener \in Nat /\ inListener > 0
        /\ UNCHANGED <<listener, draining>>
    BY <1>5 DEF ListenerReturns, ScheduleMicrotask, TypeOK
  <2>2. TypeOK'
    BY <1>1, <2>1 DEF TypeOK
  <2>3. OneDrain' /\ NoBacklog'
    BY <1>1, <2>1 DEF OneDrain, NoBacklog
  <2> QED
    BY <1>2, <2>2, <2>3
<1> QED
  BY <1>3, <1>4, <1>5

LEMMA DrainStepInv == IInv /\ DrainStep => IInv'
<1> SUFFICES ASSUME IInv, DrainStep PROVE IInv'
  OBVIOUS
<1> USE DEF IInv
<1>1. /\ microtasks \in Nat /\ microtasks > 0 /\ inListener = 0
      /\ microtasks' = microtasks - 1 /\ UNCHANGED <<listener, oldDrain>>
  BY DEF DrainStep, TypeOK
<1>2. draining = "yes" /\ microtasks = 1
  BY <1>1 DEF OneDrain, TypeOK
<1>3. CASE /\ Pop
           /\ inListener' = inListener + 1
           /\ UNCHANGED draining
  <2>1. Sorted' /\ queue' \in Seq(Nat) /\ Len(queue') <= capacity /\ handed' \in Seq(Nat)
    BY <1>3, PopKeeps
  <2>2. TypeOK'
    BY <1>1, <1>2, <1>3, <2>1 DEF TypeOK, Pop
  <2>3. OneDrain' /\ NoBacklog'
    BY <1>1, <1>2, <1>3 DEF OneDrain, NoBacklog
  <2> QED
    BY <2>1, <2>2, <2>3
<1>4. CASE /\ ~MoreToDrain
           /\ draining' = "no"
           /\ UNCHANGED <<pushed, queue, capacity, inListener, handed, refused,
                          ignored>>
  <2>1. Sorted'
    BY <1>4 DEF Sorted, InOrder
  <2>2. TypeOK'
    BY <1>1, <1>2, <1>4 DEF TypeOK
  <2>3. OneDrain' /\ NoBacklog'
    BY <1>1, <1>2, <1>4 DEF OneDrain, NoBacklog, MoreToDrain
  <2> QED
    BY <2>1, <2>2, <2>3
<1> QED
  BY <1>3, <1>4 DEF DrainStep

LEMMA OldDrainInv == IInv /\ Drain => IInv'
<1> SUFFICES ASSUME IInv, Drain PROVE IInv'
  OBVIOUS
<1> USE DEF IInv
<1>1. UNCHANGED listenVars
  BY DEF Drain
<1>2. CASE Pop /\ oldDrain' = "waits"
  <2>1. Sorted' /\ queue' \in Seq(Nat) /\ Len(queue') <= capacity /\ handed' \in Seq(Nat)
    BY <1>2, PopKeeps
  <2>2. NoBacklog'
    BY <1>1, <1>2 DEF Pop, NoBacklog, listenVars
  <2> QED
    BY <1>1, <1>2, <2>1, <2>2 DEF TypeOK, OneDrain, Pop, listenVars
<1>3. CASE /\ oldDrain' = "idle"
           /\ UNCHANGED <<pushed, queue, capacity, handed, refused, ignored>>
  BY <1>1, <1>3 DEF TypeOK, OneDrain, NoBacklog, Sorted, InOrder, listenVars
<1> QED
  BY <1>2, <1>3 DEF Drain

LEMMA Inductive == IInv /\ [Next]_vars => IInv'
<1>1. IInv /\ UNCHANGED vars => IInv'
  BY DEF IInv, vars, listenVars, TypeOK, NoBacklog, OneDrain, Sorted, InOrder
<1> QED
  BY <1>1, PushInv, ResizeInv, ListenInv, DrainStepInv, OldDrainInv
     DEF Next, CallbackAnswers

LEMMA Always == Spec => []IInv
BY InitInv, Inductive, PTL DEF Spec

-----------------------------------------------------------------------------
(* The theorems.                                                           *)

\* Every variable has its type and the queue is within its capacity, for any
\* capacities and number of messages (_dropOverflowMessages).
THEOREM TypeCorrect == Spec => []TypeOK
<1>1. IInv => TypeOK
  BY DEF IInv
<1> QED
  BY <1>1, Always, PTL

\* The assertion of push holds: no message is overtaken.
THEOREM DirectMeansEmpty == Spec => []NoBacklog
<1>1. IInv => NoBacklog
  BY DEF IInv
<1> QED
  BY <1>1, Always, PTL

\* The assertions of _drain and _drainStep hold: one drain at a time.
THEOREM SingleDrain == Spec => []OneDrain
<1>1. IInv => OneDrain
  BY DEF IInv
<1> QED
  BY <1>1, Always, PTL

\* While a message waits and a listener is set, exactly one drain step is
\* scheduled or waits for its listener: what Drained needs beside the fairness
\* (setListener, _drainStep).
THEOREM BacklogIsDrained ==
  Spec => [](queue # <<>> /\ listener = "set" => microtasks + inListener = 1)
<1> DEFINE HasDrain == queue # <<>> /\ listener = "set" => microtasks + inListener = 1
<1>1. IInv => HasDrain
  BY DEF IInv, TypeOK, NoBacklog, OneDrain
<1> QED
  BY <1>1, Always, PTL

\* Messages are handled in the order they came.
THEOREM MessagesInOrder == Spec => []InOrder
<1>1. IInv => InOrder
  BY DEF IInv, Sorted
<1> QED
  BY <1>1, Always, PTL

-----------------------------------------------------------------------------
(* The refinement.                                                         *)

LEMMA RefinesInit == Init => Buffer!BufferInit
BY DEF Init, Buffer!BufferInit

LEMMA RefinesPush == IInv /\ Push => Buffer!BufferNext
<1> SUFFICES ASSUME IInv, Push PROVE Buffer!BufferNext
  OBVIOUS
<1> USE DEF IInv
<1>1. pushed' = pushed + 1 /\ UNCHANGED capacity /\ capacity \in Nat
  BY DEF Push, TypeOK
<1>2. CASE GoesDirectly /\ handed' = Append(handed, pushed)
           /\ UNCHANGED <<queue, refused, ignored>>
  <2>1. Buffer!TakeAtOnce
    BY <1>1, <1>2 DEF Buffer!TakeAtOnce, GoesDirectly, NoBacklog
  <2> QED
    BY <2>1 DEF Buffer!BufferNext
<1>3. CASE capacity <= 0 /\ UNCHANGED <<queue, handed, refused>>
  <2>1. Buffer!Ignore
    BY <1>1, <1>3 DEF Buffer!Ignore
  <2> QED
    BY <2>1 DEF Buffer!BufferNext
<1>4. CASE /\ capacity > 0
           /\ queue' = Append(DropOverflowMessages(RoomForOne), pushed)
           /\ refused' = refused \cup Discarded(RoomForOne)
           /\ UNCHANGED <<handed, ignored>>
  <2>1. Buffer!Keep
    BY <1>1, <1>4 DEF Buffer!Keep, Buffer!Newest, Buffer!Oldest,
       Buffer!Overflow, DropOverflowMessages, Discarded, Excess, RoomForOne
  <2> QED
    BY <2>1 DEF Buffer!BufferNext
<1> QED
  BY <1>2, <1>3, <1>4 DEF Push

LEMMA RefinesNext ==
  IInv /\ [Next]_vars => [Buffer!BufferNext]_(Buffer!bufferVars)
<1> SUFFICES ASSUME IInv, [Next]_vars
             PROVE  Buffer!BufferNext \/ UNCHANGED Buffer!bufferVars
  OBVIOUS
<1>1. ASSUME NEW n \in Capacities, Resize(n) PROVE Buffer!BufferNext
  <2>1. Buffer!Resize(n)
    BY <1>1 DEF Resize, Buffer!Resize, Buffer!Newest, Buffer!Oldest,
       Buffer!Overflow, DropOverflowMessages, Discarded, Excess
  <2> QED
    BY <2>1 DEF Buffer!BufferNext
<1>2. CASE Pop
  <2>1. Buffer!Take
    BY <1>2 DEF Pop, Buffer!Take
  <2> QED
    BY <2>1 DEF Buffer!BufferNext
<1>3. CASE \/ SetListener \/ ClearListener \/ ListenerReturns
           \/ DrainStep /\ ~Pop
           \/ Drain /\ ~Pop
           \/ UNCHANGED vars
  BY <1>3 DEF SetListener, ClearListener, ListenerReturns, DrainStep, Drain,
     vars, Buffer!bufferVars
<1> QED
  BY <1>1, <1>2, <1>3, RefinesPush DEF Next, CallbackAnswers

\* The channel implements the bounded buffer: order, capacity and answers do
\* not depend on when listeners come and go.
THEOREM ChannelImplementsBuffer == Spec => ImplementsMessageBuffer
BY RefinesInit, RefinesNext, Always, PTL
   DEF Spec, ImplementsMessageBuffer, Buffer!BufferSpec

-----------------------------------------------------------------------------
(* No message is lost.                                                     *)

\* Every message is in exactly one place.
Apart ==
  /\ Elements(queue) \cup Elements(handed) \cup refused \cup ignored = Messages
  /\ Elements(queue) \cap Elements(handed) = {}
  /\ refused \cap (Elements(queue) \cup Elements(handed)) = {}
  /\ ignored \cap (Elements(queue) \cup Elements(handed) \cup refused) = {}

LEMMA ElementsAppend ==
  ASSUME NEW s \in Seq(Nat), NEW m \in Nat
  PROVE  Elements(Append(s, m)) = Elements(s) \cup {m}
<1> DEFINE t == Append(s, m)
<1>1. /\ Len(t) = Len(s) + 1 /\ Len(s) \in Nat /\ t[Len(s) + 1] = m
      /\ \A i \in 1..Len(s) : t[i] = s[i]
  BY AppendProperties
<1> HIDE DEF t
<1>2. ASSUME NEW x \in Elements(t)
      PROVE  x \in Elements(s) \cup {m}
  <2>1. PICK i \in 1..Len(t) : x = t[i]
    BY DEF Elements
  <2>2. i \in 1..Len(s) \/ i = Len(s) + 1
    BY <1>1
  <2> QED
    BY <1>1, <2>1, <2>2 DEF Elements
<1>3. ASSUME NEW x \in Elements(s) \cup {m}
      PROVE  x \in Elements(t)
  <2>1. CASE x = m
    <3>1. Len(s) + 1 \in 1..Len(t)
      BY <1>1
    <3> QED
      BY <1>1, <2>1, <3>1 DEF Elements
  <2>2. CASE x \in Elements(s)
    <3>1. PICK i \in 1..Len(s) : x = s[i]
      BY <2>2 DEF Elements
    <3>2. i \in 1..Len(t) /\ t[i] = x
      BY <1>1, <3>1
    <3> QED
      BY <3>2 DEF Elements
  <2> QED
    BY <2>1, <2>2
<1> QED
  BY <1>2, <1>3 DEF t

\* The messages that are discarded and those that are left.
LEMMA ElementsDrop ==
  ASSUME TypeOK, Sorted, NEW limit \in Nat
  PROVE  /\ Elements(queue)
              = Discarded(limit) \cup Elements(DropOverflowMessages(limit))
         /\ Discarded(limit) \cap Elements(DropOverflowMessages(limit)) = {}
<1> DEFINE d == DropOverflowMessages(limit)
           x == Excess(limit)
<1>1. /\ Len(d) = Len(queue) - x /\ x \in 0..Len(queue) /\ Len(queue) \in Nat
      /\ \A i \in 1..Len(d) : d[i] = queue[i + x]
  <2>1. Len(queue) \in Nat
    BY DEF TypeOK
  <2> QED
    BY <2>1, DropKeepsNewest
<1>2. Discarded(limit) = {queue[i] : i \in 1..x}
  BY DEF Discarded
<1>3. Elements(d) = {queue[i] : i \in (x + 1)..Len(queue)}
  <2> HIDE DEF d, x
  <2>1. ASSUME NEW i \in 1..Len(d)
        PROVE  i + x \in (x + 1)..Len(queue) /\ d[i] = queue[i + x]
    BY <1>1
  <2>2. ASSUME NEW k \in (x + 1)..Len(queue)
        PROVE  k - x \in 1..Len(d) /\ d[k - x] = queue[k]
    <3>1. k - x \in 1..Len(d) /\ (k - x) + x = k
      BY <1>1
    <3> QED
      BY <1>1, <3>1
  <2>3. Elements(d) \subseteq {queue[i] : i \in (x + 1)..Len(queue)}
    BY <2>1 DEF Elements
  <2>4. {queue[i] : i \in (x + 1)..Len(queue)} \subseteq Elements(d)
    BY <2>2 DEF Elements
  <2> QED
    BY <2>3, <2>4
<1> HIDE DEF d, x
<1>4. 1..Len(queue) = (1..x) \cup ((x + 1)..Len(queue))
  BY <1>1
<1>5. Elements(queue) = Discarded(limit) \cup Elements(d)
  BY <1>2, <1>3, <1>4 DEF Elements
<1>6. Discarded(limit) \cap Elements(d) = {}
  <2>1. SUFFICES ASSUME NEW i \in 1..x, NEW k \in (x + 1)..Len(queue)
                 PROVE  queue[i] # queue[k]
    BY <1>2, <1>3
  <2>2. i \in 1..Len(queue) /\ k \in 1..Len(queue) /\ i < k
    BY <1>1
  <2>3. queue[i] < queue[k] /\ queue[i] \in Nat /\ queue[k] \in Nat
    BY <2>2 DEF Sorted, Increasing, TypeOK
  <2> QED
    BY <2>3
<1> QED
  BY <1>5, <1>6 DEF d

LEMMA ElementsTail ==
  ASSUME TypeOK, Sorted, queue # <<>>
  PROVE  /\ Elements(queue) = {Head(queue)} \cup Elements(Tail(queue))
         /\ Head(queue) \notin Elements(Tail(queue)) /\ Head(queue) \in Nat
<1>1. /\ Len(queue) \in Nat /\ Len(queue) > 0 /\ Head(queue) = queue[1]
      /\ Len(Tail(queue)) = Len(queue) - 1
      /\ \A i \in 1..(Len(queue) - 1) : Tail(queue)[i] = queue[i + 1]
  BY HeadTailProperties DEF TypeOK
<1>2. Elements(Tail(queue)) = {queue[i] : i \in 2..Len(queue)}
  <2>1. ASSUME NEW i \in 1..Len(Tail(queue))
        PROVE  i + 1 \in 2..Len(queue) /\ Tail(queue)[i] = queue[i + 1]
    BY <1>1
  <2>2. ASSUME NEW k \in 2..Len(queue)
        PROVE  k - 1 \in 1..Len(Tail(queue)) /\ Tail(queue)[k - 1] = queue[k]
    <3>1. k - 1 \in 1..(Len(queue) - 1) /\ (k - 1) + 1 = k
      BY <1>1
    <3> QED
      BY <1>1, <3>1
  <2> QED
    BY <2>1, <2>2 DEF Elements
<1>3. 1..Len(queue) = {1} \cup (2..Len(queue))
  BY <1>1
<1>4. Elements(queue) = {Head(queue)} \cup Elements(Tail(queue))
  BY <1>1, <1>2, <1>3 DEF Elements
<1>5. ASSUME NEW k \in 2..Len(queue)
      PROVE  queue[k] # queue[1] /\ queue[1] \in Nat
  <2>1. 1 \in 1..Len(queue) /\ k \in 1..Len(queue) /\ 1 < k
    BY <1>1
  <2>2. queue[1] < queue[k] /\ queue[1] \in Nat /\ queue[k] \in Nat
    BY <2>1 DEF Sorted, Increasing, TypeOK
  <2> QED
    BY <2>2
<1>6. Head(queue) \notin Elements(Tail(queue))
  BY <1>1, <1>2, <1>5
<1>7. Head(queue) \in Nat
  BY <1>1 DEF TypeOK
<1> QED
  BY <1>4, <1>6, <1>7

LEMMA NewMessage ==
  ASSUME TypeOK, pushed' = pushed + 1
  PROVE  Messages' = Messages \cup {pushed} /\ pushed \notin Messages
BY DEF Messages, TypeOK

LEMMA PopApart == IInv /\ Apart /\ Pop => Apart'
<1> SUFFICES ASSUME IInv, Apart, Pop PROVE Apart'
  OBVIOUS
<1>1. /\ queue # <<>> /\ queue' = Tail(queue) /\ handed' = Append(handed, Head(queue))
      /\ UNCHANGED <<pushed, refused, ignored>>
  BY DEF Pop
<1>2. /\ Elements(queue) = {Head(queue)} \cup Elements(queue')
      /\ Head(queue) \notin Elements(queue') /\ Head(queue) \in Nat
  BY <1>1, ElementsTail DEF IInv
<1>3. Elements(handed') = Elements(handed) \cup {Head(queue)}
  BY <1>1, <1>2, ElementsAppend DEF IInv, TypeOK
<1>4. Messages' = Messages
  BY <1>1 DEF Messages
<1> QED
  BY <1>1, <1>2, <1>3, <1>4 DEF Apart

LEMMA PushApart == IInv /\ Apart /\ Push => Apart'
<1> SUFFICES ASSUME IInv, Apart, Push PROVE Apart'
  OBVIOUS
<1>1. /\ Messages' = Messages \cup {pushed} /\ pushed \notin Messages /\ pushed \in Nat
  BY NewMessage DEF Push, IInv, TypeOK
<1>2. CASE GoesDirectly /\ handed' = Append(handed, pushed)
           /\ UNCHANGED <<queue, refused, ignored>>
  <2>1. Elements(handed') = Elements(handed) \cup {pushed}
    BY <1>1, <1>2, ElementsAppend DEF IInv, TypeOK
  <2> QED
    BY <1>1, <1>2, <2>1 DEF Apart
<1>3. CASE ~GoesDirectly /\ ignored' = ignored \cup {pushed}
           /\ UNCHANGED <<queue, handed, refused>>
  BY <1>1, <1>3 DEF Apart
<1>4. CASE /\ ~GoesDirectly /\ capacity > 0
           /\ queue' = Append(DropOverflowMessages(RoomForOne), pushed)
           /\ refused' = refused \cup Discarded(RoomForOne)
           /\ UNCHANGED <<handed, ignored>>
  <2>1. RoomForOne \in Nat
    BY <1>4 DEF RoomForOne, IInv, TypeOK
  <2>2. DropOverflowMessages(RoomForOne) \in Seq(Nat)
    BY <2>1, DropKeepsNewest DEF IInv
  <2>3. Elements(queue') = Elements(DropOverflowMessages(RoomForOne)) \cup {pushed}
    BY <1>1, <1>4, <2>2, ElementsAppend
  <2>4. /\ Elements(queue) = Discarded(RoomForOne)
                               \cup Elements(DropOverflowMessages(RoomForOne))
        /\ Discarded(RoomForOne) \cap Elements(DropOverflowMessages(RoomForOne)) = {}
    BY <2>1, ElementsDrop DEF IInv
  <2> QED
    BY <1>1, <1>4, <2>3, <2>4 DEF Apart
<1> QED
  BY <1>2, <1>3, <1>4 DEF Push

LEMMA ResizeApart ==
  ASSUME IInv, Apart, NEW n \in Capacities, Resize(n)
  PROVE  Apart'
<1>1. n \in Nat
  BY ChannelAssumption
<1>2. /\ Elements(queue) = Discarded(n) \cup Elements(queue')
      /\ Discarded(n) \cap Elements(queue') = {}
  BY <1>1, ElementsDrop DEF IInv, Resize
<1>3. /\ refused' = refused \cup Discarded(n) /\ Messages' = Messages
      /\ UNCHANGED <<handed, ignored>>
  BY DEF Resize, Messages
<1> QED
  BY <1>2, <1>3 DEF Apart

LEMMA ApartStep == IInv /\ Apart /\ [Next]_vars => Apart'
<1> SUFFICES ASSUME IInv, Apart, [Next]_vars PROVE Apart'
  OBVIOUS
<1>1. CASE Push
  BY <1>1, PushApart
<1>2. CASE \E n \in Capacities : Resize(n)
  BY <1>2, ResizeApart
<1>3. CASE Pop
  BY <1>3, PopApart
<1>4. CASE ~Push /\ ~(\E n \in Capacities : Resize(n)) /\ ~Pop
  <2>1. UNCHANGED <<pushed, queue, handed, refused, ignored>>
    BY <1>4 DEF Next, SetListener, ClearListener, DrainStep, ListenerReturns,
       CallbackAnswers, Drain, vars
  <2> QED
    BY <2>1 DEF Apart, Messages
<1> QED
  BY <1>1, <1>2, <1>3, <1>4

\* A sequence that increases has as many elements as it is long.
LEMMA IncreasingLength ==
  ASSUME NEW s \in Seq(Nat), Increasing(s)
  PROVE  IsFiniteSet(Elements(s)) /\ Cardinality(Elements(s)) = Len(s)
<1> DEFINE f == [i \in 1..Len(s) |-> s[i]]
           E == Elements(s)
<1>1. Len(s) \in Nat /\ \A i \in 1..Len(s) : s[i] \in Nat
  OBVIOUS
<1>2. f \in Bijection(1..Len(s), E)
  <2>1. f \in [1..Len(s) -> E] /\ \A e \in E : \E i \in 1..Len(s) : f[i] = e
    BY DEF Elements
  <2>2. ASSUME NEW i \in 1..Len(s), NEW j \in 1..Len(s), f[i] = f[j]
        PROVE  i = j
    <3>1. ~(i < j) /\ ~(j < i)
      BY <1>1, <2>2 DEF Increasing
    <3> QED
      BY <1>1, <3>1
  <2> QED
    BY <2>1, <2>2 DEF Bijection, Injection, Surjection, IsInjective
<1>3. IsFiniteSet(1..Len(s)) /\ Cardinality(1..Len(s)) = Len(s)
  BY <1>1, FS_Interval
<1>4. ExistsBijection(1..Len(s), E)
  BY <1>2 DEF ExistsBijection
<1> HIDE DEF E, f
<1>5. IsFiniteSet(E) /\ Cardinality(E) = Len(s)
  BY <1>3, <1>4, FS_Bijection
<1> QED
  BY <1>5 DEF E

LEMMA DisjointSum ==
  ASSUME NEW A, NEW B, IsFiniteSet(A), IsFiniteSet(B), A \cap B = {}
  PROVE  /\ IsFiniteSet(A \cup B) /\ Cardinality(A) \in Nat /\ Cardinality(B) \in Nat
         /\ Cardinality(A \cup B) = Cardinality(A) + Cardinality(B)
<1>1. /\ IsFiniteSet(A \cup B)
      /\ Cardinality(A \cup B)
           = Cardinality(A) + Cardinality(B) - Cardinality(A \cap B)
  BY FS_Union
<1>2. Cardinality(A \cap B) = 0
  BY FS_EmptySet
<1>3. Cardinality(A) \in Nat /\ Cardinality(B) \in Nat
  BY FS_CardinalityType
<1> QED
  BY <1>1, <1>2, <1>3

LEMMA ApartCounts == IInv /\ Apart => NothingLost
<1> SUFFICES ASSUME IInv, Apart PROVE NothingLost
  OBVIOUS
<1> DEFINE Q == Elements(queue)
           H == Elements(handed)
<1>1. /\ IsFiniteSet(Q) /\ Cardinality(Q) = Len(queue)
      /\ IsFiniteSet(H) /\ Cardinality(H) = Len(handed)
  BY IncreasingLength DEF IInv, TypeOK, Sorted, InOrder
<1>2. IsFiniteSet(Messages) /\ Cardinality(Messages) = pushed
  <2>1. pushed \in Nat /\ 0 \in Int /\ pushed - 1 \in Int
    BY DEF IInv, TypeOK
  <2>2. /\ IsFiniteSet(0..(pushed - 1))
        /\ Cardinality(0..(pushed - 1))
             = IF 0 <= pushed - 1 THEN (pushed - 1) - 0 + 1 ELSE 0
    BY <2>1, FS_Interval
  <2> QED
    BY <2>1, <2>2 DEF Messages
<1>3. /\ Q \cup H \cup refused \cup ignored = Messages /\ Q \cap H = {}
      /\ (Q \cup H) \cap refused = {}
      /\ (Q \cup H \cup refused) \cap ignored = {}
  BY DEF Apart
<1> HIDE DEF Q, H
<1>4. IsFiniteSet(refused) /\ IsFiniteSet(ignored)
  <2>1. refused \subseteq Messages /\ ignored \subseteq Messages
    BY <1>3
  <2> QED
    BY <1>2, <2>1, FS_Subset
<1>5. IsFiniteSet(Q \cup H) /\ Cardinality(Q \cup H) = Len(queue) + Len(handed)
  BY <1>1, <1>3, DisjointSum, SMTT(30)
<1>6. /\ IsFiniteSet(Q \cup H \cup refused)
      /\ Cardinality(Q \cup H \cup refused)
           = Cardinality(Q \cup H) + Cardinality(refused)
  BY <1>3, <1>4, <1>5, DisjointSum
<1>7. Cardinality(Q \cup H \cup refused \cup ignored)
        = Cardinality(Q \cup H \cup refused) + Cardinality(ignored)
  BY <1>3, <1>4, <1>6, DisjointSum
<1> QED
  BY <1>2, <1>3, <1>5, <1>6, <1>7 DEF NothingLost, Q, H

\* Every message waits, was handled, was refused with an answer or found no
\* room at all, and only one of these, for any capacities and however listeners
\* come and go (_Channel.push, resize, _drainStep, drain).
THEOREM NoMessageLost == Spec => []NothingLost
<1>1. Init => Apart
  BY DEF Init, Apart, Elements, Messages
<1>2. IInv /\ Apart /\ [Next]_vars => Apart'
  BY ApartStep
<1>3. IInv /\ Apart => NothingLost
  BY ApartCounts
<1> QED
  BY <1>1, <1>2, <1>3, Always, PTL DEF Spec
=============================================================================
