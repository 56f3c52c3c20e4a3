-------------------------- MODULE TaskQueuesProofs ---------------------------
(***************************************************************************)
(* Proofs about TaskQueues: merges keep their shape, a task runs where its *)
(* queue belongs, no wake-up is lost, and the queues implement TaskRunners. *)
(***************************************************************************)
EXTENDS TaskQueues, FiniteSetTheorems, TLAPS

-----------------------------------------------------------------------------
(* The inductive invariant.                                                *)

\* TypeOK, with pauses in Int: that they are naturals takes a count.
TypeInv ==
  /\ pending \subseteq Task
  /\ order \in Nat
  /\ ownerOf \in [Queues -> SUBSET Queues]
  /\ subsumedBy \in [Queues -> Queues \cup {NoQueue}]
  /\ pauses \in [Queues -> Int]
  /\ wake \in [Queues -> 0..Never]
  /\ now \in 0..MaxTime
  /\ loop \in [Queues -> {"idle", "flush", "run", "tail", "dispose", "done"}]
  /\ from \in [Queues -> 0..MaxTime]
  /\ running \in [Queues -> SUBSET Task]
  /\ terminated \subseteq Queues /\ leaving \subseteq terminated
  /\ posting \subseteq Request

\* A thread that ends shares no queue, and disposes only after its last flush.
Alone ==
  \A q \in Queues :
    /\ q \in terminated => ownerOf[q] = {} /\ subsumedBy[q] = NoQueue
    /\ loop[q] \in {"dispose", "done"} => q \in leaving

\* What will resume the Dart tasks of a queue: a call that is posting, a task
\* that waits or one that runs.  There is a pause for each, and no task is in
\* two places.
Resumes(q) ==
  {x \in posting \cup pending \cup UNION {running[l] : l \in Queues} :
     x.queue = q /\ x.job = "resume"}

Counted ==
  \A q \in Queues :
    IsFiniteSet(Resumes(q)) /\ Cardinality(Resumes(q)) <= pauses[q]

OnePlace ==
  \A l \in Queues : \A t \in running[l] :
    /\ loop[l] = "run"
    /\ t.order < order
    /\ t \notin pending
    /\ \A k \in Queues \ {l} : t \notin running[k]

\* Tasks that wait are older than the next one; no loop is ahead of the clock.
Fresh ==
  /\ \A t \in pending : t.order < order
  /\ \A l \in Queues : from[l] <= now

IInv ==
  /\ TypeInv /\ MergeShape /\ RunsWhereOwned /\ WakeScheduled
  /\ Alone /\ Fresh /\ OnePlace /\ Counted

-----------------------------------------------------------------------------
(* The operators.                                                          *)

\* The sources of a loop are the queues whose tasks it runs.
LEMMA SourcesAreOwned ==
  ASSUME TypeInv, MergeShape, NEW l \in Queues, NEW q \in Queues
  PROVE  q \in Sources(l) <=> LoopOf(q) = l
BY QueuesAssumption DEF TypeInv, MergeShape, Sources, LoopOf

\* What WakeUp does to the timers.
LEMMA WakeUpArms ==
  ASSUME NEW ls, WakeUp(ls), pending' \subseteq Task, MaxTime \in Nat
  PROVE  /\ wake' \in [Queues -> 0..Never]
         /\ \A l \in Queues : l \notin ls => wake'[l] = wake[l]
         /\ \A l \in Queues : l \in ls =>
              \A t \in Runnable(l)' : wake'[l] <= t.time
<1>1. wake' \in [Queues -> 0..Never]
  BY DEF WakeUp
<1>2. \A l \in Queues :
        IF l \in ls /\ Runnable(l)' # {}
        THEN \E t \in Runnable(l)' : IsNextTask(t, l)' /\ wake'[l] = t.time
        ELSE wake'[l] = wake[l]
  BY DEF WakeUp
<1>3. \A l \in Queues : l \notin ls => wake'[l] = wake[l]
  BY <1>2
<1>4. ASSUME NEW l \in Queues, l \in ls, NEW t \in Runnable(l)'
      PROVE  wake'[l] <= t.time
  <2>1. PICK u \in Runnable(l)' : IsNextTask(u, l)' /\ wake'[l] = u.time
    BY <1>2, <1>4
  <2>2. t \in Task /\ u \in Task
    BY <1>4, <2>1 DEF Runnable
  <2>3. t.time \in Int /\ u.time \in Int
    BY <2>2 DEF Task, Runners!Task
  <2>4. t = u \/ Before(u, t)
    BY <2>1, <1>4 DEF IsNextTask, Before
  <2> QED
    BY <2>1, <2>3, <2>4 DEF Before
<1> QED
  BY <1>1, <1>3, <1>4

\* Timers stay early enough when those that were not set lose no time: their
\* loops find no task that they could not run before.
LEMMA WakeKept ==
  ASSUME WakeScheduled, pending' \subseteq Task, MaxTime \in Nat,
         NEW ls, WakeUp(ls),
         \A l \in Queues : loop'[l] = "idle" /\ l \notin ls =>
           loop[l] = "idle" /\ Runnable(l)' \subseteq Runnable(l)
  PROVE  WakeScheduled'
BY WakeUpArms DEF WakeScheduled

-----------------------------------------------------------------------------
(* Types.                                                                  *)

LEMMA InitInv == Init => IInv
<1> SUFFICES ASSUME Init PROVE IInv
  OBVIOUS
<1>1. MaxTime \in Nat /\ NoQueue \notin Queues
  BY QueuesAssumption
<1>2. TypeInv
  BY <1>1 DEF Init, TypeInv, Never
<1>3. MergeShape
  BY <1>1 DEF Init, MergeShape
<1>4. RunsWhereOwned
  BY DEF Init, RunsWhereOwned
<1>5. WakeScheduled
  BY DEF Init, WakeScheduled, Runnable
<1>6. Alone
  BY DEF Init, Alone
<1>7. Fresh /\ OnePlace
  BY DEF Init, Fresh, OnePlace
<1>8. Counted
  <2>1. \A q \in Queues : Resumes(q) = {} /\ pauses[q] = 0
    BY DEF Init, Resumes
  <2> QED
    BY <2>1, FS_EmptySet DEF Counted
<1> QED
  BY <1>2, <1>3, <1>4, <1>5, <1>6, <1>7, <1>8 DEF IInv

\* A call to PostTask has a task of its own.
LEMMA PostTypes ==
  ASSUME TypeInv, NEW p \in Posters, NEW q \in Queues,
         \/ \E time \in now..MaxTime : PostTask(p, q, time)
         \/ PostDartTask(p, q)
         \/ FireCallback(p, q)
  PROVE  TypeInv'
<1>1. MaxTime \in Nat /\ now \in 0..MaxTime
  BY QueuesAssumption DEF TypeInv
<1>2. CASE \E time \in now..MaxTime : PostTask(p, q, time)
  <2>1. PICK time \in now..MaxTime : PostTask(p, q, time)
    BY <1>2
  <2>2. time \in 0..MaxTime
    BY <1>1
  <2>3. posting' \subseteq Request
    BY <2>1, <2>2 DEF PostTask, TypeInv, Request
  <2> QED
    BY <2>1, <2>3 DEF PostTask, TypeInv, queueVars, loopVars
<1>3. CASE PostDartTask(p, q)
  <2>1. posting' \subseteq Request
    BY <1>1, <1>3 DEF PostDartTask, TypeInv, Request
  <2> QED
    BY <1>3, <2>1 DEF PostDartTask, TypeInv, queueVars, loopVars
<1>4. CASE FireCallback(p, q)
  <2>1. posting' \subseteq Request
    BY <1>1, <1>4 DEF FireCallback, TypeInv, Request
  <2>2. pauses' \in [Queues -> Int]
    BY <1>4 DEF FireCallback, TypeInv
  <2> QED
    BY <1>4, <2>1, <2>2 DEF FireCallback, TypeInv, loopVars
<1> QED
  BY <1>2, <1>3, <1>4

LEMMA PosterTypes ==
  ASSUME TypeInv, NEW p \in Posters, PosterStep(p)
  PROVE  TypeInv'
<1>1. PICK r \in posting : CheckTerminated(r) \/ RegisterTask(r)
  BY DEF PosterStep
<1>2. r \in Request
  BY <1>1 DEF TypeInv
<1>3. CASE CheckTerminated(r)
  <2>1. [r EXCEPT !.stage = "register"] \in Request
    BY <1>2 DEF Request
  <2>2. posting' \subseteq Request
    BY <1>3, <2>1 DEF CheckTerminated, TypeInv
  <2> QED
    BY <1>3, <2>2 DEF CheckTerminated, TypeInv, queueVars, loopVars
<1>4. CASE RegisterTask(r)
  <2>1. [queue |-> r.queue, order |-> order, time |-> r.time,
         grade |-> r.grade, job |-> r.job] \in Task
    BY <1>2 DEF Request, Task, Runners!Task, TypeInv
  <2>2. pending' \subseteq Task /\ posting' \subseteq Request /\ order' \in Nat
    BY <1>4, <2>1 DEF RegisterTask, TypeInv
  <2>3. wake' \in [Queues -> 0..Never]
    BY <1>4, <2>2, WakeUpArms, QueuesAssumption DEF RegisterTask
  <2> QED
    BY <1>4, <2>2, <2>3 DEF RegisterTask, TypeInv, loopVars
<1> QED
  BY <1>1, <1>3, <1>4

LEMMA EffectTypes ==
  ASSUME TypeInv, NEW l \in Queues, RunTask(l)
  PROVE  TypeInv'
<1>1. PICK t \in running[l] :
        \/ /\ t.job = "work"
           /\ \/ Work
              \/ \E o \in Queues : Merge(o, t.queue)
              \/ \E s \in Queues : Unmerge(l, s)
              \/ t.queue = l /\ Terminate(l)
        \/ t.job = "resume" /\ ResumeSecondarySource(t.queue)
  BY DEF RunTask
<1>2. t.queue \in Queues
  BY <1>1 DEF TypeInv, Task, Runners!Task
<1>3. pending' = pending /\ pending' \subseteq Task /\ MaxTime \in Nat
  BY QueuesAssumption DEF RunTask, TypeInv
<1>4. /\ running' \in [Queues -> SUBSET Task]
      /\ loop' \in
           [Queues -> {"idle", "flush", "run", "tail", "dispose", "done"}]
  BY DEF RunTask, TypeInv
<1>5. SUFFICES /\ ownerOf' \in [Queues -> SUBSET Queues]
               /\ subsumedBy' \in [Queues -> Queues \cup {NoQueue}]
               /\ pauses' \in [Queues -> Int]
               /\ wake' \in [Queues -> 0..Never]
               /\ terminated' \subseteq Queues /\ leaving \subseteq terminated'
  BY <1>3, <1>4 DEF RunTask, TypeInv
<1>6. CASE Work
  BY <1>6 DEF Work, TypeInv
<1>7. CASE \E o \in Queues : Merge(o, t.queue)
  <2>1. PICK o \in Queues : Merge(o, t.queue)
    BY <1>7
  <2>2. wake' \in [Queues -> 0..Never]
    BY <2>1, <1>3, WakeUpArms DEF Merge
  <2> QED
    BY <2>1, <2>2, <1>2 DEF Merge, TypeInv
<1>8. CASE \E s \in Queues : Unmerge(l, s)
  <2>1. PICK s \in Queues : Unmerge(l, s)
    BY <1>8
  <2>2. wake' \in [Queues -> 0..Never]
    BY <2>1, <1>3, WakeUpArms DEF Unmerge
  <2> QED
    BY <2>1, <2>2 DEF Unmerge, Released, TypeInv
<1>9. CASE Terminate(l)
  <2>1. now \in 0..Never
    BY <1>3 DEF TypeInv, Never
  <2> QED
    BY <1>9, <2>1 DEF Terminate, TypeInv
<1>10. CASE ResumeSecondarySource(t.queue)
  <2>1. wake' \in [Queues -> 0..Never]
    BY <1>10, <1>3, WakeUpArms DEF ResumeSecondarySource
  <2>2. pauses[t.queue] - 1 \in Int
    BY <1>2 DEF TypeInv
  <2>3. pauses' = [pauses EXCEPT ![t.queue] = pauses[t.queue] - 1]
    BY <1>10 DEF ResumeSecondarySource, ResumeSecondary
  <2>4. pauses' \in [Queues -> Int]
    BY <2>2, <2>3 DEF TypeInv
  <2> QED
    BY <1>10, <2>1, <2>4 DEF ResumeSecondarySource, TypeInv
<1> QED
  BY <1>1, <1>6, <1>7, <1>8, <1>9, <1>10

\* The steps of a loop between its tasks.
LEMMA LoopTypes ==
  ASSUME TypeInv, NEW l \in Queues, LoopStep(l), ~RunTask(l)
  PROVE  TypeInv'
<1>1. MaxTime \in Nat /\ now \in 0..MaxTime /\ 0..MaxTime \subseteq 0..Never
      /\ Never \in 0..Never
  BY QueuesAssumption DEF TypeInv, Never
<1>2. Returned(l) =>
        /\ loop' \in
             [Queues -> {"idle", "flush", "run", "tail", "dispose", "done"}]
        /\ from' \in [Queues -> 0..MaxTime]
        /\ leaving' \subseteq terminated
  BY <1>1 DEF Returned, TypeInv
<1>3. \A t \in Runnable(l) : t \in Task /\ t.time \in 0..Never
  BY <1>1 DEF Runnable, TypeInv, Task, Runners!Task
<1>4. CASE OnEventFired(l)
  BY <1>1, <1>4 DEF OnEventFired, TypeInv, queueVars
<1>5. CASE NothingPending(l)
  BY <1>2, <1>5 DEF NothingPending, TypeInv, queueVars
<1>6. CASE NotYet(l)
  <2>1. wake' \in [Queues -> 0..Never]
    BY <1>3, <1>6 DEF NotYet, TypeInv
  <2> QED
    BY <1>2, <1>6, <2>1 DEF NotYet, TypeInv, queueVars
<1>7. CASE StartTask(l)
  <2>1. /\ wake' \in [Queues -> 0..Never]
        /\ running' \in [Queues -> SUBSET Task]
        /\ pending' \subseteq Task
    BY <1>3, <1>7 DEF StartTask, TypeInv
  <2> QED
    BY <1>7, <2>1 DEF StartTask, TypeInv
<1>8. CASE NextIteration(l)
  BY <1>8 DEF NextIteration, TypeInv, queueVars
<1>9. CASE DisposeTasks(l)
  BY <1>9 DEF DisposeTasks, TypeInv
<1> QED
  BY <1>4, <1>5, <1>6, <1>7, <1>8, <1>9 DEF LoopStep

LEMMA TypeStep == TypeInv /\ [Next]_vars => TypeInv'
<1> SUFFICES ASSUME TypeInv, [Next]_vars PROVE TypeInv'
  OBVIOUS
<1>1. CASE Tick
  BY <1>1, QueuesAssumption DEF Tick, TypeInv, queueVars, loopVars
<1>2. CASE UNCHANGED vars
  BY <1>2 DEF vars, TypeInv, queueVars, loopVars
<1> QED
  BY <1>1, <1>2, PostTypes, PosterTypes, EffectTypes, LoopTypes DEF Next,
     LoopStep

-----------------------------------------------------------------------------
(* Merges, and where tasks run.                                            *)

\* Only tasks merge, unmerge and terminate.
LEMMA OnlyTasksMerge ==
  ASSUME [Next]_vars, \A l \in Queues : ~RunTask(l)
  PROVE  UNCHANGED <<ownerOf, subsumedBy, terminated>>
<1>1. CASE UNCHANGED vars
  BY <1>1 DEF vars, queueVars, loopVars
<1>2. CASE Tick
  BY <1>2 DEF Tick, queueVars, loopVars
<1>3. ASSUME NEW p \in Posters, NEW q \in Queues,
             \/ \E time \in now..MaxTime : PostTask(p, q, time)
             \/ PostDartTask(p, q)
             \/ FireCallback(p, q)
      PROVE  UNCHANGED <<ownerOf, subsumedBy, terminated>>
  BY <1>3 DEF PostTask, PostDartTask, FireCallback, queueVars, loopVars
<1>4. ASSUME NEW p \in Posters, PosterStep(p)
      PROVE  UNCHANGED <<ownerOf, subsumedBy, terminated>>
  BY <1>4 DEF PosterStep, CheckTerminated, RegisterTask, queueVars, loopVars
<1>5. ASSUME NEW l \in Queues, LoopStep(l), ~RunTask(l)
      PROVE  UNCHANGED <<ownerOf, subsumedBy, terminated>>
  BY <1>5 DEF LoopStep, OnEventFired, NothingPending, NotYet, StartTask,
              NextIteration, DisposeTasks, queueVars
<1> QED
  BY <1>1, <1>2, <1>3, <1>4, <1>5 DEF Next

\* The five things a task may do.
LEMMA TaskEffect ==
  ASSUME TypeInv, NEW l \in Queues, RunTask(l)
  PROVE  \E t \in running[l] :
           /\ t \in Task /\ t.queue \in Queues
           /\ \/ Work
              \/ \E o \in Queues : Merge(o, t.queue)
              \/ \E s \in Queues : Unmerge(l, s)
              \/ t.queue = l /\ Terminate(l)
              \/ ResumeSecondarySource(t.queue)
<1>1. PICK t \in running[l] :
        \/ /\ t.job = "work"
           /\ \/ Work
              \/ \E o \in Queues : Merge(o, t.queue)
              \/ \E s \in Queues : Unmerge(l, s)
              \/ t.queue = l /\ Terminate(l)
        \/ t.job = "resume" /\ ResumeSecondarySource(t.queue)
  BY DEF RunTask
<1>2. t \in Task /\ t.queue \in Queues
  BY <1>1 DEF TypeInv, Task, Runners!Task
<1> QED
  BY <1>1, <1>2

LEMMA ShapeStep == IInv /\ [Next]_vars => MergeShape'
<1> SUFFICES ASSUME IInv, [Next]_vars PROVE MergeShape'
  OBVIOUS
<1> USE DEF IInv
<1>1. CASE \A l \in Queues : ~RunTask(l)
  BY <1>1, OnlyTasksMerge DEF MergeShape
<1>2. ASSUME NEW l \in Queues, RunTask(l) PROVE MergeShape'
  <2>1. PICK t \in running[l] :
          /\ t \in Task /\ t.queue \in Queues
          /\ \/ Work
             \/ \E o \in Queues : Merge(o, t.queue)
             \/ \E s \in Queues : Unmerge(l, s)
             \/ t.queue = l /\ Terminate(l)
             \/ ResumeSecondarySource(t.queue)
    BY <1>2, TaskEffect
  <2>2. CASE \E o \in Queues : Merge(o, t.queue)
    <3>1. PICK o \in Queues : Merge(o, t.queue)
      BY <2>2
    <3> QED
      BY <3>1, <2>1, QueuesAssumption DEF Merge, MergeAllowed, MergeShape,
         TypeInv
  <2>3. CASE \E s \in Queues : Unmerge(l, s)
    <3>1. PICK s \in Queues : Unmerge(l, s)
      BY <2>3
    <3> QED
      BY <3>1, QueuesAssumption DEF Unmerge, Released, MergeShape, TypeInv
  <2>4. CASE Work \/ Terminate(l) \/ ResumeSecondarySource(t.queue)
    BY <2>4 DEF Work, Terminate, ResumeSecondarySource, MergeShape
  <2> QED
    BY <2>1, <2>2, <2>3, <2>4
<1> QED
  BY <1>1, <1>2

LEMMA RunsStep == IInv /\ [Next]_vars => RunsWhereOwned'
<1> SUFFICES ASSUME IInv, [Next]_vars PROVE RunsWhereOwned'
  OBVIOUS
<1> USE DEF IInv
<1>1. CASE \A l \in Queues : ~RunTask(l)
  <2>1. UNCHANGED subsumedBy
    BY <1>1, OnlyTasksMerge
  <2>2. CASE \E l \in Queues : StartTask(l)
    <3>1. PICK l \in Queues : StartTask(l)
      BY <2>2
    <3>2. PICK t \in Runnable(l) : running' = [running EXCEPT ![l] = {t}]
      BY <3>1 DEF StartTask
    <3>3. t.queue \in Queues /\ t.queue \in Sources(l)
      BY <3>2 DEF Runnable, TypeInv, Task, Runners!Task
    <3>4. LoopOf(t.queue) = l
      BY <3>3, SourcesAreOwned
    <3> QED
      BY <2>1, <3>2, <3>4 DEF RunsWhereOwned, LoopOf, TypeInv
  <2>3. CASE \A l \in Queues : ~StartTask(l)
    <3>1. UNCHANGED running
      BY <1>1, <2>3 DEF Next, vars, Tick, PostTask, PostDartTask, FireCallback,
         PosterStep, CheckTerminated, RegisterTask, LoopStep, OnEventFired,
         NothingPending, NotYet, NextIteration, DisposeTasks, loopVars
    <3> QED
      BY <2>1, <3>1 DEF RunsWhereOwned, LoopOf
  <2> QED
    BY <2>2, <2>3
<1>2. ASSUME NEW l \in Queues, RunTask(l) PROVE RunsWhereOwned'
  <2>1. PICK t \in running[l] :
          /\ t \in Task /\ t.queue \in Queues
          /\ \/ Work
             \/ \E o \in Queues : Merge(o, t.queue)
             \/ \E s \in Queues : Unmerge(l, s)
             \/ t.queue = l /\ Terminate(l)
             \/ ResumeSecondarySource(t.queue)
    BY <1>2, TaskEffect
  <2>2. /\ running' = [running EXCEPT ![l] = {}]
        /\ LoopOf(t.queue) = l
    BY <1>2, <2>1 DEF RunTask, RunsWhereOwned
  <2>3. SUFFICES ASSUME NEW k \in Queues, k # l, NEW u \in running[k]
                 PROVE  subsumedBy'[u.queue] = subsumedBy[u.queue]
    BY <2>2 DEF RunsWhereOwned, LoopOf, TypeInv
  <2>4. u.queue \in Queues /\ LoopOf(u.queue) = k
    BY <2>3 DEF RunsWhereOwned, TypeInv, Task, Runners!Task
  <2>5. CASE \E o \in Queues : Merge(o, t.queue)
    <3>1. u.queue # t.queue
      BY <2>2, <2>3, <2>4
    <3> QED
      BY <2>5, <3>1, <2>1, <2>4 DEF Merge, TypeInv
  <2>6. CASE \E s \in Queues : Unmerge(l, s)
    <3>1. PICK s \in Queues : Unmerge(l, s)
      BY <2>6
    <3>2. LoopOf(s) = l
      BY <3>1, QueuesAssumption DEF Unmerge, MergeShape, LoopOf
    <3>3. u.queue # s
      BY <2>3, <2>4, <3>2
    <3> QED
      BY <3>1, <3>3, <2>4 DEF Unmerge, TypeInv
  <2>7. CASE Work \/ Terminate(l) \/ ResumeSecondarySource(t.queue)
    BY <2>7 DEF Work, Terminate, ResumeSecondarySource
  <2> QED
    BY <2>1, <2>5, <2>6, <2>7
<1> QED
  BY <1>1, <1>2

LEMMA AloneStep == IInv /\ [Next]_vars => Alone'
<1> SUFFICES ASSUME IInv, [Next]_vars PROVE Alone'
  OBVIOUS
<1> USE DEF IInv
<1>1. CASE \A l \in Queues : ~RunTask(l)
  <2>1. UNCHANGED <<ownerOf, subsumedBy, terminated>>
    BY <1>1, OnlyTasksMerge
  <2>2. \A q \in Queues : loop'[q] \in {"dispose", "done"} => q \in leaving'
    <3>1. ASSUME NEW l \in Queues, LoopStep(l), ~RunTask(l)
          PROVE  \A q \in Queues : loop'[q] \in {"dispose", "done"} =>
                   q \in leaving'
      BY <3>1 DEF LoopStep, OnEventFired, NothingPending, NotYet, Returned,
         StartTask, NextIteration, DisposeTasks, Alone, TypeInv
    <3>2. CASE \A l \in Queues : ~LoopStep(l)
      <4>1. UNCHANGED <<loop, leaving>>
        BY <3>2 DEF Next, vars, Tick, PostTask, PostDartTask, FireCallback,
           PosterStep, CheckTerminated, RegisterTask, loopVars
      <4> QED
        BY <4>1 DEF Alone
    <3> QED
      BY <1>1, <3>1, <3>2
  <2> QED
    BY <2>1, <2>2 DEF Alone
<1>2. ASSUME NEW l \in Queues, RunTask(l) PROVE Alone'
  <2>1. PICK t \in running[l] :
          /\ t \in Task /\ t.queue \in Queues
          /\ \/ Work
             \/ \E o \in Queues : Merge(o, t.queue)
             \/ \E s \in Queues : Unmerge(l, s)
             \/ t.queue = l /\ Terminate(l)
             \/ ResumeSecondarySource(t.queue)
    BY <1>2, TaskEffect
  <2>2. \A q \in Queues : loop'[q] \in {"dispose", "done"} => q \in leaving'
    BY <1>2 DEF RunTask, Alone, TypeInv
  <2>3. SUFFICES \A q \in terminated' :
                   ownerOf'[q] = {} /\ subsumedBy'[q] = NoQueue
    BY <2>2 DEF Alone
  <2>4. CASE \E o \in Queues : Merge(o, t.queue)
    BY <2>1, <2>4 DEF Merge, Alone, TypeInv
  <2>5. CASE \E s \in Queues : Unmerge(l, s)
    BY <2>5 DEF Unmerge, Released, Alone, TypeInv
  <2>6. CASE Work \/ Terminate(l) \/ ResumeSecondarySource(t.queue)
    BY <2>6 DEF Work, Terminate, ResumeSecondarySource, Alone, TypeInv
  <2> QED
    BY <2>1, <2>4, <2>5, <2>6
<1> QED
  BY <1>1, <1>2

-----------------------------------------------------------------------------
(* The pauses are counted.                                                 *)

\* Replacing an element adds none.
LEMMA SwapCardinality ==
  ASSUME NEW S, IsFiniteSet(S), NEW x \in S, NEW y
  PROVE  /\ IsFiniteSet((S \ {x}) \cup {y})
         /\ Cardinality((S \ {x}) \cup {y}) <= Cardinality(S)
<1>1. /\ IsFiniteSet(S \ {x})
      /\ Cardinality(S \ {x}) = Cardinality(S) - 1
  BY FS_RemoveElement
<1>2. /\ IsFiniteSet((S \ {x}) \cup {y})
      /\ \/ Cardinality((S \ {x}) \cup {y}) = Cardinality(S \ {x})
         \/ Cardinality((S \ {x}) \cup {y}) = Cardinality(S \ {x}) + 1
  BY <1>1, FS_AddElement
<1> QED
  BY <1>1, <1>2, FS_CardinalityType

\* A step that takes nothing from the pauses and adds no resumption.
LEMMA FewerResumes ==
  ASSUME TypeInv, TypeInv', Counted, NEW q \in Queues,
         Resumes(q)' \subseteq Resumes(q), pauses'[q] >= pauses[q]
  PROVE  IsFiniteSet(Resumes(q)') /\ Cardinality(Resumes(q)') <= pauses'[q]
<1>1. IsFiniteSet(Resumes(q)) /\ Cardinality(Resumes(q)) <= pauses[q]
  BY DEF Counted
<1>2. /\ IsFiniteSet(Resumes(q)')
      /\ Cardinality(Resumes(q)') <= Cardinality(Resumes(q))
  BY <1>1, FS_Subset
<1>3. Cardinality(Resumes(q)) \in Nat /\ Cardinality(Resumes(q)') \in Nat
  BY <1>1, <1>2, FS_CardinalityType
<1>4. pauses[q] \in Int /\ pauses'[q] \in Int
  BY DEF TypeInv
<1> QED
  BY <1>1, <1>2, <1>3, <1>4

\* A step that replaces one resumption by another.
LEMMA SwappedResume ==
  ASSUME TypeInv, TypeInv', Counted, NEW q \in Queues,
         NEW x \in Resumes(q), NEW y,
         Resumes(q)' \subseteq (Resumes(q) \ {x}) \cup {y},
         pauses'[q] = pauses[q]
  PROVE  IsFiniteSet(Resumes(q)') /\ Cardinality(Resumes(q)') <= pauses'[q]
<1>1. IsFiniteSet(Resumes(q)) /\ Cardinality(Resumes(q)) <= pauses[q]
  BY DEF Counted
<1> DEFINE T == (Resumes(q) \ {x}) \cup {y}
<1>2. IsFiniteSet(T) /\ Cardinality(T) <= Cardinality(Resumes(q))
  BY <1>1, SwapCardinality
<1>3. /\ IsFiniteSet(Resumes(q)')
      /\ Cardinality(Resumes(q)') <= Cardinality(T)
  <2> HIDE DEF T
  <2>1. Resumes(q)' \subseteq T
    BY DEF T
  <2> QED
    BY <1>2, <2>1, FS_Subset
<1>4. /\ Cardinality(Resumes(q)) \in Nat /\ Cardinality(Resumes(q)') \in Nat
      /\ Cardinality(T) \in Nat
  BY <1>1, <1>2, <1>3, FS_CardinalityType
<1>5. pauses[q] \in Int
  BY DEF TypeInv
<1> HIDE DEF T
<1> QED
  BY <1>1, <1>2, <1>3, <1>4, <1>5

\* A pause comes with the call that will resume, and a resumption takes one.
LEMMA PauseAdds ==
  ASSUME TypeInv, TypeInv', Counted, NEW q \in Queues, NEW y,
         Resumes(q)' \subseteq Resumes(q) \cup {y},
         pauses'[q] = pauses[q] + 1
  PROVE  IsFiniteSet(Resumes(q)') /\ Cardinality(Resumes(q)') <= pauses'[q]
<1>1. IsFiniteSet(Resumes(q)) /\ Cardinality(Resumes(q)) <= pauses[q]
  BY DEF Counted
<1> DEFINE T == Resumes(q) \cup {y}
<1>2. /\ IsFiniteSet(T)
      /\ \/ Cardinality(T) = Cardinality(Resumes(q))
         \/ Cardinality(T) = Cardinality(Resumes(q)) + 1
  BY <1>1, FS_AddElement
<1>3. /\ IsFiniteSet(Resumes(q)')
      /\ Cardinality(Resumes(q)') <= Cardinality(T)
  <2> HIDE DEF T
  <2>1. Resumes(q)' \subseteq T
    BY DEF T
  <2> QED
    BY <1>2, <2>1, FS_Subset
<1>4. /\ Cardinality(Resumes(q)) \in Nat /\ Cardinality(Resumes(q)') \in Nat
      /\ Cardinality(T) \in Nat
  BY <1>1, <1>2, <1>3, FS_CardinalityType
<1>5. pauses[q] \in Int
  BY DEF TypeInv
<1> HIDE DEF T
<1> QED
  BY <1>1, <1>2, <1>3, <1>4, <1>5

LEMMA ResumeTakes ==
  ASSUME TypeInv, TypeInv', Counted, NEW q \in Queues, NEW x \in Resumes(q),
         Resumes(q)' \subseteq Resumes(q) \ {x},
         pauses'[q] = pauses[q] - 1
  PROVE  IsFiniteSet(Resumes(q)') /\ Cardinality(Resumes(q)') <= pauses'[q]
<1>1. IsFiniteSet(Resumes(q)) /\ Cardinality(Resumes(q)) <= pauses[q]
  BY DEF Counted
<1>2. /\ IsFiniteSet(Resumes(q) \ {x})
      /\ Cardinality(Resumes(q) \ {x}) = Cardinality(Resumes(q)) - 1
  BY <1>1, FS_RemoveElement
<1>3. /\ IsFiniteSet(Resumes(q)')
      /\ Cardinality(Resumes(q)') <= Cardinality(Resumes(q) \ {x})
  BY <1>2, FS_Subset
<1>4. Cardinality(Resumes(q)) \in Nat /\ Cardinality(Resumes(q)') \in Nat
  BY <1>1, <1>3, FS_CardinalityType
<1>5. pauses[q] \in Int
  BY DEF TypeInv
<1> QED
  BY <1>1, <1>2, <1>3, <1>4, <1>5

\* A new task has a number of its own, and only StartTask moves a task.
LEMMA PlaceStep == IInv /\ [Next]_vars => (Fresh /\ OnePlace)'
<1> SUFFICES ASSUME IInv, [Next]_vars PROVE (Fresh /\ OnePlace)'
  OBVIOUS
<1> USE DEF IInv
<1>1. now \in Int /\ order \in Nat /\ \A l \in Queues : from[l] \in Int
  BY QueuesAssumption DEF TypeInv
<1>2. \A t \in pending : t.order \in Nat
  BY DEF TypeInv, Task, Runners!Task
<1>3. CASE UNCHANGED <<pending, order, from, running, loop>>
           /\ now' \in {now, now + 1}
  BY <1>1, <1>3 DEF Fresh, OnePlace
<1>4. ASSUME NEW p \in Posters, PosterStep(p) PROVE (Fresh /\ OnePlace)'
  <2>1. PICK r \in posting : CheckTerminated(r) \/ RegisterTask(r)
    BY <1>4 DEF PosterStep
  <2>2. CASE CheckTerminated(r)
    BY <2>2, <1>3 DEF CheckTerminated, queueVars, loopVars
  <2>3. CASE RegisterTask(r)
    <3> DEFINE n == [queue |-> r.queue, order |-> order, time |-> r.time,
                     grade |-> r.grade, job |-> r.job]
    <3>1. /\ pending' = pending \cup {n} /\ order' = order + 1
          /\ UNCHANGED <<now, from, running, loop>> /\ n.order = order
      BY <2>3 DEF RegisterTask, loopVars
    <3> HIDE DEF n
    <3>2. Fresh'
      BY <1>1, <1>2, <3>1 DEF Fresh
    <3>3. ASSUME NEW l \in Queues, NEW t \in running[l]
          PROVE  t.order < order' /\ t \notin pending'
      <4>1. t \in Task /\ t.order < order /\ t \notin pending
        BY <3>3 DEF TypeInv, OnePlace
      <4>2. t.order \in Nat
        BY <4>1 DEF Task, Runners!Task
      <4> QED
        BY <1>1, <3>1, <4>1, <4>2
    <3> QED
      BY <3>1, <3>2, <3>3 DEF OnePlace
  <2> QED
    BY <2>1, <2>2, <2>3
<1>5. ASSUME NEW l \in Queues, StartTask(l) PROVE (Fresh /\ OnePlace)'
  <2>1. PICK t \in Runnable(l) : /\ pending' = pending \ {t}
                                 /\ running' = [running EXCEPT ![l] = {t}]
                                 /\ loop' = [loop EXCEPT ![l] = "run"]
    BY <1>5 DEF StartTask
  <2>2. t \in pending
    BY <2>1 DEF Runnable
  <2>3. UNCHANGED <<order, now, from>>
    BY <1>5 DEF StartTask
  <2>4. Fresh'
    BY <2>1, <2>3 DEF Fresh
  <2>5. OnePlace'
    BY <2>1, <2>2, <2>3 DEF OnePlace, Fresh, TypeInv
  <2> QED
    BY <2>4, <2>5
<1>6. ASSUME NEW l \in Queues, RunTask(l) PROVE (Fresh /\ OnePlace)'
  BY <1>6 DEF RunTask, Fresh, OnePlace, TypeInv
<1>7. ASSUME NEW l \in Queues, LoopStep(l), ~StartTask(l), ~RunTask(l)
      PROVE  (Fresh /\ OnePlace)'
  <2>1. /\ UNCHANGED <<order, now, running>> /\ pending' \subseteq pending
        /\ \A k \in Queues : from'[k] \in {from[k], now, 0}
        /\ \A k \in Queues : k # l => loop'[k] = loop[k]
        /\ loop[l] # "run"
    BY <1>7 DEF LoopStep, OnEventFired, NothingPending, NotYet, Returned,
       NextIteration, DisposeTasks, queueVars, TypeInv
  <2>2. 0 <= now
    BY QueuesAssumption DEF TypeInv
  <2> QED
    BY <1>1, <2>1, <2>2 DEF Fresh, OnePlace
<1>8. ASSUME NEW p \in Posters, NEW q \in Queues,
             \/ \E time \in now..MaxTime : PostTask(p, q, time)
             \/ PostDartTask(p, q)
             \/ FireCallback(p, q)
      PROVE  (Fresh /\ OnePlace)'
  BY <1>3, <1>8 DEF PostTask, PostDartTask, FireCallback, queueVars, loopVars
<1>9. CASE Tick \/ UNCHANGED vars
  BY <1>3, <1>9 DEF Tick, vars, queueVars, loopVars
<1> QED
  BY <1>4, <1>5, <1>6, <1>7, <1>8, <1>9 DEF Next

LEMMA CountStep == IInv /\ [Next]_vars => Counted'
<1> SUFFICES ASSUME IInv, [Next]_vars PROVE Counted'
  OBVIOUS
<1> USE DEF IInv
<1>1. TypeInv'
  BY TypeStep
<1>2. SUFFICES ASSUME NEW q \in Queues
               PROVE  IsFiniteSet(Resumes(q)') /\
                      Cardinality(Resumes(q)') <= pauses'[q]
  BY DEF Counted
<1>3. pauses[q] \in Int
  BY DEF TypeInv
<1>4. CASE Resumes(q)' \subseteq Resumes(q) /\ pauses'[q] = pauses[q]
  BY <1>1, <1>3, <1>4, FewerResumes
<1>5. ASSUME NEW p \in Posters, NEW k \in Queues,
             \/ \E time \in now..MaxTime : PostTask(p, k, time)
             \/ PostDartTask(p, k)
      PROVE  Resumes(q)' \subseteq Resumes(q) /\ pauses'[q] = pauses[q]
  BY <1>5 DEF PostTask, PostDartTask, Resumes, queueVars, loopVars
<1>6. ASSUME NEW p \in Posters, NEW k \in Queues, FireCallback(p, k)
      PROVE  IsFiniteSet(Resumes(q)') /\ Cardinality(Resumes(q)') <= pauses'[q]
  <2> DEFINE y == [poster |-> p, stage |-> "check", queue |-> k, time |-> now,
                   grade |-> "primary", job |-> "resume"]
  <2>1. /\ pauses' = [pauses EXCEPT ![k] = @ + 1]
        /\ posting' = posting \cup {y}
        /\ UNCHANGED <<pending, running>>
        /\ y.queue = k
    BY <1>6 DEF FireCallback, loopVars
  <2> HIDE DEF y
  <2>2. CASE q = k
    <3>1. Resumes(q)' \subseteq Resumes(q) \cup {y}
      BY <2>1 DEF Resumes
    <3>2. pauses'[q] = pauses[q] + 1
      BY <2>1, <2>2 DEF TypeInv
    <3> QED
      BY <1>1, <3>1, <3>2, PauseAdds
  <2>3. CASE q # k
    <3>1. Resumes(q)' \subseteq Resumes(q)
      BY <2>1, <2>3 DEF Resumes
    <3>2. pauses'[q] = pauses[q]
      BY <2>1, <2>3 DEF TypeInv
    <3> QED
      BY <1>4, <3>1, <3>2
  <2> QED
    BY <2>2, <2>3
<1>7. ASSUME NEW r \in posting, CheckTerminated(r) \/ RegisterTask(r)
      PROVE  IsFiniteSet(Resumes(q)') /\ Cardinality(Resumes(q)') <= pauses'[q]
  <2>1. r \in Request
    BY <1>7 DEF TypeInv
  <2>2. PICK y : /\ y.queue = r.queue /\ y.job = r.job
                 /\ posting' \cup pending' \subseteq
                      ((posting \ {r}) \cup pending) \cup {y}
                 /\ UNCHANGED <<running, pauses>>
    <3>1. CASE CheckTerminated(r)
      <4> DEFINE y == [r EXCEPT !.stage = "register"]
      <4>1. y.queue = r.queue /\ y.job = r.job
        BY <2>1 DEF Request
      <4> HIDE DEF y
      <4>2. posting' \subseteq (posting \ {r}) \cup {y} /\ pending' = pending
        BY <3>1 DEF CheckTerminated, queueVars, y
      <4> QED
        BY <3>1, <4>1, <4>2 DEF CheckTerminated, queueVars, loopVars
    <3>2. CASE RegisterTask(r)
      <4> DEFINE y == [queue |-> r.queue, order |-> order, time |-> r.time,
                       grade |-> r.grade, job |-> r.job]
      <4>1. y.queue = r.queue /\ y.job = r.job
        OBVIOUS
      <4> HIDE DEF y
      <4>2. posting' = posting \ {r} /\ pending' = pending \cup {y}
        BY <3>2 DEF RegisterTask, y
      <4> QED
        BY <3>2, <4>1, <4>2 DEF RegisterTask, loopVars
    <3> QED
      BY <1>7, <3>1, <3>2
  <2>3. CASE r.queue = q /\ r.job = "resume"
    <3>1. r \in Resumes(q)
      BY <1>7, <2>3 DEF Resumes
    <3>2. r \notin Task
      BY <2>1 DEF Request, Task, Runners!Task
    <3>3. Resumes(q)' \subseteq (Resumes(q) \ {r}) \cup {y}
      BY <2>2, <3>2 DEF Resumes, TypeInv
    <3> QED
      BY <1>1, <2>2, <3>1, <3>3, SwappedResume
  <2>4. CASE ~(r.queue = q /\ r.job = "resume")
    BY <1>4, <2>2, <2>4 DEF Resumes
  <2> QED
    BY <2>3, <2>4
<1>8. ASSUME NEW l \in Queues, StartTask(l)
      PROVE  Resumes(q)' \subseteq Resumes(q) /\ pauses'[q] = pauses[q]
  BY <1>8 DEF StartTask, Runnable, Resumes, TypeInv
<1>9. ASSUME NEW l \in Queues, RunTask(l)
      PROVE  IsFiniteSet(Resumes(q)') /\ Cardinality(Resumes(q)') <= pauses'[q]
  <2>1. /\ running' = [running EXCEPT ![l] = {}]
        /\ UNCHANGED <<pending, posting>>
    BY <1>9 DEF RunTask
  <2>2. Resumes(q)' \subseteq Resumes(q)
    BY <2>1 DEF Resumes, TypeInv
  <2>3. CASE pauses' = pauses
    BY <1>4, <2>2, <2>3
  <2>4. CASE pauses' # pauses
    <3>1. PICK t \in running[l] :
            t.job = "resume" /\ ResumeSecondarySource(t.queue)
      BY <1>9, <2>4 DEF RunTask, Work, Merge, Unmerge, Terminate
    <3>2. pauses' = [pauses EXCEPT ![t.queue] = pauses[t.queue] - 1]
      BY <3>1 DEF ResumeSecondarySource, ResumeSecondary
    <3>3. CASE q = t.queue
      <4>1. pauses'[q] = pauses[q] - 1
        BY <3>2, <3>3 DEF TypeInv
      <4>2. t \in Task /\ t \notin pending
        BY <3>1 DEF TypeInv, OnePlace
      <4>3. t \notin posting
        BY <4>2 DEF TypeInv, Task, Runners!Task, Request
      <4>4. \A k \in Queues : t \notin running'[k]
        BY <2>1, <3>1 DEF OnePlace, TypeInv
      <4>5. t \in Resumes(q) /\ t \notin Resumes(q)'
        BY <2>1, <3>1, <3>3, <4>2, <4>3, <4>4 DEF Resumes
      <4> QED
        BY <1>1, <2>2, <4>1, <4>5, ResumeTakes
    <3>4. CASE q # t.queue
      <4>1. pauses'[q] = pauses[q]
        BY <3>2, <3>4 DEF TypeInv
      <4> QED
        BY <1>4, <2>2, <4>1
    <3> QED
      BY <3>3, <3>4
  <2> QED
    BY <2>3, <2>4
<1>10. ASSUME NEW l \in Queues, LoopStep(l), ~StartTask(l), ~RunTask(l)
       PROVE  Resumes(q)' \subseteq Resumes(q) /\ pauses'[q] = pauses[q]
  BY <1>10 DEF LoopStep, OnEventFired, NothingPending, NotYet, NextIteration,
     DisposeTasks, queueVars, Resumes
<1>11. CASE Tick \/ UNCHANGED vars
  BY <1>4, <1>11 DEF Tick, vars, queueVars, loopVars, Resumes
<1> QED
  BY <1>4, <1>5, <1>6, <1>7, <1>8, <1>9, <1>10, <1>11 DEF Next, PosterStep

-----------------------------------------------------------------------------
(* Wake-ups.                                                               *)

LEMMA PausesAreNat == TypeInv /\ Counted => pauses \in [Queues -> Nat]
<1> SUFFICES ASSUME TypeInv, Counted, NEW q \in Queues PROVE pauses[q] \in Nat
  BY DEF TypeInv
<1>1. Cardinality(Resumes(q)) \in Nat
  BY FS_CardinalityType DEF Counted
<1> QED
  BY <1>1 DEF Counted, TypeInv

LEMMA PosterWakes ==
  ASSUME IInv, NEW p \in Posters, PosterStep(p), TypeInv'
  PROVE  WakeScheduled'
<1> USE DEF IInv
<1>1. PICK r \in posting : CheckTerminated(r) \/ RegisterTask(r)
  BY DEF PosterStep
<1>2. r.queue \in Queues
  BY <1>1 DEF TypeInv, Request
<1>3. CASE CheckTerminated(r)
  BY <1>3 DEF CheckTerminated, WakeScheduled, Runnable, Sources, queueVars,
     loopVars
<1>4. CASE RegisterTask(r)
  <2> DEFINE n == [queue |-> r.queue, order |-> order, time |-> r.time,
                   grade |-> r.grade, job |-> r.job]
  <2>1. /\ pending' = pending \cup {n} /\ n.queue = r.queue
        /\ UNCHANGED <<ownerOf, subsumedBy, pauses, loop>>
        /\ WakeUp({LoopOf(r.queue)})
    BY <1>4 DEF RegisterTask, loopVars
  <2> HIDE DEF n
  <2>2. ASSUME NEW l \in Queues, l # LoopOf(r.queue)
        PROVE  Runnable(l)' \subseteq Runnable(l)
    <3>1. r.queue \notin Sources(l)
      BY <1>2, <2>2, SourcesAreOwned
    <3> QED
      BY <2>1, <3>1 DEF Runnable, Sources
  <2>3. pending' \subseteq Task /\ MaxTime \in Nat
    BY QueuesAssumption DEF TypeInv
  <2> QED
    BY <2>1, <2>2, <2>3, WakeKept
<1> QED
  BY <1>1, <1>3, <1>4

LEMMA EffectWakes ==
  ASSUME IInv, NEW l \in Queues, RunTask(l), TypeInv'
  PROVE  WakeScheduled'
<1> USE DEF IInv
<1>1. PICK t \in running[l] :
        /\ t \in Task /\ t.queue \in Queues
        /\ \/ Work
           \/ \E o \in Queues : Merge(o, t.queue)
           \/ \E s \in Queues : Unmerge(l, s)
           \/ t.queue = l /\ Terminate(l)
           \/ ResumeSecondarySource(t.queue)
  BY TaskEffect
<1>2. /\ LoopOf(t.queue) = l
      /\ loop'[l] = "tail"
      /\ \A k \in Queues : k # l => loop'[k] = loop[k]
      /\ pending' = pending /\ pending' \subseteq Task /\ MaxTime \in Nat
  BY <1>1, QueuesAssumption DEF RunTask, RunsWhereOwned, TypeInv
<1>3. CASE Work
  BY <1>2, <1>3 DEF Work, WakeScheduled, Runnable, Sources
<1>4. CASE \E o \in Queues : Merge(o, t.queue)
  <2>1. PICK o \in Queues : Merge(o, t.queue)
    BY <1>4
  <2>2. ASSUME NEW k \in Queues, k # o
        PROVE  Sources(k)' \subseteq Sources(k)
    BY <1>1, <2>1, <2>2 DEF Merge, MergeAllowed, Sources, TypeInv
  <2>3. \A k \in Queues : k # o => Runnable(k)' \subseteq Runnable(k)
    BY <1>2, <2>1, <2>2 DEF Merge, Runnable
  <2> QED
    BY <1>2, <2>1, <2>3, WakeKept DEF Merge
<1>5. CASE \E s \in Queues : Unmerge(l, s)
  <2>1. PICK s \in Queues : Unmerge(l, s)
    BY <1>5
  <2>2. ASSUME NEW k \in Queues, k \notin {l, s}
        PROVE  Sources(k)' \subseteq Sources(k)
    BY <2>1, <2>2 DEF Unmerge, Released, Sources, TypeInv
  <2>3. \A k \in Queues : k \notin {l, s} => Runnable(k)' \subseteq Runnable(k)
    BY <1>2, <2>1, <2>2 DEF Unmerge, Runnable
  <2> QED
    BY <1>2, <2>1, <2>3, WakeKept DEF Unmerge, UnmergeWakes
<1>6. CASE Terminate(l)
  BY <1>2, <1>6 DEF Terminate, WakeScheduled, Runnable, Sources, TypeInv
<1>7. CASE ResumeSecondarySource(t.queue)
  <2>1. ASSUME NEW k \in Queues, k # l
        PROVE  Runnable(k)' \subseteq Runnable(k)
    <3>1. t.queue \notin Sources(k)
      BY <1>1, <1>2, <2>1, SourcesAreOwned
    <3> QED
      BY <1>2, <1>7, <3>1
         DEF ResumeSecondarySource, Runnable, Sources, TypeInv
  <2> QED
    BY <1>2, <1>7, <2>1, WakeKept DEF ResumeSecondarySource
<1> QED
  BY <1>1, <1>3, <1>4, <1>5, <1>6, <1>7

LEMMA LoopWakes ==
  ASSUME IInv, NEW l \in Queues, LoopStep(l), ~RunTask(l)
  PROVE  WakeScheduled'
<1> USE DEF IInv
<1>1. /\ UNCHANGED <<ownerOf, subsumedBy, pauses>> /\ pending' \subseteq pending
      /\ \A k \in Queues : k # l => loop'[k] = loop[k] /\ wake'[k] = wake[k]
  BY DEF LoopStep, OnEventFired, NothingPending, NotYet, Returned, StartTask,
     NextIteration, DisposeTasks, queueVars, TypeInv
<1>2. \A k \in Queues : Runnable(k)' \subseteq Runnable(k)
  BY <1>1 DEF Runnable, Sources
<1>3. SUFFICES ASSUME loop'[l] = "idle", NEW t \in Runnable(l)
               PROVE  wake'[l] <= t.time
  BY <1>1, <1>2 DEF WakeScheduled
<1>4. CASE NotYet(l)
  <2>1. PICK u \in Runnable(l) :
          IsNextTask(u, l) /\ wake' = [wake EXCEPT ![l] = u.time]
    BY <1>4 DEF NotYet
  <2>2. t = u \/ Before(u, t)
    BY <1>3, <2>1 DEF IsNextTask
  <2>3. u.time \in Int /\ wake'[l] = u.time
    BY <2>1 DEF Runnable, TypeInv, Task, Runners!Task
  <2>4. t.time \in Int
    BY <1>3 DEF Runnable, TypeInv, Task, Runners!Task
  <2> QED
    BY <2>2, <2>3, <2>4 DEF Before
<1>5. CASE NothingPending(l)
  BY <1>3, <1>5 DEF NothingPending
<1>6. CASE OnEventFired(l) \/ StartTask(l) \/ NextIteration(l) \/ DisposeTasks(l)
  BY <1>3, <1>6 DEF OnEventFired, StartTask, NextIteration, DisposeTasks, TypeInv
<1> QED
  BY <1>4, <1>5, <1>6 DEF LoopStep

LEMMA WakeStep == IInv /\ [Next]_vars => WakeScheduled'
<1> SUFFICES ASSUME IInv, [Next]_vars PROVE WakeScheduled'
  OBVIOUS
<1> USE DEF IInv
<1>1. TypeInv'
  BY TypeStep
<1>2. ASSUME NEW p \in Posters, NEW q \in Queues,
             \/ \E time \in now..MaxTime : PostTask(p, q, time)
             \/ PostDartTask(p, q)
      PROVE  WakeScheduled'
  BY <1>2 DEF PostTask, PostDartTask, WakeScheduled, Runnable, Sources,
     queueVars, loopVars
<1>3. ASSUME NEW p \in Posters, NEW q \in Queues, FireCallback(p, q)
      PROVE  WakeScheduled'
  <2>1. /\ pauses \in [Queues -> Nat] /\ pauses' = [pauses EXCEPT ![q] = @ + 1]
        /\ UNCHANGED <<pending, ownerOf, subsumedBy, wake, loop>>
    BY <1>3, PausesAreNat DEF FireCallback, loopVars
  <2>2. \A k \in Queues : pauses'[k] = 0 => pauses[k] = 0
    BY <2>1
  <2>3. \A t \in pending : t.queue \in Queues
    BY DEF TypeInv, Task, Runners!Task
  <2>4. \A l \in Queues : Runnable(l)' \subseteq Runnable(l)
    BY <2>1, <2>2, <2>3 DEF Runnable, Sources
  <2> QED
    BY <2>1, <2>4 DEF WakeScheduled
<1>4. CASE Tick \/ UNCHANGED vars
  BY <1>4 DEF Tick, vars, queueVars, loopVars, WakeScheduled, Runnable, Sources
<1> QED
  BY <1>1, <1>2, <1>3, <1>4, PosterWakes, EffectWakes, LoopWakes DEF Next, LoopStep

LEMMA Inductive == IInv /\ [Next]_vars => IInv'
BY TypeStep, ShapeStep, RunsStep, AloneStep, PlaceStep, CountStep, WakeStep
   DEF IInv

LEMMA Always == Spec => []IInv
BY InitInv, Inductive, PTL DEF Spec

-----------------------------------------------------------------------------
(* The theorems.                                                           *)

\* Every variable has its type; no pause is resumed twice, for any number of
\* queues, threads and tasks.
THEOREM TypeCorrect == Spec => []TypeOK
<1>1. IInv => TypeOK
  BY PausesAreNat DEF IInv, TypeInv, TypeOK
<1> QED
  BY <1>1, Always, PTL

\* owner_of and subsumed_by agree, and no owner is owned (Merge, Unmerge).
THEOREM MergesKeepShape == Spec => []MergeShape
<1>1. IInv => MergeShape
  BY DEF IInv
<1> QED
  BY <1>1, Always, PTL

\* A task runs on the loop that its queue belongs to.
THEOREM TasksRunWhereOwned == Spec => []RunsWhereOwned
<1>1. IInv => RunsWhereOwned
  BY DEF IInv
<1> QED
  BY <1>1, Always, PTL

\* No wake-up is lost (WakeUpUnlocked after each change of the queues).
THEOREM NoLostWakeUp == Spec => []WakeScheduled
<1>1. IInv => WakeScheduled
  BY DEF IInv
<1> QED
  BY <1>1, Always, PTL

-----------------------------------------------------------------------------
(* The refinement.                                                         *)

LEMMA RefinesInit == Init => Runners!RunnersInit
<1> SUFFICES ASSUME Init PROVE Runners!RunnersInit
  OBVIOUS
<1>1. \A q \in Queues : ~(pauses[q] > 0) /\ loop[q] # "done"
  BY DEF Init
<1>2. pending = {} /\ now = 0
  BY DEF Init
<1> QED
  BY <1>1, <1>2 DEF Runners!RunnersInit

\* Posting is the registration; before it nothing is promised.
LEMMA RefinesPoster ==
  ASSUME IInv, NEW p \in Posters, PosterStep(p), TypeInv'
  PROVE  Runners!RunnersNext \/ UNCHANGED Runners!runnerVars
<1> USE DEF IInv
<1>1. PICK r \in posting : CheckTerminated(r) \/ RegisterTask(r)
  BY DEF PosterStep
<1>2. CASE CheckTerminated(r)
  BY <1>2 DEF CheckTerminated, queueVars, loopVars, Runners!runnerVars
<1>3. CASE RegisterTask(r)
  <2> DEFINE n == [queue |-> r.queue, order |-> order, time |-> r.time,
                   grade |-> r.grade, job |-> r.job]
  <2>1. /\ pending' = pending \cup {n} /\ n.order = order
        /\ UNCHANGED <<pauses, loop, now>>
    BY <1>3 DEF RegisterTask, loopVars
  <2> HIDE DEF n
  <2>2. n \in pending' /\ n \in Task
    BY <2>1 DEF TypeInv
  <2>3. \A u \in pending : u.order < n.order
    BY <2>1 DEF Fresh
  <2>4. n \notin pending
    <3>1. n.order \in Nat
      BY <2>1 DEF TypeInv
    <3> QED
      BY <2>3, <3>1
  <2>5. Runners!Post(n)
    BY <2>1, <2>3 DEF Runners!Post
  <2> QED
    BY <2>2, <2>4, <2>5 DEF Runners!RunnersNext, Task
<1> QED
  BY <1>1, <1>2, <1>3

\* A task starts where its queue belongs, after all of its heap before it.
LEMMA RefinesStart ==
  ASSUME IInv, NEW l \in Queues, StartTask(l)
  PROVE  Runners!RunnersNext
<1> USE DEF IInv
<1>1. PICK t \in Runnable(l) :
        /\ IsNextTask(t, l) /\ t.time <= from[l] /\ pending' = pending \ {t}
  BY DEF StartTask
<1>2. /\ t \in pending /\ t.queue \in Queues /\ t.time \in Int
      /\ t.queue \in Sources(l)
      /\ t.grade = "dart" => pauses[t.queue] = 0
  BY <1>1 DEF Runnable, TypeInv, Task, Runners!Task
<1>3. t.time <= now
  <2>1. from[l] \in Int /\ now \in Int /\ from[l] <= now
    BY QueuesAssumption DEF TypeInv, Fresh
  <2> QED
    BY <1>1, <1>2, <2>1
<1>4. loop[t.queue] # "done"
  <2>1. CASE t.queue = l
    BY <2>1 DEF StartTask
  <2>2. CASE t.queue # l
    <3>1. subsumedBy[t.queue] = l
      BY <1>2, <2>2 DEF Sources, MergeShape
    <3>2. t.queue \notin terminated
      BY <1>2, <3>1, QueuesAssumption DEF Alone
    <3> QED
      BY <1>2, <3>2 DEF Alone, TypeInv
  <2> QED
    BY <2>1, <2>2
<1>5. ASSUME NEW u \in pending, Runners!SameHeap(t, u), u # t
      PROVE  Runners!Before(t, u)
  <2>1. u \in Runnable(l)
    BY <1>2, <1>5 DEF Runners!SameHeap, Runnable
  <2> QED
    BY <1>1, <1>5, <2>1 DEF IsNextTask, Before, Runners!Before
<1>6. t.queue \notin {q \in Queues : loop[q] = "done"}
  BY <1>4
<1>7. t.grade = "dart" => t.queue \notin {q \in Queues : pauses[q] > 0}
  BY <1>2
<1>8. UNCHANGED <<pauses, now>> /\
      \A q \in Queues : loop'[q] = "done" <=> loop[q] = "done"
  BY DEF StartTask, TypeInv
<1>9. {q \in Queues : loop'[q] = "done"} = {q \in Queues : loop[q] = "done"}
  BY <1>8
<1>10. Runners!Run(t)
  BY <1>1, <1>3, <1>5, <1>6, <1>7, <1>8, <1>9 DEF Runners!Run
<1> QED
  BY <1>2, <1>10 DEF Runners!RunnersNext

\* The end of a thread drops the tasks of its own queue, which is all it has.
LEMMA RefinesDispose ==
  ASSUME IInv, NEW l \in Queues, DisposeTasks(l)
  PROVE  Runners!RunnersNext
<1> USE DEF IInv
<1>1. ownerOf[l] = {}
  BY DEF DisposeTasks, Alone, TypeInv
<1>2. pending' = {t \in pending : t.queue # l}
  BY <1>1 DEF DisposeTasks
<1>3. {q \in Queues : loop'[q] = "done"} =
        {q \in Queues : loop[q] = "done"} \cup {l}
  BY DEF DisposeTasks, TypeInv
<1>4. Runners!End(l)
  BY <1>2, <1>3 DEF Runners!End, DisposeTasks
<1> QED
  BY <1>4 DEF Runners!RunnersNext

\* What a task does pauses or resumes one queue at most.
LEMMA RefinesEffect ==
  ASSUME IInv, NEW l \in Queues, RunTask(l)
  PROVE  Runners!RunnersNext \/ UNCHANGED Runners!runnerVars
<1> USE DEF IInv
<1>1. PICK t \in running[l] :
        /\ t \in Task /\ t.queue \in Queues
        /\ \/ Work
           \/ \E o \in Queues : Merge(o, t.queue)
           \/ \E s \in Queues : Unmerge(l, s)
           \/ t.queue = l /\ Terminate(l)
           \/ ResumeSecondarySource(t.queue)
  BY TaskEffect
<1>2. /\ UNCHANGED <<pending, now>>
      /\ loop[l] # "done" => \A q \in Queues : loop'[q] = "done" <=> loop[q] = "done"
  BY DEF RunTask, TypeInv
<1>3. loop[l] # "done"
  BY <1>1 DEF OnePlace
<1>4. {q \in Queues : loop'[q] = "done"} = {q \in Queues : loop[q] = "done"}
  BY <1>2, <1>3
<1>5. CASE pauses' = pauses
  BY <1>2, <1>4, <1>5 DEF Runners!runnerVars
<1>6. CASE pauses' # pauses
  <2>1. pauses' = [pauses EXCEPT ![t.queue] = pauses[t.queue] - 1]
    BY <1>1, <1>6 DEF Work, Merge, Unmerge, Terminate, ResumeSecondarySource,
       ResumeSecondary
  <2>2. \A q \in Queues : q # t.queue => pauses'[q] = pauses[q]
    BY <2>1 DEF TypeInv
  <2>3. {q \in Queues : pauses'[q] > 0} \in
          {{q \in Queues : pauses[q] > 0} \cup {t.queue},
           {q \in Queues : pauses[q] > 0} \ {t.queue}}
    BY <1>1, <2>2
  <2>4. Runners!PauseOrResume(t.queue)
    BY <1>2, <1>4, <2>3 DEF Runners!PauseOrResume
  <2> QED
    BY <1>1, <2>4 DEF Runners!RunnersNext
<1> QED
  BY <1>5, <1>6

LEMMA RefinesNext ==
  IInv /\ [Next]_vars => [Runners!RunnersNext]_(Runners!runnerVars)
<1> SUFFICES ASSUME IInv, [Next]_vars
             PROVE  Runners!RunnersNext \/ UNCHANGED Runners!runnerVars
  OBVIOUS
<1>1. ASSUME NEW p \in Posters, NEW q \in Queues,
             \/ \E time \in now..MaxTime : PostTask(p, q, time)
             \/ PostDartTask(p, q)
      PROVE  UNCHANGED Runners!runnerVars
  BY <1>1 DEF PostTask, PostDartTask, queueVars, loopVars, Runners!runnerVars
<1>2. ASSUME NEW p \in Posters, NEW q \in Queues, FireCallback(p, q)
      PROVE  Runners!RunnersNext
  <2>1. pauses' = [pauses EXCEPT ![q] = @ + 1] /\ pauses \in [Queues -> Int]
        /\ UNCHANGED <<pending, now, loop>>
    BY <1>2 DEF FireCallback, loopVars, IInv, TypeInv
  <2>2. \A k \in Queues : k # q => pauses'[k] = pauses[k]
    BY <2>1
  <2>3. {k \in Queues : pauses'[k] > 0} \in
          {{k \in Queues : pauses[k] > 0} \cup {q},
           {k \in Queues : pauses[k] > 0} \ {q}}
    BY <2>2
  <2>4. Runners!PauseOrResume(q)
    BY <2>1, <2>3 DEF Runners!PauseOrResume
  <2> QED
    BY <2>4 DEF Runners!RunnersNext
<1>3. CASE Tick
  <2>1. Runners!Tick
    BY <1>3 DEF Tick, Runners!Tick, queueVars, loopVars
  <2> QED
    BY <2>1 DEF Runners!RunnersNext
<1>4. CASE UNCHANGED vars
  BY <1>4 DEF vars, queueVars, loopVars, Runners!runnerVars
<1>5. ASSUME NEW l \in Queues,
             \/ OnEventFired(l) \/ NothingPending(l)
             \/ NotYet(l) \/ NextIteration(l)
      PROVE  UNCHANGED Runners!runnerVars
  <2>1. UNCHANGED <<pending, now, pauses>> /\
        \A q \in Queues : loop'[q] = "done" <=> loop[q] = "done"
    BY <1>5 DEF OnEventFired, NothingPending, NotYet, NextIteration, Returned,
       queueVars, IInv, TypeInv
  <2>2. {q \in Queues : loop'[q] = "done"} = {q \in Queues : loop[q] = "done"}
    BY <2>1
  <2> QED
    BY <2>1, <2>2 DEF Runners!runnerVars
<1>6. TypeInv'
  BY TypeStep DEF IInv
<1> QED
  BY <1>1, <1>2, <1>3, <1>4, <1>5, <1>6, RefinesPoster, RefinesStart,
     RefinesDispose, RefinesEffect DEF Next, LoopStep

\* The queues and their loops implement TaskRunners: a task runs once, not
\* before its time nor while it is paused, in the order of its heap, whatever
\* is merged or unmerged meanwhile.
THEOREM QueuesImplementRunners == Spec => ImplementsTaskRunners
BY RefinesInit, RefinesNext, Always, PTL
   DEF Spec, ImplementsTaskRunners, Runners!RunnersSpec
=============================================================================
