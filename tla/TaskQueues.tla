----------------------------- MODULE TaskQueues -----------------------------
(***************************************************************************)
(* fml::MessageLoopTaskQueues and the message loops that run its tasks:    *)
(* every thread has a queue and a loop; a queue can be merged into another *)
(* one, whose loop then runs the tasks of both; the Dart tasks of a queue  *)
(* are paused between a vsync and the end of its frame.  The methods of    *)
(* MessageLoopTaskQueues hold queue_mutex_ and are single steps.           *)
(***************************************************************************)
EXTENDS Integers, FiniteSets

CONSTANTS
  Queues,     \* the task queues; a loop has the name of its queue
  NoQueue,    \* kUnmerged
  Posters,    \* the threads that post tasks
  MaxTasks,   \* bound: tasks registered, and pauses of a queue
  MaxTime     \* bound: the clock

ASSUME QueuesAssumption ==
  NoQueue \notin Queues /\ MaxTasks \in Nat /\ MaxTime \in Nat

VARIABLES
  pending,      \* the tasks of all TaskSources
  order,        \* order_, the number of the next task
  ownerOf,      \* queue -> owner_of
  subsumedBy,   \* queue -> subsumed_by
  pauses,       \* queue -> secondary_pause_requests_
  wake,         \* loop -> when its timer fires, Never when disarmed
  now,          \* the clock
  loop,         \* loop -> where its thread is
  from,         \* loop -> FlushTasks' "now", 0 outside FlushTasks
  running,      \* loop -> the task it runs, as a set
  terminated,   \* loops whose terminated_ is set
  leaving,      \* loops whose Run has returned
  posting       \* calls to PostTask that have not registered their task

queueVars == <<pending, order, ownerOf, subsumedBy, pauses>>
loopVars == <<loop, from, running, terminated, leaving>>
vars == <<queueVars, wake, now, loopVars, posting>>

\* TimePoint::Max.
Never == MaxTime + 1

Runners == INSTANCE TaskRunners WITH
  paused <- {q \in Queues : pauses[q] > 0},
  ended  <- {q \in Queues : loop[q] = "done"}

Task == Runners!Task

Request == [poster : Posters, stage : {"check", "register"}, queue : Queues,
            time : 0..MaxTime, grade : {"primary", "dart"},
            job : {"work", "resume"}]

Init ==
  /\ pending = {} /\ order = 0
  /\ ownerOf = [q \in Queues |-> {}]
  /\ subsumedBy = [q \in Queues |-> NoQueue]
  /\ pauses = [q \in Queues |-> 0]
  /\ wake = [q \in Queues |-> Never] /\ now = 0
  /\ loop = [q \in Queues |-> "idle"] /\ from = [q \in Queues |-> 0]
  /\ running = [q \in Queues |-> {}]
  /\ terminated = {} /\ leaving = {} /\ posting = {}

-----------------------------------------------------------------------------
(* What a loop sees of the queues.                                         *)

\* A loop runs the tasks of the queues it owns, none while it is subsumed; and
\* a loop that does not know it is.
IgnoresOwner(l) == {l} \cup ownerOf[l]
Sources(l) == IF subsumedBy[l] # NoQueue THEN {} ELSE {l} \cup ownerOf[l]

\* TaskSource: the secondary heap is invisible while it is paused.
Runnable(l) ==
  {t \in pending : /\ t.queue \in Sources(l)
                   /\ t.grade = "dart" => pauses[t.queue] = 0}

\* DelayedTask::operator>, and a comparison that forgets the order.
ByTime(t, u) == t.time <= u.time
Before(t, u) == t.time < u.time \/ (t.time = u.time /\ t.order < u.order)

IsNextTask(t, l) ==
  t \in Runnable(l) /\ \A u \in Runnable(l) : u # t => Before(t, u)

\* WakeUp(GetNextWakeTime) for those loops of ls that have a task to run,
\* after the other changes of the step.
WakeUp(ls) ==
  wake' \in {w \in [Queues -> 0..Never] : \A l \in Queues :
               IF l \in ls /\ Runnable(l)' # {}
               THEN \E t \in Runnable(l)' : IsNextTask(t, l)' /\ w[l] = t.time
               ELSE w[l] = wake[l]}

-----------------------------------------------------------------------------
(* Posting a task, by any thread.                                          *)

CanPost(p) ==
  /\ \A r \in posting : r.poster # p
  /\ order + Cardinality(posting) < MaxTasks

\* TaskRunner::PostTask, PostTaskForTime and PostDelayedTask: the time is
\* computed before anything else.
PostTask(p, q, time) ==
  /\ CanPost(p)
  /\ posting' = posting \cup
       {[poster |-> p, stage |-> "check", queue |-> q, time |-> time,
         grade |-> "primary", job |-> "work"]}
  /\ UNCHANGED <<queueVars, wake, now, loopVars>>

\* The dispatcher of a Dart isolate registers its task directly.
PostDartTask(p, q) ==
  /\ CanPost(p)
  /\ posting' = posting \cup
       {[poster |-> p, stage |-> "register", queue |-> q, time |-> now,
         grade |-> "dart", job |-> "work"]}
  /\ UNCHANGED <<queueVars, wake, now, loopVars>>

\* VsyncWaiter::FireCallback pauses the Dart tasks and posts the frame, whose
\* last act is to resume them.
FireCallback(p, q) ==
  /\ CanPost(p)
  /\ pauses[q] < MaxTasks
  /\ pauses' = [pauses EXCEPT ![q] = @ + 1]
  /\ posting' = posting \cup
       {[poster |-> p, stage |-> "check", queue |-> q, time |-> now,
         grade |-> "primary", job |-> "resume"]}
  /\ UNCHANGED <<pending, order, ownerOf, subsumedBy, wake, now, loopVars>>

\* MessageLoopImpl::PostTask reads terminated_ without a lock.
CheckTerminated(r) ==
  /\ r.stage = "check"
  /\ posting' = (posting \ {r}) \cup
       IF r.queue \in terminated THEN {} ELSE {[r EXCEPT !.stage = "register"]}
  /\ UNCHANGED <<queueVars, wake, now, loopVars>>

\* The loop that a new task concerns, and its own loop whatever it is.
OwnLoop(q) == q
LoopOf(q) == IF subsumedBy[q] # NoQueue THEN subsumedBy[q] ELSE q

RegisterTask(r) ==
  /\ r.stage = "register"
  /\ pending' = pending \cup
       {[queue |-> r.queue, order |-> order, time |-> r.time,
         grade |-> r.grade, job |-> r.job]}
  /\ order' = order + 1
  /\ posting' = posting \ {r}
  /\ UNCHANGED <<ownerOf, subsumedBy, pauses, now, loopVars>>
  /\ WakeUp({LoopOf(r.queue)})

PosterStep(p) ==
  \E r \in posting : r.poster = p /\ (CheckTerminated(r) \/ RegisterTask(r))

-----------------------------------------------------------------------------
(* A loop.                                                                 *)

\* The timer fires and is drained; FlushTasks reads the clock.
OnEventFired(l) ==
  /\ loop[l] = "idle"
  /\ wake[l] <= now
  /\ loop' = [loop EXCEPT ![l] = "flush"]
  /\ from' = [from EXCEPT ![l] = now]
  /\ wake' = [wake EXCEPT ![l] = Never]
  /\ UNCHANGED <<queueVars, now, running, terminated, leaving, posting>>

\* FlushTasks returns: to Run, which waits for the timer or returns itself; to
\* DoRun, whose last flush is next; or to DoRun after that one.
Returned(l) ==
  \/ /\ l \notin terminated
     /\ loop' = [loop EXCEPT ![l] = "idle"]
     /\ from' = [from EXCEPT ![l] = 0]
     /\ UNCHANGED leaving
  \/ /\ l \in terminated \ leaving
     /\ leaving' = leaving \cup {l}
     /\ from' = [from EXCEPT ![l] = now]
     /\ UNCHANGED loop
  \/ /\ l \in leaving
     /\ loop' = [loop EXCEPT ![l] = "dispose"]
     /\ from' = [from EXCEPT ![l] = 0]
     /\ UNCHANGED leaving

\* GetNextTaskToRun, in its three outcomes.
NothingPending(l) ==
  /\ loop[l] = "flush"
  /\ Runnable(l) = {}
  /\ Returned(l)
  /\ UNCHANGED <<queueVars, wake, now, running, terminated, posting>>

NotYet(l) ==
  /\ loop[l] = "flush"
  /\ \E t \in Runnable(l) :
       /\ IsNextTask(t, l)
       /\ t.time > from[l]
       /\ wake' = [wake EXCEPT ![l] = t.time]
  /\ Returned(l)
  /\ UNCHANGED <<queueVars, now, running, terminated, posting>>

StartTask(l) ==
  /\ loop[l] = "flush"
  /\ \E t \in Runnable(l) :
       /\ IsNextTask(t, l)
       /\ t.time <= from[l]
       /\ wake' = [wake EXCEPT ![l] = t.time]
       /\ pending' = pending \ {t}
       /\ running' = [running EXCEPT ![l] = {t}]
  /\ loop' = [loop EXCEPT ![l] = "run"]
  /\ UNCHANGED <<order, ownerOf, subsumedBy, pauses, now, from, terminated,
                 leaving, posting>>

\* The observers have been notified; FlushTasks asks for the next task.
NextIteration(l) ==
  /\ loop[l] = "tail"
  /\ loop' = [loop EXCEPT ![l] = "flush"]
  /\ UNCHANGED <<queueVars, wake, now, from, running, terminated, leaving,
                 posting>>

DisposeTasks(l) ==
  /\ loop[l] = "dispose"
  /\ pending' = {t \in pending : t.queue \notin {l} \cup ownerOf[l]}
  /\ loop' = [loop EXCEPT ![l] = "done"]
  /\ UNCHANGED <<order, ownerOf, subsumedBy, pauses, wake, now, from, running,
                 terminated, leaving, posting>>

-----------------------------------------------------------------------------
(* What a task does, as far as queues and loops are concerned.  The rest   *)
(* of the task, and the observers, are the step "tail".                    *)

Work == UNCHANGED <<ownerOf, subsumedBy, pauses, wake, terminated>>

\* The checks of Merge.
MergeAllowed(o, s) ==
  /\ o # s
  /\ subsumedBy[o] = NoQueue
  /\ ownerOf[s] = {}
  /\ subsumedBy[s] = NoQueue

Merge(o, s) ==
  /\ {o, s} \cap terminated = {}
  /\ MergeAllowed(o, s)
  /\ ownerOf' = [ownerOf EXCEPT ![o] = @ \cup {s}]
  /\ subsumedBy' = [subsumedBy EXCEPT ![s] = o]
  /\ UNCHANGED <<pending, pauses, terminated>>
  /\ WakeUp({o})

\* The loops that Unmerge wakes, and the owner's alone.
OnlyOwner(o, s) == {o}
UnmergeWakes(o, s) == {o, s}

\* What the owner still owns, and an owner that forgets to erase.
StillOwned(o, s) == ownerOf[o]
Released(o, s) == ownerOf[o] \ {s}

Unmerge(o, s) ==
  /\ s \in ownerOf[o]
  /\ subsumedBy[o] = NoQueue
  /\ ownerOf' = [ownerOf EXCEPT ![o] = Released(o, s)]
  /\ subsumedBy' = [subsumedBy EXCEPT ![s] = NoQueue]
  /\ UNCHANGED <<pending, pauses, terminated>>
  /\ WakeUp(UnmergeWakes(o, s))

\* ResumeSecondary, and one that resumes twice.
ResumesTwice(n) == n - 2
ResumeSecondary(n) == n - 1

ResumeSecondarySource(q) ==
  /\ pauses' = [pauses EXCEPT ![q] = ResumeSecondary(@)]
  /\ UNCHANGED <<pending, ownerOf, subsumedBy, terminated>>
  /\ WakeUp({q})

\* Thread::Join posts this task to a thread that shares no queue.
Terminate(l) ==
  /\ ownerOf[l] = {} /\ subsumedBy[l] = NoQueue
  /\ terminated' = terminated \cup {l}
  /\ wake' = [wake EXCEPT ![l] = now]
  /\ UNCHANGED <<ownerOf, subsumedBy, pauses>>

RunTask(l) ==
  /\ \E t \in running[l] :
       \/ /\ t.job = "work"
          /\ \/ Work
             \/ \E o \in Queues : Merge(o, t.queue)
             \/ \E s \in Queues : Unmerge(l, s)
             \/ t.queue = l /\ Terminate(l)
       \/ t.job = "resume" /\ ResumeSecondarySource(t.queue)
  /\ running' = [running EXCEPT ![l] = {}]
  /\ loop' = [loop EXCEPT ![l] = "tail"]
  /\ UNCHANGED <<pending, order, now, from, leaving, posting>>

LoopStep(l) ==
  \/ OnEventFired(l) \/ NothingPending(l) \/ NotYet(l) \/ StartTask(l)
  \/ RunTask(l) \/ NextIteration(l) \/ DisposeTasks(l)

Tick ==
  /\ now < MaxTime
  /\ now' = now + 1
  /\ UNCHANGED <<queueVars, wake, loopVars, posting>>

Next ==
  \/ \E p \in Posters, q \in Queues :
       \/ \E time \in now..MaxTime : PostTask(p, q, time)
       \/ PostDartTask(p, q)
       \/ FireCallback(p, q)
  \/ \E p \in Posters : PosterStep(p)
  \/ \E l \in Queues : LoopStep(l)
  \/ Tick

Spec == Init /\ [][Next]_vars

\* Threads that are inside PostTask or in their loop go on; the clock, and who
\* posts what, are free.
Fairness ==
  /\ \A p \in Posters : WF_vars(PosterStep(p))
  /\ \A l \in Queues : WF_vars(LoopStep(l))

FairSpec == Spec /\ Fairness

-----------------------------------------------------------------------------
(* Properties.                                                             *)

\* Every variable has its type: a pause is never resumed twice
\* (task_source.cc:100).
TypeOK ==
  /\ pending \subseteq Task
  /\ order \in Nat
  /\ ownerOf \in [Queues -> SUBSET Queues]
  /\ subsumedBy \in [Queues -> Queues \cup {NoQueue}]
  /\ pauses \in [Queues -> Nat]
  /\ wake \in [Queues -> 0..Never]
  /\ now \in 0..MaxTime
  /\ loop \in [Queues -> {"idle", "flush", "run", "tail", "dispose", "done"}]
  /\ from \in [Queues -> 0..MaxTime]
  /\ running \in [Queues -> SUBSET Task]
  /\ terminated \subseteq Queues /\ leaving \subseteq terminated
  /\ posting \subseteq Request

\* A queue has one owner at most, an owner is not owned, and both ends of a
\* merge know of it (message_loop_task_queues.h, "subsumed_by").
MergeShape ==
  \A q, o \in Queues :
    /\ q \in ownerOf[o] <=> subsumedBy[q] = o
    /\ subsumedBy[q] # NoQueue => ownerOf[q] = {}

\* No wake-up is lost: when a loop waits, its timer fires no later than the
\* time of any task it could run, whoever posted, merged, unmerged, paused or
\* resumed meanwhile.
WakeScheduled ==
  \A l \in Queues : loop[l] = "idle" =>
    \A t \in Runnable(l) : wake[l] <= t.time

\* A task starts on the loop that owns its queue, and the queue stays with that
\* loop until the task itself changes it: no task of the queue runs elsewhere.
RunsWhereOwned ==
  \A l \in Queues : \A t \in running[l] : LoopOf(t.queue) = l

\* Which thread runs a task, and that queues are merged and unmerged under it,
\* cannot be seen from the order of the tasks of a runner.
ImplementsTaskRunners == Runners!RunnersSpec

DueTasks == {t \in pending : t.time <= now /\ t.queue \notin terminated}

\* Every task runs once its time has come, Dart's tasks after their pauses,
\* unless its loop is terminated.  (A task is due until it has run, and their
\* number is bounded: that none is due says that each has run.)
EveryDueTaskRuns == DueTasks # {} ~> DueTasks = {}
=============================================================================
