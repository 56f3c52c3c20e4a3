---------------------------- MODULE TaskRunners -----------------------------
(***************************************************************************)
(* What a task runner promises to those who post to it: a task runs once,  *)
(* not before its time, after the tasks of the same heap that are due      *)
(* before it or were posted before it for the same time, and Dart's tasks  *)
(* wait while they are paused.  Which thread runs a task, and that runners *)
(* may share a thread for a while, is not visible here.                    *)
(***************************************************************************)
EXTENDS Naturals

CONSTANTS
  Queues,     \* the task queues, one for each runner
  MaxTime     \* bound: the clock, and the time a task is posted for

\* kUserInteraction and kUnspecified share the primary heap; kDartEventLoop
\* has the secondary one.  A job is a task's closure, as far as it matters.
Task == [queue : Queues, order : Nat, time : 0..MaxTime,
         grade : {"primary", "dart"}, job : {"work", "resume"}]

\* DelayedTask::operator>.
Before(t, u) == t.time < u.time \/ (t.time = u.time /\ t.order < u.order)

VARIABLES
  pending,   \* tasks that have been registered and have not started
  paused,    \* queues whose Dart tasks are paused
  ended,     \* queues whose thread has ended
  now        \* the clock

runnerVars == <<pending, paused, ended, now>>

SameHeap(t, u) == t.queue = u.queue /\ t.grade = u.grade

RunnersInit == pending = {} /\ paused = {} /\ ended = {} /\ now = 0

\* A posted task is after all the others for the same time.
Post(t) ==
  /\ \A u \in pending : u.order < t.order
  /\ pending' = pending \cup {t}
  /\ UNCHANGED <<paused, ended, now>>

Run(t) ==
  /\ t.queue \notin ended
  /\ t.time <= now
  /\ t.grade = "dart" => t.queue \notin paused
  /\ \A u \in pending : SameHeap(t, u) /\ u # t => Before(t, u)
  /\ pending' = pending \ {t}
  /\ UNCHANGED <<paused, ended, now>>

\* The runner's thread ends: what waits is dropped, and what is posted from
\* now on does not run.
End(q) ==
  /\ ended' = ended \cup {q}
  /\ pending' = {t \in pending : t.queue # q}
  /\ UNCHANGED <<paused, now>>

PauseOrResume(q) ==
  /\ paused' \in {paused \cup {q}, paused \ {q}}
  /\ UNCHANGED <<pending, ended, now>>

Tick == now' = now + 1 /\ UNCHANGED <<pending, paused, ended>>

RunnersNext ==
  \/ \E t \in pending' \ pending : t \in Task /\ Post(t)
  \/ \E t \in pending : Run(t)
  \/ \E q \in Queues : End(q) \/ PauseOrResume(q)
  \/ Tick

RunnersSpec == RunnersInit /\ [][RunnersNext]_runnerVars
=============================================================================
