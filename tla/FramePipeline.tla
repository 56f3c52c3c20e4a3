--------------------------- MODULE FramePipeline ---------------------------
(***************************************************************************)
(* The frame pipeline between the UI thread and the raster thread.         *)
(*                                                                         *)
(* Modelled code: the template Pipeline<R> (shell/common/pipeline.h), the  *)
(* part of the Animator that produces into it (BeginFrame, EndFrame and    *)
(* the destructor), Shell::OnAnimatorDraw, Rasterizer::Draw, and the end   *)
(* of life of the two owners in Shell::~Shell.                             *)
(*                                                                         *)
(* Two threads run it.  The UI thread reserves a slot, commits a frame and *)
(* posts a Draw task when the frame was first in the queue.  The raster    *)
(* task runner executes Draw tasks one after the other (it is sequential   *)
(* whichever OS thread serves it).  One step below is one access to what   *)
(* the threads share: a semaphore operation, a critical section of         *)
(* queue_mutex_, or a post to the raster task runner.                      *)
(***************************************************************************)
EXTENDS Integers, Sequences, FiniteSets

CONSTANTS
  Depths,     \* depths the Animator may give its pipeline
  MaxFrames   \* bound: frames the UI thread builds in one behaviour

ASSUME DepthAssumption     == Depths \subseteq Nat \ {0}
ASSUME MaxFramesAssumption == MaxFrames \in Nat

VARIABLES
  depth,        \* what the constructor was given: 1 when the platform and the
                \* raster task runner are one, 2 otherwise
  empty,        \* count of the semaphore empty_
  available,    \* count of the semaphore available_
  queue,        \* queue_, the committed items in order
  uiPc,         \* where the UI thread is
  slotHeld,     \* the Animator's producer_continuation_ is valid
  isFirst,      \* PipelineProduceResult::is_first_item of the last commit
  built,        \* frames committed so far; frame n is the n-th one
  rasterPc,     \* where the raster task runner is inside Draw
  item,         \* the item Consume took off the queue
  retry,        \* DoDraw asked to resubmit the item
  more,         \* consume_result is MoreAvailable
  shown,        \* the frame of the view's last_successful_task, 0 for none
  rasterTasks,  \* tasks posted to the raster task runner, oldest first
  rasterizer    \* the Rasterizer exists (its weak pointers are valid)

pipelineVars == <<depth, empty, available, queue>>
uiVars       == <<uiPc, slotHeld, isFirst, built>>
rasterVars   == <<rasterPc, item, retry, more, shown>>
vars         == <<pipelineVars, uiVars, rasterVars, rasterTasks, rasterizer>>

NullItem == 0               \* a null std::unique_ptr<FrameItem>
Frames   == 1..MaxFrames

UiStates     == {"idle", "publish", "notify", "dropping", "gone", "joined"}
RasterStates == {"idle", "claimed", "release", "retry", "recommit",
                 "republish", "finish", "crashed"}
RasterTasks  == {"first", "more", "reset"}

(* first: posted by Shell::OnAnimatorDraw, holds a weak pipeline pointer;  *)
(* more: posted by Rasterizer::Draw, holds a strong one; reset: destroys   *)
(* the Rasterizer.                                                         *)
Posted(task) == \E i \in 1..Len(rasterTasks) : rasterTasks[i] = task

Init ==
  /\ depth \in Depths
  /\ empty = depth /\ available = 0 /\ queue = << >>
  /\ uiPc = "idle" /\ slotHeld = FALSE /\ isFirst = FALSE /\ built = 0
  /\ rasterPc = "idle" /\ item = NullItem /\ retry = FALSE /\ more = FALSE
  /\ shown = 0
  /\ rasterTasks = << >> /\ rasterizer = TRUE

-----------------------------------------------------------------------------
(* UI thread: the Animator.                                                *)

Running == rasterPc # "crashed"     \* the process is alive

\* Semaphore::TryWait: it never blocks; the caller subtracts what it took.
\* Fault: the result is ignored.
TryWaitUnchecked(count) == TRUE
TryWait(count) == count > 0

\* Fault: is_first_item is computed after the item is queued.
FirstAfterPush(q) == FALSE
FirstItem(q) == q = << >>

\* BeginFrame asks for a continuation unless it still has one.  A full
\* pipeline leaves everything as it was; the Animator tries again at the
\* next vsync, which is this action again.
Produce ==
  /\ Running /\ uiPc = "idle" /\ ~slotHeld
  /\ TryWait(empty)
  /\ empty' = empty - 1
  /\ slotHeld' = TRUE
  /\ UNCHANGED <<depth, available, queue, uiPc, isFirst, built,
                 rasterVars, rasterTasks, rasterizer>>

\* The critical section of ProducerCommit, called by EndFrame.
ProducerCommit ==
  /\ Running /\ uiPc = "idle" /\ slotHeld
  /\ built < MaxFrames
  /\ built' = built + 1
  /\ queue' = Append(queue, built + 1)
  /\ isFirst' = FirstItem(queue)
  /\ slotHeld' = FALSE
  /\ uiPc' = "publish"
  /\ UNCHANGED <<depth, empty, available,
                 rasterVars, rasterTasks, rasterizer>>

\* available_.Signal(), after queue_mutex_ is released.
SignalAvailable ==
  /\ Running /\ uiPc \in {"publish", "dropping"}
  /\ available' = available + 1
  /\ uiPc' = IF uiPc = "publish" THEN "notify" ELSE "gone"
  /\ UNCHANGED <<depth, empty, queue, slotHeld, isFirst, built,
                 rasterVars, rasterTasks, rasterizer>>

\* The end of EndFrame: only the first item of the pipeline is announced.
OnAnimatorDraw ==
  /\ Running /\ uiPc = "notify"
  /\ uiPc' = "idle"
  /\ rasterTasks' = IF isFirst THEN Append(rasterTasks, "first")
                               ELSE rasterTasks
  /\ UNCHANGED <<pipelineVars, slotHeld, isFirst, built,
                 rasterVars, rasterizer>>

\* engine_.reset() on the UI thread destroys the Animator.  A continuation
\* it still holds commits a null resource from its destructor.
DestroyAnimator ==
  /\ Running /\ uiPc = "idle"
  /\ IF slotHeld
       THEN /\ queue' = Append(queue, NullItem)
            /\ uiPc' = "dropping"
       ELSE /\ uiPc' = "gone"
            /\ UNCHANGED queue
  /\ slotHeld' = FALSE
  /\ UNCHANGED <<depth, empty, available, isFirst, built,
                 rasterVars, rasterTasks, rasterizer>>

\* Shell::~Shell, once ui_latch is signalled, posts the task that destroys
\* the Rasterizer.
PostRasterizerReset ==
  /\ Running /\ uiPc = "gone"
  /\ uiPc' = "joined"
  /\ rasterTasks' = Append(rasterTasks, "reset")
  /\ UNCHANGED <<pipelineVars, slotHeld, isFirst, built,
                 rasterVars, rasterizer>>

-----------------------------------------------------------------------------
(* Raster task runner: Rasterizer::Draw and Pipeline::Consume.             *)

\* The weak pointer of a "first" task locks while the Animator or another
\* posted Draw owns the pipeline.
PipelineAlive == uiPc \notin {"gone", "joined"} \/ Posted("more")

\* The Draw task at the head runs: both pointers it holds are valid.
DrawRuns ==
  /\ rasterPc = "idle" /\ rasterTasks # << >>
  /\ Head(rasterTasks) \in {"first", "more"}
  /\ rasterizer
  /\ Head(rasterTasks) = "first" => PipelineAlive

NextTask == rasterTasks' = Tail(rasterTasks)

\* available_.TryWait() succeeds: one committed item is now claimed.
ClaimItem ==
  /\ DrawRuns /\ TryWait(available)
  /\ available' = available - 1
  /\ rasterPc' = "claimed"
  /\ NextTask
  /\ UNCHANGED <<depth, empty, queue, uiVars, item, retry, more, shown,
                 rasterizer>>

\* available_.TryWait() fails: Consume returns NoneAvailable and Draw
\* returns kPipelineEmpty.
FindNothing ==
  /\ DrawRuns /\ ~TryWait(available)
  /\ NextTask
  /\ UNCHANGED <<pipelineVars, uiVars, rasterVars, rasterizer>>

\* A Draw task whose pipeline or rasterizer is gone does nothing.
SkipDeadDraw ==
  /\ rasterPc = "idle" /\ rasterTasks # << >>
  /\ Head(rasterTasks) \in {"first", "more"}
  /\ ~DrawRuns
  /\ NextTask
  /\ UNCHANGED <<pipelineVars, uiVars, rasterVars, rasterizer>>

ResetRasterizer ==
  /\ rasterPc = "idle" /\ rasterTasks # << >>
  /\ Head(rasterTasks) = "reset"
  /\ rasterizer' = FALSE
  /\ NextTask
  /\ UNCHANGED <<pipelineVars, uiVars, rasterVars>>

\* What the view's record shows after a draw: a tree that was drawn becomes
\* last_successful_task; one to be retried, discarded or failed does not.
ShownAfter(frame, again) == IF again THEN {shown} ELSE {shown, frame}

\* The critical section of Consume pops the front item and DoDraw draws it.
\* The frame reaches the screen, or it is dropped (no surface, GPU not
\* available, tree discarded), or it must be resubmitted; with it
\* DecrementLease may have unmerged the threads (kEnqueuePipeline).  The
\* null item of a dropped continuation is dereferenced by the consumer.
ConsumeItem ==
  /\ rasterPc = "claimed" /\ queue # << >>
  /\ item' = Head(queue)
  /\ queue' = Tail(queue)
  /\ IF Head(queue) = NullItem
       THEN /\ rasterPc' = "crashed"
            /\ UNCHANGED <<retry, more, shown>>
       ELSE /\ rasterPc' = "release"
            /\ retry' \in BOOLEAN
            /\ shown' \in ShownAfter(Head(queue), retry')
            /\ \E unmerged \in BOOLEAN :
                 more' = (Len(queue) > 1 \/ (unmerged /\ ~retry'))
  /\ UNCHANGED <<depth, empty, available, uiVars, rasterTasks, rasterizer>>

\* The end of Consume: empty_.Signal().
ReleaseSlot ==
  /\ rasterPc = "release"
  /\ empty' = empty + 1
  /\ rasterPc' = IF retry THEN "retry" ELSE "finish"
  /\ UNCHANGED <<depth, available, queue, uiVars, item, retry, more, shown,
                 rasterTasks, rasterizer>>

\* Resubmission takes a slot like any producer.  When none is free the
\* continuation is empty, Complete fails and the frame is abandoned.
ProduceIfEmpty ==
  /\ rasterPc = "retry"
  /\ IF TryWait(empty)
       THEN /\ empty' = empty - 1
            /\ rasterPc' = "recommit"
       ELSE /\ rasterPc' = "finish"
            /\ UNCHANGED empty
  /\ UNCHANGED <<depth, available, queue, uiVars, item, retry, more, shown,
                 rasterTasks, rasterizer>>

\* ProducerCommitIfEmpty bails when a frame was queued in the meantime.
\* Faults: it commits anyway; the condition is inverted.
NeverBails == FALSE
BailsWhenAlone == queue = << >>
Bails == queue # << >>

\* Bailing gives the slot back to empty_.
\* Fault: the slot is not given back.
EmptyKeptAfterBail == empty
EmptyAfterBail == empty + 1

\* Fault: what is resubmitted has been moved away before.
MovedFromItem == NullItem
ResubmittedItem == item

\* The critical section of ProducerCommitIfEmpty.
ProducerCommitIfEmpty ==
  /\ rasterPc = "recommit"
  /\ IF Bails
       THEN /\ empty' = EmptyAfterBail
            /\ rasterPc' = "finish"
            /\ UNCHANGED queue
       ELSE /\ queue' = Append(queue, ResubmittedItem)
            /\ rasterPc' = "republish"
            /\ UNCHANGED empty
  /\ UNCHANGED <<depth, available, uiVars, item, retry, more, shown,
                 rasterTasks, rasterizer>>

\* Fault: Draw is not posted again.
RepublishAndLeave ==
  /\ rasterPc = "republish"
  /\ available' = available + 1
  /\ rasterPc' = "finish"
  /\ UNCHANGED <<depth, empty, queue, uiVars, item, retry, more, shown,
                 rasterTasks, rasterizer>>

\* available_.Signal() for the resubmitted item; Draw will be posted again.
Republish ==
  /\ rasterPc = "republish"
  /\ available' = available + 1
  /\ more' = TRUE
  /\ rasterPc' = "finish"
  /\ UNCHANGED <<depth, empty, queue, uiVars, item, retry, shown,
                 rasterTasks, rasterizer>>

\* The end of Draw: post another Draw when more is available.
FinishDraw ==
  /\ rasterPc = "finish"
  /\ rasterPc' = "idle"
  /\ rasterTasks' = IF more THEN Append(rasterTasks, "more") ELSE rasterTasks
  /\ item' = NullItem /\ retry' = FALSE /\ more' = FALSE
  /\ UNCHANGED <<pipelineVars, uiVars, shown, rasterizer>>

-----------------------------------------------------------------------------
UiStep ==
  \/ Produce \/ ProducerCommit \/ SignalAvailable
  \/ OnAnimatorDraw \/ DestroyAnimator \/ PostRasterizerReset

RasterStep ==
  \/ ClaimItem \/ FindNothing \/ SkipDeadDraw \/ ResetRasterizer
  \/ ConsumeItem \/ ReleaseSlot \/ ProduceIfEmpty
  \/ ProducerCommitIfEmpty \/ Republish \/ FinishDraw

Next == UiStep \/ RasterStep

Spec == Init /\ [][Next]_vars

\* A thread finishes the call it is in, and a message loop runs what was
\* posted to it.  Nothing obliges the UI thread to begin or build a frame,
\* nor the shell to be destroyed.
Fairness ==
  /\ WF_vars(SignalAvailable \/ OnAnimatorDraw \/ PostRasterizerReset)
  /\ WF_vars(RasterStep)

FairSpec == Spec /\ Fairness

-----------------------------------------------------------------------------
(* Properties.                                                             *)

One(cond) == IF cond THEN 1 ELSE 0

Flags ==
  /\ slotHeld \in BOOLEAN /\ isFirst \in BOOLEAN
  /\ retry \in BOOLEAN /\ more \in BOOLEAN
  /\ rasterizer \in BOOLEAN

\* The values every variable ranges over.
TypeOK ==
  /\ Flags
  /\ depth \in Depths /\ empty \in Nat /\ available \in Nat
  /\ queue \in Seq(Frames \cup {NullItem})
  /\ uiPc \in UiStates
  /\ built \in 0..MaxFrames
  /\ rasterPc \in RasterStates
  /\ item \in Frames \cup {NullItem}
  /\ shown \in Frames \cup {NullItem}
  /\ rasterTasks \in Seq(RasterTasks)

\* Slot conservation.  Whatever path a slot takes (commit, resubmission that
\* succeeds, resubmission that bails, a continuation dropped at shutdown),
\* the free slots and the ones in use add up to the depth: no interleaving
\* leaks a slot, which would stall the Animator for good, or mints one.
SlotConservation ==
  empty + One(slotHeld) + Len(queue)
        + One(rasterPc \in {"release", "recommit", "crashed"}) = depth

\* Every count of available_ stands for one committed item nobody claimed:
\* the queue holds exactly the signalled items, the ones a producer is about
\* to signal and the one the consumer has claimed and not yet popped.
AvailableCounts ==
  available + One(uiPc \in {"publish", "dropping"})
            + One(rasterPc \in {"republish", "claimed"}) = Len(queue)

\* Both accounts balance, on whatever path a slot and an item go.
Accounts == SlotConservation /\ AvailableCounts

\* Consume calls queue_.front() without looking whether the queue is empty:
\* the semaphore alone guarantees that there is an item to pop.
PopSafe == rasterPc = "claimed" => queue # << >>

\* Waiting frames are in the order they were built and newer than the one
\* shown; a frame that is to be resubmitted is newer than the one shown too,
\* and older than every waiting one.
Ascending ==
  \A i \in 1..Len(queue) :
    queue[i] # NullItem =>
      /\ shown < queue[i] /\ queue[i] <= built
      /\ \A j \in 1..(i - 1) : queue[j] < queue[i]
RetriedBeforeWaiting ==
  retry /\ rasterPc \in {"release", "retry", "recommit"} =>
    /\ shown < item /\ item <= built
    /\ \A i \in 1..Len(queue) : queue[i] # NullItem => item < queue[i]
FramesInOrder ==
  /\ Ascending /\ RetriedBeforeWaiting
  /\ shown <= built
  /\ rasterPc \in {"retry", "recommit"} => retry

\* A frame built earlier never replaces on screen a frame built later, even
\* when it is resubmitted while the UI thread goes on producing.
NoStaleFrame == [][shown' >= shown]_shown

\* A frame to be resubmitted may be given up, but only when another frame is
\* waiting or a slot is reserved for one: the raster thread never drops the
\* only frame there is.
GivesUp == rasterPc \in {"retry", "recommit"} /\ rasterPc' = "finish"
NeverDropsTheOnlyFrame == [][GivesUp => queue # << >> \/ slotHeld]_vars

\* The pipeline is the bounded queue of module FrameQueue: semaphores, mutex
\* and counters together never let a producer exceed the depth, lose an item
\* or reorder two of them.
Slots == INSTANCE FrameQueue WITH
  Items    <- Frames \cup {NullItem},
  reserved <- One(slotHeld) + One(rasterPc = "recommit"),
  waiting  <- queue,
  taken    <- rasterPc \in {"release", "crashed"}

ImplementsFrameQueue == Slots!QueueSpec

\* With one slot, a frame that waits while nobody is at work has a Draw on
\* its way: no frame is left behind by a Draw that came too early.
WakePending ==
  depth = 1 /\ uiPc = "idle" /\ queue # << >> =>
    rasterPc # "idle" \/ Posted("first") \/ Posted("more")

\* A continuation destroyed without a resource commits a null item
\* (pipeline.h:89), and the consumer dereferences what it takes.  Only the
\* Animator's destructor does this: a null item is met at shutdown alone, and
\* nothing is ever queued behind it.
ShuttingDown == uiPc \in {"dropping", "gone", "joined"}
NullItemEndsTheQueue ==
  /\ \A i \in 1..Len(queue) :
       queue[i] = NullItem => i = Len(queue) /\ ShuttingDown
  /\ rasterPc = "crashed" => queue = << >> /\ ShuttingDown

\* With one slot, every committed frame is taken by the raster thread, unless
\* the shell is being destroyed.
InQueue(n) == \E i \in 1..Len(queue) : queue[i] = n
LoneSlotFrameTaken ==
  \A n \in Frames :
    (depth = 1 /\ InQueue(n)) ~> (~InQueue(n) \/ ShuttingDown)

\* "Eventually the 'Rasterizer' will consume it" (animator.cc:150), which the
\* Animator relies on whatever the depth.
EveryFrameTaken ==
  \A n \in Frames : InQueue(n) ~> (~InQueue(n) \/ ShuttingDown)
=============================================================================
