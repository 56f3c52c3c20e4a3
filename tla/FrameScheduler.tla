--------------------------- MODULE FrameScheduler ----------------------------
(***************************************************************************)
(* When a frame is built: the Animator, the VsyncWaiter and the            *)
(* SmoothPointerDataDispatcher that shares its vsync signal, over a        *)
(* FrameQueue (what FramePipeline is proved to implement).                 *)
(*                                                                         *)
(* The UI thread runs one task at a time; `ui` holds what its task still   *)
(* has to do, split where it touches state of another thread.  The         *)
(* platform's vsync thread runs FireCallback; `fired` holds what that      *)
(* still has to do.  callback_mutex_ protects callback and secondary only. *)
(***************************************************************************)
EXTENDS FrameQueue, FiniteSets, Functions

CONSTANTS
  MaxPackets,     \* bound: pointer data packets
  TextureFrames   \* the embedder has external textures

ASSUME SchedulerAssumption ==
  Depths \subseteq Nat \ {0} /\ MaxPackets \in Nat /\ TextureFrames \in BOOLEAN

VARIABLES
  sem,         \* pending_frame_semaphore_
  regenerate,  \* regenerate_layer_trees_
  scheduled,   \* frame_scheduled_
  recorder,    \* frame_timings_recorder_ is set
  trees,       \* layer_trees_tasks_ is not empty
  flows,       \* trace_flow_ids_ is not empty
  callback,    \* VsyncWaiter::callback_ is set
  secondary,   \* keys of secondary_callbacks_
  requested,   \* calls of AwaitVSync the platform has not answered
  ui, fired,   \* what is left of the running UI task and of FireCallback
  tasks,       \* tasks posted to the UI task runner
  paused,      \* pauses of the UI queue's secondary source (Dart's tasks)
  arrived, delivered,  \* packets so far: dispatched to us, sent to Dart
  pending,     \* pending_packet_, 0 when there is none
  inProgress   \* is_pointer_data_in_progress_

animatorVars == <<sem, regenerate, scheduled>>
frameVars    == <<recorder, trees, queueVars>>
waiterVars   == <<callback, secondary, requested, fired, paused>>
pointerVars  == <<arrived, delivered, pending, inProgress>>
vars == <<animatorVars, frameVars, flows, waiterVars, ui, tasks, pointerVars>>

Init ==
  /\ QueueInit
  /\ sem = 1 /\ regenerate = FALSE /\ scheduled = FALSE
  /\ recorder = FALSE /\ trees = FALSE /\ flows = FALSE
  /\ callback = FALSE /\ secondary = {} /\ requested = 0 /\ paused = 0
  /\ ui = << >> /\ fired = << >> /\ tasks = << >>
  /\ arrived = 0 /\ delivered = 0 /\ pending = 0 /\ inProgress = FALSE

Idle == ui = << >>
Doing(op) == ui # << >> /\ Head(ui) = op
\* A task that has been posted starts to run.
Starts(task) == Idle /\ tasks # << >> /\ Head(tasks) = task

-----------------------------------------------------------------------------
(* Animator::RequestFrame.                                                 *)

\* RequestFrame(regen) when the semaphore is s and the queue of tasks is q.
RequestFrame(regen, s, q) ==
  /\ regenerate' = (regen \/ regenerate)
  /\ IF s > 0
       THEN sem' = s - 1 /\ tasks' = Append(q, "awaitVsync") /\ scheduled' = TRUE
       ELSE sem' = s /\ tasks' = q /\ UNCHANGED scheduled

\* The embedder asks at any time, Dart when its event loop is not paused.
\* Only a new texture image leaves the layer trees as they are.
ScheduleFrame ==
  /\ Idle
  /\ \E regen \in IF TextureFrames THEN BOOLEAN ELSE {TRUE} :
       RequestFrame(regen, sem, tasks)
  /\ UNCHANGED <<frameVars, flows, waiterVars, ui, pointerVars>>

-----------------------------------------------------------------------------
(* VsyncWaiter.                                                            *)

\* Faults: a request although there is one; none when it is needed.
RequestsTwice == TRUE
NeverForCallback == FALSE
CallbackNeedsRequest == secondary = {}

\* Animator::AwaitVSync, AsyncWaitForVsync.
AwaitVSync ==
  /\ Starts("awaitVsync")
  /\ tasks' = Tail(tasks)
  /\ callback' = TRUE
  /\ ui' = IF ~callback /\ CallbackNeedsRequest THEN <<"request">> ELSE << >>
  /\ UNCHANGED <<animatorVars, frameVars, flows, secondary, requested, fired,
                 paused, pointerVars>>

\* ScheduleSecondaryCallback, for the keys of the Animator and of the pointer
\* data dispatcher.
ScheduleSecondaryCallback(id) ==
  /\ Doing(id)
  /\ secondary' = secondary \cup {id}
  /\ ui' = IF secondary = {} /\ ~callback THEN <<"request">> \o Tail(ui)
                                          ELSE Tail(ui)
  /\ UNCHANGED <<animatorVars, frameVars, flows, callback, requested, fired,
                 paused, tasks, pointerVars>>

\* The platform's AwaitVSync, called outside the lock.
RequestVsync ==
  /\ Doing("request")
  /\ requested' = requested + 1
  /\ ui' = Tail(ui)
  /\ UNCHANGED <<animatorVars, frameVars, flows, callback, secondary, fired,
                 paused, tasks, pointerVars>>

\* The platform answers an AwaitVSync once.
Vsync ==
  /\ requested > 0 /\ fired = << >>
  /\ requested' = requested - 1
  /\ fired' = <<"take">>
  /\ UNCHANGED <<animatorVars, frameVars, flows, callback, secondary, paused,
                 ui, tasks, pointerVars>>

\* FireCallback takes the callbacks under the lock, the secondary ones in the
\* order the hash map has them.
TakeCallbacks ==
  /\ fired = <<"take">>
  /\ \E order \in [1..Cardinality(secondary) -> secondary] :
       /\ \A i, j \in DOMAIN order : order[i] = order[j] => i = j
       /\ fired' = (IF callback THEN <<"pause", "vsync">> ELSE << >>) \o order
  /\ callback' = FALSE /\ secondary' = {}
  /\ UNCHANGED <<animatorVars, frameVars, flows, requested, paused, ui, tasks,
                 pointerVars>>

PauseDartEventLoopTasks ==
  /\ fired # << >> /\ Head(fired) = "pause"
  /\ paused' = paused + 1
  /\ fired' = Tail(fired)
  /\ UNCHANGED <<animatorVars, frameVars, flows, callback, secondary,
                 requested, ui, tasks, pointerVars>>

PostCallback ==
  /\ fired # << >> /\ Head(fired) \notin {"take", "pause"}
  /\ tasks' = Append(tasks, Head(fired))
  /\ fired' = Tail(fired)
  /\ UNCHANGED <<animatorVars, frameVars, flows, callback, secondary,
                 requested, paused, ui, pointerVars>>

-----------------------------------------------------------------------------
(* The vsync task.                                                         *)

\* Fault: a frame that is not built keeps the semaphore.
NoSignal == 0
Signalled == sem + 1

DrawLastLayerTrees ==
  /\ Starts("vsync") /\ ~regenerate
  /\ sem' = Signalled
  /\ tasks' = Tail(tasks)
  /\ ui' = <<"resume">>
  /\ UNCHANGED <<regenerate, scheduled, frameVars, flows, waiterVars, pointerVars>>

PipelineFull ==
  reserved = 0 /\ Len(waiting) + (IF taken THEN 1 ELSE 0) = depth

\* BeginFrame up to the callout, with a slot: the one left over or a new one.
BeginFrame ==
  /\ Starts("vsync") /\ regenerate
  /\ \/ reserved > 0 /\ UNCHANGED queueVars
     \/ reserved = 0 /\ Reserve
  /\ trees' = FALSE /\ recorder' = TRUE /\ flows' = FALSE
  /\ scheduled' = FALSE /\ regenerate' = FALSE /\ sem' = sem + 1
  /\ tasks' = Tail(tasks)
  /\ ui' = <<"build", "endFrame", "resume">>
  /\ UNCHANGED <<waiterVars, pointerVars>>

\* Fault: the frame is given up.
NoRetry == FALSE
Retries == TRUE

\* BeginFrame with a full pipeline: RequestFrame at once; EndFrame drops the
\* recorder.
BeginFrameFull ==
  /\ Starts("vsync") /\ regenerate /\ PipelineFull
  /\ IF Retries
       THEN RequestFrame(TRUE, sem + 1, Tail(tasks))
       ELSE /\ scheduled' = FALSE /\ regenerate' = FALSE /\ sem' = sem + 1
            /\ tasks' = Tail(tasks)
  /\ trees' = FALSE /\ recorder' = FALSE /\ flows' = FALSE
  /\ ui' = <<"resume">>
  /\ UNCHANGED <<queueVars, waiterVars, pointerVars>>

\* OnAnimatorBeginFrame runs the framework: it may render, and ask for the
\* next frame.
BuildFrame ==
  /\ Doing("build")
  /\ \E rendered, again \in BOOLEAN :
       /\ trees' = rendered
       /\ IF again THEN RequestFrame(TRUE, sem, tasks)
                   ELSE UNCHANGED <<animatorVars, tasks>>
  /\ ui' = Tail(ui)
  /\ UNCHANGED <<recorder, queueVars, flows, waiterVars, pointerVars>>

\* EndFrame commits what was rendered, if there is a continuation for it.
EndFrame ==
  /\ Doing("endFrame")
  /\ IF recorder /\ trees /\ reserved > 0 THEN Commit ELSE UNCHANGED queueVars
  /\ trees' = (trees /\ ~recorder)
  /\ recorder' = FALSE
  /\ ui' = Tail(ui)
  /\ UNCHANGED <<animatorVars, flows, waiterVars, tasks, pointerVars>>

\* Fault: the resume is forgotten.
StaysPaused == paused
Resumed == paused - 1

ResumeDartEventLoopTasks ==
  /\ Doing("resume")
  /\ paused' = Resumed
  /\ ui' = Tail(ui)
  /\ UNCHANGED <<animatorVars, frameVars, flows, callback, secondary,
                 requested, fired, tasks, pointerVars>>

\* Render outside a frame (a warm-up frame), with or without
\* OnAllViewsRendered.
RenderWarmUp ==
  /\ Idle /\ paused = 0
  /\ trees' = TRUE /\ recorder' = TRUE
  /\ ui' \in {<<"endFrame">>, << >>}
  /\ UNCHANGED <<animatorVars, queueVars, flows, waiterVars, tasks, pointerVars>>

-----------------------------------------------------------------------------
(* Pointer data.  Sending a packet to Dart enqueues its trace flow id,     *)
(* which schedules the Animator's secondary callback ("flow").             *)

\* Fault: the packet that waits is overwritten.
DropsPending == FALSE
FlushesPending == pending # 0

\* SmoothPointerDataDispatcher::DispatchPacket.
DispatchPacket ==
  /\ Idle /\ arrived < MaxPackets
  /\ arrived' = arrived + 1
  /\ inProgress' = TRUE
  /\ IF inProgress
       THEN /\ delivered' = IF FlushesPending THEN pending ELSE delivered
            /\ pending' = arrived + 1
            /\ flows' = (flows \/ pending # 0)
            /\ ui' = (IF pending # 0 THEN <<"flow", "pointer">> ELSE << >>)
                     \o <<"pointer">>
       ELSE /\ delivered' = arrived + 1
            /\ flows' = TRUE
            /\ ui' = <<"flow", "pointer">>
            /\ UNCHANGED pending
  /\ UNCHANGED <<animatorVars, frameVars, waiterVars, tasks>>

\* The dispatcher's secondary callback.
PointerCallback ==
  /\ Starts("pointer")
  /\ tasks' = Tail(tasks)
  /\ IF inProgress /\ pending # 0
       THEN /\ delivered' = pending /\ pending' = 0
            /\ flows' = TRUE
            /\ ui' = <<"flow", "pointer">>
            /\ UNCHANGED inProgress
       ELSE /\ inProgress' = FALSE
            /\ UNCHANGED <<delivered, pending, flows, ui>>
  /\ UNCHANGED <<animatorVars, frameVars, waiterVars, arrived>>

\* Fault: the test of frame_scheduled_ is inverted.
EndsFlowsLate == scheduled
EndsFlows == ~scheduled

\* The Animator's: ends the flows unless a frame that will is scheduled.
FlowCallback ==
  /\ Starts("flow")
  /\ tasks' = Tail(tasks)
  /\ flows' = (flows /\ ~EndsFlows)
  /\ UNCHANGED <<animatorVars, frameVars, waiterVars, ui, pointerVars>>

-----------------------------------------------------------------------------
\* The rasterizer, as far as the pipeline's slots go.
Rasterize ==
  /\ Take \/ Release
  /\ UNCHANGED <<animatorVars, recorder, trees, flows, waiterVars, ui, tasks,
                 pointerVars>>

StartTask ==
  \/ AwaitVSync \/ PointerCallback \/ FlowCallback
  \/ DrawLastLayerTrees \/ BeginFrame \/ BeginFrameFull

ContinueTask ==
  \/ \E id \in {"flow", "pointer"} : ScheduleSecondaryCallback(id)
  \/ RequestVsync
  \/ BuildFrame \/ EndFrame \/ ResumeDartEventLoopTasks

VsyncStep == Vsync \/ TakeCallbacks \/ PauseDartEventLoopTasks \/ PostCallback

Next ==
  \/ StartTask \/ ContinueTask \/ VsyncStep \/ Rasterize
  \/ ScheduleFrame \/ RenderWarmUp \/ DispatchPacket

Spec == Init /\ [][Next]_vars

\* A task ends, and the UI loop runs tasks in the order they were posted:
\* only finitely many of the others come before one in `tasks`.  The platform
\* answers each AwaitVSync (vsync_waiter.h:58).  The rasterizer takes what
\* waits.
FairSpec ==
  /\ Spec
  /\ WF_vars(ContinueTask) /\ SF_vars(StartTask)
  /\ WF_vars(VsyncStep) /\ WF_vars(Rasterize)

-----------------------------------------------------------------------------
(* Properties.                                                             *)

One(p) == IF p THEN 1 ELSE 0
Count(x, s) == Cardinality({i \in DOMAIN s : s[i] = x})
InFlight(x) == Count(x, fired) + Count(x, tasks)

\* Every variable keeps its type; no counter of the pacing passes one.
TypeOK ==
  /\ sem \in {0, 1} /\ paused \in {0, 1} /\ requested \in {0, 1}
  /\ {regenerate, scheduled, recorder, trees, flows, callback, inProgress}
       \subseteq BOOLEAN
  /\ secondary \subseteq {"flow", "pointer"}
  /\ depth \in Depths
  /\ reserved \in {0, 1} /\ Len(waiting) \in 0..depth /\ taken \in BOOLEAN
  /\ {arrived, delivered, pending} \subseteq 0..MaxPackets
  /\ Range(tasks) \subseteq {"awaitVsync", "vsync", "flow", "pointer"}
  /\ Range(fired) \subseteq {"take", "pause", "vsync", "flow", "pointer"}
  /\ Range(ui) \subseteq {"build", "endFrame", "resume", "request", "flow",
                          "pointer"}

\* However many requests are made, one frame is on its way at most, and the
\* semaphore is back when none is ("a single request to the VsyncWaiter",
\* animator.cc:252).
OneFrameOnItsWay ==
  sem + Count("awaitVsync", tasks) + One(callback) + InFlight("vsync") = 1

\* A callback waits exactly when an answer of the platform is due: nothing
\* waits for ever, and no vsync comes that nobody asked for.
WaitingHasRequest ==
  (callback \/ secondary # {})
    <=> requested + Count("take", fired) + Count("request", ui) = 1

\* Dart's tasks are paused from a vsync to the end of its frame, once.
PauseBalance ==
  paused = (IF "pause" \in Range(fired) THEN 0 ELSE InFlight("vsync"))
             + Count("resume", ui)

\* Packets reach Dart in order and none is lost: at most the last one waits,
\* and all before it have been delivered.
PacketsInOrder ==
  IF pending = 0 THEN delivered = arrived
  ELSE pending = arrived /\ delivered = arrived - 1

\* A frame asked for is built, though requests are merged, the pipeline may
\* be full and a texture frame may use the vsync.
RequestedFrameBegins == regenerate ~> Doing("build")

\* A packet that waits is delivered.
PendingPacketDelivered == pending # 0 ~> pending = 0

\* A flow ends "at either the next frame, or the next vsync interval with no
\* active rendering" (animator.h:111), except that frame_scheduled_ stays set
\* after a frame that reused the layer trees: until another frame is built,
\* every vsync then looks like one with active rendering.
FlowsEndUnlessTexture == flows ~> ~flows \/ (scheduled /\ ~regenerate)
=============================================================================
