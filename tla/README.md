# Models and proofs for tutak

tutak is *Bus Saathi*, a Flutter app that shows bus departures offline. The
repository holds the app (`src/lib`, about 1,500 lines of Dart) and the Flutter
SDK it is built against (`src/lib/screens/flutter`, imported by relative path in
`src/lib/main.dart`). The app is small and sequential; the concurrency it relies
on is the engine's. This project models both: what the app does to its database
over launches and kills, and how the engine queues tasks, paces, builds and
hands over frames, shares threads, and passes messages to Dart.

The files are TLA+ modules (`*.tla`), TLC configurations (`*.cfg`) and
`PROJECT.json`, which maps every definition to the lines it models.

| module | models |
|---|---|
| `FrameQueue` | abstract: a bounded queue whose slots are reserved first |
| `FramePipeline` | `Pipeline<FrameItem>`, the Animator's production, `Rasterizer::Draw`, the Shell's announcement and teardown; implements `FrameQueue` |
| `FrameScheduler` | Animator, VsyncWaiter and SmoothPointerDataDispatcher, over `FrameQueue` |
| `TaskRunners` | abstract: what a task runner promises to those who post to it |
| `TaskQueues` | `MessageLoopTaskQueues`, `MessageLoopImpl`, the Linux loop; implements `TaskRunners` |
| `ThreadMerger` | `SharedThreadMerger`, `RasterThreadMerger` and those who call them |
| `MessageBuffer` | abstract: a bounded buffer of messages that keeps the newest |
| `ChannelBuffers` | one channel of dart:ui's ChannelBuffers; implements `MessageBuffer` |
| `OfflineData` | DatabaseService, OfflineService and their callers |
| `AppStartup` | the late fields and the lazy provider of AppScreen |

`FramePipelineProofs`, `FrameSchedulerProofs`, `TaskQueuesProofs`,
`ThreadMergerProofs`, `ChannelBuffersProofs` and `OfflineDataProofs` hold the
theorems about the modules they are named after; `MergerTurnProofs` and
`MergerLoneProofs` go on with `ThreadMerger` where `ThreadMergerProofs` ends. Run a
configuration with `tlc -config X.cfg M`, a proof module with `tlapm M.tla`.

Every property of a passing run is broken on purpose in `PROJECT.json` ("mutants"): next to a
definition stands a faulty variant of it (`NoRetry` beside `Retries`, `OnlyOwner`
beside `UnmergeWakes`) that the specification never uses; put in the place of
the right one it makes TLC find the property violated.

## 1. Inventory

**The app**

- *AppScreen* (`app.dart`). State: three `late` fields. `initState` starts
  `_initializeServices` and does not await it; `build` puts lazy providers over
  the fields and mounts HomeScreen. Hard: the order of the first frame and of
  the assignments. Correct when no field is read before it is assigned.
- *HomeScreen* (`home_screen.dart`). State: the list and the spinner. Loads on
  start and on refresh.
- *OfflineService* (`offline_service.dart`). No state. Stores the sample data if
  there is no route; reads buses and routes and filters them. Correct when the
  sample data arrives whole and today's buses are offered.
- *DatabaseService* (`database_service.dart`). State: four tables. One SQL
  statement per await and no transaction. Hard: a kill between statements, two
  callers interleaved. Correct when every bus has its route and its stops, and a
  cleared database is empty.
- *SettingsScreen* (`settings_screen.dart`). Clears the cache.
- *LocationService*, *NotificationService*: calls into plugins.
- *Map, tracking and detail screens*, *TimeUtils*, *MapUtils*, *localization*,
  the schedule converter: layout and pure functions.

The sources do not compile as they stand (missing imports, a `Future<double>`
method that returns a double). The models take what the statements do at run
time. HomeScreen's navigation bar has an empty handler, so nothing opens
SettingsScreen yet; it is modelled as the caller it is written to be.

**The engine** (`src/lib/screens/flutter/engine/src/flutter`)

- *Pipeline* (`shell/common/pipeline.h`). State: a queue under a mutex, two
  semaphores, an in-flight counter. Animator (UI thread) and Rasterizer (raster
  thread) share it. Hard: the semaphores are signalled outside the mutex; a
  frame can be given back. Correct when it is a bounded queue, loses no frame
  and never shows an older one after a newer one.
- *Animator* (`shell/common/animator.cc`). State: a semaphore and flags. Asks
  for one vsync at a time, builds a frame, commits it.
- *VsyncWaiter* (`shell/common/vsync_waiter.cc`). State: two kinds of callbacks
  under a mutex; pauses Dart's tasks around a frame. Hard: the platform is asked
  outside the mutex while another thread fires.
- *SmoothPointerDataDispatcher* (`shell/common/pointer_data_dispatcher.cc`).
  State: one deferred packet. Correct when packets stay in order and none waits
  for ever.
- *Rasterizer*, *Shell*: the users of the above, and of the mergers.
- *Task queues* (`fml/message_loop_task_queues.cc`, `fml/task_source.cc`,
  `fml/message_loop_impl.cc`). State: for every thread two heaps of tasks and a
  counter of pauses under one mutex for all queues, who owns whom, and a timer
  per loop. Any thread posts; a loop runs its tasks; a task may merge its queue
  into another. Hard: whoever changes a queue must arm the timer of the loop that
  runs it *now*; the owner chooses among the heaps of several queues;
  `terminated_` is read without the lock. Correct when no wake-up is lost, and a
  runner's tasks run once, in order, on the loop their queue belongs to.
- *Thread mergers* (`fml/shared_thread_merger.cc`, `fml/raster_thread_merger.cc`).
  State: a lease per rasterizer and a switch, shared by the engines of a group.
  Merge, extend, decrement, separate, enable and disable are called from Draw,
  Setup and Teardown. Hard: two mutexes, taken anew for every question; the
  queues are merged before the lease is recorded; the threads that ask may be the
  ones that are merged. Correct when merged threads are always separated again
  and nobody waits for himself.
- *Channel buffers* (`lib/ui/channel_buffers.dart`). State: a ring of messages, a
  capacity, a listener, a drain under way. Hard: a listener runs between two
  drain steps and may do anything to the channel. Correct when messages keep
  their order and each is handled or answered once.
- The framework's scheduler and gesture arena, and the rest of the SDK: not
  modelled.

How they interact: a plugin's message or a pointer packet is a task in the UI
queue; the Animator asks for a vsync, whose callback pauses Dart's tasks and posts
the frame to the same queue (`TaskQueues.FireCallback` is
`FrameScheduler.PauseDartEventLoopTasks` and `PostCallback`); the frame goes
through the pipeline to Draw tasks in the raster queue, which a merger may
move to the platform thread. Each model takes its neighbour as what the
neighbour's abstract specification says, and states what it assumes of it:
`FrameScheduler` runs over `FrameQueue`, `TaskQueues` assumes that merges and
separations come from the threads `ThreadMerger.ThreadsChangeInTurn` allows.

Hazards, each at its line, are listed in `PROJECT.json`.

## 2. FramePipeline

State follows the code: `queue` (items, `NullItem` for the item of a dropped
continuation), the semaphores `empty` and `available`, the slots each thread
holds, the posted Draw tasks, and the raster thread's program counter.
`queue_mutex_` makes a push or a pop one step, but `ProducerCommit` signals
`available_` after it unlocks (`pipeline.h:226-233`), so the signal is a step of
its own. `Rasterizer::Draw` is cut where it touches the pipeline: claim an item,
draw it, release its slot, reserve a slot for a resubmission, commit it, post the
next Draw. What drawing does is an outcome (shown, or to be resubmitted).
`Shell::~Shell` destroys the Animator on the UI thread and resets the rasterizer
on the raster thread while Draws are pending. `inflight_` only labels a trace and
is left out (a resubmission that bails does not decrement it,
`pipeline.h:241-246`).

`depth` is what the Animator's constructor chooses (`animator.cc:27-45`): 1 when the
platform and the raster task runner are one, 2 otherwise (with Metal, always 2).

- `pipeline` (depths 1 and 2, 4 frames; 30,864 states): slots and signalled items
  balance (`Accounts`), Consume never pops an empty queue (`PopSafe`), order is
  kept through resubmission (`NoStaleFrame`), the only frame is never given up
  (`NeverDropsTheOnlyFrame`), a null item is queued at shutdown only, and last
  (`NullItemEndsTheQueue`), and every step is a step of `FrameQueue` or a stutter
  (`ImplementsFrameQueue`). With one slot, a frame in the queue always has a Draw on
  its way (`WakePending`), and is taken (`LoneSlotFrameTaken`).
- `pipeline_lost_wakeup` (violation of `EveryFrameTaken`): at depth 2 a frame can
  stay in the queue for good. `animator.cc:150` says of a frame that is not the first one
  "Eventually the 'Rasterizer' will consume it": the Draw that was to consume it
  comes between the push and the signal, and finds nothing.

At shutdown a Draw under way may take the null item of a dropped continuation
and dereference it (`rasterizer.cc:260`, `pipeline.h:89`; the model's "crashed").
`NullItemEndsTheQueue` says that this is the only time, and that no frame is
behind it.

Four frames at depth 2 fill both slots, and leave one frame to be resubmitted and
one to be committed meanwhile; a longer run repeats the same slot states.
Fairness in `LoneSlotFrameTaken`: the raster loop runs posted tasks, and a thread
that has started an operation finishes it.

**Proved** (`FramePipelineProofs`, for any set of depths and any number of frames):
`TypeCorrect`, `AccountsBalance`, `ClaimedItemIsThere`, `OrderKept`,
`NullItemIsLast`, `NeverStale`, `OnlyFrameIsKept`, `PipelineImplementsQueue`, and
`FrameWakesRasterizer`. `PopSafe` is not inductive: that an item is
there when one was claimed follows from the accounts (signalled items plus claims
plus signals still owed equal the queue's length), and these need the account of
slots. The order invariant says that the shown frame, the one in hand and the
queue are sorted by build number; a resubmission keeps it since the commit bails
unless the queue is empty. `WakePending` needs that with one slot every commit is
the first (`Announces`), that the rasterizer outlives the UI thread (`Alive`), and
what a Draw under way will still post (`Wakes`). Boolean variables have a lemma of
their own (`FlagsStep`). With more slots
a waiting frame may have no Draw to come, as `pipeline_lost_wakeup` shows, so
`WakePending` speaks of one slot. `LoneSlotFrameTaken` is model-checked only.

## 3. FrameScheduler

The UI thread runs one task at a time: `ui` holds the rest of its task, cut where
it touches what the vsync thread touches; `fired` holds the rest of a
`FireCallback`; `tasks` is the UI task queue. Requests for a frame (from Dart
when its event loop is not paused, from the embedder, or from a texture, which
leaves `regenerate_layer_trees_` alone), warm-up frames and pointer packets come
between any two tasks. `AsyncWaitForVsync` and `ScheduleSecondaryCallback` change
the callbacks under `callback_mutex_` and call the platform after it
(`RequestVsync`). The pipeline is `FrameQueue`, which section 2 proves
FramePipeline to implement; the slot the Animator keeps between frames is
`reserved`.

`scheduler_frames` (one slot, 3 packets, textures; 422,551 states) asks, in one
run: one frame is on its way at most and the semaphore comes back when none is
(`OneFrameOnItsWay`); a callback waits exactly when an answer of the platform is
due (`WaitingHasRequest`); pauses balance (`PauseBalance`); packets arrive in order
(`PacketsInOrder`); every request leads to a build, also over a full pipeline
(`RequestedFrameBegins`); a deferred packet is delivered (`PendingPacketDelivered`);
every trace flow ends, but for one exception (`FlowsEndUnlessTexture`). The
exception is a divergence from `animator.h:110-112`, which promises that a flow
ends at the next frame or the next vsync without active rendering:
`frame_scheduled_` is set for a texture frame too (`animator.cc:270`),
`DrawLastLayerTrees` (222-237) does not reset it, and the flow callback
(`animator.cc:308`) then takes every later vsync for one with active rendering.

Three packets are one delivered, one deferred, and one that pushes the deferred
one out. One slot is enough to be full; with two, a frame only waits less often.
Fairness: a UI task ends (weak); a posted task runs after the finitely many
before it, though requests may keep coming (strong, since the thread is busy
again and again); the platform answers each `AwaitVSync` once
(`vsync_waiter.h:58`); the rasterizer takes what waits. The last one is what
`LoneSlotFrameTaken` shows and `pipeline_lost_wakeup` refutes at depth 2, so the
liveness result is for depth 1.

**Proved** (`FrameSchedulerProofs`, for every depth and any number of packets):
`PacketsKeepOrder`, `OneFrame`, `NoCallbackForgotten`, `PausesBalance`,
`TypeCorrect`, so every invariant the run checks. The packets need only that one
waits while one is in progress (`WaitsInProgress`). The others are one inductive
invariant, `Pacing`: each of them speaks of occurrences of a task in `tasks`,
`ui` and `fired`, and a step moves an occurrence from one to another, so the
lemmas about `Count` come first. Two facts have to be added. `FiredInOrder`: what
is left of a `FireCallback` has its pause before the vsync it posts. `ResumesOnce`:
a task has one resume left at most, and while it has, no other frame has reached
its vsync. The types of the queue need that reserved, waiting and taken slots
together do not exceed the depth (`Slots`).

Three more theorems say what the liveness properties need beside fairness, for
every depth. `NoRequestForgotten`: a frame that was asked for has its vsync, or the
request for it, on the way, once (`RequestGoesOn`). `NoPacketForgotten`: while a
packet waits its callback is due. `NoFlowForgotten`: while flows are open the
callback that ends them is due, or `frame_scheduled_` is set, which is where the
exception of the texture frames comes in (`FlowGoesOn`). A secondary callback is
due (`OnItsWay`) in the set that waits for the vsync or as a call in `ui`, `fired` or
`tasks`, and stays due until its task starts (`StaysDue`). That a regeneration asked
for always finds the semaphore taken is an invariant of its own (`Asked`). What is
left to the run is that the thing on its way arrives.

Left out: the idle notifications (they tell the VM, and change nothing here),
the Animator's teardown, and Fuchsia's `FireCallback` that does not pause.

## 4. TaskQueues

A task is a record of its queue, order, time, grade (`"primary"` for
`kUserInteraction` and `kUnspecified`, which share a heap, or `"dart"`) and job:
ordinary work, or the resume at the end of a frame. `pending` holds the tasks of
all heaps. The methods of `MessageLoopTaskQueues` hold `queue_mutex_` and are
single steps; each ends with the wake-up it makes (`WakeUp`, of the loop the code
names). A post is two steps, since `MessageLoopImpl::PostTask` reads `terminated_`
before it registers. A loop (`loop`) waits for its timer, flushes, asks for the
next task, runs it, comes back; when it is terminated it flushes once more and
disposes of what is left. What a task does to the queues is a choice: nothing,
`Merge`, `Unmerge`, or `Terminate`. The clock ticks at any time, also while a loop
works.

What the model assumes of the callers, from their code:

- a queue is merged by one of its own tasks, and only with queues that are not
  terminated; it is unmerged by a task on its owner's loop. `ThreadMerger` shows
  that the mergers keep to it (`ThreadsChangeInTurn`).
- a loop is terminated by a task of its own, when it shares nothing
  (`Thread::Join`).
- a resume wakes the loop of its queue, not the owner's
  (`message_loop_task_queues.cc`, `ResumeSecondarySource`). This loses nothing: the
  resume is the end of a task that runs on the owner's loop, which asks for the
  next task before it waits.

`task_queues` (two queues, one posting thread, three tasks, clock 0..1; about
465,000 states): owner and owned agree and an owner is not owned (`MergeShape`); a
loop that waits has its timer set no later than any task it could run
(`WakeScheduled`); a task starts and runs where its queue belongs
(`RunsWhereOwned`); no pause is resumed twice (part of `TypeOK`); and the whole
implements `TaskRunners` (`ImplementsTaskRunners`): from outside, each runner runs
each task once, not before its time, in the order of its heap, and none of Dart's
while they are paused, whatever is merged under it. Under fairness every due task
runs (`EveryDueTaskRuns`). Three tasks are needed for a merge by one, an unmerge by
a second and a third left over on either side; two instants, for a task whose time
has not come when its loop looks. One poster is enough because the loops are the
other threads; a second one multiplies the interleavings of `CheckTerminated`
with itself. Fairness: a thread inside `PostTask` or its loop goes on. Nothing
makes the clock tick or anybody post.

**Proved** (`TaskQueuesProofs`, for any queues, posters, tasks and times):
`TypeCorrect`, `MergesKeepShape`, `TasksRunWhereOwned`, `NoLostWakeUp`,
`QueuesImplementRunners`. The invariant adds four facts. A thread that ends shares
no queue (`Alone`): else `DisposeTasks` would drop the tasks of a queue that goes
on. No loop is ahead of the clock, and waiting tasks are older than the next one
(`Fresh`). A running task is nowhere else (`OnePlace`), and there is a pause for
every resume on its way (`Counted`): that `pauses` stays a natural number is a
statement about the number of tasks in three places, so it is proved by counting
them, and `TypeOK` is the last theorem, not the first. `EveryDueTaskRuns` is
model-checked only.

Left out: `kSingle` flushes, the destruction of a loop (`Dispose`), the timers of
other platforms, and where the closure of a task registered after `DisposeTasks`
is destroyed.

## 5. ThreadMerger

Two threads, `"platform"` and `"raster"`, and the tasks of the raster queue
(`rasterQ`), which the platform thread runs while `merged = "yes"`. `running` says
where each thread is; a step is one critical section, and a thread at `"queues"`,
`"record"` or `"lease"` holds the mutexes the code holds there, so that
`SharedThreadMerger::MergeWithLease` is two steps (the queues are merged, the
lease is recorded) which others may fall between only if they ask for neither.
`Draw` follows `Rasterizer::Draw` through `PostPrerollAction` of Android's
view embedder to the next Draw it posts; `Setup`, `Teardown`, and the handlers of
the Shell that post them with the merger disabled, are around it. `lease` keeps a
record per rasterizer, which stays at zero until a Teardown erases it.

- `thread_merger` (two engines, lease 3, 3 frames, 3 surfaces; 243,605 states):
  merged threads have a lease that will run out, except between the two steps of
  the merge (`MergedHasLease`); the threads change in turn (`ThreadsChangeInTurn`);
  of the merger's three `FML_CHECK`s none fails for a lone engine, and for several
  only the one on the lease can (`OnlyLeaseCheckFails`); a Draw yields only in that same moment of the merge
  (`YieldsOnlyUnrecorded`); a lone engine never waits for itself
  (`LoneNeverWaitsForItself`) and each of its frames leaves the pipeline, though it
  is resubmitted until the threads are merged and its overlays exist
  (`EveryFrameLeaves`).
- `merger_lease_check` (violation): with two engines the check "lease_term should
  always be positive when merged" (`shared_thread_merger.cc:59-61`) fails. The
  record of an engine whose lease has run out stays, and the other engine's lease
  keeps the threads merged.
- `merger_deadlock` (violation, one engine, `QuickRestart = TRUE`): a surface is
  taken away before the Setup task of its creation has run. The Setup enables the
  merger that `OnPlatformViewDestroyed` has just disabled, a Draw merges the
  threads, and the teardown waits in a queue that the waiting platform thread
  would have to serve. The passing run has `QuickRestart = FALSE`: a surface is
  taken away after it was set up.

The lease is 3 frames and not 10: what counts is that it survives one decrement
and runs out. The assumption `LeaseTerm > MaxOverlap + 1` bounds how many raster
tasks the platform thread may begin beside the end of the Draw that merged; that
end is a few statements, and a lease lasts ten frames. Three frames and three
surfaces let one engine merge and run out while the other merges again, and a
surface come back; the safety properties were also checked with 5 frames and 2
surfaces, with 4 and 3, and with a lease of 4 and two tasks beside the Draw (two
engines, 4 frames and 3 surfaces: 1,028,739 states; three engines, 3 and 3:
3,184,636 states). Fairness: the loops run their tasks, and the Shell's handlers
finish.

Two tasks is also where `OnlyLeaseCheckFails` ends. With two engines, lease 5 and
*three* raster tasks on the platform thread beside the end of the Draw that merged,
TLC finds a trace in which the queues are separated twice, and the check of
`UnMergeNowUnSafe` (`shared_thread_merger.cc:38-41`) fails. A Draw of `a` has merged
the threads and is before `DecrementLease`; the platform thread draws `b` with
platform views, which gives `b` a lease, and tears `a` down, which erases `a`'s
record. `a`'s Draw asks whether the threads are merged (they are, `b` has a lease);
the platform thread tears `b` down and separates the queues; `a`'s Draw counts down,
finds no record and no lease, and separates them again. `DecrementLease` asks and
counts in two critical sections of different mutexes
(`raster_thread_merger.cc:159-179`). Two engines would have to lose their surfaces
while one statement of a Draw waits, so the run keeps to the smaller bound and the
theorem names it.

**Proved** (`ThreadMergerProofs`, for any rasterizers, leases and bounds):
`TypeCorrect`, `MergesAreLeased`, `MergesSucceed` (queues that are merged are not
merged again). `OneRecords` is the strengthening: one thread at most is between
the two steps of a merge, as the shared mutex is held there.

`MergerTurnProofs`, with the same generality: `ChangesInTurn` and
`YieldsUnrecorded`, the two action properties, and `SeparationsSucceed` (queues are
not separated twice; it assumes `MaxOverlap <= 2`). They rest on the inductive
invariant `Turns`, which relates `running` to `merged` thread by thread: a lease runs
only while the queues are merged (`Leased`); the platform thread runs no raster task
while they are separate (`PlatformTurn`), and the raster thread begins none while
they are merged (`RasterTurn`); what the platform thread draws has a lease
(`PlatformLeased`); and the lease that a Draw has just recorded loses at most one for
every task begun beside that Draw (`LeaseLasts`), which is where the assumption
`LeaseTerm > MaxOverlap + 1` is used. A step is first reduced to what it is to the
merger (`MergerStep`), so that the twenty actions are split up once.
`SeparationsSucceed` adds which tasks must already have been begun when another
engine has a lease, and when this one's is erased (`OthersBeside`, `LastBeside`).

`MergerLoneProofs` is about a lone engine: `LoneChecksSucceed` (no check fails, for
any `MaxOverlap`: the engine's Teardown is excluded from its own `DecrementLease` by
the mutex of its RasterThreadMerger, `LoneLease`), from which and
`SeparationsSucceed` follows `ChecksSucceed`, which is `OnlyLeaseCheckFails`;
`LoneWaitsEnd`, which is `LoneNeverWaitsForItself` and assumes
`QuickRestart = FALSE`, for `merger_deadlock` refutes it otherwise; and
`LoneFrameHasDraw`: a frame in the pipeline has a Draw that waits for its turn or is
under way, what `EveryFrameLeaves` needs beside fairness. `Engines` says that all
that runs or waits belongs to an engine that exists. `LoneTurns` says where Setup
and Teardown may be: one of each at most, a Setup for a view without a surface
(`LoneSetups`), a Teardown only while the platform thread waits
(`LoneTeardowns`), and from the moment the merger is disabled no merge under way
(`LoneWaits`). `EveryFrameLeaves` is model-checked only.

Left out: `DrawLastLayerTrees`, the outcomes `kGpuUnavailable` and `kFailed`,
`WaitUntilMerged` (iOS), a rasterizer's destructor, the common queue of a
statically merged platform, and the surface that a Teardown resets beside a Draw.

## 6. ChannelBuffers

Messages are named by their number. Dart code runs to completion, but a listener
is Dart code that a drain step calls: `inListener` counts such calls, and pushes,
resizes and changes of the listener may come before it returns and the next
microtask is scheduled. `Drain` is the deprecated `ChannelBuffers.drain`, which
hands the queue to a callback of its own.

`channel_buffers` (capacities 0 to 3, 5 messages; 17,702 states): one drain at a
time, exactly while `_draining` (`OneDrain`); every message waits, was handled, was
answered with null, or found a channel without room, and only one of these
(`NothingLost`); the channel implements `MessageBuffer`, in which a message
overtakes none that waits and the newest are kept (`ImplementsMessageBuffer`); what
waits when a listener is set is handled unless it is cleared (`Drained`). A push to
a channel of capacity 0 is dropped without an answer (`channel_buffers.dart:139-141`,
`ignored`). Five messages fill the largest buffer, overflow it, and leave one to
arrive during the drain. Fairness: microtasks run and listeners return.

**Proved** (`ChannelBuffersProofs`, for any capacities and number of messages):
`TypeCorrect`, `DirectMeansEmpty` (the assertion of `push`, line 135), `SingleDrain`,
`MessagesInOrder`, `NoMessageLost`, `ChannelImplementsBuffer`. The order needs that
the queue itself is sorted and older than the next message (`Sorted`), the
conservation that each message is in one place (`Apart`); the lengths then follow
since a sorted sequence has as many elements as members (`IncreasingLength`).
`BacklogIsDrained` says of `Drained` what it needs beside fairness: while a message
waits and a listener is set, exactly one drain step is scheduled or waits for its
listener. `Drained` itself is model-checked only.

Left out: listeners that throw (their zone's error handler decides what follows),
the table of channels, control messages (which call `resize`), and warnings.

## 7. OfflineData and AppStartup

A step is what the isolate does between two awaits: at most one SQL statement.
`db` maps a table to its rows; `startup`, `load` and `clear` say where
`_initializeServices`, `getNextBuses` and `clearAllData` are suspended. `Kill`
ends the process anywhere and keeps `db`. The sample data is kept in the fields
that decide anything: identities, the schedule, and whether a path can be decoded.

- `offline_data` (3 launches, 2 clears; 9,260 states): a stored bus has its route and
  every stop of it, wherever the process was killed (`BusHasSample`); a launch that
  finds no route stores the sample (`SampleArrives`). Nothing keeps the user from
  clearing the cache while the startup still loads. The history variable
  `overlapped` remembers that this has happened, and from then on neither property
  claims anything: the loader inserts into tables that were already emptied, and
  the clearing empties tables that the loader has filled.
- `offline_clear` (violation): what that does to `clearAllData` itself.
  `settings_screen.dart:110` says "Cache cleared successfully" when it returns; TLC
  finds a row of `routes` inserted after that table was emptied and before the
  last one was (`ClearedMeansEmpty`).
- `offline_next_buses` (violation): `getNextBuses` returns nothing while today's
  bus and its route are stored. `getAllRoutes` cannot decode what `insertRoute`
  stored: `List<Map<String, double>>.from` casts the elements of a decoded JSON
  list, which are `Map<String, dynamic>`. A launch that finds a route ends in the
  same exception (`startup = "threw"`).
- `app_late_init` (violation of `AppStartup`): HomeScreen's `initState` reads the
  provider of the OfflineService in the frame in which `_initializeServices` is
  still at its first await. `OfflineData` is therefore about callers that do get
  the service, as the tests in `test/offline_service_test.dart` do.

Two hazards of this code have no property. After a kill between the route and the
bus no later launch loads the bus; the documents only promise a load "if database
is empty" (`app.dart:34`), and `SampleArrives` excuses the kill. A clear between the
two queries of `getNextBuses` makes `firstWhere` throw; the empty list that the
catch returns is then the right answer.

Two launches show what a kill leaves behind, the third starts from what the
second did with it; with two clears one can follow a reload. Fairness: the
isolate goes on with statements it has issued; permission dialogs may stay open
for ever.

**Proved** (`OfflineDataProofs`, for any number of launches, kills and clears):
`TypeCorrect` and `StoredBusHasSample`. `BusHasSample` is not inductive. Its
strengthening (`Sound`) is claimed while `overlapped` is false: the loader and
`clearAllData` are not both at work (`Apart`), the buses are the first to be deleted
(`BusesGoFirst`), the route is there until the bus is inserted (`RouteFirst`), and so
are the stops that are not left any more (`StopsSoFar`). The bus is inserted last and
deleted first, so it tells a complete sample from one that a kill cut short.
`SampleArrives` is model-checked only.

## 8. What is proved and what is not

Every invariant, every action property and every refinement that a passing run
checks is a theorem. The proofs assume of the constants what the modules' named
`ASSUME`s say, and what a theorem's own `ASSUME` adds: `MaxOverlap <= 2`
(`SeparationsSucceed`, `ChecksSucceed`) and `QuickRestart = FALSE` (`LoneWaitsEnd`).
Both are needed: without them TLC has a counterexample, told in section 5.
Model-checked only:

- liveness (`LoneSlotFrameTaken`, `RequestedFrameBegins`, `PendingPacketDelivered`,
  `FlowsEndUnlessTexture`, `EveryDueTaskRuns`, `EveryFrameLeaves`, `Drained`,
  `SampleArrives`): liveness under fairness is out of the prover's reach. For six
  of them a theorem states that what must happen is on its way
  (`FrameWakesRasterizer`, `NoRequestForgotten`, `NoPacketForgotten`,
  `NoFlowForgotten`, `LoneFrameHasDraw`, `BacklogIsDrained`), and for
  `EveryDueTaskRuns` `NoLostWakeUp` does;
- the violations, each a trace of a small instance.

Deadlock is not checked in any run: every program here may come to rest.

## 9. Not modelled

SQLite, sqflite, the provider package, the platform's vsync source and the
operating system are modelled from how the code uses them. In FramePipeline a
Draw that yields because of thread merging (`kYielded`) is left out; it is in
`ThreadMerger`, whose pipeline is a list of frames. Of the app, the map, tracking
and detail screens, the plugin services and the utilities keep no state that two
steps share; `TimeUtils` and the converter are pure. The framework's scheduler and
gesture arena are single-threaded state machines that would make modules of their
own. The remaining Flutter SDK (widgets, tools, Impeller and Skia backends,
embedders, and their tests) is by far the largest part of the repository, and is
rendering, platform glue and tooling, far beyond models of this kind.
`PROJECT.json` lists each part with its reason.

## 10. Plan

1. The framework: the phases of `SchedulerBinding` over `FrameScheduler`'s
   `BuildFrame`; `GestureArenaManager` (hold, sweep, and a member that resolves
   in a microtask).
2. `kYielded` in `FramePipeline`, with `ThreadMerger` in the place of its raster
   loop.
3. The app: TrackingScreen's path, `TimeUtils` against a reference, the
   converter's stop identities stored by `insertRoute`.
4. Listeners that throw in `ChannelBuffers`, with the zone's handler as a choice.
