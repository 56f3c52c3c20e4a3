---------------------------- MODULE ThreadMerger ----------------------------
(***************************************************************************)
(* The dynamic merging of the raster thread into the platform thread.      *)
(* While a frame shows platform views, the tasks of the raster queue run   *)
(* on the platform thread.  The configuration is leased: every rasterizer  *)
(* holds a lease in the SharedThreadMerger, and the threads are separated  *)
(* when all leases have run out.                                           *)
(*                                                                         *)
(* Modelled code: fml::SharedThreadMerger and fml::RasterThreadMerger, the *)
(* parts of Rasterizer::Draw, Setup and Teardown and of Android's external *)
(* view embedder that use them, and Shell::OnPlatformViewCreated,          *)
(* OnPlatformViewDestroyed and Spawn.                                      *)
(*                                                                         *)
(* Two threads take steps, "platform" and "raster".  A step is one access  *)
(* to what they share; a thread that is at "queues", "record" or "lease"   *)
(* holds the mutex of its RasterThreadMerger, and one that is at "record"  *)
(* holds that of the SharedThreadMerger.                                   *)
(***************************************************************************)
EXTENDS Integers, Sequences, FiniteSets

CONSTANTS
  Rasterizers,   \* the rasterizers of engines that may be spawned
  First,         \* the one whose engine starts the group
  LeaseTerm,     \* kDefaultMergedLeaseDuration
  MaxFrames,     \* bound: frames the engines build together
  MaxSurfaces,   \* bound: surfaces the engines are given together
  MaxOverlap,    \* raster tasks the platform thread can begin before the
                 \* raster thread has finished the Draw that merged
  QuickRestart   \* whether a surface is taken away before it was set up

\* A Draw ends long before so many frames have passed as a lease lasts.
ASSUME MergerAssumption ==
  /\ First \in Rasterizers
  /\ LeaseTerm \in Nat /\ MaxOverlap \in Nat /\ LeaseTerm > MaxOverlap + 1
  /\ MaxFrames \in Nat /\ MaxSurfaces \in Nat /\ QuickRestart \in BOOLEAN

VARIABLES
  engines,     \* rasterizers of the engines that exist
  merged,      \* "yes" when the platform queue owns the raster queue
  lease,       \* lease_term_by_caller_; NoRecord when there is none
  enabled,     \* enabled_ of the SharedThreadMerger
  rasterQ,     \* tasks posted to the raster task runner
  running,     \* what each thread executes
  overlapped,  \* raster tasks begun beside the Draw that merged
  surface,     \* Rasterizer::surface_; "never" before the first Setup
  frames,      \* the frames in each engine's pipeline
  shown,       \* previous_frame_view_count_ is not zero
  built,       \* frames built
  view,        \* whether the engine's platform view exists
  given,       \* platform views created
  failed       \* the FML_CHECK that ended the process

engineVars == <<frames, built, view, given, engines>>
mergerVars == <<merged, lease, enabled>>
vars == <<mergerVars, rasterQ, running, overlapped, surface, shown,
          engineVars, failed>>

NoRecord == -1
Threads == {"platform", "raster"}
FrameKinds == {"plain", "views"}

\* What a thread does: where it is, for which rasterizer, the frame in hand,
\* whether it goes back to the pipeline, and whether another Draw is posted.
Work(at, r, frame, again, more) ==
  [at |-> at, r |-> r, frame |-> frame, again |-> again, more |-> more]
Start(at, r) == Work(at, r, "plain", "no", "no")
Idle == Start("idle", First)

Task(kind, r) == [kind |-> kind, r |-> r]

Init ==
  /\ engines = {First}
  /\ merged = "no" /\ lease = [r \in Rasterizers |-> NoRecord]
  /\ enabled = "yes"
  /\ rasterQ = <<>> /\ running = [t \in Threads |-> Idle] /\ overlapped = 0
  /\ surface = [r \in Rasterizers |-> "never"]
  /\ frames = [r \in Rasterizers |-> <<>>]
  /\ shown = [r \in Rasterizers |-> "no"]
  /\ built = 0 /\ given = 0 /\ view = [r \in Rasterizers |-> "no"]
  /\ failed = "no"

-----------------------------------------------------------------------------
(* The merger.                                                             *)

AllLeaseTermsZero(l) == \A r \in Rasterizers : l[r] <= 0

\* SharedThreadMerger::IsMergedUnSafe: what the leases say.
IsMerged == ~AllLeaseTermsZero(lease)

\* The mutexes, as seen by thread t.
OwnMutexFree(t, r) ==
  \A u \in Threads \ {t} :
    ~(running[u].at \in {"queues", "record", "lease"} /\ running[u].r = r)
SharedMutexFree == \A u \in Threads : running[u].at # "record"

HasMerger(r) == surface[r] # "never"
SetEnabled(r, value) == enabled' = IF HasMerger(r) THEN value ELSE enabled

\* Whose loop runs the tasks of the raster queue.
RasterOwner == IF merged = "yes" THEN "platform" ELSE "raster"

At(t, at) == failed = "no" /\ running[t].at = at
Do(t, work) == running' = [running EXCEPT ![t] = work]
Goto(t, at) == Do(t, [running[t] EXCEPT !.at = at])
Post(task) == rasterQ' = Append(rasterQ, task)

\* IsOnRasterizingThread; and one that asks for a lease of the rasterizer.
OwnLease(t, r) == (lease[r] > 0) <=> (t = "platform")
IsOnRasterizingThread(t, r) == IsMerged <=> (t = "platform")

\* The platform thread begins a raster task, perhaps beside the end of the Draw
\* that merged the threads.
BesideDraw ==
  /\ overlapped' = IF running["raster"] = Idle THEN 0 ELSE overlapped + 1
  /\ overlapped' <= MaxOverlap

-----------------------------------------------------------------------------
(* Rasterizer::Draw.                                                       *)

\* A loop takes the next task of the raster queue.
TakeTask(t) ==
  /\ failed = "no" /\ running[t] = Idle
  /\ rasterQ # <<>> /\ t = RasterOwner
  /\ BesideDraw
  /\ rasterQ' = Tail(rasterQ)
  /\ Do(t, Start(Head(rasterQ).kind, Head(rasterQ).r))
  /\ UNCHANGED <<mergerVars, surface, shown, engineVars, failed>>

\* A Draw on the wrong thread yields.
Draw(t) ==
  /\ At(t, "draw")
  /\ LET r == running[t].r IN
     \/ /\ ~HasMerger(r) \/ IsOnRasterizingThread(t, r)
        /\ OwnMutexFree(t, r)
        /\ Goto(t, "consume")
     \/ /\ HasMerger(r) /\ ~IsOnRasterizingThread(t, r)
        /\ OwnMutexFree(t, r)
        /\ Do(t, Idle)
  /\ UNCHANGED <<mergerVars, rasterQ, overlapped, surface, shown, engineVars,
                 failed>>

\* Pipeline::Consume, and the beginning of DoDraw.
Consume(t) ==
  /\ At(t, "consume")
  /\ LET r == running[t].r
         frame == Head(frames[r])
         more == IF Len(frames[r]) > 1 THEN "yes" ELSE "no"
         next == IF surface[r] # "set" THEN "finish"
                 ELSE IF frame = "views" THEN "preroll" ELSE "decrement"
     IN  \/ /\ frames[r] = <<>>
            /\ Do(t, Idle)
            /\ UNCHANGED <<frames, shown>>
         \/ /\ frames[r] # <<>>
            /\ frames' = [frames EXCEPT ![r] = Tail(@)]
            /\ Do(t, Work(next, r, frame, "no", more))
            /\ shown' = [shown EXCEPT ![r] =
                           IF next = "decrement" THEN "no" ELSE @]
  /\ UNCHANGED <<mergerVars, rasterQ, overlapped, surface, built, view, given,
                 engines, failed>>

\* PostPrerollAction of a frame with platform views, when the threads are
\* separate: the frame is cancelled, and drawn again.
PrerollSeparate(t) ==
  /\ At(t, "preroll") /\ ~IsMerged /\ OwnMutexFree(t, running[t].r)
  /\ Do(t, [running[t] EXCEPT !.at = "merge", !.again = "yes"])
  /\ shown' = [shown EXCEPT ![running[t].r] = "no"]
  /\ UNCHANGED <<mergerVars, rasterQ, overlapped, surface, engineVars, failed>>

PrerollMerged(t) ==
  /\ At(t, "preroll") /\ IsMerged /\ OwnMutexFree(t, running[t].r)
  /\ Goto(t, "extend")
  /\ UNCHANGED <<mergerVars, rasterQ, overlapped, surface, shown, engineVars,
                 failed>>

\* RasterThreadMerger::MergeWithLease is a no-op when the merger is disabled;
\* and one that forgets to ask.
Asked == TRUE
MayMerge == enabled = "yes"

MergeWithLease(t) ==
  /\ At(t, "merge") /\ OwnMutexFree(t, running[t].r)
  /\ Goto(t, IF MayMerge /\ ~IsMerged THEN "queues" ELSE "decrement")
  /\ UNCHANGED <<mergerVars, rasterQ, overlapped, surface, shown, engineVars,
                 failed>>

\* SharedThreadMerger::MergeWithLease: the queues are merged first ...
MergeQueues(t) ==
  /\ At(t, "queues") /\ SharedMutexFree
  /\ \/ /\ IsMerged
        /\ Goto(t, "decrement")
        /\ UNCHANGED <<merged, failed>>
     \/ /\ ~IsMerged /\ merged = "no"
        /\ merged' = "yes"
        /\ Goto(t, "record")
        /\ UNCHANGED failed
     \/ /\ ~IsMerged /\ merged = "yes"
        /\ failed' = "merge"
        /\ UNCHANGED <<merged, running>>
  /\ UNCHANGED <<lease, enabled, rasterQ, overlapped, surface, shown,
                 engineVars>>

\* ... and the lease is recorded next; and one of a single frame.
SingleFrame == 1
RecordedTerm == LeaseTerm

RecordLease(t) ==
  /\ At(t, "record")
  /\ lease' = [lease EXCEPT ![running[t].r] = RecordedTerm]
  /\ Goto(t, "decrement")
  /\ UNCHANGED <<merged, enabled, rasterQ, overlapped, surface, shown,
                 engineVars, failed>>

\* ExtendLeaseTo; the first frame with platform views is submitted again.
ExtendLeaseTo(t) ==
  /\ At(t, "extend")
  /\ LET r == running[t].r IN
     /\ OwnMutexFree(t, r) /\ SharedMutexFree
     /\ lease' = IF enabled = "yes" THEN [lease EXCEPT ![r] = LeaseTerm]
                                    ELSE lease
     /\ Do(t, [running[t] EXCEPT !.at = "decrement",
                 !.again = IF shown[r] = "no" THEN "yes" ELSE "no"])
     /\ shown' = [shown EXCEPT ![r] = "yes"]
  /\ UNCHANGED <<merged, enabled, rasterQ, overlapped, surface, engineVars,
                 failed>>

\* RasterThreadMerger::DecrementLease asks first whether there is a lease ...
DecrementLease(t) ==
  /\ At(t, "decrement") /\ OwnMutexFree(t, running[t].r)
  /\ Goto(t, IF IsMerged /\ enabled = "yes" THEN "lease" ELSE "finish")
  /\ UNCHANGED <<mergerVars, rasterQ, overlapped, surface, shown, engineVars,
                 failed>>

\* Unmerge of the queues, which must have been merged.
Unmerge ==
  \/ /\ merged = "yes" /\ merged' = "no" /\ UNCHANGED failed
  \/ /\ merged = "no" /\ failed' = "unmerge" /\ UNCHANGED merged

\* The leases after a decrement by r; and with a record for every caller.
Unrecorded(r) == [lease EXCEPT ![r] = @ - 1]
Decremented(r) ==
  [lease EXCEPT ![r] = IF @ = NoRecord THEN NoRecord ELSE @ - 1]

\* The threads are separated when no lease is left; and when there was none
\* before.
TermsWereZero(l) == AllLeaseTermsZero(lease)
LastLease(l) == AllLeaseTermsZero(l)

\* ... and SharedThreadMerger::DecrementLease checks that a recorded lease is
\* positive, and separates the threads with the last one.  Draw will then be
\* posted again (kEnqueuePipeline), unless its frame is to be resubmitted.
DecrementShared(t) ==
  /\ At(t, "lease") /\ SharedMutexFree
  /\ LET r == running[t].r IN
     \/ /\ lease[r] = 0
        /\ failed' = "lease"
        /\ UNCHANGED <<merged, lease, running>>
     \/ /\ lease[r] # 0 /\ ~LastLease(Decremented(r))
        /\ lease' = Decremented(r)
        /\ Goto(t, "finish")
        /\ UNCHANGED <<merged, failed>>
     \/ /\ lease[r] # 0 /\ LastLease(Decremented(r))
        /\ lease' = Decremented(r)
        /\ Unmerge
        /\ IF running[t].again = "yes"
           THEN Goto(t, "finish")
           ELSE Do(t, [running[t] EXCEPT !.at = "finish", !.more = "yes"])
  /\ UNCHANGED <<enabled, rasterQ, overlapped, surface, shown, engineVars>>

\* The end of Draw.  A frame goes back only if the pipeline is empty; another
\* Draw is posted for it, for a frame that waits, and after a separation.
\* And one that is not posted for a frame that goes back.
ForOthers(goesBack, more) == more = "yes"
DrawAgain(goesBack, more) == goesBack \/ more = "yes"

Finish(t) ==
  /\ At(t, "finish")
  /\ LET r == running[t].r
         goesBack == running[t].again = "yes" /\ frames[r] = <<>>
     IN  /\ frames' = IF goesBack
                      THEN [frames EXCEPT ![r] = <<running[t].frame>>]
                      ELSE frames
         /\ IF DrawAgain(goesBack, running[t].more)
            THEN Post(Task("draw", r)) ELSE UNCHANGED rasterQ
  /\ Do(t, Idle)
  /\ UNCHANGED <<mergerVars, overlapped, surface, shown, built, view, given,
                 engines, failed>>

-----------------------------------------------------------------------------
(* Setup and Teardown.                                                     *)

\* Whoever waits for the thread goes on.
Release(t) ==
  running' = [u \in Threads |->
                IF u = t \/ running[u].at = "waits" THEN Idle ELSE running[u]]

Setup(t) ==
  /\ At(t, "setup") /\ OwnMutexFree(t, running[t].r)
  /\ SetEnabled(running[t].r, "yes")
  /\ surface' = [surface EXCEPT ![running[t].r] = "set"]
  /\ Do(t, Idle)
  /\ UNCHANGED <<merged, lease, rasterQ, overlapped, shown, engineVars,
                 failed>>

Teardown(t) ==
  /\ At(t, "teardown") /\ OwnMutexFree(t, running[t].r)
  /\ SetEnabled(running[t].r, "yes")
  /\ surface' = [surface EXCEPT ![running[t].r] =
                   IF @ = "never" THEN "never" ELSE "none"]
  /\ Goto(t, "torn")
  /\ UNCHANGED <<merged, lease, rasterQ, overlapped, shown, engineVars,
                 failed>>

\* The threads are separated if they are merged; and whether they are or not.
HasSeparated(r) == HasMerger(r)
HasToSeparate(r) == HasMerger(r) /\ IsMerged

TornDown(t) ==
  /\ At(t, "torn") /\ OwnMutexFree(t, running[t].r)
  /\ IF HasToSeparate(running[t].r) THEN Goto(t, "unmerge") ELSE Release(t)
  /\ UNCHANGED <<mergerVars, rasterQ, overlapped, surface, shown, engineVars,
                 failed>>

\* UnMergeNowIfLastOne forgets the caller's lease.
Erased(r) == [lease EXCEPT ![r] = NoRecord]

\* It separates the threads with the last lease, or the last record.
LastOne(l) ==
  AllLeaseTermsZero(l) \/ \A r \in Rasterizers : l[r] = NoRecord

UnMergeNowIfLastOne(t) ==
  /\ At(t, "unmerge")
  /\ LET r == running[t].r IN
     /\ OwnMutexFree(t, r) /\ SharedMutexFree
     /\ \/ /\ enabled = "yes" /\ LastOne(Erased(r))
           /\ lease' = Erased(r)
           /\ Unmerge
        \/ /\ enabled = "yes" /\ ~LastOne(Erased(r))
           /\ lease' = Erased(r)
           /\ UNCHANGED <<merged, failed>>
        \/ enabled = "no" /\ UNCHANGED <<merged, lease, failed>>
  /\ Release(t)
  /\ UNCHANGED <<enabled, rasterQ, overlapped, surface, shown, engineVars>>

-----------------------------------------------------------------------------
(* The Shell, on the platform thread.                                      *)

\* Both handlers begin with DisableThreadMergerIfNeeded.
Begin(r, at) ==
  /\ failed = "no" /\ running["platform"] = Idle /\ r \in engines
  /\ OwnMutexFree("platform", r)
  /\ SetEnabled(r, "no")
  /\ Do("platform", Start(at, r))
  /\ UNCHANGED <<merged, lease, rasterQ, overlapped, surface, shown, frames,
                 built, engines, failed>>

OnPlatformViewCreated(r) ==
  /\ view[r] = "no" /\ given < MaxSurfaces
  /\ Begin(r, "created")
  /\ view' = [view EXCEPT ![r] = "yes"]
  /\ given' = given + 1

OnPlatformViewDestroyed(r) ==
  /\ view[r] = "yes" /\ (QuickRestart \/ surface[r] = "set")
  /\ Begin(r, "destroyed")
  /\ view' = [view EXCEPT ![r] = "no"]
  /\ UNCHANGED given

\* The raster task runs here if this thread runs the raster queue, and is
\* posted otherwise.
RunOrPost ==
  /\ failed = "no" /\ running["platform"].at \in {"created", "destroyed"}
  /\ LET r == running["platform"].r
         created == running["platform"].at = "created"
     IN  Do("platform", Start(
           IF merged = "yes" THEN (IF created THEN "setup" ELSE "teardown")
           ELSE (IF created THEN "postSetup" ELSE "postTeardown"), r))
  /\ IF merged = "yes" THEN BesideDraw ELSE UNCHANGED overlapped
  /\ UNCHANGED <<mergerVars, rasterQ, surface, shown, engineVars, failed>>

\* The platform thread waits until the surface is gone, not until it is set.
PostSetup ==
  /\ At("platform", "postSetup")
  /\ Post(Task("setup", running["platform"].r))
  /\ Do("platform", Idle)
  /\ UNCHANGED <<mergerVars, overlapped, surface, shown, engineVars, failed>>

PostTeardown ==
  /\ At("platform", "postTeardown")
  /\ Post(Task("teardown", running["platform"].r))
  /\ Goto("platform", "waits")
  /\ UNCHANGED <<mergerVars, overlapped, surface, shown, engineVars, failed>>

\* Shell::Spawn shares the merger of a rasterizer that has one.
Spawn(r) ==
  /\ failed = "no" /\ running["platform"] = Idle
  /\ r \in Rasterizers \ engines /\ \E e \in engines : HasMerger(e)
  /\ engines' = engines \cup {r}
  /\ UNCHANGED <<mergerVars, rasterQ, running, overlapped, surface, shown,
                 frames, built, view, given, failed>>

\* The pipeline has two slots; a frame that DoDraw holds still has its own.
InHand(r) ==
  {t \in Threads : running[t].r = r /\ running[t].at \in
     {"preroll", "merge", "queues", "record", "extend", "decrement", "lease"}}

\* The UI thread completes a frame; only the first in the pipeline posts.
BuildFrame(r, kind) ==
  /\ failed = "no" /\ r \in engines /\ built < MaxFrames
  /\ Len(frames[r]) + Cardinality(InHand(r)) < 2
  /\ built' = built + 1
  /\ frames' = [frames EXCEPT ![r] = Append(@, kind)]
  /\ IF frames[r] = <<>> THEN Post(Task("draw", r)) ELSE UNCHANGED rasterQ
  /\ UNCHANGED <<mergerVars, running, overlapped, surface, shown, view, given,
                 engines, failed>>

-----------------------------------------------------------------------------

ThreadStep(t) ==
  \/ TakeTask(t) \/ Draw(t) \/ Consume(t)
  \/ PrerollSeparate(t) \/ PrerollMerged(t)
  \/ MergeWithLease(t) \/ MergeQueues(t) \/ RecordLease(t)
  \/ ExtendLeaseTo(t) \/ DecrementLease(t) \/ DecrementShared(t)
  \/ Finish(t)
  \/ Setup(t) \/ Teardown(t) \/ TornDown(t) \/ UnMergeNowIfLastOne(t)

PlatformStep == RunOrPost \/ PostSetup \/ PostTeardown

Next ==
  \/ \E t \in Threads : ThreadStep(t)
  \/ PlatformStep
  \/ \E r \in Rasterizers :
       \/ OnPlatformViewCreated(r) \/ OnPlatformViewDestroyed(r) \/ Spawn(r)
       \/ \E kind \in FrameKinds : BuildFrame(r, kind)

Spec == Init /\ [][Next]_vars

\* The message loops run their tasks.
FairSpec ==
  /\ Spec
  /\ \A t \in Threads : WF_vars(ThreadStep(t))
  /\ WF_vars(PlatformStep)

-----------------------------------------------------------------------------
(* Properties.                                                             *)

Places == {"idle", "draw", "consume", "preroll", "merge", "queues", "record",
           "extend", "decrement", "lease", "finish", "setup", "teardown",
           "torn", "unmerge", "created", "destroyed", "postSetup",
           "postTeardown", "waits"}

Tasks == [kind : {"draw", "setup", "teardown"}, r : Rasterizers]
Works == [at : Places, r : Rasterizers, frame : FrameKinds,
          again : {"no", "yes"}, more : {"no", "yes"}]

\* Every variable has its type.
TypeOK ==
  /\ engines \subseteq Rasterizers
  /\ merged \in {"no", "yes"} /\ enabled \in {"no", "yes"}
  /\ lease \in [Rasterizers -> Nat \cup {NoRecord}]
  /\ rasterQ \in Seq(Tasks)
  /\ running \in [Threads -> Works]
  /\ overlapped \in Nat
  /\ surface \in [Rasterizers -> {"never", "none", "set"}]
  /\ frames \in [Rasterizers -> Seq(FrameKinds)]
  /\ shown \in [Rasterizers -> {"no", "yes"}]
  /\ built \in Nat /\ given \in Nat
  /\ view \in [Rasterizers -> {"no", "yes"}]
  /\ failed \in {"no", "merge", "unmerge", "lease"}

\* Merged queues have a lease that will run out, but for the moment in which
\* MergeWithLease has merged them and not recorded its lease: no order of
\* decrements and teardowns of several rasterizers leaves the threads merged
\* for ever.
MergedHasLease ==
  merged = "yes" => IsMerged \/ \E t \in Threads : running[t].at = "record"

\* No check of the merger fails for a lone engine, and for several only the one
\* on a lease can: queues that are merged are not merged again, nor, with at most
\* two raster tasks beside the end of the Draw that merged, separated twice.
Lone == Cardinality(engines) = 1
OnlyLeaseCheckFails ==
  IF Lone THEN failed = "no" ELSE failed \in {"no", "lease"}

\* That check states that a recorded lease is positive while the threads are
\* merged.
LeaseCheckHolds == failed # "lease"

\* What TaskQueues assumes of its callers: only a task of the raster thread
\* merges the queues, and only the platform thread separates them.
ThreadsChangeInTurn ==
  [][ /\ merged = "no" /\ merged' = "yes" => running["raster"].at = "queues"
      /\ merged = "yes" /\ merged' = "no" =>
           running["platform"].at \in {"lease", "unmerge"} ]_vars

\* A Draw finds itself on the wrong thread, and leaves its frame behind, only
\* in the moment in which another engine's lease is not recorded yet.
YieldsOnlyUnrecorded ==
  [][\A t \in Threads :
       running[t].at = "draw" /\ running'[t] = Idle =>
         \E u \in Threads \ {t} :
           running[u].at = "record" /\ running[u].r # running[t].r]_vars

\* While the platform thread waits for the raster thread to tear down, their
\* queues stay apart, or the task it waits for would be its own.
NeverWaitsForItself == running["platform"].at = "waits" => merged = "no"

LoneNeverWaitsForItself == Lone => NeverWaitsForItself

\* A frame of a lone engine leaves the pipeline for good: it is drawn or
\* dropped however often it is resubmitted, and across merges, separations
\* and the loss of the surface.
Pending(r) == frames[r] # <<>> \/ InHand(r) # {}
EveryFrameLeaves ==
  \A r \in Rasterizers : Pending(r) ~> ~Pending(r) \/ ~Lone
=============================================================================
