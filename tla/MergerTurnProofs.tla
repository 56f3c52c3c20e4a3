-------------------------- MODULE MergerTurnProofs ---------------------------
(***************************************************************************)
(* Proofs about ThreadMerger: which thread runs the tasks of the raster    *)
(* queue, and which checks of the merger can fail.                         *)
(*                                                                         *)
(* The platform thread runs raster tasks only while the queues are merged, *)
(* and the raster thread only its part of the Draw that merged them.  That *)
(* the lease of this Draw lasts until the raster thread is done rests on   *)
(* MergerAssumption: few tasks begin beside it.                            *)
(***************************************************************************)
EXTENDS ThreadMergerProofs, FiniteSetTheorems

Platform == running["platform"]
Raster == running["raster"]

\* Where the platform thread is while the queues are separate, and where the
\* raster thread is only then.
Quiet == {"idle", "finish", "created", "destroyed", "postSetup",
          "postTeardown", "waits"}
Alone == {"draw", "consume", "preroll", "merge", "queues", "setup",
          "teardown", "torn"}

\* Leases run only while the queues are merged.
Leased == IsMerged => merged = "yes"

\* Each thread runs raster tasks in its turn.
PlatformTurn == merged = "no" => Platform.at \in Quiet
RasterTurn ==
  /\ Raster.at \in Alone => merged = "no"
  /\ Raster.at = "record" => merged = "yes"
  /\ Raster.at \in Alone \cup {"idle", "record", "decrement", "lease", "finish"}

\* The platform thread draws with a lease: it has nothing to merge.
PlatformLeased ==
  /\ Platform.at \notin {"merge", "queues", "record"}
  /\ Platform.at = "consume" => IsMerged \/ surface[Platform.r] = "never"
  /\ Platform.at \in {"preroll", "extend", "decrement", "lease", "unmerge"} =>
       IsMerged

\* The Draw that the platform thread has begun may still take one off a lease.
Owed ==
  IF Platform.at \in {"draw", "consume", "preroll", "extend", "decrement",
                      "lease"} THEN 1 ELSE 0

\* The raster thread has merged the queues, and its Draw is not over.
AfterMerge == Raster.at = "lease" \/ (Raster.at = "decrement" /\ merged = "yes")

\* Its lease loses at most one for every task that began beside the Draw,
\* unless a Teardown erased it.
LeaseLasts ==
  /\ overlapped <= MaxOverlap
  /\ Raster.at = "record" => Owed <= overlapped
  /\ AfterMerge =>
       /\ Owed <= overlapped
       /\ \/ lease[Raster.r] = NoRecord
          \/ lease[Raster.r] >= LeaseTerm - overlapped + Owed

\* The inductive invariant of the turns, beside IInv.
Turns == Leased /\ PlatformTurn /\ RasterTurn /\ PlatformLeased /\ LeaseLasts

-----------------------------------------------------------------------------
(* What a step is to the merger.                                           *)

Tearing == {"teardown", "torn", "unmerge"}

\* The platform thread goes on with its task, or ends it.
Onward ==
  /\ Owed' <= Owed /\ Owed' \in {0, 1}
  /\ Platform'.at \in Tearing => Platform.at \in Tearing
  /\ Platform.at \in Quiet => Platform'.at \in Quiet

PlatformAside ==
  Raster' = Raster /\ UNCHANGED <<merged, lease, overlapped>> /\ Onward

\* So does the raster thread; it may release the platform thread.
RasterAside ==
  /\ Platform' \in {Platform, Idle}
  /\ UNCHANGED <<merged, lease, overlapped>>
  /\ Raster'.at # "record"
  /\ AfterMerge' => AfterMerge /\ Raster'.r = Raster.r

\* Each of them begins a task.
PlatformBegins ==
  /\ Raster' = Raster /\ UNCHANGED <<merged, lease>>
  /\ merged = "yes" /\ Owed = 0 /\ BesideDraw
  /\ Platform'.at \in {"draw", "setup", "teardown"}

RasterBegins ==
  /\ Platform' = Platform /\ UNCHANGED <<merged, lease>>
  /\ merged = "no" /\ Raster'.at \in {"draw", "setup", "teardown"}

\* What a step is that changes neither the queues nor a lease.
Aside == PlatformAside \/ RasterAside \/ PlatformBegins \/ RasterBegins

-----------------------------------------------------------------------------
(* How the steps of one thread leave the turns.                            *)

LEMMA IdleAt == Idle.at = "idle" /\ Idle.r = First /\ Idle \in Works
BY IdleIsWork DEF Idle, Start, Work

LEMMA Types ==
  ASSUME TypeOK
  PROVE  /\ Platform \in Works /\ Raster \in Works
         /\ Platform.r \in Rasterizers /\ Raster.r \in Rasterizers
         /\ \A r \in Rasterizers : lease[r] \in Int
         /\ overlapped \in Nat /\ Owed \in {0, 1} /\ LeaseTerm \in Nat
         /\ MaxOverlap \in Nat /\ LeaseTerm > MaxOverlap + 1
         /\ NoRecord = -1
<1>1. Platform \in Works /\ Raster \in Works
  BY DEF TypeOK, Threads, Platform, Raster
<1>2. \A r \in Rasterizers : lease[r] \in Int
  BY DEF TypeOK, NoRecord
<1> QED
  BY <1>1, <1>2, MergerAssumption DEF TypeOK, Works, Owed, NoRecord

LEMMA MergerKept ==
  ASSUME UNCHANGED lease
  PROVE  IsMerged' <=> IsMerged
BY DEF IsMerged, AllLeaseTermsZero

\* The platform thread leaves the queues and the leases alone.
LEMMA PlatformSteps ==
  ASSUME TypeOK, Turns, Raster' = Raster, UNCHANGED <<merged, lease, overlapped>>,
         Onward, PlatformTurn', PlatformLeased'
  PROVE  Turns' /\ Aside
<1>1. Leased' /\ RasterTurn'
  BY MergerKept DEF Turns, Leased, RasterTurn
<1>2. AfterMerge' <=> AfterMerge
  BY DEF AfterMerge
<1>3. LeaseLasts'
  BY <1>2, Types DEF Turns, LeaseLasts, Onward
<1> QED
  BY <1>1, <1>3 DEF Turns, Aside, PlatformAside

\* The raster thread leaves them alone.
LEMMA RasterSteps ==
  ASSUME TypeOK, Turns, Platform' \in {Platform, Idle},
         UNCHANGED <<merged, lease, overlapped>>,
         surface' = surface \/ Platform.at \in Quiet,
         RasterTurn', Raster'.at # "record",
         AfterMerge' => AfterMerge /\ Raster'.r = Raster.r
  PROVE  Turns' /\ Aside
<1>1. Leased'
  BY MergerKept DEF Turns, Leased
<1>2. PlatformTurn'
  BY IdleAt DEF Turns, PlatformTurn, Quiet
<1>3. PlatformLeased'
  BY IdleAt, MergerKept DEF Turns, PlatformLeased, Quiet
<1>4. Owed' <= Owed /\ Owed' \in {0, 1}
  BY IdleAt DEF Owed
<1>5. LeaseLasts'
  BY <1>4, Types DEF Turns, LeaseLasts
<1> QED
  BY <1>1, <1>2, <1>3, <1>5 DEF Turns, Aside, RasterAside

\* What a thread does next.
LEMMA GotoPlatform ==
  ASSUME TypeOK, NEW at \in Places, Goto("platform", at)
  PROVE  Platform'.at = at /\ Platform'.r = Platform.r /\ Raster' = Raster
BY GotoKeeps DEF Threads, Platform, Raster

LEMMA GotoRaster ==
  ASSUME TypeOK, NEW at \in Places, Goto("raster", at)
  PROVE  Raster'.at = at /\ Raster'.r = Raster.r /\ Platform' = Platform
BY GotoKeeps DEF Threads, Platform, Raster

LEMMA DoPlatform ==
  ASSUME TypeOK, NEW w \in Works, Do("platform", w)
  PROVE  Platform' = w /\ Raster' = Raster
BY DoKeeps DEF Threads, Platform, Raster

LEMMA DoRaster ==
  ASSUME TypeOK, NEW w \in Works, Do("raster", w)
  PROVE  Raster' = w /\ Platform' = Platform
BY DoKeeps DEF Threads, Platform, Raster

LEMMA ReleasePlatform ==
  ASSUME TypeOK, Turns, Release("platform")
  PROVE  Platform' = Idle /\ Raster' = Raster
BY DEF Turns, RasterTurn, Alone, Release, Threads, Platform, Raster

LEMMA ReleaseRaster ==
  ASSUME TypeOK, Release("raster")
  PROVE  /\ Raster' = Idle /\ Platform' \in {Platform, Idle}
         /\ Platform.at # "waits" => Platform' = Platform
BY DEF Release, Threads, Platform, Raster

-----------------------------------------------------------------------------
(* Each action keeps the turns.                                            *)

\* A task begins: beside the Draw that merged, or when it is over.
LEMMA BesideTurns ==
  ASSUME TypeOK, Turns, PlatformBegins
  PROVE  Turns'
<1> USE DEF PlatformBegins
<1>1. Leased' /\ RasterTurn' /\ PlatformTurn'
  BY MergerKept DEF Turns, Leased, RasterTurn, PlatformTurn
<1>2. PlatformLeased'
  BY DEF PlatformLeased
<1>3. AfterMerge' <=> AfterMerge
  BY DEF AfterMerge
<1>4. Owed' \in {0, 1} /\ overlapped' <= MaxOverlap
  BY DEF Owed, BesideDraw
<1>5. CASE Raster = Idle
  <2>1. Raster'.at = "idle"
    BY <1>5, IdleAt
  <2> QED
    BY <1>1, <1>2, <1>4, <2>1 DEF Turns, LeaseLasts, AfterMerge
<1>6. CASE Raster # Idle
  <2>1. overlapped' = overlapped + 1
    BY <1>6 DEF BesideDraw, Raster
  <2>2. LeaseLasts'
    BY <1>3, <1>4, <2>1, Types DEF Turns, LeaseLasts
  <2> QED
    BY <1>1, <1>2, <2>2 DEF Turns
<1> QED
  BY <1>5, <1>6

LEMMA TakeTaskTurns ==
  ASSUME TypeOK, Turns, NEW t \in Threads, TakeTask(t)
  PROVE  Turns' /\ Aside
<1> DEFINE w == Start(Head(rasterQ).kind, Head(rasterQ).r)
<1>1. Head(rasterQ) \in Tasks
  BY HeadTailProperties DEF TypeOK, TakeTask
<1>2. Head(rasterQ).kind \in {"draw", "setup", "teardown"}
      /\ Head(rasterQ).kind \in Places /\ Head(rasterQ).r \in Rasterizers
  BY <1>1 DEF Tasks, Places
<1>3. w \in Works /\ w.at \in {"draw", "setup", "teardown"}
  BY <1>2, StartIsWork
<1>4. Do(t, w) /\ UNCHANGED <<merged, lease, surface>> /\ BesideDraw
      /\ t = RasterOwner /\ running[t] = Idle
  BY DEF TakeTask, mergerVars
<1> HIDE DEF w
<1>5. /\ running'[t] = w
      /\ \A u \in Threads \ {t} : running'[u] = running[u]
  BY <1>3, <1>4, DoKeeps
<1>6. CASE t = "platform"
  <2>1. merged = "yes" /\ Raster' = Raster /\ Platform' = w /\ Platform = Idle
    BY <1>4, <1>5, <1>6 DEF RasterOwner, Threads, Platform, Raster
  <2>2. Owed = 0
    BY <2>1, IdleAt DEF Owed
  <2> QED
    BY <1>3, <1>4, <2>1, <2>2, BesideTurns DEF PlatformBegins, Aside
<1>7. CASE t = "raster"
  <2>1. merged = "no" /\ Raster' = w /\ Platform' = Platform /\ Raster = Idle
    BY <1>4, <1>5, <1>7 DEF RasterOwner, Threads, Platform, Raster, TypeOK
  <2>2. Leased' /\ PlatformTurn' /\ PlatformLeased'
    BY <1>4, <2>1, MergerKept DEF Turns, Leased, PlatformTurn, PlatformLeased
  <2>3. RasterTurn'
    BY <1>3, <1>4, <2>1 DEF RasterTurn, Alone
  <2>4. LeaseLasts'
    BY <1>3, <1>4, <2>1 DEF LeaseLasts, AfterMerge, BesideDraw
  <2> QED
    BY <1>3, <1>4, <2>1, <2>2, <2>3, <2>4 DEF Turns, RasterBegins, Aside
<1> QED
  BY <1>6, <1>7 DEF Threads

LEMMA DrawTurns ==
  ASSUME TypeOK, Turns, NEW t \in Threads, Draw(t)
  PROVE  Turns' /\ Aside
<1>1. Goto(t, "consume") \/ Do(t, Idle)
  BY DEF Draw
<1>2. UNCHANGED <<merged, lease, overlapped, surface>> /\ "consume" \in Places
  BY DEF Draw, mergerVars, Places
<1>3. CASE t = "platform"
  <2>1. Platform.at = "draw" /\ Raster' = Raster
        /\ \/ Platform'.at = "consume" /\ Platform'.r = Platform.r
           \/ Platform' = Idle
    BY <1>1, <1>2, <1>3, GotoPlatform, DoPlatform, IdleAt DEF Draw, At, Platform
  <2>2. PlatformTurn'
    BY <1>2, <2>1, IdleAt DEF Turns, PlatformTurn, Quiet
  <2>3. Platform'.at = "consume" => IsMerged \/ surface[Platform.r] = "never"
    <3>1. CASE ~HasMerger(Platform.r) \/ IsOnRasterizingThread(t, Platform.r)
      BY <1>3, <3>1 DEF HasMerger, IsOnRasterizingThread
    <3>2. CASE HasMerger(Platform.r) /\ ~IsOnRasterizingThread(t, Platform.r)
      BY <1>3, <3>2, DoPlatform, IdleAt DEF Draw, Platform
    <3> QED
      BY <3>1, <3>2
  <2>4. PlatformLeased'
    BY <1>2, <2>1, <2>3, IdleAt, MergerKept DEF PlatformLeased
  <2>5. Onward
    BY <2>1, IdleAt DEF Onward, Owed, Quiet, Tearing
  <2> QED
    BY <1>2, <2>1, <2>2, <2>4, <2>5, PlatformSteps
<1>4. CASE t = "raster"
  <2>1. Raster.at = "draw" /\ Platform' = Platform /\ Raster'.at \in {"consume", "idle"}
    BY <1>1, <1>2, <1>4, GotoRaster, DoRaster, IdleAt DEF Draw, At, Raster
  <2>2. RasterTurn' /\ ~AfterMerge'
    BY <1>2, <2>1 DEF Turns, RasterTurn, AfterMerge, Alone
  <2> QED
    BY <1>2, <2>1, <2>2, RasterSteps
<1> QED
  BY <1>3, <1>4 DEF Threads

LEMMA ConsumeTurns ==
  ASSUME TypeOK, Turns, NEW t \in Threads, Consume(t)
  PROVE  Turns' /\ Aside
<1> DEFINE r == running[t].r
           frame == Head(frames[r])
           more == IF Len(frames[r]) > 1 THEN "yes" ELSE "no"
           next == IF surface[r] # "set" THEN "finish"
                   ELSE IF frame = "views" THEN "preroll" ELSE "decrement"
           w == Work(next, r, frame, "no", more)
<1>1. running[t].at = "consume" /\ r \in Rasterizers /\ frames[r] \in Seq(FrameKinds)
      /\ UNCHANGED <<merged, lease, overlapped, surface>>
  BY DEF Consume, At, TypeOK, Works, mergerVars
<1>2. \E v \in Works :
        /\ Do(t, v)
        /\ v.at \in {"idle", "finish", "preroll", "decrement"}
        /\ v.at \in {"preroll", "decrement"} => surface[r] = "set"
  <2>1. CASE frames[r] = <<>>
    BY <2>1, IdleAt DEF Consume
  <2>2. CASE frames[r] # <<>>
    <3>1. frame \in FrameKinds
      BY <1>1, <2>2, HeadTailProperties
    <3>2. more \in {"no", "yes"} /\ next \in {"finish", "preroll", "decrement"}
          /\ (next \in {"preroll", "decrement"} => surface[r] = "set")
      OBVIOUS
    <3>3. Do(t, w)
      BY <2>2 DEF Consume
    <3> HIDE DEF next, more, frame, r
    <3>4. w \in Works /\ w.at = next
      BY <1>1, <3>1, <3>2 DEF Work, Works, Places
    <3> QED
      BY <3>2, <3>3, <3>4
  <2> QED
    BY <2>1, <2>2
<1>3. PICK v \in Works :
        /\ Do(t, v)
        /\ v.at \in {"idle", "finish", "preroll", "decrement"}
        /\ v.at \in {"preroll", "decrement"} => surface[r] = "set"
  BY <1>2
<1>4. CASE t = "platform"
  <2>1. Platform.at = "consume" /\ Platform' = v /\ Raster' = Raster
    BY <1>1, <1>3, <1>4, DoPlatform DEF Platform
  <2>2. v.at \in {"preroll", "decrement"} => IsMerged
    BY <1>3, <1>4, <2>1 DEF Turns, PlatformLeased, Platform
  <2>3. PlatformLeased'
    BY <1>1, <1>3, <2>1, <2>2, MergerKept DEF PlatformLeased
  <2>4. PlatformTurn'
    BY <1>1, <1>3, <2>1, <2>2 DEF Turns, Leased, PlatformTurn, Quiet
  <2>5. Onward
    BY <1>3, <2>1 DEF Onward, Owed, Quiet, Tearing
  <2> QED
    BY <1>1, <2>1, <2>3, <2>4, <2>5, PlatformSteps
<1>5. CASE t = "raster"
  <2>1. Raster.at = "consume" /\ Raster' = v /\ Platform' = Platform
    BY <1>1, <1>3, <1>5, DoRaster DEF Raster
  <2>2. merged = "no" /\ merged' = merged
    BY <1>1, <2>1 DEF Turns, RasterTurn, Alone
  <2>3. RasterTurn' /\ ~AfterMerge'
    BY <1>3, <2>1, <2>2 DEF RasterTurn, AfterMerge, Alone
  <2> QED
    BY <1>1, <1>3, <2>1, <2>3, RasterSteps
<1> QED
  BY <1>4, <1>5 DEF Threads

\* The platform thread never finds the threads separate here, nor the raster
\* thread merged.
LEMMA PrerollTurns ==
  ASSUME TypeOK, Turns, NEW t \in Threads, PrerollSeparate(t) \/ PrerollMerged(t)
  PROVE  Turns' /\ Aside
<1>1. running[t].at = "preroll" /\ UNCHANGED <<merged, lease, overlapped, surface>>
  BY DEF PrerollSeparate, PrerollMerged, At, mergerVars
<1>2. CASE t = "platform"
  <2>1. Platform.at = "preroll" /\ IsMerged /\ merged = "yes"
    BY <1>1, <1>2 DEF Turns, PlatformLeased, Leased, Platform
  <2>2. Goto("platform", "extend") /\ "extend" \in Places
    BY <1>2, <2>1 DEF PrerollSeparate, PrerollMerged, Places
  <2>3. Platform'.at = "extend" /\ Raster' = Raster
    BY <2>2, GotoPlatform
  <2>4. PlatformTurn' /\ PlatformLeased'
    BY <1>1, <2>1, <2>3, MergerKept DEF PlatformTurn, PlatformLeased
  <2>5. Onward
    BY <2>1, <2>3 DEF Onward, Owed, Quiet, Tearing
  <2> QED
    BY <1>1, <2>3, <2>4, <2>5, PlatformSteps
<1>3. CASE t = "raster"
  <2> DEFINE w == [Raster EXCEPT !.at = "merge", !.again = "yes"]
  <2>1. Raster.at = "preroll" /\ merged = "no" /\ ~IsMerged
    BY <1>1, <1>3 DEF Turns, RasterTurn, Alone, Leased, Raster
  <2>2. Do("raster", w)
    BY <1>3, <2>1 DEF PrerollSeparate, PrerollMerged, Raster
  <2>3. w \in Works /\ w.at = "merge"
    BY Types DEF Works, Places
  <2> HIDE DEF w
  <2>4. Raster' = w /\ Platform' = Platform
    BY <2>2, <2>3, DoRaster
  <2>5. RasterTurn' /\ ~AfterMerge'
    BY <1>1, <2>1, <2>3, <2>4 DEF RasterTurn, AfterMerge, Alone
  <2> QED
    BY <1>1, <2>3, <2>4, <2>5, RasterSteps
<1> QED
  BY <1>2, <1>3 DEF Threads

LEMMA MergeWithLeaseTurns ==
  ASSUME TypeOK, Turns, NEW t \in Threads, MergeWithLease(t)
  PROVE  Turns' /\ Aside
<1>1. t = "raster" /\ Raster.at = "merge" /\ merged = "no"
  BY DEF MergeWithLease, At, Turns, PlatformLeased, RasterTurn, Alone, Threads,
         Platform, Raster
<1>2. PICK at \in {"queues", "decrement"} : Goto("raster", at)
  BY <1>1 DEF MergeWithLease
<1>3. at \in Places /\ UNCHANGED <<merged, lease, overlapped, surface>>
  BY DEF Places, MergeWithLease, mergerVars
<1>4. Raster'.at = at /\ Platform' = Platform
  BY <1>2, <1>3, GotoRaster
<1>5. RasterTurn' /\ ~AfterMerge'
  BY <1>1, <1>3, <1>4 DEF RasterTurn, AfterMerge, Alone
<1> QED
  BY <1>3, <1>4, <1>5, RasterSteps

\* Only the raster thread merges the queues, while the platform thread has no
\* raster task.
LEMMA MergeQueuesTurns ==
  ASSUME TypeOK, Turns, NEW t \in Threads, MergeQueues(t)
  PROVE  Turns'
<1>1. t = "raster" /\ Raster.at = "queues" /\ merged = "no"
  BY DEF MergeQueues, At, Turns, PlatformLeased, RasterTurn, Alone, Threads,
         Platform, Raster
<1>2. ~IsMerged /\ Platform.at \in Quiet
  BY <1>1 DEF Turns, Leased, PlatformTurn
<1>3. merged' = "yes" /\ Goto("raster", "record") /\ UNCHANGED <<lease, overlapped, surface>>
  BY <1>1, <1>2 DEF MergeQueues
<1>4. Raster'.at = "record" /\ Platform' = Platform
  BY <1>3, GotoRaster DEF Places
<1>5. Leased' /\ PlatformTurn' /\ RasterTurn'
  BY <1>3, <1>4 DEF Leased, PlatformTurn, RasterTurn, Alone
<1>6. PlatformLeased'
  BY <1>2, <1>4 DEF PlatformLeased, Quiet
<1>7. Owed' = 0
  BY <1>2, <1>4 DEF Owed, Quiet
<1>8. LeaseLasts'
  BY <1>3, <1>4, <1>7, Types DEF Turns, LeaseLasts, AfterMerge
<1> QED
  BY <1>5, <1>6, <1>8 DEF Turns

LEMMA RecordLeaseTurns ==
  ASSUME TypeOK, Turns, NEW t \in Threads, RecordLease(t)
  PROVE  Turns'
<1>1. t = "raster" /\ Raster.at = "record" /\ merged = "yes"
  BY DEF RecordLease, At, Turns, PlatformLeased, RasterTurn, Threads,
         Platform, Raster
<1>2. /\ UNCHANGED <<merged, overlapped, surface>> /\ Goto("raster", "decrement")
      /\ lease' = [lease EXCEPT ![Raster.r] = LeaseTerm]
  BY <1>1 DEF RecordLease, RecordedTerm, Raster
<1>3. Raster'.at = "decrement" /\ Raster'.r = Raster.r /\ Platform' = Platform
  BY <1>2, GotoRaster DEF Places
<1>4. IsMerged'
  BY <1>2, Types, LeaseGiven
<1>5. lease'[Raster.r] = LeaseTerm
  BY <1>2, Types DEF TypeOK
<1>6. Leased' /\ PlatformTurn' /\ RasterTurn'
  BY <1>1, <1>2, <1>3 DEF Leased, PlatformTurn, RasterTurn, Alone
<1>7. PlatformLeased'
  BY <1>2, <1>3, <1>4 DEF Turns, PlatformLeased
<1>8. Owed' = Owed
  BY <1>3 DEF Owed
<1>9. LeaseLasts'
  BY <1>1, <1>2, <1>3, <1>5, <1>8, Types DEF Turns, LeaseLasts, AfterMerge
<1> QED
  BY <1>6, <1>7, <1>9 DEF Turns

LEMMA ExtendLeaseTurns ==
  ASSUME TypeOK, Turns, NEW t \in Threads, ExtendLeaseTo(t)
  PROVE  Turns'
<1> DEFINE w == [Platform EXCEPT !.at = "decrement",
                   !.again = IF shown[Platform.r] = "no" THEN "yes" ELSE "no"]
<1>1. t = "platform" /\ Platform.at = "extend"
  BY DEF ExtendLeaseTo, At, Turns, RasterTurn, Alone, Threads, Platform, Raster
<1>2. IsMerged /\ merged = "yes" /\ UNCHANGED <<merged, overlapped, surface>>
  BY <1>1 DEF Turns, PlatformLeased, Leased, ExtendLeaseTo
<1>3. w \in Works /\ w.at = "decrement" /\ w.r = Platform.r
  BY Types DEF Works, Places
<1>4. Do("platform", w)
  BY <1>1 DEF ExtendLeaseTo, Platform
<1> HIDE DEF w
<1>5. Platform' = w /\ Raster' = Raster
  BY <1>3, <1>4, DoPlatform
<1>6. \/ lease' = lease
      \/ lease' = [lease EXCEPT ![Platform.r] = LeaseTerm]
  BY <1>1 DEF ExtendLeaseTo, Platform
<1>7. IsMerged'
  BY <1>2, <1>6, Types, LeaseGiven, MergerKept
<1>8. Leased' /\ PlatformTurn' /\ RasterTurn' /\ PlatformLeased'
  BY <1>2, <1>3, <1>5, <1>7 DEF Turns, Leased, PlatformTurn, RasterTurn,
     PlatformLeased
<1>9. lease'[Raster.r] \in {lease[Raster.r], LeaseTerm}
  BY <1>6, Types DEF TypeOK
<1>10. Owed = 1 /\ Owed' = 1
  BY <1>1, <1>3, <1>5 DEF Owed
<1>11. AfterMerge' <=> AfterMerge
  BY <1>2, <1>5 DEF AfterMerge
<1>12. LeaseLasts'
  BY <1>2, <1>5, <1>9, <1>10, <1>11, Types DEF Turns, LeaseLasts
<1> QED
  BY <1>8, <1>12 DEF Turns

LEMMA DecrementLeaseTurns ==
  ASSUME TypeOK, Turns, NEW t \in Threads, DecrementLease(t)
  PROVE  Turns' /\ Aside
<1>1. running[t].at = "decrement" /\ UNCHANGED <<merged, lease, overlapped, surface>>
  BY DEF DecrementLease, At, mergerVars
<1>2. PICK at \in {"lease", "finish"} : Goto(t, at) /\ (at = "lease" => IsMerged)
  BY DEF DecrementLease
<1>3. at \in Places
  BY DEF Places
<1>4. CASE t = "platform"
  <2>1. Platform.at = "decrement" /\ Platform'.at = at /\ Raster' = Raster
    BY <1>1, <1>2, <1>3, <1>4, GotoPlatform DEF Platform
  <2>2. PlatformLeased' /\ PlatformTurn'
    BY <1>1, <1>2, <2>1, MergerKept
       DEF Turns, Leased, PlatformLeased, PlatformTurn, Quiet
  <2>3. Onward
    BY <2>1 DEF Onward, Owed, Quiet, Tearing
  <2> QED
    BY <1>1, <2>1, <2>2, <2>3, PlatformSteps
<1>5. CASE t = "raster"
  <2>1. /\ Raster.at = "decrement" /\ Raster'.at = at /\ Raster'.r = Raster.r
        /\ Platform' = Platform
    BY <1>1, <1>2, <1>3, <1>5, GotoRaster DEF Raster
  <2>2. RasterTurn'
    BY <1>1, <2>1 DEF RasterTurn, Alone
  <2>3. AfterMerge' => AfterMerge
    BY <1>1, <1>2, <2>1 DEF AfterMerge, Turns, Leased
  <2> QED
    BY <1>1, <2>1, <2>2, <2>3, RasterSteps
<1> QED
  BY <1>4, <1>5 DEF Threads

\* A decrement takes one off the lease of its caller.
LEMMA LeaseLowered ==
  ASSUME TypeOK, NEW r \in Rasterizers
  PROVE  /\ \A q \in Rasterizers : q # r => Decremented(r)[q] = lease[q]
         /\ Decremented(r)[r] = IF lease[r] = NoRecord THEN NoRecord ELSE lease[r] - 1
         /\ ~AllLeaseTermsZero(Decremented(r)) => IsMerged
<1>1. lease \in [Rasterizers -> Nat \cup {NoRecord}]
  BY DEF TypeOK
<1>2. \A q \in Rasterizers : q # r => Decremented(r)[q] = lease[q]
  BY <1>1 DEF Decremented
<1>3. Decremented(r)[r] = IF lease[r] = NoRecord THEN NoRecord ELSE lease[r] - 1
  BY <1>1 DEF Decremented
<1>4. \A q \in Rasterizers : lease[q] <= 0 => Decremented(r)[q] <= 0
  BY <1>2, <1>3, Types
<1> QED
  BY <1>2, <1>3, <1>4 DEF AllLeaseTermsZero, IsMerged

\* The raster thread does not separate the queues: the lease of its Draw has
\* not run out.
LEMMA RasterDecrements ==
  ASSUME TypeOK, MergedHasLease, Turns, DecrementShared("raster")
  PROVE  /\ Raster.at = "lease" /\ merged' = merged
         /\ IsMerged' <=> IsMerged
         /\ failed' = "unmerge" => lease[Raster.r] = NoRecord /\ merged = "no"
         /\ failed' = "lease" => lease[Raster.r] = 0
         /\ \/ Raster' = Raster /\ lease' = lease
            \/ Raster'.at = "finish" /\ Raster'.r = Raster.r
         /\ Platform' = Platform
<1> DEFINE l == Decremented(Raster.r)
           w == IF Raster.again = "yes" THEN [Raster EXCEPT !.at = "finish"]
                ELSE [Raster EXCEPT !.at = "finish", !.more = "yes"]
<1>1. Raster.at = "lease" /\ AfterMerge /\ failed = "no" /\ Raster.r \in Rasterizers
  BY Types DEF DecrementShared, At, Raster, AfterMerge
<1>2. CASE lease[Raster.r] = 0
  <2>1. failed' = "lease" /\ UNCHANGED <<merged, lease, running>>
    BY <1>2 DEF DecrementShared, Raster
  <2> QED
    BY <1>1, <1>2, <2>1, MergerKept DEF Raster, Platform
<1>3. ASSUME lease[Raster.r] # 0, lease[Raster.r] # NoRecord
      PROVE  ~LastLease(l) /\ IsMerged
  <2>1. l[Raster.r] = lease[Raster.r] - 1
    BY <1>1, <1>3, LeaseLowered
  <2>2. lease[Raster.r] >= LeaseTerm - overlapped + Owed /\ overlapped <= MaxOverlap
    BY <1>1, <1>3 DEF Turns, LeaseLasts
  <2>3. l[Raster.r] > 0 /\ lease[Raster.r] > 0
    BY <2>1, <2>2, Types
  <2>4. ~(l[Raster.r] <= 0) /\ ~(lease[Raster.r] <= 0)
    BY <2>1, <2>3, Types
  <2> HIDE DEF l
  <2> QED
    BY <1>1, <2>4 DEF LastLease, AllLeaseTermsZero, IsMerged
<1>4. CASE lease[Raster.r] # 0 /\ ~LastLease(l)
  <2>1. lease' = l /\ Goto("raster", "finish") /\ UNCHANGED <<merged, failed>>
    BY <1>4 DEF DecrementShared, Raster
  <2>2. Raster'.at = "finish" /\ Raster'.r = Raster.r /\ Platform' = Platform
    BY <2>1, GotoRaster DEF Places
  <2>3. IsMerged' /\ IsMerged
    BY <1>1, <1>4, <2>1, LeaseLeft, LeaseLowered DEF LastLease
  <2> QED
    BY <1>1, <2>1, <2>2, <2>3
<1>5. CASE lease[Raster.r] # 0 /\ LastLease(l)
  <2>1. lease[Raster.r] = NoRecord
    BY <1>3, <1>5
  <2>2. lease' = l /\ Unmerge /\ Do("raster", w)
    BY <1>5 DEF DecrementShared, Goto, Raster
  <2>3. w \in Works /\ w.at = "finish" /\ w.r = Raster.r
    BY Types DEF Works, Places
  <2> HIDE DEF w
  <2>4. Raster' = w /\ Platform' = Platform
    BY <2>2, <2>3, DoRaster
  <2>5. \A q \in Rasterizers : l[q] = lease[q]
    BY <1>1, <2>1, LeaseLowered
  <2> HIDE DEF l
  <2>6. ~IsMerged
    BY <1>5, <2>5 DEF LastLease, AllLeaseTermsZero, IsMerged
  <2>7. ~IsMerged'
    BY <1>5, <2>2 DEF LastLease, AllLeaseTermsZero, IsMerged
  <2>8. merged = "no"
    BY <1>1, <2>6 DEF MergedHasLease, Turns, PlatformLeased, Threads, Platform,
       Raster, TypeOK
  <2> QED
    BY <1>1, <2>1, <2>2, <2>3, <2>4, <2>6, <2>7, <2>8 DEF Unmerge
<1> QED
  BY <1>2, <1>4, <1>5

\* The platform thread separates the queues only with the last lease.
LEMMA PlatformDecrements ==
  ASSUME TypeOK, Turns, DecrementShared("platform")
  PROVE  /\ Platform.at = "lease" /\ IsMerged /\ merged = "yes"
         /\ Raster.at # "record" /\ Raster' = Raster
         /\ \/ /\ UNCHANGED <<merged, lease>> /\ Platform' = Platform
               /\ failed' = "lease" /\ lease[Platform.r] = 0
            \/ /\ lease' = Decremented(Platform.r) /\ Platform'.at = "finish"
               /\ Platform'.r = Platform.r
               /\ merged' = (IF IsMerged' THEN "yes" ELSE "no")
               /\ failed' = "no"
<1> DEFINE l == Decremented(Platform.r)
           w == IF Platform.again = "yes" THEN [Platform EXCEPT !.at = "finish"]
                ELSE [Platform EXCEPT !.at = "finish", !.more = "yes"]
<1>1. Platform.at = "lease" /\ failed = "no" /\ Raster.at # "record"
  BY DEF DecrementShared, At, Platform, Raster, SharedMutexFree, Threads
<1>2. IsMerged /\ merged = "yes"
  BY <1>1 DEF Turns, PlatformLeased, Leased
<1>3. CASE lease[Platform.r] = 0
  <2>1. failed' = "lease" /\ UNCHANGED <<merged, lease, running>>
    BY <1>3 DEF DecrementShared, Platform
  <2> QED
    BY <1>1, <1>2, <1>3, <2>1 DEF Raster, Platform
<1>4. CASE lease[Platform.r] # 0 /\ ~LastLease(l)
  <2>1. lease' = l /\ Goto("platform", "finish") /\ UNCHANGED <<merged, failed>>
    BY <1>4 DEF DecrementShared, Platform
  <2>2. Platform'.at = "finish" /\ Platform'.r = Platform.r /\ Raster' = Raster
    BY <2>1, GotoPlatform DEF Places
  <2>3. IsMerged'
    BY <1>4, <2>1, LeaseLeft DEF LastLease
  <2> QED
    BY <1>1, <1>2, <2>1, <2>2, <2>3
<1>5. CASE lease[Platform.r] # 0 /\ LastLease(l)
  <2>1. lease' = l /\ Unmerge /\ Do("platform", w)
    BY <1>5 DEF DecrementShared, Goto, Platform
  <2>2. w \in Works /\ w.at = "finish" /\ w.r = Platform.r
    BY Types DEF Works, Places
  <2> HIDE DEF w
  <2>3. Platform' = w /\ Raster' = Raster
    BY <2>1, <2>2, DoPlatform
  <2> HIDE DEF l
  <2>4. ~IsMerged'
    BY <1>5, <2>1 DEF LastLease, AllLeaseTermsZero, IsMerged
  <2>5. merged' = "no" /\ failed' = "no"
    BY <1>1, <1>2, <2>1 DEF Unmerge
  <2> QED
    BY <1>1, <1>2, <2>1, <2>2, <2>3, <2>4, <2>5 DEF l
<1> QED
  BY <1>3, <1>4, <1>5

LEMMA DecrementSharedTurns ==
  ASSUME TypeOK, MergedHasLease, Turns, NEW t \in Threads, DecrementShared(t)
  PROVE  Turns'
<1>1. UNCHANGED <<overlapped, surface>>
  BY DEF DecrementShared
<1>2. CASE t = "platform"
  <2>1. CASE UNCHANGED <<merged, lease>> /\ Platform' = Platform /\ Raster' = Raster
    <3>1. Owed' = Owed /\ (AfterMerge' <=> AfterMerge)
      BY <2>1 DEF Owed, AfterMerge
    <3>2. LeaseLasts'
      BY <1>1, <2>1, <3>1 DEF Turns, LeaseLasts
    <3> QED
      BY <1>1, <2>1, <3>2, MergerKept DEF Turns, Leased, PlatformTurn, RasterTurn,
         PlatformLeased
  <2>2. CASE /\ lease' = Decremented(Platform.r) /\ Platform'.at = "finish"
             /\ merged' = (IF IsMerged' THEN "yes" ELSE "no")
    <3>1. Platform.at = "lease" /\ merged = "yes" /\ Raster.at # "record" /\ Raster' = Raster
      BY <1>2, PlatformDecrements
    <3>2. Leased' /\ PlatformTurn' /\ PlatformLeased'
      BY <2>2 DEF Leased, PlatformTurn, PlatformLeased, Quiet
    <3>3. RasterTurn'
      BY <3>1 DEF Turns, RasterTurn, Alone
    <3>4. Owed = 1 /\ Owed' = 0
      BY <2>2, <3>1 DEF Owed
    <3>5. AfterMerge' => AfterMerge
      BY <3>1 DEF AfterMerge
    <3>6. /\ lease[Raster.r] = NoRecord => lease'[Raster.r] = NoRecord
          /\ lease'[Raster.r] >= lease[Raster.r] - 1
      BY <2>2, Types, LeaseLowered
    <3>7. lease'[Raster.r] \in Int
      BY <2>2, Types, LeaseLowered
    <3>8. LeaseLasts'
      BY <1>1, <3>1, <3>4, <3>5, <3>6, <3>7, Types DEF Turns, LeaseLasts
    <3> QED
      BY <3>2, <3>3, <3>8 DEF Turns
  <2> QED
    BY <1>2, <2>1, <2>2, PlatformDecrements
<1>3. CASE t = "raster"
  <2>1. /\ Raster.at = "lease" /\ merged' = merged /\ Platform' = Platform
        /\ IsMerged' <=> IsMerged
        /\ \/ Raster' = Raster /\ lease' = lease
           \/ Raster'.at = "finish"
    BY <1>3, RasterDecrements
  <2>2. Leased' /\ PlatformTurn' /\ RasterTurn' /\ PlatformLeased'
    BY <1>1, <2>1 DEF Turns, Leased, PlatformTurn, RasterTurn, PlatformLeased, Alone
  <2>3. Owed' = Owed
    BY <2>1 DEF Owed
  <2>4. LeaseLasts'
    BY <1>1, <2>1, <2>3 DEF Turns, LeaseLasts, AfterMerge
  <2> QED
    BY <2>2, <2>4 DEF Turns
<1> QED
  BY <1>2, <1>3 DEF Threads

LEMMA FinishTurns ==
  ASSUME TypeOK, Turns, NEW t \in Threads, Finish(t)
  PROVE  Turns' /\ Aside
<1>1. running[t].at = "finish" /\ Do(t, Idle)
      /\ UNCHANGED <<merged, lease, overlapped, surface>>
  BY DEF Finish, At, mergerVars
<1>2. CASE t = "platform"
  <2>1. Platform' = Idle /\ Raster' = Raster
    BY <1>1, <1>2, IdleAt, DoPlatform
  <2>2. PlatformTurn' /\ PlatformLeased' /\ Onward
    BY <2>1, IdleAt DEF PlatformTurn, PlatformLeased, Onward, Owed, Quiet, Tearing
  <2> QED
    BY <1>1, <2>1, <2>2, Types, PlatformSteps
<1>3. CASE t = "raster"
  <2>1. Raster' = Idle /\ Platform' = Platform
    BY <1>1, <1>3, IdleAt, DoRaster
  <2>2. RasterTurn' /\ ~AfterMerge'
    BY <2>1, IdleAt DEF RasterTurn, AfterMerge, Alone
  <2> QED
    BY <1>1, <2>1, <2>2, IdleAt, RasterSteps
<1> QED
  BY <1>2, <1>3 DEF Threads

LEMMA SetupTurns ==
  ASSUME TypeOK, Turns, NEW t \in Threads, Setup(t) \/ Teardown(t)
  PROVE  Turns' /\ Aside
<1>1. /\ \/ running[t].at = "setup" /\ Do(t, Idle)
         \/ running[t].at = "teardown" /\ Goto(t, "torn")
      /\ UNCHANGED <<merged, lease, overlapped>> /\ "torn" \in Places
  BY DEF Setup, Teardown, At, Places
<1>2. CASE t = "platform"
  <2>1. /\ \/ Platform.at = "setup" /\ Platform'.at = "idle"
           \/ Platform.at = "teardown" /\ Platform'.at = "torn"
        /\ Raster' = Raster
    BY <1>1, <1>2, IdleAt, DoPlatform, GotoPlatform DEF Platform
  <2>2. PlatformTurn' /\ PlatformLeased' /\ Onward
    BY <1>1, <2>1 DEF Turns, PlatformTurn, PlatformLeased, Onward, Owed, Quiet, Tearing
  <2> QED
    BY <1>1, <2>1, <2>2, Types, PlatformSteps
<1>3. CASE t = "raster"
  <2>1. Raster.at \in {"setup", "teardown"} /\ Raster'.at \in {"idle", "torn"}
        /\ Platform' = Platform
    BY <1>1, <1>3, IdleAt, DoRaster, GotoRaster DEF Raster
  <2>2. merged = "no" /\ Platform.at \in Quiet
    BY <2>1 DEF Turns, RasterTurn, PlatformTurn, Alone
  <2>3. RasterTurn' /\ ~AfterMerge'
    BY <1>1, <2>1, <2>2 DEF RasterTurn, AfterMerge, Alone
  <2> QED
    BY <1>1, <2>1, <2>2, <2>3, RasterSteps
<1> QED
  BY <1>2, <1>3 DEF Threads

LEMMA TornDownTurns ==
  ASSUME TypeOK, Turns, NEW t \in Threads, TornDown(t)
  PROVE  Turns' /\ Aside
<1>1. running[t].at = "torn" /\ UNCHANGED <<merged, lease, overlapped, surface>>
  BY DEF TornDown, At, mergerVars
<1>2. (IsMerged /\ Goto(t, "unmerge")) \/ Release(t)
  BY DEF TornDown, HasToSeparate
<1>3. CASE t = "platform"
  <2>1. /\ Platform.at = "torn" /\ Raster' = Raster
        /\ (Platform'.at = "unmerge" /\ IsMerged) \/ Platform' = Idle
    BY <1>1, <1>2, <1>3, GotoPlatform, ReleasePlatform DEF Places, Platform
  <2>2. PlatformTurn' /\ PlatformLeased' /\ Onward
    BY <1>1, <2>1, IdleAt, MergerKept
       DEF Turns, Leased, PlatformTurn, PlatformLeased, Onward, Owed, Quiet, Tearing
  <2> QED
    BY <1>1, <2>1, <2>2, Types, PlatformSteps
<1>4. CASE t = "raster"
  <2>1. Raster.at = "torn" /\ merged = "no" /\ ~IsMerged
    BY <1>1, <1>4 DEF Turns, RasterTurn, Leased, Alone, Raster
  <2>2. Raster' = Idle /\ Platform' \in {Platform, Idle}
    BY <1>2, <1>4, <2>1, ReleaseRaster
  <2>3. RasterTurn' /\ ~AfterMerge'
    BY <2>2, IdleAt DEF RasterTurn, AfterMerge, Alone
  <2> QED
    BY <1>1, <2>2, <2>3, IdleAt, RasterSteps
<1> QED
  BY <1>3, <1>4 DEF Threads

\* A Teardown forgets the lease of its rasterizer, and no other.
LEMMA LeaseErased ==
  ASSUME TypeOK, NEW r \in Rasterizers
  PROVE  /\ \A q \in Rasterizers : q # r => Erased(r)[q] = lease[q]
         /\ Erased(r)[r] = NoRecord
BY DEF Erased, TypeOK

LEMMA PlatformErases ==
  ASSUME TypeOK, Turns, NEW t \in Threads, UnMergeNowIfLastOne(t)
  PROVE  /\ t = "platform" /\ Platform.at = "unmerge" /\ IsMerged /\ merged = "yes"
         /\ Raster.at # "record" /\ Raster' = Raster /\ Platform' = Idle
         /\ ~(Raster.at = "lease" /\ Raster.r = Platform.r)
         /\ failed' = "no"
         /\ \/ UNCHANGED <<merged, lease>>
            \/ /\ lease' = Erased(Platform.r)
               /\ merged' = (IF IsMerged' THEN "yes" ELSE "no")
<1>1. t = "platform" /\ Platform.at = "unmerge" /\ failed = "no"
  BY DEF UnMergeNowIfLastOne, At, Turns, RasterTurn, Alone, Threads, Platform,
         Raster
<1>2. /\ Raster.at # "record" /\ ~(Raster.at = "lease" /\ Raster.r = Platform.r)
      /\ Release("platform")
  BY <1>1 DEF UnMergeNowIfLastOne, SharedMutexFree, OwnMutexFree, Threads,
     Platform, Raster
<1>3. IsMerged /\ merged = "yes"
  BY <1>1 DEF Turns, PlatformLeased, Leased
<1>4. Raster' = Raster /\ Platform' = Idle
  BY <1>2, ReleasePlatform
<1> DEFINE l == Erased(Platform.r)
<1>5. CASE enabled # "yes"
  <2>1. UNCHANGED <<merged, lease, failed>>
    BY <1>5 DEF UnMergeNowIfLastOne
  <2> QED
    BY <1>1, <1>2, <1>3, <1>4, <2>1
<1>6. CASE enabled = "yes" /\ ~LastOne(l)
  <2>1. lease' = l /\ UNCHANGED <<merged, failed>>
    BY <1>1, <1>6 DEF UnMergeNowIfLastOne, Platform
  <2>2. IsMerged'
    BY <1>6, <2>1, LeaseLeft DEF LastOne
  <2> QED
    BY <1>1, <1>2, <1>3, <1>4, <2>1, <2>2
<1>7. CASE enabled = "yes" /\ LastOne(l)
  <2>1. lease' = l /\ Unmerge
    BY <1>1, <1>7 DEF UnMergeNowIfLastOne, Platform
  <2> HIDE DEF l
  <2>2. AllLeaseTermsZero(l)
    BY <1>7 DEF LastOne, AllLeaseTermsZero, NoRecord
  <2>3. ~IsMerged'
    BY <2>1, <2>2 DEF AllLeaseTermsZero, IsMerged
  <2>4. merged' = "no" /\ failed' = "no"
    BY <1>1, <1>3, <2>1 DEF Unmerge
  <2> QED
    BY <1>1, <1>2, <1>3, <1>4, <2>1, <2>3, <2>4 DEF l
<1> QED
  BY <1>5, <1>6, <1>7

LEMMA UnMergeNowTurns ==
  ASSUME TypeOK, Turns, NEW t \in Threads, UnMergeNowIfLastOne(t)
  PROVE  Turns'
<1>1. UNCHANGED <<overlapped, surface>>
  BY DEF UnMergeNowIfLastOne
<1>2. /\ Platform.at = "unmerge" /\ merged = "yes" /\ Platform' = Idle
      /\ Raster.at # "record" /\ Raster' = Raster
  BY PlatformErases
<1>3. PlatformTurn' /\ PlatformLeased' /\ Owed = 0 /\ Owed' = 0
  BY <1>2, IdleAt DEF PlatformTurn, PlatformLeased, Owed, Quiet
<1>4. RasterTurn'
  BY <1>2 DEF Turns, RasterTurn, Alone
<1>5. Leased'
  BY PlatformErases, MergerKept DEF Turns, Leased
<1>6. AfterMerge' => AfterMerge
  BY <1>2 DEF AfterMerge
<1>7. lease'[Raster.r] \in {lease[Raster.r], NoRecord}
  BY PlatformErases, LeaseErased, Types
<1>8. LeaseLasts'
  BY <1>1, <1>2, <1>3, <1>6, <1>7, Types DEF Turns, LeaseLasts
<1> QED
  BY <1>3, <1>4, <1>5, <1>8 DEF Turns

\* The Shell's handlers begin and post while the platform thread has no raster
\* task; one that it may run itself begins like any other.
LEMMA PlatformStepTurns ==
  ASSUME TypeOK, Turns, PlatformStep
  PROVE  Turns' /\ Aside
<1>1. UNCHANGED <<merged, lease, surface>>
  BY DEF PlatformStep, RunOrPost, PostSetup, PostTeardown, mergerVars
<1>2. CASE RunOrPost
  <2>1. Platform.at \in {"created", "destroyed"}
    BY <1>2 DEF RunOrPost, Platform
  <2>2. PICK at \in {"setup", "teardown", "postSetup", "postTeardown"} :
          /\ Do("platform", Start(at, Platform.r))
          /\ (merged = "yes") <=> (at \in {"setup", "teardown"})
    BY <1>2 DEF RunOrPost, Platform
  <2>3. Start(at, Platform.r) \in Works /\ Start(at, Platform.r).at = at
    BY StartIsWork, Types DEF Places
  <2>4. Platform'.at = at /\ Raster' = Raster
    BY <2>2, <2>3, DoPlatform
  <2>5. Owed = 0
    BY <2>1 DEF Owed
  <2>6. CASE merged = "yes"
    <3>1. BesideDraw
      BY <1>2, <2>6 DEF RunOrPost
    <3> QED
      BY <1>1, <2>2, <2>4, <2>5, <2>6, <3>1, BesideTurns
         DEF PlatformBegins, Aside
  <2>7. CASE merged # "yes"
    <3>1. overlapped' = overlapped
      BY <1>2, <2>7 DEF RunOrPost
    <3>2. PlatformTurn' /\ PlatformLeased' /\ Onward
      BY <2>2, <2>4, <2>7 DEF PlatformTurn, PlatformLeased, Onward, Owed, Quiet, Tearing
    <3> QED
      BY <1>1, <2>4, <3>1, <3>2, Types, PlatformSteps
  <2> QED
    BY <2>6, <2>7
<1>3. CASE PostSetup \/ PostTeardown
  <2>1. Platform.at \in {"postSetup", "postTeardown"} /\ overlapped' = overlapped
        /\ (Do("platform", Idle) \/ Goto("platform", "waits"))
    BY <1>3 DEF PostSetup, PostTeardown, At, Platform
  <2>2. Platform'.at \in {"idle", "waits"} /\ Raster' = Raster
    BY <2>1, IdleAt, DoPlatform, GotoPlatform DEF Places
  <2>3. PlatformTurn' /\ PlatformLeased' /\ Onward
    BY <2>2 DEF PlatformTurn, PlatformLeased, Onward, Owed, Quiet, Tearing
  <2> QED
    BY <1>1, <2>1, <2>2, <2>3, Types, PlatformSteps
<1> QED
  BY <1>2, <1>3 DEF PlatformStep

\* What the handlers and the engines do is none of the merger's business.
LEMMA EngineTurns ==
  ASSUME TypeOK, Turns, NEW r \in Rasterizers, NEW kind \in FrameKinds,
         \/ OnPlatformViewCreated(r) \/ OnPlatformViewDestroyed(r)
         \/ Spawn(r) \/ BuildFrame(r, kind)
  PROVE  Turns' /\ Aside
<1>1. UNCHANGED <<merged, lease, surface, overlapped>>
  BY DEF OnPlatformViewCreated, OnPlatformViewDestroyed, Begin, Spawn,
         BuildFrame, mergerVars
<1>2. CASE OnPlatformViewCreated(r) \/ OnPlatformViewDestroyed(r)
  <2>1. PICK at \in {"created", "destroyed"} : Begin(r, at)
    BY <1>2 DEF OnPlatformViewCreated, OnPlatformViewDestroyed
  <2>2. Start(at, r) \in Works /\ Start(at, r).at = at
    BY StartIsWork DEF Places
  <2>3. Platform'.at = at /\ Raster' = Raster
    BY <2>1, <2>2, DoPlatform DEF Begin
  <2>4. PlatformTurn' /\ PlatformLeased' /\ Onward
    BY <2>3 DEF PlatformTurn, PlatformLeased, Onward, Owed, Quiet, Tearing
  <2> QED
    BY <1>1, <2>3, <2>4, Types, PlatformSteps
<1>3. CASE Spawn(r) \/ BuildFrame(r, kind)
  <2>1. Raster' = Raster /\ Platform' = Platform
    BY <1>3 DEF Spawn, BuildFrame, Raster, Platform
  <2>2. Onward /\ PlatformTurn' /\ PlatformLeased'
    BY <1>1, <2>1, MergerKept, Types DEF Turns, PlatformTurn, PlatformLeased, Onward, Owed
  <2> QED
    BY <1>1, <2>1, <2>2, Types, PlatformSteps
<1> QED
  BY <1>2, <1>3

LEMMA InitTurns == Init => Turns
<1> SUFFICES ASSUME Init PROVE Turns
  OBVIOUS
<1>1. Platform = Idle /\ Raster = Idle /\ merged = "no" /\ overlapped = 0
  BY DEF Init, Threads, Platform, Raster
<1>2. ~IsMerged
  BY DEF Init, IsMerged, AllLeaseTermsZero, NoRecord
<1>3. MaxOverlap \in Nat
  BY MergerAssumption
<1> QED
  BY <1>1, <1>2, <1>3, IdleAt DEF Turns, Leased, PlatformTurn, RasterTurn,
     PlatformLeased, LeaseLasts, AfterMerge, Quiet

\* What a step of the program is to the merger.
MergerStep ==
  \/ Aside
  \/ MergeQueues("raster") \/ RecordLease("raster") \/ DecrementShared("raster")
  \/ ExtendLeaseTo("platform") \/ DecrementShared("platform")
  \/ UnMergeNowIfLastOne("platform")

\* What only one of the threads does.
LEMMA InTurn ==
  ASSUME Turns, NEW t \in Threads
  PROVE  /\ MergeQueues(t) \/ RecordLease(t) => t = "raster"
         /\ ExtendLeaseTo(t) \/ UnMergeNowIfLastOne(t) => t = "platform"
BY DEF MergeQueues, RecordLease, ExtendLeaseTo, UnMergeNowIfLastOne, At, Turns,
   PlatformLeased, RasterTurn, Alone, Threads, Platform, Raster

LEMMA StepTurns ==
  ASSUME IInv, Turns, [Next]_vars
  PROVE  Turns' /\ MergerStep
<1>1. TypeOK /\ MergedHasLease
  BY DEF IInv
<1>2. CASE \E t \in Threads : ThreadStep(t)
  <2>1. PICK t \in Threads : ThreadStep(t)
    BY <1>2
  <2> QED
    BY <1>1, <2>1, TakeTaskTurns, DrawTurns, ConsumeTurns, PrerollTurns,
       MergeWithLeaseTurns, MergeQueuesTurns, RecordLeaseTurns,
       ExtendLeaseTurns, DecrementLeaseTurns, DecrementSharedTurns,
       FinishTurns, SetupTurns, TornDownTurns, UnMergeNowTurns, InTurn
       DEF ThreadStep, MergerStep, Threads
<1>3. CASE PlatformStep
  BY <1>1, <1>3, PlatformStepTurns DEF MergerStep
<1>4. CASE \E r \in Rasterizers :
             \/ OnPlatformViewCreated(r) \/ OnPlatformViewDestroyed(r) \/ Spawn(r)
             \/ \E kind \in FrameKinds : BuildFrame(r, kind)
  BY <1>1, <1>4, EngineTurns DEF FrameKinds, MergerStep
<1>5. CASE UNCHANGED vars
  <2>1. Platform' = Platform /\ Raster' = Raster
        /\ UNCHANGED <<merged, lease, surface, overlapped>>
    BY <1>5 DEF vars, mergerVars, Platform, Raster
  <2>2. Onward /\ PlatformTurn' /\ PlatformLeased'
    BY <1>1, <2>1, MergerKept, Types DEF Turns, PlatformTurn, PlatformLeased, Onward, Owed
  <2> QED
    BY <1>1, <2>1, <2>2, Types, PlatformSteps DEF MergerStep
<1> QED
  BY <1>2, <1>3, <1>4, <1>5 DEF Next

LEMMA TurnInvariance == Spec => [](IInv /\ Turns)
<1>1. Init => IInv /\ Turns
  BY InitInv, InitTurns
<1>2. IInv /\ Turns /\ [Next]_vars => (IInv /\ Turns)'
  BY StepInv, StepTurns
<1> QED
  BY <1>1, <1>2, PTL DEF Spec

-----------------------------------------------------------------------------
(* The turns that the threads take.                                        *)

ChangeInTurn ==
  /\ merged = "no" /\ merged' = "yes" => running["raster"].at = "queues"
  /\ merged = "yes" /\ merged' = "no" =>
       running["platform"].at \in {"lease", "unmerge"}

LEMMA AsideKeepsMerger ==
  ASSUME Aside
  PROVE  UNCHANGED <<merged, lease>>
BY DEF Aside, PlatformAside, RasterAside, PlatformBegins, RasterBegins

LEMMA StepChangesInTurn ==
  ASSUME IInv, Turns, [Next]_vars
  PROVE  ChangeInTurn
<1>1. TypeOK /\ MergedHasLease /\ MergerStep
  BY StepTurns DEF IInv
<1>2. CASE Aside \/ RecordLease("raster") \/ ExtendLeaseTo("platform")
  BY <1>2, AsideKeepsMerger DEF RecordLease, ExtendLeaseTo, ChangeInTurn
<1>3. CASE MergeQueues("raster")
  BY <1>3 DEF MergeQueues, At, ChangeInTurn, Turns, RasterTurn, Alone, Raster
<1>4. CASE DecrementShared("raster")
  BY <1>1, <1>4, RasterDecrements DEF ChangeInTurn
<1>5. CASE DecrementShared("platform")
  BY <1>1, <1>5, PlatformDecrements DEF ChangeInTurn, Platform
<1>6. CASE UnMergeNowIfLastOne("platform")
  BY <1>1, <1>6, PlatformErases DEF ChangeInTurn, Platform, Threads
<1> QED
  BY <1>1, <1>2, <1>3, <1>4, <1>5, <1>6 DEF MergerStep

\* Only a task of the raster thread merges the queues, in MergeWithLease, and
\* only the platform thread separates them, with the last lease or in
\* Teardown: what TaskQueues assumes of its callers.
THEOREM ChangesInTurn == Spec => ThreadsChangeInTurn
<1>1. IInv /\ Turns /\ [Next]_vars => [ChangeInTurn]_vars
  BY StepChangesInTurn
<1>2. Spec => [][ChangeInTurn]_vars
  BY <1>1, TurnInvariance, PTL DEF Spec
<1> QED
  BY <1>2 DEF ThreadsChangeInTurn, ChangeInTurn

\* A thread that draws is left alone by the others.
LEMMA OthersStay ==
  ASSUME TypeOK, NEW t \in Threads, NEW u \in Threads, t # u, ThreadStep(u),
         running[t].at # "waits"
  PROVE  running'[t] = running[t]
<1>1. running \in [Threads -> Works]
  BY DEF TypeOK
<1>2. (\E w : running' = [running EXCEPT ![u] = w]) \/ Release(u) \/ UNCHANGED running
  <2>1. CASE TakeTask(u) \/ Draw(u) \/ Consume(u) \/ PrerollSeparate(u)
             \/ PrerollMerged(u) \/ MergeWithLease(u)
    BY <2>1 DEF TakeTask, Draw, Consume, PrerollSeparate, PrerollMerged,
       MergeWithLease, Goto, Do
  <2>2. CASE MergeQueues(u) \/ RecordLease(u) \/ ExtendLeaseTo(u)
             \/ DecrementLease(u) \/ DecrementShared(u)
    BY <2>2 DEF MergeQueues, RecordLease, ExtendLeaseTo, DecrementLease,
       DecrementShared, Goto, Do
  <2>3. CASE Finish(u) \/ Setup(u) \/ Teardown(u) \/ TornDown(u)
             \/ UnMergeNowIfLastOne(u)
    BY <2>3 DEF Finish, Setup, Teardown, TornDown, UnMergeNowIfLastOne, Goto, Do
  <2> QED
    BY <2>1, <2>2, <2>3 DEF ThreadStep
<1> QED
  BY <1>1, <1>2 DEF Release

LEMMA OnlyDrawYields ==
  ASSUME TypeOK, [Next]_vars, NEW t \in Threads,
         running[t].at = "draw", running'[t] = Idle
  PROVE  Draw(t)
<1>1. running[t] # Idle /\ running'[t] # running[t]
  BY IdleAt
<1>2. CASE \E u \in Threads : ThreadStep(u)
  <2>1. PICK u \in Threads : ThreadStep(u)
    BY <1>2
  <2>2. u = t
    BY <1>1, <2>1, OthersStay
  <2>3. ~(Consume(t) \/ PrerollSeparate(t) \/ PrerollMerged(t)
          \/ MergeWithLease(t) \/ MergeQueues(t) \/ RecordLease(t)
          \/ ExtendLeaseTo(t) \/ DecrementLease(t) \/ DecrementShared(t)
          \/ Finish(t) \/ Setup(t) \/ Teardown(t) \/ TornDown(t)
          \/ UnMergeNowIfLastOne(t))
    BY DEF Consume, PrerollSeparate, PrerollMerged, MergeWithLease, MergeQueues,
           RecordLease, ExtendLeaseTo, DecrementLease, DecrementShared, Finish,
           Setup, Teardown, TornDown, UnMergeNowIfLastOne, At
  <2>4. ~TakeTask(t)
    BY <1>1 DEF TakeTask
  <2> QED
    BY <2>1, <2>2, <2>3, <2>4 DEF ThreadStep
<1>3. ASSUME PlatformStep PROVE FALSE
  <2>1. Platform.at # "draw"
    BY <1>3 DEF PlatformStep, RunOrPost, PostSetup, PostTeardown, At, Platform
  <2>2. \E w : running' = [running EXCEPT !["platform"] = w]
    BY <1>3 DEF PlatformStep, RunOrPost, PostSetup, PostTeardown, Goto, Do
  <2>3. Raster' = Raster
    BY <2>2 DEF TypeOK, Threads, Raster
  <2> QED
    BY <1>1, <2>1, <2>3 DEF Threads, Platform, Raster
<1>4. ASSUME \E r \in Rasterizers :
               \/ OnPlatformViewCreated(r) \/ OnPlatformViewDestroyed(r) \/ Spawn(r)
               \/ \E kind \in FrameKinds : BuildFrame(r, kind)
      PROVE  FALSE
  <2>1. PICK r \in Rasterizers :
               \/ OnPlatformViewCreated(r) \/ OnPlatformViewDestroyed(r) \/ Spawn(r)
               \/ \E kind \in FrameKinds : BuildFrame(r, kind)
    BY <1>4
  <2>2. CASE OnPlatformViewCreated(r) \/ OnPlatformViewDestroyed(r)
    <3>1. /\ running["platform"] = Idle
          /\ \E w : running' = [running EXCEPT !["platform"] = w]
      BY <2>2 DEF OnPlatformViewCreated, OnPlatformViewDestroyed, Begin, Do
    <3> QED
      BY <1>1, <3>1 DEF TypeOK
  <2>3. CASE Spawn(r) \/ \E kind \in FrameKinds : BuildFrame(r, kind)
    BY <1>1, <2>3 DEF Spawn, BuildFrame
  <2> QED
    BY <2>1, <2>2, <2>3
<1>5. ~UNCHANGED vars
  BY <1>1 DEF vars
<1> QED
  BY <1>2, <1>3, <1>4, <1>5 DEF Next

YieldUnrecorded ==
  \A t \in Threads :
    running[t].at = "draw" /\ running'[t] = Idle =>
      \E u \in Threads \ {t} :
        running[u].at = "record" /\ running[u].r # running[t].r

LEMMA StepYieldsUnrecorded ==
  ASSUME IInv, Turns, [Next]_vars
  PROVE  YieldUnrecorded
<1> SUFFICES ASSUME NEW t \in Threads, running[t].at = "draw", running'[t] = Idle
             PROVE  \E u \in Threads \ {t} :
                      running[u].at = "record" /\ running[u].r # running[t].r
  BY DEF YieldUnrecorded
<1>1. TypeOK /\ MergedHasLease /\ Draw(t)
  BY OnlyDrawYields DEF IInv
<1>2. ~(IsMerged <=> (t = "platform")) /\ OwnMutexFree(t, running[t].r)
  <2>1. ~Goto(t, "consume")
    BY <1>1, GotoKeeps, IdleAt DEF Places
  <2> QED
    BY <1>1, <2>1 DEF Draw, IsOnRasterizingThread
<1>3. t # "raster"
  BY <1>2 DEF Turns, RasterTurn, Leased, Alone, Raster
<1>4. t = "platform" /\ ~IsMerged /\ merged = "yes"
  BY <1>1, <1>2, <1>3 DEF Turns, PlatformTurn, Quiet, Threads, Platform, TypeOK
<1>5. Raster.at = "record"
  BY <1>1, <1>4 DEF MergedHasLease, Threads, Raster
<1>6. Raster.r # running[t].r
  BY <1>2, <1>4, <1>5 DEF OwnMutexFree, Threads, Raster
<1> QED
  BY <1>4, <1>5, <1>6 DEF Threads, Raster

\* A Draw finds itself on the wrong thread, and leaves its frame in the
\* pipeline, only in the moment in which the lease of another engine is not
\* recorded yet (Rasterizer::Draw, IsOnRasterizingThread).
THEOREM YieldsUnrecorded == Spec => YieldsOnlyUnrecorded
<1>1. IInv /\ Turns /\ [Next]_vars => [YieldUnrecorded]_vars
  BY StepYieldsUnrecorded
<1>2. Spec => [][YieldUnrecorded]_vars
  BY <1>1, TurnInvariance, PTL DEF Spec
<1> QED
  BY <1>2 DEF YieldsOnlyUnrecorded, YieldUnrecorded

-----------------------------------------------------------------------------
(* The checks of the merger.                                               *)

OthersLease == \E q \in Rasterizers \ {Raster.r} : lease[q] > 0

\* Another engine has a lease beside the Draw that merged the queues only if the
\* platform thread has drawn for it since; and a Teardown comes after that.
OthersBeside ==
  /\ Raster.at = "record" => ~IsMerged
  /\ AfterMerge /\ OthersLease =>
       /\ overlapped >= 1
       /\ Platform.at \in Tearing => overlapped >= 2

\* So a Teardown that erases the lease of this Draw, and does not separate the
\* queues, was the last task beside it.
LastBeside ==
  /\ Raster.at = "lease" => merged = "yes"
  /\ AfterMerge /\ lease[Raster.r] = NoRecord =>
       overlapped >= 2 /\ Platform.at \in Quiet

LEMMA AsideBeside ==
  ASSUME TypeOK, Turns, OthersBeside, Aside
  PROVE  OthersBeside'
<1>1. UNCHANGED <<merged, lease>> /\ (IsMerged' <=> IsMerged)
  BY AsideKeepsMerger, MergerKept
<1>2. CASE PlatformAside
  <2>1. (AfterMerge' <=> AfterMerge) /\ (OthersLease' <=> OthersLease)
    BY <1>1, <1>2 DEF PlatformAside, AfterMerge, OthersLease
  <2> QED
    BY <1>1, <1>2, <2>1 DEF PlatformAside, Onward, OthersBeside
<1>3. CASE RasterAside
  <2>1. Platform'.at \in Tearing => Platform.at \in Tearing
    BY <1>3, IdleAt DEF RasterAside, Tearing
  <2>2. AfterMerge' => AfterMerge /\ (OthersLease' <=> OthersLease)
    BY <1>1, <1>3 DEF RasterAside, OthersLease
  <2> QED
    BY <1>1, <1>3, <2>1, <2>2 DEF RasterAside, OthersBeside
<1>4. CASE PlatformBegins
  <2>1. (AfterMerge' <=> AfterMerge) /\ (OthersLease' <=> OthersLease)
    BY <1>1, <1>4 DEF PlatformBegins, AfterMerge, OthersLease
  <2>2. AfterMerge => overlapped' = overlapped + 1
    BY <1>4, IdleAt DEF PlatformBegins, BesideDraw, AfterMerge, Raster
  <2> QED
    BY <1>1, <1>4, <2>1, <2>2, Types DEF PlatformBegins, OthersBeside
<1>5. CASE RasterBegins
  BY <1>5 DEF RasterBegins, OthersBeside, AfterMerge
<1> QED
  BY <1>2, <1>3, <1>4, <1>5 DEF Aside

LEMMA StepBeside ==
  ASSUME IInv, Turns, OthersBeside, [Next]_vars
  PROVE  OthersBeside'
<1>1. TypeOK /\ MergedHasLease /\ MergerStep /\ Turns'
  BY StepTurns DEF IInv
<1>2. CASE Aside
  BY <1>1, <1>2, AsideBeside
<1>3. CASE MergeQueues("raster")
  <2>1. Raster.at = "queues" /\ merged = "no" /\ ~IsMerged
    BY <1>3 DEF MergeQueues, At, Turns, RasterTurn, Leased, Alone, Raster
  <2>2. Goto("raster", "record") /\ UNCHANGED lease
    BY <1>3, <2>1 DEF MergeQueues
  <2>3. Raster'.at = "record"
    BY <1>1, <2>2, GotoRaster DEF Places
  <2> QED
    BY <2>1, <2>2, <2>3, MergerKept DEF OthersBeside, AfterMerge
<1>4. CASE RecordLease("raster")
  <2>1. /\ Raster.at = "record" /\ Goto("raster", "decrement")
        /\ lease' = [lease EXCEPT ![Raster.r] = LeaseTerm]
    BY <1>4 DEF RecordLease, RecordedTerm, At, Raster
  <2>2. Raster'.at = "decrement" /\ Raster'.r = Raster.r
    BY <1>1, <2>1, GotoRaster DEF Places
  <2>3. \A q \in Rasterizers : lease[q] <= 0
    BY <2>1 DEF OthersBeside, IsMerged, AllLeaseTermsZero
  <2>4. \A q \in Rasterizers \ {Raster.r} : lease'[q] = lease[q] /\ ~(lease[q] > 0)
    BY <1>1, <2>1, <2>3, Types DEF TypeOK
  <2>5. ~OthersLease'
    BY <2>2, <2>4 DEF OthersLease
  <2> QED
    BY <2>2, <2>5 DEF OthersBeside
<1>5. CASE DecrementShared("raster")
  <2>1. /\ Raster.at = "lease" /\ Platform' = Platform /\ overlapped' = overlapped
        /\ merged' = merged
        /\ \/ Raster' = Raster /\ lease' = lease
           \/ Raster'.at = "finish" /\ Raster'.r = Raster.r
    BY <1>1, <1>5, RasterDecrements DEF DecrementShared
  <2> QED
    BY <2>1 DEF OthersBeside, AfterMerge, OthersLease
<1>6. CASE ExtendLeaseTo("platform")
  <2>1. Platform.at = "extend" /\ Raster.at # "record" /\ UNCHANGED <<merged, overlapped>>
    BY <1>6 DEF ExtendLeaseTo, At, SharedMutexFree, Threads, Platform, Raster
  <2>2. /\ Raster' = Raster /\ Platform'.at = "decrement"
    <3> DEFINE w == [Platform EXCEPT !.at = "decrement",
                       !.again = IF shown[Platform.r] = "no" THEN "yes" ELSE "no"]
    <3>1. w \in Works /\ w.at = "decrement"
      BY <1>1, Types DEF Works, Places
    <3>2. Do("platform", w)
      BY <1>6 DEF ExtendLeaseTo, Platform
    <3> HIDE DEF w
    <3> QED
      BY <1>1, <3>1, <3>2, DoPlatform
  <2>3. AfterMerge' => overlapped' >= 1
    <3>1. AfterMerge' => AfterMerge
      BY <2>1, <2>2 DEF AfterMerge
    <3>2. Owed = 1
      BY <2>1 DEF Owed
    <3> QED
      BY <1>1, <2>1, <3>1, <3>2, Types DEF Turns, LeaseLasts
  <2> QED
    BY <2>1, <2>2, <2>3 DEF OthersBeside, Tearing
<1>7. CASE DecrementShared("platform")
  <2>1. /\ Platform.at = "lease" /\ merged = "yes" /\ Raster.at # "record"
        /\ Raster' = Raster /\ Platform'.at \in {"lease", "finish"}
        /\ lease' \in {lease, Decremented(Platform.r)} /\ overlapped' = overlapped
    BY <1>1, <1>7, PlatformDecrements DEF DecrementShared
  <2>2. AfterMerge' => AfterMerge
    BY <2>1 DEF AfterMerge
  <2>3. \A q \in Rasterizers : lease'[q] > 0 => lease[q] > 0
    BY <1>1, <2>1, Types, LeaseLowered
  <2>4. OthersLease' => OthersLease
    BY <2>1, <2>3 DEF OthersLease
  <2> QED
    BY <2>1, <2>2, <2>4 DEF OthersBeside, Tearing
<1>8. CASE UnMergeNowIfLastOne("platform")
  <2>1. /\ merged = "yes" /\ Raster.at # "record" /\ Raster' = Raster /\ Platform' = Idle
        /\ lease' \in {lease, Erased(Platform.r)} /\ overlapped' = overlapped
    BY <1>1, <1>8, PlatformErases DEF UnMergeNowIfLastOne, Threads
  <2>2. AfterMerge' => AfterMerge
    BY <2>1 DEF AfterMerge
  <2>3. \A q \in Rasterizers : lease'[q] > 0 => lease[q] > 0
    BY <1>1, <2>1, Types, LeaseErased
  <2>4. OthersLease' => OthersLease
    BY <2>1, <2>3 DEF OthersLease
  <2> QED
    BY <2>1, <2>2, <2>4, IdleAt DEF OthersBeside, Tearing
<1> QED
  BY <1>1, <1>2, <1>3, <1>4, <1>5, <1>6, <1>7, <1>8 DEF MergerStep

LEMMA AsideLast ==
  ASSUME MaxOverlap <= 2, TypeOK, LastBeside, Aside
  PROVE  LastBeside'
<1>1. UNCHANGED <<merged, lease>>
  BY AsideKeepsMerger
<1>2. CASE PlatformAside
  BY <1>1, <1>2 DEF PlatformAside, Onward, LastBeside, AfterMerge
<1>3. CASE RasterAside
  <2>1. Platform.at \in Quiet => Platform'.at \in Quiet
    BY <1>3, IdleAt DEF RasterAside, Quiet
  <2>2. AfterMerge' => AfterMerge /\ lease'[Raster'.r] = lease[Raster.r]
    BY <1>1, <1>3 DEF RasterAside
  <2>3. Raster'.at = "lease" => merged' = "yes"
    BY <1>1, <1>3 DEF RasterAside, LastBeside, AfterMerge
  <2> QED
    BY <1>1, <1>3, <2>1, <2>2, <2>3 DEF RasterAside, LastBeside
<1>4. CASE PlatformBegins
  <2>1. AfterMerge' <=> AfterMerge
    BY <1>1, <1>4 DEF PlatformBegins, AfterMerge
  <2>2. AfterMerge => overlapped + 1 <= MaxOverlap
    BY <1>4, IdleAt DEF PlatformBegins, BesideDraw, AfterMerge, Raster
  <2> QED
    BY <1>1, <1>4, <2>1, <2>2, Types DEF PlatformBegins, LastBeside
<1>5. CASE RasterBegins
  BY <1>5 DEF RasterBegins, LastBeside, AfterMerge
<1> QED
  BY <1>2, <1>3, <1>4, <1>5 DEF Aside

\* A lease that is left keeps the queues merged.
LEMMA LeaseKeeps ==
  ASSUME NEW r \in Rasterizers, ~(lease'[r] <= 0)
  PROVE  IsMerged'
BY DEF IsMerged, AllLeaseTermsZero

LEMMA StepLast ==
  ASSUME MaxOverlap <= 2, IInv, Turns, OthersBeside, LastBeside, [Next]_vars
  PROVE  LastBeside'
<1>1. TypeOK /\ MergedHasLease /\ MergerStep /\ IInv'
  BY StepTurns, StepInv DEF IInv
<1>2. CASE Aside
  BY <1>1, <1>2, AsideLast
<1>3. CASE MergeQueues("raster")
  <2>1. Raster.at = "queues" /\ merged = "no" /\ ~IsMerged
    BY <1>3 DEF MergeQueues, At, Turns, RasterTurn, Leased, Alone, Raster
  <2>2. Goto("raster", "record")
    BY <1>3, <2>1 DEF MergeQueues
  <2>3. Raster'.at = "record"
    BY <1>1, <2>2, GotoRaster DEF Places
  <2> QED
    BY <2>3 DEF LastBeside, AfterMerge
<1>4. CASE RecordLease("raster")
  <2>1. /\ Goto("raster", "decrement")
        /\ lease' = [lease EXCEPT ![Raster.r] = LeaseTerm]
    BY <1>4 DEF RecordLease, RecordedTerm, Raster
  <2>2. Raster'.at = "decrement" /\ Raster'.r = Raster.r
    BY <1>1, <2>1, GotoRaster DEF Places
  <2>3. lease'[Raster.r] = LeaseTerm
    BY <1>1, <2>1, Types DEF TypeOK
  <2> QED
    BY <1>1, <2>2, <2>3, Types DEF LastBeside
<1>5. CASE DecrementShared("raster")
  <2>1. /\ Raster.at = "lease" /\ Platform' = Platform /\ overlapped' = overlapped
        /\ merged' = merged
        /\ \/ Raster' = Raster /\ lease' = lease
           \/ Raster'.at = "finish" /\ Raster'.r = Raster.r
    BY <1>1, <1>5, RasterDecrements DEF DecrementShared
  <2> QED
    BY <2>1 DEF LastBeside, AfterMerge
<1>6. ASSUME AfterMerge, Platform.at \notin Quiet
      PROVE  lease[Raster.r] >= LeaseTerm - overlapped + Owed /\ lease[Raster.r] > 1
  <2>1. lease[Raster.r] >= LeaseTerm - overlapped + Owed /\ overlapped <= MaxOverlap
    BY <1>6 DEF LastBeside, Turns, LeaseLasts
  <2> QED
    BY <1>1, <2>1, Types
<1>7. CASE ExtendLeaseTo("platform")
  <2>1. /\ Platform.at = "extend" /\ merged' = merged
        /\ lease' = lease \/ lease' = [lease EXCEPT ![Platform.r] = LeaseTerm]
    BY <1>7 DEF ExtendLeaseTo, At, Platform
  <2>2. Raster' = Raster
    <3>1. \E w : running' = [running EXCEPT !["platform"] = w]
      BY <1>7 DEF ExtendLeaseTo, Do
    <3> QED
      BY <1>1, <3>1 DEF TypeOK, Threads, Raster
  <2>3. Platform.at \notin Quiet /\ (AfterMerge' <=> AfterMerge)
    BY <2>1, <2>2 DEF Quiet, AfterMerge
  <2>4. lease'[Raster.r] \in {lease[Raster.r], LeaseTerm}
    BY <1>1, <2>1, Types DEF TypeOK
  <2>5. AfterMerge => lease'[Raster.r] # NoRecord
    BY <1>1, <1>6, <2>3, <2>4, Types
  <2> QED
    BY <2>1, <2>2, <2>3, <2>5 DEF LastBeside
<1>8. CASE DecrementShared("platform")
  <2>1. /\ Platform.at = "lease" /\ merged = "yes" /\ Raster' = Raster
        /\ \/ UNCHANGED <<merged, lease>>
           \/ /\ lease' = Decremented(Platform.r)
              /\ merged' = (IF IsMerged' THEN "yes" ELSE "no")
    BY <1>1, <1>8, PlatformDecrements
  <2>2. Platform.at \notin Quiet /\ (AfterMerge' => AfterMerge)
    BY <2>1 DEF Quiet, AfterMerge
  <2>3. AfterMerge => lease[Raster.r] > 1
    BY <1>6, <2>2
  <2>4. AfterMerge => lease'[Raster.r] > 0
    BY <1>1, <2>1, <2>3, Types, LeaseLowered
  <2>5. AfterMerge => ~(lease'[Raster.r] <= 0) /\ lease'[Raster.r] # NoRecord
    <3>1. lease'[Raster.r] \in Int
      BY <1>1, Types DEF IInv, TypeOK, NoRecord
    <3> QED
      BY <2>4, <3>1, <1>1, Types
  <2>6. AfterMerge => merged' = "yes"
    BY <1>1, <2>1, <2>5, Types, LeaseKeeps
  <2> QED
    BY <2>1, <2>2, <2>5, <2>6 DEF LastBeside, AfterMerge
<1>9. CASE UnMergeNowIfLastOne("platform")
  <2>1. /\ Platform.at = "unmerge" /\ merged = "yes" /\ Raster' = Raster
        /\ Platform' = Idle /\ overlapped' = overlapped
        /\ ~(Raster.at = "lease" /\ Raster.r = Platform.r)
        /\ \/ UNCHANGED <<merged, lease>>
           \/ /\ lease' = Erased(Platform.r)
              /\ merged' = (IF IsMerged' THEN "yes" ELSE "no")
    BY <1>1, <1>9, PlatformErases DEF UnMergeNowIfLastOne, Threads
  <2>2. Platform.at \notin Quiet /\ (AfterMerge' => AfterMerge)
    BY <2>1 DEF Quiet, AfterMerge
  <2>3. AfterMerge => lease[Raster.r] > 1 /\ lease[Raster.r] # NoRecord
    BY <1>1, <1>6, <2>2, Types
  <2>4. Raster.at = "lease" => merged' = "yes"
    <3> SUFFICES ASSUME Raster.at = "lease", lease' = Erased(Platform.r)
                 PROVE  IsMerged'
      BY <2>1
    <3>1. lease'[Raster.r] = lease[Raster.r]
      BY <1>1, <2>1, Types, LeaseErased
    <3>2. ~(lease'[Raster.r] <= 0)
      BY <1>1, <2>3, <3>1, Types DEF AfterMerge
    <3> QED
      BY <1>1, <3>2, Types, LeaseKeeps
  <2>5. ASSUME AfterMerge', lease'[Raster.r] = NoRecord
        PROVE  overlapped' >= 2
    <3>1. lease' = Erased(Platform.r) /\ merged' = (IF IsMerged' THEN "yes" ELSE "no")
      BY <2>1, <2>2, <2>3, <2>5
    <3>2. Platform.r = Raster.r /\ Raster.at = "decrement"
      BY <1>1, <2>1, <2>2, <2>3, <2>5, <3>1, Types, LeaseErased DEF AfterMerge
    <3>3. IsMerged'
      BY <2>1, <2>5, <3>1, <3>2 DEF AfterMerge
    <3>4. PICK q \in Rasterizers : ~(lease'[q] <= 0)
      BY <3>3 DEF IsMerged, AllLeaseTermsZero
    <3>5. q # Raster.r
      BY <1>1, <2>5, <3>4, Types
    <3>6. lease[q] > 0
      BY <1>1, <3>1, <3>2, <3>4, <3>5, Types, LeaseErased
    <3>7. OthersLease
      BY <3>5, <3>6 DEF OthersLease
    <3> QED
      BY <2>1, <2>2, <2>5, <3>7 DEF OthersBeside, Tearing
  <2>6. Platform'.at \in Quiet
    BY <2>1, IdleAt DEF Quiet
  <2> QED
    BY <2>1, <2>4, <2>5, <2>6 DEF LastBeside
<1> QED
  BY <1>1, <1>2, <1>3, <1>4, <1>5, <1>7, <1>8, <1>9 DEF MergerStep

\* A step with which the process ends.
LEMMA Failing ==
  ASSUME [Next]_vars, failed' # failed
  PROVE  \E t \in Threads :
           MergeQueues(t) \/ DecrementShared(t) \/ UnMergeNowIfLastOne(t)
<1>1. CASE \E t \in Threads : ThreadStep(t)
  <2>1. PICK t \in Threads : ThreadStep(t)
    BY <1>1
  <2>2. ~(TakeTask(t) \/ Draw(t) \/ Consume(t) \/ PrerollSeparate(t)
          \/ PrerollMerged(t) \/ MergeWithLease(t) \/ RecordLease(t)
          \/ ExtendLeaseTo(t) \/ DecrementLease(t) \/ Finish(t) \/ Setup(t)
          \/ Teardown(t) \/ TornDown(t))
    BY DEF TakeTask, Draw, Consume, PrerollSeparate, PrerollMerged,
           MergeWithLease, RecordLease, ExtendLeaseTo, DecrementLease, Finish,
           Setup, Teardown, TornDown
  <2> QED
    BY <2>1, <2>2 DEF ThreadStep
<1>2. ~PlatformStep
  BY DEF PlatformStep, RunOrPost, PostSetup, PostTeardown
<1>3. ~ \E r \in Rasterizers :
          \/ OnPlatformViewCreated(r) \/ OnPlatformViewDestroyed(r) \/ Spawn(r)
          \/ \E kind \in FrameKinds : BuildFrame(r, kind)
  BY DEF OnPlatformViewCreated, OnPlatformViewDestroyed, Begin, Spawn, BuildFrame
<1>4. ~UNCHANGED vars
  BY DEF vars
<1> QED
  BY <1>1, <1>2, <1>3, <1>4 DEF Next

\* Only a decrement fails: of a lease that has run out, or by the raster thread
\* when its own was erased and the queues are separate.
LEMMA WhatFails ==
  ASSUME IInv, Turns, [Next]_vars, failed' # failed
  PROVE  \/ /\ failed' = "lease"
            /\ \E t \in Threads :
                 running[t].at = "lease" /\ lease[running[t].r] = 0
         \/ /\ failed' = "unmerge" /\ Raster.at = "lease"
            /\ lease[Raster.r] = NoRecord /\ merged = "no"
<1>1. TypeOK /\ MergedHasLease /\ NeverMergedTwice'
  BY StepInv DEF IInv
<1>2. PICK t \in Threads :
        MergeQueues(t) \/ DecrementShared(t) \/ UnMergeNowIfLastOne(t)
  BY Failing
<1>3. CASE MergeQueues(t)
  BY <1>1, <1>3 DEF MergeQueues, NeverMergedTwice
<1>4. CASE UnMergeNowIfLastOne(t)
  BY <1>1, <1>4, PlatformErases DEF UnMergeNowIfLastOne, At
<1>5. CASE DecrementShared(t) /\ t = "platform"
  BY <1>1, <1>5, PlatformDecrements DEF DecrementShared, At, Threads, Platform
<1>6. CASE DecrementShared(t) /\ t = "raster"
  <2>1. failed' \in {"unmerge", "lease"}
    BY <1>1, <1>6 DEF DecrementShared, At, Unmerge
  <2> QED
    BY <1>1, <1>6, <2>1, RasterDecrements DEF Threads, Raster
<1> QED
  BY <1>2, <1>3, <1>4, <1>5, <1>6 DEF Threads

QueuesSeparateOnce == failed \in {"no", "lease"}

LEMMA StepSeparates ==
  ASSUME IInv, Turns, LastBeside, QueuesSeparateOnce, [Next]_vars
  PROVE  QueuesSeparateOnce'
<1>1. CASE failed' = failed
  BY <1>1 DEF QueuesSeparateOnce
<1>2. CASE failed' # failed
  BY <1>2, WhatFails DEF LastBeside, QueuesSeparateOnce
<1> QED
  BY <1>1, <1>2

LEMMA InitBeside == Init => OthersBeside /\ LastBeside /\ QueuesSeparateOnce
<1> SUFFICES ASSUME Init PROVE OthersBeside /\ LastBeside /\ QueuesSeparateOnce
  OBVIOUS
<1>1. Raster = Idle /\ failed = "no"
  BY DEF Init, Threads, Raster
<1> QED
  BY <1>1, IdleAt DEF OthersBeside, LastBeside, AfterMerge, QueuesSeparateOnce

\* While the platform thread begins at most two raster tasks beside the end of
\* the Draw that merged the threads, queues are never separated twice: the
\* FML_CHECK of SharedThreadMerger::UnMergeNowUnSafe never fails.
THEOREM SeparationsSucceed ==
  ASSUME MaxOverlap <= 2
  PROVE  Spec => []QueuesSeparateOnce
<1> DEFINE Inv == IInv /\ Turns /\ OthersBeside /\ LastBeside /\ QueuesSeparateOnce
<1>1. Init => Inv
  BY InitInv, InitTurns, InitBeside
<1>2. Inv /\ [Next]_vars => Inv'
  BY StepInv, StepTurns, StepBeside, StepLast, StepSeparates
<1>3. Inv => QueuesSeparateOnce
  OBVIOUS
<1> QED
  BY <1>1, <1>2, <1>3, PTL DEF Spec

=============================================================================
