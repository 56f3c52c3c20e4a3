-------------------------- MODULE MergerLoneProofs ---------------------------
(***************************************************************************)
(* Proofs about ThreadMerger with a lone engine: no check of the merger    *)
(* fails, however many tasks begin beside the Draw that merged, the        *)
(* platform thread never waits for a task of its own, and a frame in the   *)
(* pipeline has its Draw.                                                  *)
(***************************************************************************)
EXTENDS MergerTurnProofs

-----------------------------------------------------------------------------
(* The queue of raster tasks.                                              *)

InQueue(kind) == \E i \in 1..Len(rasterQ) : rasterQ[i].kind = kind
Once(kind) ==
  \A i, j \in 1..Len(rasterQ) :
    rasterQ[i].kind = kind /\ rasterQ[j].kind = kind => i = j

LEMMA Posted ==
  ASSUME TypeOK, NEW task \in Tasks, Post(task)
  PROVE  /\ Len(rasterQ') = Len(rasterQ) + 1 /\ rasterQ'[Len(rasterQ) + 1] = task
         /\ \A i \in 1..Len(rasterQ) : rasterQ'[i] = rasterQ[i]
         /\ Len(rasterQ) \in Nat
BY AppendProperties, LenProperties DEF TypeOK, Post

LEMMA Taken ==
  ASSUME TypeOK, rasterQ # <<>>, rasterQ' = Tail(rasterQ)
  PROVE  /\ Len(rasterQ') = Len(rasterQ) - 1 /\ Len(rasterQ) \in Nat \ {0}
         /\ Head(rasterQ) = rasterQ[1]
         /\ \A i \in 1..Len(rasterQ') : rasterQ'[i] = rasterQ[i + 1]
BY HeadTailProperties, LenProperties, EmptySeq DEF TypeOK

\* A task that is posted is in the queue; it is there once if no other is.
LEMMA PostedIn ==
  ASSUME TypeOK, NEW task \in Tasks, Post(task), NEW kind
  PROVE  /\ InQueue(kind)' <=> InQueue(kind) \/ task.kind = kind
         /\ Once(kind) /\ (task.kind # kind \/ ~InQueue(kind)) => Once(kind)'
<1> DEFINE n == Len(rasterQ)
<1>1. /\ Len(rasterQ') = n + 1 /\ rasterQ'[n + 1] = task /\ n \in Nat
      /\ \A i \in 1..n : rasterQ'[i] = rasterQ[i]
  BY Posted
<1> HIDE DEF n
<1>2. 1..(n + 1) = (1..n) \cup {n + 1} /\ n + 1 \notin 1..n
  BY <1>1
<1>3. InQueue(kind)' <=> InQueue(kind) \/ task.kind = kind
  BY <1>1, <1>2 DEF InQueue, n
<1>4. ASSUME Once(kind), task.kind # kind \/ ~InQueue(kind) PROVE Once(kind)'
  BY <1>1, <1>2, <1>4 DEF InQueue, Once, n
<1> QED
  BY <1>3, <1>4

\* One that is taken was there; if it was there once, it is no longer.
LEMMA TakenIn ==
  ASSUME TypeOK, rasterQ # <<>>, rasterQ' = Tail(rasterQ), NEW kind
  PROVE  /\ InQueue(kind)' => InQueue(kind)
         /\ Head(rasterQ).kind = kind => InQueue(kind)
         /\ Once(kind) => Once(kind)'
         /\ Once(kind) /\ Head(rasterQ).kind = kind => ~InQueue(kind)'
<1> DEFINE n == Len(rasterQ)
<1>1. /\ Len(rasterQ') = n - 1 /\ n \in Nat \ {0} /\ Head(rasterQ) = rasterQ[1]
      /\ \A i \in 1..(n - 1) : rasterQ'[i] = rasterQ[i + 1]
  BY Taken
<1> HIDE DEF n
<1>2. 1 \in 1..n /\ \A i \in 1..(n - 1) : i + 1 \in 1..n /\ i + 1 # 1
  BY <1>1
<1>3. InQueue(kind)' => InQueue(kind)
  BY <1>1, <1>2 DEF InQueue, n
<1>4. Head(rasterQ).kind = kind => InQueue(kind)
  BY <1>1, <1>2 DEF InQueue, n
<1>5. ASSUME Once(kind) PROVE Once(kind)'
  <2> SUFFICES ASSUME NEW i \in 1..(n - 1), NEW j \in 1..(n - 1),
                      rasterQ'[i].kind = kind, rasterQ'[j].kind = kind
               PROVE  i = j
    BY <1>1 DEF Once
  <2>1. i + 1 = j + 1
    BY <1>1, <1>2, <1>5 DEF Once, n
  <2> QED
    BY <2>1, <1>1
<1>6. ASSUME Once(kind), Head(rasterQ).kind = kind PROVE ~InQueue(kind)'
  BY <1>1, <1>2, <1>6 DEF InQueue, Once, n
<1> QED
  BY <1>3, <1>4, <1>5, <1>6

-----------------------------------------------------------------------------
(* The steps of a Draw.                                                    *)

DrawStep(t) ==
  \/ Draw(t) \/ Consume(t) \/ PrerollSeparate(t) \/ PrerollMerged(t)
  \/ MergeWithLease(t) \/ MergeQueues(t) \/ RecordLease(t) \/ ExtendLeaseTo(t)
  \/ DecrementLease(t) \/ DecrementShared(t) \/ Finish(t)

DrawPlaces == {"draw", "consume", "preroll", "merge", "queues", "record",
               "extend", "decrement", "lease", "finish"}

\* Its thread stays in the Draw or ends it; another Draw may be posted.
LEMMA DrawStays ==
  ASSUME TypeOK, NEW t \in Threads, DrawStep(t)
  PROVE  /\ \A u \in Threads \ {t} : running'[u] = running[u]
         /\ running[t].at \in DrawPlaces
         /\ running'[t].at \in DrawPlaces \cup {"idle"}
         /\ running'[t].r \in {running[t].r, First}
         /\ running'[t].at = "queues" =>
              running[t].at = "queues" \/ enabled = "yes"
         /\ running'[t].at = "record" =>
              running[t].at \in {"queues", "record"}
<1>1. CASE /\ running[t].at \in DrawPlaces
           /\ \E at \in DrawPlaces :
                /\ Goto(t, at)
                /\ at = "queues" => enabled = "yes"
                /\ at = "record" => running[t].at = "queues"
  <2>1. PICK at \in DrawPlaces :
          /\ Goto(t, at)
          /\ at = "queues" => enabled = "yes"
          /\ at = "record" => running[t].at = "queues"
    BY <1>1
  <2>2. at \in Places
    BY DEF Places, DrawPlaces
  <2> QED
    BY <1>1, <2>1, <2>2, GotoKeeps
<1>2. CASE /\ running[t].at \in DrawPlaces
           /\ \E w \in Works :
                /\ Do(t, w) /\ w.r \in {running[t].r, First}
                /\ w.at \in (DrawPlaces \ {"queues", "record"}) \cup {"idle"}
  BY <1>2, DoKeeps DEF DrawPlaces
<1>3. CASE running[t].at \in DrawPlaces /\ running' = running
  BY <1>3 DEF DrawPlaces
<1>4. ASSUME NEW w, w \in {[running[t] EXCEPT !.at = "merge", !.again = "yes"],
                           [running[t] EXCEPT !.at = "finish", !.more = "yes"]}
                          \cup {[running[t] EXCEPT !.at = "decrement", !.again = a] :
                                   a \in {"no", "yes"}}
      PROVE  w \in Works /\ w.r = running[t].r /\ w.at \in {"merge", "finish", "decrement"}
  <2>1. running[t] \in Works
    BY DEF TypeOK
  <2>2. CASE w = [running[t] EXCEPT !.at = "merge", !.again = "yes"]
    BY <2>1, <2>2 DEF Works, Places
  <2>3. CASE w = [running[t] EXCEPT !.at = "finish", !.more = "yes"]
    BY <2>1, <2>3 DEF Works, Places
  <2>4. ASSUME NEW a \in {"no", "yes"},
               w = [running[t] EXCEPT !.at = "decrement", !.again = a]
        PROVE  w \in Works /\ w.r = running[t].r /\ w.at = "decrement"
    BY <2>1, <2>4 DEF Works, Places
  <2> QED
    BY <1>4, <2>2, <2>3, <2>4
<1>5. ASSUME NEW w, Do(t, w), running[t].at \in DrawPlaces,
             w \in {[running[t] EXCEPT !.at = "merge", !.again = "yes"],
                    [running[t] EXCEPT !.at = "finish", !.more = "yes"]}
                   \cup {[running[t] EXCEPT !.at = "decrement", !.again = a] :
                            a \in {"no", "yes"}}
      PROVE  /\ running[t].at \in DrawPlaces
             /\ \E v \in Works :
                  /\ Do(t, v) /\ v.r \in {running[t].r, First}
                  /\ v.at \in (DrawPlaces \ {"queues", "record"}) \cup {"idle"}
  BY <1>4, <1>5 DEF DrawPlaces
<1>6. CASE Draw(t) \/ PrerollMerged(t) \/ MergeWithLease(t) \/ RecordLease(t)
           \/ DecrementLease(t) \/ Finish(t)
  BY <1>1, <1>2, <1>6, IdleAt DEF Draw, PrerollMerged, MergeWithLease, MayMerge,
     RecordLease, DecrementLease, Finish, At, DrawPlaces
<1>7. CASE MergeQueues(t)
  BY <1>1, <1>3, <1>7 DEF MergeQueues, At, DrawPlaces
<1>8. CASE PrerollSeparate(t) \/ ExtendLeaseTo(t)
  <2>1. CASE PrerollSeparate(t)
    BY <1>2, <1>5, <2>1 DEF PrerollSeparate, At, DrawPlaces
  <2>2. CASE ExtendLeaseTo(t)
    <3> DEFINE a == IF shown[running[t].r] = "no" THEN "yes" ELSE "no"
    <3>1. Do(t, [running[t] EXCEPT !.at = "decrement", !.again = a])
      BY <2>2 DEF ExtendLeaseTo
    <3>2. a \in {"no", "yes"}
      OBVIOUS
    <3>3. running[t].at \in DrawPlaces
      BY <2>2 DEF ExtendLeaseTo, At, DrawPlaces
    <3> HIDE DEF a
    <3> QED
      BY <1>2, <1>5, <3>1, <3>2, <3>3
  <2> QED
    BY <1>8, <2>1, <2>2
<1>9. CASE DecrementShared(t)
  <2>1. running[t].at \in DrawPlaces
    BY <1>9 DEF DecrementShared, At, DrawPlaces
  <2>2. \/ UNCHANGED running \/ Goto(t, "finish")
        \/ Do(t, [running[t] EXCEPT !.at = "finish", !.more = "yes"])
    BY <1>9 DEF DecrementShared
  <2> QED
    BY <1>1, <1>2, <1>3, <1>5, <2>1, <2>2 DEF DrawPlaces
<1>10. CASE Consume(t)
  <2> DEFINE r == running[t].r
             frame == Head(frames[r])
             more == IF Len(frames[r]) > 1 THEN "yes" ELSE "no"
             next == IF surface[r] # "set" THEN "finish"
                     ELSE IF frame = "views" THEN "preroll" ELSE "decrement"
             w == Work(next, r, frame, "no", more)
  <2>1. running[t].at \in DrawPlaces /\ r \in Rasterizers /\ frames[r] \in Seq(FrameKinds)
    BY <1>10 DEF Consume, At, TypeOK, Works, DrawPlaces
  <2>2. CASE frames[r] = <<>>
    BY <1>2, <1>10, <2>1, <2>2, IdleAt DEF Consume
  <2>3. CASE frames[r] # <<>>
    <3>1. frame \in FrameKinds
      BY <2>1, <2>3, HeadTailProperties
    <3>2. more \in {"no", "yes"} /\ next \in {"finish", "preroll", "decrement"}
      OBVIOUS
    <3>3. Do(t, w)
      BY <1>10, <2>3 DEF Consume
    <3> HIDE DEF next, more, frame
    <3>4. w \in Works /\ w.at = next /\ w.r = r
      BY <2>1, <3>1, <3>2 DEF Work, Works, Places
    <3> QED
      BY <1>2, <2>1, <3>2, <3>3, <3>4 DEF DrawPlaces
  <2> QED
    BY <2>2, <2>3
<1> QED
  BY <1>6, <1>7, <1>8, <1>9, <1>10 DEF DrawStep

LEMMA DrawLeaves ==
  ASSUME TypeOK, NEW t \in Threads, DrawStep(t)
  PROVE  /\ UNCHANGED <<engines, enabled, surface, view>>
         /\ \A q \in Rasterizers : q # running[t].r => lease'[q] = lease[q]
         /\ UNCHANGED rasterQ \/ Post(Task("draw", running[t].r))
<1>1. UNCHANGED <<engines, enabled, surface, view>>
  BY DEF DrawStep, Draw, Consume, PrerollSeparate, PrerollMerged, MergeWithLease,
     MergeQueues, RecordLease, ExtendLeaseTo, DecrementLease, DecrementShared,
     Finish, engineVars, mergerVars
<1>2. UNCHANGED rasterQ \/ Post(Task("draw", running[t].r))
  BY DEF DrawStep, Draw, Consume, PrerollSeparate, PrerollMerged, MergeWithLease,
     MergeQueues, RecordLease, ExtendLeaseTo, DecrementLease, DecrementShared,
     Finish
<1>3. \/ UNCHANGED lease
      \/ \E n : lease' = [lease EXCEPT ![running[t].r] = n]
  BY DEF DrawStep, Draw, Consume, PrerollSeparate, PrerollMerged, MergeWithLease,
     MergeQueues, RecordLease, ExtendLeaseTo, DecrementLease, DecrementShared,
     Decremented, Finish, mergerVars
<1> QED
  BY <1>1, <1>2, <1>3 DEF TypeOK

-----------------------------------------------------------------------------
(* The engines.                                                            *)

\* Tasks, and leases, are those of engines that exist.
Engines ==
  /\ IsFiniteSet(engines) /\ First \in engines
  /\ \A q \in Rasterizers \ engines : lease[q] = NoRecord
  /\ Platform.r \in engines /\ Raster.r \in engines
  /\ \A i \in 1..Len(rasterQ) : rasterQ[i].r \in engines

LEMMA LoneIsFirst ==
  ASSUME Engines, Lone
  PROVE  engines = {First}
BY FS_Singleton DEF Engines, Lone

LEMMA QueueOfEngines ==
  ASSUME TypeOK, Engines,
         \/ UNCHANGED rasterQ
         \/ rasterQ # <<>> /\ rasterQ' = Tail(rasterQ)
         \/ \E task \in Tasks : task.r \in engines /\ Post(task)
  PROVE  \A i \in 1..Len(rasterQ') : rasterQ'[i].r \in engines
<1>1. CASE UNCHANGED rasterQ
  BY <1>1 DEF Engines
<1>2. CASE rasterQ # <<>> /\ rasterQ' = Tail(rasterQ)
  <2> DEFINE n == Len(rasterQ)
  <2>1. /\ Len(rasterQ') = n - 1 /\ n \in Nat \ {0}
        /\ \A i \in 1..(n - 1) : rasterQ'[i] = rasterQ[i + 1]
    BY <1>2, Taken
  <2>2. \A i \in 1..n : rasterQ[i].r \in engines
    BY DEF Engines
  <2> HIDE DEF n
  <2>3. \A i \in 1..(n - 1) : i + 1 \in 1..n
    BY <2>1
  <2> QED
    BY <2>1, <2>2, <2>3
<1>3. ASSUME NEW task \in Tasks, task.r \in engines, Post(task)
      PROVE  \A i \in 1..Len(rasterQ') : rasterQ'[i].r \in engines
  <2> DEFINE n == Len(rasterQ)
  <2>1. /\ Len(rasterQ') = n + 1 /\ rasterQ'[n + 1] = task /\ n \in Nat
        /\ \A i \in 1..n : rasterQ'[i] = rasterQ[i]
    BY <1>3, Posted
  <2>2. \A i \in 1..n : rasterQ[i].r \in engines
    BY DEF Engines
  <2> HIDE DEF n
  <2>3. \A i \in 1..(n + 1) : i = n + 1 \/ i \in 1..n
    BY <2>1
  <2> QED
    BY <1>3, <2>1, <2>2, <2>3
<1> QED
  BY <1>1, <1>2, <1>3

LEMMA InitEngines == Init => Engines
<1> SUFFICES ASSUME Init PROVE Engines
  OBVIOUS
<1>1. Platform = Idle /\ Raster = Idle
  BY DEF Init, Threads, Platform, Raster
<1>2. IsFiniteSet({First})
  BY FS_Singleton
<1> QED
  BY <1>1, <1>2, IdleAt DEF Init, Engines

\* One thread takes a step with its rasterizer, or with none.
LEMMA ThreadEngines ==
  ASSUME TypeOK, Engines, NEW t \in Threads,
         UNCHANGED engines,
         running'[t].r \in engines,
         \A u \in Threads \ {t} : running'[u] \in {running[u], Idle},
         \A q \in Rasterizers : q # running[t].r => lease'[q] = lease[q],
         \/ UNCHANGED rasterQ
         \/ rasterQ # <<>> /\ rasterQ' = Tail(rasterQ)
         \/ \E task \in Tasks : task.r \in engines /\ Post(task)
  PROVE  Engines' /\ engines \subseteq engines'
<1>1. \A i \in 1..Len(rasterQ') : rasterQ'[i].r \in engines
  BY QueueOfEngines
<1>2. Platform'.r \in engines /\ Raster'.r \in engines
  BY IdleAt DEF Engines, Threads, Platform, Raster
<1>3. running[t].r \in engines
  BY DEF Engines, Threads, Platform, Raster
<1> QED
  BY <1>1, <1>2, <1>3 DEF Engines

LEMMA TakeTaskEngines ==
  ASSUME TypeOK, Engines, NEW t \in Threads, TakeTask(t)
  PROVE  Engines' /\ engines \subseteq engines'
<1> DEFINE w == Start(Head(rasterQ).kind, Head(rasterQ).r)
<1>1. rasterQ # <<>> /\ rasterQ' = Tail(rasterQ) /\ Do(t, w) /\ UNCHANGED <<lease, engines>>
  BY DEF TakeTask, mergerVars, engineVars
<1>2. Head(rasterQ) \in Tasks /\ Head(rasterQ) = rasterQ[1] /\ 1 \in 1..Len(rasterQ)
  BY <1>1, Taken, HeadTailProperties DEF TypeOK
<1>3. Head(rasterQ).kind \in Places /\ Head(rasterQ).r \in Rasterizers
  BY <1>2 DEF Tasks, Places
<1>4. w \in Works /\ w.r \in engines
  BY <1>2, <1>3, StartIsWork DEF Engines
<1> HIDE DEF w
<1> QED
  BY <1>1, <1>4, DoKeeps, ThreadEngines

LEMMA SetupEngines ==
  ASSUME TypeOK, Engines, NEW t \in Threads,
         Setup(t) \/ Teardown(t) \/ TornDown(t) \/ UnMergeNowIfLastOne(t)
  PROVE  Engines' /\ engines \subseteq engines'
<1>1. UNCHANGED <<engines, rasterQ>>
  BY DEF Setup, Teardown, TornDown, UnMergeNowIfLastOne, engineVars
<1>2. Do(t, Idle) \/ Release(t) \/ \E at \in {"torn", "unmerge"} : Goto(t, at)
  BY DEF Setup, Teardown, TornDown, UnMergeNowIfLastOne
<1>3. /\ running'[t].r \in engines
      /\ \A u \in Threads \ {t} : running'[u] \in {running[u], Idle}
  <2>1. running[t].r \in engines /\ First \in engines
    BY DEF Engines, Threads, Platform, Raster
  <2>2. CASE Do(t, Idle)
    BY <2>1, <2>2, IdleAt, DoKeeps
  <2>3. CASE Release(t)
    BY <2>1, <2>3, IdleAt, ReleaseKeeps
  <2>4. CASE \E at \in {"torn", "unmerge"} : Goto(t, at)
    BY <2>1, <2>4, GotoKeeps DEF Places
  <2> QED
    BY <1>2, <2>2, <2>3, <2>4
<1>4. \A q \in Rasterizers : q # running[t].r => lease'[q] = lease[q]
  BY DEF Setup, Teardown, TornDown, UnMergeNowIfLastOne, mergerVars, Erased,
     TypeOK
<1> QED
  BY <1>1, <1>3, <1>4, ThreadEngines

LEMMA DrawEngines ==
  ASSUME TypeOK, Engines, NEW t \in Threads, DrawStep(t)
  PROVE  Engines' /\ engines \subseteq engines'
<1>1. running[t].r \in engines /\ First \in engines /\ running[t].r \in Rasterizers
  BY DEF Engines, Threads, Platform, Raster, TypeOK
<1>2. Task("draw", running[t].r) \in Tasks /\ Task("draw", running[t].r).r \in engines
  BY <1>1 DEF Task, Tasks
<1> QED
  BY <1>1, <1>2, DrawStays, DrawLeaves, ThreadEngines

LEMMA PlatformEngines ==
  ASSUME TypeOK, Engines, PlatformStep
  PROVE  Engines' /\ engines \subseteq engines'
<1> DEFINE r == running["platform"].r
<1>1. UNCHANGED <<engines, lease>>
  BY DEF PlatformStep, RunOrPost, PostSetup, PostTeardown, engineVars, mergerVars
<1>2. r \in engines /\ r \in Rasterizers /\ First \in engines
  BY Types DEF Engines, Platform
<1>3. \A kind \in {"setup", "teardown"} : Task(kind, r) \in Tasks /\ Task(kind, r).r = r
  BY <1>2 DEF Task, Tasks
<1>4. UNCHANGED rasterQ \/ \E task \in Tasks : task.r \in engines /\ Post(task)
  BY <1>2, <1>3 DEF PlatformStep, RunOrPost, PostSetup, PostTeardown
<1>5. \/ Do("platform", Idle) \/ Goto("platform", "waits")
      \/ \E at \in {"setup", "teardown", "postSetup", "postTeardown"} :
           Do("platform", Start(at, r))
  BY DEF PlatformStep, RunOrPost, PostSetup, PostTeardown
<1>6. /\ running'["platform"].r \in engines
      /\ \A u \in Threads \ {"platform"} : running'[u] = running[u]
  <2>1. "platform" \in Threads
    BY DEF Threads
  <2>2. CASE Do("platform", Idle)
    BY <1>2, <2>1, <2>2, IdleAt, DoKeeps
  <2>3. CASE Goto("platform", "waits")
    BY <1>2, <2>1, <2>3, GotoKeeps DEF Places
  <2>4. CASE \E at \in {"setup", "teardown", "postSetup", "postTeardown"} :
               Do("platform", Start(at, r))
    <3>1. PICK at \in {"setup", "teardown", "postSetup", "postTeardown"} :
                Do("platform", Start(at, r))
      BY <2>4
    <3>2. Start(at, r) \in Works /\ Start(at, r).r = r
      BY <1>2, StartIsWork DEF Places
    <3> QED
      BY <1>2, <2>1, <3>1, <3>2, DoKeeps
  <2> QED
    BY <1>5, <2>2, <2>3, <2>4
<1> QED
  BY <1>1, <1>4, <1>6, ThreadEngines DEF Threads

LEMMA HandlerEngines ==
  ASSUME TypeOK, Engines, NEW r \in Rasterizers,
         OnPlatformViewCreated(r) \/ OnPlatformViewDestroyed(r)
  PROVE  Engines' /\ engines \subseteq engines'
<1>1. PICK at \in {"created", "destroyed"} : Begin(r, at)
  BY DEF OnPlatformViewCreated, OnPlatformViewDestroyed
<1>2. Start(at, r) \in Works /\ Start(at, r).r = r
  BY StartIsWork DEF Places
<1>3. /\ r \in engines /\ Do("platform", Start(at, r))
      /\ UNCHANGED <<engines, lease, rasterQ>>
  BY <1>1 DEF Begin
<1>4. /\ running'["platform"].r \in engines
      /\ \A u \in Threads \ {"platform"} : running'[u] = running[u]
  BY <1>2, <1>3, DoKeeps DEF Threads
<1> QED
  BY <1>3, <1>4, ThreadEngines DEF Threads

LEMMA SpawnEngines ==
  ASSUME TypeOK, Engines, NEW r \in Rasterizers, NEW kind \in FrameKinds,
         Spawn(r) \/ BuildFrame(r, kind)
  PROVE  Engines' /\ engines \subseteq engines'
<1>1. UNCHANGED <<lease, running>>
  BY DEF Spawn, BuildFrame, mergerVars
<1>2. CASE Spawn(r)
  <2>1. engines' = engines \cup {r} /\ UNCHANGED rasterQ
    BY <1>2 DEF Spawn
  <2>2. IsFiniteSet(engines')
    BY <2>1, FS_AddElement DEF Engines
  <2> QED
    BY <1>1, <2>1, <2>2 DEF Engines, Platform, Raster
<1>3. CASE BuildFrame(r, kind)
  <2>1. r \in engines /\ engines' = engines
    BY <1>3 DEF BuildFrame
  <2>2. Task("draw", r) \in Tasks /\ Task("draw", r).r = r
    BY DEF Task, Tasks
  <2>3. UNCHANGED rasterQ \/ Post(Task("draw", r))
    BY <1>3 DEF BuildFrame
  <2>4. running'["raster"].r \in engines /\ "raster" \in Threads
    BY <1>1 DEF Engines, Raster, Threads
  <2> QED
    BY <1>1, <2>1, <2>2, <2>3, <2>4, ThreadEngines
<1> QED
  BY <1>2, <1>3

LEMMA StepEngines ==
  ASSUME IInv, Engines, [Next]_vars
  PROVE  Engines' /\ engines \subseteq engines'
<1>1. TypeOK
  BY DEF IInv
<1>2. CASE \E t \in Threads : ThreadStep(t)
  <2>1. PICK t \in Threads : ThreadStep(t)
    BY <1>2
  <2> QED
    BY <1>1, <2>1, TakeTaskEngines, DrawEngines, SetupEngines DEF ThreadStep, DrawStep
<1>3. CASE PlatformStep
  BY <1>1, <1>3, PlatformEngines
<1>4. CASE \E r \in Rasterizers :
             \/ OnPlatformViewCreated(r) \/ OnPlatformViewDestroyed(r) \/ Spawn(r)
             \/ \E kind \in FrameKinds : BuildFrame(r, kind)
  BY <1>1, <1>4, HandlerEngines, SpawnEngines DEF FrameKinds
<1>5. CASE UNCHANGED vars
  BY <1>5 DEF vars, mergerVars, engineVars, Engines, Platform, Raster
<1> QED
  BY <1>2, <1>3, <1>4, <1>5 DEF Next

\* An engine that was alone after a step was alone before it.
LEMMA LoneBefore ==
  ASSUME IInv, Engines, [Next]_vars, Lone'
  PROVE  Lone /\ engines = {First} /\ engines' = {First}
<1>1. Engines' /\ engines \subseteq engines' /\ First \in engines
  BY StepEngines DEF Engines
<1>2. engines' = {First}
  BY <1>1, FS_Singleton DEF Engines, Lone
<1>3. engines = {First}
  BY <1>1, <1>2
<1> QED
  BY <1>2, <1>3, FS_Singleton DEF Lone

-----------------------------------------------------------------------------
(* The checks of the merger.                                               *)

\* The lease that a lone engine counts down has not run out, nor was it erased:
\* its Teardown cannot come in between, they share a RasterThreadMerger.
LoneLease == Lone /\ Raster.at = "lease" => lease[First] > 0
LoneSucceeds == Lone => failed = "no"

LEMMA LoneMerged ==
  ASSUME TypeOK, Engines, Lone, IsMerged
  PROVE  lease[First] > 0
<1>1. PICK q \in Rasterizers : ~(lease[q] <= 0)
  BY DEF IsMerged, AllLeaseTermsZero
<1>2. q = First
  BY <1>1, LoneIsFirst, Types DEF Engines
<1> QED
  BY <1>1, <1>2, Types

LEMMA StepLoneLease ==
  ASSUME IInv, Turns, Engines, LoneLease, [Next]_vars
  PROVE  LoneLease'
<1> SUFFICES ASSUME Lone', Raster'.at = "lease"
             PROVE  lease'[First] > 0
  BY DEF LoneLease
<1>1. TypeOK /\ MergedHasLease /\ MergerStep
  BY StepTurns DEF IInv
<1>2. Lone /\ Raster.r = First /\ Platform.r = First /\ First \in Rasterizers
  BY LoneBefore, MergerAssumption DEF Engines
<1>3. CASE Aside
  <2>1. lease' = lease
    BY <1>3, AsideKeepsMerger
  <2>2. CASE Raster.at = "lease"
    BY <1>2, <2>1, <2>2 DEF LoneLease
  <2>3. CASE Raster.at # "lease"
    <3>1. Raster.at = "decrement" /\ merged = "yes"
      BY <1>3, <2>3 DEF Aside, PlatformAside, RasterAside, PlatformBegins,
         RasterBegins, AfterMerge
    <3>2. IsMerged
      BY <1>1, <3>1 DEF MergedHasLease, Turns, PlatformLeased, Threads, Platform, Raster
    <3> QED
      BY <1>1, <1>2, <2>1, <3>2, LoneMerged
  <2> QED
    BY <2>2, <2>3
<1>4. ASSUME MergeQueues("raster") PROVE FALSE
  <2>1. Raster.at = "queues" /\ merged = "no" /\ ~IsMerged
    BY <1>4 DEF MergeQueues, At, Turns, RasterTurn, Leased, Alone, Raster
  <2>2. Goto("raster", "record")
    BY <1>4, <2>1 DEF MergeQueues
  <2> QED
    BY <1>1, <2>2, GotoRaster DEF Places
<1>5. ~RecordLease("raster")
  BY <1>1, GotoRaster DEF RecordLease, Places
<1>6. CASE DecrementShared("raster")
  BY <1>1, <1>2, <1>6, RasterDecrements DEF LoneLease
<1>7. CASE ExtendLeaseTo("platform")
  <2>1. Raster' = Raster
    <3>1. \E w : running' = [running EXCEPT !["platform"] = w]
      BY <1>7 DEF ExtendLeaseTo, Do
    <3> QED
      BY <1>1, <3>1 DEF TypeOK, Threads, Raster
  <2>2. lease' = lease \/ lease' = [lease EXCEPT ![First] = LeaseTerm]
    BY <1>2, <1>7 DEF ExtendLeaseTo, Platform
  <2>3. lease'[First] \in {lease[First], LeaseTerm}
    BY <1>1, <1>2, <2>2 DEF TypeOK
  <2> QED
    BY <1>1, <1>2, <2>1, <2>3, Types DEF LoneLease
<1>8. CASE DecrementShared("platform")
  <2>1. /\ Platform.at = "lease" /\ Raster' = Raster
        /\ lease' \in {lease, Decremented(First)}
    BY <1>1, <1>2, <1>8, PlatformDecrements
  <2>2. lease[First] > 0 /\ AfterMerge
    BY <1>2, <2>1 DEF LoneLease, AfterMerge
  <2>3. Owed = 1
    BY <2>1 DEF Owed
  <2>4. lease[First] >= LeaseTerm - overlapped + Owed /\ overlapped <= MaxOverlap
    BY <1>1, <1>2, <2>2, Types DEF Turns, LeaseLasts
  <2>5. lease[First] > 1
    BY <1>1, <1>2, <2>3, <2>4, Types
  <2> QED
    BY <1>1, <1>2, <2>1, <2>5, Types, LeaseLowered
<1>9. ~(UnMergeNowIfLastOne("platform") /\ Raster' # Raster)
  BY <1>1, PlatformErases DEF Threads
<1>10. ~UnMergeNowIfLastOne("platform")
  BY <1>1, <1>2, <1>9, PlatformErases DEF Threads
<1> QED
  BY <1>1, <1>3, <1>4, <1>5, <1>6, <1>7, <1>8, <1>10 DEF MergerStep

LEMMA StepLoneSucceeds ==
  ASSUME IInv, Turns, Engines, LoneLease, LoneSucceeds, [Next]_vars
  PROVE  LoneSucceeds'
<1> SUFFICES ASSUME Lone' PROVE failed' = "no"
  BY DEF LoneSucceeds
<1>1. /\ Lone /\ failed = "no" /\ TypeOK /\ First \in Rasterizers
      /\ Raster.r = First /\ Platform.r = First
  BY LoneBefore, MergerAssumption DEF LoneSucceeds, IInv, Engines
<1>2. Platform.at = "lease" \/ Raster.at = "lease" => lease[First] > 0
  BY <1>1, LoneMerged DEF LoneLease, Turns, PlatformLeased
<1>3. Platform.at = "lease" \/ Raster.at = "lease" =>
        lease[First] # 0 /\ lease[First] # NoRecord
  BY <1>1, <1>2, Types
<1>4. \A t \in Threads : running[t].at = "lease" => lease[running[t].r] # 0
  BY <1>1, <1>3 DEF Threads, Platform, Raster
<1> QED
  BY <1>1, <1>3, <1>4, WhatFails

LEMMA InitLone == Init => LoneLease /\ LoneSucceeds
<1> SUFFICES ASSUME Init PROVE LoneLease /\ LoneSucceeds
  OBVIOUS
<1>1. Raster = Idle /\ failed = "no"
  BY DEF Init, Threads, Raster
<1> QED
  BY <1>1, IdleAt DEF LoneLease, LoneSucceeds

\* No FML_CHECK of the merger fails for a lone engine, whatever number of raster
\* tasks the platform thread begins beside the Draw that merged the threads.
THEOREM LoneChecksSucceed == Spec => []LoneSucceeds
<1> DEFINE Inv == IInv /\ Turns /\ Engines /\ LoneLease /\ LoneSucceeds
<1>1. Init => Inv
  BY InitInv, InitTurns, InitEngines, InitLone
<1>2. Inv /\ [Next]_vars => Inv'
  BY StepInv, StepTurns, StepEngines, StepLoneLease, StepLoneSucceeds
<1>3. Inv => LoneSucceeds
  OBVIOUS
<1> QED
  BY <1>1, <1>2, <1>3, PTL DEF Spec

\* Of the checks of the merger only the one on a lease can fail, and only
\* beside other engines, while the platform thread begins at most two raster
\* tasks beside the end of the Draw that merged the threads.
THEOREM ChecksSucceed ==
  ASSUME MaxOverlap <= 2
  PROVE  Spec => []OnlyLeaseCheckFails
<1>1. QueuesSeparateOnce /\ LoneSucceeds => OnlyLeaseCheckFails
  BY DEF QueuesSeparateOnce, LoneSucceeds, OnlyLeaseCheckFails
<1> QED
  BY <1>1, SeparationsSucceed, LoneChecksSucceed, PTL

-----------------------------------------------------------------------------
(* The waiting of the platform thread.                                     *)

SetupIn == InQueue("setup")
TeardownIn == InQueue("teardown")
OneSetup == Once("setup")
OneTeardown == Once("teardown")

Creating == {"created", "postSetup", "setup"}
Destroying == {"destroyed", "postTeardown", "waits", "teardown"}

\* A Setup is under way at most once, for a view that has no surface yet; and
\* a view that is gone leaves none behind.
LoneSetups ==
  /\ OneSetup
  /\ Raster.at = "setup" => ~SetupIn
  /\ Platform.at \in Creating => ~SetupIn /\ Raster.at # "setup"
  /\ SetupIn \/ Raster.at = "setup" \/ Platform.at \in Creating =>
       surface[First] # "set" /\ view[First] = "yes"
  /\ view[First] = "no" /\ Platform.at \notin Destroying =>
       surface[First] # "set"

\* The raster thread tears down at most once, while the platform thread waits.
LoneTeardowns ==
  /\ OneTeardown
  /\ TeardownIn => Platform.at = "waits"
  /\ Raster.at \in {"teardown", "torn"} => Platform.at = "waits" /\ ~TeardownIn
  /\ Platform.at \in Destroying => view[First] = "no"
  /\ Raster.at = "torn" => surface[First] # "set"

\* The merger stays disabled until then, and no merge is under way.
NoMerge == enabled = "no" /\ Raster.at \notin {"queues", "record"}

LoneWaits ==
  /\ Platform.at \in {"destroyed", "postTeardown"} => NoMerge
  /\ Platform.at = "postTeardown" => merged = "no"
  /\ Platform.at = "waits" => merged = "no" /\ (Raster.at = "torn" \/ NoMerge)

LoneTurns == LoneSetups /\ LoneTeardowns /\ LoneWaits

\* The queues stay separate while the platform thread waits.
StaysApart == Platform.at \in {"postTeardown", "waits"} => merged' = "no"

LEMMA StepStaysApart ==
  ASSUME IInv, Turns, LoneWaits, [Next]_vars
  PROVE  StaysApart
<1>1. merged' \in {"no", "yes"}
  BY StepInv DEF IInv, TypeOK
<1> QED
  BY <1>1, StepChangesInTurn DEF ChangeInTurn, LoneWaits, NoMerge, StaysApart, Raster

\* A Draw that is posted is neither a Setup nor a Teardown.
LEMMA DrawPosted ==
  ASSUME TypeOK, NEW r \in Rasterizers, UNCHANGED rasterQ \/ Post(Task("draw", r))
  PROVE  /\ SetupIn' <=> SetupIn
         /\ TeardownIn' <=> TeardownIn
         /\ OneSetup => OneSetup'
         /\ OneTeardown => OneTeardown'
<1>1. CASE UNCHANGED rasterQ
  BY <1>1 DEF SetupIn, TeardownIn, OneSetup, OneTeardown, InQueue, Once
<1>2. CASE Post(Task("draw", r))
  <2>1. Task("draw", r) \in Tasks /\ Task("draw", r).kind = "draw"
    BY DEF Task, Tasks
  <2> QED
    BY <1>2, <2>1, PostedIn DEF SetupIn, TeardownIn, OneSetup, OneTeardown
<1> QED
  BY <1>1, <1>2

LEMMA DrawLone ==
  ASSUME TypeOK, Turns, LoneTurns, StaysApart, NEW t \in Threads, DrawStep(t)
  PROVE  LoneTurns'
<1>1. running[t].r \in Rasterizers
  BY DEF TypeOK, Works
<1>2. /\ SetupIn' <=> SetupIn
      /\ TeardownIn' <=> TeardownIn
      /\ OneSetup => OneSetup'
      /\ OneTeardown => OneTeardown'
  BY <1>1, DrawLeaves, DrawPosted
<1>3. UNCHANGED <<enabled, surface, view>>
  BY DrawLeaves
<1>4. CASE t = "platform"
  <2>1. Raster' = Raster /\ Platform.at \in DrawPlaces
        /\ Platform'.at \in DrawPlaces \cup {"idle"}
    BY <1>4, DrawStays DEF Threads, Platform, Raster
  <2>2. Platform.at \notin Creating \cup Destroying /\ Platform'.at \notin Creating \cup Destroying
    BY <2>1 DEF DrawPlaces, Creating, Destroying
  <2>3. LoneSetups'
    BY <1>2, <1>3, <2>1, <2>2 DEF LoneTurns, LoneSetups
  <2>4. LoneTeardowns'
    BY <1>2, <1>3, <2>1, <2>2 DEF LoneTurns, LoneTeardowns, DrawPlaces
  <2>5. LoneWaits'
    BY <2>1 DEF LoneWaits, DrawPlaces
  <2> QED
    BY <2>3, <2>4, <2>5 DEF LoneTurns
<1>5. CASE t = "raster"
  <2>1. /\ Platform' = Platform /\ Raster.at \in DrawPlaces
        /\ Raster'.at \in DrawPlaces \cup {"idle"}
        /\ Raster'.at = "queues" => Raster.at = "queues" \/ enabled = "yes"
        /\ Raster'.at = "record" => Raster.at \in {"queues", "record"}
    BY <1>5, DrawStays DEF Threads, Platform, Raster
  <2>2. LoneSetups'
    BY <1>2, <1>3, <2>1 DEF LoneTurns, LoneSetups, DrawPlaces
  <2>3. LoneTeardowns'
    BY <1>2, <1>3, <2>1 DEF LoneTurns, LoneTeardowns, DrawPlaces
  <2>4. LoneWaits'
    BY <1>3, <2>1 DEF LoneTurns, LoneWaits, NoMerge, StaysApart, DrawPlaces
  <2> QED
    BY <2>2, <2>3, <2>4 DEF LoneTurns
<1> QED
  BY <1>4, <1>5 DEF Threads

\* The task that is taken was the only one of its kind.
LEMMA TakeTaskLone ==
  ASSUME TypeOK, Turns, LoneTurns, StaysApart, NEW t \in Threads, TakeTask(t)
  PROVE  LoneTurns'
<1> DEFINE kind == Head(rasterQ).kind
           w == Start(kind, Head(rasterQ).r)
<1>1. /\ rasterQ # <<>> /\ rasterQ' = Tail(rasterQ) /\ Do(t, w)
      /\ UNCHANGED <<merged, enabled, surface, view>> /\ running[t] = Idle
  BY DEF TakeTask, mergerVars, engineVars
<1>2. Head(rasterQ) \in Tasks
  BY <1>1, HeadTailProperties DEF TypeOK
<1>3. kind \in {"draw", "setup", "teardown"} /\ kind \in Places /\ Head(rasterQ).r \in Rasterizers
  BY <1>2 DEF Tasks, Places
<1>4. w \in Works /\ w.at = kind
  BY <1>3, StartIsWork
<1>5. /\ SetupIn' => SetupIn
      /\ TeardownIn' => TeardownIn
      /\ kind = "setup" => SetupIn /\ ~SetupIn'
      /\ kind = "teardown" => TeardownIn /\ ~TeardownIn'
      /\ OneSetup' /\ OneTeardown'
  BY <1>1, TakenIn DEF SetupIn, TeardownIn, OneSetup, OneTeardown, LoneTurns,
     LoneSetups, LoneTeardowns
<1> HIDE DEF w, kind
<1>6. CASE t = "platform"
  <2>1. Raster' = Raster /\ Platform.at = "idle" /\ Platform'.at = kind
    BY <1>1, <1>4, <1>6, IdleAt, DoPlatform DEF Platform
  <2>2. kind # "teardown" /\ ~TeardownIn
    BY <1>5, <2>1 DEF LoneTurns, LoneTeardowns
  <2>3. Platform'.at \in Creating => kind = "setup"
    BY <1>3, <2>1 DEF Creating
  <2>4. Platform'.at \notin Destroying /\ Platform.at \notin Destroying
    BY <1>3, <2>1, <2>2 DEF Destroying
  <2>5. LoneSetups'
    BY <1>1, <1>5, <2>1, <2>3, <2>4 DEF LoneTurns, LoneSetups
  <2>6. LoneTeardowns'
    BY <1>1, <1>5, <2>1, <2>2, <2>4 DEF LoneTurns, LoneTeardowns
  <2>7. LoneWaits'
    BY <1>3, <2>1 DEF LoneWaits
  <2> QED
    BY <2>5, <2>6, <2>7 DEF LoneTurns
<1>7. CASE t = "raster"
  <2>1. Platform' = Platform /\ Raster.at = "idle" /\ Raster'.at = kind
    BY <1>1, <1>4, <1>7, IdleAt, DoRaster DEF Raster
  <2>2. LoneSetups'
    BY <1>1, <1>3, <1>5, <2>1 DEF LoneTurns, LoneSetups
  <2>3. LoneTeardowns'
    BY <1>1, <1>3, <1>5, <2>1 DEF LoneTurns, LoneTeardowns
  <2>4. LoneWaits'
    BY <1>1, <1>3, <2>1 DEF LoneTurns, LoneWaits, NoMerge
  <2> QED
    BY <2>2, <2>3, <2>4 DEF LoneTurns
<1> QED
  BY <1>6, <1>7 DEF Threads

LEMMA QueueKept ==
  ASSUME UNCHANGED rasterQ
  PROVE  /\ SetupIn' <=> SetupIn
         /\ TeardownIn' <=> TeardownIn
         /\ OneSetup' <=> OneSetup
         /\ OneTeardown' <=> OneTeardown
BY DEF SetupIn, TeardownIn, OneSetup, OneTeardown, InQueue, Once

\* The Setup that sets the surface was the last one; it enables the merger while
\* the platform thread waits for nothing.
LEMMA SetupLone ==
  ASSUME TypeOK, Turns, LoneTurns, StaysApart, NEW t \in Threads,
         running[t].r = First, Setup(t)
  PROVE  LoneTurns'
<1>1. /\ running[t].at = "setup" /\ Do(t, Idle) /\ UNCHANGED <<rasterQ, merged, view>>
      /\ surface' = [surface EXCEPT ![First] = "set"]
  BY DEF Setup, At, engineVars
<1>2. CASE t = "platform"
  <2>1. Platform.at = "setup" /\ Platform' = Idle /\ Raster' = Raster
    BY <1>1, <1>2, IdleAt, DoPlatform DEF Platform
  <2>2. ~SetupIn /\ Raster.at # "setup" /\ view[First] = "yes"
    BY <2>1 DEF LoneTurns, LoneSetups, Creating
  <2>3. LoneSetups'
    BY <1>1, <2>1, <2>2, IdleAt, QueueKept DEF LoneTurns, LoneSetups, Creating
  <2>4. LoneTeardowns'
    BY <1>1, <2>1, <2>2, IdleAt, QueueKept DEF LoneTurns, LoneTeardowns, Destroying
  <2>5. LoneWaits'
    BY <2>1, IdleAt DEF LoneWaits
  <2> QED
    BY <2>3, <2>4, <2>5 DEF LoneTurns
<1>3. CASE t = "raster"
  <2>1. Raster.at = "setup" /\ Raster' = Idle /\ Platform' = Platform
    BY <1>1, <1>3, IdleAt, DoRaster DEF Raster
  <2>2. ~SetupIn /\ Platform.at \notin Creating /\ view[First] = "yes"
    BY <2>1 DEF LoneTurns, LoneSetups
  <2>3. Platform.at \notin Destroying
    BY <2>2 DEF LoneTurns, LoneTeardowns
  <2>4. LoneSetups'
    BY <1>1, <2>1, <2>2, IdleAt, QueueKept DEF LoneTurns, LoneSetups
  <2>5. LoneTeardowns'
    BY <1>1, <2>1, <2>3, IdleAt, QueueKept DEF LoneTurns, LoneTeardowns
  <2>6. LoneWaits'
    BY <2>1, <2>3 DEF LoneWaits, Destroying
  <2> QED
    BY <2>4, <2>5, <2>6 DEF LoneTurns
<1> QED
  BY <1>2, <1>3 DEF Threads

LEMMA TeardownLone ==
  ASSUME TypeOK, Turns, LoneTurns, StaysApart, NEW t \in Threads,
         running[t].r = First, Teardown(t)
  PROVE  LoneTurns'
<1>1. /\ running[t].at = "teardown" /\ Goto(t, "torn") /\ UNCHANGED <<rasterQ, merged, view>>
      /\ surface' = [surface EXCEPT ![First] =
                       IF @ = "never" THEN "never" ELSE "none"]
      /\ "torn" \in Places
  BY DEF Teardown, At, engineVars, Places
<1>2. surface'[First] # "set"
  BY <1>1, MergerAssumption DEF TypeOK
<1>3. CASE t = "platform"
  <2>1. Platform.at = "teardown" /\ Platform'.at = "torn" /\ Raster' = Raster
    BY <1>1, <1>3, GotoPlatform DEF Platform
  <2>2. LoneSetups'
    BY <1>1, <1>2, <2>1, QueueKept DEF LoneTurns, LoneSetups, Creating
  <2>3. LoneTeardowns'
    BY <1>1, <1>2, <2>1, QueueKept DEF LoneTurns, LoneTeardowns, Destroying
  <2>4. LoneWaits'
    BY <2>1 DEF LoneWaits
  <2> QED
    BY <2>2, <2>3, <2>4 DEF LoneTurns
<1>4. CASE t = "raster"
  <2>1. Raster.at = "teardown" /\ Raster'.at = "torn" /\ Platform' = Platform
    BY <1>1, <1>4, GotoRaster DEF Raster
  <2>2. Platform.at = "waits" /\ ~TeardownIn
    BY <2>1 DEF LoneTurns, LoneTeardowns
  <2>3. LoneSetups'
    BY <1>1, <1>2, <2>1, QueueKept DEF LoneTurns, LoneSetups
  <2>4. LoneTeardowns'
    BY <1>1, <1>2, <2>1, <2>2, QueueKept DEF LoneTurns, LoneTeardowns
  <2>5. LoneWaits'
    BY <2>1, <2>2 DEF LoneWaits, StaysApart
  <2> QED
    BY <2>3, <2>4, <2>5 DEF LoneTurns
<1> QED
  BY <1>3, <1>4 DEF Threads

\* Whoever waits for the raster thread goes on when the surface is gone.
LEMMA TornDownLone ==
  ASSUME TypeOK, Turns, LoneTurns, StaysApart, NEW t \in Threads,
         TornDown(t) \/ UnMergeNowIfLastOne(t)
  PROVE  LoneTurns'
<1>1. /\ running[t].at \in {"torn", "unmerge"} /\ UNCHANGED <<rasterQ, enabled, surface, view>>
      /\ "unmerge" \in Places
  BY DEF TornDown, UnMergeNowIfLastOne, At, engineVars, mergerVars, Places
<1>2. CASE t = "platform"
  <2>1. Platform.at \in {"torn", "unmerge"} /\ Platform'.at \in {"unmerge", "idle"}
        /\ Raster' = Raster
    BY <1>1, <1>2, IdleAt, GotoPlatform, ReleasePlatform
       DEF TornDown, UnMergeNowIfLastOne, Platform
  <2>2. LoneSetups'
    BY <1>1, <2>1, QueueKept DEF LoneTurns, LoneSetups, Creating, Destroying
  <2>3. LoneTeardowns'
    BY <1>1, <2>1, QueueKept DEF LoneTurns, LoneTeardowns, Destroying
  <2>4. LoneWaits'
    BY <2>1 DEF LoneWaits
  <2> QED
    BY <2>2, <2>3, <2>4 DEF LoneTurns
<1>3. CASE t = "raster"
  <2>1. Raster.at = "torn" /\ merged = "no" /\ ~IsMerged
    BY <1>1, <1>3 DEF Turns, RasterTurn, Leased, Alone, Raster
  <2>2. Platform.at = "waits" /\ ~TeardownIn /\ surface[First] # "set"
    BY <2>1 DEF LoneTurns, LoneTeardowns
  <2>3. Release("raster")
    BY <1>3, <2>1 DEF TornDown, UnMergeNowIfLastOne, HasToSeparate, At, Raster
  <2>4. Platform' = Idle /\ Raster' = Idle
    BY <2>2, <2>3 DEF Release, Threads, Platform, Raster
  <2>5. LoneSetups'
    BY <1>1, <2>2, <2>4, IdleAt, QueueKept DEF LoneTurns, LoneSetups, Creating
  <2>6. LoneTeardowns'
    BY <1>1, <2>2, <2>4, IdleAt, QueueKept DEF LoneTurns, LoneTeardowns, Destroying
  <2>7. LoneWaits'
    BY <2>4, IdleAt DEF LoneWaits
  <2> QED
    BY <2>5, <2>6, <2>7 DEF LoneTurns
<1> QED
  BY <1>2, <1>3 DEF Threads

LEMMA RunOrPostLone ==
  ASSUME TypeOK, Turns, LoneTurns, StaysApart, RunOrPost
  PROVE  LoneTurns'
<1>1. UNCHANGED <<rasterQ, merged, enabled, surface, view>>
  BY DEF RunOrPost, engineVars, mergerVars
<1>2. PICK at \in {"setup", "teardown", "postSetup", "postTeardown"} :
        /\ Do("platform", Start(at, Platform.r))
        /\ (at \in {"setup", "teardown"}) <=> (merged = "yes")
        /\ \/ at \in {"setup", "postSetup"} /\ Platform.at = "created"
           \/ at \in {"teardown", "postTeardown"} /\ Platform.at = "destroyed"
  BY DEF RunOrPost, Platform
<1>3. Start(at, Platform.r) \in Works /\ Start(at, Platform.r).at = at
  BY StartIsWork, Types DEF Places
<1>4. Platform'.at = at /\ Raster' = Raster
  BY <1>2, <1>3, DoPlatform
<1>5. LoneSetups'
  BY <1>1, <1>2, <1>4, QueueKept DEF LoneTurns, LoneSetups, Creating, Destroying
<1>6. LoneTeardowns'
  BY <1>1, <1>2, <1>4, QueueKept DEF LoneTurns, LoneTeardowns, Destroying
<1>7. LoneWaits'
  <2>1. merged \in {"no", "yes"}
    BY DEF TypeOK
  <2> QED
    BY <1>1, <1>2, <1>4, <2>1 DEF LoneTurns, LoneWaits, NoMerge
<1> QED
  BY <1>5, <1>6, <1>7 DEF LoneTurns

LEMMA PostSetupLone ==
  ASSUME TypeOK, Turns, LoneTurns, StaysApart, PostSetup
  PROVE  LoneTurns'
<1>1. /\ Platform.at = "postSetup" /\ Do("platform", Idle) /\ Post(Task("setup", Platform.r))
      /\ UNCHANGED <<merged, enabled, surface, view>>
  BY DEF PostSetup, At, engineVars, mergerVars, Platform
<1>2. Platform' = Idle /\ Raster' = Raster
  BY <1>1, IdleAt, DoPlatform
<1>3. Task("setup", Platform.r) \in Tasks /\ Task("setup", Platform.r).kind = "setup"
  BY Types DEF Task, Tasks
<1>4. ~SetupIn /\ Raster.at # "setup" /\ surface[First] # "set" /\ view[First] = "yes"
  BY <1>1 DEF LoneTurns, LoneSetups, Creating
<1>5. OneSetup' /\ (TeardownIn' <=> TeardownIn) /\ (OneTeardown => OneTeardown')
  BY <1>1, <1>3, <1>4, PostedIn DEF SetupIn, TeardownIn, OneSetup, OneTeardown,
     LoneTurns, LoneSetups
<1>6. LoneSetups'
  BY <1>1, <1>2, <1>4, <1>5, IdleAt DEF LoneSetups, Creating
<1>7. LoneTeardowns'
  BY <1>1, <1>2, <1>5, IdleAt DEF LoneTurns, LoneTeardowns, Destroying
<1>8. LoneWaits'
  BY <1>2, IdleAt DEF LoneWaits
<1> QED
  BY <1>6, <1>7, <1>8 DEF LoneTurns

LEMMA PostTeardownLone ==
  ASSUME TypeOK, Turns, LoneTurns, StaysApart, PostTeardown
  PROVE  LoneTurns'
<1>1. /\ Platform.at = "postTeardown" /\ Goto("platform", "waits")
      /\ Post(Task("teardown", Platform.r)) /\ "waits" \in Places
      /\ UNCHANGED <<merged, enabled, surface, view>>
  BY DEF PostTeardown, At, engineVars, mergerVars, Places, Platform
<1>2. Platform'.at = "waits" /\ Raster' = Raster
  BY <1>1, GotoPlatform
<1>3. Task("teardown", Platform.r) \in Tasks /\ Task("teardown", Platform.r).kind = "teardown"
  BY Types DEF Task, Tasks
<1>4. ~TeardownIn /\ Raster.at \notin {"teardown", "torn"} /\ view[First] = "no"
  BY <1>1 DEF LoneTurns, LoneTeardowns, Destroying
<1>5. OneTeardown' /\ (SetupIn' <=> SetupIn) /\ (OneSetup => OneSetup')
  BY <1>1, <1>3, <1>4, PostedIn DEF SetupIn, TeardownIn, OneSetup, OneTeardown,
     LoneTurns, LoneTeardowns
<1>6. LoneSetups'
  BY <1>1, <1>2, <1>5 DEF LoneTurns, LoneSetups, Creating, Destroying
<1>7. LoneTeardowns'
  BY <1>1, <1>2, <1>4, <1>5 DEF LoneTeardowns
<1>8. LoneWaits'
  BY <1>1, <1>2 DEF LoneTurns, LoneWaits, NoMerge, StaysApart
<1> QED
  BY <1>6, <1>7, <1>8 DEF LoneTurns

\* A view that is created again has no surface and no Setup under way.
LEMMA CreatedLone ==
  ASSUME TypeOK, Turns, LoneTurns, StaysApart, OnPlatformViewCreated(First)
  PROVE  LoneTurns'
<1>1. /\ Platform = Idle /\ Do("platform", Start("created", First))
      /\ UNCHANGED <<rasterQ, merged, surface>> /\ view[First] = "no"
      /\ view' = [view EXCEPT ![First] = "yes"]
  BY DEF OnPlatformViewCreated, Begin, Platform
<1>2. Start("created", First) \in Works /\ Start("created", First).at = "created"
  BY StartIsWork, MergerAssumption DEF Places
<1>3. Platform'.at = "created" /\ Raster' = Raster
  BY <1>1, <1>2, DoPlatform
<1>4. view'[First] = "yes"
  BY <1>1, MergerAssumption DEF TypeOK
<1>5. surface[First] # "set" /\ ~SetupIn /\ Raster.at # "setup"
  BY <1>1, IdleAt DEF LoneTurns, LoneSetups, Destroying
<1>6. LoneSetups'
  BY <1>1, <1>3, <1>4, <1>5, QueueKept DEF LoneTurns, LoneSetups
<1>7. LoneTeardowns'
  BY <1>1, <1>3, IdleAt, QueueKept DEF LoneTurns, LoneTeardowns, Destroying
<1>8. LoneWaits'
  BY <1>3 DEF LoneWaits
<1> QED
  BY <1>6, <1>7, <1>8 DEF LoneTurns

\* One that is destroyed with its surface disables the merger, and waits for the
\* mutex of a merge that is under way.
LEMMA DestroyedLone ==
  ASSUME QuickRestart = FALSE, TypeOK, Turns, LoneTurns, StaysApart,
         Raster.r = First, OnPlatformViewDestroyed(First)
  PROVE  LoneTurns'
<1>1. /\ Platform = Idle /\ Do("platform", Start("destroyed", First))
      /\ UNCHANGED <<rasterQ, merged, surface>> /\ surface[First] = "set"
      /\ view' = [view EXCEPT ![First] = "no"]
      /\ OwnMutexFree("platform", First) /\ SetEnabled(First, "no")
  BY DEF OnPlatformViewDestroyed, Begin, Platform
<1>2. Start("destroyed", First) \in Works /\ Start("destroyed", First).at = "destroyed"
  BY StartIsWork, MergerAssumption DEF Places
<1>3. Platform'.at = "destroyed" /\ Raster' = Raster
  BY <1>1, <1>2, DoPlatform
<1>4. view'[First] = "no"
  BY <1>1, MergerAssumption DEF TypeOK
<1>5. enabled' = "no"
  BY <1>1 DEF SetEnabled, HasMerger
<1>6. Raster.at \notin {"queues", "record"}
  BY <1>1 DEF OwnMutexFree, Threads, Raster
<1>7. ~SetupIn /\ Raster.at # "setup"
  BY <1>1 DEF LoneTurns, LoneSetups
<1>8. LoneSetups'
  BY <1>1, <1>3, <1>7, QueueKept DEF LoneTurns, LoneSetups, Creating, Destroying
<1>9. LoneTeardowns'
  BY <1>1, <1>3, <1>4, IdleAt, QueueKept DEF LoneTurns, LoneTeardowns
<1>10. LoneWaits'
  BY <1>3, <1>5, <1>6 DEF LoneWaits, NoMerge
<1> QED
  BY <1>8, <1>9, <1>10 DEF LoneTurns

LEMMA BuildFrameLone ==
  ASSUME TypeOK, LoneTurns, NEW r \in Rasterizers, NEW kind \in FrameKinds,
         BuildFrame(r, kind)
  PROVE  LoneTurns'
<1>1. UNCHANGED <<merged, enabled, running, surface, view>>
  BY DEF BuildFrame, mergerVars
<1>2. UNCHANGED rasterQ \/ Post(Task("draw", r))
  BY DEF BuildFrame
<1>3. LoneSetups' /\ LoneTeardowns'
  BY <1>1, <1>2, DrawPosted DEF LoneTurns, LoneSetups, LoneTeardowns, Platform, Raster
<1>4. LoneWaits'
  BY <1>1 DEF LoneTurns, LoneWaits, NoMerge, Platform, Raster
<1> QED
  BY <1>3, <1>4 DEF LoneTurns

LoneInv == Lone => LoneTurns

LEMMA StepLoneTurns ==
  ASSUME QuickRestart = FALSE, IInv, Turns, Engines, LoneInv, [Next]_vars
  PROVE  LoneInv'
<1> SUFFICES ASSUME Lone' PROVE LoneTurns'
  BY DEF LoneInv
<1>1. Lone /\ engines = {First} /\ engines' = {First} /\ First \in Rasterizers
  BY LoneBefore, MergerAssumption
<1>2. TypeOK /\ LoneTurns /\ StaysApart
  BY <1>1, StepStaysApart DEF IInv, LoneInv, LoneTurns
<1>3. Platform.r = First /\ Raster.r = First /\ \A t \in Threads : running[t].r = First
  BY <1>1 DEF Engines, Threads, Platform, Raster
<1>4. CASE \E t \in Threads : ThreadStep(t)
  <2>1. PICK t \in Threads : ThreadStep(t)
    BY <1>4
  <2> QED
    BY <1>2, <1>3, <2>1, TakeTaskLone, DrawLone, SetupLone, TeardownLone,
       TornDownLone DEF ThreadStep, DrawStep
<1>5. CASE PlatformStep
  BY <1>2, <1>5, RunOrPostLone, PostSetupLone, PostTeardownLone DEF PlatformStep
<1>6. ASSUME NEW r \in Rasterizers, OnPlatformViewCreated(r) \/ OnPlatformViewDestroyed(r)
      PROVE  LoneTurns'
  <2>1. r = First
    BY <1>1, <1>6 DEF OnPlatformViewCreated, OnPlatformViewDestroyed, Begin
  <2> QED
    BY <1>2, <1>3, <1>6, <2>1, CreatedLone, DestroyedLone
<1>7. ASSUME NEW r \in Rasterizers PROVE ~Spawn(r)
  BY <1>1 DEF Spawn
<1>8. ASSUME NEW r \in Rasterizers, NEW kind \in FrameKinds, BuildFrame(r, kind)
      PROVE  LoneTurns'
  BY <1>2, <1>8, BuildFrameLone
<1>9. CASE UNCHANGED vars
  <2>1. UNCHANGED <<merged, enabled, running, surface, view, rasterQ>>
    BY <1>9 DEF vars, mergerVars, engineVars
  <2>2. LoneSetups' /\ LoneTeardowns'
    BY <1>2, <2>1, QueueKept DEF LoneTurns, LoneSetups, LoneTeardowns, Platform, Raster
  <2>3. LoneWaits'
    BY <1>2, <2>1 DEF LoneTurns, LoneWaits, NoMerge, Platform, Raster
  <2> QED
    BY <2>2, <2>3 DEF LoneTurns
<1> QED
  BY <1>4, <1>5, <1>6, <1>7, <1>8, <1>9 DEF Next

LEMMA InitLoneTurns == Init => LoneInv
<1> SUFFICES ASSUME Init PROVE LoneTurns
  BY DEF LoneInv
<1>1. /\ Platform = Idle /\ Raster = Idle /\ rasterQ = <<>>
      /\ surface[First] = "never"
  BY MergerAssumption DEF Init, Threads, Platform, Raster
<1>2. ~SetupIn /\ ~TeardownIn /\ OneSetup /\ OneTeardown
  BY <1>1 DEF SetupIn, TeardownIn, OneSetup, OneTeardown, InQueue, Once
<1> QED
  BY <1>1, <1>2, IdleAt DEF LoneTurns, LoneSetups, LoneTeardowns, LoneWaits,
     Creating, Destroying

\* The platform thread of a lone engine never waits for a task of its own: while
\* it waits in OnPlatformViewDestroyed for the Teardown, the queues stay
\* separate, if a surface is taken away only after it was set up.
THEOREM LoneWaitsEnd ==
  ASSUME QuickRestart = FALSE
  PROVE  Spec => []LoneNeverWaitsForItself
<1> DEFINE Inv == IInv /\ Turns /\ Engines /\ LoneInv
<1>1. Init => Inv
  BY InitInv, InitTurns, InitEngines, InitLoneTurns
<1>2. Inv /\ [Next]_vars => Inv'
  BY StepInv, StepTurns, StepEngines, StepLoneTurns
<1>3. Inv => LoneNeverWaitsForItself
  BY DEF LoneInv, LoneTurns, LoneWaits, LoneNeverWaitsForItself,
     NeverWaitsForItself, Platform
<1> QED
  BY <1>1, <1>2, <1>3, PTL DEF Spec

-----------------------------------------------------------------------------
(* The Draw of a frame.                                                    *)

\* A thread that is going to consume a frame of r, or to post a Draw for one.
Drawing(t, r) ==
  /\ running[t].r = r /\ running[t].at \in DrawPlaces
  /\ running[t].at \in {"draw", "consume"} \/ running[t].more = "yes"

DrawWaits(r) == \E i \in 1..Len(rasterQ) : rasterQ[i] = Task("draw", r)

\* A frame in the pipeline is waited for by a Draw.
FrameHasDraw(r) ==
  frames[r] # <<>> => DrawWaits(r) \/ \E t \in Threads : Drawing(t, r)

Yields(t) == running[t].at = "draw" /\ running'[t] = Idle

LEMMA PostedWaits ==
  ASSUME TypeOK, NEW task \in Tasks, Post(task), NEW r
  PROVE  DrawWaits(r)' <=> DrawWaits(r) \/ task = Task("draw", r)
<1> DEFINE n == Len(rasterQ)
<1>1. /\ Len(rasterQ') = n + 1 /\ rasterQ'[n + 1] = task /\ n \in Nat
      /\ \A i \in 1..n : rasterQ'[i] = rasterQ[i]
  BY Posted
<1> HIDE DEF n
<1>2. 1..(n + 1) = (1..n) \cup {n + 1}
  BY <1>1
<1> QED
  BY <1>1, <1>2 DEF DrawWaits, n

LEMMA TakenWaits ==
  ASSUME TypeOK, rasterQ # <<>>, rasterQ' = Tail(rasterQ), NEW r, DrawWaits(r)
  PROVE  DrawWaits(r)' \/ Head(rasterQ) = Task("draw", r)
<1> DEFINE n == Len(rasterQ)
<1>1. /\ Len(rasterQ') = n - 1 /\ n \in Nat \ {0} /\ Head(rasterQ) = rasterQ[1]
      /\ \A i \in 1..(n - 1) : rasterQ'[i] = rasterQ[i + 1]
  BY Taken
<1>2. PICK i \in 1..n : rasterQ[i] = Task("draw", r)
  BY DEF DrawWaits
<1> HIDE DEF n
<1>3. i = 1 \/ (i - 1 \in 1..(n - 1) /\ (i - 1) + 1 = i)
  BY <1>1
<1> QED
  BY <1>1, <1>2, <1>3 DEF DrawWaits

\* A thread keeps the mark that another Draw is to be posted.
LEMMA MoreKept ==
  ASSUME TypeOK, NEW t \in Threads, NEW r, Drawing(t, r),
         running[t].at \notin {"draw", "consume"},
         \/ \E at \in DrawPlaces : Goto(t, at)
         \/ UNCHANGED running
         \/ Do(t, [running[t] EXCEPT !.at = "merge", !.again = "yes"])
         \/ Do(t, [running[t] EXCEPT !.at = "finish", !.more = "yes"])
         \/ \E a \in {"no", "yes"} :
              Do(t, [running[t] EXCEPT !.at = "decrement", !.again = a])
  PROVE  Drawing(t, r)'
<1>1. running[t] \in Works /\ running[t].r = r /\ running[t].more = "yes"
  BY DEF TypeOK, Drawing
<1>2. CASE \E at \in DrawPlaces : Goto(t, at)
  <2>1. PICK at \in DrawPlaces : Goto(t, at)
    BY <1>2
  <2>2. running'[t] = [running[t] EXCEPT !.at = at]
    BY <2>1 DEF TypeOK, Goto, Do
  <2> QED
    BY <1>1, <2>1, <2>2 DEF Works, Drawing
<1>3. CASE UNCHANGED running
  BY <1>3 DEF Drawing
<1>4. CASE Do(t, [running[t] EXCEPT !.at = "merge", !.again = "yes"])
  <2>1. running'[t] = [running[t] EXCEPT !.at = "merge", !.again = "yes"]
    BY <1>4 DEF TypeOK, Do
  <2> QED
    BY <1>1, <2>1 DEF Works, Drawing, DrawPlaces
<1>5. CASE Do(t, [running[t] EXCEPT !.at = "finish", !.more = "yes"])
  <2>1. running'[t] = [running[t] EXCEPT !.at = "finish", !.more = "yes"]
    BY <1>5 DEF TypeOK, Do
  <2> QED
    BY <1>1, <2>1 DEF Works, Drawing, DrawPlaces
<1>6. ASSUME NEW a \in {"no", "yes"},
             Do(t, [running[t] EXCEPT !.at = "decrement", !.again = a])
      PROVE  Drawing(t, r)'
  <2>1. running'[t] = [running[t] EXCEPT !.at = "decrement", !.again = a]
    BY <1>6 DEF TypeOK, Do
  <2> QED
    BY <1>1, <2>1 DEF Works, Drawing, DrawPlaces
<1> QED
  BY <1>2, <1>3, <1>4, <1>5, <1>6

\* The thread that has to draw a frame goes on to it, has posted another Draw,
\* or has consumed the last one.
LEMMA DrawingGoesOn ==
  ASSUME TypeOK, NEW t \in Threads, NEW r \in Rasterizers, DrawStep(t), ~Yields(t),
         Drawing(t, r)
  PROVE  Drawing(t, r)' \/ DrawWaits(r)' \/ frames'[r] = <<>>
<1>1. running[t] \in Works /\ running[t].r = r /\ frames[r] \in Seq(FrameKinds)
      /\ Task("draw", r) \in Tasks
  BY DEF TypeOK, Drawing, Task, Tasks
<1>2. CASE Draw(t)
  <2>1. Goto(t, "consume") \/ Do(t, Idle)
    BY <1>2 DEF Draw
  <2>2. Goto(t, "consume")
    BY <1>2, <2>1, IdleAt, DoKeeps DEF Draw, At, Yields
  <2> QED
    BY <1>1, <2>2, GotoKeeps DEF Drawing, DrawPlaces, Places
<1>3. CASE Consume(t)
  <2> DEFINE frame == Head(frames[r])
             more == IF Len(frames[r]) > 1 THEN "yes" ELSE "no"
             next == IF surface[r] # "set" THEN "finish"
                     ELSE IF frame = "views" THEN "preroll" ELSE "decrement"
             w == Work(next, r, frame, "no", more)
  <2>1. CASE frames[r] = <<>>
    BY <1>1, <1>3, <2>1 DEF Consume
  <2>2. CASE frames[r] # <<>> /\ ~(Len(frames[r]) > 1)
    <3>1. frames' = [frames EXCEPT ![r] = Tail(@)]
      BY <1>1, <1>3, <2>2 DEF Consume
    <3>2. frames'[r] = Tail(frames[r])
      BY <3>1 DEF TypeOK
    <3>3. Tail(frames[r]) = <<>>
      BY <1>1, <2>2, HeadTailProperties, LenProperties, EmptySeq
    <3> QED
      BY <3>2, <3>3
  <2>3. CASE frames[r] # <<>> /\ Len(frames[r]) > 1
    <3>1. frame \in FrameKinds
      BY <1>1, <2>3, HeadTailProperties
    <3>2. more = "yes" /\ next \in {"finish", "preroll", "decrement"}
      BY <2>3
    <3>3. Do(t, w)
      BY <1>1, <1>3, <2>3 DEF Consume
    <3> HIDE DEF next, more, frame
    <3>4. w \in Works /\ w.at = next /\ w.r = r /\ w.more = "yes"
      BY <1>1, <3>1, <3>2 DEF Work, Works, Places
    <3>5. running'[t] = w
      BY <3>3, <3>4, DoKeeps
    <3> QED
      BY <3>2, <3>4, <3>5 DEF Drawing, DrawPlaces
  <2> QED
    BY <2>1, <2>2, <2>3
<1>4. CASE Finish(t)
  <2>1. running[t].at = "finish" /\ running[t].more = "yes"
    BY <1>4 DEF Finish, At, Drawing
  <2>2. Post(Task("draw", r))
    BY <1>1, <1>4, <2>1 DEF Finish, DrawAgain
  <2> QED
    BY <1>1, <2>2, PostedWaits
<1>5. CASE PrerollMerged(t) \/ MergeWithLease(t) \/ RecordLease(t) \/ DecrementLease(t)
  <2>1. running[t].at \notin {"draw", "consume"}
    BY <1>5 DEF PrerollMerged, MergeWithLease, RecordLease, DecrementLease, At
  <2>2. \E at \in DrawPlaces : Goto(t, at)
    BY <1>5 DEF PrerollMerged, MergeWithLease, RecordLease, DecrementLease, DrawPlaces
  <2> QED
    BY <2>1, <2>2, MoreKept
<1>6. CASE MergeQueues(t) \/ DecrementShared(t) \/ PrerollSeparate(t)
  <2>1. running[t].at \notin {"draw", "consume"}
    BY <1>6 DEF MergeQueues, DecrementShared, PrerollSeparate, At
  <2>2. \/ \E at \in DrawPlaces : Goto(t, at)
        \/ UNCHANGED running
        \/ Do(t, [running[t] EXCEPT !.at = "merge", !.again = "yes"])
        \/ Do(t, [running[t] EXCEPT !.at = "finish", !.more = "yes"])
    BY <1>6 DEF MergeQueues, DecrementShared, PrerollSeparate, DrawPlaces
  <2> QED
    BY <2>1, <2>2, MoreKept
<1>7. CASE ExtendLeaseTo(t)
  <2> DEFINE a == IF shown[running[t].r] = "no" THEN "yes" ELSE "no"
  <2>1. Do(t, [running[t] EXCEPT !.at = "decrement", !.again = a])
    BY <1>7 DEF ExtendLeaseTo
  <2>2. a \in {"no", "yes"} /\ running[t].at \notin {"draw", "consume"}
    BY <1>7 DEF ExtendLeaseTo, At
  <2> HIDE DEF a
  <2> QED
    BY <2>1, <2>2, MoreKept
<1> QED
  BY <1>2, <1>3, <1>4, <1>5, <1>6, <1>7 DEF DrawStep

\* Steps that leave the pipeline of r and the threads that draw for it alone.
LEMMA KeepsDraw ==
  ASSUME TypeOK, NEW r, FrameHasDraw(r),
         frames[r] # <<>> \/ frames'[r] = <<>>,
         UNCHANGED rasterQ \/ \E task \in Tasks : Post(task),
         \A u \in Threads : Drawing(u, r) => Drawing(u, r)' \/ DrawWaits(r)'
  PROVE  FrameHasDraw(r)'
<1>1. DrawWaits(r) => DrawWaits(r)'
  BY PostedWaits DEF DrawWaits
<1> QED
  BY <1>1 DEF FrameHasDraw

LEMMA TakeTaskKeepsDraw ==
  ASSUME TypeOK, NEW r \in Rasterizers, FrameHasDraw(r), NEW t \in Threads, TakeTask(t)
  PROVE  FrameHasDraw(r)'
<1> DEFINE w == Start(Head(rasterQ).kind, Head(rasterQ).r)
<1>1. /\ rasterQ # <<>> /\ rasterQ' = Tail(rasterQ) /\ Do(t, w)
      /\ running[t] = Idle /\ UNCHANGED frames
  BY DEF TakeTask, engineVars
<1>2. Head(rasterQ) \in Tasks
  BY <1>1, HeadTailProperties DEF TypeOK
<1>3. w \in Works /\ w.at = Head(rasterQ).kind /\ w.r = Head(rasterQ).r
  BY <1>2, StartIsWork DEF Tasks, Places
<1> HIDE DEF w
<1>4. running'[t] = w /\ \A u \in Threads \ {t} : running'[u] = running[u]
  BY <1>1, <1>3, DoKeeps
<1>5. \A u \in Threads : Drawing(u, r) => Drawing(u, r)'
  BY <1>1, <1>4, IdleAt DEF Drawing, DrawPlaces
<1>6. Head(rasterQ) = Task("draw", r) => Drawing(t, r)'
  BY <1>3, <1>4 DEF Task, Drawing, DrawPlaces
<1>7. DrawWaits(r) => DrawWaits(r)' \/ Head(rasterQ) = Task("draw", r)
  BY <1>1, TakenWaits
<1> QED
  BY <1>1, <1>5, <1>6, <1>7 DEF FrameHasDraw

LEMMA DrawKeepsDraw ==
  ASSUME TypeOK, NEW r \in Rasterizers, FrameHasDraw(r), NEW t \in Threads, DrawStep(t),
         running[t].r = r => ~Yields(t)
  PROVE  FrameHasDraw(r)'
<1>1. /\ \A u \in Threads \ {t} : running'[u] = running[u]
      /\ UNCHANGED rasterQ \/ Post(Task("draw", running[t].r))
  BY DrawStays, DrawLeaves
<1>2. running[t].r \in Rasterizers /\ Task("draw", running[t].r) \in Tasks
  BY DEF TypeOK, Works, Task, Tasks
<1>3. \A u \in Threads : Drawing(u, r) => Drawing(u, r)' \/ DrawWaits(r)' \/ frames'[r] = <<>>
  <2>1. ASSUME NEW u \in Threads, Drawing(u, r), u # t PROVE Drawing(u, r)'
    BY <1>1, <2>1 DEF Drawing
  <2>2. Drawing(t, r) => Drawing(t, r)' \/ DrawWaits(r)' \/ frames'[r] = <<>>
    BY DrawingGoesOn DEF Drawing
  <2> QED
    BY <2>1, <2>2
<1>4. CASE frames'[r] = <<>>
  BY <1>4 DEF FrameHasDraw
<1>5. CASE frames[r] # <<>> /\ frames'[r] # <<>>
  BY <1>1, <1>2, <1>3, <1>5, KeepsDraw
<1>6. CASE frames[r] = <<>> /\ frames'[r] # <<>>
  <2>1. frames' # frames
    BY <1>6
  <2>2. Finish(t)
    <3>1. CASE Consume(t)
      <4>1. running[t].r # r
        BY <1>6, <3>1 DEF Consume, TypeOK
      <4>2. frames'[r] = frames[r]
        BY <3>1, <4>1 DEF Consume, TypeOK
      <4> QED
        BY <1>6, <4>2
    <3> QED
      BY <2>1, <3>1 DEF DrawStep, Draw, PrerollSeparate, PrerollMerged, MergeWithLease,
         MergeQueues, RecordLease, ExtendLeaseTo, DecrementLease, DecrementShared,
         engineVars
  <2>3. running[t].r = r /\ running[t].again = "yes"
    BY <1>6, <2>2 DEF Finish, TypeOK
  <2>4. Post(Task("draw", r))
    BY <1>6, <2>2, <2>3 DEF Finish, DrawAgain
  <2>5. DrawWaits(r)'
    BY <1>2, <2>3, <2>4, PostedWaits
  <2> QED
    BY <2>5 DEF FrameHasDraw
<1> QED
  BY <1>4, <1>5, <1>6

\* A frame of r has its Draw until a Draw of r yields.
LEMMA StepFrameHasDraw ==
  ASSUME TypeOK, NEW r \in Rasterizers, FrameHasDraw(r), [Next]_vars,
         \A t \in Threads : running[t].r = r => ~Yields(t)
  PROVE  FrameHasDraw(r)'
<1>1. ASSUME NEW t \in Threads,
             Setup(t) \/ Teardown(t) \/ TornDown(t) \/ UnMergeNowIfLastOne(t)
      PROVE  FrameHasDraw(r)'
  <2>1. UNCHANGED <<frames, rasterQ>> /\ running[t].at \notin DrawPlaces
    BY <1>1 DEF Setup, Teardown, TornDown, UnMergeNowIfLastOne, engineVars, At,
       DrawPlaces
  <2>2. Do(t, Idle) \/ Release(t) \/ \E at \in {"torn", "unmerge"} : Goto(t, at)
    BY <1>1 DEF Setup, Teardown, TornDown, UnMergeNowIfLastOne
  <2>3. \A u \in Threads \ {t} :
          running[u].at # "waits" => running'[u] = running[u]
    BY <2>2, DoKeeps, IdleAt, ReleaseKeeps, GotoKeeps DEF Places
  <2>4. \A u \in Threads : Drawing(u, r) => Drawing(u, r)'
    BY <2>1, <2>3 DEF Drawing, DrawPlaces
  <2> QED
    BY <2>1, <2>4, KeepsDraw
<1>2. CASE PlatformStep
  <2>1. UNCHANGED frames /\ running["platform"].at \notin DrawPlaces
    BY <1>2 DEF PlatformStep, RunOrPost, PostSetup, PostTeardown, engineVars, At,
       DrawPlaces
  <2>2. \A q \in Rasterizers, kind \in {"setup", "teardown"} : Task(kind, q) \in Tasks
    BY DEF Task, Tasks
  <2>3. running["platform"].r \in Rasterizers
    BY Types DEF Platform
  <2>4. UNCHANGED rasterQ \/ \E task \in Tasks : Post(task)
    BY <1>2, <2>2, <2>3 DEF PlatformStep, RunOrPost, PostSetup, PostTeardown
  <2>5. \E w : Do("platform", w)
    BY <1>2 DEF PlatformStep, RunOrPost, PostSetup, PostTeardown, Goto
  <2>6. \A u \in Threads : u # "platform" => running'[u] = running[u]
    BY <2>5 DEF Do, TypeOK
  <2>7. \A u \in Threads : Drawing(u, r) => Drawing(u, r)'
    BY <2>1, <2>6 DEF Drawing
  <2> QED
    BY <2>1, <2>4, <2>7, KeepsDraw
<1>3. ASSUME NEW q \in Rasterizers, OnPlatformViewCreated(q) \/ OnPlatformViewDestroyed(q)
      PROVE  FrameHasDraw(r)'
  <2>1. /\ running["platform"] = Idle /\ UNCHANGED <<frames, rasterQ>>
        /\ \E w : Do("platform", w)
    BY <1>3 DEF OnPlatformViewCreated, OnPlatformViewDestroyed, Begin
  <2>2. \A u \in Threads : u # "platform" => running'[u] = running[u]
    BY <2>1 DEF Do, TypeOK
  <2>3. \A u \in Threads : Drawing(u, r) => Drawing(u, r)'
    BY <2>1, <2>2, IdleAt DEF Drawing, DrawPlaces
  <2> QED
    BY <2>1, <2>3, KeepsDraw
<1>4. ASSUME NEW q \in Rasterizers, Spawn(q)
      PROVE  FrameHasDraw(r)'
  BY <1>4 DEF Spawn, FrameHasDraw, DrawWaits, Drawing
<1>5. ASSUME NEW q \in Rasterizers, NEW kind \in FrameKinds, BuildFrame(q, kind)
      PROVE  FrameHasDraw(r)'
  <2>1. /\ UNCHANGED running /\ Task("draw", q) \in Tasks
        /\ UNCHANGED rasterQ \/ Post(Task("draw", q))
        /\ frames' = [frames EXCEPT ![q] = Append(@, kind)]
    BY <1>5 DEF BuildFrame, Task, Tasks
  <2>2. CASE q # r \/ frames[r] # <<>>
    <3>1. frames[r] # <<>> \/ frames'[r] = <<>>
      BY <2>1, <2>2 DEF TypeOK
    <3> QED
      BY <2>1, <3>1, KeepsDraw DEF Drawing
  <2>3. CASE q = r /\ frames[r] = <<>>
    <3>1. Post(Task("draw", r))
      BY <1>5, <2>3 DEF BuildFrame
    <3> QED
      BY <2>1, <2>3, <3>1, PostedWaits DEF FrameHasDraw
  <2> QED
    BY <2>2, <2>3
<1>6. CASE UNCHANGED vars
  BY <1>6 DEF vars, engineVars, FrameHasDraw, DrawWaits, Drawing
<1>7. CASE \E t \in Threads : ThreadStep(t)
  <2>1. PICK t \in Threads : ThreadStep(t)
    BY <1>7
  <2> QED
    BY <1>1, <2>1, TakeTaskKeepsDraw, DrawKeepsDraw DEF ThreadStep, DrawStep
<1> QED
  BY <1>2, <1>3, <1>4, <1>5, <1>6, <1>7 DEF Next

\* A frame of a lone engine that is in the pipeline has a Draw that waits for its
\* turn or is under way, on either thread, through every merge, separation,
\* Setup and Teardown: what EveryFrameLeaves needs beside the fairness
\* (Rasterizer::Draw posts itself again while frames are left).
THEOREM LoneFrameHasDraw ==
  Spec => [](Lone => \A r \in Rasterizers : FrameHasDraw(r))
<1> DEFINE HasDraw == Lone => \A r \in Rasterizers : FrameHasDraw(r)
           Inv == IInv /\ Turns /\ Engines /\ HasDraw
<1>1. Init => Inv
  <2>1. Init => HasDraw
    BY DEF Init, FrameHasDraw
  <2> QED
    BY <2>1, InitInv, InitTurns, InitEngines
<1>2. ASSUME Inv, [Next]_vars PROVE HasDraw'
  <2> SUFFICES ASSUME Lone', NEW r \in Rasterizers
               PROVE  FrameHasDraw(r)'
    OBVIOUS
  <2>1. Lone /\ engines = {First}
    BY <1>2, LoneBefore
  <2>2. \A t \in Threads : running[t].r = First
    BY <1>2, <2>1 DEF Engines, Threads, Platform, Raster
  <2>3. \A t \in Threads : ~Yields(t)
    BY <1>2, <2>2, StepYieldsUnrecorded DEF YieldUnrecorded, Yields
  <2>4. TypeOK /\ FrameHasDraw(r)
    BY <1>2, <2>1 DEF IInv
  <2> QED
    BY <1>2, <2>3, <2>4, StepFrameHasDraw
<1>3. Inv /\ [Next]_vars => Inv'
  BY <1>2, StepInv, StepTurns, StepEngines
<1> QED
  BY <1>1, <1>3, PTL DEF Spec
=============================================================================
