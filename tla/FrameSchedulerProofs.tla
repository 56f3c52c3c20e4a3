------------------------ MODULE FrameSchedulerProofs -------------------------
(***************************************************************************)
(* Proofs about FrameScheduler: pointer packets reach Dart in order; one   *)
(* frame is on its way, no callback is forgotten, and the pauses of Dart's *)
(* tasks balance; every variable keeps its type; and what was asked for    *)
(* has what it waits for on its way.                                       *)
(***************************************************************************)
EXTENDS FrameScheduler, FiniteSetTheorems, TLAPS

\* A packet only waits behind one that is in progress; numbers are naturals.
PointerTypes ==
  /\ arrived \in Nat /\ delivered \in Nat /\ pending \in Nat
  /\ inProgress \in BOOLEAN

WaitsInProgress == pending # 0 => inProgress

\* The inductive invariant.
PInv == PointerTypes /\ WaitsInProgress /\ PacketsInOrder

LEMMA PointerInit == Init => PInv
<1> SUFFICES ASSUME Init PROVE PInv
  OBVIOUS
<1>1. arrived = 0 /\ delivered = 0 /\ pending = 0
  BY DEF Init
<1>2. inProgress \in BOOLEAN
  BY Zenon DEF Init
<1>3. arrived \in Nat /\ delivered \in Nat /\ pending \in Nat
  BY <1>1
<1>4. WaitsInProgress
  BY <1>1 DEF WaitsInProgress
<1>5. PacketsInOrder
  BY <1>1 DEF PacketsInOrder
<1> QED
  BY <1>2, <1>3, <1>4, <1>5 DEF PInv, PointerTypes

\* Only two actions touch the dispatcher.
LEMMA OthersLeavePointers ==
  ASSUME [Next]_vars, ~DispatchPacket, ~PointerCallback
  PROVE  UNCHANGED pointerVars
<1>1. CASE UNCHANGED vars
  BY <1>1 DEF vars
<1>2. CASE AwaitVSync \/ FlowCallback \/ DrawLastLayerTrees
  BY <1>2 DEF AwaitVSync, FlowCallback, DrawLastLayerTrees
<1>3. CASE BeginFrame \/ BeginFrameFull
  BY <1>3 DEF BeginFrame, BeginFrameFull
<1>4. CASE \E id \in {"flow", "pointer"} : ScheduleSecondaryCallback(id)
  BY <1>4 DEF ScheduleSecondaryCallback
<1>5. CASE RequestVsync \/ BuildFrame \/ EndFrame \/ ResumeDartEventLoopTasks
  BY <1>5 DEF RequestVsync, BuildFrame, EndFrame, ResumeDartEventLoopTasks
<1>6. CASE VsyncStep
  BY <1>6 DEF VsyncStep, Vsync, TakeCallbacks, PauseDartEventLoopTasks,
              PostCallback
<1>7. CASE Rasterize \/ ScheduleFrame \/ RenderWarmUp
  BY <1>7 DEF Rasterize, ScheduleFrame, RenderWarmUp
<1> QED
  BY <1>1, <1>2, <1>3, <1>4, <1>5, <1>6, <1>7
     DEF Next, StartTask, ContinueTask

LEMMA PointerStep == PInv /\ [Next]_vars => PInv'
<1> SUFFICES ASSUME PInv, [Next]_vars PROVE PInv'
  OBVIOUS
<1> USE DEF PInv, PointerTypes, WaitsInProgress, PacketsInOrder
<1>1. CASE DispatchPacket
  <2>1. CASE inProgress
    BY <1>1, <2>1 DEF DispatchPacket, FlushesPending
  <2>2. CASE ~inProgress
    BY <1>1, <2>2 DEF DispatchPacket
  <2> QED
    BY <2>1, <2>2
<1>2. CASE PointerCallback
  <2>1. CASE inProgress /\ pending # 0
    BY <1>2, <2>1 DEF PointerCallback
  <2>2. CASE ~(inProgress /\ pending # 0)
    BY <1>2, <2>2 DEF PointerCallback
  <2> QED
    BY <2>1, <2>2
<1>3. CASE ~DispatchPacket /\ ~PointerCallback
  BY <1>3, OthersLeavePointers DEF pointerVars
<1> QED
  BY <1>1, <1>2, <1>3

\* Packets reach Dart in the order they came and none is lost
\* (SmoothPointerDataDispatcher), for any number of packets and any
\* interleaving with frames and vsyncs.
THEOREM PacketsKeepOrder == Spec => []PacketsInOrder
<1>1. PInv => PacketsInOrder
  BY DEF PInv
<1> QED
  BY <1>1, PointerInit, PointerStep, PTL DEF Spec

-----------------------------------------------------------------------------
(* Counting the tasks of a queue.                                          *)

\* The number of occurrences of a task is additive.
LEMMA CountConcat ==
  ASSUME NEW S, NEW s \in Seq(S), NEW t \in Seq(S), NEW x
  PROVE  /\ Count(x, s) \in Nat /\ Count(x, t) \in Nat
         /\ Count(x, s \o t) = Count(x, s) + Count(x, t)
<1> DEFINE A == {i \in 1..Len(s) : s[i] = x}
           B == {i \in 1..Len(t) : t[i] = x}
           C == {i + Len(s) : i \in B}
           f == [i \in B |-> i + Len(s)]
<1>1. DOMAIN s = 1..Len(s) /\ DOMAIN t = 1..Len(t)
      /\ DOMAIN (s \o t) = 1..(Len(s) + Len(t)) /\ Len(s) \in Nat /\ Len(t) \in Nat
  OBVIOUS
<1>2. IsFiniteSet(A) /\ IsFiniteSet(B)
  <2>1. IsFiniteSet(1..Len(s)) /\ IsFiniteSet(1..Len(t))
    BY <1>1, FS_Interval
  <2>2. A \subseteq 1..Len(s) /\ B \subseteq 1..Len(t)
    OBVIOUS
  <2> HIDE DEF A, B
  <2> QED
    BY <2>1, <2>2, FS_Subset
<1>3. f \in Bijection(B, C)
  <2>1. f \in [B -> C] /\ \A c \in C : \E i \in B : f[i] = c
    OBVIOUS
  <2>2. \A i, j \in B : f[i] = f[j] => i = j
    BY <1>1
  <2> QED
    BY <2>1, <2>2 DEF Bijection, Injection, Surjection, IsInjective
<1>4. IsFiniteSet(C) /\ Cardinality(C) = Cardinality(B)
  <2>1. ExistsBijection(B, C)
    BY <1>3 DEF ExistsBijection
  <2> HIDE DEF B, C
  <2> QED
    BY <1>2, <2>1, FS_Bijection
<1>5. {i \in DOMAIN (s \o t) : (s \o t)[i] = x} = A \cup C
  <2>1. ASSUME NEW i \in 1..(Len(s) + Len(t)), (s \o t)[i] = x
        PROVE  i \in A \cup C
    <3>1. CASE i <= Len(s)
      BY <1>1, <2>1, <3>1
    <3>2. CASE i > Len(s)
      <4>1. i - Len(s) \in 1..Len(t) /\ (s \o t)[i] = t[i - Len(s)]
        BY <1>1, <3>2
      <4>2. i - Len(s) \in B /\ i = (i - Len(s)) + Len(s)
        BY <1>1, <2>1, <4>1
      <4> QED
        BY <4>2
    <3> QED
      BY <1>1, <3>1, <3>2
  <2>2. ASSUME NEW i \in A \cup C
        PROVE  i \in 1..(Len(s) + Len(t)) /\ (s \o t)[i] = x
    BY <1>1
  <2> QED
    BY <1>1, <2>1, <2>2
<1>6. A \cap C = {}
  BY <1>1
<1>7. Cardinality(A \cup C) = Cardinality(A) + Cardinality(C)
  <2> HIDE DEF A, B, C
  <2>1. Cardinality(A \cup C)
          = Cardinality(A) + Cardinality(C) - Cardinality(A \cap C)
    BY <1>2, <1>4, FS_Union
  <2>2. Cardinality(A) \in Nat /\ Cardinality(C) \in Nat
    BY <1>2, <1>4, FS_CardinalityType
  <2>3. Cardinality(A \cap C) = 0
    BY <1>6, FS_EmptySet
  <2> QED
    BY <2>1, <2>2, <2>3
<1>8. Cardinality(A) \in Nat /\ Cardinality(B) \in Nat
  BY <1>2, FS_CardinalityType
<1>9. Count(x, s) = Cardinality(A) /\ Count(x, t) = Cardinality(B)
  BY <1>1 DEF Count
<1>10. Count(x, s \o t) = Cardinality(A \cup C)
  BY <1>5 DEF Count
<1> HIDE DEF A, B, C
<1> QED
  BY <1>4, <1>7, <1>8, <1>9, <1>10

LEMMA CountOne ==
  ASSUME NEW x, NEW y
  PROVE  Count(x, <<y>>) = One(x = y) /\ Count(x, << >>) = 0
<1>1. DOMAIN <<y>> = {1} /\ <<y>>[1] = y /\ DOMAIN << >> = {}
  OBVIOUS
<1>2. {i \in DOMAIN <<y>> : <<y>>[i] = x} = IF x = y THEN {1} ELSE {}
  BY <1>1
<1>3. {i \in DOMAIN << >> : << >>[i] = x} = {}
  BY <1>1
<1> QED
  BY <1>2, <1>3, FS_EmptySet, FS_Singleton DEF Count, One

\* What posting a task, and taking one, does to the count.
LEMMA CountAppend ==
  ASSUME NEW S, NEW s \in Seq(S), NEW y \in S, NEW x
  PROVE  /\ Count(x, s) \in Nat
         /\ Count(x, Append(s, y)) = Count(x, s) + One(x = y)
<1>1. Append(s, y) = s \o <<y>> /\ <<y>> \in Seq(S)
  OBVIOUS
<1>2. /\ Count(x, s) \in Nat
      /\ Count(x, s \o <<y>>) = Count(x, s) + Count(x, <<y>>)
  BY <1>1, CountConcat
<1>3. Count(x, <<y>>) = One(x = y)
  BY CountOne
<1> QED
  BY <1>1, <1>2, <1>3

LEMMA CountTail ==
  ASSUME NEW S, NEW s \in Seq(S), s # << >>, NEW x
  PROVE  /\ Count(x, s) \in Nat /\ Count(x, Tail(s)) \in Nat
         /\ Count(x, Tail(s)) = Count(x, s) - One(x = Head(s))
<1>1. s = <<Head(s)>> \o Tail(s) /\ <<Head(s)>> \in Seq(S) /\ Tail(s) \in Seq(S)
  OBVIOUS
<1>2. Count(x, <<Head(s)>>) = One(x = Head(s))
  BY CountOne
<1>3. Count(x, s) = Count(x, <<Head(s)>>) + Count(x, Tail(s))
      /\ Count(x, Tail(s)) \in Nat /\ Count(x, <<Head(s)>>) \in Nat
  BY <1>1, CountConcat
<1> QED
  BY <1>2, <1>3

\* A task that is not of a set is not in a sequence over the set.
LEMMA CountNone ==
  ASSUME NEW S, NEW s \in Seq(S), NEW x, x \notin S
  PROVE  Count(x, s) = 0
<1>1. {i \in DOMAIN s : s[i] = x} = {}
  OBVIOUS
<1> QED
  BY <1>1, FS_EmptySet DEF Count

LEMMA CountSome ==
  ASSUME NEW S, NEW s \in Seq(S), NEW x
  PROVE  x \in Range(s) <=> Count(x, s) > 0
<1>1. IsFiniteSet(1..Len(s)) /\ DOMAIN s = 1..Len(s)
  BY FS_Interval
<1>2. IsFiniteSet({i \in DOMAIN s : s[i] = x})
  BY <1>1, FS_Subset
<1>3. Count(x, s) = 0 <=> {i \in DOMAIN s : s[i] = x} = {}
  BY <1>2, FS_EmptySet DEF Count
<1>4. Count(x, s) \in Nat
  BY <1>2, FS_CardinalityType DEF Count
<1>5. x \in Range(s) <=> {i \in DOMAIN s : s[i] = x} # {}
  BY DEF Range
<1> QED
  BY <1>3, <1>4, <1>5

-----------------------------------------------------------------------------
(* The pacing of frames.                                                   *)

TaskNames  == {"awaitVsync", "vsync", "flow", "pointer"}
FiredNames == {"take", "pause", "vsync", "flow", "pointer"}
UiNames    == {"build", "endFrame", "resume", "request", "flow", "pointer"}
Keys       == {"flow", "pointer"}

Typed ==
  /\ sem \in Nat /\ requested \in Nat /\ paused \in Int
  /\ callback \in BOOLEAN /\ secondary \subseteq Keys
  /\ tasks \in Seq(TaskNames) /\ fired \in Seq(FiredNames)
  /\ ui \in Seq(UiNames)

\* An answer of the platform is due exactly once while a callback waits.
OneRequest ==
  requested + Count("take", fired) + Count("request", ui)
    = One(callback \/ secondary # {})

\* What FireCallback does comes in this order.
FiredInOrder ==
  \/ fired = <<"take">>
  \/ \E rest \in Seq(Keys) :
       fired \in {<<"pause", "vsync">> \o rest, <<"vsync">> \o rest, rest}

\* While a vsync task is not over, no other one is on its way.
ResumesOnce ==
  /\ Count("resume", ui) \in {0, 1}
  /\ Count("resume", ui) = 1 => sem + Count("awaitVsync", tasks) = 1

\* The inductive invariant of the pacing.
Pacing ==
  /\ Typed /\ FiredInOrder
  /\ OneFrameOnItsWay /\ OneRequest /\ PauseBalance /\ ResumesOnce

LEMMA CountNat ==
  ASSUME NEW S, NEW s \in Seq(S), NEW x
  PROVE  Count(x, s) \in Nat
<1>1. << >> \in Seq(S)
  OBVIOUS
<1> QED
  BY <1>1, CountConcat

\* The counts are numbers.
LEMMA Counts ==
  ASSUME Typed, NEW x
  PROVE  Count(x, tasks) \in Nat /\ Count(x, fired) \in Nat /\ Count(x, ui) \in Nat
BY CountNat DEF Typed

\* The sequences of calls a UI task begins with.
Quiet == {<< >>, <<"endFrame">>, <<"pointer">>, <<"flow", "pointer">>,
          <<"flow", "pointer">> \o <<"pointer">>}
FrameCalls == <<"build", "endFrame", "resume">>

LEMMA QuietCounts ==
  ASSUME NEW s \in Quiet
  PROVE  /\ s \in Seq(UiNames)
         /\ Count("resume", s) = 0 /\ Count("request", s) = 0
<1> DEFINE N == {"endFrame", "flow", "pointer"}
<1>1. s \in Seq(N)
  <2>1. CASE s = << >>
    BY <2>1
  <2>2. CASE s = <<"endFrame">>
    BY <2>2
  <2>3. CASE s = <<"pointer">>
    BY <2>3
  <2>4. CASE s = <<"flow", "pointer">>
    BY <2>4
  <2>5. CASE s = <<"flow", "pointer">> \o <<"pointer">>
    BY <2>5
  <2> QED
    BY <2>1, <2>2, <2>3, <2>4, <2>5 DEF Quiet
<1>2. "resume" \notin N /\ "request" \notin N /\ N \subseteq UiNames
  BY DEF UiNames
<1> HIDE DEF N
<1>3. s \in Seq(UiNames)
  BY <1>1, <1>2
<1> QED
  BY <1>1, <1>2, <1>3, CountNone

LEMMA FrameCallsCounts ==
  /\ FrameCalls \in Seq(UiNames)
  /\ Count("resume", FrameCalls) = 1 /\ Count("request", FrameCalls) = 0
<1> DEFINE b == <<"build", "endFrame">>
           N == {"build", "endFrame"}
<1>1. FrameCalls = Append(b, "resume") /\ b \in Seq(N) /\ b \in Seq(UiNames)
      /\ FrameCalls \in Seq(UiNames) /\ "resume" \in UiNames
  BY DEF UiNames, FrameCalls
<1>2. "resume" \notin N /\ "request" \notin N
  OBVIOUS
<1> HIDE DEF b, N
<1>3. Count("resume", b) = 0 /\ Count("request", b) = 0
  BY <1>1, <1>2, CountNone
<1>4. /\ Count("resume", FrameCalls) = 0 + One("resume" = "resume")
      /\ Count("request", FrameCalls) = 0 + One("request" = "resume")
  BY <1>1, <1>3, CountAppend
<1> QED
  BY <1>1, <1>4 DEF One

LEMMA SingleCounts ==
  /\ Count("resume", <<"request">>) = 0 /\ Count("request", <<"request">>) = 1
  /\ Count("resume", <<"resume">>) = 1 /\ Count("request", <<"resume">>) = 0
BY CountOne DEF One

\* A request turns the semaphore into a posted task.
LEMMA RequestKeeps ==
  ASSUME NEW regen, NEW s \in Nat, NEW q \in Seq(TaskNames),
         RequestFrame(regen, s, q)
  PROVE  /\ sem' \in Nat /\ tasks' \in Seq(TaskNames)
         /\ sem' + Count("awaitVsync", tasks') = s + Count("awaitVsync", q)
         /\ Count("vsync", tasks') = Count("vsync", q)
<1>1. Count("awaitVsync", q) \in Nat /\ Count("vsync", q) \in Nat
  BY CountNat
<1>2. CASE s > 0
  <2>1. sem' = s - 1 /\ tasks' = Append(q, "awaitVsync")
    BY <1>2 DEF RequestFrame
  <2>2. Count("awaitVsync", tasks') = Count("awaitVsync", q) + 1
        /\ Count("vsync", tasks') = Count("vsync", q) + 0
    BY <2>1, CountAppend DEF One, TaskNames
  <2>3. tasks' \in Seq(TaskNames)
    BY <2>1 DEF TaskNames
  <2> QED
    BY <1>1, <1>2, <2>1, <2>2, <2>3
<1>3. CASE ~(s > 0)
  BY <1>1, <1>3 DEF RequestFrame
<1> QED
  BY <1>2, <1>3

\* A task begins: it leaves the queue, and nothing else was running.
LEMMA StartsKeeps ==
  ASSUME Typed, NEW task, Starts(task)
  PROVE  /\ ui = << >> /\ tasks # << >> /\ Tail(tasks) \in Seq(TaskNames)
         /\ \A x : Count(x, Tail(tasks)) = Count(x, tasks) - One(x = task)
         /\ Count(task, tasks) > 0
<1>1. ui = << >> /\ tasks # << >> /\ Head(tasks) = task
  BY DEF Starts, Idle
<1>2. \A x : Count(x, Tail(tasks)) = Count(x, tasks) - One(x = task)
             /\ Count(x, Tail(tasks)) \in Nat /\ Count(x, tasks) \in Nat
  BY <1>1, CountTail DEF Typed
<1>3. Tail(tasks) \in Seq(TaskNames)
  BY <1>1 DEF Typed
<1>4. Count(task, Tail(tasks)) = Count(task, tasks) - 1
  BY <1>2 DEF One
<1> QED
  BY <1>1, <1>2, <1>3, <1>4

\* A task goes on: one of its calls is done.
LEMMA DoingKeeps ==
  ASSUME Typed, NEW op, Doing(op)
  PROVE  /\ ui # << >> /\ Tail(ui) \in Seq(UiNames)
         /\ \A x : Count(x, Tail(ui)) = Count(x, ui) - One(x = op)
<1>1. ui # << >> /\ Head(ui) = op
  BY DEF Doing
<1> QED
  BY <1>1, CountTail DEF Typed

\* What the steps of the UI thread do not touch.
LEMMA FiredStays ==
  ASSUME FiredInOrder, fired' = fired
  PROVE  FiredInOrder'
BY DEF FiredInOrder

LEMMA ScheduleFramePacing ==
  ASSUME Pacing, ScheduleFrame
  PROVE  Pacing'
<1>1. /\ ui = << >> /\ UNCHANGED <<callback, secondary, requested, fired, paused, ui>>
      /\ \E regen : RequestFrame(regen, sem, tasks)
  BY DEF ScheduleFrame, waiterVars, Idle
<1>2. /\ sem' \in Nat /\ tasks' \in Seq(TaskNames)
      /\ sem' + Count("awaitVsync", tasks') = sem + Count("awaitVsync", tasks)
      /\ Count("vsync", tasks') = Count("vsync", tasks)
  BY <1>1, RequestKeeps DEF Pacing, Typed
<1>3. \A x : Count(x, tasks) \in Nat /\ Count(x, fired) \in Nat /\ Count(x, ui) \in Nat
  BY Counts DEF Pacing
<1>4. Count("awaitVsync", tasks') \in Nat /\ Count("vsync", tasks') \in Nat
  BY <1>2, CountNat
<1>5. Typed' /\ FiredInOrder'
  BY <1>1, <1>2, FiredStays DEF Pacing, Typed
<1>6. OneFrameOnItsWay'
  BY <1>1, <1>2, <1>3, <1>4 DEF Pacing, OneFrameOnItsWay, InFlight, One
<1>7. OneRequest' /\ PauseBalance' /\ ResumesOnce'
  BY <1>1, <1>2, <1>3, <1>4 DEF Pacing, OneRequest, PauseBalance, ResumesOnce, InFlight
<1> QED
  BY <1>5, <1>6, <1>7 DEF Pacing

LEMMA AwaitVSyncPacing ==
  ASSUME Pacing, AwaitVSync
  PROVE  Pacing'
<1>1. /\ Starts("awaitVsync") /\ tasks' = Tail(tasks) /\ callback' = TRUE
      /\ UNCHANGED <<sem, secondary, requested, fired, paused>>
      /\ ui' = IF ~callback /\ secondary = {} THEN <<"request">> ELSE << >>
  BY DEF AwaitVSync, CallbackNeedsRequest, animatorVars
<1>2. /\ ui = << >> /\ Tail(tasks) \in Seq(TaskNames)
      /\ Count("awaitVsync", tasks') = Count("awaitVsync", tasks) - 1
      /\ Count("vsync", tasks') = Count("vsync", tasks)
      /\ Count("awaitVsync", tasks) > 0
  <2>1. /\ Count("awaitVsync", tasks') = Count("awaitVsync", tasks) - One("awaitVsync" = "awaitVsync")
        /\ Count("vsync", tasks') = Count("vsync", tasks) - One("vsync" = "awaitVsync")
    BY <1>1, StartsKeeps DEF Pacing
  <2>2. Count("vsync", tasks) \in Nat
    BY Counts DEF Pacing
  <2> QED
    BY <1>1, <2>1, <2>2, StartsKeeps DEF Pacing, One
<1>3. \A x : Count(x, tasks) \in Nat /\ Count(x, fired) \in Nat /\ Count(x, ui) \in Nat
  BY Counts DEF Pacing
<1>4. callback = FALSE
  BY <1>2, <1>3 DEF Pacing, Typed, OneFrameOnItsWay, InFlight, One
<1>5. /\ ui' \in Seq(UiNames) /\ Count("resume", ui) = 0 /\ Count("resume", ui') = 0
      /\ Count("request", ui) = 0
      /\ Count("request", ui') = IF secondary = {} THEN 1 ELSE 0
  <2>1. /\ << >> \in Quiet /\ <<"request">> \in Seq(UiNames)
    BY DEF Quiet, UiNames
  <2>2. << >> \in Seq(UiNames) /\ Count("resume", << >>) = 0 /\ Count("request", << >>) = 0
    BY <2>1, QuietCounts
  <2>3. CASE secondary = {}
    <3>1. ui' = <<"request">>
      BY <1>1, <1>4, <2>3
    <3> QED
      BY <1>2, <2>1, <2>2, <2>3, <3>1, SingleCounts
  <2>4. CASE secondary # {}
    <3>1. ui' = << >>
      BY <1>1, <2>4
    <3> QED
      BY <1>2, <2>2, <2>4, <3>1
  <2> QED
    BY <2>3, <2>4
<1>6. Typed' /\ FiredInOrder'
  BY <1>1, <1>2, <1>5, FiredStays DEF Pacing, Typed
<1>7. OneFrameOnItsWay'
  <2>1. One(callback) = 0 /\ One(callback') = 1
    BY <1>1, <1>4 DEF One
  <2>2. InFlight("vsync")' = InFlight("vsync") /\ InFlight("vsync") \in Nat
    BY <1>1, <1>2, <1>3 DEF InFlight
  <2> QED
    BY <1>1, <1>2, <1>3, <2>1, <2>2 DEF Pacing, OneFrameOnItsWay, Typed
<1>8. OneRequest'
  BY <1>1, <1>3, <1>4, <1>5, SMTT(30) DEF Pacing, OneRequest, One, Typed
<1>9. PauseBalance'
  BY <1>1, <1>2, <1>5 DEF Pacing, PauseBalance, InFlight
<1>10. ResumesOnce'
  BY <1>5 DEF ResumesOnce
<1> QED
  BY <1>6, <1>7, <1>8, <1>9, <1>10 DEF Pacing

LEMMA SecondaryPacing ==
  ASSUME Pacing, NEW id \in Keys, ScheduleSecondaryCallback(id)
  PROVE  Pacing'
<1>1. /\ Doing(id) /\ secondary' = secondary \cup {id}
      /\ UNCHANGED <<sem, callback, requested, fired, paused, tasks>>
      /\ ui' = IF secondary = {} /\ ~callback THEN <<"request">> \o Tail(ui) ELSE Tail(ui)
  BY DEF ScheduleSecondaryCallback, animatorVars
<1>2. /\ Tail(ui) \in Seq(UiNames)
      /\ Count("resume", Tail(ui)) = Count("resume", ui) - One("resume" = id)
      /\ Count("request", Tail(ui)) = Count("request", ui) - One("request" = id)
  BY <1>1, DoingKeeps DEF Pacing
<1>3. id # "resume" /\ id # "request"
  BY DEF Keys
<1>4. \A x : Count(x, tasks) \in Nat /\ Count(x, fired) \in Nat /\ Count(x, ui) \in Nat
  BY Counts DEF Pacing
<1>5. <<"request">> \in Seq(UiNames)
  BY DEF UiNames
<1>6. /\ Count("resume", <<"request">> \o Tail(ui)) = 0 + Count("resume", Tail(ui))
      /\ Count("request", <<"request">> \o Tail(ui)) = 1 + Count("request", Tail(ui))
  <2>1. \A x : Count(x, <<"request">> \o Tail(ui))
               = Count(x, <<"request">>) + Count(x, Tail(ui))
    BY <1>2, <1>5, CountConcat
  <2> QED
    BY <2>1, SingleCounts
<1>7. /\ ui' \in Seq(UiNames) /\ Count("resume", ui') = Count("resume", ui)
      /\ Count("request", ui') = Count("request", ui)
           + (IF secondary = {} /\ ~callback THEN 1 ELSE 0)
  BY <1>1, <1>2, <1>3, <1>4, <1>5, <1>6 DEF One
<1>8. Typed' /\ FiredInOrder'
  BY <1>1, <1>7, FiredStays DEF Pacing, Typed
<1>9. OneFrameOnItsWay' /\ PauseBalance' /\ ResumesOnce'
  BY <1>1, <1>7 DEF Pacing, OneFrameOnItsWay, PauseBalance, ResumesOnce, InFlight
<1>10. OneRequest'
  <2>1. secondary' # {}
    BY <1>1
  <2> QED
    BY <1>1, <1>4, <1>7, <2>1, SMTT(20) DEF Pacing, OneRequest, One, Typed
<1> QED
  BY <1>8, <1>9, <1>10 DEF Pacing

LEMMA RequestVsyncPacing ==
  ASSUME Pacing, RequestVsync
  PROVE  Pacing'
<1>1. /\ Doing("request") /\ requested' = requested + 1 /\ ui' = Tail(ui)
      /\ UNCHANGED <<sem, callback, secondary, fired, paused, tasks>>
  BY DEF RequestVsync, animatorVars
<1>2. /\ ui' \in Seq(UiNames)
      /\ Count("resume", ui') = Count("resume", ui) - One("resume" = "request")
      /\ Count("request", ui') = Count("request", ui) - One("request" = "request")
  BY <1>1, DoingKeeps DEF Pacing
<1>3. \A x : Count(x, tasks) \in Nat /\ Count(x, fired) \in Nat /\ Count(x, ui) \in Nat
  BY Counts DEF Pacing
<1>4. /\ Count("resume", ui') = Count("resume", ui)
      /\ Count("request", ui') = Count("request", ui) - 1
  BY <1>2, <1>3 DEF One
<1>5. Typed' /\ FiredInOrder'
  BY <1>1, <1>2, FiredStays DEF Pacing, Typed
<1>6. OneFrameOnItsWay' /\ PauseBalance' /\ ResumesOnce'
  BY <1>1, <1>4 DEF Pacing, OneFrameOnItsWay, PauseBalance, ResumesOnce, InFlight
<1>7. OneRequest'
  BY <1>1, <1>3, <1>4, SMTT(20) DEF Pacing, OneRequest, Typed
<1> QED
  BY <1>5, <1>6, <1>7 DEF Pacing

\* What FireCallback still has to do, counted.
LEMMA FiredCounts ==
  ASSUME NEW rest \in Seq(Keys)
  PROVE  /\ rest \in Seq(FiredNames) /\ <<"vsync">> \o rest \in Seq(FiredNames)
         /\ <<"pause", "vsync">> \o rest = <<"pause">> \o (<<"vsync">> \o rest)
         /\ <<"pause", "vsync">> \o rest \in Seq(FiredNames)
         /\ \A x \in {"take", "pause", "vsync"} : Count(x, rest) = 0
         /\ \A x \in {"take", "pause", "vsync"} :
              Count(x, <<"vsync">> \o rest) = One(x = "vsync")
         /\ \A x \in {"take", "pause", "vsync"} :
              Count(x, <<"pause", "vsync">> \o rest)
                = One(x = "pause") + One(x = "vsync")
<1>1. Keys \subseteq FiredNames /\ \A x \in {"take", "pause", "vsync"} : x \notin Keys
  BY DEF Keys, FiredNames
<1>2. rest \in Seq(FiredNames) /\ <<"vsync">> \in Seq(FiredNames)
      /\ <<"pause">> \in Seq(FiredNames)
  <2>1. "vsync" \in FiredNames /\ "pause" \in FiredNames
    BY DEF FiredNames
  <2> QED
    BY <1>1, <2>1
<1>3. /\ <<"vsync">> \o rest \in Seq(FiredNames)
      /\ <<"pause", "vsync">> \o rest = <<"pause">> \o (<<"vsync">> \o rest)
  BY <1>2
<1>4. \A x \in {"take", "pause", "vsync"} : Count(x, rest) = 0
  BY <1>1, CountNone
<1>5. ASSUME NEW x \in {"take", "pause", "vsync"}
      PROVE  Count(x, <<"vsync">> \o rest) = One(x = "vsync")
  <2>1. Count(x, <<"vsync">> \o rest) = Count(x, <<"vsync">>) + Count(x, rest)
        /\ Count(x, <<"vsync">>) \in Nat
    BY <1>2, CountConcat
  <2> QED
    BY <1>4, <2>1, CountOne
<1>6. ASSUME NEW x \in {"take", "pause", "vsync"}
      PROVE  Count(x, <<"pause", "vsync">> \o rest) = One(x = "pause") + One(x = "vsync")
  <2>1. Count(x, <<"pause">> \o (<<"vsync">> \o rest))
          = Count(x, <<"pause">>) + Count(x, <<"vsync">> \o rest)
    BY <1>2, <1>3, CountConcat
  <2>2. Count(x, <<"pause">>) = One(x = "pause")
    BY CountOne
  <2> QED
    BY <1>3, <1>5, <2>1, <2>2
<1>7. <<"pause", "vsync">> \o rest \in Seq(FiredNames)
  BY <1>2, <1>3
<1> QED
  BY <1>2, <1>3, <1>4, <1>5, <1>6, <1>7

\* Whether the pause is still to come.
LEMMA PauseCounts ==
  ASSUME NEW s \in Seq(FiredNames)
  PROVE  "pause" \in Range(s) <=> Count("pause", s) > 0
BY CountSome

LEMMA VsyncPacing ==
  ASSUME Pacing, Vsync
  PROVE  Pacing'
<1>1. /\ requested > 0 /\ requested' = requested - 1
      /\ fired = << >> /\ fired' = <<"take">>
      /\ UNCHANGED <<sem, callback, secondary, paused, tasks, ui>>
  BY DEF Vsync, animatorVars
<1>2. \A x : Count(x, tasks) \in Nat /\ Count(x, fired) \in Nat /\ Count(x, ui) \in Nat
  BY Counts DEF Pacing
<1>3. /\ \A x : Count(x, fired) = 0 /\ Count(x, fired') = One(x = "take")
      /\ fired' \in Seq(FiredNames)
  BY <1>1, CountOne DEF FiredNames
<1>4. Count("take", fired') = 1 /\ Count("vsync", fired') = 0 /\ Count("pause", fired') = 0
  BY <1>3 DEF One
<1>5. "pause" \notin Range(fired) /\ "pause" \notin Range(fired')
  BY <1>3, <1>4, PauseCounts DEF Pacing, Typed
<1>6. Typed' /\ FiredInOrder'
  BY <1>1, <1>3 DEF Pacing, Typed, FiredInOrder
<1>7. OneFrameOnItsWay'
  BY <1>1, <1>2, <1>3, <1>4 DEF Pacing, OneFrameOnItsWay, InFlight
<1>8. OneRequest'
  BY <1>1, <1>2, <1>3, <1>4 DEF Pacing, OneRequest, Typed
<1>9. PauseBalance' /\ ResumesOnce'
  BY <1>1, <1>2, <1>3, <1>4, <1>5 DEF Pacing, PauseBalance, ResumesOnce, InFlight
<1> QED
  BY <1>6, <1>7, <1>8, <1>9 DEF Pacing

LEMMA TakePacing ==
  ASSUME Pacing, TakeCallbacks
  PROVE  Pacing'
<1>1. PICK order \in [1..Cardinality(secondary) -> secondary] :
        fired' = (IF callback THEN <<"pause", "vsync">> ELSE << >>) \o order
  BY DEF TakeCallbacks
<1>2. /\ fired = <<"take">> /\ callback' = FALSE /\ secondary' = {}
      /\ UNCHANGED <<sem, requested, paused, tasks, ui>>
  BY DEF TakeCallbacks, animatorVars
<1>3. order \in Seq(Keys)
  <2>1. Keys = {"flow"} \cup {"pointer"}
    BY DEF Keys
  <2>2. IsFiniteSet({"flow"} \cup {"pointer"})
    BY FS_Singleton, FS_Union
  <2>3. IsFiniteSet(secondary)
    BY <2>1, <2>2, FS_Subset DEF Pacing, Typed
  <2>4. Cardinality(secondary) \in Nat
    BY <2>3, FS_CardinalityType
  <2> QED
    BY <2>4, SMTT(20) DEF Pacing, Typed
<1>4. \A x : Count(x, tasks) \in Nat /\ Count(x, fired) \in Nat /\ Count(x, ui) \in Nat
  BY Counts DEF Pacing
<1>5. /\ Count("take", fired) = 1 /\ Count("vsync", fired) = 0
      /\ Count("pause", fired) = 0
  BY <1>2, CountOne DEF One
<1>6. "pause" \notin Range(fired)
  BY <1>5, PauseCounts DEF Pacing, Typed
<1>9. /\ Count("vsync", tasks) \in Nat /\ Count("awaitVsync", tasks) \in Nat
      /\ Count("request", ui) \in Nat /\ Count("resume", ui) \in Nat
  BY <1>4
<1>7. CASE callback
  <2>1. fired' = <<"pause", "vsync">> \o order
    BY <1>1, <1>7
  <2>2. fired' \in Seq(FiredNames) /\ Count("take", fired') = 0
        /\ Count("vsync", fired') = 1 /\ Count("pause", fired') = 1
    BY <1>3, <2>1, FiredCounts DEF One
  <2>3. "pause" \in Range(fired')
    BY <2>2, PauseCounts
  <2>4. Typed' /\ FiredInOrder'
    BY <1>2, <1>3, <2>1, <2>2 DEF Pacing, Typed, FiredInOrder
  <2>5. One(callback) = 1 /\ One(callback') = 0
    BY <1>2, <1>7 DEF One
  <2>6. OneFrameOnItsWay' /\ Count("vsync", tasks) = 0
    BY <1>2, <1>9, <1>5, <2>2, <2>5 DEF Pacing, OneFrameOnItsWay, InFlight, Typed
  <2>7. One(callback \/ secondary # {}) = 1 /\ One(callback \/ secondary # {})' = 0
    BY <1>2, <1>7 DEF One
  <2>8. OneRequest'
    BY <1>2, <1>9, <1>5, <2>2, <2>7 DEF Pacing, OneRequest, Typed
  <2>9. PauseBalance' /\ ResumesOnce'
    <3>1. Count("resume", ui') = Count("resume", ui)
          /\ Count("awaitVsync", tasks') = Count("awaitVsync", tasks)
      BY <1>2
    <3>2. paused = Count("resume", ui)
      BY <1>5, <1>6, <1>9, <2>6 DEF Pacing, PauseBalance, InFlight
    <3>3. PauseBalance'
      BY <1>2, <1>9, <2>3, <3>1, <3>2 DEF PauseBalance
    <3> QED
      BY <1>2, <3>1, <3>3 DEF Pacing, ResumesOnce
  <2> QED
    BY <2>4, <2>6, <2>8, <2>9 DEF Pacing
<1>8. CASE ~callback
  <2>1. fired' = order
    BY <1>1, <1>3, <1>8
  <2>2. fired' \in Seq(FiredNames) /\ Count("take", fired') = 0
        /\ Count("vsync", fired') = 0 /\ Count("pause", fired') = 0
    BY <1>3, <2>1, FiredCounts
  <2>3. "pause" \notin Range(fired')
    BY <2>2, PauseCounts
  <2>4. Typed' /\ FiredInOrder'
    BY <1>2, <1>3, <2>1, <2>2 DEF Pacing, Typed, FiredInOrder
  <2>5. One(callback) = 0 /\ One(callback') = 0
    BY <1>2, <1>8 DEF One
  <2>6. OneFrameOnItsWay'
    BY <1>2, <1>9, <1>5, <2>2, <2>5 DEF Pacing, OneFrameOnItsWay, InFlight, Typed
  <2>7. One(callback \/ secondary # {}) \in {0, 1} /\ One(callback \/ secondary # {})' = 0
    BY <1>2 DEF One
  <2>8. OneRequest'
    BY <1>2, <1>9, <1>5, <2>2, <2>7 DEF Pacing, OneRequest, Typed
  <2>9. PauseBalance' /\ ResumesOnce'
    BY <1>2, <1>9, <1>5, <1>6, <2>2, <2>3 DEF Pacing, PauseBalance, ResumesOnce, InFlight
  <2> QED
    BY <2>4, <2>6, <2>8, <2>9 DEF Pacing
<1> QED
  BY <1>7, <1>8

LEMMA PausePacing ==
  ASSUME Pacing, PauseDartEventLoopTasks
  PROVE  Pacing'
<1>1. /\ fired # << >> /\ Head(fired) = "pause"
      /\ paused' = paused + 1 /\ fired' = Tail(fired)
      /\ UNCHANGED <<sem, callback, secondary, requested, tasks, ui>>
  BY DEF PauseDartEventLoopTasks, animatorVars
<1>2. PICK rest \in Seq(Keys) : fired = <<"pause", "vsync">> \o rest
  <2>1. ASSUME NEW rest \in Seq(Keys), fired \in {<<"vsync">> \o rest, rest}
        PROVE  FALSE
    BY <1>1, <2>1 DEF Keys
  <2>2. fired # <<"take">>
    BY <1>1
  <2> QED
    BY <2>1, <2>2 DEF Pacing, FiredInOrder
<1>3. fired' = <<"vsync">> \o rest
  BY <1>1, <1>2
<1>4. \A x : Count(x, tasks) \in Nat /\ Count(x, fired) \in Nat /\ Count(x, ui) \in Nat
  BY Counts DEF Pacing
<1>5. /\ fired' \in Seq(FiredNames)
      /\ Count("take", fired) = 0 /\ Count("take", fired') = 0
      /\ Count("vsync", fired) = 1 /\ Count("vsync", fired') = 1
      /\ Count("pause", fired) = 1 /\ Count("pause", fired') = 0
  BY <1>2, <1>3, FiredCounts DEF One
<1>6. "pause" \in Range(fired) /\ "pause" \notin Range(fired')
  BY <1>5, PauseCounts DEF Pacing, Typed
<1>7. Typed' /\ FiredInOrder'
  <2>1. FiredInOrder'
    BY <1>3 DEF FiredInOrder
  <2>2. paused' \in Int
    BY <1>1 DEF Pacing, Typed
  <2> QED
    BY <1>1, <1>5, <2>1, <2>2 DEF Pacing, Typed
<1>8. OneFrameOnItsWay' /\ Count("vsync", tasks) = 0
  <2>1. One(callback) \in {0, 1}
    BY DEF One
  <2>2. Count("vsync", tasks) \in Nat /\ Count("awaitVsync", tasks) \in Nat
    BY <1>4
  <2> QED
    BY <1>1, <1>5, <2>1, <2>2 DEF Pacing, OneFrameOnItsWay, InFlight, Typed
<1>9. OneRequest'
  BY <1>1, <1>4, <1>5 DEF Pacing, OneRequest, Typed
<1>10. PauseBalance' /\ ResumesOnce'
  BY <1>1, <1>4, <1>5, <1>6, <1>8 DEF Pacing, PauseBalance, ResumesOnce, InFlight
<1> QED
  BY <1>7, <1>8, <1>9, <1>10 DEF Pacing

LEMMA PostPacing ==
  ASSUME Pacing, PostCallback
  PROVE  Pacing'
<1>1. /\ fired # << >> /\ Head(fired) \notin {"take", "pause"}
      /\ tasks' = Append(tasks, Head(fired)) /\ fired' = Tail(fired)
      /\ UNCHANGED <<sem, callback, secondary, requested, paused, ui>>
  BY DEF PostCallback, animatorVars
<1>2. PICK rest \in Seq(Keys) : fired = <<"vsync">> \o rest \/ fired = rest
  <2>1. ASSUME NEW rest \in Seq(Keys), fired = <<"pause", "vsync">> \o rest
        PROVE  FALSE
    <3>1. fired[1] = "pause"
      BY <2>1
    <3> QED
      BY <1>1, <2>1, <3>1
  <2>2. fired # <<"take">>
    BY <1>1
  <2> QED
    BY <2>1, <2>2 DEF Pacing, FiredInOrder
<1>3. \A x : Count(x, tasks) \in Nat /\ Count(x, fired) \in Nat /\ Count(x, ui) \in Nat
  BY Counts DEF Pacing
<1>4. /\ Head(fired) \in TaskNames /\ tasks' \in Seq(TaskNames)
      /\ fired' \in Seq(Keys) /\ fired' \in Seq(FiredNames)
      /\ Head(fired) # "awaitVsync"
  <2>1. Head(fired) \in FiredNames
    BY <1>1 DEF Pacing, Typed
  <2>2. Head(fired) \in {"vsync", "flow", "pointer"}
    BY <1>1, <2>1 DEF FiredNames
  <2>3. fired' \in Seq(Keys)
    <3>1. CASE fired = <<"vsync">> \o rest
      <4>1. Tail(<<"vsync">> \o rest) = rest
        OBVIOUS
      <4> QED
        BY <1>1, <3>1, <4>1
    <3>2. CASE fired = rest
      BY <1>1, <3>2
    <3> QED
      BY <1>2, <3>1, <3>2
  <2> QED
    BY <1>1, <2>2, <2>3, FiredCounts DEF Pacing, Typed, TaskNames
<1>5. \A x : /\ Count(x, fired') = Count(x, fired) - One(x = Head(fired))
             /\ Count(x, tasks') = Count(x, tasks) + One(x = Head(fired))
  BY <1>1, <1>4, CountTail, CountAppend DEF Pacing, Typed
<1>6. /\ Count("take", fired') = 0 /\ Count("take", fired) = 0
      /\ Count("pause", fired') = 0 /\ Count("pause", fired) = 0
      /\ Count("awaitVsync", tasks') = Count("awaitVsync", tasks)
  <2>1. Count("take", fired) = 0 /\ Count("pause", fired) = 0
    BY <1>2, FiredCounts DEF One
  <2>2. Count("take", fired') = 0 /\ Count("pause", fired') = 0
    BY <1>4, FiredCounts
  <2>3. One("awaitVsync" = Head(fired)) = 0
    BY <1>4 DEF One
  <2> QED
    BY <1>3, <1>5, <2>1, <2>2, <2>3
<1>7. InFlight("vsync")' = InFlight("vsync")
  <2>1. One("vsync" = Head(fired)) \in {0, 1}
    BY DEF One
  <2> QED
    BY <1>3, <1>5, <2>1 DEF InFlight
<1>8. "pause" \notin Range(fired) /\ "pause" \notin Range(fired')
  BY <1>4, <1>6, PauseCounts DEF Pacing, Typed
<1>9. Typed' /\ FiredInOrder'
  BY <1>1, <1>4 DEF Pacing, Typed, FiredInOrder
<1>10. OneFrameOnItsWay' /\ OneRequest'
  BY <1>1, <1>6, <1>7 DEF Pacing, OneFrameOnItsWay, OneRequest
<1>11. PauseBalance' /\ ResumesOnce'
  BY <1>1, <1>6, <1>7, <1>8 DEF Pacing, PauseBalance, ResumesOnce
<1> QED
  BY <1>9, <1>10, <1>11 DEF Pacing

\* A vsync task that starts is the only one, and Dart's tasks are paused.
LEMMA VsyncStarts ==
  ASSUME Pacing, Starts("vsync")
  PROVE  /\ sem = 0 /\ callback = FALSE /\ ui = << >> /\ paused = 1
         /\ Count("awaitVsync", tasks) = 0 /\ Count("vsync", fired) = 0
         /\ "pause" \notin Range(fired)
         /\ Count("resume", ui) = 0 /\ Count("request", ui) = 0
         /\ Tail(tasks) \in Seq(TaskNames)
         /\ Count("awaitVsync", Tail(tasks)) = 0 /\ Count("vsync", Tail(tasks)) = 0
<1>1. /\ ui = << >> /\ Tail(tasks) \in Seq(TaskNames)
      /\ Count("awaitVsync", Tail(tasks)) = Count("awaitVsync", tasks) - One("awaitVsync" = "vsync")
      /\ Count("vsync", Tail(tasks)) = Count("vsync", tasks) - One("vsync" = "vsync")
      /\ Count("vsync", tasks) > 0
  BY StartsKeeps DEF Pacing
<1>2. One("awaitVsync" = "vsync") = 0 /\ One("vsync" = "vsync") = 1
      /\ One(callback) \in {0, 1} /\ (One(callback) = 0 => ~callback)
  BY DEF One
<1>3. /\ Count("vsync", tasks) \in Nat /\ Count("awaitVsync", tasks) \in Nat
      /\ Count("vsync", fired) \in Nat
  BY Counts DEF Pacing
<1>4. /\ sem = 0 /\ One(callback) = 0 /\ Count("awaitVsync", tasks) = 0
      /\ Count("vsync", tasks) = 1 /\ Count("vsync", fired) = 0
  BY <1>1, <1>2, <1>3 DEF Pacing, Typed, OneFrameOnItsWay, InFlight
<1>5. "pause" \notin Range(fired)
  <2>1. ASSUME NEW rest \in Seq(Keys), fired = <<"pause", "vsync">> \o rest
        PROVE  FALSE
    <3>1. Count("vsync", fired) = One("vsync" = "pause") + One("vsync" = "vsync")
      BY <2>1, FiredCounts
    <3> QED
      BY <1>4, <3>1 DEF One
  <2>2. CASE fired = <<"take">>
    BY <2>2 DEF Range
  <2>3. CASE \E rest \in Seq(Keys) : fired = <<"vsync">> \o rest \/ fired = rest
    <3>1. Count("pause", fired) = 0
      BY <2>3, FiredCounts DEF One
    <3> QED
      BY <3>1, PauseCounts DEF Pacing, Typed
  <2> QED
    BY <2>1, <2>2, <2>3 DEF Pacing, FiredInOrder
<1>6. << >> \in Quiet
  BY DEF Quiet
<1>7. Count("resume", ui) = 0 /\ Count("request", ui) = 0
  BY <1>1, <1>6, QuietCounts
<1>8. paused = 1
  BY <1>4, <1>5, <1>7 DEF Pacing, PauseBalance, InFlight
<1> QED
  BY <1>1, <1>2, <1>4, <1>5, <1>7, <1>8 DEF Pacing, Typed

\* The vsync task gives the semaphore back, or posts a request with it, and
\* has the resume to do.
LEMMA VsyncTaskPacing ==
  ASSUME Pacing, Starts("vsync"), ui' \in {<<"resume">>, FrameCalls},
         UNCHANGED waiterVars, sem' \in Nat, tasks' \in Seq(TaskNames),
         sem' + Count("awaitVsync", tasks') = 1, Count("vsync", tasks') = 0
  PROVE  Pacing'
<1>1. UNCHANGED <<callback, secondary, requested, fired, paused>>
  BY DEF waiterVars
<1>2. /\ ui' \in Seq(UiNames) /\ Count("resume", ui') = 1 /\ Count("request", ui') = 0
  <2>1. <<"resume">> \in Seq(UiNames)
    BY DEF UiNames
  <2>2. CASE ui' = <<"resume">>
    BY <2>1, <2>2, SingleCounts
  <2>3. CASE ui' = FrameCalls
    BY <2>3, FrameCallsCounts
  <2> QED
    BY <2>2, <2>3
<1>3. Count("awaitVsync", tasks') \in Nat
  BY CountNat
<1>4. Typed' /\ FiredInOrder'
  BY <1>1, <1>2, FiredStays DEF Pacing, Typed
<1>5. OneFrameOnItsWay'
  <2>1. One(callback') = 0
    BY <1>1, VsyncStarts DEF One
  <2> QED
    BY <1>1, <1>3, <2>1, VsyncStarts DEF OneFrameOnItsWay, InFlight
<1>6. OneRequest'
  <2>1. Count("request", ui) = 0
    BY VsyncStarts
  <2> QED
    BY <1>1, <1>2, <2>1 DEF Pacing, OneRequest
<1>7. PauseBalance'
  <2>1. paused' = 1 /\ Count("vsync", fired') = 0 /\ "pause" \notin Range(fired')
    BY <1>1, VsyncStarts
  <2> QED
    BY <1>2, <2>1 DEF PauseBalance, InFlight
<1>8. ResumesOnce'
  BY <1>2 DEF ResumesOnce
<1> QED
  BY <1>4, <1>5, <1>6, <1>7, <1>8 DEF Pacing

LEMMA DrawLastLayerTreesPacing ==
  ASSUME Pacing, DrawLastLayerTrees
  PROVE  Pacing'
<1>1. /\ Starts("vsync") /\ sem' = sem + 1 /\ tasks' = Tail(tasks)
      /\ ui' = <<"resume">> /\ UNCHANGED waiterVars
  BY DEF DrawLastLayerTrees, Signalled
<1> QED
  BY <1>1, VsyncStarts, VsyncTaskPacing

LEMMA BeginFramePacing ==
  ASSUME Pacing, BeginFrame
  PROVE  Pacing'
<1>1. /\ Starts("vsync") /\ sem' = sem + 1 /\ tasks' = Tail(tasks)
      /\ ui' = FrameCalls /\ UNCHANGED waiterVars
  BY DEF BeginFrame, FrameCalls
<1> QED
  BY <1>1, VsyncStarts, VsyncTaskPacing

LEMMA BeginFrameFullPacing ==
  ASSUME Pacing, BeginFrameFull
  PROVE  Pacing'
<1>1. /\ Starts("vsync") /\ RequestFrame(TRUE, sem + 1, Tail(tasks))
      /\ ui' = <<"resume">> /\ UNCHANGED waiterVars
  BY DEF BeginFrameFull, Retries
<1>2. sem + 1 \in Nat /\ Tail(tasks) \in Seq(TaskNames)
  BY <1>1, VsyncStarts
<1>3. /\ sem' \in Nat /\ tasks' \in Seq(TaskNames)
      /\ sem' + Count("awaitVsync", tasks') = sem + 1 + Count("awaitVsync", Tail(tasks))
      /\ Count("vsync", tasks') = Count("vsync", Tail(tasks))
  BY <1>1, <1>2, RequestKeeps
<1> QED
  BY <1>1, <1>3, VsyncStarts, VsyncTaskPacing

\* A step of the UI thread that leaves the frames on their way, the resume
\* and the request keeps the invariant.
LEMMA UiPacing ==
  ASSUME Pacing, UNCHANGED waiterVars, ui' \in Seq(UiNames),
         Count("resume", ui') = Count("resume", ui),
         Count("request", ui') = Count("request", ui),
         sem' \in Nat, tasks' \in Seq(TaskNames),
         sem' + Count("awaitVsync", tasks') = sem + Count("awaitVsync", tasks),
         Count("vsync", tasks') = Count("vsync", tasks)
  PROVE  Pacing'
<1>1. UNCHANGED <<callback, secondary, requested, fired, paused>>
  BY DEF waiterVars
<1>2. /\ Count("awaitVsync", tasks') \in Nat /\ Count("awaitVsync", tasks) \in Nat
      /\ Count("vsync", tasks) \in Nat /\ Count("vsync", fired) \in Nat
  BY CountNat DEF Pacing, Typed
<1>3. Typed' /\ FiredInOrder'
  BY <1>1, FiredStays DEF Pacing, Typed
<1>4. InFlight("vsync")' = InFlight("vsync") /\ InFlight("vsync") \in Nat
  BY <1>1, <1>2 DEF InFlight
<1>5. OneFrameOnItsWay'
  <2>1. One(callback') = One(callback) /\ One(callback) \in {0, 1}
    BY <1>1 DEF One
  <2> QED
    BY <1>2, <1>4, <2>1 DEF Pacing, OneFrameOnItsWay, Typed
<1>6. OneRequest'
  BY <1>1 DEF Pacing, OneRequest
<1>7. PauseBalance'
  BY <1>1, <1>4 DEF Pacing, PauseBalance
<1>8. ResumesOnce'
  BY <1>2 DEF Pacing, ResumesOnce, Typed
<1> QED
  BY <1>3, <1>5, <1>6, <1>7, <1>8 DEF Pacing

LEMMA BuildFramePacing ==
  ASSUME Pacing, BuildFrame
  PROVE  Pacing'
<1>1. /\ Doing("build") /\ ui' = Tail(ui) /\ UNCHANGED waiterVars
      /\ RequestFrame(TRUE, sem, tasks) \/ UNCHANGED <<sem, tasks>>
  BY DEF BuildFrame, animatorVars
<1>2. /\ ui' \in Seq(UiNames)
      /\ Count("resume", ui') = Count("resume", ui) - One("resume" = "build")
      /\ Count("request", ui') = Count("request", ui) - One("request" = "build")
  BY <1>1, DoingKeeps DEF Pacing
<1>3. Count("resume", ui') = Count("resume", ui) /\ Count("request", ui') = Count("request", ui)
  <2>1. Count("resume", ui) \in Nat /\ Count("request", ui) \in Nat
    BY Counts DEF Pacing
  <2> QED
    BY <1>2, <2>1 DEF One
<1>4. /\ sem' \in Nat /\ tasks' \in Seq(TaskNames)
      /\ sem' + Count("awaitVsync", tasks') = sem + Count("awaitVsync", tasks)
      /\ Count("vsync", tasks') = Count("vsync", tasks)
  <2>1. CASE RequestFrame(TRUE, sem, tasks)
    BY <2>1, RequestKeeps DEF Pacing, Typed
  <2>2. CASE UNCHANGED <<sem, tasks>>
    BY <2>2 DEF Pacing, Typed
  <2> QED
    BY <1>1, <2>1, <2>2
<1> QED
  BY <1>1, <1>2, <1>3, <1>4, UiPacing

LEMMA EndFramePacing ==
  ASSUME Pacing, EndFrame
  PROVE  Pacing'
<1>1. /\ Doing("endFrame") /\ ui' = Tail(ui) /\ UNCHANGED waiterVars
      /\ UNCHANGED <<sem, tasks>>
  BY DEF EndFrame, animatorVars
<1>2. /\ ui' \in Seq(UiNames)
      /\ Count("resume", ui') = Count("resume", ui) - One("resume" = "endFrame")
      /\ Count("request", ui') = Count("request", ui) - One("request" = "endFrame")
  BY <1>1, DoingKeeps DEF Pacing
<1>3. Count("resume", ui') = Count("resume", ui) /\ Count("request", ui') = Count("request", ui)
  <2>1. Count("resume", ui) \in Nat /\ Count("request", ui) \in Nat
    BY Counts DEF Pacing
  <2> QED
    BY <1>2, <2>1 DEF One
<1> QED
  BY <1>1, <1>2, <1>3, UiPacing DEF Pacing, Typed

LEMMA ResumePacing ==
  ASSUME Pacing, ResumeDartEventLoopTasks
  PROVE  Pacing'
<1>1. /\ Doing("resume") /\ ui' = Tail(ui) /\ paused' = paused - 1
      /\ UNCHANGED <<callback, secondary, requested, fired, sem, tasks>>
  BY DEF ResumeDartEventLoopTasks, Resumed, animatorVars
<1>2. /\ ui' \in Seq(UiNames)
      /\ Count("resume", ui') = Count("resume", ui) - One("resume" = "resume")
      /\ Count("request", ui') = Count("request", ui) - One("request" = "resume")
      /\ Count("resume", ui) \in Nat /\ Count("request", ui) \in Nat
      /\ Count("resume", ui') \in Nat
  BY <1>1, DoingKeeps, Counts, CountNat DEF Pacing
<1>3. Count("resume", ui') = Count("resume", ui) - 1 /\ Count("request", ui') = Count("request", ui)
  BY <1>2 DEF One
<1>4. InFlight("vsync")' = InFlight("vsync") /\ InFlight("vsync") \in Nat
  <2>1. Count("vsync", tasks) \in Nat /\ Count("vsync", fired) \in Nat
    BY Counts DEF Pacing
  <2> QED
    BY <1>1, <2>1 DEF InFlight
<1>5. Typed' /\ FiredInOrder'
  BY <1>1, <1>2, FiredStays DEF Pacing, Typed
<1>6. OneFrameOnItsWay' /\ OneRequest'
  BY <1>1, <1>3, <1>4 DEF Pacing, OneFrameOnItsWay, OneRequest
<1>7. PauseBalance'
  BY <1>1, <1>2, <1>3, <1>4 DEF Pacing, PauseBalance
<1>8. ResumesOnce'
  BY <1>1, <1>2, <1>3 DEF Pacing, ResumesOnce
<1> QED
  BY <1>5, <1>6, <1>7, <1>8 DEF Pacing

\* Tasks other than a frame's begin with calls that neither resume nor request.
LEMMA QuietPacing ==
  ASSUME Pacing, ui = << >>, ui' \in Quiet, UNCHANGED waiterVars,
         sem' = sem, tasks' \in Seq(TaskNames),
         Count("awaitVsync", tasks') = Count("awaitVsync", tasks),
         Count("vsync", tasks') = Count("vsync", tasks)
  PROVE  Pacing'
<1>1. << >> \in Quiet
  BY DEF Quiet
<1>2. /\ ui' \in Seq(UiNames) /\ Count("resume", ui') = Count("resume", ui)
      /\ Count("request", ui') = Count("request", ui)
  BY <1>1, QuietCounts
<1>3. sem' \in Nat
  BY DEF Pacing, Typed
<1> QED
  BY <1>2, <1>3, UiPacing

LEMMA RenderWarmUpPacing ==
  ASSUME Pacing, RenderWarmUp
  PROVE  Pacing'
<1>1. /\ ui = << >> /\ ui' \in Quiet /\ UNCHANGED waiterVars
      /\ sem' = sem /\ tasks' = tasks
  BY DEF RenderWarmUp, Idle, animatorVars, Quiet
<1> QED
  BY <1>1, QuietPacing DEF Pacing, Typed

LEMMA DispatchPacketPacing ==
  ASSUME Pacing, DispatchPacket
  PROVE  Pacing'
<1>1. /\ ui = << >> /\ UNCHANGED waiterVars /\ sem' = sem /\ tasks' = tasks
  BY DEF DispatchPacket, Idle, animatorVars
<1>2. ui' \in Quiet
  <2>1. CASE inProgress /\ pending # 0
    <3>1. ui' = <<"flow", "pointer">> \o <<"pointer">>
      BY <2>1 DEF DispatchPacket
    <3> QED
      BY <3>1 DEF Quiet
  <2>2. CASE inProgress /\ ~(pending # 0)
    <3>1. ui' = << >> \o <<"pointer">>
      BY <2>2 DEF DispatchPacket
    <3> QED
      BY <3>1 DEF Quiet
  <2>3. CASE ~inProgress
    BY <2>3 DEF DispatchPacket, Quiet
  <2> QED
    BY <2>1, <2>2, <2>3
<1> QED
  BY <1>1, <1>2, QuietPacing DEF Pacing, Typed

\* The count of the frame's tasks when another one starts.
LEMMA KeyStarts ==
  ASSUME Pacing, NEW id \in Keys, Starts(id), tasks' = Tail(tasks)
  PROVE  /\ ui = << >> /\ tasks' \in Seq(TaskNames)
         /\ Count("awaitVsync", tasks') = Count("awaitVsync", tasks)
         /\ Count("vsync", tasks') = Count("vsync", tasks)
<1>1. /\ ui = << >> /\ tasks' \in Seq(TaskNames)
      /\ Count("awaitVsync", tasks') = Count("awaitVsync", tasks) - One("awaitVsync" = id)
      /\ Count("vsync", tasks') = Count("vsync", tasks) - One("vsync" = id)
  BY StartsKeeps DEF Pacing
<1>2. One("awaitVsync" = id) = 0 /\ One("vsync" = id) = 0
  BY DEF One, Keys
<1>3. Count("awaitVsync", tasks) \in Nat /\ Count("vsync", tasks) \in Nat
  BY Counts DEF Pacing
<1> QED
  BY <1>1, <1>2, <1>3

LEMMA PointerCallbackPacing ==
  ASSUME Pacing, PointerCallback
  PROVE  Pacing'
<1>1. /\ Starts("pointer") /\ tasks' = Tail(tasks) /\ "pointer" \in Keys
      /\ UNCHANGED waiterVars /\ sem' = sem
      /\ ui' = <<"flow", "pointer">> \/ ui' = ui
  BY DEF PointerCallback, animatorVars, Keys
<1>2. /\ ui = << >> /\ tasks' \in Seq(TaskNames)
      /\ Count("awaitVsync", tasks') = Count("awaitVsync", tasks)
      /\ Count("vsync", tasks') = Count("vsync", tasks)
  BY <1>1, KeyStarts
<1>3. ui' \in Quiet
  BY <1>1, <1>2 DEF Quiet
<1> QED
  BY <1>1, <1>2, <1>3, QuietPacing

LEMMA FlowCallbackPacing ==
  ASSUME Pacing, FlowCallback
  PROVE  Pacing'
<1>1. /\ Starts("flow") /\ tasks' = Tail(tasks) /\ "flow" \in Keys
      /\ UNCHANGED waiterVars /\ sem' = sem /\ ui' = ui
  BY DEF FlowCallback, animatorVars, Keys
<1>2. /\ ui = << >> /\ tasks' \in Seq(TaskNames)
      /\ Count("awaitVsync", tasks') = Count("awaitVsync", tasks)
      /\ Count("vsync", tasks') = Count("vsync", tasks)
  BY <1>1, KeyStarts
<1>3. ui' \in Quiet
  BY <1>1, <1>2 DEF Quiet
<1> QED
  BY <1>1, <1>2, <1>3, QuietPacing

LEMMA OthersPacing ==
  ASSUME Pacing, Rasterize \/ UNCHANGED vars
  PROVE  Pacing'
<1>1. UNCHANGED waiterVars /\ UNCHANGED <<sem, tasks, ui>>
  BY DEF Rasterize, animatorVars, vars
<1> QED
  BY <1>1, UiPacing DEF Pacing, Typed

LEMMA PacingInit == Init => Pacing
<1> SUFFICES ASSUME Init PROVE Pacing
  OBVIOUS
<1>1. /\ sem = 1 /\ secondary = {} /\ requested = 0 /\ paused = 0
      /\ callback = FALSE /\ ui = << >> /\ fired = << >> /\ tasks = << >>
  BY Zenon DEF Init
<1>2. Typed /\ << >> \in Seq(Keys)
  <2>1. callback \in BOOLEAN
    BY Zenon, <1>1
  <2> QED
    BY <1>1, <2>1 DEF Typed
<1>3. FiredInOrder
  BY <1>1, <1>2 DEF FiredInOrder
<1>4. \A x : Count(x, << >>) = 0
  BY CountOne
<1>5. /\ Count("awaitVsync", tasks) = 0 /\ Count("vsync", tasks) = 0
      /\ Count("vsync", fired) = 0 /\ Count("take", fired) = 0
      /\ Count("resume", ui) = 0 /\ Count("request", ui) = 0
  BY <1>1, <1>4
<1>6. OneFrameOnItsWay /\ OneRequest
  BY <1>1, <1>5 DEF OneFrameOnItsWay, OneRequest, InFlight, One
<1>7. PauseBalance /\ ResumesOnce
  BY <1>1, <1>5 DEF PauseBalance, ResumesOnce, InFlight
<1> QED
  BY <1>2, <1>3, <1>6, <1>7 DEF Pacing

LEMMA PacingStep == Pacing /\ [Next]_vars => Pacing'
<1> SUFFICES ASSUME Pacing, [Next]_vars PROVE Pacing'
  OBVIOUS
<1>1. CASE StartTask
  BY <1>1, AwaitVSyncPacing, PointerCallbackPacing, FlowCallbackPacing,
     DrawLastLayerTreesPacing, BeginFramePacing, BeginFrameFullPacing
     DEF StartTask
<1>2. CASE ContinueTask
  BY <1>2, SecondaryPacing, RequestVsyncPacing, BuildFramePacing,
     EndFramePacing, ResumePacing DEF ContinueTask, Keys
<1>3. CASE VsyncStep
  BY <1>3, VsyncPacing, TakePacing, PausePacing, PostPacing DEF VsyncStep
<1>4. CASE ScheduleFrame \/ RenderWarmUp \/ DispatchPacket
  BY <1>4, ScheduleFramePacing, RenderWarmUpPacing, DispatchPacketPacing
<1>5. CASE Rasterize \/ UNCHANGED vars
  BY <1>5, OthersPacing
<1> QED
  BY <1>1, <1>2, <1>3, <1>4, <1>5 DEF Next

LEMMA PacingAlways == Spec => []Pacing
BY PacingInit, PacingStep, PTL DEF Spec

\* One frame at most is on its way, for any depth of the pipeline and any
\* number of packets (animator.cc:252, pending_frame_semaphore_).
THEOREM OneFrame == Spec => []OneFrameOnItsWay
<1>1. Pacing => OneFrameOnItsWay
  BY DEF Pacing
<1> QED
  BY <1>1, PacingAlways, PTL

\* A callback waits exactly when the platform owes an answer
\* (VsyncWaiter::AsyncWaitForVsync, ScheduleSecondaryCallback, FireCallback).
THEOREM NoCallbackForgotten == Spec => []WaitingHasRequest
<1>1. Pacing => WaitingHasRequest
  <2> SUFFICES ASSUME Pacing PROVE WaitingHasRequest
    OBVIOUS
  <2>1. requested + Count("take", fired) + Count("request", ui)
          = One(callback \/ secondary # {})
    BY DEF Pacing, OneRequest
  <2>2. One(callback \/ secondary # {})
          = IF callback \/ secondary # {} THEN 1 ELSE 0
    BY DEF One
  <2> QED
    BY <2>1, <2>2 DEF WaitingHasRequest
<1> QED
  BY <1>1, PacingAlways, PTL

\* Every pause of Dart's tasks is resumed at the end of its frame
\* (FireCallback and the vsync task it posts).
THEOREM PausesBalance == Spec => []PauseBalance
<1>1. Pacing => PauseBalance
  BY DEF Pacing
<1> QED
  BY <1>1, PacingAlways, PTL

-----------------------------------------------------------------------------
(* Types.                                                                  *)

Flags == /\ regenerate \in BOOLEAN /\ scheduled \in BOOLEAN
         /\ recorder \in BOOLEAN /\ trees \in BOOLEAN /\ flows \in BOOLEAN

\* The slots of the pipeline: the UI thread holds one at most.
Slots ==
  /\ reserved \in {0, 1} /\ waiting \in Seq(Items) /\ taken \in BOOLEAN
  /\ depth \in Depths
  /\ reserved + Len(waiting) + One(taken) <= depth

Packets ==
  /\ arrived \in 0..MaxPackets /\ delivered \in 0..MaxPackets
  /\ pending \in 0..MaxPackets /\ inProgress \in BOOLEAN

LEMMA FlagsStep == Flags /\ [Next]_vars => Flags'
<1> SUFFICES ASSUME Flags, [Next]_vars PROVE Flags'
  OBVIOUS
<1>1. CASE ScheduleFrame
  <2>1. \E regen \in BOOLEAN : RequestFrame(regen, sem, tasks)
    BY <1>1, Zenon DEF ScheduleFrame
  <2>2. regenerate' \in BOOLEAN /\ scheduled' \in BOOLEAN
    BY <2>1, Zenon DEF Flags, RequestFrame
  <2> QED
    BY <1>1, <2>2, Zenon DEF ScheduleFrame, frameVars, Flags
<1>2. CASE BuildFrame
  <2>1. regenerate' \in BOOLEAN /\ scheduled' \in BOOLEAN
    BY <1>2, Zenon DEF BuildFrame, RequestFrame, Flags, animatorVars
  <2> QED
    BY <1>2, <2>1, Zenon DEF BuildFrame, Flags
<1>3. CASE BeginFrameFull
  <2>1. regenerate' \in BOOLEAN /\ scheduled' \in BOOLEAN
    BY <1>3, Zenon DEF BeginFrameFull, RequestFrame, Retries, Flags
  <2> QED
    BY <1>3, <2>1, Zenon DEF BeginFrameFull, Flags
<1>4. CASE BeginFrame
  BY <1>4, Zenon DEF BeginFrame, Flags
<1>5. CASE EndFrame
  BY <1>5, Zenon DEF EndFrame, Flags, animatorVars
<1>6. CASE RenderWarmUp
  BY <1>6, Zenon DEF RenderWarmUp, Flags, animatorVars
<1>7. CASE DispatchPacket
  <2>1. flows' \in BOOLEAN
    BY <1>7, Zenon DEF DispatchPacket, Flags
  <2> QED
    BY <1>7, <2>1, Zenon DEF DispatchPacket, Flags, animatorVars, frameVars
<1>8. CASE PointerCallback
  <2>1. flows' \in BOOLEAN
    BY <1>8, Zenon DEF PointerCallback, Flags
  <2> QED
    BY <1>8, <2>1, Zenon DEF PointerCallback, Flags, animatorVars, frameVars
<1>9. CASE FlowCallback
  BY <1>9, Zenon DEF FlowCallback, Flags, animatorVars, frameVars
<1>10. CASE DrawLastLayerTrees \/ AwaitVSync
  BY <1>10, Zenon DEF DrawLastLayerTrees, AwaitVSync, Flags, animatorVars, frameVars
<1>11. CASE VsyncStep
  BY <1>11, Zenon DEF VsyncStep, Vsync, TakeCallbacks, PauseDartEventLoopTasks,
     PostCallback, Flags, animatorVars, frameVars
<1>12. CASE \/ \E id \in {"flow", "pointer"} : ScheduleSecondaryCallback(id)
            \/ RequestVsync \/ ResumeDartEventLoopTasks
  BY <1>12, Zenon DEF ScheduleSecondaryCallback, RequestVsync,
     ResumeDartEventLoopTasks, Flags, animatorVars, frameVars
<1>13. CASE Rasterize \/ UNCHANGED vars
  BY <1>13, Zenon DEF Rasterize, vars, Flags, animatorVars, frameVars
<1> QED
  BY <1>1, <1>2, <1>3, <1>4, <1>5, <1>6, <1>7, <1>8, <1>9, <1>10, <1>11, <1>12,
     <1>13 DEF Next, StartTask, ContinueTask

\* What the steps do to the pipeline.
LEMMA QueueSteps ==
  ASSUME [Next]_vars
  PROVE  UNCHANGED queueVars \/ (reserved = 0 /\ Reserve) \/ Commit \/ Take \/ Release
<1>1. CASE StartTask
  BY <1>1 DEF StartTask, AwaitVSync, PointerCallback, FlowCallback,
     DrawLastLayerTrees, BeginFrame, BeginFrameFull, frameVars
<1>2. CASE ContinueTask
  BY <1>2 DEF ContinueTask, ScheduleSecondaryCallback, RequestVsync, BuildFrame,
     EndFrame, ResumeDartEventLoopTasks, frameVars
<1>3. CASE VsyncStep
  BY <1>3 DEF VsyncStep, Vsync, TakeCallbacks, PauseDartEventLoopTasks,
     PostCallback, frameVars
<1>4. CASE ScheduleFrame \/ RenderWarmUp \/ DispatchPacket
  BY <1>4 DEF ScheduleFrame, RenderWarmUp, DispatchPacket, frameVars
<1>5. CASE Rasterize \/ UNCHANGED vars
  BY <1>5 DEF Rasterize, vars, frameVars
<1> QED
  BY <1>1, <1>2, <1>3, <1>4, <1>5 DEF Next

LEMMA SlotsStep == Slots /\ [Next]_vars => Slots'
<1> SUFFICES ASSUME Slots, [Next]_vars PROVE Slots'
  OBVIOUS
<1>0. depth \in Depths /\ depth \in Nat
  BY SchedulerAssumption DEF Slots
<1>1. CASE UNCHANGED queueVars
  BY <1>1 DEF queueVars, Slots
<1>2. CASE reserved = 0 /\ Reserve
  BY <1>0, <1>2 DEF Reserve, Slots, One
<1>3. CASE Commit
  <2>1. PICK x \in Items : waiting' = Append(waiting, x)
    BY <1>3 DEF Commit
  <2>2. waiting' \in Seq(Items) /\ Len(waiting') = Len(waiting) + 1
    BY <2>1 DEF Slots
  <2>3. UNCHANGED <<depth, taken>> /\ reserved = 1 /\ reserved' = 0
    BY <1>3 DEF Commit, Slots
  <2> QED
    BY <1>0, <2>2, <2>3 DEF Slots, One
<1>4. CASE Take
  <2>1. waiting' \in Seq(Items) /\ Len(waiting') = Len(waiting) - 1
    BY <1>4 DEF Take, Slots
  <2>2. /\ One(taken) = 0 /\ One(taken') = 1 /\ taken' \in BOOLEAN
        /\ UNCHANGED <<depth, reserved>>
    BY <1>4 DEF Take, One
  <2> QED
    BY <1>0, <2>1, <2>2 DEF Slots
<1>5. CASE Release
  <2>1. One(taken) = 1 /\ One(taken') = 0 /\ taken' \in BOOLEAN
    BY <1>5 DEF Release, One
  <2>2. UNCHANGED <<depth, reserved, waiting>>
    BY <1>5 DEF Release
  <2> QED
    BY <1>0, <2>1, <2>2 DEF Slots
<1> QED
  BY <1>1, <1>2, <1>3, <1>4, <1>5, QueueSteps

LEMMA PacketsStep == Packets /\ [Next]_vars => Packets'
<1> SUFFICES ASSUME Packets, [Next]_vars PROVE Packets'
  OBVIOUS
<1>1. CASE DispatchPacket
  <2>1. arrived' \in 0..MaxPackets
    BY <1>1, SchedulerAssumption DEF DispatchPacket, Packets
  <2>2. CASE inProgress
    BY <1>1, <2>1, <2>2, SchedulerAssumption DEF DispatchPacket, Packets
  <2>3. CASE ~inProgress
    BY <1>1, <2>1, <2>3, SchedulerAssumption DEF DispatchPacket, Packets
  <2> QED
    BY <2>2, <2>3
<1>2. CASE PointerCallback
  <2>1. CASE inProgress /\ pending # 0
    BY <1>2, <2>1, SchedulerAssumption DEF PointerCallback, Packets
  <2>2. CASE ~(inProgress /\ pending # 0)
    BY <1>2, <2>2 DEF PointerCallback, Packets
  <2> QED
    BY <2>1, <2>2
<1>3. CASE ~DispatchPacket /\ ~PointerCallback
  BY <1>3, OthersLeavePointers DEF pointerVars, Packets
<1> QED
  BY <1>1, <1>2, <1>3

LEMMA TypesInit == Init => Flags /\ Slots /\ Packets
<1> SUFFICES ASSUME Init PROVE Flags /\ Slots /\ Packets
  OBVIOUS
<1>1. Flags
  BY Zenon DEF Init, Flags
<1>2. inProgress \in BOOLEAN /\ taken \in BOOLEAN /\ One(taken) = 0
  BY Zenon DEF Init, QueueInit, One
<1>3. Slots
  <2>1. depth \in Depths /\ reserved = 0 /\ waiting = << >>
    BY DEF Init, QueueInit
  <2>2. depth \in Nat \ {0}
    BY <2>1, SchedulerAssumption
  <2> QED
    BY <1>2, <2>1, <2>2 DEF Slots
<1>4. Packets
  <2>1. arrived = 0 /\ delivered = 0 /\ pending = 0
    BY DEF Init
  <2> QED
    BY <1>2, <2>1, SchedulerAssumption DEF Packets
<1> QED
  BY <1>1, <1>3, <1>4

\* No counter of the pacing passes one.
LEMMA PacingBounds ==
  ASSUME Pacing
  PROVE  sem \in {0, 1} /\ paused \in {0, 1} /\ requested \in {0, 1}
<1>1. /\ Count("awaitVsync", tasks) \in Nat /\ Count("vsync", tasks) \in Nat
      /\ Count("vsync", fired) \in Nat /\ Count("take", fired) \in Nat
      /\ Count("request", ui) \in Nat
  BY Counts DEF Pacing
<1>2. One(callback) \in {0, 1} /\ One(callback \/ secondary # {}) \in {0, 1}
  BY DEF One
<1>3. sem \in {0, 1} /\ InFlight("vsync") \in {0, 1}
      /\ (InFlight("vsync") = 1 => sem + Count("awaitVsync", tasks) = 0)
  BY <1>1, <1>2, SMTT(30) DEF Pacing, Typed, OneFrameOnItsWay, InFlight
<1>4. requested \in {0, 1}
  BY <1>1, <1>2 DEF Pacing, Typed, OneRequest
<1>5. paused \in {0, 1}
  BY <1>3 DEF Pacing, PauseBalance, ResumesOnce
<1> QED
  BY <1>3, <1>4, <1>5

\* Every variable keeps its type, for every depth of the pipeline and every
\* number of packets.
THEOREM TypeCorrect == Spec => []TypeOK
<1>1. Pacing /\ Flags /\ Slots /\ Packets => TypeOK
  <2> SUFFICES ASSUME Pacing, Flags, Slots, Packets PROVE TypeOK
    OBVIOUS
  <2>1. sem \in {0, 1} /\ paused \in {0, 1} /\ requested \in {0, 1}
    BY PacingBounds
  <2>2. {regenerate, scheduled, recorder, trees, flows, callback, inProgress}
          \subseteq BOOLEAN
    BY Zenon DEF Flags, Packets, Pacing, Typed
  <2>3. secondary \subseteq {"flow", "pointer"}
    BY DEF Pacing, Typed, Keys
  <2>4. /\ depth \in Depths
        /\ reserved \in {0, 1} /\ Len(waiting) \in 0..depth /\ taken \in BOOLEAN
    BY SchedulerAssumption DEF Slots, One
  <2>5. {arrived, delivered, pending} \subseteq 0..MaxPackets
    BY DEF Packets
  <2>6. /\ Range(tasks) \subseteq TaskNames /\ Range(fired) \subseteq FiredNames
        /\ Range(ui) \subseteq UiNames
    BY DEF Pacing, Typed, Range
  <2> QED
    BY <2>1, <2>2, <2>3, <2>4, <2>5, <2>6 DEF TypeOK, TaskNames, FiredNames, UiNames
<1> QED
  BY <1>1, PacingAlways, TypesInit, FlagsStep, SlotsStep, PacketsStep, PTL DEF Spec

-----------------------------------------------------------------------------
(* What is on its way.                                                     *)

\* A secondary callback that is due: it is about to be scheduled, waits for
\* the vsync, or is a task that FireCallback posts or has posted.
OnItsWay(id) ==
  \/ id \in secondary
  \/ \E calls \in {ui, fired, tasks} : id \in Range(calls)

\* A frame that was asked for has its vsync, or the request for it, on the way.
RequestGoesOn ==
  regenerate =>
    Count("awaitVsync", tasks) + One(callback) + InFlight("vsync") = 1

\* While a packet is in progress, and while flows are open, the callback that
\* ends it is due; of the flows, unless a frame that will end them is scheduled.
PacketGoesOn == inProgress => OnItsWay("pointer")
FlowGoesOn == flows => OnItsWay("flow") \/ scheduled

\* A call that is not the first one stays when the first one is taken, and
\* nothing is lost when calls are added.
LEMMA StaysInTail ==
  ASSUME NEW S, NEW s \in Seq(S), s # << >>, NEW x \in Range(s), x # Head(s)
  PROVE  x \in Range(Tail(s))
<1>1. Count(x, s) > 0 /\ Count(x, Tail(s)) = Count(x, s) - One(x = Head(s))
  BY CountSome, CountTail
<1>2. Tail(s) \in Seq(S) /\ One(x = Head(s)) = 0
  BY DEF One
<1>3. Count(x, Tail(s)) > 0
  BY <1>1, <1>2, CountNat
<1> QED
  BY <1>2, <1>3, CountSome

LEMMA StaysInConcat ==
  ASSUME NEW S, NEW s \in Seq(S), NEW t \in Seq(S), NEW x \in Range(s) \cup Range(t)
  PROVE  x \in Range(s \o t)
<1>1. /\ Count(x, s) \in Nat /\ Count(x, t) \in Nat
      /\ Count(x, s \o t) = Count(x, s) + Count(x, t)
  BY CountConcat
<1>2. Count(x, s) > 0 \/ Count(x, t) > 0
  BY CountSome
<1>3. s \o t \in Seq(S) /\ Count(x, s \o t) > 0
  BY <1>1, <1>2
<1> QED
  BY <1>3, CountSome

LEMMA StaysInAppend ==
  ASSUME NEW S, NEW s \in Seq(S), NEW y \in S, NEW x \in Range(s) \cup {y}
  PROVE  x \in Range(Append(s, y))
<1>1. Append(s, y) = s \o <<y>> /\ <<y>> \in Seq(S) /\ Range(<<y>>) = {y}
  BY DEF Range
<1> QED
  BY <1>1, StaysInConcat

\* A request for a frame only adds to the tasks.
LEMMA StaysInRequest ==
  ASSUME NEW regen, NEW s, NEW q \in Seq(TaskNames), RequestFrame(regen, s, q),
         NEW x \in Range(q)
  PROVE  x \in Range(tasks')
<1>1. "awaitVsync" \in TaskNames
  BY DEF TaskNames
<1>2. tasks' = q \/ tasks' = Append(q, "awaitVsync")
  BY DEF RequestFrame
<1> QED
  BY <1>1, <1>2, StaysInAppend

\* The secondary callbacks that FireCallback takes are all among those it posts.
LEMMA TakesAll ==
  ASSUME Typed, NEW order \in [1..Cardinality(secondary) -> secondary],
         \A i, j \in DOMAIN order : order[i] = order[j] => i = j
  PROVE  order \in Seq(Keys) /\ Range(order) = secondary
<1> DEFINE n == Cardinality(secondary)
<1>1. IsFiniteSet(secondary)
  <2>1. Keys = {"flow"} \cup {"pointer"}
    BY DEF Keys
  <2>2. IsFiniteSet({"flow"} \cup {"pointer"})
    BY FS_Singleton, FS_Union
  <2> QED
    BY <2>1, <2>2, FS_Subset DEF Typed
<1>2. n \in Nat
  BY <1>1, FS_CardinalityType
<1>3. IsFiniteSet(1..n) /\ Cardinality(1..n) = n
  BY <1>2, FS_Interval
<1> HIDE DEF n
<1>4. order \in [1..n -> secondary]
  BY DEF n
<1>5. order \in Injection(1..n, secondary)
  BY <1>4 DEF Injection, IsInjective
<1>6. Cardinality(1..n) = Cardinality(secondary)
  BY <1>3 DEF n
<1>7. order \in Surjection(1..n, secondary)
  BY <1>1, <1>5, <1>6, FS_Injection
<1>8. order \in Seq(Keys)
  BY <1>2, <1>4 DEF Typed
<1>9. DOMAIN order = 1..n /\ \A k \in secondary : \E i \in 1..n : order[i] = k
  BY <1>4, <1>7 DEF Surjection
<1>10. \A i \in 1..n : order[i] \in secondary
  BY <1>4
<1>11. Range(order) = secondary
  BY <1>9, <1>10 DEF Range
<1> QED
  BY <1>8, <1>11

\* A step that takes a task from the queue, or a call from the running task,
\* leaves the others due.
LEMMA StaysWhenStarted ==
  ASSUME Typed, NEW id \in Keys, OnItsWay(id), NEW x, Starts(x), x # id,
         UNCHANGED <<secondary, fired>>,
         \A k \in Range(Tail(tasks)) : k \in Range(tasks')
  PROVE  OnItsWay(id)'
<1>1. ui = << >> /\ tasks # << >> /\ Head(tasks) # id
  BY DEF Starts, Idle
<1>2. id \notin Range(ui)
  BY <1>1 DEF Range
<1>3. id \in Range(tasks) => id \in Range(tasks')
  BY <1>1, StaysInTail DEF Typed
<1> QED
  BY <1>2, <1>3 DEF OnItsWay

LEMMA StaysWhenDone ==
  ASSUME Typed, NEW id \in Keys, OnItsWay(id), NEW x, Doing(x), x # id,
         UNCHANGED <<secondary, fired>>,
         \A k \in Range(Tail(ui)) : k \in Range(ui'),
         \A k \in Range(tasks) : k \in Range(tasks')
  PROVE  OnItsWay(id)'
<1>1. id \in Range(ui) => id \in Range(ui')
  BY StaysInTail DEF Typed, Doing
<1> QED
  BY <1>1 DEF OnItsWay

\* So is a step of FireCallback.
LEMMA StaysWhenFired ==
  ASSUME Pacing, NEW id \in Keys, OnItsWay(id), VsyncStep
  PROVE  OnItsWay(id)'
<1>1. CASE Vsync
  <2>1. fired = << >> /\ UNCHANGED <<secondary, ui, tasks>>
    BY <1>1 DEF Vsync
  <2>2. id \notin Range(fired)
    BY <2>1 DEF Range
  <2> QED
    BY <2>1, <2>2 DEF OnItsWay
<1>2. CASE TakeCallbacks
  <2>1. PICK order \in [1..Cardinality(secondary) -> secondary] :
          /\ \A i, j \in DOMAIN order : order[i] = order[j] => i = j
          /\ fired' = (IF callback THEN <<"pause", "vsync">> ELSE << >>) \o order
    BY <1>2 DEF TakeCallbacks
  <2>2. order \in Seq(Keys) /\ Range(order) = secondary
    BY <2>1, TakesAll DEF Pacing
  <2>3. order \in Seq(FiredNames) /\ <<"pause", "vsync">> \in Seq(FiredNames)
        /\ << >> \in Seq(FiredNames)
    BY <2>2 DEF Keys, FiredNames
  <2>4. \A k \in Range(order) : k \in Range(fired')
    BY <2>1, <2>3, StaysInConcat
  <2>5. fired = <<"take">> /\ UNCHANGED <<ui, tasks>>
    BY <1>2 DEF TakeCallbacks
  <2>6. id \notin Range(fired)
    BY <2>5 DEF Range, Keys
  <2> QED
    BY <2>2, <2>4, <2>5, <2>6 DEF OnItsWay
<1>3. CASE PauseDartEventLoopTasks
  <2>1. /\ fired # << >> /\ Head(fired) = "pause" /\ fired' = Tail(fired)
        /\ UNCHANGED <<secondary, ui, tasks>>
    BY <1>3 DEF PauseDartEventLoopTasks
  <2>2. id \in Range(fired) => id \in Range(fired')
    BY <2>1, StaysInTail DEF Pacing, Typed, Keys
  <2> QED
    BY <2>1, <2>2 DEF OnItsWay
<1>4. CASE PostCallback
  <2>1. /\ fired # << >> /\ fired' = Tail(fired)
        /\ Head(fired) \notin {"take", "pause"}
        /\ tasks' = Append(tasks, Head(fired))
        /\ UNCHANGED <<secondary, ui>>
    BY <1>4 DEF PostCallback
  <2>2. Head(fired) \in TaskNames
    BY <2>1 DEF Pacing, Typed, FiredNames, TaskNames
  <2>3. \A k \in Range(tasks) \cup {Head(fired)} : k \in Range(tasks')
    BY <2>1, <2>2, StaysInAppend DEF Pacing, Typed
  <2>4. id \in Range(fired) => id = Head(fired) \/ id \in Range(fired')
    BY <2>1, StaysInTail DEF Pacing, Typed
  <2> QED
    BY <2>1, <2>3, <2>4 DEF OnItsWay
<1> QED
  BY <1>1, <1>2, <1>3, <1>4 DEF VsyncStep

\* What is due stays due until its task starts.
LEMMA StaysDue ==
  ASSUME Pacing, NEW id \in Keys, OnItsWay(id), [Next]_vars,
         ~(id = "pointer" /\ PointerCallback), ~(id = "flow" /\ FlowCallback)
  PROVE  OnItsWay(id)'
<1> USE DEF Pacing
<1>1. CASE AwaitVSync \/ DrawLastLayerTrees \/ BeginFrame
  <2>1. PICK x \in {"awaitVsync", "vsync"} : Starts(x)
    BY <1>1 DEF AwaitVSync, DrawLastLayerTrees, BeginFrame
  <2>2. UNCHANGED <<secondary, fired>> /\ tasks' = Tail(tasks)
    BY <1>1 DEF AwaitVSync, DrawLastLayerTrees, BeginFrame, waiterVars
  <2> QED
    BY <2>1, <2>2, StaysWhenStarted DEF Keys
<1>2. CASE BeginFrameFull
  <2>1. Starts("vsync") /\ UNCHANGED <<secondary, fired>>
    BY <1>2 DEF BeginFrameFull, waiterVars
  <2>2. RequestFrame(TRUE, sem + 1, Tail(tasks)) \/ tasks' = Tail(tasks)
    BY <1>2 DEF BeginFrameFull
  <2>3. Tail(tasks) \in Seq(TaskNames)
    BY <2>1 DEF Starts, Typed
  <2>4. \A k \in Range(Tail(tasks)) : k \in Range(tasks')
    BY <2>2, <2>3, StaysInRequest
  <2> QED
    BY <2>1, <2>4, StaysWhenStarted DEF Keys
<1>3. CASE PointerCallback
  <2>1. /\ Starts("pointer") /\ id # "pointer" /\ tasks' = Tail(tasks)
        /\ UNCHANGED <<secondary, fired>>
    BY <1>3 DEF PointerCallback, waiterVars
  <2> QED
    BY <2>1, StaysWhenStarted
<1>4. CASE FlowCallback
  <2>1. /\ Starts("flow") /\ id # "flow" /\ tasks' = Tail(tasks)
        /\ UNCHANGED <<secondary, fired>>
    BY <1>4 DEF FlowCallback, waiterVars
  <2> QED
    BY <2>1, StaysWhenStarted
<1>5. ASSUME NEW x \in {"flow", "pointer"}, ScheduleSecondaryCallback(x)
      PROVE  OnItsWay(id)'
  <2>1. /\ Doing(x) /\ secondary' = secondary \cup {x} /\ UNCHANGED <<fired, tasks>>
        /\ ui' = <<"request">> \o Tail(ui) \/ ui' = Tail(ui)
    BY <1>5 DEF ScheduleSecondaryCallback
  <2>2. Tail(ui) \in Seq(UiNames) /\ <<"request">> \in Seq(UiNames)
    BY <2>1 DEF Doing, Typed, UiNames
  <2>3. \A k \in Range(Tail(ui)) : k \in Range(ui')
    BY <2>1, <2>2, StaysInConcat
  <2>4. id \in Range(ui) => id = x \/ id \in Range(ui')
    BY <2>1, <2>3, StaysInTail DEF Doing, Typed
  <2> QED
    BY <2>1, <2>4 DEF OnItsWay
<1>6. CASE RequestVsync \/ EndFrame \/ ResumeDartEventLoopTasks
  <2>1. PICK x \in {"request", "endFrame", "resume"} : Doing(x)
    BY <1>6 DEF RequestVsync, EndFrame, ResumeDartEventLoopTasks
  <2>2. UNCHANGED <<secondary, fired, tasks>> /\ ui' = Tail(ui)
    BY <1>6 DEF RequestVsync, EndFrame, ResumeDartEventLoopTasks, waiterVars
  <2> QED
    BY <2>1, <2>2, StaysWhenDone DEF Keys
<1>7. CASE BuildFrame
  <2>1. Doing("build") /\ UNCHANGED <<secondary, fired>> /\ ui' = Tail(ui)
    BY <1>7 DEF BuildFrame, waiterVars
  <2>2. RequestFrame(TRUE, sem, tasks) \/ tasks' = tasks
    BY <1>7 DEF BuildFrame
  <2>3. \A k \in Range(tasks) : k \in Range(tasks')
    BY <2>2, StaysInRequest DEF Typed
  <2> QED
    BY <2>1, <2>3, StaysWhenDone DEF Keys
<1>8. CASE VsyncStep
  BY <1>8, StaysWhenFired
<1>9. CASE ScheduleFrame
  <2>1. PICK regen : RequestFrame(regen, sem, tasks)
    BY <1>9 DEF ScheduleFrame
  <2>2. UNCHANGED <<secondary, fired, ui>>
    BY <1>9 DEF ScheduleFrame, waiterVars
  <2>3. \A k \in Range(tasks) : k \in Range(tasks')
    BY <2>1, StaysInRequest DEF Typed
  <2> QED
    BY <2>2, <2>3 DEF OnItsWay
<1>10. CASE RenderWarmUp \/ DispatchPacket
  <2>1. ui = << >> /\ UNCHANGED <<secondary, fired, tasks>>
    BY <1>10 DEF RenderWarmUp, DispatchPacket, Idle, waiterVars
  <2>2. id \notin Range(ui)
    BY <2>1 DEF Range
  <2> QED
    BY <2>1, <2>2 DEF OnItsWay
<1>11. CASE Rasterize \/ UNCHANGED vars
  BY <1>11 DEF Rasterize, vars, waiterVars, OnItsWay
<1> QED
  BY <1>1, <1>2, <1>3, <1>4, <1>5, <1>6, <1>7, <1>8, <1>9, <1>10, <1>11
     DEF Next, StartTask, ContinueTask

\* A frame that is asked for takes the semaphore, or another one has it.
Asked == regenerate => sem = 0

LEMMA RequestTakes ==
  ASSUME NEW regen, NEW s \in {0, 1}, NEW q, RequestFrame(regen, s, q)
  PROVE  sem' = 0
BY DEF RequestFrame

LEMMA AskedStep == Pacing /\ Asked /\ [Next]_vars => Asked'
<1> SUFFICES ASSUME Pacing, Asked, [Next]_vars PROVE Asked'
  OBVIOUS
<1> USE DEF Asked
<1>1. sem \in {0, 1}
  BY PacingBounds
<1>2. CASE ScheduleFrame
  BY <1>1, <1>2, RequestTakes DEF ScheduleFrame
<1>3. CASE BuildFrame
  BY <1>1, <1>3, RequestTakes DEF BuildFrame, animatorVars
<1>4. CASE BeginFrameFull
  <2>1. Starts("vsync") /\ RequestFrame(TRUE, sem + 1, Tail(tasks))
    BY <1>4 DEF BeginFrameFull, Retries
  <2>2. sem + 1 \in {0, 1}
    BY <2>1, VsyncStarts
  <2>3. sem' = 0
    BY <2>1, <2>2, RequestTakes
  <2> QED
    BY <2>3
<1>5. CASE DrawLastLayerTrees \/ BeginFrame
  BY <1>5 DEF DrawLastLayerTrees, BeginFrame
<1>6. CASE UNCHANGED animatorVars
  BY <1>6 DEF animatorVars
<1>7. CASE AwaitVSync \/ PointerCallback \/ FlowCallback
  BY <1>6, <1>7 DEF AwaitVSync, PointerCallback, FlowCallback
<1>8. CASE \/ \E id \in {"flow", "pointer"} : ScheduleSecondaryCallback(id)
           \/ RequestVsync \/ EndFrame \/ ResumeDartEventLoopTasks
  BY <1>6, <1>8 DEF ScheduleSecondaryCallback, RequestVsync, EndFrame,
     ResumeDartEventLoopTasks
<1>9. CASE VsyncStep
  BY <1>6, <1>9 DEF VsyncStep, Vsync, TakeCallbacks, PauseDartEventLoopTasks,
     PostCallback
<1>10. CASE Rasterize \/ RenderWarmUp \/ DispatchPacket \/ UNCHANGED vars
  BY <1>6, <1>10 DEF Rasterize, RenderWarmUp, DispatchPacket, vars
<1> QED
  BY <1>2, <1>3, <1>4, <1>5, <1>7, <1>8, <1>9, <1>10
     DEF Next, StartTask, ContinueTask

\* A frame that was asked for has its vsync on the way, or the request for it,
\* however requests are merged, and over a full pipeline (Animator::RequestFrame,
\* BeginFrame): what RequestedFrameBegins needs beside fairness.
THEOREM NoRequestForgotten == Spec => []RequestGoesOn
<1>1. Init => Asked
  BY DEF Init, Asked
<1>2. Pacing /\ Asked => RequestGoesOn
  <2> SUFFICES ASSUME Pacing, Asked, regenerate
               PROVE  Count("awaitVsync", tasks) + One(callback) + InFlight("vsync") = 1
    BY DEF RequestGoesOn
  <2>1. sem = 0
    BY DEF Asked
  <2>2. /\ Count("awaitVsync", tasks) \in Nat /\ Count("vsync", tasks) \in Nat
        /\ Count("vsync", fired) \in Nat /\ One(callback) \in Nat
    BY Counts DEF Pacing, One
  <2> QED
    BY <2>1, <2>2 DEF Pacing, OneFrameOnItsWay, InFlight
<1> QED
  BY <1>1, <1>2, AskedStep, PacingAlways, PTL DEF Spec

\* The calls with which a packet goes to Dart, or waits.
LEMMA PointerCalls ==
  ASSUME NEW s \in {<<"flow", "pointer">>, <<"pointer">>,
                    <<"flow", "pointer">> \o <<"pointer">>, << >> \o <<"pointer">>}
  PROVE  "pointer" \in Range(s)
<1>1. CASE s = <<"flow", "pointer">>
  <2>1. DOMAIN s = {1, 2} /\ s[2] = "pointer"
    BY <1>1
  <2> QED
    BY <2>1 DEF Range
<1>2. CASE s \in {<<"pointer">>, << >> \o <<"pointer">>}
  <2>1. DOMAIN s = {1} /\ s[1] = "pointer"
    BY <1>2
  <2> QED
    BY <2>1 DEF Range
<1>3. CASE s = <<"flow", "pointer">> \o <<"pointer">>
  <2>1. DOMAIN s = {1, 2, 3} /\ s[3] = "pointer"
    BY <1>3
  <2> QED
    BY <2>1 DEF Range
<1> QED
  BY <1>1, <1>2, <1>3

LEMMA PacketGoesOnStep ==
  Pacing /\ PacketGoesOn /\ [Next]_vars => PacketGoesOn'
<1> SUFFICES ASSUME Pacing, PacketGoesOn, [Next]_vars, inProgress'
             PROVE  OnItsWay("pointer")'
  BY DEF PacketGoesOn
<1>1. CASE DispatchPacket \/ (PointerCallback /\ inProgress /\ pending # 0)
  <2>1. ui' \in {<<"flow", "pointer">>, <<"flow", "pointer">> \o <<"pointer">>,
                 << >> \o <<"pointer">>}
    BY <1>1 DEF DispatchPacket, PointerCallback
  <2>2. "pointer" \in Range(ui')
    BY <2>1, PointerCalls
  <2> QED
    BY <2>2 DEF OnItsWay
<1>2. CASE PointerCallback /\ ~(inProgress /\ pending # 0)
  BY <1>2 DEF PointerCallback
<1>3. CASE ~DispatchPacket /\ ~PointerCallback
  <2>1. inProgress
    BY <1>3, OthersLeavePointers DEF pointerVars
  <2> QED
    BY <1>3, <2>1, StaysDue DEF PacketGoesOn, Keys
<1> QED
  BY <1>1, <1>2, <1>3

\* The callback that takes the packet that waits, or ends the progress of the
\* last one, is due (SmoothPointerDataDispatcher::ScheduleSecondaryVsyncCallback),
\* however it races with the vsync: what PendingPacketDelivered needs beside
\* fairness.
THEOREM NoPacketForgotten == Spec => [](pending # 0 => OnItsWay("pointer"))
<1>1. Init => PacketGoesOn
  BY DEF Init, PacketGoesOn
<1>2. PInv /\ PacketGoesOn => (pending # 0 => OnItsWay("pointer"))
  BY DEF PInv, WaitsInProgress, PacketGoesOn
<1> QED
  BY <1>1, <1>2, PacketGoesOnStep, PacingAlways, PointerInit, PointerStep, PTL
     DEF Spec

\* The other steps open no flow, and end all flows when they end the frame.
LEMMA OthersKeepFlows ==
  ASSUME [Next]_vars, ~DispatchPacket, ~PointerCallback, ~FlowCallback,
         flows'
  PROVE  flows /\ (scheduled => scheduled')
<1>1. CASE UNCHANGED <<flows, scheduled>>
  BY <1>1
<1>2. CASE BeginFrame \/ BeginFrameFull
  BY <1>2, Zenon DEF BeginFrame, BeginFrameFull
<1>3. CASE BuildFrame
  BY <1>3, Zenon DEF BuildFrame, RequestFrame, animatorVars
<1>4. CASE ScheduleFrame
  BY <1>4, Zenon DEF ScheduleFrame, RequestFrame
<1>5. CASE AwaitVSync \/ DrawLastLayerTrees
  BY <1>1, <1>5 DEF AwaitVSync, DrawLastLayerTrees, animatorVars
<1>6. CASE \/ \E id \in {"flow", "pointer"} : ScheduleSecondaryCallback(id)
           \/ RequestVsync \/ EndFrame \/ ResumeDartEventLoopTasks
  BY <1>1, <1>6 DEF ScheduleSecondaryCallback, RequestVsync, EndFrame,
     ResumeDartEventLoopTasks, animatorVars
<1>7. CASE VsyncStep
  BY <1>1, <1>7 DEF VsyncStep, Vsync, TakeCallbacks, PauseDartEventLoopTasks,
     PostCallback, animatorVars
<1>8. CASE Rasterize \/ RenderWarmUp \/ UNCHANGED vars
  BY <1>1, <1>8 DEF Rasterize, RenderWarmUp, vars, animatorVars
<1> QED
  BY <1>2, <1>3, <1>4, <1>5, <1>6, <1>7, <1>8 DEF Next, StartTask, ContinueTask

LEMMA FlowGoesOnStep == Pacing /\ FlowGoesOn /\ [Next]_vars => FlowGoesOn'
<1> SUFFICES ASSUME Pacing, FlowGoesOn, [Next]_vars, flows'
             PROVE  OnItsWay("flow")' \/ scheduled'
  BY DEF FlowGoesOn
<1>1. CASE DispatchPacket
  <2>1. scheduled' = scheduled
    BY <1>1 DEF DispatchPacket, animatorVars
  <2>2. CASE ~inProgress \/ pending # 0
    <3>1. ui' \in {<<"flow", "pointer">>, <<"flow", "pointer">> \o <<"pointer">>}
      BY <1>1, <2>2 DEF DispatchPacket
    <3>2. DOMAIN ui' \in {{1, 2}, {1, 2, 3}} /\ ui'[1] = "flow"
      BY <3>1
    <3>3. "flow" \in Range(ui')
      BY <3>2 DEF Range
    <3> QED
      BY <3>3 DEF OnItsWay
  <2>3. CASE inProgress /\ pending = 0
    <3>1. flows
      BY <1>1, <2>3 DEF DispatchPacket
    <3>2. UNCHANGED <<secondary, fired, tasks>> /\ ui = << >>
      BY <1>1 DEF DispatchPacket, Idle, waiterVars
    <3>3. OnItsWay("flow") => OnItsWay("flow")'
      BY <3>2 DEF OnItsWay, Range
    <3> QED
      BY <2>1, <3>1, <3>3 DEF FlowGoesOn
  <2> QED
    BY <2>2, <2>3
<1>2. CASE PointerCallback
  <2>1. CASE inProgress /\ pending # 0
    <3>1. ui' = <<"flow", "pointer">>
      BY <1>2, <2>1 DEF PointerCallback
    <3>2. DOMAIN ui' = {1, 2} /\ ui'[1] = "flow"
      BY <3>1
    <3>3. "flow" \in Range(ui')
      BY <3>2 DEF Range
    <3> QED
      BY <3>3 DEF OnItsWay
  <2>2. CASE ~(inProgress /\ pending # 0)
    <3>1. flows /\ scheduled' = scheduled
      BY <1>2, <2>2 DEF PointerCallback, animatorVars
    <3>2. ~FlowCallback
      BY <1>2 DEF PointerCallback, FlowCallback, Starts
    <3>3. OnItsWay("flow") => OnItsWay("flow")'
      BY <3>2, StaysDue DEF Keys
    <3> QED
      BY <3>1, <3>3 DEF FlowGoesOn
  <2> QED
    BY <2>1, <2>2
<1>3. CASE FlowCallback
  BY <1>3, Zenon DEF FlowCallback, EndsFlows, animatorVars
<1>4. CASE ~DispatchPacket /\ ~PointerCallback /\ ~FlowCallback
  <2>1. flows /\ (scheduled => scheduled')
    BY <1>4, OthersKeepFlows
  <2>2. OnItsWay("flow") => OnItsWay("flow")'
    BY <1>4, StaysDue DEF Keys
  <2> QED
    BY <2>1, <2>2 DEF FlowGoesOn
<1> QED
  BY <1>1, <1>2, <1>3, <1>4

\* While flows are open the callback that ends them is due, or a frame that
\* will end them is scheduled (Animator::EnqueueTraceFlowId,
\* ScheduleMaybeClearTraceFlowIds): what FlowsEndUnlessTexture needs beside
\* fairness.
THEOREM NoFlowForgotten == Spec => []FlowGoesOn
<1>1. Init => FlowGoesOn
  BY DEF Init, FlowGoesOn
<1> QED
  BY <1>1, FlowGoesOnStep, PacingAlways, PTL DEF Spec
=============================================================================
