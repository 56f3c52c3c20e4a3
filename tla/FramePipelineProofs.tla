------------------------ MODULE FramePipelineProofs ------------------------
(***************************************************************************)
(* Proofs about the frame pipeline, for every depth and number of frames.  *)
(***************************************************************************)
EXTENDS FramePipeline, TLAPS

USE DepthAssumption, MaxFramesAssumption
USE DEF DepthAssumption, MaxFramesAssumption, TryWait, FirstItem,
        Bails, EmptyAfterBail, ShownAfter, ResubmittedItem

LEMMA DepthIsPositive == TypeOK => depth \in Nat \ {0}
BY DEF TypeOK

LEMMA DepthStays == [Next]_vars => depth' = depth
BY DEF Next, UiStep, RasterStep, vars, pipelineVars, Produce, ProducerCommit,
   SignalAvailable, OnAnimatorDraw, DestroyAnimator, PostRasterizerReset,
   ClaimItem, FindNothing, SkipDeadDraw, ResetRasterizer, ConsumeItem,
   ReleaseSlot, ProduceIfEmpty, ProducerCommitIfEmpty, Republish, FinishDraw

\* The Boolean variables, apart from the others: they are a step of their own
\* for the provers.
LEMMA FlagsStep == ASSUME Flags, [Next]_vars PROVE Flags'
<1> USE DEF Flags, pipelineVars, uiVars, rasterVars
<1>1. CASE Produce
  BY <1>1 DEF Produce
<1>2. CASE ProducerCommit
  BY <1>2 DEF ProducerCommit
<1>3. CASE SignalAvailable
  BY <1>3 DEF SignalAvailable
<1>4. CASE OnAnimatorDraw
  BY <1>4 DEF OnAnimatorDraw
<1>5. CASE DestroyAnimator
  BY <1>5 DEF DestroyAnimator
<1>6. CASE PostRasterizerReset
  BY <1>6 DEF PostRasterizerReset
<1>7. CASE ClaimItem
  BY <1>7 DEF ClaimItem
<1>8. CASE FindNothing
  BY <1>8 DEF FindNothing
<1>9. CASE SkipDeadDraw
  BY <1>9 DEF SkipDeadDraw
<1>10. CASE ResetRasterizer
  BY <1>10 DEF ResetRasterizer
<1>11. CASE ConsumeItem
  BY <1>11 DEF ConsumeItem
<1>12. CASE ReleaseSlot
  BY <1>12 DEF ReleaseSlot
<1>13. CASE ProduceIfEmpty
  BY <1>13 DEF ProduceIfEmpty
<1>14. CASE ProducerCommitIfEmpty
  BY <1>14 DEF ProducerCommitIfEmpty
<1>15. CASE Republish
  BY <1>15 DEF Republish
<1>16. CASE FinishDraw
  BY <1>16 DEF FinishDraw
<1>17. CASE UNCHANGED vars
  BY <1>17 DEF vars
<1>18. QED
  BY <1>1, <1>2, <1>3, <1>4, <1>5, <1>6, <1>7, <1>8, <1>9,
     <1>10, <1>11, <1>12, <1>13, <1>14, <1>15, <1>16, <1>17
     DEF Next, UiStep, RasterStep

\* Every variable keeps to the values it is declared for, whatever the two
\* threads do.
THEOREM TypeCorrect == Spec => []TypeOK
<1> USE DEF UiStates, RasterStates, RasterTasks, NullItem, Frames
<1>1. Init => TypeOK
  <2> SUFFICES ASSUME Init PROVE TypeOK
    OBVIOUS
  <2>1. Flags
    BY DEF Init, Flags
  <2>2. depth \in Depths /\ empty \in Nat /\ available \in Nat
    BY DEF Init
  <2>3. queue \in Seq(Frames \cup {NullItem}) /\ rasterTasks \in Seq(RasterTasks)
    BY DEF Init
  <2>4. QED
    BY <2>1, <2>2, <2>3 DEF Init, TypeOK
<1>2. TypeOK /\ [Next]_vars => TypeOK'
  <2> SUFFICES ASSUME TypeOK, [Next]_vars PROVE TypeOK'
    OBVIOUS
  <2>0. Flags'
    BY FlagsStep DEF TypeOK
  <2> USE <2>0 DEF TypeOK, pipelineVars, uiVars, rasterVars, NextTask, DrawRuns
  <2>1. CASE Produce
    BY <2>1 DEF Produce
  <2>2. CASE ProducerCommit
    BY <2>2 DEF ProducerCommit
  <2>3. CASE SignalAvailable
    BY <2>3 DEF SignalAvailable
  <2>4. CASE OnAnimatorDraw
    <3>1. rasterTasks' \in Seq(RasterTasks)
      BY <2>4 DEF OnAnimatorDraw
    <3>2. UNCHANGED <<depth, empty, available, queue, built, rasterPc, item, shown>>
      BY <2>4 DEF OnAnimatorDraw
    <3>3. uiPc' = "idle"
      BY <2>4 DEF OnAnimatorDraw
    <3>4. QED
      BY <3>1, <3>2, <3>3
  <2>5. CASE DestroyAnimator
    <3>1. queue' \in Seq(Frames \cup {NullItem})
      <4>1. Append(queue, NullItem) \in Seq(Frames \cup {NullItem})
        OBVIOUS
      <4>2. queue' = queue \/ queue' = Append(queue, NullItem)
        BY <2>5 DEF DestroyAnimator
      <4>3. QED
        BY <4>1, <4>2
    <3>2. /\ uiPc' \in {"dropping", "gone"}
          /\ UNCHANGED <<depth, empty, available, built, rasterVars, rasterTasks>>
      BY <2>5 DEF DestroyAnimator
    <3>3. QED
      BY <3>1, <3>2
  <2>6. CASE PostRasterizerReset
    BY <2>6 DEF PostRasterizerReset
  <2>7. CASE ClaimItem
    BY <2>7 DEF ClaimItem
  <2>8. CASE FindNothing
    BY <2>8 DEF FindNothing
  <2>9. CASE SkipDeadDraw
    BY <2>9 DEF SkipDeadDraw
  <2>10. CASE ResetRasterizer
    BY <2>10 DEF ResetRasterizer
  <2>11. CASE ConsumeItem
    BY <2>11 DEF ConsumeItem
  <2>12. CASE ReleaseSlot
    BY <2>12 DEF ReleaseSlot
  <2>13. CASE ProduceIfEmpty
    BY <2>13 DEF ProduceIfEmpty
  <2>14. CASE ProducerCommitIfEmpty
    <3>1. Append(queue, item) \in Seq(Frames \cup {NullItem})
      OBVIOUS
    <3>2. CASE queue = << >>
      BY <2>14, <3>1, <3>2 DEF ProducerCommitIfEmpty
    <3>3. CASE queue # << >>
      BY <2>14, <3>3 DEF ProducerCommitIfEmpty
    <3>4. QED
      BY <3>2, <3>3
  <2>15. CASE Republish
    BY <2>15 DEF Republish
  <2>16. CASE FinishDraw
    BY <2>16 DEF FinishDraw
  <2>17. CASE UNCHANGED vars
    BY <2>17 DEF vars
  <2>18. QED
    BY <2>1, <2>2, <2>3, <2>4, <2>5, <2>6, <2>7, <2>8, <2>9,
       <2>10, <2>11, <2>12, <2>13, <2>14, <2>15, <2>16, <2>17
       DEF Next, UiStep, RasterStep
<1>3. QED
  BY <1>1, <1>2, PTL DEF Spec

\* No interleaving leaks or mints a slot, and every count of available_
\* stands for one committed item that nobody has claimed.
THEOREM AccountsBalance == Spec => []Accounts
<1> USE DEF Accounts, SlotConservation, AvailableCounts, One
<1>1. Init => Accounts
  BY DEF Init
<1>2. TypeOK /\ Accounts /\ [Next]_vars => Accounts'
  <2> SUFFICES ASSUME TypeOK, Accounts, [Next]_vars PROVE Accounts'
    OBVIOUS
  <2>a. depth \in Nat /\ depth' = depth
    BY DepthIsPositive, DepthStays
  <2> USE <2>a
  <2> USE DEF TypeOK, pipelineVars, uiVars, rasterVars, NextTask, DrawRuns, Running
  <2>1. CASE Produce
    BY <2>1 DEF Produce
  <2>2. CASE ProducerCommit
    BY <2>2 DEF ProducerCommit
  <2>3. CASE SignalAvailable
    <3>1. uiPc \in {"publish", "dropping"} /\ uiPc' \in {"notify", "gone"}
      BY <2>3 DEF SignalAvailable
    <3>2. available' = available + 1
      BY <2>3 DEF SignalAvailable
    <3>3. UNCHANGED <<empty, queue, slotHeld, rasterPc>>
      BY <2>3 DEF SignalAvailable
    <3>4. SlotConservation'
      BY <3>3
    <3>5. AvailableCounts'
      BY <3>1, <3>2, <3>3
    <3>6. QED
      BY <3>4, <3>5
  <2>4. CASE OnAnimatorDraw
    BY <2>4 DEF OnAnimatorDraw
  <2>5. CASE DestroyAnimator
    <3>1. /\ uiPc = "idle" /\ slotHeld' = FALSE
          /\ UNCHANGED <<empty, available, rasterPc>>
      BY <2>5 DEF DestroyAnimator
    <3>2. CASE slotHeld
      <4>1. uiPc' = "dropping" /\ queue' = Append(queue, NullItem)
        BY <2>5, <3>2 DEF DestroyAnimator
      <4>2. Len(queue') = Len(queue) + 1
        BY <4>1
      <4>3. SlotConservation'
        BY <3>1, <3>2, <4>2
      <4>4. AvailableCounts'
        BY <3>1, <4>1, <4>2
      <4>5. QED
        BY <4>3, <4>4
    <3>3. CASE ~slotHeld
      <4>1. uiPc' = "gone" /\ queue' = queue
        BY <2>5, <3>3 DEF DestroyAnimator
      <4>2. QED
        BY <3>1, <3>3, <4>1
    <3>4. QED
      BY <3>2, <3>3
  <2>6. CASE PostRasterizerReset
    BY <2>6 DEF PostRasterizerReset
  <2>7. CASE ClaimItem
    BY <2>7 DEF ClaimItem
  <2>8. CASE FindNothing
    BY <2>8 DEF FindNothing
  <2>9. CASE SkipDeadDraw
    BY <2>9 DEF SkipDeadDraw
  <2>10. CASE ResetRasterizer
    BY <2>10 DEF ResetRasterizer
  <2>11. CASE ConsumeItem
    <3>1. Len(queue') = Len(queue) - 1
      BY <2>11 DEF ConsumeItem
    <3>2. rasterPc = "claimed" /\ rasterPc' \in {"crashed", "release"}
      BY <2>11 DEF ConsumeItem
    <3>3. UNCHANGED <<empty, available, uiPc, slotHeld>>
      BY <2>11 DEF ConsumeItem
    <3>4. SlotConservation'
      <4>1. rasterPc \notin {"release", "recommit", "crashed"}
        BY <3>2
      <4>2. rasterPc' \in {"release", "recommit", "crashed"}
        BY <3>2
      <4>3. QED
        BY <3>1, <3>3, <4>1, <4>2
    <3>5. AvailableCounts'
      BY <3>1, <3>2, <3>3
    <3>6. QED
      BY <3>4, <3>5
  <2>12. CASE ReleaseSlot
    BY <2>12 DEF ReleaseSlot
  <2>13. CASE ProduceIfEmpty
    BY <2>13 DEF ProduceIfEmpty
  <2>14. CASE ProducerCommitIfEmpty
    <3>1. rasterPc = "recommit" /\ UNCHANGED <<available, uiPc, slotHeld>>
      BY <2>14 DEF ProducerCommitIfEmpty
    <3>2. CASE queue = << >>
      <4>1. rasterPc' = "republish" /\ empty' = empty
        BY <2>14, <3>2 DEF ProducerCommitIfEmpty
      <4>2. Len(queue) = 0 /\ Len(queue') = 1
        BY <2>14, <3>2 DEF ProducerCommitIfEmpty
      <4>3. QED
        BY <3>1, <4>1, <4>2
    <3>3. CASE queue # << >>
      <4>1. rasterPc' = "finish" /\ empty' = empty + 1 /\ queue' = queue
        BY <2>14, <3>3 DEF ProducerCommitIfEmpty
      <4>2. QED
        BY <3>1, <4>1
    <3>4. QED
      BY <3>2, <3>3
  <2>15. CASE Republish
    BY <2>15 DEF Republish
  <2>16. CASE FinishDraw
    BY <2>16 DEF FinishDraw
  <2>17. CASE UNCHANGED vars
    BY <2>17 DEF vars
  <2>18. QED
    BY <2>1, <2>2, <2>3, <2>4, <2>5, <2>6, <2>7, <2>8, <2>9,
       <2>10, <2>11, <2>12, <2>13, <2>14, <2>15, <2>16, <2>17
       DEF Next, UiStep, RasterStep
<1>3. QED
  BY <1>1, <1>2, TypeCorrect, PTL DEF Spec

\* Consume never takes the front of an empty queue.
THEOREM ClaimedItemIsThere == Spec => []PopSafe
<1>1. TypeOK /\ Accounts => PopSafe
  BY DEF TypeOK, Accounts, AvailableCounts, PopSafe, One
<1>2. QED
  BY <1>1, TypeCorrect, AccountsBalance, PTL

\* The order of the waiting frames survives every interleaving of commits,
\* resubmissions and draws.
THEOREM OrderKept == Spec => []FramesInOrder
<1> USE DEF FramesInOrder, Ascending, RetriedBeforeWaiting
<1>1. Init => FramesInOrder
  BY DEF Init
<1>2. TypeOK /\ FramesInOrder /\ [Next]_vars => FramesInOrder'
  <2> SUFFICES ASSUME TypeOK, FramesInOrder, [Next]_vars PROVE FramesInOrder'
    OBVIOUS
  <2> USE DEF TypeOK, Frames, NullItem, pipelineVars, uiVars, rasterVars
  <2>1. CASE Produce
    BY <2>1 DEF Produce
  <2>2. CASE ProducerCommit
    BY <2>2 DEF ProducerCommit
  <2>3. CASE SignalAvailable
    BY <2>3 DEF SignalAvailable
  <2>4. CASE OnAnimatorDraw
    BY <2>4 DEF OnAnimatorDraw
  <2>5. CASE DestroyAnimator
    <3>1. CASE slotHeld
      <4>1. queue' = Append(queue, NullItem)
        BY <2>5, <3>1 DEF DestroyAnimator
      <4>2. UNCHANGED <<shown, built, item, retry, rasterPc>>
        BY <2>5 DEF DestroyAnimator
      <4>3. QED
        BY <4>1, <4>2
    <3>2. CASE ~slotHeld
      BY <2>5, <3>2 DEF DestroyAnimator
    <3>3. QED
      BY <3>1, <3>2
  <2>6. CASE PostRasterizerReset
    BY <2>6 DEF PostRasterizerReset
  <2>7. CASE ClaimItem
    BY <2>7 DEF ClaimItem
  <2>8. CASE FindNothing
    BY <2>8 DEF FindNothing
  <2>9. CASE SkipDeadDraw
    BY <2>9 DEF SkipDeadDraw
  <2>10. CASE ResetRasterizer
    BY <2>10 DEF ResetRasterizer
  <2>11. CASE ConsumeItem
    BY <2>11 DEF ConsumeItem
  <2>12. CASE ReleaseSlot
    BY <2>12 DEF ReleaseSlot
  <2>13. CASE ProduceIfEmpty
    BY <2>13 DEF ProduceIfEmpty
  <2>14. CASE ProducerCommitIfEmpty
    BY <2>14 DEF ProducerCommitIfEmpty
  <2>15. CASE Republish
    BY <2>15 DEF Republish
  <2>16. CASE FinishDraw
    BY <2>16 DEF FinishDraw
  <2>17. CASE UNCHANGED vars
    BY <2>17 DEF vars
  <2>18. QED
    BY <2>1, <2>2, <2>3, <2>4, <2>5, <2>6, <2>7, <2>8, <2>9,
       <2>10, <2>11, <2>12, <2>13, <2>14, <2>15, <2>16, <2>17
       DEF Next, UiStep, RasterStep
<1>3. QED
  BY <1>1, <1>2, TypeCorrect, PTL DEF Spec

\* A null item is queued by the Animator's destructor only, and is the last
\* item ever queued.
THEOREM NullItemIsLast == Spec => []NullItemEndsTheQueue
<1> USE DEF NullItemEndsTheQueue, ShuttingDown
<1>1. Init => NullItemEndsTheQueue
  BY DEF Init
<1>2. TypeOK /\ FramesInOrder /\ NullItemEndsTheQueue /\ [Next]_vars
      => NullItemEndsTheQueue'
  <2> SUFFICES ASSUME TypeOK, FramesInOrder, NullItemEndsTheQueue, [Next]_vars
               PROVE  NullItemEndsTheQueue'
    OBVIOUS
  <2> USE DEF TypeOK, Frames, NullItem, UiStates, RasterStates, pipelineVars,
              uiVars, rasterVars, DrawRuns, Running
  <2>1. CASE Produce
    BY <2>1 DEF Produce
  <2>2. CASE ProducerCommit
    <3>1. \A i \in 1..Len(queue) : queue[i] # NullItem
      BY <2>2 DEF ProducerCommit
    <3>2. \A i \in 1..Len(queue') : queue'[i] # NullItem
      BY <2>2, <3>1 DEF ProducerCommit
    <3>3. rasterPc' = rasterPc /\ rasterPc # "crashed"
      BY <2>2 DEF ProducerCommit
    <3>4. QED
      BY <3>2, <3>3
  <2>3. CASE SignalAvailable
    BY <2>3 DEF SignalAvailable
  <2>4. CASE OnAnimatorDraw
    BY <2>4 DEF OnAnimatorDraw
  <2>5. CASE DestroyAnimator
    <3>1. \A i \in 1..Len(queue) : queue[i] # NullItem
      BY <2>5 DEF DestroyAnimator
    <3>2. uiPc' \in {"dropping", "gone"} /\ rasterPc' = rasterPc
      BY <2>5 DEF DestroyAnimator
    <3>3. queue' = Append(queue, NullItem) \/ queue' = queue
      BY <2>5 DEF DestroyAnimator
    <3>4. rasterPc' # "crashed"
      BY <2>5 DEF DestroyAnimator
    <3>5. QED
      BY <3>1, <3>2, <3>3, <3>4
  <2>6. CASE PostRasterizerReset
    BY <2>6 DEF PostRasterizerReset
  <2>7. CASE ClaimItem
    BY <2>7 DEF ClaimItem
  <2>8. CASE FindNothing
    BY <2>8 DEF FindNothing
  <2>9. CASE SkipDeadDraw
    BY <2>9 DEF SkipDeadDraw
  <2>10. CASE ResetRasterizer
    BY <2>10 DEF ResetRasterizer
  <2>11. CASE ConsumeItem
    BY <2>11 DEF ConsumeItem
  <2>12. CASE ReleaseSlot
    BY <2>12 DEF ReleaseSlot
  <2>13. CASE ProduceIfEmpty
    BY <2>13 DEF ProduceIfEmpty
  <2>14. CASE ProducerCommitIfEmpty
    <3>1. item # NullItem
      BY <2>14 DEF ProducerCommitIfEmpty, FramesInOrder, RetriedBeforeWaiting
    <3>2. rasterPc' # "crashed" /\ uiPc' = uiPc
      BY <2>14 DEF ProducerCommitIfEmpty
    <3>3. CASE queue = << >>
      <4>1. queue' = Append(queue, item)
        BY <2>14, <3>3 DEF ProducerCommitIfEmpty
      <4>2. Len(queue') = 1 /\ queue'[1] = item
        BY <3>3, <4>1
      <4>3. QED
        BY <3>1, <3>2, <4>2
    <3>4. CASE queue # << >>
      BY <2>14, <3>2, <3>4 DEF ProducerCommitIfEmpty
    <3>5. QED
      BY <3>3, <3>4
  <2>15. CASE Republish
    BY <2>15 DEF Republish
  <2>16. CASE FinishDraw
    BY <2>16 DEF FinishDraw
  <2>17. CASE UNCHANGED vars
    BY <2>17 DEF vars
  <2>18. QED
    BY <2>1, <2>2, <2>3, <2>4, <2>5, <2>6, <2>7, <2>8, <2>9,
       <2>10, <2>11, <2>12, <2>13, <2>14, <2>15, <2>16, <2>17
       DEF Next, UiStep, RasterStep
<1>3. QED
  BY <1>1, <1>2, TypeCorrect, OrderKept, PTL DEF Spec

\* With one slot every commit is announced, the rasterizer lives until the UI
\* thread is gone, and a waiting frame has a Draw task, or a Draw under way
\* that takes it or posts another one.
Announces  == uiPc \in {"publish", "notify"} => isFirst
DrawComing == Posted("first") \/ Posted("more")
Alive      == uiPc # "joined" => rasterizer /\ ~Posted("reset")
Wakes ==
  uiPc = "idle" /\ queue # << >> =>
    \/ DrawComing
    \/ rasterPc \in {"claimed", "republish"}
    \/ rasterPc = "finish" /\ more
WakeInv == Announces /\ Alive /\ Wakes

LEMMA PostedAfterAppend ==
  ASSUME NEW task \in RasterTasks, rasterTasks \in Seq(RasterTasks),
         rasterTasks' = Append(rasterTasks, task)
  PROVE  \A t : Posted(t)' <=> Posted(t) \/ t = task
<1> DEFINE n == Len(rasterTasks)
<1>1. /\ n \in Nat /\ Len(rasterTasks') = n + 1 /\ rasterTasks'[n + 1] = task
      /\ \A i \in 1..n : rasterTasks'[i] = rasterTasks[i]
  OBVIOUS
<1>2. ASSUME NEW t, Posted(t)
      PROVE  Posted(t)'
  BY <1>1, <1>2 DEF Posted
<1>3. Posted(task)'
  BY <1>1 DEF Posted
<1>4. ASSUME NEW t, Posted(t)', t # task
      PROVE  Posted(t)
  BY <1>1, <1>4 DEF Posted
<1> QED
  BY <1>2, <1>3, <1>4

LEMMA PostedAfterTail ==
  ASSUME rasterTasks \in Seq(RasterTasks), rasterTasks # << >>, NextTask
  PROVE  \A t : Posted(t)' => Posted(t)
BY DEF NextTask, Posted

LEMMA HeadPosted ==
  ASSUME rasterTasks \in Seq(RasterTasks), rasterTasks # << >>
  PROVE  Posted(Head(rasterTasks))
BY DEF Posted

\* With one slot, a frame that waits while nobody is at work has a Draw on its
\* way: a Draw that came too early left nothing behind (Pipeline::Consume,
\* Shell::OnAnimatorDraw).  With more slots this is not so.
THEOREM FrameWakesRasterizer == Spec => []WakePending
<1> USE DEF WakeInv
<1> DEFINE Inv == depth = 1 => WakeInv
<1>1. Init => Inv
  BY DEF Init, Announces, Alive, Wakes, Posted
<1>2. TypeOK /\ Accounts /\ Inv /\ [Next]_vars => Inv'
  <2> SUFFICES ASSUME TypeOK, Accounts, WakeInv, [Next]_vars, depth = 1
               PROVE  WakeInv'
    BY DepthStays
  <2>a. /\ rasterTasks \in Seq(RasterTasks) /\ Len(queue) \in Nat
        /\ (queue # << >> <=> Len(queue) > 0) /\ empty \in Nat /\ available \in Nat
    BY DEF TypeOK
  <2>b. /\ Len(queue) > 0 => ~slotHeld /\ rasterPc \notin {"release", "recommit", "crashed"}
        /\ slotHeld => queue = << >>
        /\ Len(queue) <= 1
    <3>1. One(slotHeld) \in {0, 1} /\ (slotHeld => One(slotHeld) = 1)
      BY DEF One
    <3>2. /\ One(rasterPc \in {"release", "recommit", "crashed"}) \in {0, 1}
          /\ rasterPc \in {"release", "recommit", "crashed"}
               => One(rasterPc \in {"release", "recommit", "crashed"}) = 1
      BY DEF One
    <3> QED
      BY <2>a, <3>1, <3>2 DEF Accounts, SlotConservation
  <2> USE DEF pipelineVars, uiVars, rasterVars
  <2>1. CASE Produce
    BY <2>1 DEF Produce, Announces, Alive, Wakes, DrawComing, Posted
  <2>2. CASE ProducerCommit
    <3>1. /\ uiPc = "idle" /\ uiPc' = "publish" /\ isFirst' = TRUE
      BY <2>2, <2>b DEF ProducerCommit
    <3>2. UNCHANGED <<rasterTasks, rasterizer>>
      BY <2>2 DEF ProducerCommit
    <3> QED
      BY <3>1, <3>2 DEF Announces, Alive, Wakes, Posted
  <2>3. CASE SignalAvailable
    BY <2>3 DEF SignalAvailable, Announces, Alive, Wakes, DrawComing, Posted
  <2>4. CASE OnAnimatorDraw
    <3>1. isFirst /\ rasterTasks' = Append(rasterTasks, "first")
      BY <2>4 DEF OnAnimatorDraw, Announces
    <3>2. \A t : Posted(t)' <=> Posted(t) \/ t = "first"
      BY <2>a, <3>1, PostedAfterAppend DEF RasterTasks
    <3>3. uiPc = "notify" /\ uiPc' = "idle" /\ rasterizer' = rasterizer
      BY <2>4 DEF OnAnimatorDraw
    <3> QED
      BY <3>2, <3>3 DEF Announces, Alive, Wakes, DrawComing
  <2>5. CASE DestroyAnimator
    BY <2>5 DEF DestroyAnimator, Announces, Alive, Wakes, DrawComing, Posted
  <2>6. CASE PostRasterizerReset
    BY <2>6 DEF PostRasterizerReset, Announces, Alive, Wakes
  <2>7. CASE ClaimItem
    <3>1. \A t : Posted(t)' => Posted(t)
      BY <2>7, <2>a, PostedAfterTail DEF ClaimItem, DrawRuns
    <3>2. rasterPc' = "claimed" /\ UNCHANGED <<uiPc, isFirst, rasterizer>>
      BY <2>7 DEF ClaimItem
    <3> QED
      BY <3>1, <3>2 DEF Announces, Alive, Wakes
  <2>8. CASE FindNothing
    <3>1. \A t : Posted(t)' => Posted(t)
      BY <2>8, <2>a, PostedAfterTail DEF FindNothing, DrawRuns
    <3>2. /\ rasterPc = "idle" /\ available = 0
          /\ UNCHANGED <<uiPc, isFirst, rasterizer, queue>>
      BY <2>8, <2>a DEF FindNothing, DrawRuns
    <3>3. uiPc = "idle" => queue = << >>
      BY <2>a, <3>2 DEF Accounts, AvailableCounts, One
    <3> QED
      BY <3>1, <3>2, <3>3 DEF Announces, Alive, Wakes
  <2>9. CASE SkipDeadDraw
    <3>1. \A t : Posted(t)' => Posted(t)
      BY <2>9, <2>a, PostedAfterTail DEF SkipDeadDraw
    <3>2. uiPc # "idle" /\ UNCHANGED <<uiPc, isFirst, rasterizer>>
      BY <2>9 DEF SkipDeadDraw, DrawRuns, PipelineAlive, Alive
    <3> QED
      BY <3>1, <3>2 DEF Announces, Alive, Wakes
  <2>10. CASE ResetRasterizer
    <3>1. Posted("reset")
      BY <2>10, <2>a, HeadPosted DEF ResetRasterizer
    <3>2. uiPc = "joined" /\ UNCHANGED <<uiPc, isFirst>>
      BY <2>10, <3>1 DEF ResetRasterizer, Alive
    <3> QED
      BY <3>2 DEF Announces, Alive, Wakes
  <2>11. CASE ConsumeItem
    <3>1. Len(queue) = 1
      <4>1. Len(queue) > 0
        <5>1. queue # << >>
          BY <2>11 DEF ConsumeItem
        <5> QED
          BY <5>1 DEF TypeOK
      <4>2. Len(queue) \in Nat
        BY <2>a
      <4>3. Len(queue) <= 1
        BY <2>b
      <4> QED
        BY <4>1, <4>2, <4>3
    <3>2. queue' = << >>
      BY <2>11, <3>1 DEF ConsumeItem, TypeOK
    <3>3. UNCHANGED <<uiPc, isFirst, rasterizer, rasterTasks>>
      BY <2>11 DEF ConsumeItem
    <3> QED
      BY <3>2, <3>3 DEF Announces, Alive, Wakes, Posted
  <2>12. CASE ReleaseSlot
    BY <2>12 DEF ReleaseSlot, Announces, Alive, Wakes, DrawComing, Posted
  <2>13. CASE ProduceIfEmpty
    BY <2>13 DEF ProduceIfEmpty, Announces, Alive, Wakes, DrawComing, Posted
  <2>14. CASE ProducerCommitIfEmpty
    BY <2>14 DEF ProducerCommitIfEmpty, Announces, Alive, Wakes, DrawComing, Posted
  <2>15. CASE Republish
    BY <2>15 DEF Republish, Announces, Alive, Wakes, DrawComing, Posted
  <2>16. CASE FinishDraw
    <3>1. UNCHANGED <<uiPc, isFirst, rasterizer, queue>> /\ rasterPc = "finish"
      BY <2>16 DEF FinishDraw
    <3>2. CASE more
      <4>1. \A t : Posted(t)' <=> Posted(t) \/ t = "more"
        <5>1. rasterTasks' = Append(rasterTasks, "more")
          BY <2>16, <3>2 DEF FinishDraw
        <5> QED
          BY <2>a, <5>1, PostedAfterAppend DEF RasterTasks
      <4> QED
        BY <3>1, <4>1 DEF Announces, Alive, Wakes, DrawComing
    <3>3. CASE ~more
      <4>1. rasterTasks' = rasterTasks
        BY <2>16, <3>3 DEF FinishDraw
      <4> QED
        BY <3>1, <3>3, <4>1 DEF Announces, Alive, Wakes, DrawComing, Posted
    <3> QED
      BY <3>2, <3>3
  <2>17. CASE UNCHANGED vars
    BY <2>17 DEF vars, Announces, Alive, Wakes, DrawComing, Posted
  <2> QED
    BY <2>1, <2>2, <2>3, <2>4, <2>5, <2>6, <2>7, <2>8, <2>9, <2>10, <2>11,
       <2>12, <2>13, <2>14, <2>15, <2>16, <2>17 DEF Next, UiStep, RasterStep
<1>3. Inv => WakePending
  BY DEF Wakes, WakePending, DrawComing
<1> QED
  BY <1>1, <1>2, <1>3, TypeCorrect, AccountsBalance, PTL DEF Spec

\* A frame that is already old never replaces a newer one on screen.
THEOREM NeverStale == Spec => NoStaleFrame
<1>1. TypeOK /\ FramesInOrder /\ [Next]_vars => [shown' >= shown]_shown
  <2> SUFFICES ASSUME TypeOK, FramesInOrder, [Next]_vars, shown' # shown
               PROVE  shown' >= shown
    OBVIOUS
  <2>1. ConsumeItem
    BY DEF Next, UiStep, RasterStep, vars, rasterVars, Produce, ProducerCommit, SignalAvailable, OnAnimatorDraw, DestroyAnimator, PostRasterizerReset, ClaimItem, FindNothing, SkipDeadDraw, ResetRasterizer, ReleaseSlot, ProduceIfEmpty, ProducerCommitIfEmpty, Republish, FinishDraw
  <2>2. shown' = queue[1] /\ queue[1] # NullItem /\ Len(queue) > 0
    BY <2>1 DEF ConsumeItem, TypeOK
  <2>3. QED
    BY <2>2 DEF TypeOK, FramesInOrder, Ascending, Frames, NullItem
<1>2. QED
  BY <1>1, TypeCorrect, OrderKept, PTL DEF Spec, NoStaleFrame

\* A frame is given up only in favour of another one.
THEOREM OnlyFrameIsKept == Spec => NeverDropsTheOnlyFrame
<1>1. TypeOK /\ SlotConservation /\ [Next]_vars
      => [GivesUp => queue # << >> \/ slotHeld]_vars
  <2> SUFFICES ASSUME TypeOK, SlotConservation, Next, GivesUp,
                      queue = << >>, ~slotHeld
               PROVE  FALSE
    BY DEF TypeOK
  <2>1. rasterPc \in {"retry", "recommit"} /\ rasterPc' = "finish"
    BY DEF GivesUp
  <2>2. ProduceIfEmpty \/ ProducerCommitIfEmpty
    BY <2>1 DEF Next, UiStep, RasterStep, rasterVars, DrawRuns, Produce, ProducerCommit, SignalAvailable, OnAnimatorDraw, DestroyAnimator, PostRasterizerReset, ClaimItem, FindNothing, SkipDeadDraw, ResetRasterizer, ConsumeItem, ReleaseSlot, Republish, FinishDraw
  <2>3. rasterPc = "retry" /\ empty = 0
    BY <2>1, <2>2 DEF ProduceIfEmpty, ProducerCommitIfEmpty, TypeOK
  <2>4. QED
    BY <2>3, DepthIsPositive DEF SlotConservation, One
<1>2. SlotConservation /\ AvailableCounts => SlotConservation
  OBVIOUS
<1>3. QED
  BY <1>1, <1>2, TypeCorrect, AccountsBalance, PTL
     DEF Spec, NeverDropsTheOnlyFrame, Accounts

\* The pipeline implements the bounded queue of FrameQueue: every step is a
\* reservation, a commit, a cancellation, a take, a release, or a stutter.
THEOREM PipelineImplementsQueue == Spec => ImplementsFrameQueue
<1> USE DEF One
<1>1. Init => Slots!QueueInit
  BY DEF Init, Slots!QueueInit
<1>2. TypeOK /\ SlotConservation /\ Next => [Slots!QueueNext]_(Slots!queueVars)
  <2> SUFFICES ASSUME TypeOK, SlotConservation, Next
               PROVE  Slots!QueueNext \/ UNCHANGED Slots!queueVars
    OBVIOUS
  <2> USE DEF TypeOK, Flags, Running, pipelineVars, uiVars, rasterVars
  <2>1. CASE Produce
    <3>1. ~slotHeld /\ slotHeld'
      BY <2>1 DEF Produce
    <3>2. empty > 0 /\ UNCHANGED <<queue, rasterPc>>
      BY <2>1 DEF Produce
    <3>3. empty + Len(queue)
            + One(rasterPc \in {"release", "recommit", "crashed"}) = depth
      BY <3>1 DEF SlotConservation
    <3>4. One(rasterPc = "recommit") + Len(queue)
            + One(rasterPc \in {"release", "crashed"}) < depth
      <4>1. empty > 0 /\ Len(queue) \in Nat
        BY <3>2
      <4>2. CASE rasterPc = "recommit"
        BY <3>3, <4>1, <4>2
      <4>3. CASE rasterPc # "recommit"
        BY <3>3, <4>1, <4>3
      <4>4. QED
        BY <4>2, <4>3
    <3>5. One(slotHeld') = 1 /\ One(slotHeld) = 0
      BY <3>1
    <3>6. (One(slotHeld) + One(rasterPc = "recommit"))'
            = One(slotHeld) + One(rasterPc = "recommit") + 1
      <4>1. UNCHANGED One(rasterPc = "recommit")
        BY <3>2
      <4>2. QED
        BY <3>5, <4>1
    <3>7. One(slotHeld) + One(rasterPc = "recommit") + Len(queue)
            + (IF rasterPc \in {"release", "crashed"} THEN 1 ELSE 0) < depth
      <4>1. CASE rasterPc = "recommit"
        BY <3>1, <3>4, <4>1
      <4>2. CASE rasterPc # "recommit"
        BY <3>1, <3>4, <4>2
      <4>3. QED
        BY <4>1, <4>2
    <3>8. UNCHANGED <<depth, queue, rasterPc \in {"release", "crashed"}>>
      BY <2>1, <3>2 DEF Produce
    <3>9. Slots!Reserve
      BY <3>6, <3>7, <3>8 DEF Slots!Reserve
    <3>10. QED
      BY <3>9 DEF Slots!QueueNext
  <2>2. CASE ProducerCommit
    <3>1. built + 1 \in Frames
      BY <2>2 DEF ProducerCommit, Frames
    <3>2. Slots!Commit
      BY <2>2, <3>1 DEF ProducerCommit, Slots!Commit
    <3>3. QED
      BY <3>2 DEF Slots!QueueNext
  <2>3. CASE DestroyAnimator
    <3>1. CASE slotHeld
      <4>1. Slots!Commit
        BY <2>3, <3>1 DEF DestroyAnimator, Slots!Commit
      <4>2. QED
        BY <4>1 DEF Slots!QueueNext
    <3>2. CASE ~slotHeld
      BY <2>3, <3>2 DEF DestroyAnimator, Slots!queueVars
    <3>3. QED
      BY <3>1, <3>2
  <2>4. CASE ConsumeItem
    <3>1. Slots!Take
      BY <2>4 DEF ConsumeItem, Slots!Take
    <3>2. QED
      BY <3>1 DEF Slots!QueueNext
  <2>5. CASE ReleaseSlot
    <3>1. Slots!Release
      BY <2>5 DEF ReleaseSlot, Slots!Release
    <3>2. QED
      BY <3>1 DEF Slots!QueueNext
  <2>6. CASE ProduceIfEmpty
    <3>1. CASE empty > 0
      <4>1. Slots!Reserve
        BY <2>6, <3>1 DEF ProduceIfEmpty, Slots!Reserve, SlotConservation
      <4>2. QED
        BY <4>1 DEF Slots!QueueNext
    <3>2. CASE ~(empty > 0)
      BY <2>6, <3>2 DEF ProduceIfEmpty, Slots!queueVars
    <3>3. QED
      BY <3>1, <3>2
  <2>7. CASE ProducerCommitIfEmpty
    <3>1. CASE queue = << >>
      <4>1. Slots!Commit
        BY <2>7, <3>1 DEF ProducerCommitIfEmpty, Slots!Commit
      <4>2. QED
        BY <4>1 DEF Slots!QueueNext
    <3>2. CASE queue # << >>
      <4>1. Slots!Cancel
        BY <2>7, <3>2 DEF ProducerCommitIfEmpty, Slots!Cancel
      <4>2. QED
        BY <4>1 DEF Slots!QueueNext
    <3>3. QED
      BY <3>1, <3>2
  <2>8. CASE SignalAvailable \/ OnAnimatorDraw \/ PostRasterizerReset
    BY <2>8 DEF SignalAvailable, OnAnimatorDraw, PostRasterizerReset,
                Slots!queueVars
  <2>9. CASE ClaimItem \/ FindNothing \/ SkipDeadDraw \/ ResetRasterizer
    BY <2>9 DEF ClaimItem, FindNothing, SkipDeadDraw, ResetRasterizer,
                DrawRuns, Slots!queueVars
  <2>10. CASE Republish \/ FinishDraw
    BY <2>10 DEF Republish, FinishDraw, Slots!queueVars
  <2>11. QED
    BY <2>1, <2>2, <2>3, <2>4, <2>5, <2>6, <2>7, <2>8, <2>9, <2>10
       DEF Next, UiStep, RasterStep
<1>3. UNCHANGED vars => UNCHANGED Slots!queueVars
  BY DEF vars, pipelineVars, uiVars, rasterVars, Slots!queueVars
<1>4. TypeOK /\ SlotConservation /\ [Next]_vars
      => [Slots!QueueNext]_(Slots!queueVars)
  BY <1>2, <1>3
<1>5. QED
  BY <1>1, <1>4, TypeCorrect, AccountsBalance, PTL
     DEF Spec, Accounts, ImplementsFrameQueue, Slots!QueueSpec
=============================================================================
