------------------------- MODULE ThreadMergerProofs --------------------------
(***************************************************************************)
(* Proofs about ThreadMerger, for every set of rasterizers, lease and      *)
(* overlap: merged queues always have a lease that will run out, one       *)
(* MergeWithLease is under way at most, and merged queues are never merged *)
(* again.                                                                  *)
(***************************************************************************)
EXTENDS ThreadMerger, SequenceTheorems, TLAPS

\* Only one thread is between the merge of the queues and the record of its
\* lease: the mutex of the SharedThreadMerger is held there.
OneRecords ==
  \A t, u \in Threads :
    running[t].at = "record" /\ running[u].at = "record" => t = u

NeverMergedTwice == failed # "merge"

\* The inductive invariant.
IInv == TypeOK /\ MergedHasLease /\ OneRecords /\ NeverMergedTwice

-----------------------------------------------------------------------------
(* How what the threads do changes.                                        *)

LEMMA IdleIsWork == Idle \in Works
BY MergerAssumption DEF Idle, Start, Work, Works, Places, FrameKinds

LEMMA StartIsWork ==
  ASSUME NEW at \in Places, NEW r \in Rasterizers
  PROVE  Start(at, r) \in Works /\ Start(at, r).at = at /\ Start(at, r).r = r
BY DEF Start, Work, Works, FrameKinds

\* A thread goes on to its next place.
LEMMA GotoKeeps ==
  ASSUME TypeOK, NEW t \in Threads, NEW at \in Places, Goto(t, at)
  PROVE  /\ running' \in [Threads -> Works]
         /\ running'[t].at = at /\ running'[t].r = running[t].r
         /\ \A u \in Threads \ {t} : running'[u] = running[u]
<1>1. running \in [Threads -> Works] /\ running[t] \in Works
  BY DEF TypeOK
<1>2. [running[t] EXCEPT !.at = at] \in Works
  BY <1>1 DEF Works
<1>3. [running[t] EXCEPT !.at = at].at = at
      /\ [running[t] EXCEPT !.at = at].r = running[t].r
  BY <1>1 DEF Works
<1>4. running' = [running EXCEPT ![t] = [running[t] EXCEPT !.at = at]]
  BY DEF Goto, Do
<1> QED
  BY <1>1, <1>2, <1>3, <1>4

\* A thread takes up other work.
LEMMA DoKeeps ==
  ASSUME TypeOK, NEW t \in Threads, NEW w \in Works, Do(t, w)
  PROVE  /\ running' \in [Threads -> Works]
         /\ running'[t] = w
         /\ \A u \in Threads \ {t} : running'[u] = running[u]
BY DEF TypeOK, Do

\* A thread ends, and the one that waits for it goes on.
LEMMA ReleaseKeeps ==
  ASSUME TypeOK, NEW t \in Threads, Release(t)
  PROVE  /\ running' \in [Threads -> Works]
         /\ \A u \in Threads : running'[u] = Idle \/ running'[u] = running[u]
         /\ \A u \in Threads \ {t} :
              running[u].at # "waits" => running'[u] = running[u]
BY IdleIsWork DEF TypeOK, Release

\* A thread that was not at "record" moves to another place.
Moves(t) ==
  /\ running[t].at # "record" /\ running'[t].at # "record"
  /\ \A u \in Threads \ {t} :
       (running'[u].at = "record") <=> (running[u].at = "record")

LEMMA GotoMoves ==
  ASSUME TypeOK, NEW t \in Threads, NEW at \in Places \ {"record"},
         running[t].at # "record", Goto(t, at)
  PROVE  Moves(t) /\ running' \in [Threads -> Works]
BY GotoKeeps DEF Moves

LEMMA DoMoves ==
  ASSUME TypeOK, NEW t \in Threads, NEW w \in Works, w.at # "record",
         running[t].at # "record", Do(t, w)
  PROVE  Moves(t) /\ running' \in [Threads -> Works]
BY DoKeeps DEF Moves

LEMMA ReleaseMoves ==
  ASSUME TypeOK, NEW t \in Threads, running[t].at # "record", Release(t)
  PROVE  Moves(t) /\ running' \in [Threads -> Works]
<1>1. Idle.at = "idle"
  BY DEF Idle, Start, Work
<1>2. running'[t] = Idle
  BY DEF Release
<1>3. ASSUME NEW u \in Threads \ {t}
      PROVE  (running'[u].at = "record") <=> (running[u].at = "record")
  BY <1>1 DEF Release
<1> QED
  BY <1>1, <1>2, <1>3, ReleaseKeeps DEF Moves

\* Such a move keeps the invariant when the queues and the leases stay.
LEMMA MovesKeep ==
  ASSUME MergedHasLease, OneRecords, NEW t \in Threads, Moves(t),
         UNCHANGED <<merged, lease>>
  PROVE  MergedHasLease' /\ OneRecords'
<1>1. \A u \in Threads : (running'[u].at = "record") <=> (running[u].at = "record")
  BY DEF Moves
<1> QED
  BY <1>1 DEF MergedHasLease, OneRecords, IsMerged, AllLeaseTermsZero

\* It keeps it as well when a lease is left, or the queues are separate.
LEMMA MovesLeased ==
  ASSUME OneRecords, NEW t \in Threads, Moves(t), merged' = "no" \/ IsMerged'
  PROVE  MergedHasLease' /\ OneRecords'
BY DEF MergedHasLease, OneRecords, Moves

\* The queue of raster tasks keeps its type.
LEMMA PostKeeps ==
  ASSUME TypeOK, NEW task \in Tasks, Post(task)
  PROVE  rasterQ' \in Seq(Tasks)
BY AppendProperties DEF TypeOK, Post

LEMMA EnabledKeeps ==
  ASSUME TypeOK, NEW r, NEW v \in {"no", "yes"}, SetEnabled(r, v)
  PROVE  enabled' \in {"no", "yes"}
BY DEF TypeOK, SetEnabled

LEMMA InitInv == Init => IInv
<1> SUFFICES ASSUME Init PROVE IInv
  OBVIOUS
<1>1. running \in [Threads -> Works] /\ \A t \in Threads : running[t].at = "idle"
  BY IdleIsWork DEF Init, Idle, Start, Work
<1>2. TypeOK
  <2>1. lease \in [Rasterizers -> Nat \cup {NoRecord}]
    BY DEF Init
  <2>2. rasterQ \in Seq(Tasks) /\ frames \in [Rasterizers -> Seq(FrameKinds)]
    BY DEF Init
  <2> QED
    BY <1>1, <2>1, <2>2, MergerAssumption DEF Init, TypeOK
<1>3. MergedHasLease /\ OneRecords /\ NeverMergedTwice
  BY <1>1 DEF Init, MergedHasLease, OneRecords, NeverMergedTwice
<1> QED
  BY <1>2, <1>3 DEF IInv

-----------------------------------------------------------------------------
(* Each action keeps the invariant.                                        *)

\* What is left to show of an action that leaves the merger alone.
LEMMA QuietKeeps ==
  ASSUME IInv, NEW t \in Threads, Moves(t), running' \in [Threads -> Works],
         UNCHANGED <<merged, lease, engineVars, failed>>,
         enabled' \in {"no", "yes"}, rasterQ' \in Seq(Tasks),
         overlapped' \in Nat,
         surface' \in [Rasterizers -> {"never", "none", "set"}],
         shown' \in [Rasterizers -> {"no", "yes"}]
  PROVE  IInv'
<1>1. MergedHasLease' /\ OneRecords'
  BY MovesKeep DEF IInv
<1>2. TypeOK'
  BY DEF IInv, TypeOK, engineVars
<1>3. NeverMergedTwice'
  BY DEF IInv, NeverMergedTwice
<1> QED
  BY <1>1, <1>2, <1>3 DEF IInv

LEMMA BesideKeeps ==
  ASSUME TypeOK, BesideDraw
  PROVE  overlapped' \in Nat
BY DEF TypeOK, BesideDraw

LEMMA TakeTaskInv ==
  ASSUME IInv, NEW t \in Threads, TakeTask(t)
  PROVE  IInv'
<1>1. Idle.at = "idle"
  BY DEF Idle, Start, Work
<1>2. /\ Head(rasterQ) \in Tasks /\ Tail(rasterQ) \in Seq(Tasks)
  BY HeadTailProperties DEF IInv, TypeOK, TakeTask
<1> DEFINE w == Start(Head(rasterQ).kind, Head(rasterQ).r)
<1>3. Head(rasterQ).kind \in Places \ {"record"} /\ Head(rasterQ).r \in Rasterizers
  BY <1>2 DEF Tasks, Places
<1>4. w \in Works /\ w.at # "record"
  BY <1>3, StartIsWork
<1>5. Do(t, w) /\ running[t].at # "record"
  BY <1>1 DEF TakeTask
<1> HIDE DEF w
<1>6. Moves(t) /\ running' \in [Threads -> Works]
  BY <1>4, <1>5, DoMoves DEF IInv
<1>7. overlapped' \in Nat
  BY BesideKeeps DEF TakeTask, IInv
<1> QED
  BY <1>2, <1>6, <1>7, QuietKeeps DEF TakeTask, IInv, TypeOK, mergerVars

LEMMA DrawInv ==
  ASSUME IInv, NEW t \in Threads, Draw(t)
  PROVE  IInv'
<1>1. Idle.at = "idle" /\ Idle \in Works
  BY IdleIsWork DEF Idle, Start, Work
<1>2. Goto(t, "consume") \/ Do(t, Idle)
  BY DEF Draw
<1>3. running[t].at # "record" /\ "consume" \in Places \ {"record"} /\ TypeOK
  BY DEF Draw, At, Places, IInv
<1>4. Moves(t) /\ running' \in [Threads -> Works]
  BY <1>1, <1>2, <1>3, DoMoves, GotoMoves
<1> QED
  BY <1>4, QuietKeeps DEF Draw, IInv, TypeOK, mergerVars

LEMMA ConsumeInv ==
  ASSUME IInv, NEW t \in Threads, Consume(t)
  PROVE  IInv'
<1> DEFINE r == running[t].r
           frame == Head(frames[r])
           more == IF Len(frames[r]) > 1 THEN "yes" ELSE "no"
           next == IF surface[r] # "set" THEN "finish"
                   ELSE IF frame = "views" THEN "preroll" ELSE "decrement"
           w == Work(next, r, frame, "no", more)
<1>1. Idle.at = "idle" /\ Idle \in Works
  BY IdleIsWork DEF Idle, Start, Work
<1>2. running[t].at # "record" /\ TypeOK /\ r \in Rasterizers
      /\ frames[r] \in Seq(FrameKinds)
  BY DEF Consume, At, IInv, TypeOK, Works
<1>3. CASE frames[r] = <<>>
  <2>1. Do(t, Idle) /\ UNCHANGED <<frames, shown>>
    BY <1>3 DEF Consume
  <2>2. Moves(t) /\ running' \in [Threads -> Works]
    BY <1>1, <1>2, <2>1, DoMoves
  <2> QED
    BY <2>1, <2>2, QuietKeeps DEF Consume, IInv, TypeOK, mergerVars, engineVars
<1>4. CASE frames[r] # <<>>
  <2>1. frame \in FrameKinds /\ Tail(frames[r]) \in Seq(FrameKinds)
    BY <1>2, <1>4, HeadTailProperties
  <2>2. next \in {"finish", "preroll", "decrement"} /\ more \in {"no", "yes"}
    OBVIOUS
  <2>3. /\ frames' = [frames EXCEPT ![r] = Tail(frames[r])]
        /\ Do(t, w)
        /\ shown' = [shown EXCEPT ![r] = IF next = "decrement" THEN "no"
                                         ELSE shown[r]]
    BY <1>4 DEF Consume
  <2> HIDE DEF next, more, frame, r
  <2>4. w \in Works /\ w.at # "record"
    BY <1>2, <2>1, <2>2 DEF Work, Works, Places
  <2> HIDE DEF w
  <2>5. Moves(t) /\ running' \in [Threads -> Works]
    BY <1>2, <2>3, <2>4, DoMoves
  <2>6. frames' \in [Rasterizers -> Seq(FrameKinds)]
    BY <1>2, <2>1, <2>3 DEF TypeOK
  <2>7. shown' \in [Rasterizers -> {"no", "yes"}]
    BY <1>2, <2>3 DEF TypeOK
  <2>8. UNCHANGED <<mergerVars, rasterQ, overlapped, surface, built, view,
                    given, engines, failed>>
    BY DEF Consume
  <2>9. TypeOK'
    BY <1>2, <2>5, <2>6, <2>7, <2>8 DEF TypeOK, mergerVars
  <2>10. MergedHasLease' /\ OneRecords'
    BY <2>5, <2>8, MovesKeep DEF IInv, mergerVars
  <2> QED
    BY <2>8, <2>9, <2>10 DEF IInv, NeverMergedTwice
<1> QED
  BY <1>3, <1>4

LEMMA PrerollInv ==
  ASSUME IInv, NEW t \in Threads, PrerollSeparate(t) \/ PrerollMerged(t)
  PROVE  IInv'
<1>1. running[t] \in Works /\ running[t].r \in Rasterizers /\ TypeOK
  BY DEF IInv, TypeOK, Works
<1>2. running[t].at # "record"
  BY DEF PrerollSeparate, PrerollMerged, At
<1>3. CASE PrerollMerged(t)
  <2>1. "extend" \in Places \ {"record"} /\ Goto(t, "extend")
    BY <1>3 DEF Places, PrerollMerged
  <2>2. Moves(t) /\ running' \in [Threads -> Works]
    BY <1>1, <1>2, <2>1, GotoMoves
  <2> QED
    BY <1>3, <2>2, QuietKeeps DEF PrerollMerged, IInv, TypeOK, mergerVars
<1>4. CASE PrerollSeparate(t)
  <2> DEFINE w == [running[t] EXCEPT !.at = "merge", !.again = "yes"]
  <2>1. w \in Works /\ w.at # "record"
    BY <1>1 DEF Works, Places
  <2>2. Do(t, w)
    BY <1>4 DEF PrerollSeparate
  <2> HIDE DEF w
  <2>3. Moves(t) /\ running' \in [Threads -> Works]
    BY <1>1, <1>2, <2>1, <2>2, DoMoves
  <2>4. shown' \in [Rasterizers -> {"no", "yes"}]
    BY <1>1, <1>4 DEF PrerollSeparate, TypeOK
  <2> QED
    BY <1>4, <2>3, <2>4, QuietKeeps DEF PrerollSeparate, IInv, TypeOK, mergerVars
<1> QED
  BY <1>3, <1>4

\* MergeWithLease and DecrementLease ask first, and change nothing.
LEMMA AskInv ==
  ASSUME IInv, NEW t \in Threads, MergeWithLease(t) \/ DecrementLease(t)
  PROVE  IInv'
<1>1. TypeOK /\ running[t].at # "record"
  BY DEF IInv, MergeWithLease, DecrementLease, At
<1>2. \E at \in {"queues", "decrement", "lease", "finish"} : Goto(t, at)
  <2>1. CASE MergeWithLease(t)
    BY <2>1 DEF MergeWithLease
  <2>2. CASE DecrementLease(t)
    BY <2>2 DEF DecrementLease
  <2> QED
    BY <2>1, <2>2
<1>3. PICK at \in {"queues", "decrement", "lease", "finish"} : Goto(t, at)
  BY <1>2
<1>4. at \in Places \ {"record"}
  BY DEF Places
<1>5. Moves(t) /\ running' \in [Threads -> Works]
  BY <1>1, <1>3, <1>4, GotoMoves
<1> QED
  BY <1>5, QuietKeeps DEF MergeWithLease, DecrementLease, IInv, TypeOK, mergerVars

\* The queues are separate when no lease is left and none is being recorded:
\* they are never merged twice.
LEMMA MergeQueuesInv ==
  ASSUME IInv, NEW t \in Threads, MergeQueues(t)
  PROVE  IInv'
<1>1. TypeOK /\ running[t].at = "queues" /\ SharedMutexFree
  BY DEF IInv, MergeQueues, At
<1>2. CASE IsMerged
  <2>1. Goto(t, "decrement") /\ UNCHANGED <<merged, failed>>
    BY <1>2 DEF MergeQueues
  <2>2. Moves(t) /\ running' \in [Threads -> Works]
    BY <1>1, <2>1, GotoMoves DEF Places
  <2> QED
    BY <2>1, <2>2, QuietKeeps DEF MergeQueues, IInv, TypeOK
<1>3. CASE ~IsMerged
  <2>1. merged = "no"
    BY <1>1, <1>3 DEF IInv, TypeOK, MergedHasLease, SharedMutexFree
  <2>2. merged' = "yes" /\ Goto(t, "record") /\ UNCHANGED failed
    BY <1>3, <2>1 DEF MergeQueues
  <2>3. /\ running' \in [Threads -> Works] /\ running'[t].at = "record"
        /\ \A u \in Threads \ {t} : running'[u] = running[u]
    BY <1>1, <2>2, GotoKeeps DEF Places
  <2>4. OneRecords'
    BY <1>1, <2>3 DEF OneRecords, SharedMutexFree
  <2>5. MergedHasLease'
    BY <2>3 DEF MergedHasLease
  <2>6. TypeOK'
    BY <1>1, <2>2, <2>3 DEF TypeOK, MergeQueues, engineVars
  <2> QED
    BY <2>2, <2>4, <2>5, <2>6 DEF IInv, NeverMergedTwice
<1> QED
  BY <1>2, <1>3

\* A lease that was given is one that has not run out.
LEMMA LeaseGiven ==
  ASSUME TypeOK, NEW r \in Rasterizers,
         lease' = [lease EXCEPT ![r] = LeaseTerm]
  PROVE  IsMerged' /\ lease' \in [Rasterizers -> Nat \cup {NoRecord}]
<1>1. LeaseTerm \in Nat /\ LeaseTerm > 0
  BY MergerAssumption
<1>2. lease'[r] = LeaseTerm
  BY DEF TypeOK
<1>3. ~(lease'[r] <= 0)
  BY <1>1, <1>2
<1> QED
  BY <1>1, <1>3 DEF TypeOK, IsMerged, AllLeaseTermsZero

LEMMA RecordLeaseInv ==
  ASSUME IInv, NEW t \in Threads, RecordLease(t)
  PROVE  IInv'
<1>1. TypeOK /\ running[t].at = "record" /\ running[t].r \in Rasterizers
  BY DEF IInv, RecordLease, At, TypeOK, Works
<1>2. IsMerged' /\ lease' \in [Rasterizers -> Nat \cup {NoRecord}]
  BY <1>1, LeaseGiven DEF RecordLease, RecordedTerm
<1>3. "decrement" \in Places /\ Goto(t, "decrement")
  BY DEF RecordLease, Places
<1>4. /\ running' \in [Threads -> Works] /\ running'[t].at = "decrement"
      /\ \A u \in Threads \ {t} : running'[u] = running[u]
  BY <1>1, <1>3, GotoKeeps
<1>5. OneRecords'
  BY <1>4 DEF OneRecords, IInv
<1>6. MergedHasLease'
  BY <1>2 DEF MergedHasLease
<1>7. TypeOK'
  BY <1>1, <1>2, <1>4 DEF TypeOK, RecordLease, engineVars
<1> QED
  BY <1>5, <1>6, <1>7 DEF IInv, NeverMergedTwice, RecordLease

LEMMA ExtendLeaseInv ==
  ASSUME IInv, NEW t \in Threads, ExtendLeaseTo(t)
  PROVE  IInv'
<1> DEFINE w == [running[t] EXCEPT !.at = "decrement",
                   !.again = IF shown[running[t].r] = "no" THEN "yes" ELSE "no"]
<1>1. /\ TypeOK /\ running[t].at = "extend" /\ running[t] \in Works
      /\ running[t].r \in Rasterizers
  BY DEF IInv, ExtendLeaseTo, At, TypeOK, Works
<1>2. w \in Works /\ w.at # "record"
  BY <1>1 DEF Works, Places
<1>3. Do(t, w)
  BY DEF ExtendLeaseTo
<1> HIDE DEF w
<1>4. Moves(t) /\ running' \in [Threads -> Works]
  BY <1>1, <1>2, <1>3, DoMoves
<1>5. shown' \in [Rasterizers -> {"no", "yes"}]
  BY <1>1 DEF ExtendLeaseTo, TypeOK
<1>6. UNCHANGED <<merged, enabled, rasterQ, overlapped, surface, engineVars,
                  failed>>
  BY DEF ExtendLeaseTo
<1>7. CASE enabled = "yes"
  <2>1. lease' = [lease EXCEPT ![running[t].r] = LeaseTerm]
    BY <1>7 DEF ExtendLeaseTo
  <2>2. IsMerged' /\ lease' \in [Rasterizers -> Nat \cup {NoRecord}]
    BY <1>1, <2>1, LeaseGiven
  <2>3. MergedHasLease' /\ OneRecords'
    BY <1>4, <2>2, MovesLeased DEF IInv
  <2>4. TypeOK'
    BY <1>1, <1>4, <1>5, <1>6, <2>2 DEF TypeOK, engineVars
  <2> QED
    BY <1>6, <2>3, <2>4 DEF IInv, NeverMergedTwice
<1>8. CASE enabled # "yes"
  <2>1. lease' = lease
    BY <1>8 DEF ExtendLeaseTo
  <2> QED
    BY <1>1, <1>4, <1>5, <1>6, <2>1, QuietKeeps DEF TypeOK
<1> QED
  BY <1>7, <1>8

\* Leases that have not run out say that the threads are merged.
LEMMA LeaseLeft ==
  ASSUME NEW l, lease' = l, ~AllLeaseTermsZero(l)
  PROVE  IsMerged'
BY DEF IsMerged, AllLeaseTermsZero

LEMMA UnmergeKeeps ==
  ASSUME TypeOK, NeverMergedTwice, Unmerge
  PROVE  /\ merged' = "no"
         /\ failed' \in {"no", "merge", "unmerge", "lease"}
         /\ NeverMergedTwice'
BY DEF TypeOK, NeverMergedTwice, Unmerge

LEMMA DecrementSharedInv ==
  ASSUME IInv, NEW t \in Threads, DecrementShared(t)
  PROVE  IInv'
<1> DEFINE r == running[t].r
<1>1. /\ TypeOK /\ running[t].at = "lease" /\ running[t] \in Works
      /\ r \in Rasterizers
  BY DEF IInv, DecrementShared, At, TypeOK, Works
<1>2. UNCHANGED <<enabled, rasterQ, overlapped, surface, shown, engineVars>>
  BY DEF DecrementShared
<1>3. CASE lease[r] = 0
  <2>1. failed' = "lease" /\ UNCHANGED <<merged, lease, running>>
    BY <1>3 DEF DecrementShared
  <2>2. Moves(t) /\ running' \in [Threads -> Works]
    BY <1>1, <2>1 DEF Moves, TypeOK
  <2>3. MergedHasLease' /\ OneRecords'
    BY <2>1, <2>2, MovesKeep DEF IInv
  <2>4. TypeOK'
    BY <1>1, <1>2, <2>1 DEF TypeOK, engineVars
  <2> QED
    BY <2>1, <2>3, <2>4 DEF IInv, NeverMergedTwice
<1>4. ASSUME lease[r] # 0
      PROVE  Decremented(r) \in [Rasterizers -> Nat \cup {NoRecord}]
  <2>1. lease \in [Rasterizers -> Nat \cup {NoRecord}]
        /\ lease[r] \in Nat \cup {NoRecord}
    BY <1>1 DEF TypeOK
  <2> DEFINE n == IF lease[r] = NoRecord THEN NoRecord ELSE lease[r] - 1
  <2>2. n \in Nat \cup {NoRecord}
    BY <1>4, <2>1 DEF NoRecord
  <2>3. Decremented(r) = [lease EXCEPT ![r] = n]
    BY DEF Decremented
  <2> HIDE DEF n
  <2> QED
    BY <2>1, <2>2, <2>3
<1>5. CASE lease[r] # 0 /\ ~LastLease(Decremented(r))
  <2>1. lease' = Decremented(r) /\ Goto(t, "finish") /\ UNCHANGED <<merged, failed>>
    BY <1>5 DEF DecrementShared
  <2>2. Moves(t) /\ running' \in [Threads -> Works]
    BY <1>1, <2>1, GotoMoves DEF Places
  <2>3. IsMerged'
    BY <1>5, <2>1, LeaseLeft DEF LastLease
  <2>4. MergedHasLease' /\ OneRecords'
    BY <2>2, <2>3, MovesLeased DEF IInv
  <2>5. TypeOK'
    BY <1>1, <1>2, <1>4, <1>5, <2>1, <2>2 DEF TypeOK, engineVars
  <2> QED
    BY <2>1, <2>4, <2>5 DEF IInv, NeverMergedTwice
<1>6. CASE lease[r] # 0 /\ LastLease(Decremented(r))
  <2> DEFINE w == IF running[t].again = "yes"
                  THEN [running[t] EXCEPT !.at = "finish"]
                  ELSE [running[t] EXCEPT !.at = "finish", !.more = "yes"]
  <2>1. lease' = Decremented(r) /\ Unmerge /\ Do(t, w)
    BY <1>6 DEF DecrementShared, Goto
  <2>2. w \in Works /\ w.at # "record"
    BY <1>1 DEF Works, Places
  <2> HIDE DEF w
  <2>3. Moves(t) /\ running' \in [Threads -> Works]
    BY <1>1, <2>1, <2>2, DoMoves
  <2>4. /\ merged' = "no" /\ failed' \in {"no", "merge", "unmerge", "lease"}
        /\ NeverMergedTwice'
    BY <1>1, <2>1, UnmergeKeeps DEF IInv
  <2>5. MergedHasLease' /\ OneRecords'
    BY <2>3, <2>4, MovesLeased DEF IInv
  <2>6. TypeOK'
    BY <1>1, <1>2, <1>4, <1>6, <2>1, <2>3, <2>4 DEF TypeOK, engineVars
  <2> QED
    BY <2>4, <2>5, <2>6 DEF IInv
<1> QED
  BY <1>3, <1>5, <1>6

LEMMA UnMergeNowInv ==
  ASSUME IInv, NEW t \in Threads, UnMergeNowIfLastOne(t)
  PROVE  IInv'
<1> DEFINE r == running[t].r
<1>1. /\ TypeOK /\ running[t].at # "record" /\ r \in Rasterizers /\ Release(t)
  BY DEF IInv, UnMergeNowIfLastOne, At, TypeOK, Works
<1>2. Moves(t) /\ running' \in [Threads -> Works]
  BY <1>1, ReleaseMoves
<1>3. UNCHANGED <<enabled, rasterQ, overlapped, surface, shown, engineVars>>
  BY DEF UnMergeNowIfLastOne
<1>4. Erased(r) \in [Rasterizers -> Nat \cup {NoRecord}]
  BY <1>1 DEF Erased, TypeOK
<1>5. CASE enabled = "yes" /\ LastOne(Erased(r))
  <2>1. lease' = Erased(r) /\ Unmerge
    BY <1>5 DEF UnMergeNowIfLastOne
  <2>2. /\ merged' = "no" /\ failed' \in {"no", "merge", "unmerge", "lease"}
        /\ NeverMergedTwice'
    BY <1>1, <2>1, UnmergeKeeps DEF IInv
  <2>3. MergedHasLease' /\ OneRecords'
    BY <1>2, <2>2, MovesLeased DEF IInv
  <2>4. TypeOK'
    BY <1>1, <1>2, <1>3, <1>4, <2>1, <2>2 DEF TypeOK, engineVars
  <2> QED
    BY <2>2, <2>3, <2>4 DEF IInv
<1>6. CASE enabled = "yes" /\ ~LastOne(Erased(r))
  <2>1. lease' = Erased(r) /\ UNCHANGED <<merged, failed>>
    BY <1>6 DEF UnMergeNowIfLastOne
  <2>2. IsMerged'
    BY <1>6, <2>1, LeaseLeft DEF LastOne
  <2>3. MergedHasLease' /\ OneRecords'
    BY <1>2, <2>2, MovesLeased DEF IInv
  <2>4. TypeOK'
    BY <1>1, <1>2, <1>3, <1>4, <2>1 DEF TypeOK, engineVars
  <2> QED
    BY <2>1, <2>3, <2>4 DEF IInv, NeverMergedTwice
<1>7. CASE enabled # "yes"
  <2>1. UNCHANGED <<merged, lease, failed>>
    BY <1>1, <1>7 DEF UnMergeNowIfLastOne, TypeOK
  <2> QED
    BY <1>1, <1>2, <1>3, <2>1, QuietKeeps DEF TypeOK
<1> QED
  BY <1>5, <1>6, <1>7

LEMMA FinishInv ==
  ASSUME IInv, NEW t \in Threads, Finish(t)
  PROVE  IInv'
<1> DEFINE r == running[t].r
           goesBack == running[t].again = "yes" /\ frames[r] = <<>>
<1>1. /\ TypeOK /\ running[t].at # "record" /\ running[t] \in Works
      /\ r \in Rasterizers /\ Do(t, Idle)
  BY DEF IInv, Finish, At, TypeOK, Works
<1>2. Idle.at = "idle" /\ Idle \in Works
  BY IdleIsWork DEF Idle, Start, Work
<1>3. Moves(t) /\ running' \in [Threads -> Works]
  BY <1>1, <1>2, DoMoves
<1>4. UNCHANGED <<mergerVars, overlapped, surface, shown, built, view, given,
                  engines, failed>>
  BY DEF Finish
<1>5. rasterQ' \in Seq(Tasks)
  <2>1. Task("draw", r) \in Tasks
    BY <1>1 DEF Task, Tasks
  <2>2. Post(Task("draw", r)) \/ UNCHANGED rasterQ
    BY DEF Finish
  <2> QED
    BY <1>1, <2>1, <2>2, PostKeeps DEF TypeOK
<1>6. frames' \in [Rasterizers -> Seq(FrameKinds)]
  <2>1. <<running[t].frame>> \in Seq(FrameKinds)
    BY <1>1 DEF Works
  <2>2. \/ frames' = [frames EXCEPT ![r] = <<running[t].frame>>]
        \/ frames' = frames
    BY DEF Finish
  <2> QED
    BY <1>1, <2>1, <2>2 DEF TypeOK
<1>7. TypeOK'
  BY <1>1, <1>3, <1>4, <1>5, <1>6 DEF TypeOK, mergerVars
<1>8. MergedHasLease' /\ OneRecords'
  BY <1>3, <1>4, MovesKeep DEF IInv, mergerVars
<1> QED
  BY <1>4, <1>7, <1>8 DEF IInv, NeverMergedTwice

LEMMA SetupInv ==
  ASSUME IInv, NEW t \in Threads, Setup(t)
  PROVE  IInv'
<1>1. /\ TypeOK /\ running[t].at # "record" /\ running[t].r \in Rasterizers
      /\ Do(t, Idle)
  BY DEF IInv, Setup, At, TypeOK, Works
<1>2. Idle.at = "idle" /\ Idle \in Works
  BY IdleIsWork DEF Idle, Start, Work
<1>3. Moves(t) /\ running' \in [Threads -> Works]
  BY <1>1, <1>2, DoMoves
<1>4. enabled' \in {"no", "yes"}
  BY <1>1, EnabledKeeps DEF Setup
<1>5. surface' \in [Rasterizers -> {"never", "none", "set"}]
  BY <1>1 DEF Setup, TypeOK
<1> QED
  BY <1>1, <1>3, <1>4, <1>5, QuietKeeps DEF Setup, TypeOK

LEMMA TeardownInv ==
  ASSUME IInv, NEW t \in Threads, Teardown(t) \/ TornDown(t)
  PROVE  IInv'
<1>1. TypeOK /\ running[t].at # "record" /\ running[t].r \in Rasterizers
  BY DEF IInv, Teardown, TornDown, At, TypeOK, Works
<1>2. CASE Teardown(t)
  <2>1. Goto(t, "torn") /\ "torn" \in Places \ {"record"}
    BY <1>2 DEF Teardown, Places
  <2>2. Moves(t) /\ running' \in [Threads -> Works]
    BY <1>1, <2>1, GotoMoves
  <2>3. enabled' \in {"no", "yes"}
    BY <1>1, <1>2, EnabledKeeps DEF Teardown
  <2>4. surface' \in [Rasterizers -> {"never", "none", "set"}]
    BY <1>1, <1>2 DEF Teardown, TypeOK
  <2> QED
    BY <1>1, <1>2, <2>2, <2>3, <2>4, QuietKeeps DEF Teardown, TypeOK
<1>3. CASE TornDown(t)
  <2>1. Goto(t, "unmerge") \/ Release(t)
    BY <1>3 DEF TornDown
  <2>2. "unmerge" \in Places \ {"record"}
    BY DEF Places
  <2>3. Moves(t) /\ running' \in [Threads -> Works]
    BY <1>1, <2>1, <2>2, GotoMoves, ReleaseMoves
  <2> QED
    BY <1>1, <1>3, <2>3, QuietKeeps DEF TornDown, TypeOK, mergerVars
<1> QED
  BY <1>2, <1>3

\* The Shell's handlers, on the platform thread.
LEMMA PlatformInv ==
  ASSUME IInv, PlatformStep
  PROVE  IInv'
<1> DEFINE t == "platform"
           r == running[t].r
<1>1. /\ TypeOK /\ t \in Threads /\ running[t].at # "record"
      /\ r \in Rasterizers
  BY DEF IInv, PlatformStep, RunOrPost, PostSetup, PostTeardown, At, TypeOK,
         Works, Threads
<1>2. CASE RunOrPost
  <2>1. \E at \in {"setup", "teardown", "postSetup", "postTeardown"} :
          Do(t, Start(at, r))
    BY <1>2 DEF RunOrPost
  <2>2. PICK at \in {"setup", "teardown", "postSetup", "postTeardown"} :
          Do(t, Start(at, r))
    BY <2>1
  <2>3. at \in Places \ {"record"}
    BY DEF Places
  <2>4. Start(at, r) \in Works /\ Start(at, r).at # "record"
    BY <1>1, <2>3, StartIsWork
  <2>5. Moves(t) /\ running' \in [Threads -> Works]
    BY <1>1, <2>2, <2>4, DoMoves
  <2>6. overlapped' \in Nat
    BY <1>1, <1>2, BesideKeeps DEF RunOrPost, TypeOK
  <2> QED
    BY <1>1, <1>2, <2>5, <2>6, QuietKeeps DEF RunOrPost, TypeOK, mergerVars
<1>3. CASE PostSetup
  <2>1. Task("setup", r) \in Tasks /\ Post(Task("setup", r)) /\ Do(t, Idle)
    BY <1>1, <1>3 DEF PostSetup, Task, Tasks
  <2>2. Idle.at = "idle" /\ Idle \in Works
    BY IdleIsWork DEF Idle, Start, Work
  <2>3. Moves(t) /\ running' \in [Threads -> Works]
    BY <1>1, <2>1, <2>2, DoMoves
  <2>4. rasterQ' \in Seq(Tasks)
    BY <1>1, <2>1, PostKeeps
  <2> QED
    BY <1>1, <1>3, <2>3, <2>4, QuietKeeps DEF PostSetup, TypeOK, mergerVars
<1>4. CASE PostTeardown
  <2>1. /\ Task("teardown", r) \in Tasks /\ Post(Task("teardown", r))
        /\ Goto(t, "waits") /\ "waits" \in Places \ {"record"}
    BY <1>1, <1>4 DEF PostTeardown, Task, Tasks, Places
  <2>2. Moves(t) /\ running' \in [Threads -> Works]
    BY <1>1, <2>1, GotoMoves
  <2>3. rasterQ' \in Seq(Tasks)
    BY <1>1, <2>1, PostKeeps
  <2> QED
    BY <1>1, <1>4, <2>2, <2>3, QuietKeeps DEF PostTeardown, TypeOK, mergerVars
<1> QED
  BY <1>2, <1>3, <1>4 DEF PlatformStep

LEMMA HandlerInv ==
  ASSUME IInv, NEW r \in Rasterizers,
         OnPlatformViewCreated(r) \/ OnPlatformViewDestroyed(r)
  PROVE  IInv'
<1> DEFINE t == "platform"
<1>1. PICK at \in {"created", "destroyed"} : Begin(r, at)
  BY DEF OnPlatformViewCreated, OnPlatformViewDestroyed
<1>2. Idle.at = "idle"
  BY DEF Idle, Start, Work
<1>3. TypeOK /\ t \in Threads /\ running[t].at # "record"
  BY <1>1, <1>2 DEF IInv, Begin, Threads
<1>4. at \in Places \ {"record"}
  BY DEF Places
<1>5. Start(at, r) \in Works /\ Start(at, r).at # "record"
  BY <1>4, StartIsWork
<1>6. Do(t, Start(at, r))
  BY <1>1 DEF Begin
<1>7. Moves(t) /\ running' \in [Threads -> Works]
  BY <1>3, <1>5, <1>6, DoMoves
<1>8. enabled' \in {"no", "yes"}
  BY <1>1, <1>3, EnabledKeeps DEF Begin
<1>9. UNCHANGED <<merged, lease, rasterQ, overlapped, surface, shown, frames,
                  built, engines, failed>>
  BY <1>1 DEF Begin
<1>10. given' \in Nat /\ view' \in [Rasterizers -> {"no", "yes"}]
  <2>1. given \in Nat /\ view \in [Rasterizers -> {"no", "yes"}]
    BY <1>3 DEF TypeOK
  <2>2. CASE OnPlatformViewCreated(r)
    BY <2>1, <2>2 DEF OnPlatformViewCreated
  <2>3. CASE OnPlatformViewDestroyed(r)
    BY <2>1, <2>3 DEF OnPlatformViewDestroyed
  <2> QED
    BY <2>2, <2>3
<1>11. TypeOK'
  BY <1>3, <1>7, <1>8, <1>9, <1>10 DEF TypeOK
<1>12. MergedHasLease' /\ OneRecords'
  BY <1>3, <1>7, <1>9, MovesKeep DEF IInv
<1> QED
  BY <1>9, <1>11, <1>12 DEF IInv, NeverMergedTwice

\* The engines, and the frames they build.
LEMMA EngineInv ==
  ASSUME IInv, NEW r \in Rasterizers, NEW kind \in FrameKinds,
         Spawn(r) \/ BuildFrame(r, kind)
  PROVE  IInv'
<1>1. TypeOK /\ UNCHANGED <<mergerVars, running, overlapped, surface, shown,
                            view, given, failed>>
  BY DEF IInv, Spawn, BuildFrame
<1>2. MergedHasLease' /\ OneRecords' /\ NeverMergedTwice'
  BY <1>1 DEF IInv, MergedHasLease, OneRecords, NeverMergedTwice, IsMerged,
              AllLeaseTermsZero, mergerVars
<1>3. CASE Spawn(r)
  <2>1. TypeOK'
    BY <1>1, <1>3 DEF Spawn, TypeOK, mergerVars
  <2> QED
    BY <1>2, <2>1 DEF IInv
<1>4. CASE BuildFrame(r, kind)
  <2>1. rasterQ' \in Seq(Tasks)
    <3>1. Task("draw", r) \in Tasks
      BY DEF Task, Tasks
    <3> QED
      BY <1>1, <1>4, <3>1, PostKeeps DEF BuildFrame, TypeOK
  <2>2. frames' \in [Rasterizers -> Seq(FrameKinds)]
    <3>1. Append(frames[r], kind) \in Seq(FrameKinds)
      BY <1>1, AppendProperties DEF TypeOK
    <3>2. frames' = [frames EXCEPT ![r] = Append(frames[r], kind)]
      BY <1>4 DEF BuildFrame
    <3> QED
      BY <1>1, <3>1, <3>2 DEF TypeOK
  <2>3. built' \in Nat /\ engines' = engines
    BY <1>1, <1>4 DEF BuildFrame, TypeOK
  <2>4. TypeOK'
    BY <1>1, <2>1, <2>2, <2>3 DEF TypeOK, mergerVars
  <2> QED
    BY <1>2, <2>4 DEF IInv
<1> QED
  BY <1>3, <1>4

-----------------------------------------------------------------------------

LEMMA StepInv == IInv /\ [Next]_vars => IInv'
<1> SUFFICES ASSUME IInv, [Next]_vars PROVE IInv'
  OBVIOUS
<1>1. CASE \E t \in Threads : ThreadStep(t)
  <2>1. PICK t \in Threads : ThreadStep(t)
    BY <1>1
  <2> QED
    BY <2>1, TakeTaskInv, DrawInv, ConsumeInv, PrerollInv, AskInv,
       MergeQueuesInv, RecordLeaseInv, ExtendLeaseInv, DecrementSharedInv,
       FinishInv, SetupInv, TeardownInv, UnMergeNowInv DEF ThreadStep
<1>2. CASE PlatformStep
  BY <1>2, PlatformInv
<1>3. CASE \E r \in Rasterizers :
             OnPlatformViewCreated(r) \/ OnPlatformViewDestroyed(r)
  BY <1>3, HandlerInv
<1>4. CASE \E r \in Rasterizers :
             Spawn(r) \/ \E kind \in FrameKinds : BuildFrame(r, kind)
  BY <1>4, EngineInv DEF FrameKinds
<1>5. CASE UNCHANGED vars
  <2>1. TypeOK'
    BY <1>5 DEF vars, engineVars, mergerVars, IInv, TypeOK
  <2>2. MergedHasLease' /\ OneRecords'
    BY <1>5 DEF vars, mergerVars, IInv, MergedHasLease, OneRecords, IsMerged,
                AllLeaseTermsZero
  <2>3. NeverMergedTwice'
    BY <1>5 DEF vars, IInv, NeverMergedTwice
  <2> QED
    BY <2>1, <2>2, <2>3 DEF IInv
<1> QED
  BY <1>1, <1>2, <1>3, <1>4, <1>5 DEF Next

LEMMA Invariance == Spec => []IInv
BY InitInv, StepInv, PTL DEF Spec

\* Every variable keeps its type, for any number of engines.
THEOREM TypeCorrect == Spec => []TypeOK
BY Invariance, PTL DEF IInv

\* Merged queues have a lease that will run out, whatever the order in which
\* rasterizers merge, draw and are torn down (SharedThreadMerger).
THEOREM MergesAreLeased == Spec => []MergedHasLease
BY Invariance, PTL DEF IInv

\* Queues that are merged are never merged again: the FML_CHECK of
\* SharedThreadMerger::MergeWithLease never fails.
THEOREM MergesSucceed == Spec => []NeverMergedTwice
BY Invariance, PTL DEF IInv
============================================================================
