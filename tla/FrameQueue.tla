----------------------------- MODULE FrameQueue -----------------------------
(***************************************************************************)
(* What a Pipeline promises its users (shell/common/pipeline.h): a bounded *)
(* first-in first-out queue whose slots are reserved before they are       *)
(* filled.  A slot is reserved, holds a waiting item, or holds the item    *)
(* being consumed; there are depth of them, a number that the constructor  *)
(* is given and that never changes.                                        *)
(***************************************************************************)
EXTENDS Naturals, Sequences

CONSTANTS
  Depths,  \* numbers of slots a queue may have
  Items    \* what a slot may hold

VARIABLES
  depth,     \* number of slots of this queue
  reserved,  \* slots held by a producer that has not committed yet
  waiting,   \* committed items, oldest first
  taken      \* an item is being consumed

queueVars == <<depth, reserved, waiting, taken>>

QueueInit ==
  depth \in Depths /\ reserved = 0 /\ waiting = << >> /\ taken = FALSE

Reserve ==
  /\ reserved + Len(waiting) + (IF taken THEN 1 ELSE 0) < depth
  /\ reserved' = reserved + 1
  /\ UNCHANGED <<depth, waiting, taken>>

Commit ==
  /\ reserved > 0
  /\ reserved' = reserved - 1
  /\ \E x \in Items : waiting' = Append(waiting, x)
  /\ UNCHANGED <<depth, taken>>

\* A producer may only give a slot back when another item is waiting.
Cancel ==
  /\ reserved > 0 /\ waiting # << >>
  /\ reserved' = reserved - 1
  /\ UNCHANGED <<depth, waiting, taken>>

Take ==
  /\ ~taken /\ waiting # << >>
  /\ taken' = TRUE
  /\ waiting' = Tail(waiting)
  /\ UNCHANGED <<depth, reserved>>

Release ==
  /\ taken
  /\ taken' = FALSE
  /\ UNCHANGED <<depth, reserved, waiting>>

QueueNext == Reserve \/ Commit \/ Cancel \/ Take \/ Release

QueueSpec == QueueInit /\ [][QueueNext]_queueVars
=============================================================================
