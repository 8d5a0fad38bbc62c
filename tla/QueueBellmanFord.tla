-------------------------- MODULE QueueBellmanFord --------------------------
(***************************************************************************)
(* ALGORITHM_SP_BellmanFord_QueueEx of algorithm.c: the sides of a point   *)
(* are relaxed when the point comes to the head of a queue, and a point    *)
(* that got nearer is queued unless it is.  The queue is an array whose    *)
(* places are used once.  One step is one side.                            *)
(***************************************************************************)
EXTENDS Sides, Sequences

\* Faulty variant: the queue has place for every point once.
QueueSizeLinear == MaxPoints

\* The queue's array has place for the square of the greatest point count.
QueueSize == MaxPoints * MaxPoints

\* No further side, -1 in the code.
NoSide == -1

VARIABLES
  uiPointCount,  \* the graph: its points are 0 to uiPointCount - 1
  uiSideCount,   \* how many sides it has
  sides,         \* the sides, from 0
  aiDis,         \* the distances
  auiBook,       \* 1 for the points in the queue
  auiQueue,      \* what was ever queued; uiTail is its length
  uiHead,        \* how much of it has left the queue
  k,             \* the side to relax next
  phase          \* "head", "sides", "done" or "overrun"

graph == <<uiPointCount, uiSideCount, sides>>
vars == <<uiPointCount, uiSideCount, sides, aiDis, auiBook, auiQueue, uiHead, k, phase>>

Points == PointsOf(uiPointCount)

\* Faulty variant: 0 is taken for the end of the list.
SideBeforeNotFirst(p, j) ==
  LET S == {l \in 1..(j - 1) : sides[l].u = p}
  IN  IF S = {} THEN NoSide ELSE CHOOSE l \in S : \A m \in S : m <= l

\* aiFirst and aiNext: the sides of p are linked from the last to the first.
SideBefore(p, j) ==
  LET S == {l \in 0..(j - 1) : sides[l].u = p}
  IN  IF S = {} THEN NoSide ELSE CHOOSE l \in S : \A m \in S : m <= l

Init ==
  /\ uiPointCount \in 1..MaxPoints
  /\ uiSideCount \in 0..MaxSides
  /\ sides \in [0..(uiSideCount - 1) -> Side(uiPointCount)]
  /\ aiDis = FirstDis(uiPointCount)
  /\ auiBook = [p \in Points |-> IF p = 0 THEN 1 ELSE 0]
  /\ auiQueue = <<0>>
  /\ uiHead = 0
  /\ k = NoSide
  /\ phase = "head"

AtHead == auiQueue[uiHead + 1]

Visit ==
  /\ phase = "head" /\ uiHead < Len(auiQueue)
  /\ k' = SideBefore(AtHead, uiSideCount)
  /\ phase' = "sides"
  /\ UNCHANGED <<graph, aiDis, auiBook, auiQueue, uiHead>>

\* Relaxing the side queues its end.
Queues(s) == Loose(aiDis, s) /\ auiBook[s.v] = 0

\* Faulty variant: a point is queued the first time it is reached only.
RelaxSideOnce ==
  /\ phase = "sides" /\ k # NoSide
  /\ Queues(sides[k]) => Len(auiQueue) < QueueSize
  /\ aiDis' = Relaxed(aiDis, sides[k])
  /\ IF Queues(sides[k]) /\ aiDis[sides[k].v] = INVAILD
     THEN /\ auiQueue' = Append(auiQueue, sides[k].v)
          /\ auiBook' = [auiBook EXCEPT ![sides[k].v] = 1]
     ELSE UNCHANGED <<auiQueue, auiBook>>
  /\ k' = SideBefore(sides[k].u, k)
  /\ UNCHANGED <<graph, uiHead, phase>>

RelaxSide ==
  /\ phase = "sides" /\ k # NoSide
  /\ Queues(sides[k]) => Len(auiQueue) < QueueSize
  /\ aiDis' = Relaxed(aiDis, sides[k])
  /\ IF Queues(sides[k])
     THEN /\ auiQueue' = Append(auiQueue, sides[k].v)
          /\ auiBook' = [auiBook EXCEPT ![sides[k].v] = 1]
     ELSE UNCHANGED <<auiQueue, auiBook>>
  /\ k' = SideBefore(sides[k].u, k)
  /\ UNCHANGED <<graph, uiHead, phase>>

\* The queue is full and is written to behind its end.  What happens then is
\* not modelled.
Overrun ==
  /\ phase = "sides" /\ k # NoSide
  /\ Queues(sides[k]) /\ Len(auiQueue) >= QueueSize
  /\ aiDis' = Relaxed(aiDis, sides[k])
  /\ phase' = "overrun"
  /\ UNCHANGED <<graph, auiBook, auiQueue, uiHead, k>>

\* Faulty variant: the point stays at the head.
LeaveNothing ==
  /\ phase = "sides" /\ k = NoSide
  /\ auiBook' = [auiBook EXCEPT ![AtHead] = 0]
  /\ phase' = "head"
  /\ UNCHANGED <<graph, aiDis, auiQueue, uiHead, k>>

Leave ==
  /\ phase = "sides" /\ k = NoSide
  /\ auiBook' = [auiBook EXCEPT ![AtHead] = 0]
  /\ uiHead' = uiHead + 1
  /\ phase' = "head"
  /\ UNCHANGED <<graph, aiDis, auiQueue, k>>

Return ==
  /\ phase = "head" /\ uiHead = Len(auiQueue)
  /\ phase' = "done"
  /\ UNCHANGED <<graph, aiDis, auiBook, auiQueue, uiHead, k>>

Over == phase \in {"done", "overrun"} /\ UNCHANGED vars

Next == Visit \/ RelaxSide \/ Overrun \/ Leave \/ Return \/ Over

Spec == Init /\ [][Next]_vars

-----------------------------------------------------------------------------
\* A side that was passed since its point was last reached is not loose, unless
\* the point will be visited again: no other bookkeeping tells when to stop.  A
\* side of negative weight from a point to itself is loose for ever and makes
\* its point nearer after its other sides were passed.
Passed(j) ==
  /\ aiDis[sides[j].u] < INVAILD
  /\ \/ auiBook[sides[j].u] = 0
     \/ phase = "sides" /\ sides[j].u = AtHead /\ j > k
LoopsDoNotFall ==
  \A j \in 0..(uiSideCount - 1) : sides[j].u = sides[j].v => sides[j].w >= 0
SettledOutsideQueue ==
  phase # "overrun" /\ LoopsDoNotFall =>
     \A j \in 0..(uiSideCount - 1) : Passed(j) => ~Loose(aiDis, sides[j])

=============================================================================
