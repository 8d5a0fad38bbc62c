---------------------------- MODULE SingleSource ----------------------------
(***************************************************************************)
(* Both Bellman-Ford functions of algorithm.c, called for the same graph   *)
(* one after the other, against each other and against the walks of the    *)
(* graph.                                                                  *)
(***************************************************************************)
EXTENDS BellmanFord, Walks

VARIABLES
  queueDis,      \* aiDis of the queue variant
  auiBook, auiQueue, uiHead,
  queueK,        \* its k
  queuePhase     \* its phase

Queue == INSTANCE QueueBellmanFord
           WITH aiDis <- queueDis, k <- queueK, phase <- queuePhase

roundsVars == <<aiDis, aiBakDis, k, i, uiFlag, phase>>
queueVars == <<queueDis, auiBook, auiQueue, uiHead, queueK, queuePhase>>
bothVars == <<graph, roundsVars, queueVars>>

InitBoth == Init /\ Queue!Init

NextBoth ==
  \/ Next /\ UNCHANGED queueVars
  \/ phase = "done" /\ Queue!Next /\ UNCHANGED roundsVars

-----------------------------------------------------------------------------
(* The function that relaxes in rounds.                                     *)

\* The message at algorithm.c:197 is printed exactly for the graphs that have
\* a cycle of negative weight, in the reach of point 0 or not.
CycleReported == phase = "done" => (uiFlag = 1 <=> NegativeCycles(sides, uiPointCount) # {})

\* Without such a cycle the distances are the least weights of walks, where
\* a walk from a point other than 0 starts at INVAILD.
Distances ==
  phase = "done" /\ NegativeCycles(sides, uiPointCount) = {} =>
     \A p \in Points : aiDis[p] = LeastWithin(sides, uiPointCount, uiPointCount - 1, p)

-----------------------------------------------------------------------------
(* The queue variant.                                                       *)

\* What lies outside the queue needs no visit (algorithm.c:252-279).
SettledOutsideQueue == Queue!SettledOutsideQueue

\* The array of the queue is long enough for every graph without a cycle of
\* negative weight that point 0 reaches (algorithm.c:241).
QueueSuffices ==
  queuePhase = "overrun" =>
     \E ks \in NegativeCycles(sides, uiPointCount) :
        Reachable(sides, uiPointCount, From(sides, ks))

\* The queue is an optimisation of the rounds (algorithm.c:203): where those
\* report no cycle it ends with the same distances, but for the points that
\* cannot be reached, which keep INVAILD.
VariantsAgree ==
  phase = "done" /\ uiFlag = 0 /\ queuePhase \in {"done", "overrun"} =>
     /\ queuePhase = "done"
     /\ \A p \in Points :
           queueDis[p] = IF Reachable(sides, uiPointCount, p) THEN aiDis[p] ELSE INVAILD

\* Both functions end; the second does also where it runs out of its queue.
Ends == <>(phase = "done" /\ queuePhase \in {"done", "overrun"})

=============================================================================
