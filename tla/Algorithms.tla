----------------------------- MODULE Algorithms -----------------------------
(***************************************************************************)
(* The functions of algorithm.c in one program that calls them one after   *)
(* the other: the shortest paths on a list of sides, those on a map, the   *)
(* sort, and the relations of a union-find set.  They share no data, so    *)
(* in a behaviour one of them gets an input of interest and the others the *)
(* least there is: nothing else would be seen.                             *)
(***************************************************************************)
EXTENDS SingleSource

CONSTANTS
  MaxMapPoints,   \* bound: how many points a map has at most
  MaxMapSides,    \* bound: how many sides
  MapWeights,     \* the weights of its sides
  MaxCount,       \* bound: how many numbers are sorted at most
  Numbers,        \* the values they have
  PointCount      \* how many points the union-find set has

ASSUME AlgorithmParameters ==
  /\ MaxMapPoints \in Nat /\ MaxMapPoints > 0 /\ MaxMapSides \in Nat
  /\ MapWeights \subseteq 0..(INVAILD - 1)
  /\ MaxCount \in Nat /\ Numbers \subseteq Nat
  /\ PointCount \in Nat

VARIABLES
  mapPointCount, map,                          \* what ALGORITHM_SP_MAP_S holds
  auiDis, mapBook, mapI, u, v, mapPhase,       \* the variables of Dijkstra
  shortened, roundK, rowI, columnJ,            \* those of Floyd-Warshall
  numbers, heap, uiCount, uiTempCount, uiIndex, heapI, heapPhase,  \* the sort
  parents                                      \* auiNum of the union-find set

Map == INSTANCE MapPaths
         WITH MaxPoints <- MaxMapPoints, MaxSides <- MaxMapSides,
              Weights <- MapWeights, uiPointCount <- mapPointCount, aui <- map,
              auiBook <- mapBook, i <- mapI, phase <- mapPhase
Heap == INSTANCE HeapSort
          WITH auiNum <- numbers, auiNumDeal <- heap, i <- heapI, phase <- heapPhase
Set == INSTANCE UnionFind WITH auiNum <- parents

mapVars == <<mapPointCount, map, auiDis, mapBook, mapI, u, v, mapPhase,
             shortened, roundK, rowI, columnJ>>
heapVars == <<numbers, heap, uiCount, uiTempCount, uiIndex, heapI, heapPhase>>
allVars == <<bothVars, mapVars, heapVars, parents>>

LeastSides == uiPointCount = 1 /\ uiSideCount = 0
LeastMap == mapPointCount = 1
LeastSort == uiCount = 0

InitAll ==
  /\ InitBoth
  /\ IF LeastSides THEN TRUE ELSE LeastMap
  /\ Map!InitBoth
  /\ IF LeastSides /\ LeastMap THEN TRUE ELSE LeastSort
  /\ Heap!Init
  /\ Set!Init

OnSides == NextBoth /\ UNCHANGED <<mapVars, heapVars, parents>>

OnMap ==
  /\ phase = "done" /\ queuePhase \in {"done", "overrun"}
  /\ Map!NextBoth
  /\ UNCHANGED <<bothVars, heapVars, parents>>

Sort ==
  /\ mapPhase = "done" /\ roundK = mapPointCount
  /\ Heap!Next
  /\ UNCHANGED <<bothVars, mapVars, parents>>

Relate ==
  /\ heapPhase = "done" /\ LeastSides /\ LeastMap /\ LeastSort
  /\ Set!Next
  /\ UNCHANGED <<bothVars, mapVars, heapVars>>

\* The caller waits for the results: the loops run on.
SpecAll ==
  /\ InitAll /\ [][OnSides \/ OnMap \/ Sort \/ Relate]_allVars
  /\ WF_allVars(OnSides) /\ WF_allVars(OnMap) /\ WF_allVars(Sort)

-----------------------------------------------------------------------------
\* The distances Dijkstra returns are the lengths of shortest paths, INVAILD
\* for the points that no path reaches (algorithm.c:71).
MapDistances == Map!Distances

\* A booked point never gets nearer, since no other point lies nearer than the
\* booked ones: each point's sides need to be relaxed once only.
BookedIsFinal == Map!BookedIsFinal

\* The idea that the comment on Floyd-Warshall states (algorithm.c:39): an entry
\* is the shortest path by way of point 0, then of points 0 and 1, and so on;
\* although the map is changed in place, no entry is ahead of its round.
ViaFirstPoints == Map!ViaFirstPoints

\* While a number sinks its place is the only one out of order (algorithm.c:298).
HeapOrder == Heap!HeapOrder

\* What was popped is in order and no greater than what is left.
PoppedSorted == Heap!PoppedSorted

\* No step of the sort loses or doubles a number.
NothingLost == Heap!NothingLost

\* The sort ends.
Terminates == Heap!Terminates

\* Two points have one root exactly when the relations passed so far connect
\* them, directly or through others, and the sum returned is the number of the
\* sets (algorithm.c:395-441).
ImplementsPartition == Set!ImplementsPartition

=============================================================================
