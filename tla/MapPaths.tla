------------------------------ MODULE MapPaths ------------------------------
(***************************************************************************)
(* Both functions of algorithm.c on maps, called one after the other for   *)
(* the same map (Dijkstra leaves it as it is), against its paths.          *)
(***************************************************************************)
EXTENDS Dijkstra, Paths

VARIABLES shortened, roundK, rowI, columnJ    \* aui, k, i and j of FloydWarshall

Floyd == INSTANCE FloydWarshall
           WITH aui <- shortened, given <- aui, k <- roundK, i <- rowI, j <- columnJ

dijkstraVars == <<auiDis, auiBook, i, u, v, phase>>
floydVars == <<shortened, roundK, rowI, columnJ>>

InitBoth == Init /\ Floyd!Begin

NextBoth ==
  \/ Next /\ UNCHANGED floydVars
  \/ phase = "done" /\ Floyd!Next /\ UNCHANGED dijkstraVars

-----------------------------------------------------------------------------
\* The distances Dijkstra returns are the lengths of shortest paths, INVAILD
\* for the points that no path reaches (algorithm.c:71).
Distances ==
  phase = "done" => \A p \in Points : auiDis[p] = ShortestVia(aui, Points, 0, p)

\* How many points the entry for a and b leads by way of.
Tried(a, b) == IF a < rowI \/ (a = rowI /\ b < columnJ) THEN roundK + 1 ELSE roundK

\* The idea that the comment states (algorithm.c:39): an entry is the shortest
\* path by way of point 0, then of points 0 and 1, and so on; although the map
\* is changed in place, no entry is ahead of its round.
ViaFirstPoints ==
  \A a, b \in Points :
     shortened[a][b] = ShortestVia(aui, PointsOf(Tried(a, b)), a, b)

=============================================================================
