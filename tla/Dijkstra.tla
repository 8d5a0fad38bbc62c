------------------------------ MODULE Dijkstra ------------------------------
(***************************************************************************)
(* ALGORITHM_SP_Dijkstra of algorithm.c: uiPointCount - 1 times the nearest *)
(* point that is not booked is booked and its sides are relaxed.  The      *)
(* search for the nearest is one step, each relaxation is one.             *)
(***************************************************************************)
EXTENDS Maps

VARIABLES
  uiPointCount,  \* the points are 0 to uiPointCount - 1
  aui,           \* the map
  auiDis,        \* the distances from point 0
  auiBook,       \* 1 for the points whose sides were relaxed
  i,             \* how many points were booked after point 0
  u,             \* the point booked last, 0 before the first
  v,             \* the end of the next side of u
  phase          \* "nearest", "relax" or "done"

graph == <<uiPointCount, aui>>
vars == <<uiPointCount, aui, auiDis, auiBook, i, u, v, phase>>

Points == PointsOf(uiPointCount)

Init ==
  /\ uiPointCount \in 1..MaxPoints
  /\ \E S \in SUBSET PairsOf(uiPointCount) :
        /\ Cardinality(S) <= MaxSides
        /\ \E w \in [S -> Weights] : aui = MapOf(uiPointCount, S, w)
  /\ auiDis = aui[0]
  /\ auiBook = [p \in Points |-> IF p = 0 THEN 1 ELSE 0]
  /\ i = 0
  /\ u = 0
  /\ v = 0
  /\ phase = "nearest"

\* Faulty variant: booked points are candidates again.
CandidatesAll == {p \in Points : auiDis[p] < INVAILD}

Candidates == {p \in Points : auiBook[p] = 0 /\ auiDis[p] < INVAILD}

\* Faulty variant: the first candidate instead of the nearest.
NearestIsFirst == {p \in Candidates : \A q \in Candidates : p <= q}

\* The first of the nearest candidates; u keeps its value when there is none.
Nearest ==
  {p \in Candidates : \A q \in Candidates :
     auiDis[p] < auiDis[q] \/ (auiDis[p] = auiDis[q] /\ p <= q)}

Book ==
  /\ phase = "nearest" /\ i < uiPointCount - 1
  /\ u' \in IF Candidates = {} THEN {u} ELSE Nearest
  /\ auiBook' = [auiBook EXCEPT ![u'] = 1]
  /\ v' = 0
  /\ phase' = "relax"
  /\ UNCHANGED <<graph, auiDis, i>>

Relax ==
  /\ phase = "relax" /\ v < uiPointCount
  /\ auiDis' = IF aui[u][v] < INVAILD /\ auiDis[v] > auiDis[u] + aui[u][v]
               THEN [auiDis EXCEPT ![v] = auiDis[u] + aui[u][v]] ELSE auiDis
  /\ v' = v + 1
  /\ UNCHANGED <<graph, auiBook, i, u, phase>>

RelaxedAll ==
  /\ phase = "relax" /\ v >= uiPointCount
  /\ i' = i + 1
  /\ phase' = "nearest"
  /\ UNCHANGED <<graph, auiDis, auiBook, u, v>>

Return ==
  /\ phase = "nearest" /\ i >= uiPointCount - 1
  /\ phase' = "done"
  /\ UNCHANGED <<graph, auiDis, auiBook, i, u, v>>

Done == phase = "done" /\ UNCHANGED vars

Next == Book \/ Relax \/ RelaxedAll \/ Return \/ Done

Spec == Init /\ [][Next]_vars

-----------------------------------------------------------------------------
\* A booked point never gets nearer, since no other point lies nearer than the
\* booked ones: each point's sides need to be relaxed once only.
BookedIsFinal ==
  [][\A p \in Points : auiBook[p] = 1 => auiDis'[p] = auiDis[p]]_vars

=============================================================================
