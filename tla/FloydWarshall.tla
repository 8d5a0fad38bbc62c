---------------------------- MODULE FloydWarshall ----------------------------
(***************************************************************************)
(* ALGORITHM_SP_FloydWarshall of algorithm.c: for every point k each       *)
(* entry of the map is compared with the way through k, in place.  One     *)
(* step is one entry.                                                      *)
(***************************************************************************)
EXTENDS Maps

VARIABLES
  uiPointCount,  \* the points are 0 to uiPointCount - 1
  aui,           \* the map
  given,         \* the map the caller passed, for the properties only
  k, i, j        \* the loops' variables

vars == <<uiPointCount, aui, given, k, i, j>>

Points == PointsOf(uiPointCount)

\* The call for a map that is given.
Begin == aui = given /\ k = 0 /\ i = 0 /\ j = 0

Init ==
  /\ uiPointCount \in 1..MaxPoints
  /\ \E S \in SUBSET PairsOf(uiPointCount) :
        /\ Cardinality(S) <= MaxSides
        /\ \E w \in [S -> Weights] : given = MapOf(uiPointCount, S, w)
  /\ Begin

\* Faulty variant: the loop of k is the innermost.
AdvanceInnermost ==
  LET nk == IF k + 1 < uiPointCount THEN k + 1 ELSE 0
      nj == IF nk > 0 THEN j ELSE IF j + 1 < uiPointCount THEN j + 1 ELSE 0
      ni == IF nk > 0 \/ nj > 0 THEN i ELSE i + 1
  IN  IF ni < uiPointCount THEN k' = nk /\ i' = ni /\ j' = nj
                           ELSE k' = uiPointCount /\ i' = 0 /\ j' = 0

\* The loops: j runs fastest, k slowest; k = uiPointCount when they are over.
Advance ==
  /\ j' = IF j + 1 < uiPointCount THEN j + 1 ELSE 0
  /\ i' = IF j' > 0 THEN i ELSE IF i + 1 < uiPointCount THEN i + 1 ELSE 0
  /\ k' = IF i' > 0 \/ j' > 0 THEN k ELSE k + 1

Shorten ==
  /\ k < uiPointCount
  /\ aui' = IF aui[i][j] > aui[i][k] + aui[k][j]
            THEN [aui EXCEPT ![i][j] = aui[i][k] + aui[k][j]] ELSE aui
  /\ Advance
  /\ UNCHANGED <<uiPointCount, given>>

Done == k = uiPointCount /\ UNCHANGED vars

Next == Shorten \/ Done

Spec == Init /\ [][Next]_vars

=============================================================================
