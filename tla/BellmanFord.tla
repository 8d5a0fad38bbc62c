---------------------------- MODULE BellmanFord ----------------------------
(***************************************************************************)
(* ALGORITHM_SP_BellmanFord of algorithm.c: rounds that relax every side   *)
(* once, until a round changes nothing or there were as many as there are  *)
(* points but one; then a last look for sides that are still loose.  One   *)
(* step is one side of a round or of the last look.                        *)
(***************************************************************************)
EXTENDS Sides

CONSTANT Potentials     \* the values of the functions GreatestPotential compares with

ASSUME PotentialsAreNumbers == Potentials \subseteq Int

VARIABLES
  uiPointCount,  \* the graph: its points are 0 to uiPointCount - 1
  uiSideCount,   \* how many sides it has
  sides,         \* the sides, from 0
  aiDis,         \* the distances
  aiBakDis,      \* those before the round
  k,             \* how many rounds are over
  i,             \* the next side
  uiFlag,        \* 1 when a negative cycle is reported
  phase          \* "round", "relax", "check" or "done"

graph == <<uiPointCount, uiSideCount, sides>>
vars == <<uiPointCount, uiSideCount, sides, aiDis, aiBakDis, k, i, uiFlag, phase>>

Points == PointsOf(uiPointCount)

Init ==
  /\ uiPointCount \in 1..MaxPoints
  /\ uiSideCount \in 0..MaxSides
  /\ sides \in [0..(uiSideCount - 1) -> Side(uiPointCount)]
  /\ aiDis = FirstDis(uiPointCount)
  /\ aiBakDis = aiDis           \* not read before Backup has set it
  /\ k = 0
  /\ i = 0
  /\ uiFlag = 0
  /\ phase = "round"

Backup ==
  /\ phase = "round" /\ k < uiPointCount - 1
  /\ aiBakDis' = aiDis
  /\ i' = 0
  /\ phase' = "relax"
  /\ UNCHANGED <<graph, aiDis, k, uiFlag>>

Relax ==
  /\ phase = "relax" /\ i < uiSideCount
  /\ aiDis' = Relaxed(aiDis, sides[i])
  /\ i' = i + 1
  /\ UNCHANGED <<graph, aiBakDis, k, uiFlag, phase>>

\* Faulty variant: only point 0 is compared with its distance before.
EndRoundLooksOnce ==
  /\ phase = "relax" /\ i = uiSideCount
  /\ IF aiBakDis[0] = aiDis[0] THEN phase' = "check" /\ k' = k
                               ELSE phase' = "round" /\ k' = k + 1
  /\ i' = 0
  /\ UNCHANGED <<graph, aiDis, aiBakDis, uiFlag>>

\* A round that changed nothing is the last.
EndRound ==
  /\ phase = "relax" /\ i = uiSideCount
  /\ IF aiBakDis = aiDis THEN phase' = "check" /\ k' = k
                         ELSE phase' = "round" /\ k' = k + 1
  /\ i' = 0
  /\ UNCHANGED <<graph, aiDis, aiBakDis, uiFlag>>

EndRounds ==
  /\ phase = "round" /\ k >= uiPointCount - 1
  /\ i' = 0
  /\ phase' = "check"
  /\ UNCHANGED <<graph, aiDis, aiBakDis, k, uiFlag>>

\* Faulty variants: the flag is lowered again, and side 0 is not looked at.
CheckForgets ==
  /\ phase = "check" /\ i < uiSideCount
  /\ uiFlag' = IF Loose(aiDis, sides[i]) THEN 1 ELSE 0
  /\ i' = i + 1
  /\ UNCHANGED <<graph, aiDis, aiBakDis, k, phase>>
CheckSkipsSide ==
  /\ phase = "check" /\ i < uiSideCount
  /\ uiFlag' = IF i > 0 /\ Loose(aiDis, sides[i]) THEN 1 ELSE uiFlag
  /\ i' = i + 1
  /\ UNCHANGED <<graph, aiDis, aiBakDis, k, phase>>

Check ==
  /\ phase = "check" /\ i < uiSideCount
  /\ uiFlag' = IF Loose(aiDis, sides[i]) THEN 1 ELSE uiFlag
  /\ i' = i + 1
  /\ UNCHANGED <<graph, aiDis, aiBakDis, k, phase>>

Return ==
  /\ phase = "check" /\ i = uiSideCount
  /\ phase' = "done"
  /\ UNCHANGED <<graph, aiDis, aiBakDis, k, i, uiFlag>>

Done == phase = "done" /\ UNCHANGED vars

Next == Backup \/ Relax \/ EndRound \/ EndRounds \/ Check \/ Return \/ Done

Spec == Init /\ [][Next]_vars

-----------------------------------------------------------------------------
\* Type invariant: every index stays inside its array, and there are no more
\* rounds than points but one.
TypeOK ==
  /\ uiPointCount \in 1..MaxPoints
  /\ uiSideCount \in 0..MaxSides
  /\ sides \in [0..(uiSideCount - 1) -> Side(uiPointCount)]
  /\ aiDis \in [Points -> Int]
  /\ aiBakDis \in [Points -> Int]
  /\ k \in 0..(uiPointCount - 1)
  /\ i \in 0..uiSideCount
  /\ uiFlag \in {0, 1}
  /\ phase \in {"round", "relax", "check", "done"}

\* A function that gives no point more than its first distance and that no
\* side could lower.
Potential(phi) ==
  /\ \A p \in Points : phi[p] <= FirstDis(uiPointCount)[p]
  /\ \A j \in 0..(uiSideCount - 1) : ~Loose(phi, sides[j])

\* What is returned without a report is the greatest potential there is, and
\* no potential ever exceeds the distances on the way.  The greatest potential
\* is the least weight of a walk: so this is what the function is for.
GreatestPotential ==
  /\ phase = "done" /\ uiFlag = 0 => Potential(aiDis)
  /\ \A phi \in [Points -> Potentials] :
        Potential(phi) => \A p \in Points : phi[p] <= aiDis[p]

=============================================================================
