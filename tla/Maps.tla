-------------------------------- MODULE Maps --------------------------------
(***************************************************************************)
(* A graph as ALGORITHM_SP_MAP_S of algorithm.h holds it: a square of      *)
(* unsigned distances, INVAILD where there is no side, 0 on the diagonal.  *)
(* Weights are far below INVAILD, so that no sum of two leaves a UINT.     *)
(***************************************************************************)
EXTENDS Integers, FiniteSets

CONSTANTS
  MaxPoints,     \* bound: how many points a map has at most
  MaxSides,      \* bound: how many sides
  Weights        \* the weights of the sides

INVAILD == 268435455

PointsOf(n) == 0..(n - 1)
PairsOf(n) == {s \in PointsOf(n) \X PointsOf(n) : s[1] # s[2]}

\* The map of n points whose sides are the pairs in S, of weight w.
MapOf(n, S, w) ==
  [a \in PointsOf(n) |-> [b \in PointsOf(n) |->
     IF a = b THEN 0 ELSE IF <<a, b>> \in S THEN w[<<a, b>>] ELSE INVAILD]]

=============================================================================
