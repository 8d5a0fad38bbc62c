------------------------------- MODULE Sides -------------------------------
(***************************************************************************)
(* A directed graph as ALGORITHM_SP_SIDE_S of algorithm.h lists it, and    *)
(* the relaxation of one side that both Bellman-Ford functions of          *)
(* algorithm.c repeat.  Sides may be parallel and may start where they end.*)
(***************************************************************************)
EXTENDS Integers

CONSTANTS
  MaxPoints,     \* bound: how many points a graph has at most
  MaxSides,      \* bound: how many sides
  Weights        \* the weights of the sides

ASSUME SideParameters ==
  MaxPoints \in Nat /\ MaxPoints > 0 /\ MaxSides \in Nat /\ Weights \subseteq Int

\* The distance of a point that was not reached.
INVAILD == 268435455

\* No sum leaves the range of an INT.
ASSUME WeightsSmall ==
  LET room == 2147483647 - INVAILD
  IN  \A w \in Weights : w * MaxPoints * MaxPoints * MaxSides \in -room..room

PointsOf(n) == 0..(n - 1)
Side(n) == [u : PointsOf(n), v : PointsOf(n), w : Weights]

\* Point 0 is where all distances are measured from.
FirstDis(n) == [p \in PointsOf(n) |-> IF p = 0 THEN 0 ELSE INVAILD]

Loose(dis, s) == dis[s.v] > dis[s.u] + s.w

Relaxed(dis, s) == IF Loose(dis, s) THEN [dis EXCEPT ![s.v] = dis[s.u] + s.w] ELSE dis

=============================================================================
