----------------------------- MODULE Partition -----------------------------
(***************************************************************************)
(* What a union-find set promises: a partition of the points, where to     *)
(* relate two points is to unite their blocks.                             *)
(***************************************************************************)
EXTENDS Naturals, FiniteSets

CONSTANT Points

VARIABLES blocks, sum          \* sum: how many blocks there are

vars == <<blocks, sum>>

Init == blocks = {{x} : x \in Points} /\ sum = Cardinality(Points)

BlockOf(x) == CHOOSE b \in blocks : x \in b

Relate(x, y) ==
  /\ blocks' = (blocks \ {BlockOf(x), BlockOf(y)}) \cup {BlockOf(x) \cup BlockOf(y)}
  /\ sum' = IF BlockOf(x) = BlockOf(y) THEN sum ELSE sum - 1

Next == \E x, y \in Points : Relate(x, y)

Spec == Init /\ [][Next]_vars

=============================================================================
