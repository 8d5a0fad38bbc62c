----------------------------- MODULE UnionFind -----------------------------
(***************************************************************************)
(* ALGORITHM_BT_UnionFindSet of algorithm.c: a forest over the points in   *)
(* an array, where Getf compresses the path it climbs, and a call of Merge *)
(* for each relation the caller passes, in any order and number.           *)
(***************************************************************************)
EXTENDS Naturals, FiniteSets

CONSTANT PointCount

Points == 0..(PointCount - 1)

VARIABLE auiNum      \* auiNum[x]: the parent of x, x itself at a root

\* The points on the way from x to its root, both included.
Climb(f, x) ==
  LET way[y \in Points] == IF f[y] = y THEN {y} ELSE {y} \cup way[f[y]] IN way[x]

Root(f, x) == CHOOSE r \in Climb(f, x) : f[r] = r

\* algorithm_bt_UnionFindSet_Getf: every point on the way gets the root for its
\* parent.
Getf(f, x) == [y \in Points |-> IF y \in Climb(f, x) THEN Root(f, x) ELSE f[y]]

Roots(f) == {x \in Points : f[x] = x}

Init == auiNum = [x \in Points |-> x]

\* Faulty variant: the point is hung up, not its root.
MergePoint(x, y) ==
  LET f == Getf(Getf(auiNum, x), y) IN auiNum' = [f EXCEPT ![y] = Root(f, x)]

\* algorithm_bt_UnionFindSet_Merge.
Merge(x, y) ==
  LET f == Getf(Getf(auiNum, x), y)
      uiTemp1 == Root(f, x)
      uiTemp2 == Root(f, y)
  IN  auiNum' = IF uiTemp1 # uiTemp2 THEN [f EXCEPT ![uiTemp2] = uiTemp1] ELSE f

Next == \E x, y \in Points : Merge(x, y)

Spec == Init /\ [][Next]_auiNum

-----------------------------------------------------------------------------
\* What the loop over the points at the end counts.
uiSum == Cardinality(Roots(auiNum))

Blocks ==
  INSTANCE Partition
    WITH blocks <- {{x \in Points : Root(auiNum, x) = r} : r \in Roots(auiNum)},
         sum <- uiSum

\* Two points have one root exactly when the relations passed so far connect
\* them, directly or through others, and the sum returned is the number of the
\* sets (algorithm.c:395-441).  This is Blocks!Spec, with the relation named
\* that a step must implement; where the array stays as it is nothing changes.
ImplementsPartition ==
  /\ Blocks!Init
  /\ [][auiNum' # auiNum =>
           /\ Blocks!Next
           /\ \A x, y \in Points : Merge(x, y) => Blocks!Relate(x, y)]_auiNum

=============================================================================
