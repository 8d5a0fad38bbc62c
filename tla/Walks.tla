------------------------------- MODULE Walks -------------------------------
(***************************************************************************)
(* The reference for the shortest path functions: walks along the sides of *)
(* a graph, a walk being the sequence of its sides' indices, and the       *)
(* weights of those of bounded length.                                     *)
(***************************************************************************)
EXTENDS Sides, SequencesExt

\* The walks over at least one and at most n sides.
WalksOf(sides, n) ==
  {ks \in SeqOf(DOMAIN sides, n) \ {<<>>} :
     \A x \in 1..(Len(ks) - 1) : sides[ks[x]].v = sides[ks[x + 1]].u}

From(sides, ks) == sides[Head(ks)].u
To(sides, ks) == sides[Last(ks)].v
WeightOf(sides, ks) == SumFunction([x \in DOMAIN ks |-> sides[ks[x]].w])

\* A point is reachable from point 0.  Over n points n - 1 sides are enough.
Reachable(sides, n, p) ==
  p = 0 \/ \E ks \in WalksOf(sides, n - 1) : From(sides, ks) = 0 /\ To(sides, ks) = p

\* The least weight of a walk over at most m sides to p, where starting in a
\* point other than 0 costs INVAILD.
LeastWithin(sides, n, m, p) ==
  Min({FirstDis(n)[p]} \cup
      {FirstDis(n)[From(sides, ks)] + WeightOf(sides, ks) :
         ks \in {l \in WalksOf(sides, m) : To(sides, l) = p}})

\* The cycles of a graph of n points; one of negative weight has at most n sides.
NegativeCycles(sides, n) ==
  {ks \in WalksOf(sides, n) : From(sides, ks) = To(sides, ks) /\ WeightOf(sides, ks) < 0}

=============================================================================
