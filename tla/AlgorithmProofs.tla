-------------------------- MODULE AlgorithmProofs --------------------------
(***************************************************************************)
(* The functions of algorithm.c for every graph, every map, every row of   *)
(* numbers and every order of relations.                                   *)
(***************************************************************************)
EXTENDS Algorithms, DataProofs, SequenceTheorems

-----------------------------------------------------------------------------
(* The shortest paths by rounds.                                            *)

\* The sides that the last look has passed are not loose.
PassedTight ==
  /\ phase \in {"check", "done"} /\ uiFlag = 0 =>
        \A j \in 0..(i - 1) : ~Loose(aiDis, sides[j])
  /\ phase = "done" => i = uiSideCount

\* Distances start as FirstDis and only fall; they never fall below a potential.
OnlyFallen == \A p \in Points : aiDis[p] <= FirstDis(uiPointCount)[p]
AbovePotentials ==
  \A phi \in [Points -> Potentials] :
     Potential(phi) => \A p \in Points : phi[p] <= aiDis[p]

\* A round runs only while there is one left.
RoundLeft == phase = "relax" => k < uiPointCount - 1

DisInv == TypeOK /\ RoundLeft /\ PassedTight /\ OnlyFallen /\ AbovePotentials

LEMMA FirstDisType ==
  ASSUME NEW n \in Nat
  PROVE  FirstDis(n) \in [PointsOf(n) -> Int]
BY DEF FirstDis, INVAILD

LEMMA DisInvInit == Init => DisInv
<1> SUFFICES ASSUME Init PROVE DisInv
  OBVIOUS
<1>1. uiPointCount \in Nat /\ uiPointCount > 0
  BY SideParameters DEF Init
<1>2. aiDis \in [Points -> Int]
  BY <1>1, FirstDisType DEF Init, Points
<1>3. TypeOK
  BY <1>1, <1>2, SideParameters DEF Init, TypeOK
<1>4. PassedTight /\ RoundLeft
  BY DEF Init, PassedTight, RoundLeft
<1>5. OnlyFallen /\ AbovePotentials
  BY <1>2 DEF Init, OnlyFallen, AbovePotentials, Potential
<1> QED
  BY <1>3, <1>4, <1>5 DEF DisInv

\* Relaxing keeps to the integers, falls, and stays above every function that
\* the side could not lower.
LEMMA RelaxedFalls ==
  ASSUME NEW n \in Nat, NEW s \in Side(n), NEW dis \in [PointsOf(n) -> Int]
  PROVE  /\ Relaxed(dis, s) \in [PointsOf(n) -> Int]
         /\ \A p \in PointsOf(n) : Relaxed(dis, s)[p] <= dis[p]
<1>1. s.u \in PointsOf(n) /\ s.v \in PointsOf(n) /\ s.w \in Int
  BY SideParameters DEF Side
<1> QED
  BY <1>1 DEF Relaxed, Loose

LEMMA RelaxedStaysAbove ==
  ASSUME NEW n \in Nat, NEW s \in Side(n), NEW dis \in [PointsOf(n) -> Int],
         NEW phi \in [PointsOf(n) -> Int], ~Loose(phi, s),
         \A p \in PointsOf(n) : phi[p] <= dis[p]
  PROVE  \A p \in PointsOf(n) : phi[p] <= Relaxed(dis, s)[p]
<1>1. s.u \in PointsOf(n) /\ s.v \in PointsOf(n) /\ s.w \in Int
  BY SideParameters DEF Side
<1>2. phi[s.v] <= phi[s.u] + s.w
  BY <1>1 DEF Loose
<1>3. phi[s.v] <= dis[s.u] + s.w
  BY <1>1, <1>2
<1> QED
  BY <1>1, <1>3 DEF Relaxed

LEMMA RelaxInv ==
  ASSUME DisInv, Relax
  PROVE  DisInv'
<1> USE DEF DisInv
<1>1. /\ uiPointCount' = uiPointCount /\ uiSideCount' = uiSideCount /\ sides' = sides
      /\ Points' = Points /\ phase' = phase /\ phase = "relax"
      /\ i' = i + 1 /\ i \in 0..(uiSideCount - 1)
      /\ aiBakDis' = aiBakDis /\ k' = k /\ uiFlag' = uiFlag
  BY SideParameters DEF Relax, graph, Points, TypeOK
<1>2. uiPointCount \in Nat /\ sides[i] \in Side(uiPointCount)
      /\ aiDis \in [PointsOf(uiPointCount) -> Int]
  BY <1>1, SideParameters DEF TypeOK, Points
<1>3. aiDis' = Relaxed(aiDis, sides[i])
  BY DEF Relax
<1>4. aiDis' \in [Points -> Int] /\ \A p \in Points : aiDis'[p] <= aiDis[p]
  BY <1>2, <1>3, RelaxedFalls DEF Points
<1>5. TypeOK'
  BY <1>1, <1>4 DEF TypeOK
<1>6. PassedTight' /\ RoundLeft'
  BY <1>1 DEF PassedTight, RoundLeft
<1>7. OnlyFallen'
  <2>1. \A p \in Points : FirstDis(uiPointCount)[p] \in Int /\ aiDis[p] \in Int /\ aiDis'[p] \in Int
    BY <1>2, <1>4, FirstDisType DEF Points
  <2> QED
    BY <1>1, <1>4, <2>1 DEF OnlyFallen
<1>8. AbovePotentials'
  <2> SUFFICES ASSUME NEW phi \in [Points -> Potentials], Potential(phi)
               PROVE  \A p \in Points : phi[p] <= aiDis'[p]
    BY <1>1 DEF AbovePotentials, Potential
  <2>1. phi \in [PointsOf(uiPointCount) -> Int]
    BY PotentialsAreNumbers DEF Points
  <2>2. ~Loose(phi, sides[i])
    BY <1>1 DEF Potential
  <2>3. \A p \in PointsOf(uiPointCount) : phi[p] <= aiDis[p]
    BY DEF AbovePotentials, Points
  <2> QED
    BY <1>2, <1>3, <2>1, <2>2, <2>3, RelaxedStaysAbove DEF Points
<1> QED
  BY <1>5, <1>6, <1>7, <1>8

\* The other steps leave graph and distances alone.
LEMMA UnrelaxedInv ==
  ASSUME DisInv, UNCHANGED <<graph, aiDis>>, TypeOK', RoundLeft', PassedTight'
  PROVE  DisInv'
BY DEF DisInv, graph, Points, OnlyFallen, AbovePotentials, Potential

LEMMA RoundsInv ==
  ASSUME DisInv, Backup \/ EndRound \/ EndRounds
  PROVE  DisInv'
<1> USE DEF DisInv
<1>1. TypeOK'
  <2>1. CASE Backup
    BY <2>1 DEF TypeOK, Points, graph, Backup
  <2>2. CASE EndRound
    <3>1. k' \in 0..(uiPointCount - 1) /\ phase' \in {"check", "round"}
      BY <2>2, SideParameters DEF TypeOK, RoundLeft, EndRound
    <3> QED
      BY <2>2, <3>1 DEF TypeOK, Points, graph, EndRound
  <2>3. CASE EndRounds
    BY <2>3 DEF TypeOK, Points, graph, EndRounds
  <2> QED
    BY <2>1, <2>2, <2>3
<1>2. PassedTight' /\ RoundLeft'
  BY DEF PassedTight, RoundLeft, graph, Backup, EndRound, EndRounds
<1> QED
  BY <1>1, <1>2, UnrelaxedInv DEF Backup, EndRound, EndRounds

LEMMA CheckInv ==
  ASSUME DisInv, Check \/ Return
  PROVE  DisInv'
<1> USE DEF DisInv
<1>1. TypeOK' /\ RoundLeft'
  BY SideParameters DEF TypeOK, RoundLeft, Points, graph, Check, Return
<1>2. CASE Check
  <2>1. uiFlag' = 0 => uiFlag = 0 /\ ~Loose(aiDis, sides[i])
    BY <1>2 DEF Check
  <2>2. i \in Nat /\ i' = i + 1 /\ sides' = sides /\ aiDis' = aiDis
        /\ phase = "check" /\ phase' = "check"
    BY <1>2, SideParameters DEF Check, graph, TypeOK
  <2>3. uiFlag' = 0 => \A j \in 0..(i' - 1) : ~Loose(aiDis, sides[j])
    BY <2>1, <2>2 DEF PassedTight
  <2>4. PassedTight'
    BY <2>2, <2>3 DEF PassedTight, Loose
  <2> QED
    BY <1>1, <1>2, <2>4, UnrelaxedInv DEF Check
<1>3. CASE Return
  <2>1. PassedTight'
    BY <1>3 DEF Return, graph, PassedTight, Loose
  <2> QED
    BY <1>1, <1>3, <2>1, UnrelaxedInv DEF Return
<1> QED
  BY <1>2, <1>3

LEMMA DisInvNext == DisInv /\ [Next]_vars => DisInv'
<1> SUFFICES ASSUME DisInv, [Next]_vars PROVE DisInv'
  OBVIOUS
<1>1. CASE UNCHANGED vars
  <2>1. TypeOK' /\ RoundLeft' /\ PassedTight'
    BY <1>1 DEF vars, DisInv, TypeOK, RoundLeft, PassedTight, Points, Loose
  <2> QED
    BY <1>1, <2>1, UnrelaxedInv DEF vars, graph
<1>2. CASE Relax
  BY <1>2, RelaxInv
<1>3. CASE Backup \/ EndRound \/ EndRounds
  BY <1>3, RoundsInv
<1>4. CASE Check \/ Return
  BY <1>4, CheckInv
<1> QED
  BY <1>1, <1>2, <1>3, <1>4 DEF Next, Done

(* Without a report the result is a potential, and no potential is greater   *)
(* in any point (algorithm.c:127-201): for every graph, every choice and     *)
(* order of its sides and every set of values a potential may take.          *)
THEOREM ResultIsGreatestPotential == Spec => []GreatestPotential
<1>1. Init => DisInv
  BY DisInvInit
<1>2. DisInv /\ [Next]_vars => DisInv'
  BY DisInvNext
<1>3. DisInv => GreatestPotential
  BY DEF DisInv, PassedTight, OnlyFallen, AbovePotentials, GreatestPotential, Potential
<1> QED
  BY <1>1, <1>2, <1>3, PTL DEF Spec

-----------------------------------------------------------------------------
(* Walks.                                                                   *)

IsGraph(es, n) ==
  /\ n \in Nat \ {0}
  /\ \A j \in DOMAIN es : es[j].u \in PointsOf(n) /\ es[j].v \in PointsOf(n) /\ es[j].w \in Int

\* ks is a walk over m sides.
IsWalk(es, ks, m) ==
  /\ m \in Nat \ {0} /\ ks \in [1..m -> DOMAIN es]
  /\ \A x \in 1..(m - 1) : es[ks[x]].v = es[ks[x + 1]].u

\* Where it is after x sides, and the weights of its sides.
At(es, ks, x) == IF x = 0 THEN es[ks[1]].u ELSE es[ks[x]].v
Row(es, ks) == [x \in DOMAIN ks |-> es[ks[x]].w]

LEMMA WalksOfIs ==
  ASSUME NEW es, NEW n \in Nat, NEW ks
  PROVE  ks \in WalksOf(es, n) <=> \E m \in 1..n : IsWalk(es, ks, m)
<1>1. ASSUME NEW m \in Nat, ks \in [1..m -> DOMAIN es]
      PROVE  ks \in Seq(DOMAIN es) /\ Len(ks) = m /\ (m = 0 <=> ks = <<>>)
  <2>1. ks \in Seq(DOMAIN es)
    BY <1>1, SeqDef
  <2>2. Len(ks) \in Nat /\ DOMAIN ks = 1..Len(ks) /\ DOMAIN ks = 1..m
    BY <1>1, <2>1, LenProperties
  <2>3. \A a, b \in Nat : 1..a = 1..b => a <= b
    <3> SUFFICES ASSUME NEW a \in Nat, NEW b \in Nat, 1..a = 1..b, ~(a <= b) PROVE FALSE
      OBVIOUS
    <3>1. a \in 1..a /\ a \notin 1..b
      OBVIOUS
    <3> QED
      BY <3>1
  <2>4. Len(ks) = m
    <3>1. 1..Len(ks) = 1..m /\ Len(ks) \in Nat
      BY <2>2
    <3> QED
      BY <2>3, <3>1
  <2> QED
    BY <2>1, <2>4, EmptySeq
<1>2. ASSUME ks \in WalksOf(es, n) PROVE \E m \in 1..n : IsWalk(es, ks, m)
  <2>1. PICK m \in 0..n : ks \in [1..m -> DOMAIN es]
    BY <1>2 DEF WalksOf, SeqOf
  <2>2. m # 0 /\ Len(ks) = m
    <3>1. ks # <<>>
      BY <1>2 DEF WalksOf
    <3> QED
      BY <1>1, <2>1, <3>1
  <2>3. \A x \in 1..(m - 1) : es[ks[x]].v = es[ks[x + 1]].u
    BY <1>2, <2>2 DEF WalksOf
  <2>4. m \in 1..n /\ m \in Nat \ {0}
    BY <2>2
  <2>5. IsWalk(es, ks, m)
    BY <2>1, <2>3, <2>4 DEF IsWalk
  <2> QED
    BY <2>4, <2>5
<1>3. ASSUME NEW m \in 1..n, IsWalk(es, ks, m) PROVE ks \in WalksOf(es, n)
  <2>1. ks \in [1..m -> DOMAIN es] /\ m # 0 /\ m \in 0..n
    BY <1>3 DEF IsWalk
  <2>2. ks \in SeqOf(DOMAIN es, n)
    BY <2>1 DEF SeqOf
  <2>3. Len(ks) = m /\ ks # <<>>
    BY <1>1, <2>1
  <2> QED
    BY <1>3, <2>2, <2>3 DEF WalksOf, IsWalk
<1> QED
  BY <1>2, <1>3

LEMMA WalkIs ==
  ASSUME NEW es, NEW n, IsGraph(es, n), NEW ks, NEW m, IsWalk(es, ks, m)
  PROVE  /\ From(es, ks) = At(es, ks, 0) /\ To(es, ks) = At(es, ks, m)
         /\ WeightOf(es, ks) = SumOver(Row(es, ks), 1..m)
         /\ From(es, ks) \in PointsOf(n) /\ To(es, ks) \in PointsOf(n)
         /\ WeightOf(es, ks) \in Int
         /\ \A x \in 1..m : Row(es, ks)[x] = es[ks[x]].w /\ Row(es, ks)[x] \in Int
         /\ \A x \in 0..m : At(es, ks, x) \in PointsOf(n)
         /\ \A x \in 1..m : ks[x] \in DOMAIN es /\ At(es, ks, x - 1) = es[ks[x]].u
                            /\ At(es, ks, x) = es[ks[x]].v
<1>1. /\ m \in Nat \ {0} /\ ks \in [1..m -> DOMAIN es]
      /\ ks \in Seq(DOMAIN es) /\ Len(ks) = m
  <2>1. m \in Nat \ {0} /\ ks \in [1..m -> DOMAIN es]
    BY DEF IsWalk
  <2>2. ks \in Seq(DOMAIN es)
    BY <2>1, SeqDef
  <2>3. Len(ks) \in Nat /\ DOMAIN ks = 1..Len(ks) /\ DOMAIN ks = 1..m
    BY <2>1, <2>2, LenProperties
  <2> QED
    BY <2>1, <2>2, <2>3
<1>2. \A x \in 1..m : ks[x] \in DOMAIN es /\ es[ks[x]].u \in PointsOf(n)
                      /\ es[ks[x]].v \in PointsOf(n) /\ es[ks[x]].w \in Int
  BY <1>1 DEF IsGraph
<1>3. From(es, ks) = At(es, ks, 0) /\ To(es, ks) = At(es, ks, m)
  BY <1>1 DEF From, To, At, Last
<1>4. \A x \in 1..m : Row(es, ks)[x] = es[ks[x]].w /\ Row(es, ks)[x] \in Int
  BY <1>1, <1>2 DEF Row
<1>5. \A x \in 1..m : At(es, ks, x - 1) = es[ks[x]].u /\ At(es, ks, x) = es[ks[x]].v
  <2> SUFFICES ASSUME NEW x \in 1..m
               PROVE  At(es, ks, x - 1) = es[ks[x]].u /\ At(es, ks, x) = es[ks[x]].v
    OBVIOUS
  <2>1. CASE x = 1
    BY <2>1 DEF At
  <2>2. CASE x # 1
    <3>1. x - 1 \in 1..(m - 1) /\ (x - 1) + 1 = x
      BY <1>1, <2>2
    <3>2. es[ks[x - 1]].v = es[ks[(x - 1) + 1]].u
      BY <3>1 DEF IsWalk
    <3> QED
      BY <2>2, <3>1, <3>2 DEF At
  <2> QED
    BY <2>1, <2>2
<1>6. \A x \in 0..m : At(es, ks, x) \in PointsOf(n)
  BY <1>1, <1>2 DEF At
<1>7. WeightOf(es, ks) = SumOver(Row(es, ks), 1..m)
  <2>1. DOMAIN ks = 1..m /\ DOMAIN [x \in DOMAIN ks |-> es[ks[x]].w] = 1..m
    BY <1>1
  <2> QED
    BY <2>1 DEF WeightOf, SumFunction, SumFunctionOnSet, FoldFunctionOnSet, SumOver, MapThenSumSet, Row
<1>8. SumOver(Row(es, ks), 1..m) \in Int
  <2>1. IsFiniteSet(1..m)
    BY <1>1, FS_Interval
  <2> QED
    BY <1>4, <2>1, SumOverType
<1> QED
  BY <1>1, <1>2, <1>3, <1>4, <1>5, <1>6, <1>7, <1>8

LEMMA OneSide ==
  ASSUME NEW es, NEW n, IsGraph(es, n), NEW j \in DOMAIN es
  PROVE  LET ks == [x \in 1..1 |-> j] IN
         /\ IsWalk(es, ks, 1) /\ From(es, ks) = es[j].u /\ To(es, ks) = es[j].v
         /\ WeightOf(es, ks) = es[j].w
<1> DEFINE ks == [x \in 1..1 |-> j]
<1>1. ks[1] = j /\ DOMAIN ks = 1..1 /\ 1 \in 1..1
  OBVIOUS
<1>2. IsWalk(es, ks, 1)
  BY DEF IsWalk
<1> HIDE DEF ks
<1>3. /\ From(es, ks) = es[j].u /\ To(es, ks) = es[j].v
      /\ WeightOf(es, ks) = SumOver(Row(es, ks), 1..1)
      /\ Row(es, ks)[1] = es[j].w /\ es[j].w \in Int
  <2>1. /\ From(es, ks) = At(es, ks, 0) /\ To(es, ks) = At(es, ks, 1)
        /\ WeightOf(es, ks) = SumOver(Row(es, ks), 1..1)
        /\ \A x \in 1..1 : Row(es, ks)[x] = es[ks[x]].w
    <3> DEFINE m == 1
    <3>1. IsWalk(es, ks, m)
      BY <1>2
    <3> HIDE DEF m
    <3>2. /\ From(es, ks) = At(es, ks, 0) /\ To(es, ks) = At(es, ks, m)
          /\ WeightOf(es, ks) = SumOver(Row(es, ks), 1..m)
          /\ \A x \in 1..m : Row(es, ks)[x] = es[ks[x]].w
      BY <3>1, WalkIs
    <3> QED
      BY <3>2 DEF m
  <2>2. es[j].w \in Int
    BY DEF IsGraph
  <2> QED
    BY <1>1, <2>1, <2>2 DEF At
<1>4. SumOver(Row(es, ks), 1..1) = es[j].w
  <2>1. \A x \in 1..(0 + 1) : Row(es, ks)[x] \in Int
    BY <1>3
  <2>2. SumOver(Row(es, ks), 1..(0 + 1)) = SumOver(Row(es, ks), 1..0) + Row(es, ks)[0 + 1]
    BY <2>1, SumOverNext
  <2>3. 1..0 = {} /\ 0 + 1 = 1
    OBVIOUS
  <2>4. SumOver(Row(es, ks), 1..0) = 0
    BY <2>3, SumOverEmpty
  <2> QED
    BY <1>3, <2>2, <2>3, <2>4
<1> QED
  BY <1>2, <1>3, <1>4 DEF ks

\* The first x sides of a walk.
LEMMA WalkPrefix ==
  ASSUME NEW es, NEW n, IsGraph(es, n), NEW ks, NEW m, IsWalk(es, ks, m), NEW x \in 1..m
  PROVE  LET pre == [z \in 1..x |-> ks[z]] IN
         /\ IsWalk(es, pre, x) /\ From(es, pre) = From(es, ks)
         /\ To(es, pre) = At(es, ks, x)
         /\ WeightOf(es, pre) = SumOver(Row(es, ks), 1..x)
<1> DEFINE pre == [z \in 1..x |-> ks[z]]
<1>1. m \in Nat /\ ks \in [1..m -> DOMAIN es] /\ x \in Nat \ {0} /\ \A z \in 1..x : z \in 1..m
  BY DEF IsWalk
<1>2. \A z \in 1..x : pre[z] = ks[z]
  OBVIOUS
<1>3. IsWalk(es, pre, x)
  <2>1. pre \in [1..x -> DOMAIN es]
    BY <1>1
  <2>2. \A z \in 1..(x - 1) : z \in 1..(m - 1) /\ z \in 1..x /\ z + 1 \in 1..x
    BY <1>1
  <2> HIDE DEF pre
  <2> QED
    BY <1>1, <1>2, <2>1, <2>2 DEF IsWalk
<1> HIDE DEF pre
<1>4. /\ From(es, pre) = es[pre[1]].u /\ To(es, pre) = es[pre[x]].v
      /\ WeightOf(es, pre) = SumOver(Row(es, pre), 1..x)
      /\ \A z \in 1..x : Row(es, pre)[z] = es[pre[z]].w /\ Row(es, pre)[z] \in Int
  BY <1>1, <1>3, WalkIs DEF At
<1>5. /\ From(es, ks) = es[ks[1]].u /\ At(es, ks, x) = es[ks[x]].v
      /\ \A z \in 1..m : Row(es, ks)[z] = es[ks[z]].w
  <2>1. /\ From(es, ks) = At(es, ks, 0)
        /\ \A z \in 1..m : Row(es, ks)[z] = es[ks[z]].w
    BY WalkIs
  <2>2. At(es, ks, 0) = es[ks[1]].u /\ At(es, ks, x) = es[ks[x]].v
    BY <1>1 DEF At
  <2> QED
    BY <2>1, <2>2
<1>6. SumOver(Row(es, pre), 1..x) = SumOver(Row(es, ks), 1..x)
  <2>1. \A z \in 1..x : Row(es, pre)[z] \in Int /\ Row(es, pre)[z] = Row(es, ks)[z]
    BY <1>1, <1>2, <1>4, <1>5
  <2>2. IsFiniteSet(1..x)
    BY <1>1, FS_Interval
  <2> QED
    BY <2>1, <2>2, SumOverSame
<1>7. 1 \in 1..x /\ x \in 1..x
  BY <1>1
<1> QED
  BY <1>2, <1>3, <1>4, <1>5, <1>6, <1>7 DEF pre

\* A walk is a shorter walk and a side, or a side.
LEMMA WalkLast ==
  ASSUME NEW es, NEW n, IsGraph(es, n), NEW ks, NEW m, IsWalk(es, ks, m)
  PROVE  LET j == ks[m] IN
         /\ j \in DOMAIN es /\ To(es, ks) = es[j].v
         /\ m = 1 => From(es, ks) = es[j].u /\ WeightOf(es, ks) = es[j].w
         /\ m > 1 => \E pre : /\ IsWalk(es, pre, m - 1) /\ From(es, pre) = From(es, ks)
                              /\ To(es, pre) = es[j].u
                              /\ WeightOf(es, ks) = WeightOf(es, pre) + es[j].w
<1> DEFINE j == ks[m]
<1>1. m \in Nat \ {0} /\ m \in 1..m
  BY DEF IsWalk
<1>2. /\ j \in DOMAIN es /\ To(es, ks) = es[j].v /\ From(es, ks) = At(es, ks, 0)
      /\ WeightOf(es, ks) = SumOver(Row(es, ks), 1..m)
      /\ \A x \in 1..m : Row(es, ks)[x] = es[ks[x]].w /\ Row(es, ks)[x] \in Int
      /\ At(es, ks, m - 1) = es[j].u
  BY <1>1, WalkIs
<1>3. SumOver(Row(es, ks), 1..m) = SumOver(Row(es, ks), 1..(m - 1)) + es[j].w
  <2>1. m - 1 \in Nat /\ (m - 1) + 1 = m
    BY <1>1
  <2>2. \A x \in 1..((m - 1) + 1) : Row(es, ks)[x] \in Int
    BY <1>2, <2>1
  <2>3. SumOver(Row(es, ks), 1..((m - 1) + 1))
          = SumOver(Row(es, ks), 1..(m - 1)) + Row(es, ks)[(m - 1) + 1]
    BY <2>1, <2>2, SumOverNext
  <2> QED
    BY <1>1, <1>2, <2>1, <2>3
<1>4. ASSUME m = 1 PROVE From(es, ks) = es[j].u /\ WeightOf(es, ks) = es[j].w
  <2>1. 1..(m - 1) = {}
    BY <1>4
  <2>2. SumOver(Row(es, ks), 1..(m - 1)) = 0
    BY <2>1, SumOverEmpty
  <2>3. es[j].w \in Int
    BY <1>2 DEF IsGraph
  <2> QED
    BY <1>2, <1>3, <1>4, <2>2, <2>3
<1>5. ASSUME m > 1
      PROVE  \E pre : /\ IsWalk(es, pre, m - 1) /\ From(es, pre) = From(es, ks)
                      /\ To(es, pre) = es[j].u
                      /\ WeightOf(es, ks) = WeightOf(es, pre) + es[j].w
  <2>1. m - 1 \in 1..m
    BY <1>1, <1>5
  <2>2. PICK pre : /\ IsWalk(es, pre, m - 1) /\ From(es, pre) = From(es, ks)
                   /\ To(es, pre) = At(es, ks, m - 1)
                   /\ WeightOf(es, pre) = SumOver(Row(es, ks), 1..(m - 1))
    BY <2>1, WalkPrefix
  <2> QED
    BY <1>2, <1>3, <2>2
<1> QED
  BY <1>2, <1>4, <1>5

LEMMA WalkAppend ==
  ASSUME NEW es, NEW n, IsGraph(es, n), NEW ks, NEW m, IsWalk(es, ks, m),
         NEW j \in DOMAIN es, es[j].u = To(es, ks)
  PROVE  \E l : /\ IsWalk(es, l, m + 1) /\ From(es, l) = From(es, ks)
                /\ To(es, l) = es[j].v /\ WeightOf(es, l) = WeightOf(es, ks) + es[j].w
<1> DEFINE l == [x \in 1..(m + 1) |-> IF x <= m THEN ks[x] ELSE j]
<1>1. /\ m \in Nat \ {0} /\ ks \in [1..m -> DOMAIN es]
      /\ \A x \in 1..(m - 1) : es[ks[x]].v = es[ks[x + 1]].u
  BY DEF IsWalk
<1>2. (\A x \in 1..m : l[x] = ks[x]) /\ l[m + 1] = j /\ l \in [1..(m + 1) -> DOMAIN es]
  BY <1>1
<1> HIDE DEF l
<1>3. /\ From(es, ks) = es[ks[1]].u /\ To(es, ks) = es[ks[m]].v
      /\ WeightOf(es, ks) = SumOver(Row(es, ks), 1..m)
      /\ \A x \in 1..m : Row(es, ks)[x] = es[ks[x]].w
  <2>1. /\ From(es, ks) = At(es, ks, 0) /\ To(es, ks) = At(es, ks, m)
        /\ WeightOf(es, ks) = SumOver(Row(es, ks), 1..m)
        /\ \A x \in 1..m : Row(es, ks)[x] = es[ks[x]].w
    BY WalkIs
  <2> QED
    BY <1>1, <2>1 DEF At
<1>4. IsWalk(es, l, m + 1)
  <2> SUFFICES ASSUME NEW x \in 1..m PROVE es[l[x]].v = es[l[x + 1]].u
    BY <1>1, <1>2 DEF IsWalk
  <2>1. CASE x = m
    BY <1>1, <1>2, <1>3, <2>1
  <2>2. CASE x # m
    <3>1. x \in 1..(m - 1) /\ x + 1 \in 1..m
      BY <1>1, <2>2
    <3> QED
      BY <1>1, <1>2, <3>1
  <2> QED
    BY <2>1, <2>2
<1>5. m + 1 > 1 /\ (m + 1) - 1 = m /\ 1 \in 1..m
  BY <1>1
<1>6. /\ From(es, l) = es[l[1]].u /\ To(es, l) = es[l[m + 1]].v
      /\ WeightOf(es, l) = SumOver(Row(es, l), 1..(m + 1))
      /\ \A x \in 1..(m + 1) : Row(es, l)[x] = es[l[x]].w /\ Row(es, l)[x] \in Int
  BY <1>1, <1>4, WalkIs DEF At
<1>7. SumOver(Row(es, l), 1..(m + 1)) = SumOver(Row(es, l), 1..m) + es[j].w
  BY <1>1, <1>2, <1>6, SumOverNext
<1>8. SumOver(Row(es, l), 1..m) = SumOver(Row(es, ks), 1..m)
  <2>1. \A x \in 1..m : Row(es, l)[x] \in Int /\ Row(es, l)[x] = Row(es, ks)[x]
    BY <1>1, <1>2, <1>3, <1>6
  <2>2. IsFiniteSet(1..m)
    BY <1>1, FS_Interval
  <2> QED
    BY <2>1, <2>2, SumOverSame
<1> QED
  BY <1>2, <1>3, <1>4, <1>5, <1>6, <1>7, <1>8

\* A walk that comes to a point twice: without the cycle it goes to the same
\* end, and the weight is the sum of the two.
LEMMA WalkCut ==
  ASSUME NEW es, NEW n, IsGraph(es, n), NEW ks, NEW m, IsWalk(es, ks, m),
         NEW y \in 1..m, NEW x \in 0..(y - 1), At(es, ks, x) = At(es, ks, y)
  PROVE  \E cycle :
           /\ IsWalk(es, cycle, y - x)
           /\ From(es, cycle) = At(es, ks, x) /\ To(es, cycle) = At(es, ks, x)
           /\ x = 0 /\ y = m => WeightOf(es, ks) = WeightOf(es, cycle)
           /\ ~(x = 0 /\ y = m) =>
                 \E rest : /\ IsWalk(es, rest, m - (y - x))
                           /\ From(es, rest) = From(es, ks) /\ To(es, rest) = To(es, ks)
                           /\ WeightOf(es, ks) = WeightOf(es, rest) + WeightOf(es, cycle)
<1> DEFINE c == y - x
           r == m - c
           cycle == [z \in 1..c |-> ks[x + z]]
           rest == [z \in 1..r |-> IF z <= x THEN ks[z] ELSE ks[z + c]]
<1>0. /\ m \in Nat \ {0} /\ ks \in [1..m -> DOMAIN es]
      /\ \A z \in 1..(m - 1) : es[ks[z]].v = es[ks[z + 1]].u
  BY DEF IsWalk
<1>1. /\ m \in Nat \ {0} /\ c \in Nat \ {0} /\ r \in Nat /\ x \in Nat /\ y \in Nat
      /\ x + c = y /\ y <= m /\ c <= m /\ r + c = m /\ x <= r
      /\ (r = 0 => x = 0 /\ y = m) /\ r = m - (y - x)
  BY <1>0
<1>2. \A z \in 1..c : cycle[z] = ks[x + z] /\ x + z \in 1..m
  BY <1>1
<1>3. \A z \in 1..r : rest[z] = (IF z <= x THEN ks[z] ELSE ks[z + c])
                      /\ z \in 1..m /\ z + c \in 1..m
  BY <1>1
<1>4. cycle \in [1..c -> DOMAIN es] /\ rest \in [1..r -> DOMAIN es]
  BY <1>0, <1>2, <1>3
<1>5. /\ From(es, ks) = At(es, ks, 0) /\ To(es, ks) = At(es, ks, m)
      /\ WeightOf(es, ks) = SumOver(Row(es, ks), 1..m)
      /\ \A z \in 1..m : /\ Row(es, ks)[z] = es[ks[z]].w /\ Row(es, ks)[z] \in Int
                         /\ At(es, ks, z - 1) = es[ks[z]].u /\ At(es, ks, z) = es[ks[z]].v
  BY WalkIs
<1> HIDE DEF c, r, cycle, rest
<1>6. IsWalk(es, cycle, c)
  <2> SUFFICES ASSUME NEW z \in 1..(c - 1) PROVE es[cycle[z]].v = es[cycle[z + 1]].u
    BY <1>1, <1>4 DEF IsWalk
  <2>1. z \in 1..c /\ z + 1 \in 1..c /\ x + z \in 1..(m - 1) /\ (x + z) + 1 = x + (z + 1)
    BY <1>1
  <2>2. es[ks[x + z]].v = es[ks[(x + z) + 1]].u
    BY <1>0, <2>1
  <2> QED
    BY <1>2, <2>1, <2>2
<1>7. /\ From(es, cycle) = At(es, ks, x) /\ To(es, cycle) = At(es, ks, x)
      /\ WeightOf(es, cycle) = SumOver(Row(es, cycle), 1..c)
      /\ \A z \in 1..c : Row(es, cycle)[z] = es[cycle[z]].w
  <2>1. /\ From(es, cycle) = At(es, cycle, 0) /\ To(es, cycle) = At(es, cycle, c)
        /\ WeightOf(es, cycle) = SumOver(Row(es, cycle), 1..c)
        /\ \A z \in 1..c : Row(es, cycle)[z] = es[cycle[z]].w
    BY <1>6, WalkIs
  <2>2. At(es, cycle, 0) = es[ks[x + 1]].u /\ At(es, cycle, c) = es[ks[y]].v
    <3>1. 1 \in 1..c /\ c \in 1..c /\ c # 0
      BY <1>1
    <3> QED
      BY <1>1, <1>2, <3>1 DEF At
  <2>3. At(es, ks, x) = es[ks[x + 1]].u /\ At(es, ks, y) = es[ks[y]].v
    <3>1. x + 1 \in 1..m /\ (x + 1) - 1 = x /\ y \in 1..m
      BY <1>1
    <3> QED
      BY <1>5, <3>1
  <2> QED
    BY <2>1, <2>2, <2>3
<1>8. \A z \in 1..c : Row(es, cycle)[z] = Row(es, ks)[x + z]
  BY <1>2, <1>5, <1>7
<1>9. CASE x = 0 /\ y = m
  <2>1. c = m
    BY <1>1, <1>9
  <2>2. \A z \in 1..m : Row(es, cycle)[z] \in Int /\ Row(es, cycle)[z] = Row(es, ks)[z]
    BY <1>5, <1>8, <1>9, <2>1
  <2>3. IsFiniteSet(1..m)
    BY <1>1, FS_Interval
  <2>4. WeightOf(es, ks) = WeightOf(es, cycle)
    BY <1>5, <1>7, <2>1, <2>2, <2>3, SumOverSame
  <2> QED
    BY <1>6, <1>7, <1>9, <2>4 DEF c
<1>10. CASE ~(x = 0 /\ y = m)
  <2>1. r \in Nat \ {0} /\ 1 \in 1..r /\ r \in 1..r
    BY <1>1, <1>10
  <2>2. IsWalk(es, rest, r)
    <3> SUFFICES ASSUME NEW z \in 1..(r - 1) PROVE es[rest[z]].v = es[rest[z + 1]].u
      BY <1>4, <2>1 DEF IsWalk
    <3>1. z \in 1..r /\ z + 1 \in 1..r /\ z \in 1..(m - 1) /\ z + c \in 1..(m - 1)
          /\ (z + c) + 1 = (z + 1) + c
      BY <1>1
    <3>2. es[ks[z]].v = es[ks[z + 1]].u /\ es[ks[z + c]].v = es[ks[(z + c) + 1]].u
      BY <1>0, <3>1
    <3>3. CASE z = x
      <4>1. rest[z] = ks[x] /\ rest[z + 1] = ks[y + 1] /\ y + 1 \in 1..m /\ (y + 1) - 1 = y
        BY <1>1, <1>3, <3>1, <3>3
      <4>2. At(es, ks, x) = es[ks[x]].v
        <5>1. x \in 1..m
          BY <1>1, <3>1, <3>3
        <5> QED
          BY <1>5, <5>1
      <4>3. At(es, ks, y) = es[ks[y + 1]].u
        BY <1>5, <4>1
      <4> QED
        BY <4>1, <4>2, <4>3
    <3>4. CASE z < x
      <4>1. rest[z] = ks[z] /\ rest[z + 1] = ks[z + 1]
        BY <1>1, <1>3, <3>1, <3>4
      <4> QED
        BY <3>2, <4>1
    <3>5. CASE z > x
      <4>1. rest[z] = ks[z + c] /\ rest[z + 1] = ks[(z + c) + 1]
        BY <1>1, <1>3, <3>1, <3>5
      <4> QED
        BY <3>2, <4>1
    <3> QED
      BY <1>1, <3>1, <3>3, <3>4, <3>5
  <2>3. /\ From(es, rest) = es[rest[1]].u /\ To(es, rest) = es[rest[r]].v
        /\ WeightOf(es, rest) = SumOver(Row(es, rest), 1..r)
        /\ \A z \in 1..r : Row(es, rest)[z] = es[rest[z]].w
    <3>1. /\ From(es, rest) = At(es, rest, 0) /\ To(es, rest) = At(es, rest, r)
          /\ WeightOf(es, rest) = SumOver(Row(es, rest), 1..r)
          /\ \A z \in 1..r : Row(es, rest)[z] = es[rest[z]].w
      BY <2>2, WalkIs
    <3> QED
      BY <2>1, <3>1 DEF At
  <2>4. From(es, rest) = From(es, ks)
    <3>1. CASE x = 0
      <4>1. rest[1] = ks[y + 1] /\ y + 1 \in 1..m /\ (y + 1) - 1 = y
        BY <1>1, <1>3, <2>1, <3>1
      <4>2. At(es, ks, y) = es[ks[y + 1]].u
        BY <1>5, <4>1
      <4> QED
        BY <1>5, <2>3, <3>1, <4>1, <4>2
    <3>2. CASE x # 0
      <4>1. rest[1] = ks[1]
        BY <1>1, <1>3, <2>1, <3>2
      <4> QED
        BY <1>5, <2>3, <4>1 DEF At
    <3> QED
      BY <3>1, <3>2
  <2>5. To(es, rest) = To(es, ks)
    <3>1. To(es, ks) = es[ks[m]].v
      BY <1>1, <1>5 DEF At
    <3>2. CASE y = m
      <4>1. rest[r] = ks[x] /\ x \in 1..m
        <5>1. r = x /\ x \in 1..m
          BY <1>1, <1>10, <3>2
        <5> QED
          BY <1>3, <2>1, <5>1
      <4>2. At(es, ks, x) = es[ks[x]].v
        BY <1>5, <4>1
      <4> QED
        BY <1>5, <2>3, <3>2, <4>1, <4>2
    <3>3. CASE y # m
      <4>1. rest[r] = ks[m]
        BY <1>1, <1>3, <2>1, <3>3
      <4> QED
        BY <2>3, <3>1, <4>1
    <3> QED
      BY <3>2, <3>3
  <2>6. WeightOf(es, ks) = WeightOf(es, rest) + WeightOf(es, cycle)
    <3> DEFINE f == Row(es, ks)
               g == Row(es, rest)
               h == Row(es, cycle)
    <3>1. /\ (x + c) + (m - y) = m /\ x + (m - y) = r /\ m - y \in Nat
          /\ x \in Nat /\ c \in Nat
      BY <1>1
    <3>2. \A z \in 1..((x + c) + (m - y)) : f[z] \in Int
      BY <1>5, <3>1
    <3>3. \A z \in 1..(x + (m - y)) : g[z] = IF z <= x THEN f[z] ELSE f[z + c]
      <4> SUFFICES ASSUME NEW z \in 1..r
                   PROVE  g[z] = IF z <= x THEN f[z] ELSE f[z + c]
        BY <3>1
      <4>1. g[z] = es[rest[z]].w
        BY <2>3
      <4>2. f[z] = es[ks[z]].w /\ f[z + c] = es[ks[z + c]].w
        BY <1>3, <1>5
      <4> QED
        BY <1>3, <4>1, <4>2
    <3>4. \A z \in 1..c : h[z] = f[x + z]
      BY <1>8
    <3> DEFINE q == m - y
    <3>6. /\ q \in Nat /\ x \in Nat /\ c \in Nat
          /\ \A z \in 1..((x + c) + q) : f[z] \in Int
          /\ \A z \in 1..(x + q) : g[z] = IF z <= x THEN f[z] ELSE f[z + c]
          /\ \A z \in 1..c : h[z] = f[x + z]
      BY <3>1, <3>2, <3>3, <3>4
    <3> HIDE DEF f, g, h, q
    <3>5. SumOver(f, 1..((x + c) + q)) = SumOver(g, 1..(x + q)) + SumOver(h, 1..c)
      <4>1. IsCut(f, g, h, x, c, q)
        BY <3>6 DEF IsCut
      <4> QED
        BY <4>1, SumOverCut
    <3> QED
      BY <1>5, <1>7, <2>3, <3>1, <3>5 DEF f, g, h, q
  <2>7. IsWalk(es, rest, m - (y - x)) /\ IsWalk(es, cycle, y - x)
    BY <1>1, <1>6, <2>2 DEF c
  <2> QED
    BY <1>7, <1>10, <2>4, <2>5, <2>6, <2>7
<1> QED
  BY <1>9, <1>10

\* A walk along sides that dis meets.
LEMMA AlongWalk ==
  ASSUME NEW es, NEW n, IsGraph(es, n), NEW ks, NEW m, IsWalk(es, ks, m),
         NEW dis \in [PointsOf(n) -> Int], NEW c \in Int, dis[From(es, ks)] <= c,
         \A x \in 1..m :
            dis[es[ks[x]].u] <= c + SumOver(Row(es, ks), 1..(x - 1))
              => ~Loose(dis, es[ks[x]])
  PROVE  dis[To(es, ks)] <= c + WeightOf(es, ks)
<1> DEFINE d == [x \in 0..m |-> dis[At(es, ks, x)]]
           f == Row(es, ks)
<1>1. m \in Nat
  BY DEF IsWalk
<1>2. /\ From(es, ks) = At(es, ks, 0) /\ To(es, ks) = At(es, ks, m)
      /\ WeightOf(es, ks) = SumOver(f, 1..m)
      /\ \A x \in 1..m : f[x] = es[ks[x]].w /\ f[x] \in Int
      /\ \A x \in 0..m : At(es, ks, x) \in PointsOf(n)
      /\ \A x \in 1..m : At(es, ks, x - 1) = es[ks[x]].u /\ At(es, ks, x) = es[ks[x]].v
  BY WalkIs
<1>3. \A x \in 0..m : d[x] = dis[At(es, ks, x)] /\ d[x] \in Int
  BY <1>2
<1> HIDE DEF d
<1>4. ASSUME NEW x \in 0..(m - 1), d[x] <= c + SumOver(f, 1..x) PROVE d[x + 1] <= d[x] + f[x + 1]
  <2>1. x + 1 \in 1..m /\ (x + 1) - 1 = x /\ x \in 0..m /\ x + 1 \in 0..m
    BY <1>1
  <2>2. /\ dis[es[ks[x + 1]].u] = d[x] /\ dis[es[ks[x + 1]].v] = d[x + 1]
        /\ f[x + 1] = es[ks[x + 1]].w /\ f[x + 1] \in Int /\ d[x] \in Int /\ d[x + 1] \in Int
    BY <1>2, <1>3, <2>1
  <2>3. ~Loose(dis, es[ks[x + 1]])
    BY <1>4, <2>1, <2>2
  <2> QED
    BY <2>2, <2>3 DEF Loose
<1>5. d[0] <= c /\ \A x \in 1..m : f[x] \in Int
  BY <1>1, <1>2, <1>3
<1> HIDE DEF f
<1>6. d[m] <= c + SumOver(f, 1..m)
  BY <1>1, <1>3, <1>4, <1>5, Telescope
<1> QED
  BY <1>1, <1>2, <1>3, <1>6

LEMMA TightWalk ==
  ASSUME NEW es, NEW n, IsGraph(es, n), NEW ks, NEW m, IsWalk(es, ks, m),
         NEW dis \in [PointsOf(n) -> Int], \A j \in DOMAIN es : ~Loose(dis, es[j])
  PROVE  dis[To(es, ks)] <= dis[From(es, ks)] + WeightOf(es, ks)
<1>1. From(es, ks) \in PointsOf(n) /\ \A x \in 1..m : ks[x] \in DOMAIN es
  BY WalkIs
<1>2. dis[From(es, ks)] \in Int /\ dis[From(es, ks)] <= dis[From(es, ks)]
  BY <1>1
<1> DEFINE c == dis[From(es, ks)]
<1>3. /\ c \in Int /\ dis[From(es, ks)] <= c
      /\ \A x \in 1..m : dis[es[ks[x]].u] <= c + SumOver(Row(es, ks), 1..(x - 1))
                           => ~Loose(dis, es[ks[x]])
  BY <1>1, <1>2
<1>4. dis[To(es, ks)] <= c + WeightOf(es, ks)
  <2> HIDE DEF c
  <2> QED
    BY <1>3, AlongWalk
<1> QED
  BY <1>4

\* No walk from a leads to a cycle of negative weight.
NoFall(es, n, a) ==
  \A c \in NegativeCycles(es, n) :
     /\ From(es, c) # a
     /\ \A l \in WalksOf(es, n - 1) : From(es, l) = a => To(es, l) # From(es, c)

\* Where they do not, n - 1 sides are enough.
Shortened(es, n, ks) ==
  \/ \E l \in WalksOf(es, n - 1) :
        /\ From(es, l) = From(es, ks) /\ To(es, l) = To(es, ks)
        /\ WeightOf(es, l) <= WeightOf(es, ks)
  \/ To(es, ks) = From(es, ks) /\ WeightOf(es, ks) >= 0

LEMMA WalkShortens ==
  ASSUME NEW es, NEW n, IsGraph(es, n), NEW a, NoFall(es, n, a)
  PROVE  \A m : \A ks : IsWalk(es, ks, m) /\ From(es, ks) = a => Shortened(es, n, ks)
<1> DEFINE Long(m, ks) == IsWalk(es, ks, m) /\ From(es, ks) = a /\ ~Shortened(es, n, ks)
           M == {m \in Nat : \E ks : Long(m, ks)}
<1> SUFFICES ASSUME M # {} PROVE FALSE
  BY DEF IsWalk
<1>1. PICK m \in M : \A l \in M : m <= l
  <2> HIDE DEF M
  <2>1. M \in SUBSET Nat
    BY DEF M
  <2> QED
    BY <2>1, LeastNatural
<1>2. PICK ks : Long(m, ks)
  BY <1>1
<1> HIDE DEF M
<1>3. m \in Nat \ {0} /\ n \in Nat \ {0} /\ n - 1 \in Nat
  BY <1>2 DEF IsWalk, IsGraph
<1>4. /\ From(es, ks) = At(es, ks, 0) /\ To(es, ks) = At(es, ks, m)
      /\ WeightOf(es, ks) \in Int
      /\ \A x \in 0..m : At(es, ks, x) \in PointsOf(n)
  BY <1>2, WalkIs
<1>5. m > n - 1
  <2> SUFFICES ASSUME m <= n - 1 PROVE FALSE
    BY <1>3
  <2>1. m \in 1..(n - 1)
    BY <1>3
  <2>2. ks \in WalksOf(es, n - 1)
    BY <1>2, <1>3, <2>1, WalksOfIs
  <2> QED
    BY <1>2, <1>4, <2>2 DEF Shortened
<1>6. PICK x \in 0..n, y \in 0..n : x < y /\ At(es, ks, x) = At(es, ks, y)
  <2> DEFINE f == [z \in 0..n |-> At(es, ks, z)]
             T == PointsOf(n)
  <2>1. f \in [0..n -> T]
    BY <1>3, <1>4, <1>5
  <2>2. IsFiniteSet(0..n) /\ Cardinality(0..n) = n + 1 /\ IsFiniteSet(T) /\ Cardinality(T) = n
    BY <1>3, FS_Interval DEF PointsOf
  <2>3. Cardinality(T) < Cardinality(0..n)
    BY <1>3, <2>2
  <2> HIDE DEF f, T
  <2>4. PICK x \in 0..n, y \in 0..n : x # y /\ f[x] = f[y]
    <3> DEFINE D == 0..n
    <3>1. IsFiniteSet(D) /\ IsFiniteSet(T) /\ Cardinality(T) < Cardinality(D) /\ f \in [D -> T]
      BY <2>1, <2>2, <2>3
    <3> HIDE DEF D
    <3>2. \E x, y \in D : x # y /\ f[x] = f[y]
      BY <3>1, FS_PigeonHole
    <3> QED
      BY <3>2 DEF D
  <2>5. At(es, ks, x) = At(es, ks, y)
    BY <2>4 DEF f
  <2> QED
    BY <1>3, <2>4, <2>5
<1>7. y \in 1..m /\ x \in 0..(y - 1) /\ y - x \in 1..n /\ y - x \in Nat \ {0}
  BY <1>3, <1>5, <1>6
<1>8. PICK cycle :
        /\ IsWalk(es, cycle, y - x)
        /\ From(es, cycle) = At(es, ks, x) /\ To(es, cycle) = At(es, ks, x)
        /\ x = 0 /\ y = m => WeightOf(es, ks) = WeightOf(es, cycle)
        /\ ~(x = 0 /\ y = m) =>
              \E rest : /\ IsWalk(es, rest, m - (y - x))
                        /\ From(es, rest) = From(es, ks) /\ To(es, rest) = To(es, ks)
                        /\ WeightOf(es, ks) = WeightOf(es, rest) + WeightOf(es, cycle)
  BY <1>2, <1>6, <1>7, WalkCut
<1>9. WeightOf(es, cycle) \in Int /\ WeightOf(es, cycle) >= 0
  <2>1. WeightOf(es, cycle) \in Int
    BY <1>8, WalkIs
  <2> SUFFICES ASSUME WeightOf(es, cycle) < 0 PROVE FALSE
    BY <2>1
  <2>2. cycle \in WalksOf(es, n)
    BY <1>3, <1>7, <1>8, WalksOfIs
  <2>3. cycle \in NegativeCycles(es, n)
    BY <1>8, <2>2 DEF NegativeCycles
  <2>4. CASE x = 0
    BY <1>2, <1>4, <1>8, <2>3, <2>4 DEF NoFall
  <2>5. CASE x # 0
    <3>1. x \in 1..m /\ x \in 1..(n - 1)
      BY <1>3, <1>6, <1>7, <2>5
    <3>2. PICK pre : IsWalk(es, pre, x) /\ From(es, pre) = From(es, ks)
                     /\ To(es, pre) = At(es, ks, x)
      BY <1>2, <3>1, WalkPrefix
    <3>3. pre \in WalksOf(es, n - 1)
      BY <1>3, <3>1, <3>2, WalksOfIs
    <3> QED
      BY <1>2, <1>8, <2>3, <3>2, <3>3 DEF NoFall
  <2> QED
    BY <2>4, <2>5
<1>10. CASE x = 0 /\ y = m
  <2>1. To(es, ks) = From(es, ks) /\ WeightOf(es, ks) >= 0
    BY <1>4, <1>6, <1>8, <1>9, <1>10
  <2> QED
    BY <1>2, <2>1 DEF Shortened
<1>11. CASE ~(x = 0 /\ y = m)
  <2>1. PICK rest : /\ IsWalk(es, rest, m - (y - x))
                    /\ From(es, rest) = From(es, ks) /\ To(es, rest) = To(es, ks)
                    /\ WeightOf(es, ks) = WeightOf(es, rest) + WeightOf(es, cycle)
    BY <1>8, <1>11
  <2>2. m - (y - x) \in Nat /\ m - (y - x) < m
    <3>1. m - (y - x) \in Nat
      BY <2>1 DEF IsWalk
    <3> QED
      BY <1>3, <1>7, <3>1
  <2>3. Shortened(es, n, rest)
    <3> SUFFICES ASSUME ~Shortened(es, n, rest) PROVE FALSE
      OBVIOUS
    <3>1. m - (y - x) \in M
      BY <1>2, <2>1, <2>2 DEF M
    <3>2. m <= m - (y - x)
      BY <1>1, <3>1
    <3> QED
      BY <1>3, <2>2, <3>2
  <2>4. WeightOf(es, rest) \in Int
    BY <2>1, WalkIs
  <2>5. WeightOf(es, rest) <= WeightOf(es, ks)
    BY <1>9, <2>1, <2>4
  <2>6. \A l \in WalksOf(es, n - 1) : WeightOf(es, l) \in Int
    <3> SUFFICES ASSUME NEW l \in WalksOf(es, n - 1) PROVE WeightOf(es, l) \in Int
      OBVIOUS
    <3>1. PICK q \in 1..(n - 1) : IsWalk(es, l, q)
      BY <1>3, WalksOfIs
    <3> QED
      BY <3>1, WalkIs
  <2>7. Shortened(es, n, ks)
    <3>1. CASE To(es, rest) = From(es, rest) /\ WeightOf(es, rest) >= 0
      BY <1>4, <2>1, <2>4, <2>5, <3>1 DEF Shortened
    <3>2. ASSUME NEW l \in WalksOf(es, n - 1), From(es, l) = From(es, rest),
                 To(es, l) = To(es, rest), WeightOf(es, l) <= WeightOf(es, rest)
          PROVE  Shortened(es, n, ks)
      <4>1. WeightOf(es, l) <= WeightOf(es, ks)
        BY <1>4, <2>4, <2>5, <2>6, <3>2
      <4> QED
        BY <2>1, <3>2, <4>1 DEF Shortened
    <3> QED
      BY <2>3, <3>1, <3>2 DEF Shortened
  <2> QED
    BY <1>2, <2>7
<1> QED
  BY <1>10, <1>11

-----------------------------------------------------------------------------
(* The rounds and the walks.                                                *)

Cost(es, n, ks) == FirstDis(n)[From(es, ks)] + WeightOf(es, ks)

\* A distance is a first distance or what a walk costs, of whatever length.
Attained(es, n, dis) ==
  \A p \in PointsOf(n) :
     \/ dis[p] = FirstDis(n)[p]
     \/ \E m : \E ks : IsWalk(es, ks, m) /\ To(es, ks) = p /\ dis[p] = Cost(es, n, ks)

\* No walk over at most m sides, the last of them before the side j, costs less.
WithinBefore(es, n, dis, m, j) ==
  \A q \in 1..m : \A ks :
     IsWalk(es, ks, q) /\ ks[q] < j => dis[To(es, ks)] <= Cost(es, n, ks)
Within(es, n, dis, m) ==
  \A q \in 1..m : \A ks : IsWalk(es, ks, q) => dis[To(es, ks)] <= Cost(es, n, ks)

Tight(es, dis) == \A j \in DOMAIN es : ~Loose(dis, es[j])

LEMMA CostType ==
  ASSUME NEW es, NEW n, IsGraph(es, n), NEW ks, NEW m, IsWalk(es, ks, m)
  PROVE  /\ Cost(es, n, ks) \in Int /\ FirstDis(n)[From(es, ks)] \in Int
         /\ WeightOf(es, ks) \in Int
         /\ To(es, ks) \in PointsOf(n) /\ From(es, ks) \in PointsOf(n)
<1>1. WeightOf(es, ks) \in Int /\ From(es, ks) \in PointsOf(n) /\ To(es, ks) \in PointsOf(n)
  BY WalkIs
<1>2. n \in Nat
  BY DEF IsGraph
<1>3. FirstDis(n)[From(es, ks)] \in Int
  BY <1>1, <1>2, FirstDisType
<1> QED
  BY <1>1, <1>3 DEF Cost

\* A walk of one side more.
LEMMA AttainedBySide ==
  ASSUME NEW es, NEW n, IsGraph(es, n), NEW dis \in [PointsOf(n) -> Int],
         Attained(es, n, dis), NEW j \in DOMAIN es
  PROVE  \E m : \E ks : /\ IsWalk(es, ks, m) /\ To(es, ks) = es[j].v
                        /\ dis[es[j].u] + es[j].w = Cost(es, n, ks)
<1>1. es[j].u \in PointsOf(n) /\ es[j].v \in PointsOf(n) /\ es[j].w \in Int
  BY DEF IsGraph
<1>2. CASE dis[es[j].u] = FirstDis(n)[es[j].u]
  <2> DEFINE l == [x \in 1..1 |-> j]
  <2>1. /\ IsWalk(es, l, 1) /\ From(es, l) = es[j].u /\ To(es, l) = es[j].v
        /\ WeightOf(es, l) = es[j].w
    BY OneSide
  <2> HIDE DEF l
  <2> QED
    BY <1>2, <2>1 DEF Cost
<1>3. ASSUME NEW m, NEW ks, IsWalk(es, ks, m), To(es, ks) = es[j].u,
             dis[es[j].u] = Cost(es, n, ks)
      PROVE  \E q : \E l : /\ IsWalk(es, l, q) /\ To(es, l) = es[j].v
                           /\ dis[es[j].u] + es[j].w = Cost(es, n, l)
  <2>1. PICK l : /\ IsWalk(es, l, m + 1) /\ From(es, l) = From(es, ks)
                 /\ To(es, l) = es[j].v /\ WeightOf(es, l) = WeightOf(es, ks) + es[j].w
    BY <1>3, WalkAppend
  <2>2. FirstDis(n)[From(es, ks)] \in Int /\ WeightOf(es, ks) \in Int
    BY <1>3, CostType
  <2>3. Cost(es, n, l) = Cost(es, n, ks) + es[j].w
    BY <1>1, <2>1, <2>2 DEF Cost
  <2> QED
    BY <1>3, <2>1, <2>3
<1> QED
  BY <1>1, <1>2, <1>3 DEF Attained

LEMMA RelaxedAttained ==
  ASSUME NEW es, NEW n, IsGraph(es, n), NEW dis \in [PointsOf(n) -> Int],
         Attained(es, n, dis), NEW j \in DOMAIN es
  PROVE  Attained(es, n, Relaxed(dis, es[j]))
<1>1. es[j].u \in PointsOf(n) /\ es[j].v \in PointsOf(n) /\ es[j].w \in Int
  BY DEF IsGraph
<1> SUFFICES ASSUME Loose(dis, es[j]) PROVE Attained(es, n, Relaxed(dis, es[j]))
  BY DEF Relaxed
<1>2. PICK m, ks : /\ IsWalk(es, ks, m) /\ To(es, ks) = es[j].v
                   /\ dis[es[j].u] + es[j].w = Cost(es, n, ks)
  BY AttainedBySide
<1>3. \A p \in PointsOf(n) :
        Relaxed(dis, es[j])[p] = IF p = es[j].v THEN dis[es[j].u] + es[j].w ELSE dis[p]
  BY <1>1 DEF Relaxed
<1> QED
  BY <1>2, <1>3 DEF Attained

LEMMA RelaxedWithin ==
  ASSUME NEW es, NEW n, IsGraph(es, n), NEW dis \in [PointsOf(n) -> Int],
         NEW m \in Nat, Within(es, n, dis, m), DOMAIN es \subseteq Nat,
         \A p \in PointsOf(n) : dis[p] <= FirstDis(n)[p],
         NEW j \in DOMAIN es, WithinBefore(es, n, dis, m + 1, j)
  PROVE  /\ Within(es, n, Relaxed(dis, es[j]), m)
         /\ WithinBefore(es, n, Relaxed(dis, es[j]), m + 1, j + 1)
<1> DEFINE new == Relaxed(dis, es[j])
<1>1. es[j].u \in PointsOf(n) /\ es[j].v \in PointsOf(n) /\ es[j].w \in Int
  BY DEF IsGraph
<1>2. /\ new \in [PointsOf(n) -> Int] /\ \A p \in PointsOf(n) : new[p] <= dis[p]
      /\ new[es[j].v] <= dis[es[j].u] + es[j].w
  BY <1>1 DEF Relaxed, Loose
<1> HIDE DEF new
<1>3. ASSUME NEW q \in 1..m, NEW ks, IsWalk(es, ks, q)
      PROVE  new[To(es, ks)] <= Cost(es, n, ks)
  <2>1. To(es, ks) \in PointsOf(n) /\ Cost(es, n, ks) \in Int
    BY <1>3, CostType
  <2>2. dis[To(es, ks)] <= Cost(es, n, ks)
    BY <1>3 DEF Within
  <2>3. new[To(es, ks)] \in Int /\ dis[To(es, ks)] \in Int /\ new[To(es, ks)] <= dis[To(es, ks)]
    BY <1>2, <2>1
  <2> QED
    BY <2>1, <2>2, <2>3
<1>4. ASSUME NEW q \in 1..(m + 1), NEW ks, IsWalk(es, ks, q), ks[q] < j + 1
      PROVE  new[To(es, ks)] <= Cost(es, n, ks)
  <2>1. /\ To(es, ks) \in PointsOf(n) /\ Cost(es, n, ks) \in Int /\ From(es, ks) \in PointsOf(n)
        /\ FirstDis(n)[From(es, ks)] \in Int /\ WeightOf(es, ks) \in Int
    BY <1>4, CostType
  <2>2. new[To(es, ks)] \in Int /\ dis[To(es, ks)] \in Int /\ new[To(es, ks)] <= dis[To(es, ks)]
    BY <1>2, <2>1
  <2>3. /\ ks[q] \in DOMAIN es /\ To(es, ks) = es[ks[q]].v
        /\ q = 1 => From(es, ks) = es[ks[q]].u /\ WeightOf(es, ks) = es[ks[q]].w
        /\ q > 1 => \E pre : /\ IsWalk(es, pre, q - 1) /\ From(es, pre) = From(es, ks)
                             /\ To(es, pre) = es[ks[q]].u
                             /\ WeightOf(es, ks) = WeightOf(es, pre) + es[ks[q]].w
    BY <1>4, WalkLast
  <2>4. CASE ks[q] < j
    <3>1. dis[To(es, ks)] <= Cost(es, n, ks)
      BY <1>4, <2>4 DEF WithinBefore
    <3> QED
      BY <2>1, <2>2, <3>1
  <2>5. CASE ~(ks[q] < j)
    <3>1. ks[q] = j
      BY <1>4, <2>3, <2>5
    <3>2. new[To(es, ks)] <= dis[es[j].u] + es[j].w /\ dis[es[j].u] \in Int
      BY <1>1, <1>2, <2>3, <3>1
    <3>3. dis[es[j].u] + es[j].w <= Cost(es, n, ks)
      <4>1. CASE q = 1
        <5>1. dis[es[j].u] <= FirstDis(n)[es[j].u]
          BY <1>1
        <5> QED
          BY <1>1, <2>1, <2>3, <3>1, <3>2, <4>1, <5>1 DEF Cost
      <4>2. CASE q # 1
        <5>1. q > 1 /\ q - 1 \in 1..m
          BY <4>2
        <5>2. PICK pre : /\ IsWalk(es, pre, q - 1) /\ From(es, pre) = From(es, ks)
                         /\ To(es, pre) = es[j].u
                         /\ WeightOf(es, ks) = WeightOf(es, pre) + es[j].w
          BY <2>3, <3>1, <5>1
        <5>3. dis[es[j].u] <= Cost(es, n, pre) /\ WeightOf(es, pre) \in Int
          BY <5>1, <5>2, CostType DEF Within
        <5>4. Cost(es, n, ks) = Cost(es, n, pre) + es[j].w /\ Cost(es, n, pre) \in Int
          BY <1>1, <2>1, <5>2, <5>3 DEF Cost
        <5> QED
          BY <1>1, <3>2, <5>3, <5>4
      <4> QED
        BY <4>1, <4>2
    <3> QED
      BY <1>1, <2>1, <2>2, <3>2, <3>3
  <2> QED
    BY <2>4, <2>5
<1> QED
  BY <1>3, <1>4 DEF Within, WithinBefore, new

WalkInv ==
  /\ Attained(sides, uiPointCount, aiDis)
  /\ phase \in {"round", "relax"} => Within(sides, uiPointCount, aiDis, k)
  /\ phase = "relax" =>
        /\ WithinBefore(sides, uiPointCount, aiDis, k + 1, i)
        /\ \A p \in Points : aiDis[p] <= aiBakDis[p]
        /\ aiDis = aiBakDis => \A j \in 0..(i - 1) : ~Loose(aiDis, sides[j])
  /\ phase \in {"check", "done"} =>
        Tight(sides, aiDis) \/ Within(sides, uiPointCount, aiDis, uiPointCount - 1)
  /\ uiFlag = 1 => phase \in {"check", "done"} /\ ~Tight(sides, aiDis)

LEMMA SidesAreGraph ==
  ASSUME TypeOK
  PROVE  /\ IsGraph(sides, uiPointCount) /\ DOMAIN sides = 0..(uiSideCount - 1)
         /\ uiSideCount \in Nat /\ uiPointCount \in Nat \ {0}
         /\ aiDis \in [PointsOf(uiPointCount) -> Int] /\ Points = PointsOf(uiPointCount)
         /\ aiBakDis \in [PointsOf(uiPointCount) -> Int]
         /\ k \in 0..(uiPointCount - 1) /\ i \in 0..uiSideCount
<1>1. /\ uiPointCount \in Nat \ {0} /\ uiSideCount \in Nat
      /\ sides \in [0..(uiSideCount - 1) -> Side(uiPointCount)]
  BY SideParameters DEF TypeOK
<1>2. IsGraph(sides, uiPointCount)
  BY <1>1, SideParameters DEF IsGraph, Side
<1> QED
  BY <1>1, <1>2 DEF TypeOK, Points

LEMMA WalkInvInit == Init => WalkInv
<1> SUFFICES ASSUME Init PROVE WalkInv
  OBVIOUS
<1>1. TypeOK
  BY DisInvInit DEF DisInv
<1>2. aiDis = FirstDis(uiPointCount) /\ k = 0 /\ uiFlag = 0 /\ phase = "round"
  BY DEF Init
<1>3. Attained(sides, uiPointCount, aiDis)
  BY <1>2 DEF Attained
<1>4. Within(sides, uiPointCount, aiDis, 0)
  BY DEF Within
<1> QED
  BY <1>2, <1>3, <1>4 DEF WalkInv

LEMMA WalkRelax ==
  ASSUME DisInv, WalkInv, Relax
  PROVE  WalkInv'
<1>1. /\ UNCHANGED <<uiPointCount, uiSideCount, sides, aiBakDis, k, uiFlag, phase>>
      /\ phase = "relax" /\ i < uiSideCount /\ i' = i + 1
      /\ aiDis' = Relaxed(aiDis, sides[i]) /\ uiFlag # 1
  BY DEF Relax, graph, WalkInv
<1>2. /\ IsGraph(sides, uiPointCount) /\ DOMAIN sides = 0..(uiSideCount - 1)
      /\ uiSideCount \in Nat /\ aiDis \in [PointsOf(uiPointCount) -> Int]
      /\ Points = PointsOf(uiPointCount) /\ k \in Nat /\ i \in DOMAIN sides /\ i \in Nat
      /\ aiBakDis \in [PointsOf(uiPointCount) -> Int] /\ uiPointCount \in Nat
  BY <1>1, SidesAreGraph DEF DisInv
<1>3. Attained(sides, uiPointCount, aiDis')
  BY <1>1, <1>2, RelaxedAttained DEF WalkInv
<1>4. /\ Within(sides, uiPointCount, aiDis', k)
      /\ WithinBefore(sides, uiPointCount, aiDis', k + 1, i + 1)
  <2>1. DOMAIN sides \subseteq Nat
    BY <1>2
  <2>2. \A p \in PointsOf(uiPointCount) : aiDis[p] <= FirstDis(uiPointCount)[p]
    BY <1>2 DEF DisInv, OnlyFallen
  <2>3. /\ Within(sides, uiPointCount, aiDis, k)
        /\ WithinBefore(sides, uiPointCount, aiDis, k + 1, i)
    BY <1>1 DEF WalkInv
  <2> QED
    BY <1>1, <1>2, <2>1, <2>2, <2>3, RelaxedWithin
<1>5. sides[i].u \in Points /\ sides[i].v \in Points /\ sides[i].w \in Int
  BY <1>2 DEF IsGraph
<1>6. /\ \A p \in Points : aiDis'[p] <= aiDis[p] /\ aiDis'[p] \in Int
      /\ Loose(aiDis, sides[i]) => aiDis'[sides[i].v] < aiDis[sides[i].v]
      /\ ~Loose(aiDis, sides[i]) => aiDis' = aiDis
  BY <1>1, <1>2, <1>5 DEF Relaxed, Loose
<1>7. \A p \in Points : aiDis[p] <= aiBakDis[p] /\ aiDis[p] \in Int /\ aiBakDis[p] \in Int
  BY <1>1, <1>2 DEF WalkInv
<1>8. \A p \in Points : aiDis'[p] <= aiBakDis[p]
  BY <1>6, <1>7
<1>9. ASSUME aiDis' = aiBakDis PROVE \A j \in 0..((i + 1) - 1) : ~Loose(aiDis', sides[j])
  <2>1. ~Loose(aiDis, sides[i])
    BY <1>5, <1>6, <1>7, <1>9
  <2>2. aiDis' = aiDis /\ \A j \in 0..(i - 1) : ~Loose(aiDis, sides[j])
    BY <1>1, <1>6, <1>9, <2>1 DEF WalkInv
  <2> QED
    BY <1>2, <2>1, <2>2
<1> QED
  BY <1>1, <1>2, <1>3, <1>4, <1>8, <1>9 DEF WalkInv, Points

LEMMA WalkRounds ==
  ASSUME DisInv, WalkInv, Backup \/ EndRound \/ EndRounds
  PROVE  WalkInv'
<1>1. /\ UNCHANGED <<uiPointCount, uiSideCount, sides, aiDis, uiFlag>> /\ uiFlag # 1
      /\ Points' = Points
  BY DEF Backup, EndRound, EndRounds, graph, WalkInv, Points
<1>2. /\ IsGraph(sides, uiPointCount) /\ DOMAIN sides = 0..(uiSideCount - 1)
      /\ uiSideCount \in Nat /\ aiDis \in [PointsOf(uiPointCount) -> Int]
      /\ Points = PointsOf(uiPointCount) /\ k \in 0..(uiPointCount - 1)
      /\ uiPointCount \in Nat \ {0}
  BY SidesAreGraph DEF DisInv
<1>3. \A q, ks : IsWalk(sides, ks, q) => ks[q] \in DOMAIN sides
  BY <1>2, WalkLast
<1>4. CASE Backup
  <2>1. phase = "round" /\ aiBakDis' = aiDis /\ i' = 0 /\ phase' = "relax" /\ k' = k
    BY <1>4 DEF Backup
  <2>2. WithinBefore(sides, uiPointCount, aiDis, k + 1, 0)
    <3>1. \A q, ks : IsWalk(sides, ks, q) => ~(ks[q] < 0)
      BY <1>2, <1>3
    <3> QED
      BY <3>1 DEF WithinBefore
  <2>3. \A p \in Points : aiDis[p] <= aiDis[p]
    BY <1>2
  <2> QED
    BY <1>1, <2>1, <2>2, <2>3 DEF WalkInv
<1>5. CASE EndRound
  <2>1. phase = "relax" /\ i = uiSideCount
    BY <1>5 DEF EndRound
  <2>2. CASE aiBakDis = aiDis
    <3>1. phase' = "check"
      BY <1>5, <2>2 DEF EndRound
    <3>2. Tight(sides, aiDis)
      BY <1>2, <2>1, <2>2 DEF WalkInv, Tight
    <3> QED
      BY <1>1, <3>1, <3>2 DEF WalkInv
  <2>3. CASE aiBakDis # aiDis
    <3>1. phase' = "round" /\ k' = k + 1
      BY <1>5, <2>3 DEF EndRound
    <3>2. \A q, ks : IsWalk(sides, ks, q) => ks[q] < uiSideCount
      BY <1>2, <1>3
    <3>3. Within(sides, uiPointCount, aiDis, k + 1)
      BY <2>1, <3>2 DEF WalkInv, Within, WithinBefore
    <3> QED
      BY <1>1, <3>1, <3>3 DEF WalkInv
  <2> QED
    BY <2>2, <2>3
<1>6. CASE EndRounds
  <2>1. phase = "round" /\ k = uiPointCount - 1 /\ phase' = "check"
    BY <1>2, <1>6 DEF EndRounds
  <2>2. Within(sides, uiPointCount, aiDis, uiPointCount - 1)
    BY <2>1 DEF WalkInv
  <2> QED
    BY <1>1, <2>1, <2>2 DEF WalkInv
<1> QED
  BY <1>4, <1>5, <1>6

LEMMA WalkCheck ==
  ASSUME DisInv, WalkInv, Check \/ Return
  PROVE  WalkInv'
<1>1. /\ UNCHANGED <<uiPointCount, uiSideCount, sides, aiDis>>
      /\ phase = "check" /\ phase' \in {"check", "done"}
      /\ uiFlag' = 1 => uiFlag = 1 \/ (Loose(aiDis, sides[i]) /\ i < uiSideCount)
  BY DEF Check, Return, graph
<1>2. DOMAIN sides = 0..(uiSideCount - 1) /\ uiSideCount \in Nat /\ i \in 0..uiSideCount
  BY SidesAreGraph DEF DisInv
<1>3. uiFlag' = 1 => ~Tight(sides, aiDis)
  <2>1. i < uiSideCount => i \in DOMAIN sides
    BY <1>2
  <2> QED
    BY <1>1, <2>1 DEF WalkInv, Tight
<1> QED
  BY <1>1, <1>3 DEF WalkInv

LEMMA WalkInvNext == DisInv /\ WalkInv /\ [Next]_vars => WalkInv'
<1> SUFFICES ASSUME DisInv, WalkInv, [Next]_vars PROVE WalkInv'
  OBVIOUS
<1>1. CASE UNCHANGED vars
  BY <1>1 DEF vars, WalkInv, Points
<1> QED
  BY <1>1, WalkRelax, WalkRounds, WalkCheck DEF Next, Done

\* Where no cycle has a negative weight the rounds leave no side loose.
LEMMA RoundsTighten ==
  ASSUME DisInv, WalkInv, phase \in {"check", "done"},
         NegativeCycles(sides, uiPointCount) = {}
  PROVE  Tight(sides, aiDis)
<1> SUFFICES ASSUME Within(sides, uiPointCount, aiDis, uiPointCount - 1),
                    NEW j \in DOMAIN sides, Loose(aiDis, sides[j])
             PROVE  FALSE
  BY DEF WalkInv, Tight
<1>1. /\ IsGraph(sides, uiPointCount) /\ uiPointCount \in Nat \ {0}
      /\ aiDis \in [PointsOf(uiPointCount) -> Int] /\ Points = PointsOf(uiPointCount)
  BY SidesAreGraph DEF DisInv
<1>2. PICK m, ks : /\ IsWalk(sides, ks, m) /\ To(sides, ks) = sides[j].v
                   /\ aiDis[sides[j].u] + sides[j].w = Cost(sides, uiPointCount, ks)
  BY <1>1, AttainedBySide DEF WalkInv
<1>3. aiDis[To(sides, ks)] > Cost(sides, uiPointCount, ks)
  BY <1>2 DEF Loose
<1>4. /\ Cost(sides, uiPointCount, ks) \in Int /\ WeightOf(sides, ks) \in Int
      /\ FirstDis(uiPointCount)[From(sides, ks)] \in Int
      /\ To(sides, ks) \in PointsOf(uiPointCount)
  BY <1>1, <1>2, CostType
<1>5. aiDis[To(sides, ks)] \in Int
  BY <1>1, <1>4
<1>6. Shortened(sides, uiPointCount, ks)
  <2>1. NoFall(sides, uiPointCount, From(sides, ks))
    BY DEF NoFall
  <2> QED
    BY <1>1, <1>2, <2>1, WalkShortens
<1>7. CASE To(sides, ks) = From(sides, ks) /\ WeightOf(sides, ks) >= 0
  <2>1. aiDis[To(sides, ks)] <= FirstDis(uiPointCount)[From(sides, ks)]
    BY <1>1, <1>4, <1>7 DEF DisInv, OnlyFallen
  <2> QED
    BY <1>3, <1>4, <1>5, <1>7, <2>1 DEF Cost
<1>8. ASSUME NEW l \in WalksOf(sides, uiPointCount - 1), From(sides, l) = From(sides, ks),
             To(sides, l) = To(sides, ks), WeightOf(sides, l) <= WeightOf(sides, ks)
      PROVE  FALSE
  <2>1. PICK q \in 1..(uiPointCount - 1) : IsWalk(sides, l, q)
    <3>1. uiPointCount - 1 \in Nat
      BY <1>1
    <3> QED
      BY <1>8, <3>1, WalksOfIs
  <2>2. aiDis[To(sides, l)] <= Cost(sides, uiPointCount, l)
    BY <2>1 DEF Within
  <2>3. WeightOf(sides, l) \in Int
    BY <1>1, <2>1, CostType
  <2>4. Cost(sides, uiPointCount, l) <= Cost(sides, uiPointCount, ks)
    BY <1>4, <1>8, <2>3 DEF Cost
  <2> QED
    BY <1>1, <1>3, <1>4, <1>5, <1>8, <2>1, <2>2, <2>4, CostType
<1> QED
  BY <1>6, <1>7, <1>8 DEF Shortened

LEMMA CycleReportedHolds == DisInv /\ WalkInv => CycleReported
<1> SUFFICES ASSUME DisInv, WalkInv, phase = "done"
             PROVE  uiFlag = 1 <=> NegativeCycles(sides, uiPointCount) # {}
  BY DEF CycleReported
<1>1. /\ IsGraph(sides, uiPointCount) /\ uiPointCount \in Nat
      /\ aiDis \in [PointsOf(uiPointCount) -> Int]
      /\ DOMAIN sides = 0..(uiSideCount - 1) /\ i = uiSideCount
  BY SidesAreGraph DEF DisInv, PassedTight
<1>2. ASSUME uiFlag = 1 PROVE NegativeCycles(sides, uiPointCount) # {}
  BY <1>2, RoundsTighten DEF WalkInv
<1>3. ASSUME uiFlag # 1, NEW c \in NegativeCycles(sides, uiPointCount) PROVE FALSE
  <2>1. uiFlag = 0
    BY <1>3 DEF DisInv, TypeOK
  <2>2. Tight(sides, aiDis)
    BY <1>1, <2>1 DEF DisInv, PassedTight, Tight
  <2>3. PICK m \in 1..uiPointCount : IsWalk(sides, c, m)
    BY <1>1, <1>3, WalksOfIs DEF NegativeCycles
  <2>4. From(sides, c) = To(sides, c) /\ WeightOf(sides, c) < 0
    BY <1>3 DEF NegativeCycles
  <2>5. aiDis[To(sides, c)] <= aiDis[From(sides, c)] + WeightOf(sides, c)
    BY <1>1, <2>2, <2>3, TightWalk DEF Tight
  <2>6. aiDis[To(sides, c)] \in Int /\ WeightOf(sides, c) \in Int
    BY <1>1, <2>3, CostType
  <2> QED
    BY <2>4, <2>5, <2>6
<1> QED
  BY <1>2, <1>3

LEMMA DistancesHold == DisInv /\ WalkInv => Distances
<1> SUFFICES ASSUME DisInv, WalkInv, phase = "done",
                    NegativeCycles(sides, uiPointCount) = {}, NEW p \in Points
             PROVE  aiDis[p] = LeastWithin(sides, uiPointCount, uiPointCount - 1, p)
  BY DEF Distances
<1> DEFINE n == uiPointCount
           L == {l \in WalksOf(sides, n - 1) : To(sides, l) = p}
           S == {FirstDis(n)[p]} \cup
                {FirstDis(n)[From(sides, ks)] + WeightOf(sides, ks) : ks \in L}
<1>1. /\ IsGraph(sides, n) /\ n \in Nat \ {0} /\ n - 1 \in Nat
      /\ aiDis \in [PointsOf(n) -> Int] /\ Points = PointsOf(n)
  BY SidesAreGraph DEF DisInv
<1>2. Tight(sides, aiDis)
  BY RoundsTighten
<1>3. \A q \in Points : aiDis[q] <= FirstDis(n)[q] /\ aiDis[q] \in Int /\ FirstDis(n)[q] \in Int
  BY <1>1, FirstDisType DEF DisInv, OnlyFallen
<1>4. ASSUME NEW ks, NEW m, IsWalk(sides, ks, m), To(sides, ks) = p
      PROVE  aiDis[p] <= Cost(sides, n, ks) /\ Cost(sides, n, ks) \in Int
  <2>1. /\ Cost(sides, n, ks) \in Int /\ FirstDis(n)[From(sides, ks)] \in Int
        /\ WeightOf(sides, ks) \in Int /\ From(sides, ks) \in Points
    BY <1>1, <1>4, CostType
  <2>2. aiDis[p] <= aiDis[From(sides, ks)] + WeightOf(sides, ks)
    BY <1>1, <1>2, <1>4, TightWalk DEF Tight
  <2> QED
    BY <1>3, <2>1, <2>2 DEF Cost
<1>5. ASSUME NEW l \in L PROVE /\ aiDis[p] <= Cost(sides, n, l) /\ Cost(sides, n, l) \in Int
                               /\ Cost(sides, n, l) \in S
  <2>1. PICK q \in 1..(n - 1) : IsWalk(sides, l, q)
    BY <1>1, WalksOfIs
  <2> QED
    BY <1>4, <2>1 DEF Cost
<1>6. \A x \in S : x \in Int /\ aiDis[p] <= x
  BY <1>3, <1>5 DEF Cost
<1>7. aiDis[p] \in S
  <2>1. CASE aiDis[p] = FirstDis(n)[p]
    BY <2>1
  <2>2. ASSUME NEW m, NEW ks, IsWalk(sides, ks, m), To(sides, ks) = p,
               aiDis[p] = Cost(sides, n, ks)
        PROVE  aiDis[p] \in S
    <3>1. FirstDis(n)[From(sides, ks)] \in Int /\ WeightOf(sides, ks) \in Int
      BY <1>1, <2>2, CostType
    <3>2. Shortened(sides, n, ks)
      <4>1. NoFall(sides, n, From(sides, ks))
        BY DEF NoFall
      <4> QED
        BY <1>1, <2>2, <4>1, WalkShortens
    <3>3. CASE To(sides, ks) = From(sides, ks) /\ WeightOf(sides, ks) >= 0
      <4>1. aiDis[p] = FirstDis(n)[p]
        BY <1>3, <2>2, <3>1, <3>3 DEF Cost
      <4> QED
        BY <4>1
    <3>4. ASSUME NEW l \in WalksOf(sides, n - 1), From(sides, l) = From(sides, ks),
                 To(sides, l) = To(sides, ks), WeightOf(sides, l) <= WeightOf(sides, ks)
          PROVE  aiDis[p] \in S
      <4>1. l \in L
        BY <2>2, <3>4
      <4>2. PICK q \in 1..(n - 1) : IsWalk(sides, l, q)
        BY <1>1, <4>1, WalksOfIs
      <4>3. WeightOf(sides, l) \in Int
        BY <1>1, <4>2, CostType
      <4>4. Cost(sides, n, l) <= Cost(sides, n, ks)
        BY <3>1, <3>4, <4>3 DEF Cost
      <4>5. aiDis[p] = Cost(sides, n, l)
        BY <1>3, <1>5, <2>2, <4>1, <4>4
      <4> QED
        BY <1>5, <4>1, <4>5
    <3> QED
      BY <3>2, <3>3, <3>4 DEF Shortened
  <2> QED
    BY <1>1, <2>1, <2>2 DEF WalkInv, Attained
<1>8. LeastWithin(sides, n, n - 1, p) = Min(S)
  BY DEF LeastWithin
<1>9. Min(S) = aiDis[p]
  <2> HIDE DEF S
  <2>1. Min(S) \in S /\ \A x \in S : Min(S) <= x
    <3>1. \E x \in S : \A y \in S : x <= y
      BY <1>6, <1>7
    <3> QED
      BY <3>1 DEF Min
  <2> QED
    BY <1>6, <1>7, <2>1
<1> QED
  BY <1>8, <1>9

-----------------------------------------------------------------------------
(* The shortest paths by a queue.                                           *)

QueuePoints == Queue!Points
SideIndices == 0..(uiSideCount - 1)

QueueTypes ==
  /\ uiSideCount \in Nat
  /\ \A x \in SideIndices : /\ sides[x].u \in QueuePoints /\ sides[x].v \in QueuePoints
                            /\ sides[x].w \in Int
  /\ queueDis \in [QueuePoints -> Int]
  /\ auiBook \in [QueuePoints -> {0, 1}]
  /\ auiQueue \in Seq(QueuePoints) /\ uiHead \in Nat
  /\ queueK \in SideIndices \cup {-1}

\* While the sides of a point are passed it is at the head and they are its own.
AtItsSides ==
  queuePhase = "sides" =>
     /\ uiHead < Len(auiQueue)
     /\ queueK # -1 => sides[queueK].u = Queue!AtHead

QueueInv == QueueTypes /\ AtItsSides /\ Queue!SettledOutsideQueue

\* What SettledOutsideQueue says where no loop falls.
Settled == \A x \in SideIndices : Queue!Passed(x) => ~Queue!Loose(queueDis, sides[x])

LEMMA QueueInvInit == Queue!Init => QueueInv
<1> SUFFICES ASSUME Queue!Init PROVE QueueInv
  OBVIOUS
<1>1. /\ uiPointCount \in Nat \ {0} /\ uiSideCount \in Nat
      /\ sides \in [SideIndices -> Queue!Side(uiPointCount)]
      /\ auiBook = [p \in QueuePoints |-> IF p = 0 THEN 1 ELSE 0]
      /\ auiQueue = <<0>> /\ uiHead = 0 /\ queueK = -1 /\ queuePhase = "head"
      /\ 0 \in QueuePoints
  BY SideParameters DEF Queue!Init, Queue!NoSide, QueuePoints, Queue!Points, Queue!PointsOf,
                        SideIndices
<1>2. \A x \in SideIndices : /\ sides[x].u \in QueuePoints /\ sides[x].v \in QueuePoints
                             /\ sides[x].w \in Int
  BY <1>1, SideParameters DEF Queue!Side, QueuePoints, Queue!Points
<1>3. Queue!INVAILD \in Int
  BY DEF Queue!INVAILD
<1>4. queueDis = [p \in QueuePoints |-> IF p = 0 THEN 0 ELSE Queue!INVAILD]
  BY DEF Queue!Init, Queue!FirstDis, QueuePoints, Queue!Points
<1>5. QueueTypes /\ AtItsSides
  BY <1>1, <1>2, <1>3, <1>4 DEF QueueTypes, AtItsSides
<1>6. \A x \in SideIndices : ~Queue!Passed(x)
  BY <1>1, <1>2, <1>3, <1>4 DEF Queue!Passed
<1>7. Queue!SettledOutsideQueue
  BY <1>6 DEF Queue!SettledOutsideQueue, SideIndices
<1> QED
  BY <1>5, <1>7 DEF QueueInv

\* The list of a point's sides goes from the last to the first and leaves none out.
LEMMA SideBeforeIs ==
  ASSUME QueueTypes, NEW p, NEW j \in 0..uiSideCount
  PROVE  /\ Queue!SideBefore(p, j) \in SideIndices \cup {-1}
         /\ Queue!SideBefore(p, j) # -1 => sides[Queue!SideBefore(p, j)].u = p
         /\ \A x \in SideIndices : x < j /\ x > Queue!SideBefore(p, j) => sides[x].u # p
<1> DEFINE S == {x \in 0..(j - 1) : sides[x].u = p}
           b == Queue!SideBefore(p, j)
<1>1. b = IF S = {} THEN -1 ELSE CHOOSE l \in S : \A m \in S : m <= l
  BY DEF Queue!SideBefore, Queue!NoSide
<1>2. uiSideCount \in Nat
  BY DEF QueueTypes
<1>3. \A x \in SideIndices : x < j => x \in 0..(j - 1)
  BY DEF SideIndices
<1>4. CASE S = {}
  <2>1. b = -1
    BY <1>1, <1>4
  <2>2. \A x \in SideIndices : x < j => sides[x].u # p
    BY <1>3, <1>4
  <2> HIDE DEF b
  <2> QED
    BY <2>1, <2>2 DEF b
<1>5. CASE S # {}
  <2>1. S \in SUBSET (0..j) /\ S \in SUBSET SideIndices
    BY <1>2 DEF SideIndices
  <2>2. j \in Nat
    BY <1>2
  <2> HIDE DEF S
  <2>3. \E l \in S : \A m \in S : m <= l
    BY <1>5, <2>1, <2>2, MaxIsGreatest
  <2>4. b \in S /\ \A m \in S : m <= b
    BY <1>1, <1>5, <2>3
  <2> HIDE DEF b
  <2>5. b \in SideIndices /\ sides[b].u = p /\ b \in Nat
    BY <2>1, <2>4 DEF S, SideIndices
  <2>6. ASSUME NEW x \in SideIndices, x < j, x > b PROVE sides[x].u # p
    <3>1. x \notin S
      BY <2>4, <2>5, <2>6 DEF SideIndices
    <3> QED
      BY <1>3, <2>6, <3>1 DEF S
  <2> QED
    BY <2>5, <2>6 DEF b
<1> QED
  BY <1>4, <1>5

\* The graph stays as it is.
SameGraph == UNCHANGED <<uiPointCount, uiSideCount, sides>>

LEMMA GraphStays ==
  ASSUME SameGraph
  PROVE  QueuePoints' = QueuePoints /\ SideIndices' = SideIndices
         /\ Queue!LoopsDoNotFall' = Queue!LoopsDoNotFall
BY DEF SameGraph, QueuePoints, Queue!Points, SideIndices, Queue!LoopsDoNotFall

LEMMA VisitInv ==
  ASSUME QueueInv, Queue!Visit
  PROVE  QueueInv' /\ (Settled => Settled')
<1>1. /\ SameGraph /\ UNCHANGED <<queueDis, auiBook, auiQueue, uiHead>>
      /\ queuePhase = "head" /\ queuePhase' = "sides" /\ uiHead < Len(auiQueue)
      /\ queueK' = Queue!SideBefore(Queue!AtHead, uiSideCount)
  BY DEF Queue!Visit, Queue!graph, SameGraph
<1>2. QueueTypes /\ uiSideCount \in 0..uiSideCount
  BY DEF QueueInv, QueueTypes
<1>3. /\ queueK' \in SideIndices \cup {-1}
      /\ queueK' # -1 => sides[queueK'].u = Queue!AtHead
      /\ \A x \in SideIndices : x < uiSideCount /\ x > queueK' => sides[x].u # Queue!AtHead
  BY <1>1, <1>2, SideBeforeIs
<1>4. QueueTypes' /\ AtItsSides'
  BY <1>1, <1>2, <1>3, GraphStays DEF QueueTypes, AtItsSides, Queue!AtHead, SameGraph
<1>5. \A x \in SideIndices : Queue!Passed(x)' => Queue!Passed(x)
  <2>1. \A x \in SideIndices : x < uiSideCount
    BY <1>2 DEF SideIndices, QueueTypes
  <2> QED
    BY <1>1, <1>3, <2>1 DEF Queue!Passed, Queue!AtHead, SameGraph
<1>6. Settled => Settled'
  BY <1>1, <1>5, GraphStays DEF Settled, Queue!Loose, SameGraph
<1>7. Queue!SettledOutsideQueue'
  BY <1>1, <1>6, GraphStays DEF QueueInv, Queue!SettledOutsideQueue, Settled, SideIndices
<1> QED
  BY <1>4, <1>6, <1>7 DEF QueueInv

\* A point that gets nearer is in the queue.
LEMMA RelaxSideInv ==
  ASSUME QueueInv, Queue!RelaxSide
  PROVE  /\ QueueInv'
         /\ Settled /\ (sides[queueK].u = sides[queueK].v => sides[queueK].w >= 0) => Settled'
<1> DEFINE s == sides[queueK]
<1>1. /\ SameGraph /\ UNCHANGED <<uiHead, queuePhase>>
      /\ queuePhase = "sides" /\ queueK # -1
      /\ queueDis' = Queue!Relaxed(queueDis, s)
      /\ queueK' = Queue!SideBefore(s.u, queueK)
      /\ IF Queue!Queues(s)
         THEN /\ auiQueue' = Append(auiQueue, s.v)
              /\ auiBook' = [auiBook EXCEPT ![s.v] = 1]
         ELSE UNCHANGED <<auiQueue, auiBook>>
  BY DEF Queue!RelaxSide, Queue!graph, SameGraph, Queue!NoSide
<1>2. /\ QueueTypes /\ queueK \in SideIndices /\ queueK \in 0..uiSideCount
      /\ s.u = Queue!AtHead /\ uiHead < Len(auiQueue)
      /\ s.u \in QueuePoints /\ s.v \in QueuePoints /\ s.w \in Int
  BY <1>1 DEF QueueInv, QueueTypes, AtItsSides, SideIndices
<1>3. /\ queueK' \in SideIndices \cup {-1}
      /\ queueK' # -1 => sides[queueK'].u = s.u
      /\ \A x \in SideIndices : x < queueK /\ x > queueK' => sides[x].u # s.u
  BY <1>1, <1>2, SideBeforeIs
<1> HIDE DEF s
<1>4. /\ queueDis \in [QueuePoints -> Int] /\ auiBook \in [QueuePoints -> {0, 1}]
      /\ auiQueue \in Seq(QueuePoints) /\ uiHead \in Nat /\ Len(auiQueue) \in Nat
  BY <1>2 DEF QueueTypes
<1>5. queueDis' = IF queueDis[s.v] > queueDis[s.u] + s.w
                  THEN [queueDis EXCEPT ![s.v] = queueDis[s.u] + s.w] ELSE queueDis
  BY <1>1 DEF Queue!Relaxed, Queue!Loose
<1>6. queueDis' \in [QueuePoints -> Int]
  BY <1>2, <1>4, <1>5
<1>7. /\ auiQueue' \in Seq(QueuePoints) /\ auiBook' \in [QueuePoints -> {0, 1}]
      /\ uiHead < Len(auiQueue') /\ Queue!AtHead' = Queue!AtHead
  <2>1. CASE Queue!Queues(s)
    <3>1. auiQueue' = Append(auiQueue, s.v) /\ auiBook' = [auiBook EXCEPT ![s.v] = 1]
      BY <1>1, <2>1
    <3>2. auiQueue' \in Seq(QueuePoints) /\ Len(auiQueue') = Len(auiQueue) + 1
          /\ auiQueue'[uiHead + 1] = auiQueue[uiHead + 1]
      BY <1>2, <1>4, <3>1
    <3> QED
      BY <1>1, <1>2, <1>4, <3>1, <3>2 DEF Queue!AtHead
  <2>2. CASE ~Queue!Queues(s)
    BY <1>1, <1>2, <1>4, <2>2 DEF Queue!AtHead
  <2> QED
    BY <2>1, <2>2
<1>8. QueueTypes' /\ AtItsSides'
  BY <1>1, <1>2, <1>3, <1>6, <1>7, GraphStays DEF QueueTypes, AtItsSides, SameGraph
<1>9. \A p \in QueuePoints : auiBook'[p] = 0 => auiBook[p] = 0
  BY <1>1, <1>2, <1>4
<1>10. ASSUME Settled, s.u = s.v => s.w >= 0 PROVE Settled'
  <2> SUFFICES ASSUME NEW x \in SideIndices, Queue!Passed(x)'
               PROVE  ~Queue!Loose(queueDis', sides[x])
    BY <1>1, GraphStays DEF Settled, Queue!Loose, SameGraph
  <2> DEFINE e == sides[x]
  <2>1. e.u \in QueuePoints /\ e.v \in QueuePoints /\ e.w \in Int
    BY <1>2 DEF QueueTypes
  <2>2. /\ queueDis'[e.u] < Queue!INVAILD
        /\ auiBook'[e.u] = 0 \/ (e.u = s.u /\ x > queueK')
    BY <1>1, <1>2, <1>7 DEF Queue!Passed, SameGraph
  <2>3. x = queueK => e = s
    BY DEF s
  <2>4. Queue!Passed(x) => ~(queueDis[e.v] > queueDis[e.u] + e.w)
    BY <1>10 DEF Settled, Queue!Loose
  <2>5. Queue!Passed(x) <=> /\ queueDis[e.u] < Queue!INVAILD
                            /\ auiBook[e.u] = 0 \/ (e.u = s.u /\ x > queueK)
    BY <1>1, <1>2 DEF Queue!Passed
  <2>7. s.u = s.v => s.w >= 0
    BY <1>10
  <2>8. x \in Int /\ queueK \in Int /\ queueK' \in Int
    BY <1>2, <1>3 DEF SideIndices
  <2>9. Queue!Loose(queueDis', sides[x]) <=> queueDis'[e.v] > queueDis'[e.u] + e.w
    BY DEF Queue!Loose
  <2> HIDE DEF e
  <2>10. CASE ~(queueDis[s.v] > queueDis[s.u] + s.w)
    <3>1. queueDis' = queueDis
      BY <1>5, <2>10
    <3>2. CASE x = queueK
      BY <2>3, <2>9, <2>10, <3>1, <3>2
    <3>3. CASE x # queueK
      <4>1. auiBook'[e.u] = 0 => auiBook[e.u] = 0
        BY <1>9, <2>1
      <4>2. e.u = s.u => ~(x < queueK /\ x > queueK')
        BY <1>3 DEF e
      <4>3. Queue!Passed(x)
        BY <2>2, <2>5, <2>8, <3>1, <3>3, <4>1, <4>2
      <4> QED
        BY <2>4, <2>9, <3>1, <4>3
    <3> QED
      BY <3>2, <3>3
  <2>11. CASE queueDis[s.v] > queueDis[s.u] + s.w
    <3>1. s.u # s.v
      BY <1>2, <1>4, <2>7, <2>11
    <3>2. auiBook'[s.v] = 1
      BY <1>1, <1>2, <1>4, <2>11 DEF Queue!Queues, Queue!Loose
    <3>3. \A p \in QueuePoints :
            queueDis'[p] = IF p = s.v THEN queueDis[s.u] + s.w ELSE queueDis[p]
      BY <1>2, <1>4, <1>5, <2>11
    <3>4. e.u # s.v /\ queueDis'[e.u] = queueDis[e.u]
      BY <2>1, <2>2, <3>1, <3>2, <3>3
    <3>5. queueDis'[e.v] <= queueDis[e.v] /\ queueDis[e.u] \in Int /\ queueDis[e.v] \in Int
      <4>1. queueDis[e.u] \in Int /\ queueDis[e.v] \in Int /\ queueDis[s.u] \in Int
        BY <1>2, <1>4, <2>1
      <4>2. queueDis'[e.v] = IF e.v = s.v THEN queueDis[s.u] + s.w ELSE queueDis[e.v]
        BY <2>1, <3>3
      <4>3. CASE e.v = s.v
        BY <1>2, <2>11, <4>1, <4>2, <4>3
      <4>4. CASE e.v # s.v
        BY <4>1, <4>2, <4>4
      <4> QED
        BY <4>1, <4>3, <4>4
    <3>6. CASE x = queueK
      BY <1>2, <1>4, <2>3, <2>9, <3>3, <3>4, <3>5, <3>6
    <3>7. CASE x # queueK
      <4>1. auiBook'[e.u] = 0 => auiBook[e.u] = 0
        BY <1>9, <2>1
      <4>2. e.u = s.u => ~(x < queueK /\ x > queueK')
        BY <1>3 DEF e
      <4>3. Queue!Passed(x)
        BY <2>2, <2>5, <2>8, <3>4, <3>7, <4>1, <4>2
      <4>4. queueDis'[e.v] \in Int
        BY <1>6, <2>1
      <4> QED
        BY <2>1, <2>4, <2>9, <3>4, <3>5, <4>3, <4>4
    <3> QED
      BY <3>6, <3>7
  <2> QED
    BY <2>10, <2>11
<1>11. Queue!SettledOutsideQueue'
  <2> SUFFICES ASSUME Queue!LoopsDoNotFall PROVE Settled'
    BY <1>1, GraphStays DEF Queue!SettledOutsideQueue, Settled, SideIndices
  <2>1. Settled
    BY <1>1 DEF QueueInv, Queue!SettledOutsideQueue, Settled, SideIndices
  <2>2. s.u = s.v => s.w >= 0
    BY <1>2 DEF Queue!LoopsDoNotFall, SideIndices, s
  <2> QED
    BY <1>10, <2>1, <2>2
<1> QED
  BY <1>8, <1>10, <1>11 DEF QueueInv, s

LEMMA LeaveInv ==
  ASSUME QueueInv, Queue!Leave
  PROVE  QueueInv' /\ (Settled => Settled')
<1>1. /\ SameGraph /\ UNCHANGED <<queueDis, auiQueue, queueK>>
      /\ queuePhase = "sides" /\ queuePhase' = "head" /\ queueK = -1
      /\ auiBook' = [auiBook EXCEPT ![Queue!AtHead] = 0]
      /\ uiHead' = uiHead + 1
  BY DEF Queue!Leave, Queue!graph, SameGraph, Queue!NoSide
<1>2. QueueTypes
  BY DEF QueueInv
<1>3. QueueTypes' /\ AtItsSides'
  <2>1. auiBook' \in [QueuePoints -> {0, 1}] /\ uiHead' \in Nat
    <3>1. auiBook \in [QueuePoints -> {0, 1}] /\ uiHead \in Nat
      BY <1>2 DEF QueueTypes
    <3>2. auiBook' = [p \in QueuePoints |-> IF p = Queue!AtHead THEN 0 ELSE auiBook[p]]
      BY <1>1, <3>1
    <3>3. auiBook' \in [QueuePoints -> {0, 1}]
      BY <3>1, <3>2
    <3> QED
      BY <1>1, <3>1, <3>3
  <2>2. QueueTypes'
    BY <1>1, <1>2, <2>1, GraphStays DEF QueueTypes, SameGraph
  <2>3. AtItsSides'
    BY <1>1 DEF AtItsSides
  <2> QED
    BY <2>2, <2>3
<1>4. ASSUME NEW x \in SideIndices, Queue!Passed(x)' PROVE Queue!Passed(x)
  <2>1. x > queueK /\ sides[x].u \in QueuePoints
    BY <1>1, <1>2 DEF QueueTypes, SideIndices
  <2>2. queueDis[sides[x].u] < Queue!INVAILD /\ auiBook'[sides[x].u] = 0
    BY <1>1, <1>4 DEF Queue!Passed, SameGraph
  <2>3. auiBook[sides[x].u] = 0 \/ sides[x].u = Queue!AtHead
    BY <1>1, <1>2, <2>1, <2>2 DEF QueueTypes
  <2> QED
    BY <1>1, <2>1, <2>2, <2>3 DEF Queue!Passed
<1>5. Settled => Settled'
  BY <1>1, <1>4, GraphStays DEF Settled, Queue!Loose, SameGraph
<1>6. Queue!SettledOutsideQueue'
  BY <1>1, <1>5, GraphStays DEF QueueInv, Queue!SettledOutsideQueue, Settled, SideIndices
<1> QED
  BY <1>3, <1>5, <1>6 DEF QueueInv

LEMMA OverrunInv ==
  ASSUME QueueInv, Queue!Overrun
  PROVE  QueueInv'
<1>1. /\ SameGraph /\ UNCHANGED <<auiBook, auiQueue, uiHead, queueK>>
      /\ queuePhase' = "overrun" /\ queueK # -1
      /\ queueDis' = Queue!Relaxed(queueDis, sides[queueK])
  BY DEF Queue!Overrun, Queue!graph, SameGraph, Queue!NoSide
<1>2. QueueTypes
  BY DEF QueueInv
<1>3. queueDis' \in [QueuePoints -> Int]
  BY <1>1, <1>2 DEF QueueTypes, Queue!Relaxed
<1>4. QueueTypes' /\ AtItsSides'
  BY <1>1, <1>2, <1>3, GraphStays DEF QueueTypes, AtItsSides, SameGraph
<1>5. Queue!SettledOutsideQueue'
  BY <1>1 DEF Queue!SettledOutsideQueue
<1> QED
  BY <1>4, <1>5 DEF QueueInv

LEMMA QueueInvStays ==
  ASSUME QueueInv, SameGraph,
         UNCHANGED <<queueDis, auiBook, auiQueue, uiHead, queueK>>,
         queuePhase' = queuePhase \/ (queuePhase = "head" /\ queuePhase' = "done")
  PROVE  QueueInv' /\ (Settled => Settled')
<1>1. QueueTypes' /\ AtItsSides'
  BY GraphStays DEF QueueInv, QueueTypes, AtItsSides, SameGraph, Queue!AtHead
<1>2. \A x \in SideIndices : Queue!Passed(x)' => Queue!Passed(x)
  BY DEF Queue!Passed, Queue!AtHead, SameGraph
<1>3. Settled => Settled'
  BY <1>2, GraphStays DEF Settled, Queue!Loose, SameGraph
<1>4. Queue!SettledOutsideQueue'
  BY <1>3, GraphStays DEF QueueInv, Queue!SettledOutsideQueue, Settled, SideIndices
<1> QED
  BY <1>1, <1>3, <1>4 DEF QueueInv

LEMMA QueueInvStep ==
  ASSUME QueueInv, Queue!Next
  PROVE  QueueInv' /\ SameGraph
<1>1. SameGraph
  BY DEF Queue!Next, Queue!Visit, Queue!RelaxSide, Queue!Overrun, Queue!Leave, Queue!Return,
         Queue!Over, Queue!vars, Queue!graph, SameGraph
<1>2. CASE Queue!Return \/ Queue!Over
  <2>1. /\ UNCHANGED <<queueDis, auiBook, auiQueue, uiHead, queueK>>
        /\ queuePhase' = queuePhase \/ (queuePhase = "head" /\ queuePhase' = "done")
    BY <1>2 DEF Queue!Return, Queue!Over, Queue!vars
  <2> QED
    BY <1>1, <2>1, QueueInvStays
<1> QED
  BY <1>1, <1>2, VisitInv, RelaxSideInv, LeaveInv, OverrunInv DEF Queue!Next

-----------------------------------------------------------------------------
(* The queue and the walks from point 0.  The queue works in passes: the    *)
(* points that wait at the beginning of one leave in it, those that get     *)
(* nearer during one wait for the next, and after pass R + 1 no walk of as   *)
(* many sides weighs less than the distance of its end.                     *)

\* No walk over at most m sides, the last of them from no point of S.
WithinBut(es, dis, m, S) ==
  \A q \in 1..m : \A ks :
     IsWalk(es, ks, q) /\ From(es, ks) = 0 /\ es[ks[q]].u \notin S
       => dis[To(es, ks)] <= WeightOf(es, ks)

\* The distance of p is the weight of a walk.
Walked(es, dis, p) ==
  \/ p = 0 /\ dis[p] = 0
  \/ \E m : \E ks : /\ IsWalk(es, ks, m) /\ From(es, ks) = 0 /\ To(es, ks) = p
                    /\ dis[p] = WeightOf(es, ks)

FromStart ==
  \A p \in QueuePoints :
     /\ queueDis[p] <= INVAILD /\ (p = 0 => queueDis[p] <= 0)
     /\ Walked(sides, queueDis, p) \/ (queueDis[p] = INVAILD /\ auiBook[p] = 0)

Waiting(base) == {auiQueue[x] : x \in (uiHead + 1)..base}

BookedWait ==
  /\ \A x, y \in (uiHead + 1)..Len(auiQueue) : auiQueue[x] = auiQueue[y] => x = y
  /\ \A p \in QueuePoints : auiBook[p] = 1 <=> p \in Waiting(Len(auiQueue))

\* The places up to base belong to pass R + 1.
InPass(R, base) ==
  /\ R \in 0..(uiPointCount - 1) /\ base \in uiHead..Len(auiQueue)
  /\ base <= 1 + R * uiPointCount
  /\ uiHead = base => Len(auiQueue) = base
  /\ R = uiPointCount - 1 => Len(auiQueue) = base
  /\ WithinBut(sides, queueDis, R, {})
  /\ WithinBut(sides, queueDis, R + 1, Waiting(base))

Passes == Settled /\ FromStart /\ BookedWait /\ \E R, base : InPass(R, base)

PassInv ==
  /\ NoFall(sides, uiPointCount, 0) => queuePhase # "overrun" /\ Passes
  /\ queuePhase = "done" => uiHead = Len(auiQueue)

LEMMA QueueGraph ==
  ASSUME TypeOK
  PROVE  /\ IsGraph(sides, uiPointCount) /\ DOMAIN sides = SideIndices
         /\ uiPointCount \in Nat \ {0} /\ uiPointCount <= MaxPoints /\ MaxPoints \in Nat
         /\ QueuePoints = PointsOf(uiPointCount) /\ 0 \in QueuePoints
         /\ \A dis, s : Queue!Loose(dis, s) = Loose(dis, s)
         /\ Queue!INVAILD = INVAILD /\ Queue!QueueSize = MaxPoints * MaxPoints
<1>1. /\ IsGraph(sides, uiPointCount) /\ DOMAIN sides = 0..(uiSideCount - 1)
      /\ uiPointCount \in Nat \ {0}
  BY SidesAreGraph
<1>2. uiPointCount <= MaxPoints /\ MaxPoints \in Nat
  BY SideParameters DEF TypeOK
<1>3. QueuePoints = PointsOf(uiPointCount)
  BY DEF QueuePoints, Queue!Points, Queue!PointsOf, PointsOf
<1>4. 0 \in PointsOf(uiPointCount)
  BY <1>1 DEF PointsOf
<1>5. \A dis, s : Queue!Loose(dis, s) = Loose(dis, s)
  BY DEF Queue!Loose, Loose
<1>6. Queue!INVAILD = INVAILD /\ Queue!QueueSize = MaxPoints * MaxPoints
  BY DEF Queue!INVAILD, INVAILD, Queue!QueueSize
<1> QED
  BY <1>1, <1>2, <1>3, <1>4, <1>5, <1>6 DEF SideIndices

\* So many sides as a walk needs to have weigh less than INVAILD.
LEMMA SideIsLight ==
  ASSUME NEW w \in Weights, MaxSides >= 2, NEW q \in Nat, q <= MaxPoints - 1
  PROVE  q * w < INVAILD
<1> DEFINE N == MaxPoints
<1>1. N \in Nat /\ N > 0 /\ MaxSides \in Nat /\ w \in Int
  BY SideParameters
<1>2. /\ w * N * N * MaxSides <= 7 * INVAILD + 7
      /\ INVAILD \in Nat /\ INVAILD > 7
  <2> DEFINE room == 2147483647 - INVAILD
  <2>1. room <= 7 * INVAILD + 7 /\ room \in Int /\ INVAILD \in Nat /\ INVAILD > 7
    BY SMT DEF INVAILD
  <2>2. w * MaxPoints * MaxPoints * MaxSides \in -room..room
    BY SMT, WeightsSmall
  <2> HIDE DEF room
  <2> QED
    BY <2>1, <2>2
<1> HIDE DEF N
<1>3. q <= N - 1
  BY DEF N
<1>4. CASE w <= 0
  <2>1. q * w <= 0 /\ q * w \in Int
    BY <1>1, <1>4
  <2> QED
    BY <1>2, <2>1
<1>5. CASE w > 0
  <2>1. w * N * N \in Nat
    BY <1>1, <1>5
  <2>2. w * N * N * 2 <= w * N * N * MaxSides
    BY <1>1, <2>1
  <2>3. N * N >= 4 * (N - 1)
    <3>1. (N - 2) * (N - 2) >= 0
      BY <1>1
    <3>2. (N - 2) * (N - 2) = N * N - 4 * N + 4
      BY <1>1
    <3> QED
      BY <1>1, <3>1, <3>2
  <2>4. w * N * N >= w * (4 * (N - 1))
    <3>1. w * N * N = w * (N * N)
      BY <1>1
    <3> QED
      BY <1>1, <1>5, <2>3, <3>1
  <2>5. w * (4 * (N - 1)) = 4 * ((N - 1) * w)
    BY <1>1
  <2>6. q * w <= (N - 1) * w
    BY <1>1, <1>3, <1>5
  <2>7. w * N * N \in Int /\ (N - 1) * w \in Int /\ q * w \in Int
        /\ w * N * N * MaxSides \in Int
    BY <1>1
  <2> QED
    BY <1>1, <1>2, <2>2, <2>4, <2>5, <2>6, <2>7
<1> QED
  BY <1>1, <1>4, <1>5

\* Where a walk from point 0 of few sides can go on, it is below INVAILD.
LEMMA GoesOnBelow ==
  ASSUME TypeOK, NEW ks, NEW q, IsWalk(sides, ks, q), q <= uiPointCount - 1,
         From(sides, ks) = 0, NEW j \in DOMAIN sides, sides[j].u = To(sides, ks)
  PROVE  WeightOf(sides, ks) < INVAILD \/ To(sides, ks) = 0
<1>1. /\ IsGraph(sides, uiPointCount) /\ DOMAIN sides = 0..(uiSideCount - 1)
      /\ uiSideCount \in Nat /\ uiSideCount <= MaxSides /\ MaxSides \in Nat
      /\ uiPointCount \in Nat /\ uiPointCount <= MaxPoints /\ MaxPoints \in Nat
      /\ q \in Nat \ {0}
  BY SidesAreGraph, SideParameters DEF TypeOK, IsWalk
<1>2. /\ From(sides, ks) = At(sides, ks, 0)
      /\ WeightOf(sides, ks) = SumOver(Row(sides, ks), 1..q)
      /\ \A x \in 1..q : Row(sides, ks)[x] = sides[ks[x]].w /\ Row(sides, ks)[x] \in Int
      /\ \A x \in 1..q : ks[x] \in DOMAIN sides /\ At(sides, ks, x - 1) = sides[ks[x]].u
      /\ WeightOf(sides, ks) \in Int
  BY <1>1, WalkIs
<1>3. CASE uiSideCount < 2
  <2>1. 1 \in 1..q
    BY <1>1
  <2>2. ks[1] = j
    <3>1. ks[1] \in 0..(uiSideCount - 1) /\ j \in 0..(uiSideCount - 1)
      BY <1>1, <1>2, <2>1
    <3> QED
      BY <1>1, <1>3, <3>1
  <2>3. At(sides, ks, 0) = sides[j].u
    BY <2>2 DEF At
  <2> QED
    BY <1>2, <2>3
<1>4. CASE uiSideCount >= 2
  <2>1. \A x \in 1..q : Row(sides, ks)[x] \in Weights
    <3> SUFFICES ASSUME NEW x \in 1..q PROVE sides[ks[x]].w \in Weights
      BY <1>2
    <3>1. sides[ks[x]] \in Side(uiPointCount)
      BY <1>1, <1>2 DEF TypeOK
    <3> QED
      BY <3>1 DEF Side
  <2> DEFINE f == Row(sides, ks)
             W == {f[x] : x \in 1..q}
  <2>2. \E B \in W : \A x \in 1..q : f[x] <= B
    <3>1. \A x \in 1..q : f[x] \in Int
      BY <1>2
    <3> HIDE DEF f
    <3>2. PICK z \in 1..q : \A x \in 1..q : f[x] <= f[z]
      BY <1>1, <3>1, GreatestOfRow
    <3> QED
      BY <3>2
  <2>3. PICK B \in W : \A x \in 1..q : f[x] <= B
    BY <2>2
  <2>4. B \in Weights /\ B \in Int /\ MaxSides >= 2 /\ q <= MaxPoints - 1
    BY <1>1, <1>2, <1>4, <2>1
  <2>5. q * B < INVAILD
    BY <1>1, <2>4, SideIsLight
  <2>6. SumOver(f, 1..q) <= q * B
    <3>1. \A x \in 1..q : f[x] \in Int /\ f[x] <= B
      BY <1>2, <2>3
    <3> HIDE DEF f, W
    <3> QED
      BY <1>1, <2>4, <3>1, SumOverAtMost
  <2>7. q * B \in Int /\ INVAILD \in Int
    BY <1>1, <2>4 DEF INVAILD
  <2> QED
    BY <1>2, <2>5, <2>6, <2>7
<1> QED
  BY <1>1, <1>3, <1>4

LEMMA QueueShape ==
  ASSUME QueueTypes
  PROVE  /\ uiHead \in Nat /\ Len(auiQueue) \in Nat
         /\ \A x \in 1..Len(auiQueue) : auiQueue[x] \in QueuePoints
         /\ \A x \in (uiHead + 1)..Len(auiQueue) : x \in 1..Len(auiQueue)
BY DEF QueueTypes

\* No place more than points that wait.
LEMMA FewPlaces ==
  ASSUME QueueTypes, BookedWait, NEW base \in uiHead..Len(auiQueue), NEW T, IsFiniteSet(T),
         \A x \in (base + 1)..Len(auiQueue) : auiQueue[x] \in T
  PROVE  Len(auiQueue) - base <= Cardinality(T)
<1> DEFINE S == (base + 1)..Len(auiQueue)
           f == [x \in S |-> auiQueue[x]]
<1>1. uiHead \in Nat /\ Len(auiQueue) \in Nat /\ base \in Nat /\ base <= Len(auiQueue)
  BY QueueShape
<1>2. \A x, y \in S : auiQueue[x] = auiQueue[y] => x = y
  <2>1. \A x \in S : x \in (uiHead + 1)..Len(auiQueue)
    BY <1>1
  <2> QED
    BY <2>1 DEF BookedWait
<1>3. f \in [S -> T] /\ \A x, y \in S : f[x] = f[y] => x = y
  BY <1>2
<1>4. IsFiniteSet(S) /\ Cardinality(S) = Len(auiQueue) - base
  <2> DEFINE l == Len(auiQueue)
             b == base + 1
  <2>1. l \in Int /\ b \in Int
    BY <1>1
  <2> HIDE DEF l, b
  <2>2. IsFiniteSet(b..l) /\ Cardinality(b..l) = IF b > l THEN 0 ELSE l - b + 1
    BY <2>1, FS_Interval
  <2> QED
    BY <1>1, <2>2 DEF l, b
<1>5. Cardinality(T) \in Nat
  BY FS_CardinalityType
<1> HIDE DEF S, f
<1>6. ~(Cardinality(T) < Cardinality(S))
  BY <1>3, <1>4, FS_PigeonHole
<1> QED
  BY <1>1, <1>4, <1>5, <1>6

LEMMA PassInvInit ==
  ASSUME TypeOK, QueueInv, Queue!Init
  PROVE  PassInv
<1>1. /\ uiPointCount \in Nat \ {0} /\ QueuePoints = PointsOf(uiPointCount)
      /\ auiBook = [p \in QueuePoints |-> IF p = 0 THEN 1 ELSE 0]
      /\ auiQueue = <<0>> /\ uiHead = 0 /\ queueK = -1 /\ queuePhase = "head"
      /\ 0 \in QueuePoints /\ IsGraph(sides, uiPointCount)
      /\ queueDis = [p \in QueuePoints |-> IF p = 0 THEN 0 ELSE INVAILD]
  BY QueueGraph DEF Queue!Init, Queue!NoSide, QueuePoints, Queue!Points, Queue!FirstDis,
                    Queue!INVAILD, INVAILD, Queue!PointsOf
<1>2. Len(auiQueue) = 1 /\ auiQueue[1] = 0
  BY <1>1
<1>3. Settled
  <2>1. \A x \in SideIndices : sides[x].u \in QueuePoints
    BY DEF QueueInv, QueueTypes
  <2>2. \A x \in SideIndices : ~Queue!Passed(x)
    <3>1. Queue!INVAILD = INVAILD
      BY QueueGraph
    <3>2. INVAILD \in Int
      BY DEF INVAILD
    <3>3. ASSUME NEW x \in SideIndices, Queue!Passed(x) PROVE FALSE
      <4>1. queueDis[sides[x].u] < INVAILD /\ auiBook[sides[x].u] = 0
        BY <1>1, <3>1, <3>3 DEF Queue!Passed
      <4> QED
        BY <1>1, <2>1, <3>2, <4>1
    <3> QED
      BY <3>3
  <2> QED
    BY <2>2 DEF Settled
<1>4. FromStart
  <2>1. INVAILD \in Nat
    BY DEF INVAILD
  <2> QED
    BY <1>1, <2>1 DEF FromStart, Walked
<1>5. Waiting(1) = {0}
  <2>1. (uiHead + 1)..1 = {1}
    BY <1>1
  <2> QED
    BY <1>2, <2>1 DEF Waiting
<1>6. BookedWait
  <2>1. \A p \in QueuePoints : auiBook[p] = 1 <=> p = 0
    BY <1>1
  <2>2. \A x, y \in (uiHead + 1)..Len(auiQueue) : x = y
    BY <1>1, <1>2
  <2> QED
    BY <1>2, <1>5, <2>1, <2>2 DEF BookedWait
<1>7. InPass(0, 1)
  <2>1. WithinBut(sides, queueDis, 0, {})
    BY DEF WithinBut
  <2>2. WithinBut(sides, queueDis, 0 + 1, Waiting(1))
    <3> SUFFICES ASSUME NEW q \in 1..1, NEW ks, IsWalk(sides, ks, q), From(sides, ks) = 0,
                        sides[ks[q]].u # 0
                 PROVE  FALSE
      BY <1>5 DEF WithinBut
    <3>1. q = 1
      OBVIOUS
    <3>2. From(sides, ks) = At(sides, ks, 0)
      BY <1>1, WalkIs
    <3> QED
      BY <3>1, <3>2 DEF At
  <2> QED
    BY <1>1, <1>2, <2>1, <2>2 DEF InPass
<1> QED
  BY <1>1, <1>3, <1>4, <1>6, <1>7 DEF PassInv, Passes

\* A loop that falls would be a cycle that point 0 reaches.
LEMMA WalkedLoops ==
  ASSUME TypeOK, NoFall(sides, uiPointCount, 0), NEW dis, NEW j \in DOMAIN sides,
         sides[j].u = sides[j].v, Walked(sides, dis, sides[j].u)
  PROVE  sides[j].w >= 0
<1>1. IsGraph(sides, uiPointCount) /\ uiPointCount \in Nat \ {0}
  BY SidesAreGraph
<1>2. sides[j].w \in Int
  BY <1>1 DEF IsGraph
<1> SUFFICES ASSUME sides[j].w < 0 PROVE FALSE
  BY <1>2
<1> DEFINE c == [x \in 1..1 |-> j]
<1>3. /\ IsWalk(sides, c, 1) /\ From(sides, c) = sides[j].u /\ To(sides, c) = sides[j].v
      /\ WeightOf(sides, c) = sides[j].w
  BY <1>1, OneSide
<1> HIDE DEF c
<1>4. c \in NegativeCycles(sides, uiPointCount)
  <2>1. 1 \in 1..uiPointCount
    BY <1>1
  <2>2. c \in WalksOf(sides, uiPointCount)
    BY <1>1, <1>3, <2>1, WalksOfIs
  <2> QED
    BY <1>3, <2>2 DEF NegativeCycles
<1>5. /\ sides[j].u # 0
      /\ \A l \in WalksOf(sides, uiPointCount - 1) :
            From(sides, l) = 0 => To(sides, l) # sides[j].u
  BY <1>3, <1>4 DEF NoFall
<1>6. PICK m, ks : IsWalk(sides, ks, m) /\ From(sides, ks) = 0 /\ To(sides, ks) = sides[j].u
  BY <1>5 DEF Walked
<1>7. Shortened(sides, uiPointCount, ks)
  BY <1>1, <1>6, WalkShortens
<1> QED
  BY <1>5, <1>6, <1>7 DEF Shortened

\* The walk to a point and a side more.
LEMMA WalkedOn ==
  ASSUME TypeOK, NEW dis, NEW j \in DOMAIN sides, Walked(sides, dis, sides[j].u)
  PROVE  \E m : \E ks : /\ IsWalk(sides, ks, m) /\ From(sides, ks) = 0
                        /\ To(sides, ks) = sides[j].v
                        /\ WeightOf(sides, ks) = dis[sides[j].u] + sides[j].w
<1>1. IsGraph(sides, uiPointCount) /\ sides[j].w \in Int
  BY SidesAreGraph DEF IsGraph
<1>2. CASE sides[j].u = 0 /\ dis[sides[j].u] = 0
  <2> DEFINE c == [x \in 1..1 |-> j]
  <2>1. /\ IsWalk(sides, c, 1) /\ From(sides, c) = sides[j].u /\ To(sides, c) = sides[j].v
        /\ WeightOf(sides, c) = sides[j].w
    BY <1>1, OneSide
  <2> HIDE DEF c
  <2>2. WeightOf(sides, c) = dis[sides[j].u] + sides[j].w
    BY <1>1, <1>2, <2>1
  <2> QED
    BY <1>2, <2>1, <2>2
<1>3. ASSUME NEW m, NEW ks, IsWalk(sides, ks, m), From(sides, ks) = 0,
             To(sides, ks) = sides[j].u, dis[sides[j].u] = WeightOf(sides, ks)
      PROVE  \E q : \E l : /\ IsWalk(sides, l, q) /\ From(sides, l) = 0
                           /\ To(sides, l) = sides[j].v
                           /\ WeightOf(sides, l) = dis[sides[j].u] + sides[j].w
  <2>1. PICK l : /\ IsWalk(sides, l, m + 1) /\ From(sides, l) = From(sides, ks)
                 /\ To(sides, l) = sides[j].v
                 /\ WeightOf(sides, l) = WeightOf(sides, ks) + sides[j].w
    BY <1>1, <1>3, WalkAppend
  <2> QED
    BY <1>3, <2>1
<1> QED
  BY <1>2, <1>3 DEF Walked

\* Every point at the head was reached.
LEMMA HeadIsWalked ==
  ASSUME QueueInv, BookedWait, FromStart, queuePhase = "sides"
  PROVE  /\ Queue!AtHead \in QueuePoints /\ auiBook[Queue!AtHead] = 1
         /\ Walked(sides, queueDis, Queue!AtHead)
<1>1. /\ uiHead \in Nat /\ Len(auiQueue) \in Nat /\ uiHead < Len(auiQueue)
      /\ \A x \in 1..Len(auiQueue) : auiQueue[x] \in QueuePoints
  BY QueueShape DEF QueueInv, AtItsSides
<1>2. uiHead + 1 \in 1..Len(auiQueue) /\ uiHead + 1 \in (uiHead + 1)..Len(auiQueue)
  BY <1>1
<1>3. Queue!AtHead \in QueuePoints /\ Queue!AtHead \in Waiting(Len(auiQueue))
  BY <1>1, <1>2 DEF Queue!AtHead, Waiting
<1>4. auiBook[Queue!AtHead] = 1
  BY <1>3 DEF BookedWait
<1> QED
  BY <1>3, <1>4 DEF FromStart

\* In the last pass no side is loose.
LEMMA LastPassIsIdle ==
  ASSUME TypeOK, QueueTypes, NoFall(sides, uiPointCount, 0), FromStart,
         NEW base, InPass(uiPointCount - 1, base),
         NEW j \in DOMAIN sides, Walked(sides, queueDis, sides[j].u)
  PROVE  ~Loose(queueDis, sides[j])
<1>1. /\ IsGraph(sides, uiPointCount) /\ uiPointCount \in Nat \ {0}
      /\ DOMAIN sides = SideIndices /\ 0 \in QueuePoints
  BY QueueGraph
<1>2. /\ sides[j].u \in QueuePoints /\ sides[j].v \in QueuePoints /\ sides[j].w \in Int
      /\ queueDis \in [QueuePoints -> Int]
  BY <1>1 DEF QueueTypes
<1>3. PICK m, ks : /\ IsWalk(sides, ks, m) /\ From(sides, ks) = 0
                   /\ To(sides, ks) = sides[j].v
                   /\ WeightOf(sides, ks) = queueDis[sides[j].u] + sides[j].w
  BY WalkedOn
<1>4. Shortened(sides, uiPointCount, ks)
  BY <1>1, <1>3, WalkShortens
<1>5. queueDis[sides[j].v] <= WeightOf(sides, ks)
  <2>1. CASE To(sides, ks) = From(sides, ks) /\ WeightOf(sides, ks) >= 0
    <3>1. queueDis[sides[j].v] <= 0
      BY <1>2, <1>3, <2>1 DEF FromStart
    <3>2. WeightOf(sides, ks) \in Int /\ queueDis[sides[j].v] \in Int
      BY <1>2, <1>3
    <3> QED
      BY <2>1, <3>1, <3>2
  <2>2. ASSUME NEW l \in WalksOf(sides, uiPointCount - 1), From(sides, l) = From(sides, ks),
               To(sides, l) = To(sides, ks), WeightOf(sides, l) <= WeightOf(sides, ks)
        PROVE  queueDis[sides[j].v] <= WeightOf(sides, ks)
    <3>1. PICK q \in 1..(uiPointCount - 1) : IsWalk(sides, l, q)
      <4>1. uiPointCount - 1 \in Nat
        BY <1>1
      <4> QED
        BY <2>2, <4>1, WalksOfIs
    <3>2. queueDis[To(sides, l)] <= WeightOf(sides, l)
      BY <1>3, <2>2, <3>1 DEF InPass, WithinBut
    <3>3. WeightOf(sides, l) \in Int
      BY <1>1, <3>1, WalkIs
    <3> QED
      BY <1>2, <1>3, <2>2, <3>2, <3>3
  <2> QED
    BY <1>4, <2>1, <2>2 DEF Shortened
<1> QED
  BY <1>2, <1>3, <1>5 DEF Loose

\* What waits after base waits for the next pass, and there is place for it.
LEMMA PlaceIsLeft ==
  ASSUME TypeOK, QueueTypes, BookedWait, NEW R, NEW base, InPass(R, base),
         R # uiPointCount - 1, NEW p \in QueuePoints, auiBook[p] = 0
  PROVE  Len(auiQueue) < Queue!QueueSize
<1> DEFINE n == uiPointCount
           L == Len(auiQueue)
           N == MaxPoints
<1>1. /\ n \in Nat \ {0} /\ n <= N /\ N \in Nat /\ QueuePoints = PointsOf(n)
      /\ Queue!QueueSize = N * N
  BY QueueGraph
<1>2. /\ uiHead \in Nat /\ L \in Nat /\ base \in Nat /\ base <= L /\ uiHead <= base
      /\ R \in Nat /\ R <= n - 2 /\ base <= 1 + R * n
      /\ \A x \in 1..L : auiQueue[x] \in QueuePoints
  BY <1>1, QueueShape DEF InPass
<1> DEFINE T == QueuePoints \ {p}
<1>3. IsFiniteSet(T) /\ Cardinality(T) = n - 1
  <2>1. IsFiniteSet(QueuePoints) /\ Cardinality(QueuePoints) = n
    BY <1>1, FS_Interval DEF PointsOf
  <2> QED
    BY <2>1, FS_RemoveElement
<1>4. \A x \in (base + 1)..L : auiQueue[x] \in T
  <2> SUFFICES ASSUME NEW x \in (base + 1)..L PROVE auiQueue[x] \in T
    OBVIOUS
  <2>1. x \in 1..L /\ x \in (uiHead + 1)..L
    BY <1>2
  <2>2. auiQueue[x] \in Waiting(L) /\ auiQueue[x] \in QueuePoints
    BY <1>2, <2>1 DEF Waiting
  <2>3. auiBook[auiQueue[x]] = 1
    BY <2>2 DEF BookedWait
  <2> QED
    BY <2>2, <2>3
<1>5. L - base <= n - 1
  <2>1. base \in uiHead..L
    BY DEF InPass
  <2> HIDE DEF T
  <2> QED
    BY <1>3, <1>4, <2>1, FewPlaces
<1> HIDE DEF n, L, N, T
<1>6. R * n <= (n - 2) * n
  BY <1>1, <1>2
<1>7. (n - 2) * n + n = (n - 1) * n /\ (n - 1) * n < n * n /\ n * n <= N * N
  BY <1>1
<1>8. R * n \in Int /\ (n - 2) * n \in Int /\ (n - 1) * n \in Int /\ n * n \in Int
      /\ N * N \in Int
  BY <1>1, <1>2
<1>9. L < N * N
  BY <1>1, <1>2, <1>5, <1>6, <1>7, <1>8
<1> QED
  BY <1>1, <1>9 DEF L

LEMMA NoOverrun ==
  ASSUME TypeOK, QueueInv, NoFall(sides, uiPointCount, 0), Passes, Queue!Overrun
  PROVE  FALSE
<1>1. PICK R, base : InPass(R, base)
  BY DEF Passes
<1>2. /\ queuePhase = "sides" /\ queueK # -1 /\ Queue!Queues(sides[queueK])
      /\ ~(Len(auiQueue) < Queue!QueueSize)
  <2>1. Len(auiQueue) \in Int /\ Queue!QueueSize \in Int
    BY QueueShape, QueueGraph DEF QueueInv
  <2> QED
    BY <2>1 DEF Queue!Overrun, Queue!NoSide
<1>3. /\ queueK \in DOMAIN sides /\ sides[queueK].u = Queue!AtHead
      /\ sides[queueK].v \in QueuePoints
  BY <1>2, QueueGraph DEF QueueInv, QueueTypes, AtItsSides
<1>4. Loose(queueDis, sides[queueK]) /\ auiBook[sides[queueK].v] = 0
  BY <1>2, QueueGraph DEF Queue!Queues
<1>5. Walked(sides, queueDis, sides[queueK].u)
  BY <1>2, <1>3, HeadIsWalked DEF Passes
<1>6. R # uiPointCount - 1
  BY <1>1, <1>3, <1>4, <1>5, LastPassIsIdle DEF Passes, QueueInv
<1> QED
  BY <1>1, <1>2, <1>3, <1>4, <1>6, PlaceIsLeft DEF Passes, QueueInv

LEMMA WithinFalls ==
  ASSUME NEW es, NEW n, IsGraph(es, n), NEW dis \in [PointsOf(n) -> Int],
         NEW new \in [PointsOf(n) -> Int], \A p \in PointsOf(n) : new[p] <= dis[p],
         NEW m \in Nat, NEW S, WithinBut(es, dis, m, S)
  PROVE  WithinBut(es, new, m, S)
<1> SUFFICES ASSUME NEW q \in 1..m, NEW ks, IsWalk(es, ks, q), From(es, ks) = 0,
                    es[ks[q]].u \notin S
             PROVE  new[To(es, ks)] <= WeightOf(es, ks)
  BY DEF WithinBut
<1>1. dis[To(es, ks)] <= WeightOf(es, ks)
  BY DEF WithinBut
<1>2. To(es, ks) \in PointsOf(n) /\ WeightOf(es, ks) \in Int
  BY WalkIs
<1>3. new[To(es, ks)] <= dis[To(es, ks)] /\ new[To(es, ks)] \in Int /\ dis[To(es, ks)] \in Int
  BY <1>2
<1> QED
  BY <1>1, <1>2, <1>3

LEMMA PassRelax ==
  ASSUME TypeOK, QueueInv, NoFall(sides, uiPointCount, 0), Passes, Queue!RelaxSide
  PROVE  Passes'
<1> DEFINE s == sides[queueK]
<1>1. /\ SameGraph /\ UNCHANGED <<uiHead, queuePhase>>
      /\ queuePhase = "sides" /\ queueK # -1
      /\ queueDis' = Queue!Relaxed(queueDis, s)
      /\ IF Queue!Queues(s)
         THEN /\ auiQueue' = Append(auiQueue, s.v)
              /\ auiBook' = [auiBook EXCEPT ![s.v] = 1]
         ELSE UNCHANGED <<auiQueue, auiBook>>
  BY DEF Queue!RelaxSide, Queue!graph, SameGraph, Queue!NoSide
<1>2. /\ IsGraph(sides, uiPointCount) /\ QueuePoints = PointsOf(uiPointCount)
      /\ 0 \in QueuePoints /\ QueuePoints' = QueuePoints
      /\ Queue!Loose(queueDis, s) = Loose(queueDis, s)
      /\ uiPointCount \in Nat /\ DOMAIN sides = SideIndices
  BY <1>1, QueueGraph, GraphStays
<1>3. /\ queueK \in DOMAIN sides /\ s.u = Queue!AtHead
      /\ s.u \in QueuePoints /\ s.v \in QueuePoints /\ s.w \in Int
      /\ queueDis \in [QueuePoints -> Int] /\ auiBook \in [QueuePoints -> {0, 1}]
      /\ auiQueue \in Seq(QueuePoints) /\ uiHead \in Nat /\ uiHead < Len(auiQueue)
      /\ Len(auiQueue) \in Nat
  BY <1>1, <1>2 DEF QueueInv, QueueTypes, AtItsSides
<1>4. Settled /\ FromStart /\ BookedWait
  BY DEF Passes
<1>5. Walked(sides, queueDis, s.u)
  BY <1>1, <1>3, <1>4, HeadIsWalked
<1>6. IF Loose(queueDis, s)
      THEN /\ queueDis' = [queueDis EXCEPT ![s.v] = queueDis[s.u] + s.w]
           /\ queueDis[s.v] > queueDis[s.u] + s.w
           /\ IF auiBook[s.v] = 0
              THEN /\ auiQueue' = Append(auiQueue, s.v)
                   /\ auiBook' = [auiBook EXCEPT ![s.v] = 1]
              ELSE UNCHANGED <<auiQueue, auiBook>>
      ELSE UNCHANGED <<queueDis, auiQueue, auiBook>>
  BY <1>1, <1>2 DEF Queue!Relaxed, Queue!Queues, Loose
<1>7. Settled'
  <2>1. s.u = s.v => s.w >= 0
    BY <1>3, <1>5, WalkedLoops
  <2> QED
    BY <1>4, <2>1, RelaxSideInv
<1> HIDE DEF s
<1>8. /\ queueDis' \in [QueuePoints -> Int]
      /\ \A p \in QueuePoints : queueDis'[p] <= queueDis[p]
  <2>1. CASE Loose(queueDis, s)
    <3>1. \A p \in QueuePoints :
            queueDis'[p] = IF p = s.v THEN queueDis[s.u] + s.w ELSE queueDis[p]
      BY <1>3, <1>6, <2>1
    <3>2. queueDis' \in [QueuePoints -> Int]
      BY <1>3, <1>6, <2>1
    <3>3. ASSUME NEW p \in QueuePoints PROVE queueDis'[p] <= queueDis[p]
      <4>1. queueDis[p] \in Int /\ queueDis[s.u] + s.w \in Int
        BY <1>3
      <4>2. queueDis[s.v] > queueDis[s.u] + s.w
        BY <1>6, <2>1
      <4> QED
        BY <3>1, <4>1, <4>2
    <3> QED
      BY <3>2, <3>3
  <2>2. CASE ~Loose(queueDis, s)
    BY <1>3, <1>6, <2>2
  <2> QED
    BY <2>1, <2>2
<1>9. FromStart'
  <2> SUFFICES ASSUME NEW p \in QueuePoints
               PROVE  /\ queueDis'[p] <= INVAILD /\ (p = 0 => queueDis'[p] <= 0)
                      /\ Walked(sides, queueDis', p)
                         \/ (queueDis'[p] = INVAILD /\ auiBook'[p] = 0)
    BY <1>1, <1>2 DEF FromStart, SameGraph, Walked
  <2>1. /\ queueDis[p] <= INVAILD /\ (p = 0 => queueDis[p] <= 0)
        /\ Walked(sides, queueDis, p) \/ (queueDis[p] = INVAILD /\ auiBook[p] = 0)
    BY <1>4 DEF FromStart
  <2>2. /\ queueDis'[p] <= queueDis[p] /\ queueDis[p] \in Int /\ queueDis'[p] \in Int
        /\ INVAILD \in Int
    BY <1>3, <1>8 DEF INVAILD
  <2>3. CASE Loose(queueDis, s) /\ p = s.v
    <3>1. queueDis'[p] = queueDis[s.u] + s.w
      BY <1>3, <1>6, <2>3
    <3>2. Walked(sides, queueDis', p)
      <4>1. PICK m, ks : /\ IsWalk(sides, ks, m) /\ From(sides, ks) = 0
                         /\ To(sides, ks) = s.v
                         /\ WeightOf(sides, ks) = queueDis[s.u] + s.w
        BY <1>3, <1>5, WalkedOn DEF s
      <4> QED
        BY <2>3, <3>1, <4>1 DEF Walked
    <3> QED
      BY <2>1, <2>2, <3>2
  <2>4. CASE ~(Loose(queueDis, s) /\ p = s.v)
    <3>1. queueDis'[p] = queueDis[p] /\ auiBook'[p] = auiBook[p]
      BY <1>3, <1>6, <2>4
    <3> QED
      BY <2>1, <3>1 DEF Walked
  <2> QED
    BY <2>3, <2>4
<1>10. PICK R, base : InPass(R, base)
  BY DEF Passes
<1>11. /\ base \in Nat /\ uiHead <= base /\ base <= Len(auiQueue)
       /\ R \in 0..(uiPointCount - 1)
  BY <1>3, <1>10 DEF InPass
<1>12. CASE auiQueue' = Append(auiQueue, s.v) /\ auiBook' = [auiBook EXCEPT ![s.v] = 1]
            /\ Loose(queueDis, s) /\ auiBook[s.v] = 0
  <2>1. /\ Len(auiQueue') = Len(auiQueue) + 1 /\ auiQueue'[Len(auiQueue) + 1] = s.v
        /\ \A x \in 1..Len(auiQueue) : auiQueue'[x] = auiQueue[x]
    BY <1>3, <1>12
  <2>0. PICK L : L = Len(auiQueue)
    OBVIOUS
  <2>2. \A b \in 0..L : Waiting(b)' = Waiting(b)
    <3> SUFFICES ASSUME NEW b \in 0..L PROVE Waiting(b)' = Waiting(b)
      OBVIOUS
    <3>1. \A x \in (uiHead + 1)..b : x \in 1..L
      BY <1>3, <2>0
    <3>2. \A x \in (uiHead + 1)..b : auiQueue'[x] = auiQueue[x]
      BY <2>0, <2>1, <3>1
    <3> QED
      BY <1>1, <3>2 DEF Waiting
  <2>3. Waiting(L + 1)' = Waiting(L) \cup {s.v}
    <3>1. \A x \in (uiHead + 1)..(L + 1) : x \in (uiHead + 1)..L \/ x = L + 1
      BY <1>3, <2>0
    <3>2. \A x \in (uiHead + 1)..L : x \in 1..L /\ x \in (uiHead + 1)..(L + 1)
      BY <1>3, <2>0
    <3>3. L + 1 \in (uiHead + 1)..(L + 1)
      BY <1>3, <2>0
    <3>4. \A x \in (uiHead + 1)..L : auiQueue'[x] = auiQueue[x]
      BY <2>0, <2>1, <3>2
    <3>5. auiQueue'[L + 1] = s.v
      BY <2>0, <2>1
    <3>6. Waiting(L + 1)' = {auiQueue'[x] : x \in (uiHead + 1)..(L + 1)}
      BY <1>1 DEF Waiting
    <3> QED
      BY <3>1, <3>2, <3>3, <3>4, <3>5, <3>6 DEF Waiting
  <2>4. s.v \notin Waiting(L)
    BY <1>3, <1>4, <1>12, <2>0 DEF BookedWait
  <2>5. BookedWait'
    <3>1. \A p \in QueuePoints : auiBook'[p] = 1 <=> p \in Waiting(Len(auiQueue))'
      <4>1. Waiting(Len(auiQueue))' = Waiting(L) \cup {s.v}
        <5>1. Len(auiQueue') = L + 1
          BY <2>0, <2>1
        <5>2. Waiting(Len(auiQueue))' = Waiting(L + 1)'
          BY <5>1 DEF Waiting
        <5> QED
          BY <2>3, <5>2
      <4>2. \A p \in QueuePoints : auiBook'[p] = 1 <=> (auiBook[p] = 1 \/ p = s.v)
        BY <1>3, <1>12
      <4>3. \A p \in QueuePoints : auiBook[p] = 1 <=> p \in Waiting(L)
        BY <1>4, <2>0 DEF BookedWait
      <4> QED
        BY <4>1, <4>2, <4>3
    <3>2. ASSUME NEW x \in (uiHead + 1)..(L + 1), NEW y \in (uiHead + 1)..(L + 1),
                 auiQueue'[x] = auiQueue'[y]
          PROVE  x = y
      <4>1. \A z \in (uiHead + 1)..(L + 1) :
              \/ z = L + 1
              \/ z \in (uiHead + 1)..L /\ z \in 1..L /\ auiQueue'[z] = auiQueue[z]
                 /\ auiQueue[z] \in Waiting(L)
        <5> SUFFICES ASSUME NEW z \in (uiHead + 1)..(L + 1), z # L + 1
                     PROVE  z \in (uiHead + 1)..L /\ z \in 1..L
                            /\ auiQueue'[z] = auiQueue[z] /\ auiQueue[z] \in Waiting(L)
          OBVIOUS
        <5>0. uiHead \in Nat /\ L \in Nat
          BY <1>3, <2>0
        <5>1. z \in (uiHead + 1)..L /\ z \in 1..L
          BY <5>0
        <5> QED
          BY <2>0, <2>1, <5>1 DEF Waiting
      <4>2. auiQueue'[L + 1] = s.v
        BY <2>0, <2>1
      <4>3. CASE x = L + 1 \/ y = L + 1
        BY <2>4, <3>2, <4>1, <4>2, <4>3
      <4>4. CASE ~(x = L + 1 \/ y = L + 1)
        <5>1. /\ x \in (uiHead + 1)..L /\ y \in (uiHead + 1)..L
              /\ auiQueue[x] = auiQueue[y]
          BY <3>2, <4>1, <4>4
        <5> QED
          BY <1>4, <2>0, <5>1 DEF BookedWait
      <4> QED
        BY <4>3, <4>4
    <3>3. Len(auiQueue') = L + 1 /\ uiHead' = uiHead
      BY <1>1, <2>0, <2>1
    <3> QED
      BY <1>2, <3>1, <3>2, <3>3 DEF BookedWait
  <2>6. InPass(R, base)'
    <3>1. R # uiPointCount - 1
      BY <1>3, <1>4, <1>5, <1>10, <1>12, LastPassIsIdle DEF QueueInv, s
    <3>2. uiHead # base
      BY <1>3, <1>10 DEF InPass
    <3>3. Waiting(base)' = Waiting(base) /\ base \in uiHead'..Len(auiQueue')
      BY <1>1, <1>3, <1>11, <2>0, <2>1, <2>2
    <3>4. /\ WithinBut(sides, queueDis', R, {})
          /\ WithinBut(sides, queueDis', R + 1, Waiting(base))
      <4>1. WithinBut(sides, queueDis, R, {}) /\ WithinBut(sides, queueDis, R + 1, Waiting(base))
            /\ R \in Nat /\ R + 1 \in Nat
        BY <1>2, <1>10, <1>11 DEF InPass
      <4> QED
        BY <1>2, <1>3, <1>8, <4>1, WithinFalls
    <3>5. base <= 1 + R * uiPointCount
      BY <1>10 DEF InPass
    <3> QED
      BY <1>1, <1>11, <3>1, <3>2, <3>3, <3>4, <3>5 DEF InPass, SameGraph, WithinBut
  <2> QED
    BY <1>7, <1>9, <2>5, <2>6 DEF Passes
<1>13. CASE UNCHANGED <<auiQueue, auiBook>>
  <2>1. BookedWait'
    BY <1>1, <1>2, <1>4, <1>13 DEF BookedWait, Waiting
  <2>2. InPass(R, base)'
    <3>1. Waiting(base)' = Waiting(base)
      BY <1>1, <1>13 DEF Waiting
    <3>2. /\ WithinBut(sides, queueDis', R, {})
          /\ WithinBut(sides, queueDis', R + 1, Waiting(base))
      <4>1. WithinBut(sides, queueDis, R, {}) /\ WithinBut(sides, queueDis, R + 1, Waiting(base))
            /\ R \in Nat /\ R + 1 \in Nat
        BY <1>2, <1>10, <1>11 DEF InPass
      <4> QED
        BY <1>2, <1>3, <1>8, <4>1, WithinFalls
    <3> QED
      BY <1>1, <1>10, <1>13, <3>1, <3>2 DEF InPass, SameGraph, WithinBut
  <2> QED
    BY <1>7, <1>9, <2>1, <2>2 DEF Passes
<1> QED
  BY <1>6, <1>12, <1>13

\* A walk whose last side is met is not shorter than the distance of its end.
LEMMA WalkOfOneMore ==
  ASSUME TypeOK, QueueTypes, FromStart,
         NEW m \in 0..(uiPointCount - 1), WithinBut(sides, queueDis, m, {}),
         NEW q \in 1..(m + 1), NEW ks, IsWalk(sides, ks, q), From(sides, ks) = 0,
         queueDis[sides[ks[q]].u] < INVAILD => ~Loose(queueDis, sides[ks[q]])
  PROVE  queueDis[To(sides, ks)] <= WeightOf(sides, ks)
<1> DEFINE j == ks[q]
           p == sides[j].u
<1>1. /\ IsGraph(sides, uiPointCount) /\ QueuePoints = PointsOf(uiPointCount)
      /\ 0 \in QueuePoints /\ DOMAIN sides = SideIndices /\ uiPointCount \in Nat
      /\ INVAILD \in Nat /\ INVAILD > 0
  BY QueueGraph DEF INVAILD
<1>2. /\ j \in DOMAIN sides /\ To(sides, ks) = sides[j].v
      /\ q = 1 => From(sides, ks) = p /\ WeightOf(sides, ks) = sides[j].w
      /\ q > 1 => \E pre : /\ IsWalk(sides, pre, q - 1) /\ From(sides, pre) = From(sides, ks)
                           /\ To(sides, pre) = p
                           /\ WeightOf(sides, ks) = WeightOf(sides, pre) + sides[j].w
  BY <1>1, WalkLast
<1>3. /\ p \in QueuePoints /\ sides[j].v \in QueuePoints /\ sides[j].w \in Int
      /\ queueDis[p] \in Int /\ queueDis[sides[j].v] \in Int
  BY <1>1, <1>2 DEF QueueTypes
<1>4. queueDis[p] < INVAILD => queueDis[sides[j].v] <= queueDis[p] + sides[j].w
  BY <1>3 DEF Loose
<1>5. p = 0 => queueDis[p] <= 0
  BY <1>1 DEF FromStart
<1> HIDE DEF p, j
<1>6. CASE q = 1
  BY <1>1, <1>2, <1>3, <1>4, <1>5, <1>6
<1>7. CASE q # 1
  <2>1. q > 1 /\ q - 1 \in 1..m /\ q - 1 <= uiPointCount - 1
    BY <1>1, <1>7
  <2>2. PICK pre : /\ IsWalk(sides, pre, q - 1) /\ From(sides, pre) = From(sides, ks)
                   /\ To(sides, pre) = p
                   /\ WeightOf(sides, ks) = WeightOf(sides, pre) + sides[j].w
    BY <1>2, <2>1
  <2>3. queueDis[p] <= WeightOf(sides, pre)
    <3>1. queueDis[To(sides, pre)] <= WeightOf(sides, pre)
      BY <2>1, <2>2 DEF WithinBut
    <3> QED
      BY <2>2, <3>1
  <2>4. WeightOf(sides, pre) \in Int
    BY <1>1, <2>2, WalkIs
  <2>5. WeightOf(sides, pre) < INVAILD \/ p = 0
    <3>1. sides[j].u = To(sides, pre)
      BY <2>2 DEF p
    <3> QED
      BY <1>2, <2>1, <2>2, <3>1, GoesOnBelow
  <2>6. queueDis[p] < INVAILD
    BY <1>1, <1>3, <1>5, <2>3, <2>4, <2>5
  <2> QED
    BY <1>2, <1>3, <1>4, <2>2, <2>3, <2>4, <2>6
<1> QED
  BY <1>6, <1>7

LEMMA PassLeave ==
  ASSUME TypeOK, QueueInv, NoFall(sides, uiPointCount, 0), Passes, Queue!Leave
  PROVE  Passes'
<1>0. PICK h, L : h = Queue!AtHead /\ L = Len(auiQueue)
  OBVIOUS
<1>1. /\ SameGraph /\ UNCHANGED <<queueDis, auiQueue, queueK>>
      /\ queuePhase = "sides" /\ queuePhase' = "head" /\ queueK = -1
      /\ auiBook' = [auiBook EXCEPT ![h] = 0]
      /\ uiHead' = uiHead + 1
  BY <1>0 DEF Queue!Leave, Queue!graph, SameGraph, Queue!NoSide
<1>2. /\ IsGraph(sides, uiPointCount) /\ QueuePoints = PointsOf(uiPointCount)
      /\ QueuePoints' = QueuePoints /\ SideIndices' = SideIndices
      /\ uiPointCount \in Nat \ {0} /\ DOMAIN sides = SideIndices
      /\ Queue!INVAILD = INVAILD
      /\ \A dis, s : Queue!Loose(dis, s) = Loose(dis, s)
  BY <1>1, QueueGraph, GraphStays
<1>3. /\ uiHead \in Nat /\ L \in Nat /\ uiHead < L /\ h = auiQueue[uiHead + 1]
      /\ \A x \in 1..L : auiQueue[x] \in QueuePoints
      /\ auiBook \in [QueuePoints -> {0, 1}] /\ QueueTypes
  BY <1>0, <1>1, QueueShape DEF QueueInv, QueueTypes, AtItsSides, Queue!AtHead
<1>4. Settled /\ FromStart /\ BookedWait /\ Settled' /\ QueueInv'
  BY LeaveInv DEF Passes
<1>5. h \in QueuePoints /\ Walked(sides, queueDis, h)
  BY <1>0, <1>1, <1>4, HeadIsWalked
<1>6. FromStart'
  <2> SUFFICES ASSUME NEW p \in QueuePoints
               PROVE  /\ queueDis[p] <= INVAILD /\ (p = 0 => queueDis[p] <= 0)
                      /\ Walked(sides, queueDis, p)
                         \/ (queueDis[p] = INVAILD /\ auiBook'[p] = 0)
    BY <1>1, <1>2 DEF FromStart, SameGraph, Walked
  <2>1. auiBook[p] = 0 => auiBook'[p] = 0
    BY <1>1, <1>3
  <2> QED
    BY <1>4, <2>1 DEF FromStart
<1>7. ASSUME NEW b \in (uiHead + 1)..L
      PROVE  Waiting(b)' = {auiQueue[x] : x \in ((uiHead + 1) + 1)..b}
             /\ Waiting(b) = Waiting(b)' \cup {h}
  <2>1. Waiting(b)' = {auiQueue[x] : x \in ((uiHead + 1) + 1)..b}
    BY <1>1 DEF Waiting
  <2>2. (uiHead + 1)..b = ((uiHead + 1) + 1)..b \cup {uiHead + 1}
    BY <1>3
  <2> QED
    BY <1>3, <2>1, <2>2 DEF Waiting
<1>8. /\ h \notin Waiting(L)'
      /\ \A x, y \in ((uiHead + 1) + 1)..L : auiQueue[x] = auiQueue[y] => x = y
  <2>1. L \in (uiHead + 1)..L /\ uiHead + 1 \in (uiHead + 1)..L
    BY <1>3
  <2>2. \A x \in ((uiHead + 1) + 1)..L : x \in (uiHead + 1)..L /\ x # uiHead + 1
    BY <1>3
  <2>3. \A x, y \in (uiHead + 1)..L : auiQueue[x] = auiQueue[y] => x = y
    BY <1>0, <1>4 DEF BookedWait
  <2>4. Waiting(L)' = {auiQueue[x] : x \in ((uiHead + 1) + 1)..L}
    BY <1>7, <2>1
  <2> QED
    BY <1>3, <2>1, <2>2, <2>3, <2>4
<1>9. /\ BookedWait'
      /\ \A p \in QueuePoints : p \notin Waiting(L)' => auiBook'[p] = 0
  <2>1. L \in (uiHead + 1)..L
    BY <1>3
  <2>2. \A p \in QueuePoints : auiBook'[p] = 1 <=> (auiBook[p] = 1 /\ p # h)
    BY <1>1, <1>3
  <2>3. \A p \in QueuePoints : auiBook[p] = 1 <=> p \in Waiting(L)
    BY <1>0, <1>4 DEF BookedWait
  <2>4. \A p \in QueuePoints : auiBook'[p] = 1 <=> p \in Waiting(L)'
    <3>1. Waiting(L) = Waiting(L)' \cup {h}
      BY <1>7, <2>1
    <3> QED
      BY <1>8, <2>2, <2>3, <3>1
  <2>5. Waiting(Len(auiQueue))' = Waiting(L)'
    BY <1>0, <1>1 DEF Waiting
  <2>6. \A p \in QueuePoints : auiBook'[p] \in {0, 1}
    BY <1>1, <1>3
  <2> QED
    BY <1>0, <1>1, <1>2, <1>8, <2>4, <2>5, <2>6 DEF BookedWait
<1>10. PICK R, base : InPass(R, base)
  BY DEF Passes
<1>11. /\ base \in Nat /\ uiHead <= base /\ base <= L /\ uiHead # base
       /\ R \in Nat /\ R <= uiPointCount - 1
       /\ base \in (uiHead + 1)..L /\ base <= 1 + R * uiPointCount
       /\ R = uiPointCount - 1 => L = base
       /\ R \in 0..(uiPointCount - 1)
  BY <1>0, <1>2, <1>3, <1>10 DEF InPass
<1>12. WithinBut(sides, queueDis, R, {}) /\ WithinBut(sides, queueDis, R + 1, Waiting(base))
  BY <1>10 DEF InPass
<1>13. WithinBut(sides, queueDis, R + 1, Waiting(base)')
  <2> SUFFICES ASSUME NEW q \in 1..(R + 1), NEW ks, IsWalk(sides, ks, q), From(sides, ks) = 0,
                      sides[ks[q]].u \notin Waiting(base)'
               PROVE  queueDis[To(sides, ks)] <= WeightOf(sides, ks)
    BY DEF WithinBut
  <2>1. CASE sides[ks[q]].u \notin Waiting(base)
    BY <1>12, <2>1 DEF WithinBut
  <2>2. CASE sides[ks[q]].u \in Waiting(base)
    <3>1. sides[ks[q]].u = h
      BY <1>7, <1>11, <2>2
    <3>2. ks[q] \in DOMAIN sides
      BY <1>2, WalkLast
    <3>3. ks[q] > queueK
      BY <1>1, <1>2, <3>2 DEF SideIndices
    <3>4. queueDis[sides[ks[q]].u] < INVAILD => ~Loose(queueDis, sides[ks[q]])
      BY <1>0, <1>1, <1>2, <1>4, <3>1, <3>2, <3>3 DEF Settled, Queue!Passed
    <3> QED
      BY <1>3, <1>4, <1>11, <1>12, <3>4, WalkOfOneMore
  <2> QED
    BY <2>1, <2>2
<1>14. CASE uiHead + 1 # base \/ L = base
  <2>1. InPass(R, base)'
    BY <1>0, <1>1, <1>3, <1>11, <1>12, <1>13, <1>14 DEF InPass, SameGraph, WithinBut
  <2> QED
    BY <1>4, <1>6, <1>9, <2>1 DEF Passes
<1>15. CASE uiHead + 1 = base /\ L # base
  <2>1. R # uiPointCount - 1 /\ R + 1 \in 0..(uiPointCount - 1)
    BY <1>2, <1>11, <1>15
  <2>2. L <= 1 + (R + 1) * uiPointCount
    <3>1. IsFiniteSet(QueuePoints) /\ Cardinality(QueuePoints) = uiPointCount
      BY <1>2, FS_Interval DEF PointsOf
    <3>2. \A x \in (base + 1)..L : auiQueue[x] \in QueuePoints
      <4>1. \A x \in (base + 1)..L : x \in 1..L
        BY <1>11
      <4> QED
        BY <1>3, <4>1
    <3>3. L - base <= uiPointCount
      <4>1. base \in uiHead..Len(auiQueue)
        BY <1>10 DEF InPass
      <4> QED
        BY <1>0, <1>3, <1>4, <3>1, <3>2, <4>1, FewPlaces
    <3>4. (R + 1) * uiPointCount = R * uiPointCount + uiPointCount /\ R * uiPointCount \in Int
      BY <1>2, <1>11
    <3> QED
      BY <1>2, <1>3, <1>11, <3>3, <3>4
  <2>3. WithinBut(sides, queueDis, R + 1, {})
    <3>1. Waiting(base)' = {}
      <4>1. ((uiHead + 1) + 1)..base = {}
        BY <1>3, <1>15
      <4> QED
        BY <1>7, <1>11, <4>1
    <3> QED
      BY <1>13, <3>1
  <2>4. WithinBut(sides, queueDis, (R + 1) + 1, Waiting(L)')
    <3> SUFFICES ASSUME NEW q \in 1..((R + 1) + 1), NEW ks, IsWalk(sides, ks, q),
                        From(sides, ks) = 0, sides[ks[q]].u \notin Waiting(L)'
                 PROVE  queueDis[To(sides, ks)] <= WeightOf(sides, ks)
      BY DEF WithinBut
    <3>1. ks[q] \in DOMAIN sides
      BY <1>2, WalkLast
    <3>2. sides[ks[q]].u \in QueuePoints
      BY <1>2, <1>3, <3>1 DEF QueueTypes
    <3>3. auiBook'[sides[ks[q]].u] = 0
      BY <1>9, <3>2
    <3>4. queueDis[sides[ks[q]].u] < INVAILD => ~Loose(queueDis, sides[ks[q]])
      BY <1>1, <1>2, <1>4, <3>1, <3>3 DEF Settled, Queue!Passed, SameGraph
    <3> QED
      BY <1>3, <1>4, <2>1, <2>3, <3>4, WalkOfOneMore
  <2>5. InPass(R + 1, L)'
    <3>1. L \in uiHead'..Len(auiQueue') /\ Len(auiQueue') = L
      BY <1>0, <1>1, <1>3
    <3> QED
      BY <1>1, <2>1, <2>2, <2>3, <2>4, <3>1 DEF InPass, SameGraph, WithinBut
  <2> QED
    BY <1>4, <1>6, <1>9, <2>5 DEF Passes
<1> QED
  BY <1>14, <1>15

LEMMA PassInvStep ==
  ASSUME TypeOK, QueueInv, PassInv, Queue!Next
  PROVE  PassInv'
<1>1. SameGraph
  BY QueueInvStep
<1>7. queuePhase' = "done" => uiHead' = Len(auiQueue')
  BY DEF PassInv, Queue!Next, Queue!Visit, Queue!RelaxSide, Queue!Overrun, Queue!Leave,
         Queue!Return, Queue!Over, Queue!vars
<1> SUFFICES ASSUME NoFall(sides, uiPointCount, 0) PROVE queuePhase' # "overrun" /\ Passes'
  BY <1>1, <1>7 DEF PassInv, SameGraph
<1>2. Passes /\ queuePhase # "overrun"
  BY DEF PassInv
<1>3. CASE Queue!RelaxSide
  BY <1>2, <1>3, PassRelax DEF Queue!RelaxSide
<1>4. CASE Queue!Overrun
  BY <1>2, <1>4, NoOverrun
<1>5. CASE Queue!Leave
  BY <1>2, <1>5, PassLeave DEF Queue!Leave
<1>6. CASE Queue!Visit \/ Queue!Return \/ Queue!Over
  <2>1. /\ UNCHANGED <<queueDis, auiBook, auiQueue, uiHead>> /\ queuePhase' # "overrun"
        /\ Queue!Visit \/ (queueK' = queueK /\ (queuePhase' = queuePhase
                             \/ (queuePhase = "head" /\ queuePhase' = "done")))
    BY <1>2, <1>6 DEF Queue!Visit, Queue!Return, Queue!Over, Queue!vars
  <2>2. Settled'
    BY <1>1, <1>2, <2>1, VisitInv, QueueInvStays DEF Passes
  <2>3. FromStart' /\ BookedWait'
    BY <1>1, <1>2, <2>1, GraphStays DEF Passes, FromStart, BookedWait, Waiting, SameGraph, Walked
  <2>4. \A R, base : InPass(R, base) => InPass(R, base)'
    BY <1>1, <2>1 DEF InPass, Waiting, SameGraph, WithinBut
  <2> QED
    BY <1>2, <2>1, <2>2, <2>3, <2>4 DEF Passes
<1> QED
  BY <1>3, <1>4, <1>5, <1>6 DEF Queue!Next

LEMMA PassInvStays ==
  ASSUME PassInv, SameGraph, UNCHANGED queueVars
  PROVE  PassInv'
<1> SUFFICES ASSUME NoFall(sides, uiPointCount, 0) PROVE queuePhase' # "overrun" /\ Passes'
  BY DEF PassInv, SameGraph, queueVars
<1>1. UNCHANGED <<queueDis, auiBook, auiQueue, uiHead, queueK, queuePhase>>
  BY DEF queueVars
<1>2. Passes /\ queuePhase # "overrun"
  BY DEF PassInv
<1>3. Settled'
  BY <1>1, <1>2, GraphStays
     DEF Passes, Settled, Queue!Passed, Queue!AtHead, Queue!Loose, SameGraph
<1>4. FromStart' /\ BookedWait'
  BY <1>1, <1>2, GraphStays DEF Passes, FromStart, BookedWait, Waiting, SameGraph, Walked
<1>5. \A R, base : InPass(R, base) => InPass(R, base)'
  BY <1>1 DEF InPass, Waiting, SameGraph, WithinBut
<1> QED
  BY <1>1, <1>2, <1>3, <1>4, <1>5 DEF Passes

LEMMA QueueSufficesHolds ==
  ASSUME TypeOK, PassInv
  PROVE  QueueSuffices
<1> SUFFICES ASSUME ~NoFall(sides, uiPointCount, 0)
             PROVE  \E ks \in NegativeCycles(sides, uiPointCount) :
                       Reachable(sides, uiPointCount, From(sides, ks))
  BY DEF QueueSuffices, PassInv
<1> QED
  BY DEF NoFall, Reachable

\* What INVAILD is for: where no walk that is needed weighs half as much, it is
\* taken for no distance (algorithm.h:9).
WeightsFarBelow ==
  \A w \in Weights : LET all == (MaxPoints - 1) * w
                     IN  2 * all <= INVAILD /\ -INVAILD <= 2 * all

LEMMA WalkIsLight ==
  ASSUME WeightsFarBelow, TypeOK, NEW ks, NEW q, IsWalk(sides, ks, q), q <= uiPointCount - 1
  PROVE  /\ 2 * WeightOf(sides, ks) <= INVAILD /\ -INVAILD <= 2 * WeightOf(sides, ks)
         /\ WeightOf(sides, ks) \in Int
<1> DEFINE f == Row(sides, ks)
           N == MaxPoints - 1
<1>1. /\ IsGraph(sides, uiPointCount) /\ DOMAIN sides = 0..(uiSideCount - 1)
      /\ q \in Nat \ {0} /\ q <= N /\ N \in Nat
      /\ INVAILD \in Nat
  BY QueueGraph DEF IsWalk, INVAILD, SideIndices
<1>2. /\ WeightOf(sides, ks) = SumOver(f, 1..q) /\ WeightOf(sides, ks) \in Int
      /\ \A x \in 1..q : f[x] = sides[ks[x]].w /\ f[x] \in Int /\ ks[x] \in DOMAIN sides
  <2>1. /\ WeightOf(sides, ks) = SumOver(Row(sides, ks), 1..q)
        /\ WeightOf(sides, ks) \in Int
        /\ \A x \in 1..q : Row(sides, ks)[x] = sides[ks[x]].w /\ Row(sides, ks)[x] \in Int
        /\ \A x \in 1..q : ks[x] \in DOMAIN sides
    BY <1>1, WalkIs
  <2> QED
    BY <2>1
<1>3. \A x \in 1..q : f[x] \in Weights
  <2> SUFFICES ASSUME NEW x \in 1..q PROVE sides[ks[x]].w \in Weights
    BY <1>2
  <2>1. sides[ks[x]] \in Side(uiPointCount)
    BY <1>1, <1>2 DEF TypeOK
  <2> QED
    BY <2>1 DEF Side
<1>4. \A x \in 1..q : 2 * (N * f[x]) <= INVAILD /\ -INVAILD <= 2 * (N * f[x])
  BY <1>3 DEF WeightsFarBelow
<1> HIDE DEF f, N
<1>5. 2 * SumOver(f, 1..q) <= INVAILD
  <2>1. PICK z \in 1..q : \A x \in 1..q : f[x] <= f[z]
    BY <1>1, <1>2, GreatestOfRow
  <2> DEFINE B == f[z]
  <2>2. B \in Int /\ 2 * (N * B) <= INVAILD /\ \A x \in 1..q : f[x] \in Int /\ f[x] <= B
    BY <1>2, <1>4, <2>1
  <2> HIDE DEF B
  <2>3. SumOver(f, 1..q) <= q * B /\ SumOver(f, 1..q) \in Int
    BY <1>1, <1>2, <2>2, SumOverAtMost
  <2>4. q * B \in Int /\ N * B \in Int /\ (B > 0 => q * B <= N * B) /\ (B <= 0 => q * B <= 0)
    BY <1>1, <2>2
  <2>5. PICK least, most : least = q * B /\ most = N * B
    OBVIOUS
  <2>6. /\ least \in Int /\ most \in Int /\ B \in Int /\ 2 * most <= INVAILD
        /\ (B > 0 => least <= most) /\ (B <= 0 => least <= 0)
        /\ SumOver(f, 1..q) <= least /\ SumOver(f, 1..q) \in Int
    BY <2>2, <2>3, <2>4, <2>5
  <2>7. INVAILD \in Nat
    BY <1>1
  <2> QED
    BY <2>6, <2>7
<1>6. -INVAILD <= 2 * SumOver(f, 1..q)
  <2> DEFINE g == [x \in 1..q |-> -f[x]]
  <2>1. \A x \in 1..q : g[x] = -f[x] /\ g[x] \in Int
    BY <1>2
  <2> HIDE DEF g
  <2>2. PICK z \in 1..q : \A x \in 1..q : g[x] <= g[z]
    BY <1>1, <2>1, GreatestOfRow
  <2> DEFINE B == f[z]
  <2>3. B \in Int /\ -INVAILD <= 2 * (N * B) /\ \A x \in 1..q : f[x] \in Int /\ f[x] >= B
    <3>1. B \in Int /\ -INVAILD <= 2 * (N * B)
      BY <1>2, <1>4
    <3>2. ASSUME NEW x \in 1..q PROVE f[x] \in Int /\ f[x] >= B
      <4>1. g[x] <= g[z] /\ g[x] = -f[x] /\ g[z] = -f[z] /\ f[x] \in Int /\ f[z] \in Int
        BY <1>2, <2>1, <2>2
      <4> QED
        BY <4>1
    <3> QED
      BY <3>1, <3>2
  <2> HIDE DEF B
  <2>4. q * B <= SumOver(f, 1..q) /\ SumOver(f, 1..q) \in Int
    BY <1>1, <1>2, <2>3, SumOverAtLeast
  <2>5. q * B \in Int /\ N * B \in Int /\ (B < 0 => N * B <= q * B) /\ (B >= 0 => q * B >= 0)
    BY <1>1, <2>3
  <2>6. PICK least, most : least = N * B /\ most = q * B
    OBVIOUS
  <2>7. /\ least \in Int /\ most \in Int /\ B \in Int /\ -INVAILD <= 2 * least
        /\ (B < 0 => least <= most) /\ (B >= 0 => most >= 0)
        /\ most <= SumOver(f, 1..q) /\ SumOver(f, 1..q) \in Int
    BY <2>3, <2>4, <2>5, <2>6
  <2>8. INVAILD \in Nat
    BY <1>1
  <2> QED
    BY <2>7, <2>8
<1> QED
  BY <1>2, <1>5, <1>6

\* A queue that ran empty leaves no walk from point 0 that is shorter.
LEMMA EmptyQueueIsWithin ==
  ASSUME WeightsFarBelow, TypeOK, QueueTypes, Settled, FromStart, BookedWait,
         uiHead = Len(auiQueue),
         NEW ks, NEW q, IsWalk(sides, ks, q), q <= uiPointCount - 1, From(sides, ks) = 0
  PROVE  queueDis[To(sides, ks)] <= WeightOf(sides, ks)
<1>1. /\ IsGraph(sides, uiPointCount) /\ QueuePoints = PointsOf(uiPointCount)
      /\ 0 \in QueuePoints /\ DOMAIN sides = SideIndices /\ INVAILD \in Nat /\ INVAILD > 0
      /\ Queue!INVAILD = INVAILD /\ \A dis, s : Queue!Loose(dis, s) = Loose(dis, s)
  BY QueueGraph DEF INVAILD
<1>2. /\ \A x \in SideIndices : sides[x].u \in QueuePoints
      /\ queueDis \in [QueuePoints -> Int] /\ auiBook \in [QueuePoints -> {0, 1}]
      /\ uiHead \in Nat
  BY DEF QueueTypes
<1>3. \A p \in QueuePoints : auiBook[p] = 0
  <2>1. (uiHead + 1)..uiHead = {}
    BY <1>2
  <2>2. Waiting(Len(auiQueue)) = {}
    BY <2>1 DEF Waiting
  <2> QED
    BY <1>2, <2>2 DEF BookedWait
<1>4. \A j \in DOMAIN sides : queueDis[sides[j].u] < INVAILD => ~Loose(queueDis, sides[j])
  BY <1>1, <1>2, <1>3 DEF Settled, Queue!Passed
<1>5. \A x \in 1..q : ks[x] \in DOMAIN sides
  BY <1>1, WalkIs
<1>6. q \in Nat \ {0}
  BY DEF IsWalk
<1>7. ASSUME NEW x \in 1..q, queueDis[sides[ks[x]].u] <= 0 + SumOver(Row(sides, ks), 1..(x - 1))
      PROVE  ~Loose(queueDis, sides[ks[x]])
  <2>1. SumOver(Row(sides, ks), 1..(x - 1)) \in Int
        /\ SumOver(Row(sides, ks), 1..(x - 1)) < INVAILD
    <3>1. CASE x = 1
      <4>1. 1..(x - 1) = {}
        BY <3>1
      <4>2. SumOver(Row(sides, ks), 1..(x - 1)) = 0
        BY <4>1, SumOverEmpty
      <4> QED
        BY <1>1, <4>2
    <3>2. CASE x # 1
      <4>1. x - 1 \in 1..q /\ x - 1 <= uiPointCount - 1
        BY <1>1, <1>6, <3>2 DEF IsGraph
      <4>2. PICK pre : /\ IsWalk(sides, pre, x - 1) /\ From(sides, pre) = From(sides, ks)
                       /\ To(sides, pre) = At(sides, ks, x - 1)
                       /\ WeightOf(sides, pre) = SumOver(Row(sides, ks), 1..(x - 1))
        <5> DEFINE y == x - 1
        <5>1. y \in 1..q /\ IsGraph(sides, uiPointCount)
          BY <1>1, <4>1
        <5> HIDE DEF y
        <5> DEFINE pre == [z \in 1..y |-> ks[z]]
        <5>2. /\ IsWalk(sides, pre, y) /\ From(sides, pre) = From(sides, ks)
              /\ To(sides, pre) = At(sides, ks, y)
              /\ WeightOf(sides, pre) = SumOver(Row(sides, ks), 1..y)
          BY <5>1, WalkPrefix
        <5> HIDE DEF pre
        <5> QED
          BY <5>2 DEF y
      <4>3. 2 * WeightOf(sides, pre) <= INVAILD /\ WeightOf(sides, pre) \in Int
        BY <4>1, <4>2, WalkIsLight
      <4> QED
        BY <1>1, <4>2, <4>3
    <3> QED
      BY <3>1, <3>2
  <2>2. sides[ks[x]].u \in QueuePoints
    BY <1>1, <1>2, <1>5
  <2>3. queueDis[sides[ks[x]].u] < INVAILD
    BY <1>1, <1>2, <1>7, <2>1, <2>2
  <2> QED
    BY <1>4, <1>5, <2>3
<1>8. queueDis[From(sides, ks)] <= 0
  BY <1>1 DEF FromStart
<1> DEFINE c == 0
<1>9. queueDis[To(sides, ks)] <= c + WeightOf(sides, ks)
  <2>1. /\ c \in Int /\ queueDis[From(sides, ks)] <= c
        /\ \A x \in 1..q : queueDis[sides[ks[x]].u] <= c + SumOver(Row(sides, ks), 1..(x - 1))
                             => ~Loose(queueDis, sides[ks[x]])
    BY <1>7, <1>8
  <2> HIDE DEF c
  <2> QED
    BY <1>1, <1>2, <2>1, AlongWalk
<1>10. WeightOf(sides, ks) \in Int
  BY <1>1, WalkIs
<1> QED
  BY <1>9, <1>10

LEMMA VariantsAgreeHolds ==
  ASSUME WeightsFarBelow, DisInv, WalkInv, QueueInv, PassInv
  PROVE  VariantsAgree
<1> DEFINE n == uiPointCount
<1> SUFFICES ASSUME phase = "done", uiFlag = 0, queuePhase \in {"done", "overrun"}
             PROVE  /\ queuePhase = "done"
                    /\ \A p \in Points :
                          queueDis[p] = IF Reachable(sides, n, p) THEN aiDis[p] ELSE INVAILD
  BY DEF VariantsAgree
<1>1. /\ TypeOK /\ IsGraph(sides, n) /\ n \in Nat \ {0} /\ n - 1 \in Nat
      /\ QueuePoints = PointsOf(n) /\ Points = PointsOf(n) /\ 0 \in PointsOf(n)
      /\ aiDis \in [PointsOf(n) -> Int] /\ queueDis \in [PointsOf(n) -> Int]
      /\ DOMAIN sides = 0..(uiSideCount - 1) /\ i = uiSideCount /\ INVAILD \in Nat
  BY SidesAreGraph, QueueGraph
     DEF DisInv, QueueInv, QueueTypes, PassedTight, INVAILD
<1>2. NegativeCycles(sides, n) = {}
  BY CycleReportedHolds DEF CycleReported
<1>3. NoFall(sides, n, 0)
  BY <1>2 DEF NoFall
<1>4. /\ queuePhase = "done" /\ uiHead = Len(auiQueue)
      /\ Settled /\ FromStart /\ BookedWait /\ QueueTypes
  BY <1>3 DEF PassInv, Passes, QueueInv
<1>5. Tight(sides, aiDis)
  BY <1>1 DEF DisInv, PassedTight, Tight
<1>6. \A p \in PointsOf(n) : /\ aiDis[p] <= FirstDis(n)[p] /\ FirstDis(n)[p] \in Int
                             /\ FirstDis(n)[p] = IF p = 0 THEN 0 ELSE INVAILD
                             /\ aiDis[p] \in Int /\ queueDis[p] \in Int
  BY <1>1, FirstDisType DEF DisInv, OnlyFallen, FirstDis
<1>7. ASSUME NEW m, NEW ks, IsWalk(sides, ks, m)
      PROVE  /\ From(sides, ks) \in PointsOf(n) /\ To(sides, ks) \in PointsOf(n)
             /\ WeightOf(sides, ks) \in Int
             /\ \/ To(sides, ks) = From(sides, ks) /\ WeightOf(sides, ks) >= 0
                \/ \E l \in WalksOf(sides, n - 1) :
                      /\ From(sides, l) = From(sides, ks) /\ To(sides, l) = To(sides, ks)
                      /\ WeightOf(sides, l) <= WeightOf(sides, ks)
  <2>1. NoFall(sides, n, From(sides, ks))
    BY <1>2 DEF NoFall
  <2>2. Shortened(sides, n, ks)
    BY <1>1, <1>7, <2>1, WalkShortens
  <2> QED
    BY <1>1, <1>7, <2>2, CostType DEF Shortened
<1>8. ASSUME NEW l \in WalksOf(sides, n - 1)
      PROVE  /\ \E q \in 1..(n - 1) : IsWalk(sides, l, q)
             /\ 2 * WeightOf(sides, l) <= INVAILD /\ -INVAILD <= 2 * WeightOf(sides, l)
             /\ WeightOf(sides, l) \in Int /\ To(sides, l) \in PointsOf(n)
             /\ From(sides, l) = 0 => queueDis[To(sides, l)] <= WeightOf(sides, l)
  <2>1. PICK q \in 1..(n - 1) : IsWalk(sides, l, q)
    BY <1>1, WalksOfIs
  <2>2. q <= n - 1
    BY <1>1
  <2> QED
    BY <1>1, <1>4, <1>7, <2>1, <2>2, WalkIsLight, EmptyQueueIsWithin
<1>9. ASSUME NEW p \in PointsOf(n) PROVE aiDis[p] <= queueDis[p]
  <2>1. CASE p = 0 /\ queueDis[p] = 0
    BY <1>6, <2>1
  <2>2. CASE queueDis[p] = INVAILD
    <3>1. FirstDis(n)[p] <= INVAILD
      BY <1>1, <1>6
    <3> QED
      BY <1>1, <1>6, <2>2, <3>1
  <2>3. ASSUME NEW m, NEW ks, IsWalk(sides, ks, m), From(sides, ks) = 0, To(sides, ks) = p,
               queueDis[p] = WeightOf(sides, ks)
        PROVE  aiDis[p] <= queueDis[p]
    <3>1. aiDis[p] <= aiDis[0] + WeightOf(sides, ks)
      BY <1>1, <1>5, <2>3, TightWalk DEF Tight
    <3>2. aiDis[0] <= 0 /\ aiDis[0] \in Int
      BY <1>1, <1>6
    <3> QED
      BY <1>6, <2>3, <3>1, <3>2
  <2> QED
    BY <1>1, <1>4, <2>1, <2>2, <2>3 DEF FromStart, Walked
<1>10. ASSUME NEW p \in PointsOf(n)
       PROVE  queueDis[p] <= INVAILD /\ (p = 0 => queueDis[p] <= 0)
  BY <1>1, <1>4 DEF FromStart
<1>11. ASSUME NEW p \in PointsOf(n), Reachable(sides, n, p) PROVE queueDis[p] <= aiDis[p]
  <2>1. 2 * queueDis[p] <= INVAILD
    <3>1. CASE p = 0
      <4>1. queueDis[p] <= 0
        BY <1>10, <3>1
      <4> QED
        BY <1>1, <1>6, <4>1
    <3>2. ASSUME NEW l \in WalksOf(sides, n - 1), From(sides, l) = 0, To(sides, l) = p
          PROVE  2 * queueDis[p] <= INVAILD
      <4>1. /\ queueDis[p] <= WeightOf(sides, l) /\ 2 * WeightOf(sides, l) <= INVAILD
            /\ WeightOf(sides, l) \in Int
        BY <1>8, <3>2
      <4> QED
        BY <1>1, <1>6, <4>1
    <3> QED
      BY <1>11, <3>1, <3>2 DEF Reachable
  <2>2. CASE aiDis[p] = FirstDis(n)[p]
    <3>1. aiDis[p] = IF p = 0 THEN 0 ELSE INVAILD
      BY <1>6, <2>2
    <3> QED
      BY <1>10, <3>1
  <2>3. ASSUME NEW m, NEW ks, IsWalk(sides, ks, m), To(sides, ks) = p,
               aiDis[p] = Cost(sides, n, ks)
        PROVE  queueDis[p] <= aiDis[p]
    <3>1. /\ From(sides, ks) \in PointsOf(n) /\ WeightOf(sides, ks) \in Int
          /\ FirstDis(n)[From(sides, ks)] = IF From(sides, ks) = 0 THEN 0 ELSE INVAILD
      BY <1>6, <1>7, <2>3
    <3>2. CASE To(sides, ks) = From(sides, ks) /\ WeightOf(sides, ks) >= 0
      <4>1. p = 0 => aiDis[p] = WeightOf(sides, ks)
        <5> SUFFICES ASSUME p = 0 PROVE aiDis[p] = WeightOf(sides, ks)
          OBVIOUS
        <5>1. FirstDis(n)[From(sides, ks)] = 0
          BY <2>3, <3>1, <3>2
        <5> QED
          BY <2>3, <3>1, <5>1 DEF Cost
      <4>2. p # 0 => aiDis[p] = INVAILD + WeightOf(sides, ks)
        BY <2>3, <3>1, <3>2 DEF Cost
      <4>3. queueDis[p] <= INVAILD /\ (p = 0 => queueDis[p] <= 0)
        BY <1>10
      <4> QED
        BY <1>1, <1>6, <3>1, <3>2, <4>1, <4>2, <4>3
    <3>3. ASSUME NEW l \in WalksOf(sides, n - 1), From(sides, l) = From(sides, ks),
                 To(sides, l) = To(sides, ks), WeightOf(sides, l) <= WeightOf(sides, ks)
          PROVE  queueDis[p] <= aiDis[p]
      <4>1. /\ WeightOf(sides, l) \in Int /\ -INVAILD <= 2 * WeightOf(sides, l)
            /\ From(sides, l) = 0 => queueDis[p] <= WeightOf(sides, l)
        BY <1>8, <2>3, <3>3
      <4>2. CASE From(sides, ks) = 0
        <5>1. aiDis[p] = WeightOf(sides, ks)
          BY <2>3, <3>1, <4>2 DEF Cost
        <5> QED
          BY <1>6, <3>1, <3>3, <4>1, <4>2, <5>1
      <4>3. CASE From(sides, ks) # 0
        <5>1. aiDis[p] = INVAILD + WeightOf(sides, ks)
          BY <2>3, <3>1, <4>3 DEF Cost
        <5> QED
          BY <1>1, <1>6, <2>1, <3>1, <3>3, <4>1, <5>1
      <4> QED
        BY <4>2, <4>3
    <3> QED
      BY <1>7, <2>3, <3>2, <3>3
  <2> QED
    BY <1>1, <2>2, <2>3 DEF WalkInv, Attained
<1>12. ASSUME NEW p \in PointsOf(n), ~Reachable(sides, n, p) PROVE queueDis[p] = INVAILD
  <2>1. p # 0 /\ \A l \in WalksOf(sides, n - 1) : From(sides, l) = 0 => To(sides, l) # p
    BY <1>12 DEF Reachable
  <2>2. \A m : \A ks : ~(IsWalk(sides, ks, m) /\ From(sides, ks) = 0 /\ To(sides, ks) = p)
    <3> SUFFICES ASSUME NEW m, NEW ks, IsWalk(sides, ks, m), From(sides, ks) = 0,
                        To(sides, ks) = p
                 PROVE  FALSE
      OBVIOUS
    <3> QED
      BY <1>7, <2>1
  <2> QED
    BY <1>1, <1>4, <2>1, <2>2 DEF FromStart, Walked
<1> QED
  BY <1>1, <1>4, <1>6, <1>9, <1>11, <1>12

-----------------------------------------------------------------------------
(* The shortest paths on a map.                                             *)

MapPoints == Map!Points

MapTypes ==
  /\ mapPointCount \in Nat \ {0}
  /\ map \in [MapPoints -> [MapPoints -> Nat]]
  /\ auiDis \in [MapPoints -> Nat]
  /\ mapBook \in [MapPoints -> {0, 1}]
  /\ u \in MapPoints /\ v \in Nat

\* The point booked last is the farthest of the booked ones, and no other point
\* is nearer.
BookedAreNearest ==
  /\ mapBook[u] = 1
  /\ \A p \in MapPoints : IF mapBook[p] = 1 THEN auiDis[p] <= auiDis[u]
                                            ELSE auiDis[u] <= auiDis[p]

MapInv == MapTypes /\ BookedAreNearest

LEMMA MapInvInit == Map!Init => MapInv
<1> SUFFICES ASSUME Map!Init PROVE MapInv
  OBVIOUS
<1>1. mapPointCount \in Nat \ {0} /\ 0 \in MapPoints
  BY AlgorithmParameters DEF Map!Init, MapPoints, Map!Points, Map!PointsOf
<1>2. PICK S \in SUBSET Map!PairsOf(mapPointCount) :
        \E w \in [S -> MapWeights] : map = Map!MapOf(mapPointCount, S, w)
  BY DEF Map!Init
<1>3. PICK w \in [S -> MapWeights] : map = Map!MapOf(mapPointCount, S, w)
  BY <1>2
<1>4. /\ map \in [MapPoints -> [MapPoints -> Nat]]
      /\ map[0][0] = 0
  <2>1. Map!PointsOf(mapPointCount) = MapPoints
    BY DEF MapPoints, Map!Points
  <2>2. \A s \in S : w[s] \in Nat
    <3>1. MapWeights \subseteq 0..(INVAILD - 1)
      BY AlgorithmParameters
    <3>2. INVAILD \in Nat
      BY SMT DEF INVAILD
    <3>3. w \in [S -> MapWeights]
      OBVIOUS
    <3>4. MapWeights \subseteq Nat
      BY <3>1, <3>2
    <3> QED
      BY <3>3, <3>4
  <2>3. Map!INVAILD \in Nat
    BY DEF Map!INVAILD
  <2>4. \A a, b \in MapPoints :
          (IF a = b THEN 0 ELSE IF <<a, b>> \in S THEN w[<<a, b>>] ELSE Map!INVAILD) \in Nat
    BY <2>2, <2>3
  <2>5. map \in [MapPoints -> [MapPoints -> Nat]]
    BY <1>3, <2>1, <2>4 DEF Map!MapOf
  <2>6. map[0][0] = 0
    BY <1>1, <1>3, <2>1 DEF Map!MapOf
  <2> QED
    BY <2>5, <2>6
<1>5. auiDis = map[0] /\ u = 0 /\ v = 0
      /\ mapBook = [p \in MapPoints |-> IF p = 0 THEN 1 ELSE 0]
  BY DEF Map!Init, MapPoints
<1>6. MapTypes
  BY <1>1, <1>4, <1>5 DEF MapTypes
<1>7. BookedAreNearest
  <2>1. \A p \in MapPoints : auiDis[p] \in Nat
    BY <1>6 DEF MapTypes
  <2> QED
    BY <1>1, <1>4, <1>5, <2>1 DEF BookedAreNearest
<1> QED
  BY <1>6, <1>7 DEF MapInv

LEMMA BookInv ==
  ASSUME MapInv, Map!Book
  PROVE  MapInv'
<1>1. /\ u' \in IF Map!Candidates = {} THEN {u} ELSE Map!Nearest
      /\ mapBook' = [mapBook EXCEPT ![u'] = 1]
      /\ v' = 0
      /\ UNCHANGED <<mapPointCount, map, auiDis>> /\ MapPoints' = MapPoints
  BY DEF Map!Book, Map!graph, MapPoints, Map!Points
<1>2. MapTypes /\ \A p \in MapPoints : auiDis[p] \in Nat
  BY DEF MapInv, MapTypes
<1>3. /\ u' \in MapPoints
      /\ auiDis[u] <= auiDis[u']
      /\ \A q \in MapPoints : mapBook[q] = 0 => auiDis[u'] <= auiDis[q]
  <2>1. CASE Map!Candidates = {}
    BY <1>1, <1>2, <2>1 DEF MapInv, MapTypes, BookedAreNearest
  <2>2. CASE Map!Candidates # {}
    <3>1. /\ u' \in Map!Candidates
          /\ \A q \in Map!Candidates : auiDis[u'] <= auiDis[q]
      <4>1. u' \in Map!Nearest
        BY <1>1, <2>2
      <4>2. u' \in Map!Candidates
        BY <4>1 DEF Map!Nearest
      <4>3. \A q \in Map!Candidates : auiDis[u'] < auiDis[q] \/ auiDis[u'] = auiDis[q]
        BY <4>1 DEF Map!Nearest
      <4>4. \A q \in Map!Candidates : q \in MapPoints
        BY DEF Map!Candidates, MapPoints
      <4> QED
        BY <1>2, <4>2, <4>3, <4>4
    <3>2. u' \in MapPoints /\ mapBook[u'] = 0 /\ auiDis[u'] < Map!INVAILD
      BY <3>1 DEF Map!Candidates, MapPoints
    <3>3. ASSUME NEW q \in MapPoints, mapBook[q] = 0 PROVE auiDis[u'] <= auiDis[q]
      <4>1. CASE auiDis[q] < Map!INVAILD
        BY <3>1, <3>3, <4>1 DEF Map!Candidates, MapPoints
      <4>2. CASE ~(auiDis[q] < Map!INVAILD)
        BY <1>2, <3>2, <4>2 DEF Map!INVAILD
      <4> QED
        BY <4>1, <4>2
    <3> QED
      BY <3>2, <3>3 DEF MapInv, BookedAreNearest
  <2> QED
    BY <2>1, <2>2
<1>4. /\ mapBook' \in [MapPoints -> {0, 1}] /\ mapBook'[u'] = 1
      /\ \A p \in MapPoints \ {u'} : mapBook'[p] = mapBook[p]
  BY <1>1, <1>2, <1>3 DEF MapTypes
<1>5. MapTypes'
  BY <1>1, <1>2, <1>3, <1>4 DEF MapTypes
<1>6. ASSUME NEW p \in MapPoints
      PROVE  IF mapBook'[p] = 1 THEN auiDis[p] <= auiDis[u'] ELSE auiDis[u'] <= auiDis[p]
  <2>1. CASE p = u'
    BY <1>2, <1>4, <2>1
  <2>2. CASE p # u' /\ mapBook[p] = 1
    <3>1. auiDis[p] <= auiDis[u] /\ u \in MapPoints
      BY <2>2 DEF MapInv, MapTypes, BookedAreNearest
    <3> QED
      BY <1>2, <1>3, <1>4, <2>2, <3>1
  <2>3. CASE p # u' /\ mapBook[p] # 1
    <3>1. mapBook[p] = 0
      BY <1>2, <2>3 DEF MapTypes
    <3> QED
      BY <1>3, <1>4, <2>3, <3>1
  <2> QED
    BY <2>1, <2>2, <2>3
<1>7. BookedAreNearest'
  BY <1>1, <1>4, <1>6 DEF BookedAreNearest
<1> QED
  BY <1>5, <1>7 DEF MapInv

\* A relaxation makes nearer only a point that is not booked.
LEMMA RelaxedIsNotBooked ==
  ASSUME MapInv, Map!Relax
  PROVE  /\ UNCHANGED <<mapPointCount, map, mapBook, u>> /\ v' = v + 1
         /\ \/ auiDis' = auiDis
            \/ /\ v \in MapPoints /\ mapBook[v] # 1
               /\ \E d \in Nat : auiDis[u] <= d /\ auiDis' = [auiDis EXCEPT ![v] = d]
<1>1. /\ UNCHANGED <<mapPointCount, map, mapBook, u>> /\ v' = v + 1
      /\ v < mapPointCount
      /\ auiDis' = IF map[u][v] < Map!INVAILD /\ auiDis[v] > auiDis[u] + map[u][v]
                   THEN [auiDis EXCEPT ![v] = auiDis[u] + map[u][v]] ELSE auiDis
  BY DEF Map!Relax, Map!graph
<1>2. v \in MapPoints /\ u \in MapPoints
  BY <1>1 DEF MapInv, MapTypes, MapPoints, Map!Points, Map!PointsOf
<1>3. auiDis[u] \in Nat /\ auiDis[v] \in Nat /\ map[u][v] \in Nat
  BY <1>2 DEF MapInv, MapTypes
<1>4. CASE map[u][v] < Map!INVAILD /\ auiDis[v] > auiDis[u] + map[u][v]
  <2>1. ~(auiDis[v] <= auiDis[u]) /\ auiDis[u] <= auiDis[u] + map[u][v]
    BY <1>3, <1>4
  <2>2. mapBook[v] # 1
    BY <1>2, <2>1 DEF MapInv, BookedAreNearest
  <2>3. auiDis[u] + map[u][v] \in Nat
    BY <1>3
  <2> QED
    BY <1>1, <1>2, <1>4, <2>1, <2>2, <2>3
<1> QED
  BY <1>1, <1>4

LEMMA RelaxedNearest ==
  ASSUME MapInv, Map!Relax
  PROVE  MapInv'
<1>1. /\ UNCHANGED <<mapPointCount, map, mapBook, u>> /\ v' = v + 1
      /\ MapPoints' = MapPoints
  BY RelaxedIsNotBooked DEF MapPoints, Map!Points
<1>2. CASE auiDis' = auiDis
  BY <1>1, <1>2 DEF MapInv, MapTypes, BookedAreNearest
<1>3. CASE auiDis' # auiDis
  <2>1. v \in MapPoints /\ mapBook[v] # 1
    BY <1>3, RelaxedIsNotBooked
  <2>2. PICK d \in Nat : auiDis[u] <= d /\ auiDis' = [auiDis EXCEPT ![v] = d]
    BY <1>3, RelaxedIsNotBooked
  <2>3. MapTypes'
    BY <1>1, <2>1, <2>2 DEF MapInv, MapTypes
  <2>4. \A p \in MapPoints : auiDis'[p] = IF p = v THEN d ELSE auiDis[p]
    BY <2>1, <2>2 DEF MapInv, MapTypes
  <2>5. BookedAreNearest'
    BY <1>1, <2>1, <2>2, <2>4 DEF MapInv, MapTypes, BookedAreNearest
  <2> QED
    BY <2>3, <2>5 DEF MapInv
<1> QED
  BY <1>2, <1>3

LEMMA MapInvStays ==
  ASSUME MapInv, UNCHANGED Map!vars
  PROVE  MapInv'
BY DEF MapInv, MapTypes, BookedAreNearest, MapPoints, Map!Points, Map!vars, Map!graph

LEMMA MapInvStep ==
  ASSUME MapInv, Map!NextBoth
  PROVE  /\ MapInv'
         /\ \A p \in MapPoints : mapBook[p] = 1 => auiDis'[p] = auiDis[p]
<1>1. CASE Map!Book
  BY <1>1, BookInv DEF Map!Book
<1>2. CASE Map!Relax
  <2>1. \/ auiDis' = auiDis
        \/ mapBook[v] # 1 /\ \E d \in Nat : auiDis' = [auiDis EXCEPT ![v] = d]
    BY <1>2, RelaxedIsNotBooked
  <2>2. \A p \in MapPoints : mapBook[p] = 1 => auiDis'[p] = auiDis[p]
    BY <2>1 DEF MapInv, MapTypes
  <2> QED
    BY <1>2, <2>2, RelaxedNearest
<1>3. ASSUME Map!RelaxedAll \/ Map!Return \/ Map!Done PROVE MapInv' /\ auiDis' = auiDis
  <2>1. UNCHANGED <<mapPointCount, map, auiDis, mapBook, u, v>>
    BY <1>3 DEF Map!RelaxedAll, Map!Return, Map!Done, Map!vars, Map!graph
  <2> QED
    BY <2>1 DEF MapInv, MapTypes, BookedAreNearest, MapPoints, Map!Points
<1>4. ASSUME Map!Floyd!Next, UNCHANGED Map!dijkstraVars PROVE MapInv' /\ auiDis' = auiDis
  <2>1. UNCHANGED <<mapPointCount, map>>
    BY <1>4 DEF Map!Floyd!Next, Map!Floyd!Shorten, Map!Floyd!Done, Map!Floyd!vars
  <2>2. UNCHANGED <<auiDis, mapBook, u, v>>
    BY <1>4 DEF Map!dijkstraVars
  <2> QED
    BY <2>1, <2>2 DEF MapInv, MapTypes, BookedAreNearest, MapPoints, Map!Points
<1> QED
  BY <1>1, <1>2, <1>3, <1>4 DEF Map!NextBoth, Map!Next

-----------------------------------------------------------------------------
(* The paths of a map.  A path over m sides is a row of points t[0] to t[m];*)
(* it leads by way of S when all between the first and the last are in S.   *)

IsMap(g, n) ==
  /\ n \in Nat \ {0} /\ g \in [PointsOf(n) -> [PointsOf(n) -> Nat]]
  /\ \A a \in PointsOf(n) : g[a][a] = 0 /\ \A b \in PointsOf(n) : g[a][b] <= INVAILD

IsRow(n, t, m) == m \in Nat /\ t \in [0..m -> PointsOf(n)]
IsPath(n, S, t, m) ==
  /\ m \in Nat \ {0} /\ t \in [0..m -> PointsOf(n)]
  /\ \A x \in 1..(m - 1) : t[x] \in S

\* No point is met twice, but that it may end where it starts.
Simple(t, m) == \A x, y \in 0..m : x < y /\ t[x] = t[y] => x = 0 /\ y = m

Legs(g, t, m) == [x \in 1..m |-> g[t[x - 1]][t[x]]]
PathLength(g, t, m) == SumOver(Legs(g, t, m), 1..m)

Via(g, S, a, b) == Map!ShortestVia(g, S, a, b)

LEMMA MapNames ==
  /\ Map!INVAILD = INVAILD
  /\ \A n : Map!PointsOf(n) = PointsOf(n)
  /\ \A T : Map!Min(T) = Min(T)
  /\ \A T : Map!Cardinality(T) = Cardinality(T)
<1>1. Map!INVAILD = INVAILD
  BY DEF Map!INVAILD, INVAILD
<1>2. \A n : Map!PointsOf(n) = PointsOf(n)
  BY DEF Map!PointsOf, PointsOf
<1>3. \A T : Map!Min(T) = Min(T)
  BY DEF Map!Min, Min
<1>4. \A T : Map!Cardinality(T) = Cardinality(T)
  BY DEF Map!Cardinality, Cardinality
<1> QED
  BY <1>1, <1>2, <1>3, <1>4

LEMMA MapSums == \A f : Map!SumFunction(f) = SumOver(f, DOMAIN f)
BY DEF Map!SumFunction, Map!SumFunctionOnSet, Map!FoldFunctionOnSet, Map!MapThenFoldSet,
       SumOver, MapThenSumSet, MapThenFoldSet

LEMMA LegsAre ==
  ASSUME NEW g, NEW n, IsMap(g, n), NEW m, NEW t, IsRow(n, t, m)
  PROVE  /\ \A x \in 1..m : Legs(g, t, m)[x] = g[t[x - 1]][t[x]] /\ Legs(g, t, m)[x] \in Nat
         /\ PathLength(g, t, m) \in Nat
<1>0. m \in Nat /\ t \in [0..m -> PointsOf(n)]
  BY DEF IsRow
<1>1. \A x \in 1..m : x - 1 \in 0..m /\ x \in 0..m
  BY <1>0
<1>2. \A x \in 1..m : Legs(g, t, m)[x] = g[t[x - 1]][t[x]]
  BY DEF Legs
<1>3. \A x \in 1..m : g[t[x - 1]][t[x]] \in Nat
  BY <1>0, <1>1 DEF IsMap
<1>4. IsFiniteSet(1..m)
  BY <1>0, FS_Interval
<1> DEFINE f == Legs(g, t, m)
<1>5. \A x \in 1..m : f[x] \in Nat
  BY <1>2, <1>3
<1> HIDE DEF f
<1>6. SumOver(f, 1..m) \in Nat
  BY <1>4, <1>5, SumOverNatural
<1> QED
  BY <1>2, <1>3, <1>6 DEF PathLength, f

\* A path in two parts.
Joined(n, t, p, x, q, y) ==
  /\ x \in Nat /\ y \in Nat /\ IsRow(n, t, x + y) /\ IsRow(n, p, x) /\ IsRow(n, q, y)
  /\ \A z \in 0..x : p[z] = t[z]
  /\ \A z \in 0..y : q[z] = t[x + z]

LEMMA LengthJoins ==
  ASSUME NEW g, NEW n, IsMap(g, n), NEW x, NEW y, NEW t, NEW p, NEW q, Joined(n, t, p, x, q, y)
  PROVE  PathLength(g, t, x + y) = PathLength(g, p, x) + PathLength(g, q, y)
<1> DEFINE f == Legs(g, t, x + y)
           b == Legs(g, p, x)
           c == Legs(g, q, y)
<1>1. /\ x \in Nat /\ y \in Nat /\ x + y \in Nat
      /\ \A z \in 0..x : p[z] = t[z]
      /\ \A z \in 0..y : q[z] = t[x + z]
  BY DEF Joined
<1>2. \A z \in 1..(x + y) : f[z] = g[t[z - 1]][t[z]] /\ f[z] \in Int
  <2>1. IsRow(n, t, x + y)
    BY DEF Joined
  <2>2. \A z \in 1..(x + y) : f[z] = g[t[z - 1]][t[z]] /\ f[z] \in Nat
    BY <2>1, LegsAre
  <2> QED
    BY <2>2
<1>3. \A z \in 1..x : b[z] = g[p[z - 1]][p[z]]
  <2>1. IsRow(n, p, x)
    BY DEF Joined
  <2> QED
    BY <2>1, LegsAre
<1>4. \A z \in 1..y : c[z] = g[q[z - 1]][q[z]]
  <2>1. IsRow(n, q, y)
    BY DEF Joined
  <2> QED
    BY <2>1, LegsAre
<1>5. \A z \in 1..x : f[z] \in Int /\ f[z] = b[z]
  <2> SUFFICES ASSUME NEW z \in 1..x PROVE f[z] \in Int /\ f[z] = b[z]
    OBVIOUS
  <2>1. z \in 1..(x + y) /\ z - 1 \in 0..x /\ z \in 0..x
    BY <1>1
  <2>2. p[z - 1] = t[z - 1] /\ p[z] = t[z]
    BY <1>1, <2>1
  <2> HIDE DEF f, b
  <2> QED
    BY <1>2, <1>3, <2>1, <2>2
<1>6. \A z \in 1..y : c[z] = f[x + z]
  <2> SUFFICES ASSUME NEW z \in 1..y PROVE c[z] = f[x + z]
    OBVIOUS
  <2>1. x + z \in 1..(x + y) /\ z - 1 \in 0..y /\ z \in 0..y /\ x + (z - 1) = (x + z) - 1
    BY <1>1
  <2>2. q[z - 1] = t[(x + z) - 1] /\ q[z] = t[x + z]
    BY <1>1, <2>1
  <2> HIDE DEF f, c
  <2> QED
    BY <1>2, <1>4, <2>1, <2>2
<1> HIDE DEF f, b, c
<1>7. SumOver(f, 1..(x + y)) = SumOver(f, 1..x) + SumOver(c, 1..y)
  <2>1. x \in Nat /\ y \in Nat
    BY <1>1
  <2>2. \A z \in 1..(x + y) : f[z] \in Int
    BY <1>2
  <2>3. \A z \in 1..y : c[z] = f[x + z]
    BY <1>6
  <2> QED
    BY <2>1, <2>2, <2>3, SumOverSplit
<1>8. SumOver(f, 1..x) = SumOver(b, 1..x)
  <2>1. IsFiniteSet(1..x)
    BY <1>1, FS_Interval
  <2> QED
    BY <1>5, <2>1, SumOverSame
<1> QED
  BY <1>7, <1>8 DEF PathLength, f, b, c

\* Whoever comes by a point again may leave out what lies between.
LEMMA PathCut ==
  ASSUME NEW g, NEW n, IsMap(g, n), NEW S, NEW m, NEW t, IsPath(n, S, t, m),
         NEW x \in 0..m, NEW y \in 0..m, x < y, t[x] = t[y], ~(x = 0 /\ y = m)
  PROVE  \E r : \E w : /\ IsPath(n, S, w, r) /\ r < m /\ w[0] = t[0] /\ w[r] = t[m]
                       /\ PathLength(g, w, r) <= PathLength(g, t, m)
<1> DEFINE c == y - x
           q == m - y
           r == x + q
           w == [z \in 0..r |-> IF z <= x THEN t[z] ELSE t[z + c]]
<1>1. /\ m \in Nat \ {0} /\ t \in [0..m -> PointsOf(n)] /\ \A z \in 1..(m - 1) : t[z] \in S
  BY DEF IsPath
<1>2. /\ c \in Nat \ {0} /\ q \in Nat /\ r \in Nat \ {0} /\ r < m /\ x \in Nat
      /\ (x + c) + q = m /\ r + c = m /\ x + c = y
  BY <1>1
<1>3. \A z \in 0..r : z + c \in 0..m /\ z \in 0..m
  BY <1>2
<1>4. \A z \in 0..r : w[z] = IF z <= x THEN t[z] ELSE t[z + c]
  OBVIOUS
<1>5. \A z \in x..r : w[z] = t[z + c]
  <2> SUFFICES ASSUME NEW z \in x..r PROVE w[z] = t[z + c]
    OBVIOUS
  <2>1. z \in 0..r /\ (z <= x => z = x)
    BY <1>2
  <2> HIDE DEF w, r, c
  <2> QED
    BY <1>2, <1>4, <2>1
<1>6. w \in [0..r -> PointsOf(n)]
  <2>1. \A z \in 0..r : (IF z <= x THEN t[z] ELSE t[z + c]) \in PointsOf(n)
    BY <1>1, <1>3
  <2> QED
    BY <2>1
<1>7. w[0] = t[0] /\ w[r] = t[m]
  <2>1. 0 \in 0..r /\ 0 <= x /\ r \in x..r
    BY <1>2
  <2> QED
    BY <1>2, <1>4, <1>5, <2>1
<1>8. \A z \in 1..(r - 1) : w[z] \in S
  <2> SUFFICES ASSUME NEW z \in 1..(r - 1) PROVE w[z] \in S
    OBVIOUS
  <2>1. z \in 0..r /\ z \in 1..(m - 1) /\ z + c \in 1..(m - 1)
    BY <1>2
  <2> HIDE DEF w, r, c
  <2> QED
    BY <1>1, <1>4, <2>1
<1> DEFINE f == Legs(g, t, m)
           o == Legs(g, w, r)
           h == [z \in 1..c |-> f[x + z]]
<1>9. \A z \in 1..m : f[z] = g[t[z - 1]][t[z]] /\ f[z] \in Nat
  <2>1. IsRow(n, t, m)
    BY <1>1 DEF IsRow
  <2> QED
    BY <2>1, LegsAre
<1>10. \A z \in 1..r : o[z] = g[w[z - 1]][w[z]]
  <2> HIDE DEF w, r
  <2>1. IsRow(n, w, r)
    BY <1>2, <1>6 DEF IsRow
  <2> QED
    BY <2>1, LegsAre
<1>11. \A z \in 1..r : o[z] = IF z <= x THEN f[z] ELSE f[z + c]
  <2> SUFFICES ASSUME NEW z \in 1..r PROVE o[z] = IF z <= x THEN f[z] ELSE f[z + c]
    OBVIOUS
  <2>1. z \in 0..r /\ z - 1 \in 0..r /\ z \in 1..m /\ z + c \in 1..m /\ (z - 1) + c = (z + c) - 1
    BY <1>2
  <2>2. CASE z <= x
    <3>1. z - 1 <= x
      BY <1>2, <2>2
    <3> HIDE DEF w, r, f, o, c
    <3> QED
      BY <1>4, <1>9, <1>10, <2>1, <2>2, <3>1
  <2>3. CASE ~(z <= x)
    <3>1. z - 1 \in x..r /\ z \in x..r
      BY <1>2, <2>3
    <3> HIDE DEF w, r, f, o, c
    <3> QED
      BY <1>5, <1>9, <1>10, <2>1, <2>3, <3>1
  <2> QED
    BY <2>2, <2>3
<1>12. \A z \in 1..c : h[z] = f[x + z] /\ h[z] \in Nat
  <2>1. \A z \in 1..c : x + z \in 1..m
    BY <1>2
  <2> HIDE DEF f, c
  <2> QED
    BY <1>9, <2>1
<1>13. IsFiniteSet(1..c)
  BY <1>2, FS_Interval
<1> HIDE DEF w, f, o, h, c, q
<1>14. IsCut(f, o, h, x, c, q)
  BY <1>2, <1>9, <1>11, <1>12 DEF IsCut
<1>15. SumOver(h, 1..c) \in Nat
  BY <1>12, <1>13, SumOverNatural
<1>16. SumOver(f, 1..m) = SumOver(o, 1..r) + SumOver(h, 1..c) /\ SumOver(o, 1..r) \in Int
  BY <1>2, <1>14, SumOverCut
<1>17. PathLength(g, w, r) <= PathLength(g, t, m)
  <2>1. PathLength(g, w, r) = SumOver(o, 1..r) /\ PathLength(g, t, m) = SumOver(f, 1..m)
    BY DEF PathLength, f, o
  <2> QED
    BY <1>15, <1>16, <2>1
<1>18. IsPath(n, S, w, r)
  BY <1>2, <1>6, <1>8 DEF IsPath
<1> QED
  BY <1>2, <1>7, <1>17, <1>18

\* What the reference calls a path.
Inner(S, a, b) ==
  {s \in Map!SeqOf(S \ {a, b}, Map!Cardinality(S \ {a, b})) : Map!IsInjective(s)}

LEMMA ViaIsMin ==
  \A g, S, a, b :
     Via(g, S, a, b) =
       Min({INVAILD} \cup {Map!LengthOf(g, <<a>> \o s \o <<b>>) : s \in Inner(S, a, b)})
BY MapNames DEF Via, Map!ShortestVia, Inner

LEMMA PointsOfPath ==
  ASSUME NEW a, NEW b, NEW l \in Nat, NEW s, NEW P, s \in [1..l -> P], a \in P, b \in P
  PROVE  LET path == <<a>> \o s \o <<b>>
         IN  /\ path \in Seq(P) /\ Len(path) = l + 2
             /\ path[1] = a /\ path[l + 2] = b
             /\ \A x \in 2..(l + 1) : path[x] = s[x - 1]
<1>1. s \in Seq(P) /\ Len(s) = l
  <2>1. s \in Seq(P)
    BY SeqDef
  <2>2. Len(s) \in Nat /\ DOMAIN s = 1..Len(s) /\ DOMAIN s = 1..l
    BY <2>1, LenProperties
  <2>3. \A c, d \in Nat : 1..c = 1..d => c = d
    <3> SUFFICES ASSUME NEW c \in Nat, NEW d \in Nat, 1..c = 1..d PROVE c <= d /\ d <= c
      OBVIOUS
    <3>1. c = 0 \/ c \in 1..d
      OBVIOUS
    <3>2. d = 0 \/ d \in 1..c
      OBVIOUS
    <3> QED
      BY <3>1, <3>2
  <2> QED
    BY <2>1, <2>2, <2>3
<1>2. <<a>> \in Seq(P) /\ Len(<<a>>) = 1 /\ <<a>>[1] = a
  OBVIOUS
<1>3. <<b>> \in Seq(P) /\ Len(<<b>>) = 1 /\ <<b>>[1] = b
  OBVIOUS
<1> DEFINE r == <<a>> \o s
<1>4. /\ r \in Seq(P) /\ Len(r) = 1 + l
      /\ \A x \in 1..(1 + l) : r[x] = IF x <= 1 THEN <<a>>[x] ELSE s[x - 1]
  BY <1>1, <1>2, ConcatProperties
<1> DEFINE path == r \o <<b>>
<1>5. /\ path \in Seq(P) /\ Len(path) = (1 + l) + 1
      /\ \A x \in 1..((1 + l) + 1) : path[x] = IF x <= 1 + l THEN r[x] ELSE <<b>>[x - (1 + l)]
  <2> HIDE DEF r
  <2> QED
    BY <1>3, <1>4, ConcatProperties
<1> HIDE DEF r, path
<1>6. (1 + l) + 1 = l + 2 /\ (l + 2) - (1 + l) = 1 /\ 1 \in 1..(1 + l) /\ 1 \in 1..((1 + l) + 1)
  OBVIOUS
<1>7. path[1] = a /\ path[l + 2] = b
  <2>1. path[1] = r[1] /\ r[1] = <<a>>[1]
    <3>1. 1 \in 1..((1 + l) + 1) /\ 1 <= 1 + l /\ 1 \in 1..(1 + l) /\ 1 <= 1
      OBVIOUS
    <3>2. path[1] = r[1]
      BY <1>5, <3>1
    <3>3. r[1] = <<a>>[1]
      BY <1>4, <3>1
    <3> QED
      BY <3>2, <3>3
  <2>2. path[l + 2] = <<b>>[1]
    <3>1. l + 2 \in 1..((1 + l) + 1) /\ ~(l + 2 <= 1 + l)
      OBVIOUS
    <3> QED
      BY <1>5, <1>6, <3>1
  <2> QED
    BY <1>2, <1>3, <2>1, <2>2
<1>8. \A x \in 2..(l + 1) : path[x] = s[x - 1]
  <2> SUFFICES ASSUME NEW x \in 2..(l + 1) PROVE path[x] = s[x - 1]
    OBVIOUS
  <2>1. x \in 1..((1 + l) + 1) /\ x <= 1 + l /\ x \in 1..(1 + l) /\ ~(x <= 1)
    OBVIOUS
  <2> QED
    BY <1>4, <1>5, <2>1
<1> QED
  BY <1>5, <1>6, <1>7, <1>8 DEF path, r

LEMMA LengthOfPath ==
  ASSUME NEW g, NEW n, IsMap(g, n), NEW m \in Nat \ {0}, NEW t \in [0..m -> PointsOf(n)],
         NEW s, NEW P, s \in [1..(m - 1) -> P], P \in SUBSET PointsOf(n),
         \A x \in 1..(m - 1) : s[x] = t[x]
  PROVE  Map!LengthOf(g, <<t[0]>> \o s \o <<t[m]>>) = PathLength(g, t, m)
<1> DEFINE path == <<t[0]>> \o s \o <<t[m]>>
           l == m - 1
<1>1. l \in Nat /\ l + 2 = m + 1 /\ l + 1 = m /\ 0 \in 0..m /\ m \in 0..m
  OBVIOUS
<1>2. /\ Len(path) = m + 1 /\ path[1] = t[0] /\ path[m + 1] = t[m]
      /\ \A x \in 2..m : path[x] = s[x - 1]
  <2>1. s \in [1..l -> PointsOf(n)] /\ t[0] \in PointsOf(n) /\ t[m] \in PointsOf(n)
    BY <1>1
  <2>2. /\ Len(path) = l + 2 /\ path[1] = t[0] /\ path[l + 2] = t[m]
        /\ \A x \in 2..(l + 1) : path[x] = s[x - 1]
    <3>1. PICK a, b : a = t[0] /\ b = t[m]
      OBVIOUS
    <3> DEFINE r == <<a>> \o s \o <<b>>
    <3>2. /\ Len(r) = l + 2 /\ r[1] = a /\ r[l + 2] = b
          /\ \A x \in 2..(l + 1) : r[x] = s[x - 1]
      <4>1. l \in Nat /\ s \in [1..l -> PointsOf(n)] /\ a \in PointsOf(n) /\ b \in PointsOf(n)
        BY <1>1, <2>1, <3>1
      <4> HIDE DEF l
      <4> QED
        BY <4>1, PointsOfPath
    <3>3. r = path
      BY <3>1
    <3> HIDE DEF r, path, l
    <3> QED
      BY <3>1, <3>2, <3>3
  <2> HIDE DEF path, l
  <2> QED
    BY <1>1, <2>2
<1>3. \A x \in 1..(m + 1) : path[x] = t[x - 1]
  <2> SUFFICES ASSUME NEW x \in 1..(m + 1) PROVE path[x] = t[x - 1]
    OBVIOUS
  <2>1. x = 1 \/ x = m + 1 \/ (x \in 2..m /\ x - 1 \in 1..(m - 1))
    OBVIOUS
  <2> HIDE DEF path
  <2> QED
    BY <1>2, <2>1
<1> DEFINE f == [x \in 1..(Len(path) - 1) |-> g[path[x]][path[x + 1]]]
<1>4. f = Legs(g, t, m)
  <2>1. Len(path) - 1 = m
    BY <1>2
  <2>2. \A x \in 1..m : g[path[x]][path[x + 1]] = g[t[x - 1]][t[x]]
    <3> SUFFICES ASSUME NEW x \in 1..m PROVE g[path[x]][path[x + 1]] = g[t[x - 1]][t[x]]
      OBVIOUS
    <3>1. x \in 1..(m + 1) /\ x + 1 \in 1..(m + 1) /\ (x + 1) - 1 = x
      OBVIOUS
    <3> HIDE DEF path
    <3> QED
      BY <1>3, <3>1
  <2> HIDE DEF path
  <2> QED
    BY <2>1, <2>2 DEF Legs
<1>5. DOMAIN f = 1..m
  BY <1>4 DEF Legs
<1>6. Map!LengthOf(g, path) = Map!SumFunction(f)
  BY DEF Map!LengthOf
<1> HIDE DEF f, path
<1>7. Map!LengthOf(g, path) = PathLength(g, t, m)
  BY <1>4, <1>5, <1>6, MapSums DEF PathLength
<1> QED
  BY <1>7 DEF path

LEMMA InnerIsPath ==
  ASSUME NEW g, NEW n, IsMap(g, n), NEW S \in SUBSET PointsOf(n),
         NEW a \in PointsOf(n), NEW b \in PointsOf(n), NEW s \in Inner(S, a, b)
  PROVE  \E m : \E t : /\ IsPath(n, S, t, m) /\ t[0] = a /\ t[m] = b /\ Simple(t, m)
                       /\ Map!LengthOf(g, <<a>> \o s \o <<b>>) = PathLength(g, t, m)
<1> DEFINE P == S \ {a, b}
<1>1. PICK l \in 0..Map!Cardinality(P) : s \in [1..l -> P]
  BY DEF Inner, Map!SeqOf
<1>2. \A x, y \in 1..l : s[x] = s[y] => x = y
  BY <1>1 DEF Inner, Map!IsInjective
<1> DEFINE m == l + 1
           t == [x \in 0..m |-> IF x = 0 THEN a ELSE IF x = m THEN b ELSE s[x]]
<1>3. m \in Nat \ {0} /\ m - 1 = l /\ l \in Nat /\ 0 \in 0..m /\ m \in 0..m
  BY <1>1
<1>4. \A x \in 1..l : x \in 0..m /\ x # 0 /\ x # m /\ s[x] \in P
  BY <1>1, <1>3
<1>5. t[0] = a /\ t[m] = b /\ \A x \in 1..l : t[x] = s[x]
  BY <1>3, <1>4
<1>6. \A x \in 0..m : x = 0 \/ x = m \/ x \in 1..l
  BY <1>3
<1>7. t \in [0..m -> PointsOf(n)]
  <2>1. \A x \in 0..m : (IF x = 0 THEN a ELSE IF x = m THEN b ELSE s[x]) \in PointsOf(n)
    BY <1>4, <1>6
  <2> QED
    BY <2>1
<1> HIDE DEF t
<1>8. IsPath(n, S, t, m)
  <2>1. \A x \in 1..(m - 1) : t[x] \in S
    BY <1>3, <1>4, <1>5
  <2> HIDE DEF m
  <2> QED
    BY <1>3, <1>7, <2>1 DEF IsPath
<1>9. Simple(t, m)
  <2> SUFFICES ASSUME NEW x \in 0..m, NEW y \in 0..m, x < y, t[x] = t[y]
               PROVE  x = 0 /\ y = m
    BY DEF Simple
  <2>1. x # m /\ y # 0
    BY <1>3
  <2>2. CASE x \in 1..l
    <3>1. t[x] = s[x] /\ s[x] # a /\ s[x] # b
      BY <1>4, <1>5, <2>2
    <3>2. y \in 1..l
      BY <1>5, <1>6, <2>1, <3>1
    <3>3. x = y
      BY <1>2, <1>5, <2>2, <3>2
    <3> QED
      BY <3>3
  <2>3. CASE x = 0
    <3>1. y \in 1..l => t[y] # a
      BY <1>4, <1>5
    <3> QED
      BY <1>5, <1>6, <2>1, <2>3, <3>1
  <2> QED
    BY <1>6, <2>1, <2>2, <2>3
<1>10. Map!LengthOf(g, <<a>> \o s \o <<b>>) = PathLength(g, t, m)
  <2>1. s \in [1..(m - 1) -> P] /\ P \in SUBSET PointsOf(n) /\ \A x \in 1..(m - 1) : s[x] = t[x]
    BY <1>1, <1>3, <1>5
  <2> HIDE DEF P, m
  <2>2. Map!LengthOf(g, <<t[0]>> \o s \o <<t[m]>>) = PathLength(g, t, m)
    BY <1>3, <1>7, <2>1, LengthOfPath
  <2> QED
    BY <1>5, <2>2
<1> QED
  BY <1>5, <1>8, <1>9, <1>10

LEMMA SimpleIsInner ==
  ASSUME NEW g, NEW n, IsMap(g, n), NEW S \in SUBSET PointsOf(n),
         NEW m, NEW t, IsPath(n, S, t, m), Simple(t, m)
  PROVE  \E s \in Inner(S, t[0], t[m]) :
            Map!LengthOf(g, <<t[0]>> \o s \o <<t[m]>>) = PathLength(g, t, m)
<1> DEFINE P == S \ {t[0], t[m]}
           s == [x \in 1..(m - 1) |-> t[x]]
<1>1. /\ m \in Nat \ {0} /\ m - 1 \in Nat /\ t \in [0..m -> PointsOf(n)]
      /\ \A x \in 1..(m - 1) : t[x] \in S
      /\ \A x \in 1..(m - 1) : x \in 0..m /\ 0 < x /\ x < m
      /\ 0 \in 0..m /\ m \in 0..m
  BY DEF IsPath
<1>2. \A x \in 1..(m - 1) : t[x] \in P
  <2> SUFFICES ASSUME NEW x \in 1..(m - 1) PROVE t[x] # t[0] /\ t[x] # t[m]
    BY <1>1
  <2>1. x # m /\ x # 0
    BY <1>1
  <2> QED
    BY <1>1, <2>1 DEF Simple
<1>3. s \in [1..(m - 1) -> P] /\ \A x \in 1..(m - 1) : s[x] = t[x]
  BY <1>2
<1>4. \A x, y \in 1..(m - 1) : s[x] = s[y] => x = y
  <2> SUFFICES ASSUME NEW x \in 1..(m - 1), NEW y \in 1..(m - 1), t[x] = t[y] PROVE x = y
    BY <1>3
  <2>1. ~(x < y)
    <3>1. x < y => x = 0 /\ y = m
      BY <1>1 DEF Simple
    <3> QED
      BY <1>1, <3>1
  <2>2. ~(y < x)
    <3>1. y < x => y = 0 /\ x = m
      BY <1>1 DEF Simple
    <3> QED
      BY <1>1, <3>1
  <2> QED
    BY <1>1, <2>1, <2>2
<1> HIDE DEF s
<1>5. IsFiniteSet(P) /\ Cardinality(P) \in Nat
  <2>1. IsFiniteSet(PointsOf(n))
    BY FS_Interval DEF PointsOf, IsMap
  <2>2. P \in SUBSET PointsOf(n)
    OBVIOUS
  <2> HIDE DEF P
  <2> QED
    BY <2>1, <2>2, FS_Subset, FS_CardinalityType
<1>6. m - 1 <= Cardinality(P)
  <2> SUFFICES ASSUME ~(m - 1 <= Cardinality(P)) PROVE FALSE
    OBVIOUS
  <2>1. IsFiniteSet(1..(m - 1)) /\ Cardinality(1..(m - 1)) = m - 1
    <3> DEFINE q == m - 1
    <3>1. q \in Nat
      BY <1>1
    <3> HIDE DEF q
    <3>2. IsFiniteSet(1..q) /\ Cardinality(1..q) = q
      BY <3>1, FS_Interval
    <3> QED
      BY <3>2 DEF q
  <2>2. Cardinality(P) < Cardinality(1..(m - 1))
    BY <1>1, <1>5, <2>1
  <2>3. \E x, y \in 1..(m - 1) : x # y /\ s[x] = s[y]
    <3> DEFINE D == 1..(m - 1)
    <3>1. IsFiniteSet(D) /\ Cardinality(P) < Cardinality(D) /\ s \in [D -> P]
      BY <1>3, <2>1, <2>2
    <3> HIDE DEF P, D
    <3>2. \E x, y \in D : x # y /\ s[x] = s[y]
      BY <1>5, <3>1, FS_PigeonHole
    <3> QED
      BY <3>2 DEF D
  <2> QED
    BY <1>4, <2>3
<1>7. s \in Inner(S, t[0], t[m])
  <2>1. m - 1 \in 0..Map!Cardinality(P)
    BY <1>1, <1>5, <1>6, MapNames
  <2>2. s \in Map!SeqOf(P, Map!Cardinality(P))
    BY <1>3, <2>1 DEF Map!SeqOf
  <2>3. DOMAIN s = 1..(m - 1)
    BY <1>3
  <2>4. Map!IsInjective(s)
    BY <1>4, <2>3 DEF Map!IsInjective
  <2> QED
    BY <2>2, <2>4 DEF Inner
<1>8. P \in SUBSET PointsOf(n)
  OBVIOUS
<1> HIDE DEF P
<1>9. Map!LengthOf(g, <<t[0]>> \o s \o <<t[m]>>) = PathLength(g, t, m)
  BY <1>1, <1>3, <1>8, LengthOfPath
<1> QED
  BY <1>7, <1>9

\* The reference is INVAILD or the length of a path, and of no simple one more.
LEMMA ViaIs ==
  ASSUME NEW g, NEW n, IsMap(g, n), NEW S \in SUBSET PointsOf(n),
         NEW a \in PointsOf(n), NEW b \in PointsOf(n)
  PROVE  /\ Via(g, S, a, b) \in Nat /\ Via(g, S, a, b) <= INVAILD
         /\ \/ Via(g, S, a, b) = INVAILD
            \/ \E m : \E t : /\ IsPath(n, S, t, m) /\ t[0] = a /\ t[m] = b /\ Simple(t, m)
                            /\ Via(g, S, a, b) = PathLength(g, t, m)
         /\ \A m : \A t : IsPath(n, S, t, m) /\ t[0] = a /\ t[m] = b /\ Simple(t, m)
                          => Via(g, S, a, b) <= PathLength(g, t, m)
<1> DEFINE len(s) == Map!LengthOf(g, <<a>> \o s \o <<b>>)
           L == {len(s) : s \in Inner(S, a, b)}
           T == {INVAILD} \cup L
<1>1. \A s \in Inner(S, a, b) :
         \E m : \E t : /\ IsPath(n, S, t, m) /\ t[0] = a /\ t[m] = b /\ Simple(t, m)
                       /\ len(s) = PathLength(g, t, m)
  <2> SUFFICES ASSUME NEW s \in Inner(S, a, b)
               PROVE  \E m : \E t :
                         /\ IsPath(n, S, t, m) /\ t[0] = a /\ t[m] = b /\ Simple(t, m)
                         /\ Map!LengthOf(g, <<a>> \o s \o <<b>>) = PathLength(g, t, m)
    OBVIOUS
  <2> QED
    BY InnerIsPath
<1>2. \A m : \A t : IsPath(n, S, t, m) => PathLength(g, t, m) \in Nat
  BY LegsAre DEF IsPath, IsRow
<1>3. INVAILD \in Nat
  BY SMT DEF INVAILD
<1> HIDE DEF len
<1>4. T \in SUBSET Nat /\ T # {} /\ INVAILD \in T
  <2>1. \A s \in Inner(S, a, b) : len(s) \in Nat
    BY <1>1, <1>2
  <2> QED
    BY <1>3, <2>1
<1>5. Via(g, S, a, b) = Min(T)
  BY ViaIsMin DEF len
<1> HIDE DEF T
<1>6. Min(T) \in T /\ \A d \in T : Min(T) <= d
  BY <1>4, MinIsLeast
<1>7. \A m : \A t : IsPath(n, S, t, m) /\ t[0] = a /\ t[m] = b /\ Simple(t, m)
                   => PathLength(g, t, m) \in L
  <2> SUFFICES ASSUME NEW m, NEW t, IsPath(n, S, t, m), t[0] = a, t[m] = b, Simple(t, m)
               PROVE  PathLength(g, t, m) \in L
    OBVIOUS
  <2>1. \E s \in Inner(S, t[0], t[m]) :
           Map!LengthOf(g, <<t[0]>> \o s \o <<t[m]>>) = PathLength(g, t, m)
    BY SimpleIsInner
  <2>2. \E s \in Inner(S, a, b) : len(s) = PathLength(g, t, m)
    BY <2>1 DEF len
  <2> QED
    BY <2>2
<1>8. Min(T) \in Nat /\ Min(T) <= INVAILD
  BY <1>4, <1>6
<1>9. Min(T) = INVAILD \/ Min(T) \in L
  BY <1>6 DEF T
<1>10. L \subseteq T
  BY DEF T
<1>11. \A d \in L : \E s \in Inner(S, a, b) : d = len(s)
  OBVIOUS
<1> HIDE DEF L
<1>12. \/ Via(g, S, a, b) = INVAILD
       \/ \E m : \E t : /\ IsPath(n, S, t, m) /\ t[0] = a /\ t[m] = b /\ Simple(t, m)
                       /\ Via(g, S, a, b) = PathLength(g, t, m)
  BY <1>1, <1>5, <1>9, <1>11
<1>13. \A m : \A t : IsPath(n, S, t, m) /\ t[0] = a /\ t[m] = b /\ Simple(t, m)
                    => Via(g, S, a, b) <= PathLength(g, t, m)
  BY <1>5, <1>6, <1>7, <1>10
<1> QED
  BY <1>5, <1>8, <1>12, <1>13

\* No path is shorter, whether it meets points again or not.
LEMMA NoPathShorter ==
  ASSUME NEW g, NEW n, IsMap(g, n), NEW S \in SUBSET PointsOf(n),
         NEW m, NEW t, IsPath(n, S, t, m)
  PROVE  Via(g, S, t[0], t[m]) <= PathLength(g, t, m)
<1> DEFINE Short(w, q) == /\ IsPath(n, S, w, q) /\ w[0] = t[0] /\ w[q] = t[m]
                          /\ PathLength(g, w, q) <= PathLength(g, t, m)
           M == {q \in Nat : \E w : Short(w, q)}
<1>1. t[0] \in PointsOf(n) /\ t[m] \in PointsOf(n) /\ m \in Nat
  BY DEF IsPath
<1>2. \A q : \A w : IsPath(n, S, w, q) => q \in Nat /\ PathLength(g, w, q) \in Nat
  BY LegsAre DEF IsPath, IsRow
<1>3. m \in M
  BY <1>1, <1>2
<1>4. PICK q \in M : \A l \in M : q <= l
  <2>1. M \in SUBSET Nat /\ M # {}
    BY <1>3
  <2> HIDE DEF M
  <2> QED
    BY <2>1, LeastNatural
<1>5. PICK w : Short(w, q)
  OBVIOUS
<1>6. Simple(w, q)
  <2> SUFFICES ASSUME NEW x \in 0..q, NEW y \in 0..q, x < y, w[x] = w[y], ~(x = 0 /\ y = q)
               PROVE  FALSE
    BY DEF Simple
  <2>1. PICK r, o : /\ IsPath(n, S, o, r) /\ r < q /\ o[0] = w[0] /\ o[r] = w[q]
                    /\ PathLength(g, o, r) <= PathLength(g, w, q)
    BY <1>5, PathCut
  <2>2. Short(o, r) /\ r \in Nat
    BY <1>2, <1>5, <2>1
  <2>3. r \in M /\ q \in Nat
    BY <2>2
  <2> HIDE DEF M
  <2> QED
    BY <1>4, <2>1, <2>2, <2>3
<1>7. Via(g, S, t[0], t[m]) <= PathLength(g, w, q)
  BY <1>1, <1>5, <1>6, ViaIs
<1> QED
  BY <1>1, <1>2, <1>5, <1>7, ViaIs

LEMMA OneLeg ==
  ASSUME NEW g, NEW n, IsMap(g, n), NEW S, NEW t, IsPath(n, S, t, 1)
  PROVE  PathLength(g, t, 1) = g[t[0]][t[1]] /\ g[t[0]][t[1]] \in Nat
<1> DEFINE f == Legs(g, t, 1)
<1>1. t \in [0..1 -> PointsOf(n)] /\ 1 \in Nat /\ 1 \in 1..1 /\ 1 - 1 = 0
  BY DEF IsPath
<1>2. f[1] = g[t[0]][t[1]] /\ f[1] \in Nat /\ \A x \in 1..1 : f[x] \in Nat
  <2>1. IsRow(n, t, 1)
    BY <1>1 DEF IsRow
  <2>2. \A x \in 1..1 : f[x] = g[t[x - 1]][t[x]] /\ f[x] \in Nat
    BY <2>1, LegsAre
  <2> HIDE DEF f
  <2> QED
    BY <1>1, <2>2
<1> HIDE DEF f
<1>3. SumOver(f, 1..(0 + 1)) = SumOver(f, 1..0) + f[0 + 1]
  <2>1. 0 \in Nat /\ \A x \in 1..(0 + 1) : f[x] \in Int
    BY <1>2
  <2> QED
    BY <2>1, SumOverNext
<1>4. 1..0 = {} /\ 0 + 1 = 1
  OBVIOUS
<1>5. SumOver(f, 1..0) = 0
  BY <1>4, SumOverEmpty
<1> QED
  BY <1>2, <1>3, <1>4, <1>5 DEF PathLength, f

\* By way of no point there are the sides.
LEMMA ViaNone ==
  ASSUME NEW g, NEW n, IsMap(g, n), NEW a \in PointsOf(n), NEW b \in PointsOf(n)
  PROVE  /\ Via(g, {}, a, b) = g[a][b]
         /\ \A S \in SUBSET PointsOf(n) : Via(g, S, a, b) <= g[a][b]
<1> DEFINE t == [x \in 0..1 |-> IF x = 0 THEN a ELSE b]
<1>1. t \in [0..1 -> PointsOf(n)] /\ t[0] = a /\ t[1] = b
  OBVIOUS
<1> HIDE DEF t
<1>2. \A S : IsPath(n, S, t, 1)
  BY <1>1 DEF IsPath
<1>3. PathLength(g, t, 1) = g[a][b]
  BY <1>1, <1>2, OneLeg
<1>4. \A S \in SUBSET PointsOf(n) : Via(g, S, a, b) <= g[a][b]
  <2> SUFFICES ASSUME NEW S \in SUBSET PointsOf(n) PROVE Via(g, S, a, b) <= g[a][b]
    OBVIOUS
  <2>1. Via(g, S, t[0], t[1]) <= PathLength(g, t, 1)
    BY <1>2, NoPathShorter
  <2> QED
    BY <1>1, <1>3, <2>1
<1>5. g[a][b] <= Via(g, {}, a, b)
  <2>1. CASE Via(g, {}, a, b) = INVAILD
    BY <2>1 DEF IsMap
  <2>2. ASSUME NEW m, NEW w, IsPath(n, {}, w, m), w[0] = a, w[m] = b,
               Via(g, {}, a, b) = PathLength(g, w, m)
        PROVE  g[a][b] <= Via(g, {}, a, b)
    <3>1. m = 1
      <4>1. m \in Nat \ {0} /\ ~(1 \in 1..(m - 1))
        BY <2>2 DEF IsPath
      <4> QED
        BY <4>1
    <3>2. PathLength(g, w, 1) = g[a][b] /\ g[a][b] \in Nat
      BY <2>2, <3>1, OneLeg
    <3> QED
      BY <2>2, <3>1, <3>2
  <2> QED
    BY <2>1, <2>2, ViaIs
<1>6. Via(g, {}, a, b) \in Nat /\ g[a][b] \in Nat
  <2>1. {} \in SUBSET PointsOf(n)
    OBVIOUS
  <2>2. Via(g, {}, a, b) \in Nat
    BY <2>1, ViaIs
  <2> QED
    BY <2>2 DEF IsMap
<1> QED
  BY <1>4, <1>5, <1>6

\* The ends of a path are not what it leads by way of.
LEMMA ViaEnds ==
  \A g, S, o, a : /\ Via(g, S \cup {o}, a, o) = Via(g, S, a, o)
                 /\ Via(g, S \cup {o}, o, a) = Via(g, S, o, a)
<1> SUFFICES ASSUME NEW g, NEW S, NEW o, NEW a
             PROVE  /\ Via(g, S \cup {o}, a, o) = Via(g, S, a, o)
                    /\ Via(g, S \cup {o}, o, a) = Via(g, S, o, a)
  OBVIOUS
<1>1. (S \cup {o}) \ {a, o} = S \ {a, o} /\ (S \cup {o}) \ {o, a} = S \ {o, a}
  OBVIOUS
<1>2. Inner(S \cup {o}, a, o) = Inner(S, a, o) /\ Inner(S \cup {o}, o, a) = Inner(S, o, a)
  BY <1>1 DEF Inner
<1> QED
  BY <1>2, ViaIsMin

LEMMA ViaTriangle ==
  ASSUME NEW g, NEW n, IsMap(g, n), NEW S \in SUBSET PointsOf(n), NEW o \in PointsOf(n),
         NEW a \in PointsOf(n), NEW b \in PointsOf(n)
  PROVE  Via(g, S \cup {o}, a, b) <= Via(g, S, a, o) + Via(g, S, o, b)
<1> DEFINE R == S \cup {o}
<1>1. R \in SUBSET PointsOf(n)
  OBVIOUS
<1>2. /\ Via(g, R, a, b) \in Nat /\ Via(g, R, a, b) <= INVAILD /\ INVAILD \in Nat
      /\ Via(g, S, a, o) \in Nat /\ Via(g, S, o, b) \in Nat
  <2>1. INVAILD \in Nat
    BY SMT DEF INVAILD
  <2> HIDE DEF R
  <2> QED
    BY <1>1, <2>1, ViaIs
<1>3. CASE Via(g, S, a, o) = INVAILD \/ Via(g, S, o, b) = INVAILD
  BY <1>2, <1>3
<1>4. ASSUME NEW x, NEW p, IsPath(n, S, p, x), p[0] = a, p[x] = o,
             Via(g, S, a, o) = PathLength(g, p, x),
             NEW y, NEW q, IsPath(n, S, q, y), q[0] = o, q[y] = b,
             Via(g, S, o, b) = PathLength(g, q, y)
      PROVE  Via(g, R, a, b) <= Via(g, S, a, o) + Via(g, S, o, b)
  <2> DEFINE t == [z \in 0..(x + y) |-> IF z <= x THEN p[z] ELSE q[z - x]]
  <2>1. /\ x \in Nat \ {0} /\ y \in Nat \ {0}
        /\ p \in [0..x -> PointsOf(n)] /\ q \in [0..y -> PointsOf(n)]
        /\ \A z \in 1..(x - 1) : p[z] \in S
        /\ \A z \in 1..(y - 1) : q[z] \in S
    BY <1>4 DEF IsPath
  <2>2. \A z \in 0..(x + y) : t[z] = IF z <= x THEN p[z] ELSE q[z - x]
    OBVIOUS
  <2>3. t \in [0..(x + y) -> PointsOf(n)]
    <3>1. \A z \in 0..(x + y) : (IF z <= x THEN p[z] ELSE q[z - x]) \in PointsOf(n)
      <4> SUFFICES ASSUME NEW z \in 0..(x + y)
                   PROVE  (IF z <= x THEN p[z] ELSE q[z - x]) \in PointsOf(n)
        OBVIOUS
      <4>1. (z <= x => z \in 0..x) /\ (~(z <= x) => z - x \in 0..y)
        BY <2>1
      <4> QED
        BY <2>1, <4>1
    <3> QED
      BY <3>1
  <2> HIDE DEF t
  <2>4. \A z \in 0..x : p[z] = t[z]
    <3>1. \A z \in 0..x : z \in 0..(x + y) /\ z <= x
      BY <2>1
    <3> QED
      BY <2>2, <3>1
  <2>5. \A z \in 0..y : q[z] = t[x + z]
    <3> SUFFICES ASSUME NEW z \in 0..y PROVE q[z] = t[x + z]
      OBVIOUS
    <3>1. x + z \in 0..(x + y) /\ (x + z) - x = z /\ (x + z <= x => z = 0 /\ x + z = x)
      BY <2>1
    <3> QED
      BY <1>4, <2>2, <3>1
  <2>6. PathLength(g, t, x + y) = PathLength(g, p, x) + PathLength(g, q, y)
    <3>1. x \in Nat /\ y \in Nat /\ x + y \in Nat
      BY <2>1
    <3>2. Joined(n, t, p, x, q, y)
      BY <2>1, <2>3, <2>4, <2>5, <3>1 DEF Joined, IsRow
    <3> QED
      BY <3>2, LengthJoins
  <2>7. t[0] = a /\ t[x + y] = b
    <3>1. 0 \in 0..x /\ y \in 0..y
      BY <2>1
    <3> QED
      BY <1>4, <2>4, <2>5, <3>1
  <2>8. IsPath(n, R, t, x + y)
    <3> SUFFICES ASSUME NEW z \in 1..((x + y) - 1) PROVE t[z] \in R
      <4>1. x + y \in Nat \ {0}
        BY <2>1
      <4> QED
        BY <2>3, <4>1 DEF IsPath
    <3>1. z \in 1..(x - 1) \/ z = x \/ (z - x \in 1..(y - 1) /\ x + (z - x) = z)
      BY <2>1
    <3>2. CASE z \in 1..(x - 1)
      <4>1. z \in 0..x
        BY <2>1, <3>2
      <4> QED
        BY <2>1, <2>4, <3>2, <4>1
    <3>3. CASE z = x
      <4>1. x \in 0..x
        BY <2>1
      <4> QED
        BY <1>4, <2>4, <3>3, <4>1
    <3>4. CASE z - x \in 1..(y - 1) /\ x + (z - x) = z
      <4>1. z - x \in 0..y
        BY <2>1, <3>4
      <4>2. q[z - x] = t[x + (z - x)] /\ q[z - x] \in S
        BY <2>1, <2>5, <3>4, <4>1
      <4> QED
        BY <3>4, <4>2
    <3> QED
      BY <3>1, <3>2, <3>3, <3>4
  <2> HIDE DEF R
  <2>0. Via(g, R, t[0], t[x + y]) <= PathLength(g, t, x + y)
    BY <1>1, <2>8, NoPathShorter
  <2> QED
    BY <1>4, <2>6, <2>7, <2>0
<1>5. \/ Via(g, S, a, o) = INVAILD
      \/ \E x : \E p : /\ IsPath(n, S, p, x) /\ p[0] = a /\ p[x] = o
                      /\ Via(g, S, a, o) = PathLength(g, p, x)
  BY ViaIs
<1>6. \/ Via(g, S, o, b) = INVAILD
      \/ \E y : \E q : /\ IsPath(n, S, q, y) /\ q[0] = o /\ q[y] = b
                      /\ Via(g, S, o, b) = PathLength(g, q, y)
  BY ViaIs
<1> QED
  BY <1>3, <1>4, <1>5, <1>6

\* A path by way of S and o either leads by way of S, or through o.
LEMMA ViaSplits ==
  ASSUME NEW g, NEW n, IsMap(g, n), NEW S \in SUBSET PointsOf(n), NEW o \in PointsOf(n),
         NEW a \in PointsOf(n), NEW b \in PointsOf(n)
  PROVE  \/ Via(g, S, a, b) <= Via(g, S \cup {o}, a, b)
         \/ Via(g, S, a, o) + Via(g, S, o, b) <= Via(g, S \cup {o}, a, b)
<1> DEFINE R == S \cup {o}
<1>1. R \in SUBSET PointsOf(n)
  OBVIOUS
<1>2. /\ Via(g, S, a, b) \in Nat /\ Via(g, S, a, b) <= INVAILD
      /\ Via(g, S, a, o) \in Nat /\ Via(g, S, o, b) \in Nat
  BY ViaIs
<1>3. ASSUME Via(g, R, a, b) = INVAILD
      PROVE  Via(g, S, a, b) <= Via(g, R, a, b)
  BY <1>2, <1>3
<1>4. ASSUME NEW m, NEW t, IsPath(n, R, t, m), t[0] = a, t[m] = b, Simple(t, m),
             Via(g, R, a, b) = PathLength(g, t, m)
      PROVE  \/ Via(g, S, a, b) <= Via(g, R, a, b)
             \/ Via(g, S, a, o) + Via(g, S, o, b) <= Via(g, R, a, b)
  <2>1. /\ m \in Nat \ {0} /\ t \in [0..m -> PointsOf(n)]
        /\ \A z \in 1..(m - 1) : t[z] \in S \/ t[z] = o
    BY <1>4 DEF IsPath
  <2>2. CASE \A z \in 1..(m - 1) : t[z] # o
    <3>1. IsPath(n, S, t, m)
      BY <2>1, <2>2 DEF IsPath
    <3>2. Via(g, S, t[0], t[m]) <= PathLength(g, t, m)
      BY <3>1, NoPathShorter
    <3> QED
      BY <1>4, <3>2
  <2>3. ASSUME NEW x \in 1..(m - 1), t[x] = o
        PROVE  Via(g, S, a, o) + Via(g, S, o, b) <= Via(g, R, a, b)
    <3> DEFINE y == m - x
               p == [z \in 0..x |-> t[z]]
               q == [z \in 0..y |-> t[x + z]]
    <3>1. /\ x \in Nat \ {0} /\ y \in Nat \ {0} /\ x + y = m
          /\ \A z \in 0..x : z \in 0..m
          /\ \A z \in 0..y : x + z \in 0..m
      BY <2>1
    <3>2. /\ \A z \in 0..x : p[z] = t[z]
          /\ \A z \in 0..y : q[z] = t[x + z]
      OBVIOUS
    <3>3. p \in [0..x -> PointsOf(n)] /\ q \in [0..y -> PointsOf(n)]
      BY <2>1, <3>1
    <3> HIDE DEF p, q, y
    <3>4. \A z \in 1..(m - 1) : z # x => t[z] \in S
      <4> SUFFICES ASSUME NEW z \in 1..(m - 1), z # x, t[z] = o PROVE FALSE
        BY <2>1
      <4>1. z \in 0..m /\ x \in 0..m /\ (z < x \/ x < z) /\ z # 0 /\ x # 0
        BY <2>1
      <4> QED
        BY <1>4, <2>3, <4>1 DEF Simple
    <3>5. IsPath(n, S, p, x)
      <4>1. \A z \in 1..(x - 1) : z \in 0..x /\ z \in 1..(m - 1) /\ z # x
        BY <2>1, <3>1
      <4>2. \A z \in 1..(x - 1) : p[z] \in S
        BY <3>2, <3>4, <4>1
      <4> QED
        BY <3>1, <3>3, <4>2 DEF IsPath
    <3>6. IsPath(n, S, q, y)
      <4>1. \A z \in 1..(y - 1) : z \in 0..y /\ x + z \in 1..(m - 1) /\ x + z # x
        BY <2>1, <3>1
      <4>2. \A z \in 1..(y - 1) : q[z] \in S
        BY <3>2, <3>4, <4>1
      <4> QED
        BY <3>1, <3>3, <4>2 DEF IsPath
    <3>7. PathLength(g, t, x + y) = PathLength(g, p, x) + PathLength(g, q, y)
      <4>1. x \in Nat /\ y \in Nat /\ x + y \in Nat /\ t \in [0..(x + y) -> PointsOf(n)]
        BY <2>1, <3>1
      <4>2. Joined(n, t, p, x, q, y)
        BY <3>2, <3>3, <4>1 DEF Joined, IsRow
      <4> QED
        BY <4>2, LengthJoins
    <3>8. p[0] = a /\ p[x] = o /\ q[0] = o /\ q[y] = b
      <4>1. 0 \in 0..x /\ x \in 0..x /\ 0 \in 0..y /\ y \in 0..y /\ x + 0 = x
        BY <3>1
      <4> QED
        BY <1>4, <2>3, <3>1, <3>2, <4>1
    <3>9. /\ Via(g, S, p[0], p[x]) <= PathLength(g, p, x)
          /\ Via(g, S, q[0], q[y]) <= PathLength(g, q, y)
      BY <3>5, <3>6, NoPathShorter
    <3>10. PathLength(g, p, x) \in Nat /\ PathLength(g, q, y) \in Nat
      <4>1. x \in Nat /\ y \in Nat
        BY <3>1
      <4> QED
        BY <3>3, <4>1, LegsAre DEF IsRow
    <3> QED
      BY <1>2, <1>4, <3>1, <3>7, <3>8, <3>9, <3>10
  <2> QED
    BY <2>2, <2>3
<1> HIDE DEF R
<1>5. \/ Via(g, R, a, b) = INVAILD
      \/ \E m : \E t : /\ IsPath(n, R, t, m) /\ t[0] = a /\ t[m] = b /\ Simple(t, m)
                      /\ Via(g, R, a, b) = PathLength(g, t, m)
  BY <1>1, ViaIs
<1>6. \/ Via(g, S, a, b) <= Via(g, R, a, b)
      \/ Via(g, S, a, o) + Via(g, S, o, b) <= Via(g, R, a, b)
  BY <1>3, <1>4, <1>5
<1> QED
  BY <1>6 DEF R

\* More points make no path longer.
LEMMA ViaMore ==
  ASSUME NEW g, NEW n, IsMap(g, n), NEW R \in SUBSET PointsOf(n), NEW S \in SUBSET R,
         NEW a \in PointsOf(n), NEW b \in PointsOf(n)
  PROVE  Via(g, R, a, b) <= Via(g, S, a, b)
<1>1. S \in SUBSET PointsOf(n)
  OBVIOUS
<1>2. CASE Via(g, S, a, b) = INVAILD
  BY <1>2, ViaIs
<1>3. ASSUME NEW m, NEW t, IsPath(n, S, t, m), t[0] = a, t[m] = b,
             Via(g, S, a, b) = PathLength(g, t, m)
      PROVE  Via(g, R, a, b) <= Via(g, S, a, b)
  <2>1. IsPath(n, R, t, m)
    BY <1>3 DEF IsPath
  <2>2. Via(g, R, t[0], t[m]) <= PathLength(g, t, m)
    BY <2>1, NoPathShorter
  <2> QED
    BY <1>3, <2>2
<1>4. \/ Via(g, S, a, b) = INVAILD
      \/ \E m : \E t : /\ IsPath(n, S, t, m) /\ t[0] = a /\ t[m] = b
                      /\ Via(g, S, a, b) = PathLength(g, t, m)
  BY <1>1, ViaIs
<1> QED
  BY <1>2, <1>3, <1>4

\* What a step of Floyd-Warshall puts in an entry (algorithm.c:50).
LEMMA ViaOneMore ==
  ASSUME NEW g, NEW n, IsMap(g, n), NEW S \in SUBSET PointsOf(n), NEW o \in PointsOf(n),
         NEW a \in PointsOf(n), NEW b \in PointsOf(n)
  PROVE  Via(g, S \cup {o}, a, b) =
           IF Via(g, S, a, b) > Via(g, S, a, o) + Via(g, S, o, b)
           THEN Via(g, S, a, o) + Via(g, S, o, b) ELSE Via(g, S, a, b)
<1>1. S \cup {o} \in SUBSET PointsOf(n) /\ S \in SUBSET (S \cup {o})
  OBVIOUS
<1>2. /\ Via(g, S \cup {o}, a, b) \in Nat /\ Via(g, S, a, b) \in Nat
      /\ Via(g, S, a, o) \in Nat /\ Via(g, S, o, b) \in Nat
  BY <1>1, ViaIs
<1>3. Via(g, S \cup {o}, a, b) <= Via(g, S, a, b)
  BY <1>1, ViaMore
<1>4. Via(g, S \cup {o}, a, b) <= Via(g, S, a, o) + Via(g, S, o, b)
  BY ViaTriangle
<1>5. \/ Via(g, S, a, b) <= Via(g, S \cup {o}, a, b)
      \/ Via(g, S, a, o) + Via(g, S, o, b) <= Via(g, S \cup {o}, a, b)
  BY ViaSplits
<1> QED
  BY <1>2, <1>3, <1>4, <1>5

-----------------------------------------------------------------------------
(* Floyd-Warshall: every entry is what the paths by way of the points tried *)
(* for it come to.                                                          *)

FloydInv ==
  /\ IsMap(map, mapPointCount)
  /\ roundK \in Nat /\ rowI \in MapPoints /\ columnJ \in MapPoints
  /\ shortened \in [MapPoints -> [MapPoints -> Nat]]
  /\ \A a, b \in MapPoints : shortened[a][b] = Via(map, PointsOf(Map!Tried(a, b)), a, b)

LEMMA MapIsMap ==
  ASSUME Map!Init
  PROVE  IsMap(map, mapPointCount) /\ MapPoints = PointsOf(mapPointCount) /\ 0 \in MapPoints
<1>1. mapPointCount \in Nat \ {0} /\ 0 \in MapPoints /\ MapPoints = PointsOf(mapPointCount)
  BY AlgorithmParameters DEF Map!Init, MapPoints, Map!Points, Map!PointsOf, PointsOf
<1>2. PICK S \in SUBSET Map!PairsOf(mapPointCount) :
        \E w \in [S -> MapWeights] : map = Map!MapOf(mapPointCount, S, w)
  BY DEF Map!Init
<1>3. PICK w \in [S -> MapWeights] : map = Map!MapOf(mapPointCount, S, w)
  BY <1>2
<1>4. map \in [MapPoints -> [MapPoints -> Nat]]
  BY MapInvInit DEF MapInv, MapTypes
<1>5. \A s \in S : w[s] <= INVAILD
  <2>0. INVAILD \in Nat
    BY SMT DEF INVAILD
  <2>1. MapWeights \subseteq 0..(INVAILD - 1)
    BY AlgorithmParameters
  <2>2. \A x \in MapWeights : x <= INVAILD
    BY <2>0, <2>1
  <2> QED
    BY <2>2
<1>6. \A a, b \in MapPoints :
        map[a][b] = IF a = b THEN 0 ELSE IF <<a, b>> \in S THEN w[<<a, b>>] ELSE INVAILD
  BY <1>3, MapNames DEF Map!MapOf, MapPoints, Map!Points
<1>7. 0 <= INVAILD /\ INVAILD <= INVAILD
  BY SMT DEF INVAILD
<1>8. \A a \in MapPoints : map[a][a] = 0 /\ \A b \in MapPoints : map[a][b] <= INVAILD
  BY <1>5, <1>6, <1>7
<1> QED
  BY <1>1, <1>4, <1>8 DEF IsMap

LEMMA FloydInvInit ==
  ASSUME Map!InitBoth
  PROVE  FloydInv
<1>1. Map!Init /\ shortened = map /\ roundK = 0 /\ rowI = 0 /\ columnJ = 0
  BY DEF Map!InitBoth, Map!Floyd!Begin
<1>2. IsMap(map, mapPointCount) /\ MapPoints = PointsOf(mapPointCount) /\ 0 \in MapPoints
  BY <1>1, MapIsMap
<1>3. \A a, b \in MapPoints : Map!Tried(a, b) = 0
  <2>1. \A a \in MapPoints : ~(a < 0)
    BY <1>2 DEF PointsOf, IsMap
  <2> QED
    BY <1>1, <2>1 DEF Map!Tried
<1>4. PointsOf(0) = {}
  BY DEF PointsOf
<1>5. \A a, b \in MapPoints : Via(map, {}, a, b) = map[a][b]
  BY <1>2, ViaNone
<1>6. shortened \in [MapPoints -> [MapPoints -> Nat]]
  BY <1>1, <1>2 DEF IsMap
<1>7. \A a, b \in MapPoints : shortened[a][b] = Via(map, PointsOf(Map!Tried(a, b)), a, b)
  <2> SUFFICES ASSUME NEW a \in MapPoints, NEW b \in MapPoints
               PROVE  shortened[a][b] = Via(map, PointsOf(Map!Tried(a, b)), a, b)
    OBVIOUS
  <2>1. PointsOf(Map!Tried(a, b)) = {}
    BY <1>3, <1>4
  <2>2. Via(map, {}, a, b) = map[a][b]
    BY <1>5
  <2> QED
    BY <1>1, <2>1, <2>2
<1>8. roundK \in Nat /\ rowI \in MapPoints /\ columnJ \in MapPoints
  BY <1>1, <1>2
<1> QED
  BY <1>2, <1>6, <1>7, <1>8 DEF FloydInv

LEMMA FloydInvStays ==
  ASSUME FloydInv, UNCHANGED <<mapPointCount, map>>, UNCHANGED Map!floydVars
  PROVE  FloydInv'
BY DEF FloydInv, Map!floydVars, Map!Tried, MapPoints, Map!Points

LEMMA ShortenInv ==
  ASSUME FloydInv, Map!Floyd!Shorten
  PROVE  FloydInv'
<1>0. PICK n, g, o, i0, j0, sh :
        n = mapPointCount /\ g = map /\ o = roundK /\ i0 = rowI /\ j0 = columnJ /\ sh = shortened
  OBVIOUS
<1>1. /\ o < n /\ UNCHANGED <<mapPointCount, map>>
      /\ shortened' = IF sh[i0][j0] > sh[i0][o] + sh[o][j0]
                      THEN [sh EXCEPT ![i0][j0] = sh[i0][o] + sh[o][j0]] ELSE sh
      /\ columnJ' = IF j0 + 1 < n THEN j0 + 1 ELSE 0
      /\ rowI' = IF columnJ' > 0 THEN i0 ELSE IF i0 + 1 < n THEN i0 + 1 ELSE 0
      /\ roundK' = IF rowI' > 0 \/ columnJ' > 0 THEN o ELSE o + 1
  BY <1>0 DEF Map!Floyd!Shorten, Map!Floyd!Advance
<1>2. /\ IsMap(g, n) /\ n \in Nat \ {0} /\ MapPoints = PointsOf(n) /\ MapPoints' = PointsOf(n)
      /\ o \in PointsOf(n) /\ i0 \in PointsOf(n) /\ j0 \in PointsOf(n) /\ o \in Nat
      /\ sh \in [PointsOf(n) -> [PointsOf(n) -> Nat]]
  <2>1. IsMap(g, n) /\ n \in Nat \ {0} /\ MapPoints = PointsOf(n) /\ MapPoints' = PointsOf(n)
    BY <1>0, <1>1, MapNames DEF FloydInv, IsMap, MapPoints, Map!Points
  <2>2. o \in Nat
    BY <1>0 DEF FloydInv
  <2>3. o \in PointsOf(n)
    BY <1>1, <2>1, <2>2 DEF PointsOf
  <2> QED
    BY <1>0, <2>1, <2>2, <2>3 DEF FloydInv
<1>3. \A a \in PointsOf(n) : a \in Int /\ 0 <= a /\ a < n
  BY <1>2 DEF PointsOf
<1> DEFINE S == PointsOf(o)
           T(a, b) == IF a < i0 \/ (a = i0 /\ b < j0) THEN o + 1 ELSE o
<1>4. S \in SUBSET PointsOf(n) /\ PointsOf(o + 1) = S \cup {o}
  BY <1>1, <1>2 DEF PointsOf
<1>5. \A a, b \in PointsOf(n) : sh[a][b] = Via(g, PointsOf(T(a, b)), a, b)
  BY <1>0, <1>2 DEF FloydInv, Map!Tried
<1>6. \A a, b \in PointsOf(n) : T(a, b) \in {o, o + 1}
  OBVIOUS
<1>7. T(i0, j0) = o
  BY <1>2, <1>3
<1>8. \A a \in PointsOf(n) : sh[a][o] = Via(g, S, a, o) /\ sh[o][a] = Via(g, S, o, a)
  <2> HIDE DEF T
  <2> QED
    BY <1>2, <1>4, <1>5, <1>6, ViaEnds
<1>9. sh[i0][j0] = Via(g, S, i0, j0)
  BY <1>2, <1>5, <1>7
<1> HIDE DEF T, S
<1>10. Via(g, S \cup {o}, i0, j0) =
         IF sh[i0][j0] > sh[i0][o] + sh[o][j0] THEN sh[i0][o] + sh[o][j0] ELSE sh[i0][j0]
  BY <1>2, <1>4, <1>8, <1>9, ViaOneMore
<1>11. sh[i0][o] + sh[o][j0] \in Nat
  BY <1>2
<1>12. /\ shortened' \in [PointsOf(n) -> [PointsOf(n) -> Nat]]
       /\ \A a, b \in PointsOf(n) :
             shortened'[a][b] = IF a = i0 /\ b = j0 THEN Via(g, S \cup {o}, i0, j0) ELSE sh[a][b]
  <2>1. CASE sh[i0][j0] > sh[i0][o] + sh[o][j0]
    <3>1. shortened' = [sh EXCEPT ![i0][j0] = sh[i0][o] + sh[o][j0]]
      BY <1>1, <2>1
    <3>2. shortened' \in [PointsOf(n) -> [PointsOf(n) -> Nat]]
      BY <1>2, <1>11, <3>1
    <3>3. \A a, b \in PointsOf(n) :
            shortened'[a][b] = IF a = i0 /\ b = j0 THEN sh[i0][o] + sh[o][j0] ELSE sh[a][b]
      BY <1>2, <3>1
    <3> QED
      BY <1>10, <2>1, <3>2, <3>3
  <2>2. CASE ~(sh[i0][j0] > sh[i0][o] + sh[o][j0])
    BY <1>1, <1>2, <1>10, <2>2
  <2> QED
    BY <2>1, <2>2
<1>13. /\ rowI' \in PointsOf(n) /\ columnJ' \in PointsOf(n) /\ roundK' \in Nat
       /\ \A a, b \in PointsOf(n) :
             Map!Tried(a, b)' = IF a = i0 /\ b = j0 THEN o + 1 ELSE T(a, b)
  <2>0. \A a : a \in PointsOf(n) <=> a \in Int /\ 0 <= a /\ a < n
    BY <1>2 DEF PointsOf
  <2>1. CASE j0 + 1 < n
    <3>1. columnJ' = j0 + 1 /\ columnJ' > 0 /\ rowI' = i0 /\ roundK' = o
      BY <1>1, <1>2, <1>3, <2>1
    <3>2. \A a, b \in PointsOf(n) :
            (a < i0 \/ (a = i0 /\ b < j0 + 1)) <=>
              (a = i0 /\ b = j0) \/ (a < i0 \/ (a = i0 /\ b < j0))
      BY <1>2, <2>0
    <3> QED
      BY <1>2, <2>0, <2>1, <3>1, <3>2 DEF Map!Tried, T
  <2>2. CASE ~(j0 + 1 < n) /\ i0 + 1 < n
    <3>1. columnJ' = 0 /\ rowI' = i0 + 1 /\ rowI' > 0 /\ roundK' = o
      BY <1>1, <1>2, <1>3, <2>2
    <3>2. \A a, b \in PointsOf(n) :
            (a < i0 + 1 \/ (a = i0 + 1 /\ b < 0)) <=>
              (a = i0 /\ b = j0) \/ (a < i0 \/ (a = i0 /\ b < j0))
      BY <1>2, <2>0, <2>2
    <3> QED
      BY <1>2, <2>0, <2>2, <3>1, <3>2 DEF Map!Tried, T
  <2>3. CASE ~(j0 + 1 < n) /\ ~(i0 + 1 < n)
    <3>1. columnJ' = 0 /\ rowI' = 0 /\ roundK' = o + 1
      BY <1>1, <1>2, <2>3
    <3>2. \A a, b \in PointsOf(n) :
            /\ ~(a < 0 \/ (a = 0 /\ b < 0))
            /\ (a = i0 /\ b = j0) \/ (a < i0 \/ (a = i0 /\ b < j0))
      BY <1>2, <2>0, <2>3
    <3> QED
      BY <1>2, <2>0, <3>1, <3>2 DEF Map!Tried, T
  <2> QED
    BY <2>1, <2>2, <2>3
<1>14. \A a, b \in PointsOf(n) : shortened'[a][b] = Via(g, PointsOf(Map!Tried(a, b)'), a, b)
  <2> SUFFICES ASSUME NEW a \in PointsOf(n), NEW b \in PointsOf(n)
               PROVE  shortened'[a][b] = Via(g, PointsOf(Map!Tried(a, b)'), a, b)
    OBVIOUS
  <2>1. PICK e : e = Map!Tried(a, b)'
    OBVIOUS
  <2>2. CASE a = i0 /\ b = j0
    <3>1. e = o + 1
      BY <1>13, <2>1, <2>2
    <3>2. PointsOf(e) = S \cup {o}
      BY <1>4, <3>1
    <3>3. shortened'[a][b] = Via(g, S \cup {o}, i0, j0)
      BY <1>12, <2>2
    <3> QED
      BY <2>1, <2>2, <3>2, <3>3
  <2>3. CASE ~(a = i0 /\ b = j0)
    <3>1. e = T(a, b)
      BY <1>13, <2>1, <2>3
    <3>2. shortened'[a][b] = sh[a][b]
      BY <1>12, <2>3
    <3>3. sh[a][b] = Via(g, PointsOf(T(a, b)), a, b)
      BY <1>5
    <3> QED
      BY <2>1, <3>1, <3>2, <3>3
  <2> QED
    BY <2>2, <2>3
<1>15. IsMap(map, mapPointCount)' /\ map' = g
  BY <1>0, <1>1, <1>2
<1> QED
  BY <1>2, <1>12, <1>13, <1>14, <1>15 DEF FloydInv

LEMMA FloydInvStep ==
  ASSUME FloydInv, Map!NextBoth
  PROVE  FloydInv'
<1>1. CASE Map!Next /\ UNCHANGED Map!floydVars
  <2>1. UNCHANGED <<mapPointCount, map>>
    BY <1>1 DEF Map!Next, Map!Book, Map!Relax, Map!RelaxedAll, Map!Return, Map!Done, Map!vars,
                Map!graph
  <2> QED
    BY <1>1, <2>1, FloydInvStays
<1>2. CASE Map!Floyd!Done
  BY <1>2, FloydInvStays DEF Map!Floyd!Done, Map!Floyd!vars, Map!floydVars
<1> QED
  BY <1>1, <1>2, ShortenInv DEF Map!NextBoth, Map!Floyd!Next

\* What the entries are at any moment.
LEMMA ViaFirstPointsHolds ==
  ASSUME FloydInv
  PROVE  ViaFirstPoints
<1>1. \A a, b \in Map!Points :
        shortened[a][b] = Map!ShortestVia(map, Map!PointsOf(Map!Tried(a, b)), a, b)
  BY MapNames DEF FloydInv, Via, MapPoints
<1> QED
  BY <1>1 DEF ViaFirstPoints, Map!ViaFirstPoints

-----------------------------------------------------------------------------
(* Dijkstra: no distance is below that of a path, and every booked point    *)
(* has passed its distance on.                                              *)

Booked == {p \in MapPoints : mapBook[p] = 1}
Spread(p) == \A q \in MapPoints : auiDis[q] <= auiDis[p] + map[p][q]

DistancesBound ==
  /\ auiDis[0] = 0
  /\ \A p \in MapPoints : auiDis[p] <= INVAILD /\ Via(map, MapPoints, 0, p) <= auiDis[p]

BookedSpread ==
  \A p \in Booked :
     IF mapPhase = "relax" /\ p = u
     THEN \A q \in MapPoints : q < v => auiDis[q] <= auiDis[u] + map[u][q]
     ELSE Spread(p)

\* In every round a point more is booked, as long as there are any within reach;
\* when there is none, the one booked last has no more to pass on.
RoundsBook ==
  /\ mapI \in Nat
  /\ IF mapPhase = "relax"
     THEN Cardinality(Booked) >= mapI + 2 \/ (Map!Candidates = {} /\ Spread(u))
     ELSE Cardinality(Booked) >= mapI + 1 \/ Map!Candidates = {}
  /\ mapPhase = "done" => mapI >= mapPointCount - 1

SpreadInv == IsMap(map, mapPointCount) /\ DistancesBound /\ BookedSpread /\ RoundsBook

LEMMA MapFacts ==
  ASSUME MapInv, SpreadInv
  PROVE  /\ IsMap(map, mapPointCount) /\ MapPoints = PointsOf(mapPointCount)
         /\ 0 \in MapPoints /\ u \in MapPoints /\ mapPointCount \in Nat \ {0}
         /\ \A p \in MapPoints : /\ auiDis[p] \in Nat /\ auiDis[p] <= INVAILD
                                /\ p \in Nat /\ p < mapPointCount /\ mapBook[p] \in {0, 1}
         /\ \A p, q \in MapPoints : map[p][q] \in Nat
         /\ Booked \in SUBSET MapPoints /\ u \in Booked
         /\ IsFiniteSet(Booked) /\ Cardinality(Booked) \in Nat
         /\ IsFiniteSet(MapPoints) /\ Cardinality(MapPoints) = mapPointCount
<1>1. IsMap(map, mapPointCount) /\ MapPoints = PointsOf(mapPointCount)
  BY MapNames DEF SpreadInv, MapPoints, Map!Points
<1>2. /\ 0 \in MapPoints /\ mapPointCount \in Nat \ {0}
      /\ \A p \in MapPoints : p \in Nat /\ p < mapPointCount
  BY <1>1 DEF IsMap, PointsOf
<1>3. /\ u \in MapPoints /\ Booked \in SUBSET MapPoints /\ u \in Booked
      /\ \A p \in MapPoints : auiDis[p] \in Nat /\ mapBook[p] \in {0, 1}
  BY DEF MapInv, MapTypes, BookedAreNearest, Booked
<1>4. /\ \A p \in MapPoints : auiDis[p] <= INVAILD
      /\ \A p, q \in MapPoints : map[p][q] \in Nat
  BY <1>1 DEF SpreadInv, DistancesBound, IsMap
<1>5. IsFiniteSet(MapPoints) /\ Cardinality(MapPoints) = mapPointCount
  <2> DEFINE n == mapPointCount - 1
  <2>1. 0 \in Int /\ n \in Int /\ 0 <= n /\ (n - 0) + 1 = mapPointCount
    BY <1>2
  <2>2. MapPoints = 0..n
    BY <1>1 DEF PointsOf
  <2> HIDE DEF n
  <2>3. IsFiniteSet(0..n) /\ Cardinality(0..n) = IF 0 > n THEN 0 ELSE n - 0 + 1
    BY <2>1, FS_Interval
  <2> QED
    BY <2>1, <2>2, <2>3
<1>6. IsFiniteSet(Booked) /\ Cardinality(Booked) \in Nat
  BY <1>3, <1>5, FS_Subset, FS_CardinalityType
<1> QED
  BY <1>1, <1>2, <1>3, <1>4, <1>5, <1>6

LEMMA SpreadInvInit ==
  ASSUME Map!Init
  PROVE  SpreadInv
<1>1. IsMap(map, mapPointCount) /\ MapPoints = PointsOf(mapPointCount) /\ 0 \in MapPoints
  BY MapIsMap
<1>2. /\ auiDis = map[0] /\ mapI = 0 /\ mapPhase = "nearest"
      /\ mapBook = [p \in MapPoints |-> IF p = 0 THEN 1 ELSE 0]
  BY DEF Map!Init, MapPoints
<1>3. Booked = {0}
  BY <1>1, <1>2 DEF Booked
<1>4. Cardinality(Booked) = 1
  BY <1>3, FS_Singleton
<1>5. DistancesBound
  <2>1. MapPoints \in SUBSET PointsOf(mapPointCount)
    BY <1>1
  <2>2. \A p \in MapPoints : Via(map, MapPoints, 0, p) <= map[0][p]
    BY <1>1, <2>1, ViaNone
  <2> QED
    BY <1>1, <1>2, <2>2 DEF DistancesBound, IsMap
<1>6. Spread(0)
  <2>1. \A q \in MapPoints : map[0][q] \in Nat /\ map[0][0] = 0
    BY <1>1 DEF IsMap
  <2> QED
    BY <1>2, <2>1 DEF Spread
<1>7. BookedSpread
  BY <1>2, <1>3, <1>6 DEF BookedSpread
<1> QED
  BY <1>1, <1>2, <1>4, <1>5, <1>7 DEF SpreadInv, RoundsBook

LEMMA SpreadInvStays ==
  ASSUME SpreadInv, UNCHANGED Map!vars
  PROVE  SpreadInv'
BY DEF SpreadInv, DistancesBound, BookedSpread, RoundsBook, Booked, Spread, MapPoints,
       Map!Points, Map!Candidates, Map!vars, Map!graph

LEMMA BookSpread ==
  ASSUME MapInv, SpreadInv, Map!Book
  PROVE  SpreadInv'
<1>1. /\ mapPhase = "nearest" /\ mapPhase' = "relax" /\ v' = 0
      /\ u' \in IF Map!Candidates = {} THEN {u} ELSE Map!Nearest
      /\ mapBook' = [mapBook EXCEPT ![u'] = 1]
      /\ UNCHANGED <<mapPointCount, map, auiDis, mapI>> /\ MapPoints' = MapPoints
  BY DEF Map!Book, Map!graph, MapPoints, Map!Points
<1>2. /\ IsMap(map, mapPointCount) /\ u \in MapPoints
      /\ \A p \in MapPoints : p \in Nat
      /\ Booked \in SUBSET MapPoints /\ u \in Booked
      /\ IsFiniteSet(Booked) /\ Cardinality(Booked) \in Nat
      /\ mapBook \in [MapPoints -> {0, 1}]
  BY MapFacts DEF MapInv, MapTypes
<1>3. /\ mapI \in Nat /\ \A p \in Booked : Spread(p)
      /\ Cardinality(Booked) >= mapI + 1 \/ Map!Candidates = {}
  BY <1>1 DEF SpreadInv, BookedSpread, RoundsBook
<1>4. \A p \in MapPoints : Spread(p)' <=> Spread(p)
  BY <1>1 DEF Spread
<1>5. u' \in MapPoints
  BY <1>1, <1>2 DEF Map!Nearest, Map!Candidates, MapPoints
<1>6. Booked' = Booked \cup {u'}
  <2>1. \A p \in MapPoints : mapBook'[p] = IF p = u' THEN 1 ELSE mapBook[p]
    BY <1>1, <1>2, <1>5
  <2> QED
    BY <1>1, <1>5, <2>1 DEF Booked
<1>7. BookedSpread'
  <2> SUFFICES ASSUME NEW p \in Booked \cup {u'}
               PROVE  IF p = u' THEN \A q \in MapPoints : q < 0 => auiDis[q] <= auiDis[u'] + map[u'][q]
                                ELSE Spread(p)'
    BY <1>1, <1>6 DEF BookedSpread
  <2>1. \A q \in MapPoints : ~(q < 0)
    BY <1>2
  <2>2. p # u' => p \in Booked /\ p \in MapPoints
    BY <1>2
  <2> QED
    BY <1>3, <1>4, <2>1, <2>2
<1>8. Cardinality(Booked') >= mapI + 2 \/ (Map!Candidates' = {} /\ Spread(u'))
  <2>1. CASE Map!Candidates = {}
    <3>1. u' = u
      BY <1>1, <2>1
    <3>2. mapBook' = mapBook
      BY <1>1, <1>2, <3>1 DEF Booked
    <3>3. Map!Candidates' = {}
      BY <1>1, <2>1, <3>2 DEF Map!Candidates, Map!Points
    <3> QED
      BY <1>2, <1>3, <3>1, <3>3
  <2>2. CASE Map!Candidates # {}
    <3>1. u' \in Map!Candidates
      BY <1>1, <2>2 DEF Map!Nearest
    <3>2. u' \notin Booked
      BY <3>1 DEF Map!Candidates, Booked
    <3>3. Cardinality(Booked \cup {u'}) = Cardinality(Booked) + 1
      BY <1>2, <3>2, FS_AddElement
    <3> QED
      BY <1>2, <1>3, <1>6, <2>2, <3>3
  <2> QED
    BY <2>1, <2>2
<1>9. Spread(u') => Spread(u)'
  BY <1>1 DEF Spread
<1>10. RoundsBook'
  BY <1>1, <1>3, <1>8, <1>9 DEF RoundsBook
<1>11. IsMap(map, mapPointCount)' /\ DistancesBound'
  BY <1>1 DEF SpreadInv, DistancesBound, IsMap
<1> QED
  BY <1>7, <1>10, <1>11 DEF SpreadInv

LEMMA RelaxSpread ==
  ASSUME MapInv, SpreadInv, Map!Relax
  PROVE  SpreadInv'
<1>1. /\ mapPhase = "relax" /\ v < mapPointCount /\ v' = v + 1
      /\ UNCHANGED <<mapPointCount, map, mapBook, mapI, u, mapPhase>>
      /\ MapPoints' = MapPoints /\ Booked' = Booked
      /\ auiDis' = IF map[u][v] < INVAILD /\ auiDis[v] > auiDis[u] + map[u][v]
                   THEN [auiDis EXCEPT ![v] = auiDis[u] + map[u][v]] ELSE auiDis
  BY MapNames DEF Map!Relax, Map!graph, MapPoints, Map!Points, Booked
<1>2. /\ IsMap(map, mapPointCount) /\ MapPoints = PointsOf(mapPointCount)
      /\ 0 \in MapPoints /\ u \in MapPoints /\ u \in Booked /\ v \in Nat
      /\ \A p \in MapPoints : auiDis[p] \in Nat /\ auiDis[p] <= INVAILD /\ p \in Nat
      /\ \A p, q \in MapPoints : map[p][q] \in Nat
      /\ auiDis \in [MapPoints -> Nat] /\ Booked \in SUBSET MapPoints
  BY MapFacts DEF MapInv, MapTypes
<1>3. v \in MapPoints
  BY <1>1, <1>2 DEF PointsOf, IsMap
<1>4. PICK d : d = auiDis[u] + map[u][v]
  OBVIOUS
<1>5. d \in Nat /\ Via(map, MapPoints, 0, v) <= d
  <2>1. d \in Nat
    <3>1. auiDis[u] \in Nat /\ map[u][v] \in Nat
      BY <1>2, <1>3
    <3> QED
      BY <1>4, <3>1
  <2>2. MapPoints \in SUBSET PointsOf(mapPointCount) /\ MapPoints \cup {u} = MapPoints
    BY <1>2
  <2>3. Via(map, MapPoints \cup {u}, 0, v) <= Via(map, MapPoints, 0, u) + Via(map, MapPoints, u, v)
    BY <1>2, <1>3, <2>2, ViaTriangle
  <2>4. Via(map, MapPoints, u, v) <= map[u][v]
    BY <1>2, <1>3, <2>2, ViaNone
  <2>5. Via(map, MapPoints, 0, u) <= auiDis[u]
    BY <1>2 DEF SpreadInv, DistancesBound
  <2>6. /\ Via(map, MapPoints, 0, v) \in Nat /\ Via(map, MapPoints, 0, u) \in Nat
        /\ Via(map, MapPoints, u, v) \in Nat
    BY <1>2, <1>3, <2>2, ViaIs
  <2>7. Via(map, MapPoints, 0, v) <= Via(map, MapPoints, 0, u) + Via(map, MapPoints, u, v)
    BY <2>2, <2>3
  <2> QED
    BY <1>2, <1>3, <1>4, <2>1, <2>4, <2>5, <2>6, <2>7
<1>6. /\ \A p \in MapPoints \ {v} : auiDis'[p] = auiDis[p]
      /\ auiDis'[v] \in Nat /\ auiDis'[v] <= auiDis[v] /\ auiDis'[v] <= d
      /\ auiDis'[v] = auiDis[v] \/ auiDis'[v] = d
      /\ auiDis'[v] # auiDis[v] => auiDis[v] > d
  <2>1. CASE map[u][v] < INVAILD /\ auiDis[v] > d
    <3>1. auiDis' = [auiDis EXCEPT ![v] = d]
      BY <1>1, <1>4, <2>1
    <3>2. auiDis'[v] = d /\ \A p \in MapPoints \ {v} : auiDis'[p] = auiDis[p]
      BY <1>2, <1>3, <3>1
    <3> QED
      BY <1>2, <1>3, <1>5, <2>1, <3>2
  <2>2. CASE ~(map[u][v] < INVAILD /\ auiDis[v] > d)
    <3>1. auiDis' = auiDis
      BY <1>1, <1>4, <2>2
    <3>2. auiDis[v] <= d
      <4>1. INVAILD \in Nat
        BY SMT DEF INVAILD
      <4>2. auiDis[v] <= INVAILD /\ auiDis[u] \in Nat /\ map[u][v] \in Nat /\ auiDis[v] \in Nat
        BY <1>2, <1>3
      <4> QED
        BY <1>4, <2>2, <4>1, <4>2
    <3> QED
      BY <1>2, <1>3, <3>1, <3>2
  <2> QED
    BY <2>1, <2>2
<1>7. \A p \in MapPoints : auiDis'[p] <= auiDis[p] /\ auiDis'[p] \in Nat
  <2> SUFFICES ASSUME NEW p \in MapPoints PROVE auiDis'[p] <= auiDis[p] /\ auiDis'[p] \in Nat
    OBVIOUS
  <2>1. CASE p = v
    BY <1>6, <2>1
  <2>2. CASE p # v
    BY <1>2, <1>6, <2>2
  <2> QED
    BY <2>1, <2>2
<1>8. \A p \in Booked : auiDis'[p] = auiDis[p]
  <2>1. auiDis' = auiDis \/ v \notin Booked
    BY RelaxedIsNotBooked DEF Booked
  <2> QED
    BY <1>2, <1>6, <2>1
<1>9. DistancesBound'
  <2>1. auiDis'[0] = 0
    <3>1. auiDis[0] = 0 /\ auiDis'[0] <= auiDis[0] /\ auiDis'[0] \in Nat
      BY <1>2, <1>7 DEF SpreadInv, DistancesBound
    <3> QED
      BY <3>1
  <2>2. ASSUME NEW p \in MapPoints
        PROVE  auiDis'[p] <= INVAILD /\ Via(map, MapPoints, 0, p) <= auiDis'[p]
    <3>1. /\ auiDis[p] <= INVAILD /\ Via(map, MapPoints, 0, p) <= auiDis[p]
          /\ auiDis[p] \in Nat /\ auiDis'[p] \in Nat /\ auiDis'[p] <= auiDis[p]
      BY <1>2, <1>7 DEF SpreadInv, DistancesBound
    <3>2. INVAILD \in Nat
      BY SMT DEF INVAILD
    <3>3. Via(map, MapPoints, 0, p) <= auiDis'[p]
      BY <1>5, <1>6, <3>1
    <3> QED
      BY <3>1, <3>2, <3>3
  <2> QED
    BY <1>1, <2>1, <2>2 DEF DistancesBound
<1>10. BookedSpread'
  <2> SUFFICES ASSUME NEW p \in Booked
               PROVE  IF p = u THEN \A q \in MapPoints : q < v + 1 => auiDis'[q] <= auiDis'[u] + map[u][q]
                      ELSE \A q \in MapPoints : auiDis'[q] <= auiDis'[p] + map[p][q]
    BY <1>1 DEF BookedSpread, Spread
  <2>1. CASE p = u
    <3> SUFFICES ASSUME NEW q \in MapPoints, q < v + 1
                 PROVE  auiDis'[q] <= auiDis'[u] + map[u][q]
      BY <2>1
    <3>1. auiDis'[u] = auiDis[u] /\ auiDis[u] \in Nat /\ map[u][q] \in Nat
      BY <1>2, <1>8
    <3>2. CASE q = v
      BY <1>4, <1>6, <3>1, <3>2
    <3>3. CASE q # v
      <4>1. q < v
        BY <1>2, <3>3
      <4>2. auiDis[q] <= auiDis[u] + map[u][q]
        BY <1>1, <1>2, <4>1 DEF SpreadInv, BookedSpread
      <4>3. auiDis'[q] = auiDis[q]
        BY <1>6, <3>3
      <4> QED
        BY <3>1, <4>2, <4>3
    <3> QED
      BY <3>2, <3>3
  <2>2. CASE p # u
    <3> SUFFICES ASSUME NEW q \in MapPoints PROVE auiDis'[q] <= auiDis'[p] + map[p][q]
      BY <2>2
    <3>1. auiDis[q] <= auiDis[p] + map[p][q]
      BY <2>2 DEF SpreadInv, BookedSpread, Spread
    <3>2. /\ auiDis'[p] = auiDis[p] /\ auiDis[p] \in Nat /\ map[p][q] \in Nat
          /\ auiDis'[q] <= auiDis[q] /\ auiDis'[q] \in Nat /\ auiDis[q] \in Nat
      BY <1>2, <1>7, <1>8
    <3> QED
      BY <3>1, <3>2
  <2> QED
    BY <2>1, <2>2
<1>11. RoundsBook'
  <2>1. /\ mapI \in Nat
        /\ Cardinality(Booked) >= mapI + 2 \/ (Map!Candidates = {} /\ Spread(u))
    BY <1>1 DEF SpreadInv, RoundsBook
  <2>2. CASE Cardinality(Booked) >= mapI + 2
    BY <1>1, <2>1, <2>2 DEF RoundsBook
  <2>3. CASE Map!Candidates = {} /\ Spread(u)
    <3>1. ~(auiDis[v] > d)
      <4>1. auiDis[v] <= d
        BY <1>3, <1>4, <2>3 DEF Spread
      <4> QED
        BY <1>2, <1>3, <1>5, <4>1
    <3>2. auiDis' = auiDis
      BY <1>1, <1>4, <3>1
    <3>3. Map!Candidates' = {} /\ Spread(u)'
      BY <1>1, <2>3, <3>2 DEF Map!Candidates, Map!Points, Spread
    <3> QED
      BY <1>1, <2>1, <3>3 DEF RoundsBook
  <2> QED
    BY <2>1, <2>2, <2>3
<1> QED
  BY <1>1, <1>2, <1>9, <1>10, <1>11 DEF SpreadInv

LEMMA RelaxedAllSpread ==
  ASSUME MapInv, SpreadInv, Map!RelaxedAll
  PROVE  SpreadInv'
<1>1. /\ mapPhase = "relax" /\ mapPhase' = "nearest" /\ mapI' = mapI + 1 /\ v >= mapPointCount
      /\ UNCHANGED <<mapPointCount, map, auiDis, mapBook, u, v>>
      /\ MapPoints' = MapPoints /\ Booked' = Booked /\ Map!Candidates' = Map!Candidates
  BY DEF Map!RelaxedAll, Map!graph, MapPoints, Map!Points, Booked, Map!Candidates
<1>2. \A p \in Booked : Spread(p)
  <2> SUFFICES ASSUME NEW p \in Booked, p = u PROVE Spread(p)
    BY DEF SpreadInv, BookedSpread
  <2>1. \A q \in MapPoints : q < v
    <3>1. \A q \in MapPoints : q \in Nat /\ q < mapPointCount
      BY MapFacts
    <3>2. v \in Nat /\ mapPointCount \in Nat
      BY MapFacts DEF MapInv, MapTypes
    <3> QED
      BY <1>1, <3>1, <3>2
  <2> QED
    BY <1>1, <2>1 DEF SpreadInv, BookedSpread, Spread
<1>3. BookedSpread'
  BY <1>1, <1>2 DEF BookedSpread, Spread
<1>4. RoundsBook'
  <2>1. mapI \in Nat /\ (Cardinality(Booked) >= mapI + 2 \/ Map!Candidates = {})
    BY <1>1 DEF SpreadInv, RoundsBook
  <2>2. Cardinality(Booked) >= mapI + 2 => Cardinality(Booked) >= (mapI + 1) + 1
    <3>1. (mapI + 1) + 1 = mapI + 2
      BY <2>1
    <3> QED
      BY <3>1
  <2> QED
    BY <1>1, <2>1, <2>2 DEF RoundsBook
<1> QED
  BY <1>1, <1>3, <1>4 DEF SpreadInv, DistancesBound

LEMMA SpreadInvStep ==
  ASSUME MapInv, SpreadInv, Map!NextBoth
  PROVE  SpreadInv'
<1>1. CASE Map!Return
  BY <1>1 DEF Map!Return, Map!graph, SpreadInv, DistancesBound, BookedSpread, RoundsBook, Booked,
              Spread, MapPoints, Map!Points, Map!Candidates
<1>2. CASE Map!Done
  BY <1>2, SpreadInvStays DEF Map!Done
<1>3. CASE Map!Floyd!Next /\ UNCHANGED Map!dijkstraVars
  <2>1. UNCHANGED <<mapPointCount, map>>
    BY <1>3 DEF Map!Floyd!Next, Map!Floyd!Shorten, Map!Floyd!Done, Map!Floyd!vars
  <2>2. UNCHANGED Map!vars
    BY <1>3, <2>1 DEF Map!dijkstraVars, Map!vars, Map!graph
  <2> QED
    BY <2>2, SpreadInvStays
<1> QED
  BY <1>1, <1>2, <1>3, BookSpread, RelaxSpread, RelaxedAllSpread DEF Map!NextBoth, Map!Next

LEMMA MapDistancesHold ==
  ASSUME MapInv, SpreadInv
  PROVE  MapDistances
<1> SUFFICES ASSUME mapPhase = "done", NEW p \in MapPoints
             PROVE  auiDis[p] = Via(map, MapPoints, 0, p)
  BY DEF MapDistances, Map!Distances, Via, MapPoints
<1>1. /\ IsMap(map, mapPointCount) /\ MapPoints = PointsOf(mapPointCount)
      /\ 0 \in MapPoints /\ mapPointCount \in Nat \ {0}
      /\ \A q \in MapPoints : auiDis[q] \in Nat /\ auiDis[q] <= INVAILD /\ mapBook[q] \in {0, 1}
      /\ \A q, r \in MapPoints : map[q][r] \in Nat
      /\ Booked \in SUBSET MapPoints /\ IsFiniteSet(Booked) /\ Cardinality(Booked) \in Nat
      /\ IsFiniteSet(MapPoints) /\ Cardinality(MapPoints) = mapPointCount
      /\ MapPoints \in SUBSET PointsOf(mapPointCount)
  BY MapFacts
<1>2. /\ \A q \in Booked : Spread(q)
      /\ Cardinality(Booked) >= mapI + 1 \/ Map!Candidates = {}
      /\ mapI \in Nat /\ mapI >= mapPointCount - 1
  BY DEF SpreadInv, BookedSpread, RoundsBook
<1>3. INVAILD \in Nat
  BY SMT DEF INVAILD
<1>4. \A q \in MapPoints : Spread(q)
  <2>1. CASE Map!Candidates = {}
    <3> SUFFICES ASSUME NEW q \in MapPoints, q \notin Booked PROVE Spread(q)
      BY <1>2
    <3>1. ~(auiDis[q] < INVAILD)
      BY <1>1, <2>1, MapNames DEF Map!Candidates, Booked, MapPoints
    <3> SUFFICES ASSUME NEW r \in MapPoints PROVE auiDis[r] <= auiDis[q] + map[q][r]
      BY DEF Spread
    <3>2. /\ auiDis[r] \in Nat /\ auiDis[r] <= INVAILD /\ auiDis[q] \in Nat
          /\ map[q][r] \in Nat
      BY <1>1
    <3> QED
      BY <1>3, <3>1, <3>2
  <2>2. CASE Cardinality(Booked) >= mapI + 1
    <3>1. Cardinality(Booked) <= mapPointCount
      BY <1>1, FS_Subset
    <3>2. Cardinality(Booked) = mapPointCount
      BY <1>1, <1>2, <2>2, <3>1
    <3>3. Booked = MapPoints
      BY <1>1, <3>2, FS_Subset
    <3> QED
      BY <1>2, <3>3
  <2> QED
    BY <1>2, <2>1, <2>2
<1>5. ASSUME NEW m, NEW t, IsPath(mapPointCount, MapPoints, t, m), t[0] = 0, t[m] = p
      PROVE  auiDis[p] <= PathLength(map, t, m)
  <2> DEFINE f == Legs(map, t, m)
             d == [x \in 0..m |-> auiDis[t[x]]]
             c == 0
  <2>1. m \in Nat /\ t \in [0..m -> MapPoints] /\ 0 \in 0..m /\ m \in 0..m
    BY <1>1, <1>5 DEF IsPath
  <2>0. IsRow(mapPointCount, t, m)
    BY <1>1, <2>1 DEF IsRow
  <2>2. \A x \in 1..m : f[x] = map[t[x - 1]][t[x]] /\ f[x] \in Nat
    BY <1>1, <2>0, LegsAre
  <2>3. \A x \in 0..m : d[x] = auiDis[t[x]] /\ d[x] \in Int /\ t[x] \in MapPoints
    BY <1>1, <2>1
  <2>4. d[0] <= c /\ c \in Int
    <3>1. d[0] = 0
      BY <1>5, <2>1, <2>3 DEF SpreadInv, DistancesBound
    <3> QED
      BY <3>1
  <2>5. \A x \in 0..(m - 1) : d[x + 1] <= d[x] + f[x + 1]
    <3> SUFFICES ASSUME NEW x \in 0..(m - 1) PROVE d[x + 1] <= d[x] + f[x + 1]
      OBVIOUS
    <3>1. x \in 0..m /\ x + 1 \in 0..m /\ x + 1 \in 1..m /\ (x + 1) - 1 = x
      BY <2>1
    <3>2. auiDis[t[x + 1]] <= auiDis[t[x]] + map[t[x]][t[x + 1]]
      BY <1>4, <2>3, <3>1 DEF Spread
    <3> HIDE DEF d, f
    <3> QED
      BY <2>2, <2>3, <3>1, <3>2
  <2> HIDE DEF f, d, c
  <2>6. d[m] <= c + SumOver(f, 1..m)
    <3>1. m \in Nat /\ (\A x \in 1..m : f[x] \in Int)
      BY <2>1, <2>2
    <3>2. \A x \in 0..m : d[x] \in Int
      BY <2>3
    <3>3. \A x \in 0..(m - 1) : d[x] <= c + SumOver(f, 1..x) => d[x + 1] <= d[x] + f[x + 1]
      BY <2>5
    <3> QED
      BY <2>4, <3>1, <3>2, <3>3, Telescope
  <2>7. PathLength(map, t, m) \in Nat /\ PathLength(map, t, m) = SumOver(f, 1..m)
    BY <1>1, <2>0, LegsAre DEF PathLength, f
  <2>8. d[m] = auiDis[p]
    BY <1>5, <2>1, <2>3
  <2> QED
    BY <2>6, <2>7, <2>8 DEF c
<1>6. auiDis[p] <= Via(map, MapPoints, 0, p)
  <2>1. CASE Via(map, MapPoints, 0, p) = INVAILD
    BY <1>1, <2>1
  <2>2. \/ Via(map, MapPoints, 0, p) = INVAILD
        \/ \E m : \E t : /\ IsPath(mapPointCount, MapPoints, t, m) /\ t[0] = 0 /\ t[m] = p
                        /\ Via(map, MapPoints, 0, p) = PathLength(map, t, m)
    BY <1>1, ViaIs
  <2> QED
    BY <1>5, <2>1, <2>2
<1>7. Via(map, MapPoints, 0, p) <= auiDis[p] /\ Via(map, MapPoints, 0, p) \in Nat
  BY <1>1, ViaIs DEF SpreadInv, DistancesBound
<1> QED
  BY <1>1, <1>6, <1>7

-----------------------------------------------------------------------------
(* The sort.  Both phases keep a range of places from which on the heap is  *)
(* in order, but for the place SiftDown is at.                              *)

HeapTypes ==
  /\ uiCount \in Nat
  /\ numbers \in [0..(uiCount - 1) -> Numbers]
  /\ heap \in [1..uiCount -> Numbers]
  /\ heapPhase \in {"create", "pop", "done"}
  /\ uiTempCount \in 0..uiCount /\ uiIndex \in Nat /\ heapI \in Nat
  /\ heapPhase = "create" =>
       /\ uiTempCount = uiCount /\ heapI <= uiCount
       /\ uiIndex > 0 => uiIndex > heapI /\ uiIndex <= uiCount
  /\ heapPhase # "create" =>
       /\ heapI \in 1..(uiCount + 1) /\ uiTempCount = (uiCount + 1) - heapI
       /\ uiIndex <= uiTempCount \/ uiIndex = 1
  /\ heapPhase = "done" => uiIndex = 0

HeapInv == HeapTypes /\ Heap!HeapOrder /\ Heap!PoppedSorted

LEMMA NumbersCompare ==
  \A x, y, z \in Numbers : /\ x \in Nat
                           /\ x <= x
                           /\ x <= y \/ y <= x
                           /\ x <= y /\ y <= z => x <= z
                           /\ ~(x > y) => x <= y
                           /\ x > y => y <= x
BY AlgorithmParameters

LEMMA HeapInvInit == Heap!Init => HeapInv
<1> SUFFICES ASSUME Heap!Init PROVE HeapInv
  OBVIOUS
<1>1. uiCount \in Nat
  BY AlgorithmParameters DEF Heap!Init
<1>2. HeapTypes
  BY <1>1 DEF Heap!Init, HeapTypes
<1>3. Heap!HeapOrder
  <2>1. \A x \in Heap!Ordered : 2 * x > uiTempCount /\ 2 * x + 1 > uiTempCount
    BY <1>1 DEF Heap!Init, Heap!Ordered
  <2>2. uiIndex = 0 /\ \A x \in Heap!Ordered : x \in Nat
    BY <1>1 DEF Heap!Init, Heap!Ordered
  <2> QED
    BY <1>1, <2>1, <2>2 DEF Heap!HeapOrder, Heap!OverChildren, Heap!Init
<1>4. Heap!PoppedSorted
  BY DEF Heap!Init, Heap!PoppedSorted
<1> QED
  BY <1>2, <1>3, <1>4 DEF HeapInv

\* Of a number and its children Smallest is the place of the least.
LEMMA SmallestIs ==
  ASSUME HeapTypes, uiIndex > 0, 2 * uiIndex <= uiTempCount
  PROVE  /\ Heap!Smallest(uiIndex) \in {uiIndex, 2 * uiIndex, 2 * uiIndex + 1}
         /\ Heap!Smallest(uiIndex) \in 1..uiTempCount
         /\ \A c \in {uiIndex, 2 * uiIndex, 2 * uiIndex + 1} :
              c <= uiTempCount => heap[Heap!Smallest(uiIndex)] <= heap[c]
<1> DEFINE x == uiIndex
           l == IF heap[x] > heap[2 * x] THEN 2 * x ELSE x
           r == 2 * x + 1
<1>1. /\ x \in 1..uiTempCount /\ 2 * x \in 1..uiTempCount /\ uiTempCount \in 0..uiCount
      /\ r <= uiTempCount => r \in 1..uiTempCount
      /\ r \in Nat /\ x < 2 * x
  BY DEF HeapTypes
<1>2. \A c \in 1..uiTempCount : heap[c] \in Numbers
  BY DEF HeapTypes
<1>3. l \in {x, 2 * x} /\ l \in 1..uiTempCount /\ heap[l] <= heap[x] /\ heap[l] <= heap[2 * x]
  <2>1. CASE heap[x] > heap[2 * x]
    BY <1>1, <1>2, <2>1, NumbersCompare
  <2>2. CASE ~(heap[x] > heap[2 * x])
    BY <1>1, <1>2, <2>2, NumbersCompare
  <2> QED
    BY <2>1, <2>2
<1>4. Heap!Smallest(x) = IF r <= uiTempCount /\ heap[l] > heap[r] THEN r ELSE l
  BY DEF Heap!Smallest
<1> HIDE DEF l, x, r
<1>5. CASE r <= uiTempCount /\ heap[l] > heap[r]
  <2>1. Heap!Smallest(x) = r /\ heap[r] <= heap[l]
    BY <1>1, <1>2, <1>3, <1>4, <1>5, NumbersCompare
  <2>2. heap[r] <= heap[x] /\ heap[r] <= heap[2 * x] /\ heap[r] <= heap[r]
    BY <1>1, <1>2, <1>3, <1>5, <2>1, NumbersCompare
  <2> QED
    BY <1>1, <1>5, <2>1, <2>2 DEF r, x
<1>6. CASE ~(r <= uiTempCount /\ heap[l] > heap[r])
  <2>1. Heap!Smallest(x) = l
    BY <1>4, <1>6
  <2>2. r <= uiTempCount => heap[l] <= heap[r]
    BY <1>1, <1>2, <1>3, <1>6, NumbersCompare
  <2> QED
    BY <1>1, <1>3, <2>1, <2>2 DEF r, x
<1> QED
  BY <1>5, <1>6

\* One swap of SiftDown: the number that does not belong there sinks from x to c.
LEMMA SiftOnOrder ==
  ASSUME HeapInv, Heap!SiftOn
  PROVE  HeapInv'
<1> DEFINE x == uiIndex
           c == Heap!Smallest(x)
<1>1. /\ x > 0 /\ 2 * x <= uiTempCount /\ c # x
      /\ heap' = [heap EXCEPT ![x] = heap[c], ![c] = heap[x]]
      /\ uiIndex' = c
      /\ UNCHANGED <<numbers, uiCount, uiTempCount, heapI, heapPhase>>
  BY DEF Heap!SiftOn
<1>2. HeapTypes
  BY DEF HeapInv
<1>3. /\ c \in {2 * x, 2 * x + 1} /\ c \in 1..uiTempCount
      /\ \A y \in {x, 2 * x, 2 * x + 1} : y <= uiTempCount => heap[c] <= heap[y]
  BY <1>1, <1>2, SmallestIs
<1> HIDE DEF c
<1>4. /\ x \in 1..uiTempCount /\ uiTempCount \in 0..uiCount /\ uiCount \in Nat
      /\ heap \in [1..uiCount -> Numbers]
      /\ x < c /\ c \div 2 = x
  BY <1>1, <1>2, <1>3 DEF HeapTypes
<1> HIDE DEF x
<1>5. \A y \in 1..uiCount : heap'[y] = IF y = c THEN heap[x] ELSE IF y = x THEN heap[c] ELSE heap[y]
  BY <1>1, <1>3, <1>4
<1>6. heap' \in [1..uiCount -> Numbers]
  BY <1>1, <1>3, <1>4
<1>7. HeapTypes'
  BY <1>1, <1>2, <1>3, <1>4, <1>6 DEF HeapTypes, x
<1>8. Heap!Ordered' = Heap!Ordered /\ Heap!Ordered \subseteq 1..uiTempCount
      /\ c \in Heap!Ordered
  BY <1>1, <1>2, <1>3, <1>4 DEF Heap!Ordered, HeapTypes, x
<1>9. \A y \in 1..uiTempCount : y \in 1..uiCount /\ heap[y] \in Numbers
  BY <1>4
<1>10. \A y \in Heap!Ordered \ {x}, d \in Nat :
         d \in {2 * y, 2 * y + 1} /\ d <= uiTempCount => heap[y] <= heap[d]
  BY DEF HeapInv, Heap!HeapOrder, Heap!OverChildren, x
<1>11. x \div 2 \in Heap!Ordered => heap[x \div 2] <= heap[c]
  BY <1>3, <1>4 DEF HeapInv, Heap!HeapOrder, x
<1>12. ASSUME NEW y \in Heap!Ordered \ {c}, NEW d \in {2 * y, 2 * y + 1}, d <= uiTempCount
       PROVE  heap'[y] <= heap'[d]
  <2>1. y \in 1..uiTempCount /\ d \in 1..uiTempCount /\ d # y /\ d \div 2 = y
    BY <1>4, <1>8, <1>12
  <2>2. CASE y = x
    <3>1. heap'[y] = heap[c] /\ heap[c] <= heap[d]
      BY <1>3, <1>4, <1>5, <1>9, <1>12, <2>1, <2>2
    <3>2. heap'[d] \in {heap[x], heap[d]} /\ heap[c] <= heap[x]
      BY <1>3, <1>4, <1>5, <1>9, <2>1, <2>2
    <3> QED
      BY <3>1, <3>2
  <2>3. CASE y # x /\ d = x
    <3>1. heap'[y] = heap[y] /\ heap'[d] = heap[c] /\ y = x \div 2
      BY <1>4, <1>5, <1>9, <1>12, <2>1, <2>3
    <3> QED
      BY <1>11, <1>12, <3>1
  <2>4. CASE y # x /\ d # x
    <3>1. d # c
      BY <1>4, <2>1, <2>4
    <3>2. heap'[y] = heap[y] /\ heap'[d] = heap[d]
      BY <1>5, <1>9, <1>12, <2>1, <2>4, <3>1
    <3> QED
      BY <1>10, <1>12, <2>1, <2>4, <3>2
  <2> QED
    BY <2>2, <2>3, <2>4
<1>13. ASSUME NEW d \in {2 * c, 2 * c + 1}, d <= uiTempCount
       PROVE  heap'[x] <= heap'[d]
  <2>1. d \in 1..uiTempCount /\ d # c /\ d # x
    BY <1>3, <1>4, <1>13
  <2>2. heap'[x] = heap[c] /\ heap'[d] = heap[d]
    BY <1>4, <1>5, <1>9, <2>1
  <2> QED
    BY <1>4, <1>8, <1>10, <1>13, <2>1, <2>2
<1>14. Heap!HeapOrder'
  BY <1>1, <1>4, <1>8, <1>12, <1>13 DEF Heap!HeapOrder, Heap!OverChildren
<1>15. Heap!PoppedSorted'
  <2>1. \A y \in 1..uiTempCount : \E z \in 1..uiTempCount : heap'[y] = heap[z]
    BY <1>3, <1>4, <1>5, <1>9
  <2> QED
    BY <1>1, <2>1 DEF HeapInv, Heap!PoppedSorted
<1> QED
  BY <1>7, <1>14, <1>15 DEF HeapInv

LEMMA SiftEndOrder ==
  ASSUME HeapInv, Heap!SiftEnd
  PROVE  HeapInv'
<1>1. /\ uiIndex > 0 /\ uiIndex' = 0
      /\ 2 * uiIndex <= uiTempCount => Heap!Smallest(uiIndex) = uiIndex
      /\ UNCHANGED <<numbers, heap, uiCount, uiTempCount, heapI, heapPhase>>
  BY DEF Heap!SiftEnd
<1>2. HeapTypes /\ HeapTypes'
  BY <1>1 DEF HeapInv, HeapTypes
<1>3. Heap!OverChildren(uiIndex)
  <2>1. CASE 2 * uiIndex <= uiTempCount
    BY <1>1, <1>2, <2>1, SmallestIs DEF Heap!OverChildren
  <2>2. CASE ~(2 * uiIndex <= uiTempCount)
    BY <1>2, <2>2 DEF Heap!OverChildren, HeapTypes
  <2> QED
    BY <2>1, <2>2
<1>4. Heap!HeapOrder'
  BY <1>1, <1>3 DEF HeapInv, Heap!HeapOrder, Heap!OverChildren, Heap!Ordered
<1>5. Heap!PoppedSorted'
  BY <1>1 DEF HeapInv, Heap!PoppedSorted
<1> QED
  BY <1>2, <1>4, <1>5 DEF HeapInv

LEMMA CreateOrder ==
  ASSUME HeapInv, Heap!Create
  PROVE  HeapInv'
<1>1. /\ heapPhase = "create" /\ uiIndex = 0
      /\ UNCHANGED <<numbers, heap, uiCount, uiTempCount>>
      /\ \/ heapI >= 1 /\ uiIndex' = heapI /\ heapI' = heapI - 1 /\ heapPhase' = heapPhase
         \/ ~(heapI >= 1) /\ uiIndex' = 0 /\ heapI' = 1 /\ heapPhase' = "pop"
  BY DEF Heap!Create
<1>2. HeapTypes /\ \A y \in (heapI + 1)..uiTempCount : Heap!OverChildren(y)
  <2>1. HeapTypes /\ Heap!HeapOrder
    BY DEF HeapInv
  <2>2. \A y \in (heapI + 1)..uiTempCount : y \in Heap!Ordered \ {uiIndex}
    BY <1>1, <2>1 DEF HeapTypes, Heap!Ordered
  <2> QED
    BY <2>1, <2>2 DEF Heap!HeapOrder
<1>3. HeapTypes'
  BY <1>1, <1>2 DEF HeapTypes
<1>4. CASE heapI >= 1 /\ uiIndex' = heapI /\ heapI' = heapI - 1 /\ heapPhase' = heapPhase
  <2>1. Heap!Ordered' = heapI..uiTempCount
    BY <1>1, <1>2, <1>4 DEF Heap!Ordered, HeapTypes
  <2>2. \A y \in Heap!Ordered' \ {uiIndex'} : y \in (heapI + 1)..uiTempCount
    BY <1>2, <1>4, <2>1 DEF HeapTypes
  <2>3. \A y \in Heap!Ordered' \ {uiIndex'} : Heap!OverChildren(y)'
    BY <1>1, <1>2, <2>2 DEF Heap!OverChildren
  <2>4. uiIndex' \div 2 \notin Heap!Ordered'
    BY <1>2, <1>4, <2>1 DEF HeapTypes
  <2>5. Heap!HeapOrder'
    BY <2>3, <2>4 DEF Heap!HeapOrder
  <2>6. Heap!PoppedSorted'
    BY <1>1, <1>4 DEF Heap!PoppedSorted
  <2> QED
    BY <1>3, <2>5, <2>6 DEF HeapInv
<1>5. CASE ~(heapI >= 1) /\ uiIndex' = 0 /\ heapI' = 1 /\ heapPhase' = "pop"
  <2>1. Heap!Ordered' = (heapI + 1)..uiTempCount
    BY <1>1, <1>2, <1>5 DEF Heap!Ordered, HeapTypes
  <2>2. Heap!HeapOrder'
    BY <1>1, <1>2, <1>5, <2>1 DEF Heap!HeapOrder, Heap!OverChildren
  <2>3. Heap!PoppedSorted'
    BY <1>5 DEF Heap!PoppedSorted
  <2> QED
    BY <1>3, <2>2, <2>3 DEF HeapInv
<1> QED
  BY <1>1, <1>4, <1>5

\* The top of a heap in order is no greater than anything in it.
LEMMA TopIsLeast ==
  ASSUME HeapInv, heapPhase # "create", uiIndex = 0, NEW z \in 1..uiTempCount
  PROVE  heap[1] <= heap[z]
<1> DEFINE N == {m \in Nat : \A y \in 1..uiTempCount : y <= m + 1 => heap[1] <= heap[y]}
<1>1. uiTempCount \in Nat /\ \A y \in 1..uiTempCount : heap[y] \in Numbers
  BY DEF HeapInv, HeapTypes
<1>2. 0 \in N
  BY <1>1, NumbersCompare
<1>3. ASSUME NEW m \in Nat, m \in N PROVE m + 1 \in N
  <2> SUFFICES ASSUME NEW y \in 1..uiTempCount, y = m + 2 PROVE heap[1] <= heap[y]
    BY <1>1, <1>3
  <2>1. y \div 2 \in 1..uiTempCount /\ y \div 2 <= m + 1
        /\ y \in {2 * (y \div 2), 2 * (y \div 2) + 1} /\ 1 \in 1..uiTempCount
    BY <1>1
  <2>2. heap[1] <= heap[y \div 2]
    BY <1>3, <2>1
  <2>3. heap[y \div 2] <= heap[y]
    <3>1. y \div 2 \in Heap!Ordered \ {uiIndex}
      BY <2>1 DEF Heap!Ordered
    <3>2. \A d \in {2 * (y \div 2), 2 * (y \div 2) + 1} :
            d <= uiTempCount => heap[y \div 2] <= heap[d]
      BY <3>1 DEF HeapInv, Heap!HeapOrder, Heap!OverChildren
    <3> QED
      BY <1>1, <2>1, <3>2
  <2> QED
    BY <1>1, <2>1, <2>2, <2>3, NumbersCompare
<1>4. Nat \subseteq N
  <2> HIDE DEF N
  <2> QED
    BY <1>2, <1>3, NatSetInduction
<1>5. z \in N
  BY <1>1, <1>4
<1> QED
  BY <1>1, <1>5

LEMMA PopOrder ==
  ASSUME HeapInv, Heap!Pop
  PROVE  HeapInv'
<1>1. /\ heapPhase = "pop" /\ uiIndex = 0 /\ heapI <= uiCount
      /\ numbers' = [numbers EXCEPT ![heapI - 1] = heap[1]]
      /\ heap' = [heap EXCEPT ![1] = heap[uiTempCount]]
      /\ uiTempCount' = uiTempCount - 1 /\ uiIndex' = 1 /\ heapI' = heapI + 1
      /\ UNCHANGED <<uiCount, heapPhase>>
  BY DEF Heap!Pop
<1>2. /\ HeapTypes
      /\ uiTempCount \in 1..uiCount /\ 1 \in 1..uiCount /\ heapI - 1 \in 0..(uiCount - 1)
      /\ uiCount \in Nat /\ heapI \in Nat /\ heap \in [1..uiCount -> Numbers]
      /\ numbers \in [0..(uiCount - 1) -> Numbers]
  BY <1>1 DEF HeapInv, HeapTypes
<1>3. /\ heap' \in [1..uiCount -> Numbers] /\ numbers' \in [0..(uiCount - 1) -> Numbers]
      /\ \A y \in 1..uiCount : heap'[y] = IF y = 1 THEN heap[uiTempCount] ELSE heap[y]
      /\ \A y \in 0..(uiCount - 1) : numbers'[y] = IF y = heapI - 1 THEN heap[1] ELSE numbers[y]
  BY <1>1, <1>2
<1>4. HeapTypes'
  BY <1>1, <1>2, <1>3 DEF HeapTypes
<1>5. Heap!HeapOrder'
  <2>1. Heap!Ordered' = 1..(uiTempCount - 1)
    BY <1>1 DEF Heap!Ordered
  <2>2. ASSUME NEW y \in 1..(uiTempCount - 1), y # 1, NEW d \in {2 * y, 2 * y + 1},
               d <= uiTempCount - 1
        PROVE  heap'[y] <= heap'[d]
    <3>1. y \in 1..uiCount /\ d \in 1..uiCount /\ d # 1 /\ d <= uiTempCount /\ y \in 1..uiTempCount
      BY <1>2, <2>2
    <3>2. heap[y] <= heap[d]
      <4>1. y \in Heap!Ordered \ {uiIndex}
        BY <1>1, <3>1 DEF Heap!Ordered
      <4> QED
        BY <2>2, <3>1, <4>1 DEF HeapInv, Heap!HeapOrder, Heap!OverChildren
    <3> QED
      BY <1>3, <2>2, <3>1, <3>2
  <2>3. uiIndex' \div 2 \notin Heap!Ordered'
    BY <1>1, <2>1
  <2> QED
    BY <1>1, <2>1, <2>2, <2>3 DEF Heap!HeapOrder, Heap!OverChildren
<1>6. Heap!PoppedSorted'
  <2>1. /\ \A y, z \in 0..(heapI - 2) : y <= z => numbers[y] <= numbers[z]
        /\ \A y \in 0..(heapI - 2) : \A z \in 1..uiTempCount : numbers[y] <= heap[z]
    BY <1>1 DEF HeapInv, Heap!PoppedSorted
  <2>2. \A y \in 0..(heapI - 2) : numbers'[y] = numbers[y] /\ y \in Nat /\ y < heapI - 1
    BY <1>2, <1>3
  <2>3. numbers'[heapI - 1] = heap[1] /\ heap[1] \in Numbers
    BY <1>2, <1>3
  <2>4. \A y \in 0..(heapI' - 2) : y = heapI - 1 \/ y \in 0..(heapI - 2)
    BY <1>1, <1>2
  <2>5. 1 \in 1..uiTempCount
    BY <1>2
  <2>6. \A y, z \in 0..(heapI' - 2) : y <= z => numbers'[y] <= numbers'[z]
    <3> SUFFICES ASSUME NEW y \in 0..(heapI' - 2), NEW z \in 0..(heapI' - 2), y <= z
                 PROVE  numbers'[y] <= numbers'[z]
      OBVIOUS
    <3>1. CASE z = heapI - 1 /\ y = heapI - 1
      BY <2>3, <3>1, NumbersCompare
    <3>2. CASE z = heapI - 1 /\ y \in 0..(heapI - 2)
      BY <2>1, <2>2, <2>3, <2>5, <3>2
    <3>3. CASE z \in 0..(heapI - 2) /\ y = heapI - 1
      BY <1>2, <3>3
    <3>4. CASE z \in 0..(heapI - 2) /\ y \in 0..(heapI - 2)
      BY <2>1, <2>2, <3>4
    <3> QED
      BY <2>4, <3>1, <3>2, <3>3, <3>4
  <2>7. \A z \in 1..(uiTempCount - 1) : \E x \in 1..uiTempCount : heap'[z] = heap[x]
    BY <1>2, <1>3
  <2>8. \A z \in 1..uiTempCount : heap[1] <= heap[z]
    BY <1>1, TopIsLeast
  <2>9. \A y \in 0..(heapI' - 2) : \A z \in 1..(uiTempCount - 1) : numbers'[y] <= heap'[z]
    BY <2>1, <2>2, <2>3, <2>4, <2>7, <2>8
  <2> QED
    BY <1>1, <2>6, <2>9 DEF Heap!PoppedSorted
<1> QED
  BY <1>4, <1>5, <1>6 DEF HeapInv

LEMMA HeapInvStep == HeapInv /\ Heap!Next => HeapInv'
<1>1. ASSUME HeapInv, Heap!Return \/ Heap!Done PROVE HeapInv'
  <2>1. /\ UNCHANGED <<numbers, heap, uiCount, uiTempCount, uiIndex, heapI>>
        /\ heapPhase # "create" /\ heapPhase' = "done" /\ uiIndex = 0
    BY <1>1 DEF Heap!Return, Heap!Done, Heap!vars, HeapInv, HeapTypes
  <2>2. HeapTypes'
    BY <1>1, <2>1 DEF HeapInv, HeapTypes
  <2>3. Heap!HeapOrder' /\ Heap!PoppedSorted'
    BY <1>1, <2>1 DEF HeapInv, Heap!HeapOrder, Heap!PoppedSorted, Heap!OverChildren, Heap!Ordered
  <2> QED
    BY <2>2, <2>3 DEF HeapInv
<1> QED
  BY <1>1, SiftOnOrder, SiftEndOrder, CreateOrder, PopOrder DEF Heap!Next

\* How often a number occurs.
LEMMA OccursIs ==
  \A f, S, n : Heap!Occurs(f, S, n) = Cardinality({x \in S : f[x] = n})
BY DEF Heap!Occurs, Heap!Cardinality, Heap!IsFiniteSet, Cardinality, IsFiniteSet

LEMMA OccursType ==
  ASSUME NEW f, NEW S, IsFiniteSet(S), NEW n
  PROVE  Heap!Occurs(f, S, n) \in Nat
<1>1. IsFiniteSet({x \in S : f[x] = n})
  BY FS_Subset
<1> QED
  BY <1>1, OccursIs, FS_CardinalityType

LEMMA OccursEmpty == \A f, n : Heap!Occurs(f, {}, n) = 0
<1>1. \A f, n : {x \in {} : f[x] = n} = {}
  OBVIOUS
<1> QED
  BY <1>1, OccursIs, FS_EmptySet

One(f, x, n) == IF f[x] = n THEN 1 ELSE 0

LEMMA OccursAdd ==
  ASSUME NEW f, NEW S, IsFiniteSet(S), NEW x, x \notin S, NEW n
  PROVE  Heap!Occurs(f, S \cup {x}, n) = Heap!Occurs(f, S, n) + One(f, x, n)
<1> DEFINE A == {y \in S : f[y] = n}
           B == {y \in S \cup {x} : f[y] = n}
<1>1. IsFiniteSet(A) /\ Cardinality(A) \in Nat
  BY FS_Subset, FS_CardinalityType
<1>2. CASE f[x] = n
  <2>1. B = A \cup {x} /\ x \notin A
    BY <1>2
  <2>2. Cardinality(A \cup {x}) = Cardinality(A) + 1
    <3> HIDE DEF A
    <3> QED
      BY <1>1, <2>1, FS_AddElement
  <2> QED
    BY <1>2, <2>1, <2>2, OccursIs DEF One
<1>3. CASE f[x] # n
  <2>1. B = A
    BY <1>3
  <2> QED
    BY <1>1, <1>3, <2>1, OccursIs DEF One
<1> QED
  BY <1>2, <1>3

LEMMA OccursSame ==
  ASSUME NEW f, NEW g, NEW S, \A x \in S : f[x] = g[x], NEW n
  PROVE  Heap!Occurs(f, S, n) = Heap!Occurs(g, S, n)
<1>1. {x \in S : f[x] = n} = {x \in S : g[x] = n}
  OBVIOUS
<1> QED
  BY <1>1, OccursIs

\* A number is counted apart from the others.
LEMMA OccursTwo ==
  ASSUME NEW f, NEW S, IsFiniteSet(S), NEW x \in S, NEW y \in S, x # y, NEW n
  PROVE  Heap!Occurs(f, S, n) =
           (Heap!Occurs(f, S \ {x, y}, n) + One(f, x, n)) + One(f, y, n)
<1> DEFINE R == S \ {x, y}
           T == R \cup {x}
<1>1. IsFiniteSet(R) /\ x \notin R /\ y \notin T /\ S = T \cup {y}
  BY FS_Subset
<1>2. IsFiniteSet(T)
  BY FS_Subset
<1> HIDE DEF R
<1>3. Heap!Occurs(f, T, n) = Heap!Occurs(f, R, n) + One(f, x, n)
  BY <1>1, OccursAdd
<1> HIDE DEF T
<1>4. Heap!Occurs(f, T \cup {y}, n) = Heap!Occurs(f, T, n) + One(f, y, n)
  BY <1>1, <1>2, OccursAdd
<1> QED
  BY <1>1, <1>3, <1>4 DEF R

LEMMA SiftKeepsNumbers ==
  ASSUME HeapInv, Heap!SiftOn, NEW n
  PROVE  Heap!Occurs(heap', 1..uiTempCount, n) = Heap!Occurs(heap, 1..uiTempCount, n)
<1> DEFINE x == uiIndex
           c == Heap!Smallest(x)
           S == 1..uiTempCount
           R == S \ {x, c}
<1>1. x > 0 /\ 2 * x <= uiTempCount /\ c # x /\ HeapTypes
      /\ heap' = [heap EXCEPT ![x] = heap[c], ![c] = heap[x]]
  BY DEF Heap!SiftOn, HeapInv
<1>2. c \in S /\ x \in S /\ IsFiniteSet(S)
  <2>1. c \in S
    BY <1>1, SmallestIs
  <2>2. x \in S /\ uiTempCount \in Nat
    BY <1>1 DEF HeapTypes
  <2> QED
    BY <2>1, <2>2, FS_Interval
<1>3. S \subseteq 1..uiCount /\ heap \in [1..uiCount -> Numbers]
  BY <1>1 DEF HeapTypes
<1> HIDE DEF x, c, S
<1>4. heap'[x] = heap[c] /\ heap'[c] = heap[x] /\ \A y \in R : heap'[y] = heap[y]
  BY <1>1, <1>2, <1>3
<1>5. One(heap', x, n) = One(heap, c, n) /\ One(heap', c, n) = One(heap, x, n)
  BY <1>4 DEF One
<1>6. Heap!Occurs(heap, S, n) = (Heap!Occurs(heap, R, n) + One(heap, x, n)) + One(heap, c, n)
  BY <1>1, <1>2, OccursTwo
<1>7. Heap!Occurs(heap', S, n) = (Heap!Occurs(heap', R, n) + One(heap', x, n)) + One(heap', c, n)
  BY <1>1, <1>2, OccursTwo
<1>8. IsFiniteSet(R)
  BY <1>2, FS_Subset
<1> HIDE DEF R
<1>9. Heap!Occurs(heap', R, n) = Heap!Occurs(heap, R, n) /\ Heap!Occurs(heap, R, n) \in Nat
  BY <1>4, <1>8, OccursSame, OccursType
<1>10. One(heap, x, n) \in Nat /\ One(heap, c, n) \in Nat
  BY DEF One
<1> QED
  BY <1>5, <1>6, <1>7, <1>9, <1>10 DEF S

LEMMA PopKeepsNumbers ==
  ASSUME HeapInv, Heap!Pop, NEW n
  PROVE  Heap!Held(n)' = Heap!Held(n)
<1> DEFINE t == uiTempCount
           P == 0..(heapI - 2)
           S == 1..t
           T == 1..(t - 1)
<1>1. /\ heapPhase = "pop" /\ heapPhase' = "pop" /\ heapI <= uiCount
      /\ numbers' = [numbers EXCEPT ![heapI - 1] = heap[1]]
      /\ heap' = [heap EXCEPT ![1] = heap[t]]
      /\ uiTempCount' = t - 1 /\ heapI' = heapI + 1
  BY DEF Heap!Pop
<1>2. /\ t \in 1..uiCount /\ heapI \in 1..uiCount /\ uiCount \in Nat
      /\ heap \in [1..uiCount -> Numbers]
      /\ numbers \in [0..(uiCount - 1) -> Numbers]
  BY <1>1 DEF HeapInv, HeapTypes
<1>3. IsFiniteSet(P) /\ IsFiniteSet(S) /\ IsFiniteSet(T)
  BY <1>2, FS_Interval
<1>4. /\ Heap!Held(n) = Heap!Occurs(numbers, P, n) + Heap!Occurs(heap, S, n)
      /\ Heap!Held(n)' = Heap!Occurs(numbers', P \cup {heapI - 1}, n) + Heap!Occurs(heap', T, n)
  <2>1. 0..(heapI' - 2) = P \cup {heapI - 1}
    BY <1>1, <1>2
  <2> QED
    BY <1>1, <2>1 DEF Heap!Held
<1>5. /\ heapI - 1 \notin P
      /\ \A y \in P : numbers'[y] = numbers[y]
      /\ numbers'[heapI - 1] = heap[1] /\ heap'[1] = heap[t]
      /\ \A y \in 2..(t - 1) : heap'[y] = heap[y]
  BY <1>1, <1>2
<1> DEFINE p == Heap!Occurs(numbers, P, n)
           one == One(heap, 1, n)
           last == One(heap, t, n)
<1>6. p \in Nat /\ one \in Nat /\ last \in Nat /\ Heap!Occurs(numbers', P, n) = p
  <2> HIDE DEF P
  <2> QED
    BY <1>3, <1>5, OccursType, OccursSame DEF One
<1>7. Heap!Occurs(numbers', P \cup {heapI - 1}, n) = p + one
  <2> DEFINE x == heapI - 1
  <2>1. x \notin P /\ One(numbers', x, n) = one
    BY <1>5 DEF One
  <2> HIDE DEF P, x
  <2>2. Heap!Occurs(numbers', P \cup {x}, n) = Heap!Occurs(numbers', P, n) + One(numbers', x, n)
    BY <1>3, <2>1, OccursAdd
  <2> QED
    BY <1>6, <2>1, <2>2 DEF x
<1>8. CASE t = 1
  <2>1. S = {} \cup {1} /\ T = {}
    BY <1>8
  <2>2. Heap!Occurs(heap, {} \cup {1}, n) = Heap!Occurs(heap, {}, n) + one
    BY FS_EmptySet, OccursAdd
  <2>3. Heap!Occurs(heap, S, n) = one /\ Heap!Occurs(heap', T, n) = 0
    <3>1. Heap!Occurs(heap, {}, n) = 0 /\ Heap!Occurs(heap', {}, n) = 0
      BY OccursEmpty
    <3> HIDE DEF S, T, one
    <3> QED
      BY <1>6, <2>1, <2>2, <3>1
  <2> HIDE DEF p, one, S, T
  <2> QED
    BY <1>4, <1>6, <1>7, <2>3 DEF p
<1>9. CASE t > 1
  <2> DEFINE R == 2..(t - 1)
             rest == Heap!Occurs(heap, R, n)
  <2>1. 1 \in S /\ t \in S /\ 1 # t /\ S \ {1, t} = R /\ T = R \cup {1} /\ 1 \notin R
    BY <1>2, <1>9
  <2>2. IsFiniteSet(R)
    BY <1>2, FS_Interval
  <2>3. Heap!Occurs(heap, S, n) = (rest + one) + last
    <3> HIDE DEF S, R, t
    <3> QED
      BY <1>3, <2>1, OccursTwo
  <2>4. Heap!Occurs(heap', R, n) = rest /\ rest \in Nat /\ One(heap', 1, n) = last
    <3>1. \A y \in R : heap'[y] = heap[y]
      BY <1>5
    <3> HIDE DEF R
    <3> QED
      BY <1>5, <2>2, <3>1, OccursSame, OccursType DEF One
  <2>5. Heap!Occurs(heap', T, n) = rest + last
    <3>1. Heap!Occurs(heap', R \cup {1}, n) = Heap!Occurs(heap', R, n) + One(heap', 1, n)
      <4> HIDE DEF R
      <4> QED
        BY <2>1, <2>2, OccursAdd
    <3> QED
      BY <2>1, <2>4, <3>1
  <2> HIDE DEF p, one, last, rest, S, T
  <2> QED
    BY <1>4, <1>6, <1>7, <2>3, <2>4, <2>5 DEF p
<1> QED
  BY <1>2, <1>8, <1>9

LEMMA NumbersKept ==
  ASSUME HeapInv, Heap!Next, NEW n
  PROVE  Heap!Held(n)' = Heap!Held(n)
<1>1. CASE Heap!SiftOn
  <2>1. UNCHANGED <<numbers, uiTempCount, heapI, heapPhase>>
    BY <1>1 DEF Heap!SiftOn
  <2> QED
    BY <1>1, <2>1, SiftKeepsNumbers DEF Heap!Held
<1>2. CASE Heap!SiftEnd \/ Heap!Done
  BY <1>2 DEF Heap!SiftEnd, Heap!Done, Heap!vars, Heap!Held
<1>3. CASE Heap!Create
  <2>1. /\ UNCHANGED <<numbers, heap, uiTempCount>> /\ heapPhase = "create"
        /\ \/ heapPhase' = "create"
           \/ heapPhase' = "pop" /\ heapI' = 1
    BY <1>3 DEF Heap!Create
  <2>2. CASE heapPhase' = "create"
    BY <2>1, <2>2 DEF Heap!Held
  <2>3. CASE heapPhase' = "pop" /\ heapI' = 1
    <3>1. 0..(heapI' - 2) = {} /\ uiTempCount \in Nat
      BY <2>3 DEF HeapInv, HeapTypes
    <3>2. Heap!Held(n)' = 0 + Heap!Occurs(heap, 1..uiTempCount, n)
      BY <2>1, <2>3, <3>1, OccursEmpty DEF Heap!Held
    <3>3. Heap!Occurs(heap, 1..uiTempCount, n) \in Nat
      BY <3>1, FS_Interval, OccursType
    <3> QED
      BY <2>1, <3>2, <3>3 DEF Heap!Held
  <2> QED
    BY <2>1, <2>2, <2>3
<1>4. CASE Heap!Return
  BY <1>4 DEF Heap!Return, Heap!Held
<1> QED
  BY <1>1, <1>2, <1>3, <1>4, PopKeepsNumbers DEF Heap!Next

-----------------------------------------------------------------------------
(* The union-find set.  A rank of the points shows that no climb runs in a  *)
(* circle.                                                                  *)

SetPoints == Set!Points

\* A forest: parents have lower ranks.
Ranked(f, r) ==
  /\ f \in [SetPoints -> SetPoints]
  /\ r \in [SetPoints -> Nat]
  /\ \A x \in SetPoints : f[x] # x => r[f[x]] < r[x]

\* The points that every set closed under f has that has y.
Above(f, y) ==
  {z \in SetPoints : \A T \in SUBSET SetPoints :
     y \in T /\ (\A t \in T : f[t] \in T) => z \in T}

LEMMA AboveUnfolds ==
  ASSUME NEW f \in [SetPoints -> SetPoints], NEW y \in SetPoints
  PROVE  Above(f, y) = IF f[y] = y THEN {y} ELSE {y} \cup Above(f, f[y])
<1>1. y \in Above(f, y)
  BY DEF Above
<1>2. CASE f[y] = y
  <2>1. ASSUME NEW z \in Above(f, y) PROVE z = y
    <3>1. {y} \in SUBSET SetPoints /\ y \in {y} /\ \A t \in {y} : f[t] \in {y}
      BY <1>2
    <3> QED
      BY <2>1, <3>1 DEF Above
  <2> QED
    BY <1>1, <1>2, <2>1
<1>3. CASE f[y] # y
  <2>1. ASSUME NEW z \in Above(f, y), z # y PROVE z \in Above(f, f[y])
    <3> SUFFICES ASSUME NEW T \in SUBSET SetPoints, f[y] \in T, \A t \in T : f[t] \in T
                 PROVE  z \in T
      BY <2>1 DEF Above
    <3>1. T \cup {y} \in SUBSET SetPoints /\ \A t \in T \cup {y} : f[t] \in T \cup {y}
      OBVIOUS
    <3>2. z \in T \cup {y}
      BY <2>1, <3>1 DEF Above
    <3> QED
      BY <2>1, <3>2
  <2>2. ASSUME NEW z \in Above(f, f[y]) PROVE z \in Above(f, y)
    <3> SUFFICES ASSUME NEW T \in SUBSET SetPoints, y \in T, \A t \in T : f[t] \in T
                 PROVE  z \in T
      BY <2>2 DEF Above
    <3> QED
      BY <2>2 DEF Above
  <2> QED
    BY <1>1, <1>3, <2>1, <2>2
<1> QED
  BY <1>2, <1>3

Climbs(way, f) ==
  way = [y \in SetPoints |-> IF f[y] = y THEN {y} ELSE {y} \cup way[f[y]]]

LEMMA ClimbIs ==
  ASSUME NEW f \in [SetPoints -> SetPoints], NEW x \in SetPoints
  PROVE  Set!Climb(f, x) = IF f[x] = x THEN {x} ELSE {x} \cup Set!Climb(f, f[x])
<1> DEFINE w == CHOOSE way : Climbs(way, f)
<1>1. \A y : Set!Climb(f, y) = w[y]
  BY DEF Set!Climb, SetPoints, Climbs
<1>2. \E way : Climbs(way, f)
  <2> DEFINE above == [y \in SetPoints |-> Above(f, y)]
  <2>1. ASSUME NEW y \in SetPoints
        PROVE  Above(f, y) = IF f[y] = y THEN {y} ELSE {y} \cup above[f[y]]
    BY AboveUnfolds
  <2>2. Climbs(above, f)
    BY <2>1 DEF Climbs
  <2> QED
    BY <2>2
<1>3. Climbs(w, f)
  BY <1>2
<1> HIDE DEF w
<1>4. w[x] = IF f[x] = x THEN {x} ELSE {x} \cup w[f[x]]
  BY <1>3 DEF Climbs
<1> QED
  BY <1>1, <1>4

\* Every climb in a forest ends in one root.
LEMMA OneRoot ==
  ASSUME NEW f, NEW r, Ranked(f, r), NEW x \in SetPoints
  PROVE  /\ Set!Climb(f, x) \subseteq SetPoints
         /\ \E q \in SetPoints :
              /\ q \in Set!Climb(f, x) /\ f[q] = q
              /\ \A p \in Set!Climb(f, x) : f[p] = p => p = q
<1> DEFINE Good(y) ==
             /\ Set!Climb(f, y) \subseteq SetPoints
             /\ \E q \in SetPoints :
                  /\ q \in Set!Climb(f, y) /\ f[q] = q
                  /\ \A p \in Set!Climb(f, y) : f[p] = p => p = q
           N == {n \in Nat : \A y \in SetPoints : r[y] < n => Good(y)}
<1>1. f \in [SetPoints -> SetPoints] /\ r \in [SetPoints -> Nat]
      /\ \A y \in SetPoints : f[y] # y => r[f[y]] < r[y]
  BY DEF Ranked
<1>2. 0 \in N
  BY <1>1
<1>3. ASSUME NEW n \in Nat, n \in N PROVE n + 1 \in N
  <2> SUFFICES ASSUME NEW y \in SetPoints, r[y] < n + 1 PROVE Good(y)
    OBVIOUS
  <2>1. CASE f[y] = y
    <3>1. Set!Climb(f, y) = {y}
      BY <1>1, <2>1, ClimbIs
    <3> QED
      BY <2>1, <3>1
  <2>2. CASE f[y] # y
    <3>1. f[y] \in SetPoints /\ r[f[y]] < n
      BY <1>1, <2>2
    <3>2. Good(f[y])
      BY <1>3, <3>1
    <3>3. Set!Climb(f, y) = {y} \cup Set!Climb(f, f[y])
      BY <1>1, <2>2, ClimbIs
    <3> QED
      BY <2>2, <3>2, <3>3
  <2> QED
    BY <2>1, <2>2
<1>4. Nat \subseteq N
  <2> HIDE DEF N
  <2> QED
    BY <1>2, <1>3, NatSetInduction
<1>5. r[x] + 1 \in N /\ r[x] < r[x] + 1
  BY <1>1, <1>4
<1> QED
  BY <1>5

LEMMA RootIs ==
  ASSUME NEW f, NEW r, Ranked(f, r), NEW x \in SetPoints
  PROVE  /\ Set!Root(f, x) \in SetPoints
         /\ f[Set!Root(f, x)] = Set!Root(f, x)
         /\ Set!Root(f, x) = IF f[x] = x THEN x ELSE Set!Root(f, f[x])
<1>1. ASSUME NEW y \in SetPoints
      PROVE  /\ Set!Root(f, y) \in SetPoints /\ Set!Root(f, y) \in Set!Climb(f, y)
             /\ f[Set!Root(f, y)] = Set!Root(f, y)
             /\ \A p \in Set!Climb(f, y) : f[p] = p => p = Set!Root(f, y)
  <2>1. PICK q \in SetPoints : /\ q \in Set!Climb(f, y) /\ f[q] = q
                               /\ \A p \in Set!Climb(f, y) : f[p] = p => p = q
    BY OneRoot
  <2>2. Set!Root(f, y) = q
    BY <2>1 DEF Set!Root
  <2> QED
    BY <2>1, <2>2
<1>2. f \in [SetPoints -> SetPoints] /\ f[x] \in SetPoints
  BY DEF Ranked
<1>3. CASE f[x] = x
  <2>1. x \in Set!Climb(f, x)
    BY <1>2, <1>3, ClimbIs
  <2> QED
    BY <1>1, <1>3, <2>1
<1>4. CASE f[x] # x
  <2>1. Set!Root(f, f[x]) \in Set!Climb(f, x)
    BY <1>1, <1>2, <1>4, ClimbIs
  <2> QED
    BY <1>1, <1>2, <1>4, <2>1
<1> QED
  BY <1>3, <1>4

\* What keeps to the parents and leaves roots where they are is the root.
LEMMA RootIsUnique ==
  ASSUME NEW f, NEW r, Ranked(f, r), NEW R,
         \A y \in SetPoints : R[y] = IF f[y] = y THEN y ELSE R[f[y]],
         NEW x \in SetPoints
  PROVE  Set!Root(f, x) = R[x]
<1> DEFINE N == {n \in Nat : \A y \in SetPoints : r[y] < n => Set!Root(f, y) = R[y]}
<1>1. f \in [SetPoints -> SetPoints] /\ r \in [SetPoints -> Nat]
      /\ \A y \in SetPoints : f[y] # y => r[f[y]] < r[y]
  BY DEF Ranked
<1>2. 0 \in N
  BY <1>1
<1>3. ASSUME NEW n \in Nat, n \in N PROVE n + 1 \in N
  <2> SUFFICES ASSUME NEW y \in SetPoints, r[y] < n + 1 PROVE Set!Root(f, y) = R[y]
    OBVIOUS
  <2>1. CASE f[y] = y
    BY <2>1, RootIs
  <2>2. CASE f[y] # y
    <3>1. f[y] \in SetPoints /\ r[f[y]] < n
      BY <1>1, <2>2
    <3> QED
      BY <1>3, <2>2, <3>1, RootIs
  <2> QED
    BY <2>1, <2>2
<1>4. Nat \subseteq N
  <2> HIDE DEF N
  <2> QED
    BY <1>2, <1>3, NatSetInduction
<1>5. r[x] + 1 \in N /\ r[x] < r[x] + 1
  BY <1>1, <1>4
<1> QED
  BY <1>5

\* All points on a way have its root, and the root has the lowest rank.
LEMMA RootOfWay ==
  ASSUME NEW f, NEW r, Ranked(f, r), NEW x \in SetPoints
  PROVE  /\ \A y \in Set!Climb(f, x) : Set!Root(f, y) = Set!Root(f, x)
         /\ r[Set!Root(f, x)] <= r[x]
<1> DEFINE Good(y) == /\ \A z \in Set!Climb(f, y) : Set!Root(f, z) = Set!Root(f, y)
                      /\ r[Set!Root(f, y)] <= r[y]
           N == {n \in Nat : \A y \in SetPoints : r[y] < n => Good(y)}
<1>1. f \in [SetPoints -> SetPoints] /\ r \in [SetPoints -> Nat]
      /\ \A y \in SetPoints : f[y] # y => r[f[y]] < r[y]
  BY DEF Ranked
<1>2. 0 \in N
  BY <1>1
<1>3. ASSUME NEW n \in Nat, n \in N PROVE n + 1 \in N
  <2> SUFFICES ASSUME NEW y \in SetPoints, r[y] < n + 1 PROVE Good(y)
    OBVIOUS
  <2>1. CASE f[y] = y
    <3>1. Set!Climb(f, y) = {y} /\ Set!Root(f, y) = y /\ r[y] \in Nat
      BY <1>1, <2>1, ClimbIs, RootIs
    <3> QED
      BY <3>1
  <2>2. CASE f[y] # y
    <3>1. f[y] \in SetPoints /\ r[f[y]] < n /\ r[f[y]] < r[y]
      BY <1>1, <2>2
    <3>2. Good(f[y])
      BY <1>3, <3>1
    <3>3. Set!Climb(f, y) = {y} \cup Set!Climb(f, f[y]) /\ Set!Root(f, y) = Set!Root(f, f[y])
      BY <1>1, <2>2, ClimbIs, RootIs
    <3>4. Set!Root(f, y) \in SetPoints
      BY RootIs
    <3>5. r[Set!Root(f, y)] <= r[y]
      BY <1>1, <3>1, <3>2, <3>3, <3>4
    <3> QED
      BY <3>2, <3>3, <3>5
  <2> QED
    BY <2>1, <2>2
<1>4. Nat \subseteq N
  <2> HIDE DEF N
  <2> QED
    BY <1>2, <1>3, NatSetInduction
<1>5. r[x] + 1 \in N /\ r[x] < r[x] + 1
  BY <1>1, <1>4
<1> QED
  BY <1>5

\* The compression of Getf changes no root.
LEMMA GetfKeepsRoots ==
  ASSUME NEW f, NEW r, Ranked(f, r), NEW x \in SetPoints
  PROVE  /\ Ranked(Set!Getf(f, x), r)
         /\ \A y \in SetPoints : /\ Set!Getf(f, x)[y] = y <=> f[y] = y
                                 /\ Set!Root(Set!Getf(f, x), y) = Set!Root(f, y)
<1> DEFINE g == Set!Getf(f, x)
           R == [y \in SetPoints |-> Set!Root(f, y)]
<1>1. g = [y \in SetPoints |-> IF y \in Set!Climb(f, x) THEN Set!Root(f, x) ELSE f[y]]
  BY DEF Set!Getf, SetPoints
<1>2. f \in [SetPoints -> SetPoints] /\ r \in [SetPoints -> Nat]
      /\ \A y \in SetPoints : f[y] # y => r[f[y]] < r[y]
  BY DEF Ranked
<1> HIDE DEF g
<1>3. \A y \in SetPoints : g[y] = f[y] \/ g[y] = Set!Root(f, y)
  BY <1>1, RootOfWay
<1>4. ASSUME NEW y \in SetPoints
      PROVE  /\ g[y] = y <=> f[y] = y
             /\ g[y] \in SetPoints
             /\ g[y] # y => r[g[y]] < r[y]
             /\ R[y] = IF g[y] = y THEN y ELSE R[g[y]]
  <2>1. CASE f[y] = y
    BY <1>3, <2>1, RootIs
  <2>2. CASE f[y] # y /\ g[y] = f[y]
    <3>1. f[y] \in SetPoints /\ Set!Root(f, y) = Set!Root(f, f[y])
      BY <1>2, <2>2, RootIs
    <3> QED
      BY <1>2, <2>2, <3>1
  <2>3. CASE f[y] # y /\ g[y] = Set!Root(f, y)
    <3>1. f[y] \in SetPoints /\ Set!Root(f, y) = Set!Root(f, f[y]) /\ r[f[y]] < r[y]
      BY <1>2, <2>3, RootIs
    <3>2. r[Set!Root(f, f[y])] <= r[f[y]]
      BY <3>1, RootOfWay
    <3>3. /\ Set!Root(f, y) \in SetPoints /\ f[Set!Root(f, y)] = Set!Root(f, y)
          /\ Set!Root(f, Set!Root(f, y)) = Set!Root(f, y)
      BY RootIs
    <3>4. r[Set!Root(f, y)] < r[y]
      BY <1>2, <3>1, <3>2, <3>3
    <3> QED
      BY <2>3, <3>3, <3>4
  <2> QED
    BY <1>3, <2>1, <2>2, <2>3
<1>5. Ranked(g, r)
  <2>1. g \in [SetPoints -> SetPoints]
    BY <1>1, <1>4
  <2> QED
    BY <1>2, <1>4, <2>1 DEF Ranked
<1>6. \A y \in SetPoints : Set!Root(g, y) = R[y]
  <2> HIDE DEF R
  <2>1. \A y \in SetPoints : R[y] = IF g[y] = y THEN y ELSE R[g[y]]
    BY <1>4
  <2> QED
    BY <1>5, <2>1, RootIsUnique
<1> QED
  BY <1>4, <1>5, <1>6 DEF g

\* The root of y becomes a child of x's.
LEMMA LinkJoins ==
  ASSUME NEW g, NEW r, Ranked(g, r), NEW a \in SetPoints, NEW b \in SetPoints,
         g[a] = a, g[b] = b, a # b
  PROVE  /\ \E s : Ranked([g EXCEPT ![b] = a], s)
         /\ \A z \in SetPoints :
              /\ [g EXCEPT ![b] = a][z] = z <=> g[z] = z /\ z # b
              /\ Set!Root([g EXCEPT ![b] = a], z) =
                   IF Set!Root(g, z) = b THEN a ELSE Set!Root(g, z)
<1> DEFINE h == [g EXCEPT ![b] = a]
           R == [z \in SetPoints |-> IF Set!Root(g, z) = b THEN a ELSE Set!Root(g, z)]
           s == [z \in SetPoints |-> IF Set!Root(g, z) = b THEN (r[z] + r[a]) + 1 ELSE r[z]]
<1>1. g \in [SetPoints -> SetPoints] /\ r \in [SetPoints -> Nat]
      /\ \A z \in SetPoints : g[z] # z => r[g[z]] < r[z]
  BY DEF Ranked
<1>2. h \in [SetPoints -> SetPoints] /\ \A z \in SetPoints : h[z] = IF z = b THEN a ELSE g[z]
  BY <1>1
<1>3. s \in [SetPoints -> Nat]
  BY <1>1
<1>4. Set!Root(g, a) = a /\ Set!Root(g, b) = b
  BY RootIs
<1> HIDE DEF h
<1>5. ASSUME NEW z \in SetPoints
      PROVE  /\ h[z] = z <=> g[z] = z /\ z # b
             /\ h[z] # z => s[h[z]] < s[z]
             /\ R[z] = IF h[z] = z THEN z ELSE R[h[z]]
  <2>1. CASE z = b
    <3>1. h[z] = a /\ s[a] = r[a] /\ s[z] = (r[z] + r[a]) + 1 /\ R[z] = a /\ R[a] = a
      BY <1>2, <1>4, <2>1
    <3>2. s[a] < s[z]
      BY <1>1, <3>1
    <3> QED
      BY <2>1, <3>1, <3>2
  <2>2. CASE z # b /\ g[z] = z
    <3>1. h[z] = z /\ Set!Root(g, z) = z
      BY <1>2, <2>2, RootIs
    <3> QED
      BY <2>2, <3>1
  <2>3. CASE z # b /\ g[z] # z
    <3>1. h[z] = g[z] /\ g[z] \in SetPoints /\ Set!Root(g, z) = Set!Root(g, g[z])
          /\ r[g[z]] < r[z]
      BY <1>1, <1>2, <2>3, RootIs
    <3>2. s[g[z]] < s[z]
      <4>1. r[g[z]] \in Nat /\ r[z] \in Nat /\ r[a] \in Nat
        BY <1>1, <3>1
      <4> QED
        BY <3>1, <4>1
    <3> QED
      BY <2>3, <3>1, <3>2
  <2> QED
    BY <2>1, <2>2, <2>3
<1>6. Ranked(h, s)
  <2> HIDE DEF s
  <2> QED
    BY <1>2, <1>3, <1>5 DEF Ranked
<1>7. \A z \in SetPoints : Set!Root(h, z) = R[z]
  <2> HIDE DEF R, s
  <2>1. \A z \in SetPoints : R[z] = IF h[z] = z THEN z ELSE R[h[z]]
    BY <1>5
  <2> QED
    BY <1>6, <2>1, RootIsUnique
<1> QED
  BY <1>5, <1>6, <1>7 DEF h

\* No point is its own ancestor.
SetInv == \E r : Ranked(parents, r)

LEMMA MergeJoins ==
  ASSUME SetInv, NEW x \in SetPoints, NEW y \in SetPoints, Set!Merge(x, y)
  PROVE  /\ SetInv'
         /\ \A z \in SetPoints :
              /\ parents'[z] = z <=> /\ parents[z] = z
                                     /\ z = Set!Root(parents, y) => z = Set!Root(parents, x)
              /\ Set!Root(parents', z) =
                   IF Set!Root(parents, z) = Set!Root(parents, y)
                   THEN Set!Root(parents, x) ELSE Set!Root(parents, z)
<1>1. PICK r : Ranked(parents, r)
  BY DEF SetInv
<1> DEFINE f1 == Set!Getf(parents, x)
           f == Set!Getf(f1, y)
           a == Set!Root(parents, x)
           b == Set!Root(parents, y)
<1>2. Ranked(f1, r) /\ \A z \in SetPoints : /\ f1[z] = z <=> parents[z] = z
                                            /\ Set!Root(f1, z) = Set!Root(parents, z)
  BY <1>1, GetfKeepsRoots
<1>3. Ranked(f, r) /\ \A z \in SetPoints : /\ f[z] = z <=> f1[z] = z
                                           /\ Set!Root(f, z) = Set!Root(f1, z)
  <2> HIDE DEF f1
  <2> QED
    BY <1>2, GetfKeepsRoots
<1>4. parents' = IF Set!Root(f, x) # Set!Root(f, y)
                 THEN [f EXCEPT ![Set!Root(f, y)] = Set!Root(f, x)] ELSE f
  BY DEF Set!Merge
<1> HIDE DEF f, f1
<1>5. Set!Root(f, x) = a /\ Set!Root(f, y) = b
      /\ \A z \in SetPoints : Set!Root(f, z) = Set!Root(parents, z) /\ (f[z] = z <=> parents[z] = z)
  BY <1>2, <1>3
<1>6. a \in SetPoints /\ b \in SetPoints /\ f[a] = a /\ f[b] = b /\ parents[a] = a
  BY <1>1, <1>5, RootIs
<1> HIDE DEF a, b
<1>7. CASE a = b
  <2>1. parents' = f
    BY <1>4, <1>5, <1>7
  <2>2. SetInv'
    BY <1>3, <2>1 DEF SetInv, Ranked, SetPoints, Set!Points
  <2>3. \A z \in SetPoints : /\ parents'[z] = z <=> parents[z] = z
                             /\ Set!Root(parents', z) = Set!Root(parents, z)
    BY <1>5, <2>1
  <2> QED
    BY <1>7, <2>2, <2>3 DEF a, b
<1>8. CASE a # b
  <2>1. parents' = [f EXCEPT ![b] = a]
    BY <1>4, <1>5, <1>8
  <2>2. /\ \E s : Ranked(parents', s)
        /\ \A z \in SetPoints :
             /\ parents'[z] = z <=> f[z] = z /\ z # b
             /\ Set!Root(parents', z) = IF Set!Root(f, z) = b THEN a ELSE Set!Root(f, z)
    <3>1. Ranked(f, r) /\ f[a] = a /\ f[b] = b /\ a \in SetPoints /\ b \in SetPoints
      BY <1>3, <1>6
    <3>2. \E s : Ranked([f EXCEPT ![b] = a], s)
      BY <1>8, <3>1, LinkJoins
    <3>3. \A z \in SetPoints :
            /\ [f EXCEPT ![b] = a][z] = z <=> f[z] = z /\ z # b
            /\ Set!Root([f EXCEPT ![b] = a], z) =
                 IF Set!Root(f, z) = b THEN a ELSE Set!Root(f, z)
      BY <1>8, <3>1, LinkJoins
    <3> QED
      BY <2>1, <3>2, <3>3
  <2>3. SetInv'
    BY <2>2 DEF SetInv, Ranked, SetPoints, Set!Points
  <2>4. \A z \in SetPoints :
          /\ parents'[z] = z <=> parents[z] = z /\ z # b
          /\ Set!Root(parents', z) = IF Set!Root(parents, z) = b THEN a ELSE Set!Root(parents, z)
    BY <1>5, <2>2
  <2> QED
    BY <1>8, <2>3, <2>4 DEF a, b
<1> QED
  BY <1>7, <1>8

Block(q) == {z \in SetPoints : Set!Root(parents, z) = q}

\* The blocks are told apart by their roots.
LEMMA BlocksAre ==
  ASSUME SetInv
  PROVE  /\ \A q \in Set!Roots(parents) : q \in Block(q) /\ q \in SetPoints
         /\ \A z \in SetPoints : /\ Set!Root(parents, z) \in Set!Roots(parents)
                                 /\ z \in Block(Set!Root(parents, z))
         /\ \A z : \A q \in Set!Roots(parents) : z \in Block(q) => q = Set!Root(parents, z)
<1>1. PICK r : Ranked(parents, r)
  BY DEF SetInv
<1>2. \A q \in Set!Roots(parents) : q \in SetPoints /\ parents[q] = q
  BY DEF Set!Roots, SetPoints
<1>3. \A z \in SetPoints : Set!Root(parents, z) \in Set!Roots(parents)
  BY <1>1, RootIs DEF Set!Roots, SetPoints
<1>4. \A q \in Set!Roots(parents) : q \in Block(q)
  BY <1>1, <1>2, RootIs DEF Block
<1> QED
  BY <1>2, <1>3, <1>4 DEF Block

LEMMA BlockOfIs ==
  ASSUME SetInv, NEW x \in SetPoints
  PROVE  Set!Blocks!BlockOf(x) = Block(Set!Root(parents, x))
<1> DEFINE S == {Block(q) : q \in Set!Roots(parents)}
<1>1. Set!Blocks!BlockOf(x) = CHOOSE c \in S : x \in c
  BY DEF Set!Blocks!BlockOf, Block, SetPoints
<1>2. Block(Set!Root(parents, x)) \in S /\ x \in Block(Set!Root(parents, x))
  BY BlocksAre
<1>3. \A c \in S : x \in c => c = Block(Set!Root(parents, x))
  BY BlocksAre
<1> HIDE DEF S
<1> QED
  BY <1>1, <1>2, <1>3

LEMMA SetSizes == \A S : Set!Cardinality(S) = Cardinality(S)
BY DEF Set!Cardinality, Cardinality
LEMMA BlockSizes == \A S : Set!Blocks!Cardinality(S) = Cardinality(S)
BY DEF Set!Blocks!Cardinality, Cardinality

LEMMA MergeRelates ==
  ASSUME SetInv, NEW x \in SetPoints, NEW y \in SetPoints, Set!Merge(x, y)
  PROVE  Set!Blocks!Relate(x, y)
<1>0. PICK a, b : a = Set!Root(parents, x) /\ b = Set!Root(parents, y)
  OBVIOUS
<1> DEFINE Q == Set!Roots(parents)
           S == {Block(q) : q \in Q}
<1>1. /\ SetInv'
      /\ \A z \in SetPoints : parents'[z] = z <=> parents[z] = z /\ (z = b => z = a)
      /\ \A z \in SetPoints :
           Set!Root(parents', z) = IF Set!Root(parents, z) = b THEN a ELSE Set!Root(parents, z)
  BY <1>0, MergeJoins
<1>2. Set!Blocks!BlockOf(x) = Block(a) /\ Set!Blocks!BlockOf(y) = Block(b)
  BY <1>0, BlockOfIs
<1>3. /\ a \in Q /\ b \in Q /\ x \in Block(a)
      /\ \A q \in Q : q \in Block(q) /\ q \in SetPoints
      /\ \A z : \A q \in Q : z \in Block(q) => q = Set!Root(parents, z)
  BY <1>0, BlocksAre
<1>4. Set!Roots(parents') = IF a = b THEN Q ELSE Q \ {b}
  BY <1>1 DEF Set!Roots, SetPoints
<1>5. IsFiniteSet(Q) /\ Cardinality(Q) \in Nat
  <2>1. Q \subseteq SetPoints /\ IsFiniteSet(SetPoints)
    BY AlgorithmParameters, FS_Interval DEF Set!Roots, SetPoints, Set!Points
  <2> QED
    BY <2>1, FS_Subset, FS_CardinalityType
<1>6. Block(a) = Block(b) <=> a = b
  BY <1>3
<1>7. Set!Blocks!Relate(x, y) <=>
        /\ {Block(q)' : q \in Set!Roots(parents')} =
             (S \ {Block(a), Block(b)}) \cup {Block(a) \cup Block(b)}
        /\ Cardinality(Set!Roots(parents')) =
             IF Block(a) = Block(b) THEN Cardinality(Q) ELSE Cardinality(Q) - 1
  BY <1>2, SetSizes DEF Set!Blocks!Relate, Set!uiSum, Block, SetPoints
<1>8. \A q : Block(q)' = {z \in SetPoints : Set!Root(parents', z) = q}
  BY DEF Block, SetPoints, Set!Points
<1> HIDE DEF Q
<1>9. \A q \in Q : q # b => Block(q)' = IF q = a THEN Block(a) \cup Block(b) ELSE Block(q)
  BY <1>1, <1>8 DEF Block
<1>10. CASE a = b
  <2>1. Block(a)' = Block(a)
    BY <1>1, <1>8, <1>10 DEF Block
  <2>2. \A q \in Q : Block(q)' = Block(q)
    BY <1>9, <1>10, <2>1
  <2>3. {Block(q)' : q \in Q} = S
    BY <2>2
  <2>4. S = (S \ {Block(a), Block(b)}) \cup {Block(a) \cup Block(b)}
    BY <1>3, <1>10
  <2> QED
    BY <1>4, <1>7, <1>10, <2>3, <2>4
<1>11. CASE a # b
  <2>1. Cardinality(Q \ {b}) = Cardinality(Q) - 1
    BY <1>3, <1>5, FS_RemoveElement
  <2>2. \A q \in Q : q # a /\ q # b => Block(q) # Block(a) /\ Block(q) # Block(b)
    BY <1>3
  <2>3. {Block(q)' : q \in Q \ {b}} = (S \ {Block(a), Block(b)}) \cup {Block(a) \cup Block(b)}
    <3>1. ASSUME NEW q \in Q \ {b}
          PROVE  Block(q)' \in (S \ {Block(a), Block(b)}) \cup {Block(a) \cup Block(b)}
      BY <1>9, <2>2
    <3>2. ASSUME NEW c \in S \ {Block(a), Block(b)} PROVE \E q \in Q \ {b} : c = Block(q)'
      <4>1. PICK q \in Q : c = Block(q)
        OBVIOUS
      <4>2. q # a /\ q # b
        BY <3>2, <4>1
      <4> QED
        BY <1>9, <4>1, <4>2
    <3>3. Block(a) \cup Block(b) = Block(a)' /\ a \in Q \ {b}
      BY <1>3, <1>9, <1>11
    <3> DEFINE T == {Block(q)' : q \in Q \ {b}}
               W == (S \ {Block(a), Block(b)}) \cup {Block(a) \cup Block(b)}
    <3>4. T \subseteq W
      BY <3>1
    <3>5. W \subseteq T
      BY <3>2, <3>3
    <3> QED
      BY <3>4, <3>5
  <2> QED
    BY <1>4, <1>6, <1>7, <1>11, <2>1, <2>3
<1> QED
  BY <1>10, <1>11

LEMMA SetInvInit == Set!Init => SetInv /\ Set!Blocks!Init
<1> SUFFICES ASSUME Set!Init PROVE SetInv /\ Set!Blocks!Init
  OBVIOUS
<1>1. parents = [x \in SetPoints |-> x]
  BY DEF Set!Init, SetPoints
<1>2. Ranked(parents, [x \in SetPoints |-> 0])
  BY <1>1 DEF Ranked
<1>3. SetInv
  BY <1>2 DEF SetInv
<1>4. \A x \in SetPoints : Set!Root(parents, x) = x
  BY <1>1, <1>2, RootIs
<1>5. Set!Roots(parents) = SetPoints
  BY <1>1 DEF Set!Roots, SetPoints
<1>6. \A q \in SetPoints : Block(q) = {q}
  BY <1>4 DEF Block
<1>7. Set!Blocks!Init <=>
        /\ {Block(q) : q \in Set!Roots(parents)} = {{x} : x \in SetPoints}
        /\ Cardinality(Set!Roots(parents)) = Cardinality(SetPoints)
  BY SetSizes, BlockSizes DEF Set!Blocks!Init, Set!uiSum, Block, SetPoints
<1>8. {Block(q) : q \in SetPoints} = {{x} : x \in SetPoints}
  BY <1>6
<1> QED
  BY <1>3, <1>5, <1>7, <1>8

LEMMA SetInvStep ==
  ASSUME SetInv, Set!Next
  PROVE  /\ SetInv'
         /\ Set!Blocks!Next
         /\ \A x, y \in Set!Points : Set!Merge(x, y) => Set!Blocks!Relate(x, y)
<1>1. PICK x \in SetPoints, y \in SetPoints : Set!Merge(x, y)
  BY DEF Set!Next, SetPoints
<1>2. SetInv' /\ Set!Blocks!Relate(x, y)
  BY <1>1, MergeJoins, MergeRelates
<1>3. Set!Blocks!Next
  BY <1>2 DEF Set!Blocks!Next, SetPoints
<1>4. \A c, d \in Set!Points : Set!Merge(c, d) => Set!Blocks!Relate(c, d)
  BY MergeRelates DEF SetPoints
<1> QED
  BY <1>2, <1>3, <1>4

-----------------------------------------------------------------------------
(* All of them in one program.                                              *)

AllInv ==
  /\ DisInv /\ WalkInv /\ QueueInv /\ PassInv
  /\ MapInv /\ FloydInv /\ SpreadInv
  /\ HeapInv /\ SetInv

LEMMA DisInvStays ==
  DisInv /\ WalkInv /\ UNCHANGED <<graph, roundsVars>> => DisInv' /\ WalkInv'
<1>1. <<graph, roundsVars>>' = <<graph, roundsVars>> => UNCHANGED vars
  BY DEF graph, roundsVars, vars
<1> QED
  BY <1>1, DisInvNext, WalkInvNext

LEMMA HeapInvStays == HeapInv /\ UNCHANGED heapVars => HeapInv'
BY DEF heapVars, HeapInv, HeapTypes, Heap!HeapOrder, Heap!PoppedSorted, Heap!OverChildren,
       Heap!Ordered

LEMMA AllInvInit == InitAll => AllInv
<1>1. Map!InitBoth => Map!Init
  BY DEF Map!InitBoth
<1> QED
  BY <1>1, DisInvInit, WalkInvInit, QueueInvInit, PassInvInit, MapInvInit,
     FloydInvInit, SpreadInvInit, HeapInvInit, SetInvInit
     DEF InitAll, InitBoth, AllInv, DisInv

\* Every step leaves the data of the other functions alone.
LEMMA AllInvStep ==
  ASSUME AllInv, [OnSides \/ OnMap \/ Sort \/ Relate]_allVars
  PROVE  /\ AllInv'
         /\ [\A p \in MapPoints : mapBook[p] = 1 => auiDis'[p] = auiDis[p]]_Map!vars
         /\ [\A n \in Numbers : Heap!Held(n)' = Heap!Held(n)]_Heap!vars
         /\ parents' # parents =>
              /\ Set!Blocks!Next
              /\ \A x, y \in Set!Points : Set!Merge(x, y) => Set!Blocks!Relate(x, y)
<1> USE DEF AllInv
<1>1. UNCHANGED mapVars => MapInv' /\ FloydInv' /\ SpreadInv' /\ UNCHANGED Map!vars
  <2> SUFFICES ASSUME UNCHANGED mapVars
               PROVE  MapInv' /\ FloydInv' /\ SpreadInv' /\ UNCHANGED Map!vars
    OBVIOUS
  <2>1. UNCHANGED Map!vars /\ UNCHANGED Map!floydVars /\ UNCHANGED <<mapPointCount, map>>
    BY DEF mapVars, Map!vars, Map!graph, Map!floydVars
  <2> QED
    BY <2>1, MapInvStays, FloydInvStays, SpreadInvStays
<1>2. UNCHANGED heapVars => HeapInv' /\ UNCHANGED Heap!vars
  BY HeapInvStays DEF heapVars, Heap!vars
<1>3. UNCHANGED bothVars => DisInv' /\ WalkInv' /\ QueueInv' /\ PassInv'
  <2> SUFFICES ASSUME UNCHANGED bothVars
               PROVE  DisInv' /\ WalkInv' /\ QueueInv' /\ PassInv'
    OBVIOUS
  <2>1. DisInv' /\ WalkInv'
    BY DisInvStays DEF bothVars
  <2>2. SameGraph /\ UNCHANGED <<queueDis, auiBook, auiQueue, uiHead, queueK>>
        /\ queuePhase' = queuePhase
    BY DEF bothVars, queueVars, graph, SameGraph
  <2>3. UNCHANGED queueVars
    BY DEF bothVars
  <2> QED
    BY <2>1, <2>2, <2>3, QueueInvStays, PassInvStays
<1>4. UNCHANGED parents => SetInv'
  BY DEF SetInv, Ranked, SetPoints, Set!Points
<1>5. CASE OnSides
  <2>1. NextBoth /\ UNCHANGED mapVars /\ UNCHANGED heapVars /\ UNCHANGED parents
    BY <1>5 DEF OnSides
  <2>2. CASE Next /\ UNCHANGED queueVars
    <3>1. DisInv' /\ WalkInv'
      BY <2>2, DisInvNext, WalkInvNext
    <3>2. SameGraph /\ UNCHANGED <<queueDis, auiBook, auiQueue, uiHead, queueK>>
          /\ queuePhase' = queuePhase
      BY <2>2 DEF Next, Backup, Relax, EndRound, EndRounds, Check, Return, Done, vars, graph,
                  queueVars, SameGraph
    <3> QED
      BY <1>1, <1>2, <1>4, <2>1, <2>2, <3>1, <3>2, QueueInvStays, PassInvStays
  <2>3. CASE Queue!Next /\ UNCHANGED roundsVars
    <3>1. QueueInv' /\ SameGraph /\ PassInv'
      BY <2>3, QueueInvStep, PassInvStep DEF DisInv
    <3>2. DisInv' /\ WalkInv'
      BY <2>3, <3>1, DisInvStays DEF SameGraph, graph
    <3> QED
      BY <1>1, <1>2, <1>4, <2>1, <3>1, <3>2
  <2> QED
    BY <2>1, <2>2, <2>3 DEF NextBoth
<1>6. CASE OnMap
  <2>1. Map!NextBoth /\ UNCHANGED bothVars /\ UNCHANGED heapVars /\ UNCHANGED parents
    BY <1>6 DEF OnMap
  <2>2. MapInv' /\ \A p \in MapPoints : mapBook[p] = 1 => auiDis'[p] = auiDis[p]
    BY <2>1, MapInvStep
  <2>3. FloydInv' /\ SpreadInv'
    BY <2>1, FloydInvStep, SpreadInvStep
  <2> QED
    BY <1>2, <1>3, <1>4, <2>1, <2>2, <2>3
<1>7. CASE Sort
  <2>1. Heap!Next /\ UNCHANGED bothVars /\ UNCHANGED mapVars /\ UNCHANGED parents
    BY <1>7 DEF Sort
  <2>2. HeapInv' /\ \A n \in Numbers : Heap!Held(n)' = Heap!Held(n)
    BY <2>1, HeapInvStep, NumbersKept
  <2> QED
    BY <1>1, <1>3, <1>4, <2>1, <2>2
<1>8. CASE Relate
  <2>1. Set!Next /\ UNCHANGED bothVars /\ UNCHANGED mapVars /\ UNCHANGED heapVars
    BY <1>8 DEF Relate
  <2> QED
    BY <1>1, <1>2, <1>3, <2>1, SetInvStep
<1>9. CASE UNCHANGED allVars
  <2>1. UNCHANGED bothVars /\ UNCHANGED mapVars /\ UNCHANGED heapVars /\ UNCHANGED parents
    BY <1>9 DEF allVars
  <2> QED
    BY <1>1, <1>2, <1>3, <1>4, <2>1
<1> QED
  BY <1>5, <1>6, <1>7, <1>8, <1>9

LEMMA AllInvHolds == SpecAll => []AllInv
<1>1. InitAll => AllInv
  BY AllInvInit
<1>2. AllInv /\ [OnSides \/ OnMap \/ Sort \/ Relate]_allVars => AllInv'
  BY AllInvStep
<1> QED
  BY <1>1, <1>2, PTL DEF SpecAll

(* The same where the functions are called one after the other, as the run   *)
(* has it.                                                                   *)
THEOREM RoundsFindPotential == SpecAll => []GreatestPotential
<1>1. AllInv => GreatestPotential
  BY DEF AllInv, DisInv, PassedTight, OnlyFallen, AbovePotentials, GreatestPotential, Potential
<1> QED
  BY <1>1, AllInvHolds, PTL

(* The message of algorithm.c:197 is printed exactly for the graphs that     *)
(* have a cycle of negative weight, wherever it lies: a round that changes   *)
(* nothing, after which the rounds end early, hides none                     *)
(* (algorithm.c:127-201).                                                    *)
THEOREM CyclesAreReported == SpecAll => []CycleReported
<1>1. AllInv => CycleReported
  BY CycleReportedHolds DEF AllInv
<1> QED
  BY <1>1, AllInvHolds, PTL

(* For a graph without such a cycle the distances returned are the least     *)
(* weights of walks (algorithm.c:127-201): each is the weight of a walk, and *)
(* no walk of as many sides as there are rounds weighs less.                 *)
THEOREM DistancesAreLeast == SpecAll => []Distances
<1>1. AllInv => Distances
  BY DistancesHold DEF AllInv
<1> QED
  BY <1>1, AllInvHolds, PTL

(* A side passed since its point was last reached is not loose, unless the   *)
(* point will come to the head of the queue again (algorithm.c:252-279): the *)
(* queue leaves nothing unsettled behind, on any graph without falling       *)
(* loops.                                                                    *)
THEOREM QueueSettles == SpecAll => []SettledOutsideQueue
<1>1. AllInv => SettledOutsideQueue
  BY DEF AllInv, QueueInv, SettledOutsideQueue
<1> QED
  BY <1>1, AllInvHolds, PTL

(* The array of the queue is long enough (algorithm.c:241): on a graph where *)
(* point 0 reaches no cycle of negative weight there are fewer passes than   *)
(* points, and none queues a point twice.                                    *)
THEOREM QueueIsLongEnough == SpecAll => []QueueSuffices
<1>1. AllInv => QueueSuffices
  BY QueueSufficesHolds DEF AllInv, DisInv
<1> QED
  BY <1>1, AllInvHolds, PTL

(* The queue is an optimisation of the rounds (algorithm.c:203): where those *)
(* report no cycle it ends with the same distances, but for the points that  *)
(* cannot be reached.  For weights that INVAILD is no match for this fails:  *)
(* a distance that came from an unreached point may then be the less one.    *)
THEOREM QueueAgreesWithRounds ==
  ASSUME WeightsFarBelow
  PROVE  SpecAll => []VariantsAgree
<1>1. AllInv => VariantsAgree
  BY VariantsAgreeHolds DEF AllInv
<1> QED
  BY <1>1, AllInvHolds, PTL

(* A point that is booked never gets nearer (algorithm.c:95-121): Dijkstra   *)
(* relaxes the sides of each point once only, and needs no more.             *)
THEOREM BookedStaysFinal == SpecAll => BookedIsFinal
<1>1. AllInv /\ [OnSides \/ OnMap \/ Sort \/ Relate]_allVars =>
        [\A p \in Map!Points : mapBook[p] = 1 => auiDis'[p] = auiDis[p]]_Map!vars
  BY AllInvStep DEF MapPoints
<1> QED
  BY <1>1, AllInvHolds, PTL DEF SpecAll, BookedIsFinal, Map!BookedIsFinal

(* The distances Dijkstra returns are the lengths of shortest paths, INVAILD *)
(* for the points that no path reaches (algorithm.c:71-125): for every map,  *)
(* although each side is looked at once only.                                *)
THEOREM MapDistancesAreShortest == SpecAll => []MapDistances
<1>1. AllInv => MapDistances
  BY MapDistancesHold DEF AllInv
<1> QED
  BY <1>1, AllInvHolds, PTL

(* After the rounds of some points every entry is the length of a shortest   *)
(* path by way of those points, and within a round the entries passed are    *)
(* already those of the next (algorithm.c:39-66): although the map is        *)
(* changed in place, no entry is ahead of its round.                         *)
THEOREM EntriesAreShortest == SpecAll => []ViaFirstPoints
<1>1. AllInv => ViaFirstPoints
  BY ViaFirstPointsHolds DEF AllInv
<1> QED
  BY <1>1, AllInvHolds, PTL

(* While a number sinks its place is the only one out of order               *)
(* (algorithm.c:295-335): SiftDown needs no look back, in heaps of any size. *)
THEOREM HeapStaysInOrder == SpecAll => []HeapOrder
<1>1. AllInv => HeapOrder
  BY DEF AllInv, HeapInv, HeapOrder
<1> QED
  BY <1>1, AllInvHolds, PTL

(* What was popped is in order and no greater than what is left              *)
(* (algorithm.c:348-376): at the end the array is sorted.                    *)
THEOREM PopsInOrder == SpecAll => []PoppedSorted
<1>1. AllInv => PoppedSorted
  BY DEF AllInv, HeapInv, PoppedSorted
<1> QED
  BY <1>1, AllInvHolds, PTL

(* No step of the sort changes how often a number occurs in what was popped  *)
(* and what is left together (algorithm.c:295-376): with PopsInOrder, the    *)
(* result is the input in order.                                             *)
THEOREM SortKeepsNumbers == SpecAll => NothingLost
<1>1. AllInv /\ [OnSides \/ OnMap \/ Sort \/ Relate]_allVars =>
        [\A n \in Numbers : Heap!Held(n)' = Heap!Held(n)]_Heap!vars
  BY AllInvStep
<1> QED
  BY <1>1, AllInvHolds, PTL DEF SpecAll, NothingLost, Heap!NothingLost

(* The forest implements a partition of the points, for any number of points *)
(* and any relations in any order (algorithm.c:380-442): to merge two points *)
(* is to unite their blocks, the compression of paths changes no block, and  *)
(* the number of roots is the number of blocks.                              *)
THEOREM SetIsPartition == SpecAll => ImplementsPartition
<1>1. InitAll => Set!Blocks!Init
  BY SetInvInit DEF InitAll
<1>2. AllInv /\ [OnSides \/ OnMap \/ Sort \/ Relate]_allVars =>
        [parents' # parents =>
           /\ Set!Blocks!Next
           /\ \A x, y \in Set!Points : Set!Merge(x, y) => Set!Blocks!Relate(x, y)]_parents
  BY AllInvStep
<1> QED
  BY <1>1, <1>2, AllInvHolds, PTL DEF SpecAll, ImplementsPartition, Set!ImplementsPartition

=============================================================================
