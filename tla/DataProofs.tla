----------------------------- MODULE DataProofs -----------------------------
(***************************************************************************)
(* Induction over data, as the other proofs need it: over the natural      *)
(* numbers and the sizes of finite sets, with the set of the numbers that  *)
(* have a property in place of the property, and what follows from it      *)
(* about least elements, recursive functions and sums.                     *)
(***************************************************************************)
EXTENDS StringEx, FiniteSetTheorems, WellFoundedInduction, TLAPS

LEMMA LessIsWellFounded == IsWellFoundedOn({s \in Nat \X Nat : s[1] < s[2]}, Nat)
BY NatLessThanWellFounded DEF OpToRel

\* A nonempty set of natural numbers has a least element.
LEMMA LeastNatural ==
  ASSUME NEW T \in SUBSET Nat, T # {}
  PROVE  \E m \in T : \A n \in T : m <= n
<1> DEFINE R == {s \in Nat \X Nat : s[1] < s[2]}
<1>1. PICK m \in T : \A y \in T : <<y, m>> \notin R
  <2> HIDE DEF R
  <2>1. IsWellFoundedOn(R, Nat)
    BY LessIsWellFounded DEF R
  <2> QED
    BY <2>1, WFMin
<1>2. ASSUME NEW n \in T PROVE m <= n
  <2>1. ~(n < m)
    BY <1>1
  <2> QED
    BY <2>1
<1> QED
  BY <1>2

LEMMA MinIsLeast ==
  ASSUME NEW T \in SUBSET Nat, T # {}
  PROVE  Min(T) \in T /\ \A n \in T : Min(T) <= n
BY LeastNatural DEF Min

LEMMA MaxIsGreatest ==
  ASSUME NEW K \in Nat, NEW T \in SUBSET (0..K), T # {}
  PROVE  Max(T) \in T /\ \A n \in T : n <= Max(T)
<1> DEFINE D == {K - n : n \in T}
<1>1. D \in SUBSET Nat /\ D # {}
  <2>1. \A n \in T : K - n \in Nat
    OBVIOUS
  <2>2. PICK n \in T : TRUE
    OBVIOUS
  <2>3. K - n \in D
    OBVIOUS
  <2> QED
    BY <2>1, <2>3
<1>2. PICK d \in D : \A n \in D : d <= n
  <2> HIDE DEF D
  <2> QED
    BY <1>1, LeastNatural
<1>3. PICK m \in T : d = K - m
  BY <1>2
<1>4. ASSUME NEW n \in T PROVE m >= n
  <2>1. K - n \in D
    OBVIOUS
  <2>2. d <= K - n
    BY <1>2, <2>1
  <2> QED
    BY <1>3, <2>2
<1>5. \E x \in T : \A y \in T : x >= y
  BY <1>4
<1>6. Max(T) \in T /\ \A y \in T : Max(T) >= y
  BY <1>5 DEF Max
<1> QED
  BY <1>6

LEMMA NatSetInduction ==
  ASSUME NEW T, 0 \in T, \A n \in Nat : n \in T => n + 1 \in T
  PROVE  Nat \subseteq T
<1> SUFFICES ASSUME Nat \ T # {} PROVE FALSE
  OBVIOUS
<1>1. PICK m \in Nat \ T : \A n \in Nat \ T : m <= n
  BY LeastNatural
<1>2. m # 0 /\ m - 1 \in Nat /\ m - 1 \notin T
  BY <1>1
<1> QED
  BY <1>1, <1>2

\* Every finite set is among the sets F if the empty one is and one more element
\* does not lead out of them.
LEMMA FiniteSetInduction ==
  ASSUME NEW S, IsFiniteSet(S), NEW F, {} \in F,
         \A T \in SUBSET S : T \in F => \A x \in S \ T : T \cup {x} \in F
  PROVE  S \in F
<1> DEFINE N == {n \in Nat : \A T \in SUBSET S : Cardinality(T) = n => T \in F}
<1>1. \A T \in SUBSET S : IsFiniteSet(T) /\ Cardinality(T) \in Nat
  BY FS_Subset, FS_CardinalityType
<1>2. 0 \in N
  BY <1>1, FS_EmptySet
<1>3. ASSUME NEW n \in Nat, n \in N PROVE n + 1 \in N
  <2> SUFFICES ASSUME NEW T \in SUBSET S, Cardinality(T) = n + 1 PROVE T \in F
    OBVIOUS
  <2> HIDE DEF N
  <2>0. IsFiniteSet(T)
    BY <1>1
  <2>1. PICK x \in T : TRUE
    <3>1. Cardinality({}) = 0 /\ n + 1 # 0
      BY FS_EmptySet
    <3> QED
      BY <3>1
  <2>2. Cardinality(T \ {x}) = n
    <3>1. Cardinality(T \ {x}) = Cardinality(T) - 1
      BY <2>0, <2>1, FS_RemoveElement
    <3> QED
      BY <3>1
  <2>3. T \ {x} \in F
    BY <1>3, <2>2 DEF N
  <2>4. (T \ {x}) \cup {x} = T
    OBVIOUS
  <2> QED
    BY <2>3, <2>4
<1>4. Nat \subseteq N
  <2> HIDE DEF N
  <2> QED
    BY <1>2, <1>3, NatSetInduction
<1> QED
  BY <1>1, <1>4

-----------------------------------------------------------------------------
(* Recursion over the subsets of a finite set, as the folds define it.      *)

\* Steps of a fold over S: the element taken next from what is left, and what it
\* does to the value so far.
FoldSteps(S, V, base, pick, h) ==
  /\ IsFiniteSet(S) /\ base \in V
  /\ \A s \in SUBSET S : s # {} => pick[s] \in s
  /\ \A x \in S, v \in V : h[<<x, v>>] \in V

IsFold(it, S, V, base, pick, h) ==
  /\ it \in [SUBSET S -> V]
  /\ \A s \in SUBSET S :
       it[s] = IF s = {} THEN base ELSE h[<<pick[s], it[s \ {pick[s]}]>>]

LEMMA FoldExists ==
  ASSUME NEW S, NEW V, NEW base, NEW pick, NEW h, FoldSteps(S, V, base, pick, h)
  PROVE  \E it : IsFold(it, S, V, base, pick, h)
<1> USE DEF FoldSteps
<1> DEFINE Small(n) == {s \in SUBSET S : Cardinality(s) <= n}
           Good(n, it) ==
             /\ it \in [Small(n) -> V]
             /\ \A s \in Small(n) :
                  it[s] = IF s = {} THEN base ELSE h[<<pick[s], it[s \ {pick[s]}]>>]
           N == {n \in Nat : \E it : Good(n, it)}
<1>1. \A s \in SUBSET S : IsFiniteSet(s) /\ Cardinality(s) \in Nat
  BY FS_Subset, FS_CardinalityType
<1>2. \A s \in SUBSET S : s # {} =>
        Cardinality(s \ {pick[s]}) = Cardinality(s) - 1 /\ s \ {pick[s]} \in SUBSET S
  BY <1>1, FS_RemoveElement
<1>3. 0 \in N
  <2>1. Small(0) = {{}}
    BY <1>1, FS_EmptySet
  <2>2. Good(0, [s \in Small(0) |-> base])
    BY <2>1
  <2> QED
    BY <2>2
<1>4. ASSUME NEW n \in Nat, n \in N PROVE n + 1 \in N
  <2>1. PICK it : Good(n, it)
    BY <1>4
  <2> DEFINE more == [s \in Small(n + 1) |->
                        IF s = {} THEN base ELSE h[<<pick[s], it[s \ {pick[s]}]>>]]
  <2>2. \A s \in Small(n + 1) : s # {} => s \ {pick[s]} \in Small(n)
    BY <1>1, <1>2
  <2>3. \A s \in Small(n) : s \in Small(n + 1) /\ more[s] = it[s]
    BY <1>1, <2>1
  <2>4. more \in [Small(n + 1) -> V]
    BY <2>1, <2>2
  <2>5. \A s \in Small(n + 1) :
          more[s] = IF s = {} THEN base ELSE h[<<pick[s], more[s \ {pick[s]}]>>]
    <3> SUFFICES ASSUME NEW s \in Small(n + 1), s # {}
                 PROVE  more[s \ {pick[s]}] = it[s \ {pick[s]}]
      BY <2>2, <2>3
    <3> HIDE DEF more, Small, Good
    <3> QED
      BY <2>2, <2>3
  <2> HIDE DEF Small, more
  <2> QED
    BY <2>4, <2>5
<1>5. Nat \subseteq N
  <2> HIDE DEF N
  <2> QED
    BY <1>3, <1>4, NatSetInduction
<1>6. PICK it : Good(Cardinality(S), it)
  BY <1>1, <1>5
<1>7. Small(Cardinality(S)) = SUBSET S
  BY <1>1, FS_Subset
<1> HIDE DEF Small
<1> QED
  BY <1>6, <1>7 DEF IsFold

-----------------------------------------------------------------------------
(* Sums.                                                                    *)

SumOver(f, S) == MapThenSumSet(LAMBDA a : f[a], S)

Pick(s) == CHOOSE x \in s : TRUE

Sums(it, f, S) ==
  it = [s \in SUBSET S |-> IF s = {} THEN 0 ELSE f[Pick(s)] + it[s \ {Pick(s)}]]

LEMMA PickIn == \A s : s # {} => Pick(s) \in s
BY DEF Pick

LEMMA SumsExist ==
  ASSUME NEW S, IsFiniteSet(S), NEW f, \A x \in S : f[x] \in Int
  PROVE  \E it \in [SUBSET S -> Int] : Sums(it, f, S)
<1> DEFINE pick == [s \in SUBSET S |-> Pick(s)]
           h == [p \in S \X Int |-> f[p[1]] + p[2]]
<1>1. \A s \in SUBSET S : s # {} => pick[s] \in s
  BY PickIn
<1>2. \A x \in S, v \in Int : h[<<x, v>>] = f[x] + v
  OBVIOUS
<1>3. FoldSteps(S, Int, 0, pick, h)
  <2> HIDE DEF h, pick
  <2>1. ASSUME NEW x \in S, NEW v \in Int PROVE h[<<x, v>>] \in Int
    <3>1. f[x] \in Int
      OBVIOUS
    <3>2. f[x] + v \in Int
      BY <3>1
    <3> QED
      BY <1>2, <3>2
  <2> QED
    BY <1>1, <2>1 DEF FoldSteps
<1>4. PICK it : IsFold(it, S, Int, 0, pick, h)
  <2> HIDE DEF h, pick
  <2> QED
    BY <1>3, FoldExists
<1>5. ASSUME NEW s \in SUBSET S, s # {}
      PROVE  h[<<pick[s], it[s \ {pick[s]}]>>] = f[Pick(s)] + it[s \ {Pick(s)}]
  <2>1. pick[s] = Pick(s)
    OBVIOUS
  <2>2. pick[s] \in S /\ it[s \ {pick[s]}] \in Int
    <3>1. it \in [SUBSET S -> Int]
      BY <1>4 DEF IsFold
    <3> HIDE DEF pick
    <3> QED
      BY <1>1, <1>5, <3>1
  <2> QED
    BY <1>2, <2>1, <2>2
<1>6. it \in [SUBSET S -> Int] /\ Sums(it, f, S)
  <2> HIDE DEF h, pick
  <2> QED
    BY <1>4, <1>5 DEF IsFold, Sums
<1> HIDE DEF h, pick
<1> QED
  BY <1>6

LEMMA SumOverIs ==
  ASSUME NEW f, NEW S
  PROVE  SumOver(f, S) = (CHOOSE it : Sums(it, f, S))[S]
BY DEF SumOver, MapThenSumSet, MapThenFoldSet, Sums, Pick

\* What a sum comes to depends on the summands only.
LEMMA SumsAgree ==
  ASSUME NEW S, IsFiniteSet(S), NEW R, NEW T, S \in SUBSET R, S \in SUBSET T,
         NEW f, NEW g, \A x \in S : f[x] = g[x],
         NEW it, NEW jt, Sums(it, f, R), Sums(jt, g, T)
  PROVE  it[S] = jt[S]
<1> DEFINE N == {n \in Nat : \A s \in SUBSET S : Cardinality(s) = n => it[s] = jt[s]}
<1>1. \A s \in SUBSET S : IsFiniteSet(s) /\ Cardinality(s) \in Nat
  BY FS_Subset, FS_CardinalityType
<1>2. 0 \in N
  <2>1. it[{}] = 0 /\ jt[{}] = 0
    BY DEF Sums
  <2> QED
    BY <1>1, <2>1, FS_EmptySet
<1>3. ASSUME NEW n \in Nat, n \in N PROVE n + 1 \in N
  <2> SUFFICES ASSUME NEW s \in SUBSET S, Cardinality(s) = n + 1 PROVE it[s] = jt[s]
    OBVIOUS
  <2>1. s # {}
    <3>1. Cardinality({}) = 0 /\ n + 1 # 0
      BY FS_EmptySet
    <3> QED
      BY <3>1
  <2>2. Pick(s) \in s /\ s \ {Pick(s)} \in SUBSET S
    BY <2>1, PickIn
  <2>3. Cardinality(s \ {Pick(s)}) = n
    <3>1. Cardinality(s \ {Pick(s)}) = Cardinality(s) - 1
      BY <1>1, <2>2, FS_RemoveElement
    <3> QED
      BY <3>1
  <2>4. it[s \ {Pick(s)}] = jt[s \ {Pick(s)}]
    BY <1>3, <2>2, <2>3
  <2>5. it[s] = f[Pick(s)] + it[s \ {Pick(s)}] /\ jt[s] = g[Pick(s)] + jt[s \ {Pick(s)}]
    BY <2>1 DEF Sums
  <2> QED
    BY <2>2, <2>4, <2>5
<1>4. Nat \subseteq N
  <2> HIDE DEF N
  <2> QED
    BY <1>2, <1>3, NatSetInduction
<1> QED
  BY <1>1, <1>4

LEMMA SumOverSums ==
  ASSUME NEW S, IsFiniteSet(S), NEW f, \A x \in S : f[x] \in Int,
         NEW s \in SUBSET S
  PROVE  \A it : Sums(it, f, S) => SumOver(f, s) = it[s]
<1>1. IsFiniteSet(s)
  BY FS_Subset
<1>2. Sums(CHOOSE jt : Sums(jt, f, s), f, s)
  BY <1>1, SumsExist
<1> QED
  BY <1>1, <1>2, SumsAgree, SumOverIs

LEMMA SumOverType ==
  ASSUME NEW S, IsFiniteSet(S), NEW f, \A x \in S : f[x] \in Int
  PROVE  SumOver(f, S) \in Int
<1>1. PICK it \in [SUBSET S -> Int] : Sums(it, f, S)
  BY SumsExist
<1>2. SumOver(f, S) = it[S]
  BY <1>1, SumOverSums
<1> QED
  BY <1>1, <1>2

LEMMA SumOverSame ==
  ASSUME NEW S, IsFiniteSet(S), NEW f, NEW g, \A x \in S : f[x] \in Int /\ f[x] = g[x]
  PROVE  SumOver(f, S) = SumOver(g, S)
<1>1. PICK it : Sums(it, f, S)
  BY SumsExist
<1>2. PICK jt : Sums(jt, g, S)
  BY SumsExist
<1>3. it[S] = jt[S]
  BY <1>1, <1>2, SumsAgree
<1> QED
  BY <1>1, <1>2, <1>3, SumOverSums

LEMMA SumOverEmpty == \A f : SumOver(f, {}) = 0
<1> SUFFICES ASSUME NEW f PROVE SumOver(f, {}) = 0
  OBVIOUS
<1>1. PICK it : Sums(it, f, {})
  BY SumsExist, FS_EmptySet
<1>2. SumOver(f, {}) = it[{}]
  BY <1>1, SumOverSums, FS_EmptySet
<1> QED
  BY <1>1, <1>2 DEF Sums

\* The order of the summands does not matter.
LEMMA SumOverRemove ==
  ASSUME NEW S, IsFiniteSet(S), NEW f, \A x \in S : f[x] \in Int, NEW x \in S
  PROVE  SumOver(f, S) = f[x] + SumOver(f, S \ {x})
<1>1. PICK it \in [SUBSET S -> Int] : Sums(it, f, S)
  BY SumsExist
<1> DEFINE N == {n \in Nat : \A s \in SUBSET S : Cardinality(s) = n =>
                               \A y \in s : it[s] = f[y] + it[s \ {y}]}
<1>2. \A s \in SUBSET S : IsFiniteSet(s) /\ Cardinality(s) \in Nat
  BY FS_Subset, FS_CardinalityType
<1>3. 0 \in N
  BY <1>2, FS_EmptySet
<1>4. ASSUME NEW n \in Nat, n \in N PROVE n + 1 \in N
  <2> SUFFICES ASSUME NEW s \in SUBSET S, Cardinality(s) = n + 1, NEW y \in s
               PROVE  it[s] = f[y] + it[s \ {y}]
    OBVIOUS
  <2> DEFINE z == Pick(s)
  <2>1. z \in s
    BY PickIn
  <2>2. it[s] = f[z] + it[s \ {z}]
    BY <1>1 DEF Sums
  <2> HIDE DEF z
  <2>3. CASE y = z
    BY <2>2, <2>3
  <2>4. CASE y # z
    <3>1. Cardinality(s \ {y}) = n /\ Cardinality(s \ {z}) = n
      <4>1. /\ Cardinality(s \ {y}) = Cardinality(s) - 1
            /\ Cardinality(s \ {z}) = Cardinality(s) - 1
        BY <1>2, <2>1, FS_RemoveElement
      <4> QED
        BY <4>1
    <3>2. it[s \ {z}] = f[y] + it[(s \ {z}) \ {y}]
      BY <1>4, <2>4, <3>1
    <3>3. it[s \ {y}] = f[z] + it[(s \ {y}) \ {z}]
      BY <1>4, <2>1, <2>4, <3>1
    <3>4. (s \ {z}) \ {y} = (s \ {y}) \ {z}
      OBVIOUS
    <3>5. f[y] \in Int /\ f[z] \in Int /\ it[(s \ {y}) \ {z}] \in Int
      BY <1>1, <2>1
    <3>6. \A a, b, c \in Int : a + (b + c) = b + (a + c)
      OBVIOUS
    <3> DEFINE rest == it[(s \ {y}) \ {z}]
    <3>7. f[z] + (f[y] + rest) = f[y] + (f[z] + rest)
      BY <3>5, <3>6
    <3> QED
      BY <2>2, <3>2, <3>3, <3>4, <3>7
  <2> QED
    BY <2>3, <2>4
<1>5. Nat \subseteq N
  <2> HIDE DEF N
  <2> QED
    BY <1>3, <1>4, NatSetInduction
<1>6. it[S] = f[x] + it[S \ {x}]
  BY <1>2, <1>5
<1> QED
  BY <1>1, <1>6, SumOverSums

LEMMA SumOverAdd ==
  ASSUME NEW S, IsFiniteSet(S), NEW f, \A y \in S : f[y] \in Int,
         NEW x, x \notin S, f[x] \in Int
  PROVE  SumOver(f, S \cup {x}) = SumOver(f, S) + f[x]
<1>1. IsFiniteSet(S \cup {x}) /\ (S \cup {x}) \ {x} = S
  BY FS_AddElement
<1>2. SumOver(f, S \cup {x}) = f[x] + SumOver(f, S)
  BY <1>1, SumOverRemove
<1> QED
  BY <1>2, SumOverType

\* No summand is negative, nor is the sum.
LEMMA SumOverNatural ==
  ASSUME NEW S, IsFiniteSet(S), NEW f, \A x \in S : f[x] \in Nat
  PROVE  SumOver(f, S) \in Nat
<1> DEFINE F == {T \in SUBSET S : SumOver(f, T) \in Nat}
<1>1. {} \in F
  BY SumOverEmpty
<1>2. ASSUME NEW T \in SUBSET S, T \in F, NEW x \in S \ T
      PROVE  T \cup {x} \in F
  <2>1. IsFiniteSet(T)
    BY FS_Subset
  <2>2. \A y \in T : f[y] \in Int
    OBVIOUS
  <2>3. f[x] \in Nat /\ f[x] \in Int /\ x \notin T
    OBVIOUS
  <2>4. SumOver(f, T \cup {x}) = SumOver(f, T) + f[x]
    BY <2>1, <2>2, <2>3, SumOverAdd
  <2>5. SumOver(f, T) \in Nat /\ SumOver(f, T) + f[x] \in Nat
    BY <1>2, <2>3
  <2> QED
    BY <2>4, <2>5
<1>3. S \in F
  <2> HIDE DEF F
  <2> QED
    BY <1>1, <1>2, FiniteSetInduction
<1> QED
  BY <1>3

\* A sum over a row whose first summand is taken away.
LEMMA SumOverShift ==
  ASSUME NEW n \in Nat, NEW f, \A i \in 1..(n + 1) : f[i] \in Int,
         NEW g, \A i \in 1..n : g[i] = f[i + 1]
  PROVE  SumOver(f, 1..(n + 1)) = f[1] + SumOver(g, 1..n)
<1> DEFINE N == {m \in Nat : m <= n => SumOver(f, 1..(m + 1)) = f[1] + SumOver(g, 1..m)}
<1>1. \A m \in 0..n : \A i \in 1..(m + 1) : f[i] \in Int
  OBVIOUS
<1>2. \A m \in 0..n : \A i \in 1..m : g[i] \in Int
  BY <1>1
<1>3. 0 \in N
  <2>1. SumOver(f, {} \cup {1}) = SumOver(f, {}) + f[1]
    BY FS_EmptySet, SumOverAdd
  <2>2. 1..(0 + 1) = {} \cup {1} /\ 1..0 = {}
    OBVIOUS
  <2>3. SumOver(f, {}) = 0 /\ SumOver(g, {}) = 0
    BY SumOverEmpty
  <2> QED
    BY <2>1, <2>2, <2>3
<1>4. ASSUME NEW m \in Nat, m \in N PROVE m + 1 \in N
  <2> SUFFICES ASSUME m + 1 <= n
               PROVE  SumOver(f, 1..((m + 1) + 1)) = f[1] + SumOver(g, 1..(m + 1))
    OBVIOUS
  <2>1. SumOver(f, 1..(m + 1)) = f[1] + SumOver(g, 1..m)
    BY <1>4
  <2> HIDE DEF N
  <2> DEFINE S == 1..(m + 1)
             T == 1..m
             x == m + 2
             y == m + 1
  <2>2. /\ IsFiniteSet(S) /\ x \notin S /\ f[x] \in Int /\ \A i \in S : f[i] \in Int
        /\ IsFiniteSet(T) /\ y \notin T /\ g[y] \in Int /\ \A i \in T : g[i] \in Int
    <3>1. IsFiniteSet(S) /\ IsFiniteSet(T)
      BY FS_Interval
    <3>2. x \notin S /\ f[x] \in Int /\ \A i \in S : f[i] \in Int
      OBVIOUS
    <3>3. y \notin T /\ g[y] \in Int /\ \A i \in T : g[i] \in Int
      BY <1>2
    <3> QED
      BY <3>1, <3>2, <3>3
  <2>3. S = T \cup {y} /\ 1..((m + 1) + 1) = S \cup {x} /\ g[y] = f[x] /\ f[1] \in Int
    OBVIOUS
  <2> HIDE DEF S, T, x, y
  <2>4. SumOver(f, S \cup {x}) = SumOver(f, S) + f[x]
    BY <2>2, SumOverAdd
  <2>5. SumOver(g, T \cup {y}) = SumOver(g, T) + g[y]
    BY <2>2, SumOverAdd
  <2>6. SumOver(g, T) \in Int
    BY <2>2, SumOverType
  <2>7. SumOver(f, S) = f[1] + SumOver(g, T)
    BY <2>1 DEF S, T
  <2>8. SumOver(f, S \cup {x}) = f[1] + SumOver(g, S)
    BY <2>2, <2>3, <2>4, <2>5, <2>6, <2>7
  <2> QED
    BY <2>3, <2>8 DEF S
<1>5. Nat \subseteq N
  <2> HIDE DEF N
  <2> QED
    BY <1>3, <1>4, NatSetInduction
<1> QED
  BY <1>5

LEMMA SumOverNext ==
  ASSUME NEW m \in Nat, NEW f, \A i \in 1..(m + 1) : f[i] \in Int
  PROVE  /\ SumOver(f, 1..m) \in Int /\ SumOver(f, 1..(m + 1)) \in Int
         /\ SumOver(f, 1..(m + 1)) = SumOver(f, 1..m) + f[m + 1]
<1>1. IsFiniteSet(1..m) /\ IsFiniteSet(1..(m + 1))
  BY FS_Interval
<1>2. m + 1 \notin 1..m /\ (1..m) \cup {m + 1} = 1..(m + 1) /\ \A i \in 1..m : f[i] \in Int
  OBVIOUS
<1>3. f[m + 1] \in Int
  OBVIOUS
<1>4. SumOver(f, 1..m) \in Int /\ SumOver(f, 1..(m + 1)) \in Int
  BY <1>1, <1>2, SumOverType
<1>5. SumOver(f, (1..m) \cup {m + 1}) = SumOver(f, 1..m) + f[m + 1]
  <2> DEFINE S == 1..m
             x == m + 1
  <2>1. IsFiniteSet(S) /\ x \notin S /\ f[x] \in Int /\ \A i \in S : f[i] \in Int
    BY <1>1, <1>2, <1>3
  <2> HIDE DEF S, x
  <2>2. SumOver(f, S \cup {x}) = SumOver(f, S) + f[x]
    BY <2>1, SumOverAdd
  <2> QED
    BY <2>2 DEF S, x
<1> QED
  BY <1>2, <1>4, <1>5

\* A row cut in two.
LEMMA SumOverSplit ==
  ASSUME NEW x \in Nat, NEW n \in Nat, NEW f, \A i \in 1..(x + n) : f[i] \in Int,
         NEW g, \A i \in 1..n : g[i] = f[x + i]
  PROVE  SumOver(f, 1..(x + n)) = SumOver(f, 1..x) + SumOver(g, 1..n)
<1> DEFINE N == {m \in Nat : m <= n =>
                   SumOver(f, 1..(x + m)) = SumOver(f, 1..x) + SumOver(g, 1..m)}
<1>1. \A m \in 0..n : \A i \in 1..(x + m) : f[i] \in Int
  OBVIOUS
<1>2. \A m \in 0..n : \A i \in 1..m : g[i] \in Int
  OBVIOUS
<1>3. SumOver(f, 1..x) \in Int
  <2>1. IsFiniteSet(1..x) /\ \A i \in 1..x : f[i] \in Int
    BY FS_Interval
  <2> QED
    BY <2>1, SumOverType
<1>4. 0 \in N
  <2>1. SumOver(g, 1..0) = 0
    <3>1. 1..0 = {}
      OBVIOUS
    <3> QED
      BY <3>1, SumOverEmpty
  <2>2. x + 0 = x
    OBVIOUS
  <2> QED
    BY <1>3, <2>1, <2>2
<1>5. ASSUME NEW m \in Nat, m \in N PROVE m + 1 \in N
  <2> SUFFICES ASSUME m + 1 <= n
               PROVE  SumOver(f, 1..(x + (m + 1))) = SumOver(f, 1..x) + SumOver(g, 1..(m + 1))
    OBVIOUS
  <2>1. SumOver(f, 1..(x + m)) = SumOver(f, 1..x) + SumOver(g, 1..m)
    BY <1>5
  <2> HIDE DEF N
  <2>2. /\ SumOver(g, 1..m) \in Int
        /\ SumOver(g, 1..(m + 1)) = SumOver(g, 1..m) + g[m + 1]
    <3>1. \A i \in 1..(m + 1) : g[i] \in Int
      BY <1>2
    <3> QED
      BY <3>1, SumOverNext
  <2>3. SumOver(f, 1..((x + m) + 1)) = SumOver(f, 1..(x + m)) + f[(x + m) + 1]
    <3>1. x + m \in Nat /\ \A i \in 1..((x + m) + 1) : f[i] \in Int
      BY <1>1
    <3> QED
      BY <3>1, SumOverNext
  <2>4. (x + m) + 1 = x + (m + 1) /\ f[x + (m + 1)] = g[m + 1] /\ g[m + 1] \in Int
    OBVIOUS
  <2>5. \A a, b, c \in Int : (a + b) + c = a + (b + c)
    OBVIOUS
  <2> QED
    BY <1>3, <2>1, <2>2, <2>3, <2>4, <2>5
<1>6. Nat \subseteq N
  <2> HIDE DEF N
  <2> QED
    BY <1>4, <1>5, NatSetInduction
<1> QED
  BY <1>6

\* The row f is g with the c places of h behind the first x.
IsCut(f, g, h, x, c, r) ==
  /\ x \in Nat /\ c \in Nat /\ r \in Nat
  /\ \A i \in 1..((x + c) + r) : f[i] \in Int
  /\ \A i \in 1..(x + r) : g[i] = IF i <= x THEN f[i] ELSE f[i + c]
  /\ \A i \in 1..c : h[i] = f[x + i]

LEMMA SumOverCut ==
  ASSUME NEW x, NEW c, NEW r, NEW f, NEW g, NEW h, IsCut(f, g, h, x, c, r)
  PROVE  /\ SumOver(f, 1..((x + c) + r)) = SumOver(g, 1..(x + r)) + SumOver(h, 1..c)
         /\ SumOver(g, 1..(x + r)) \in Int /\ SumOver(h, 1..c) \in Int
<1> DEFINE t == [i \in 1..r |-> f[(x + c) + i]]
<1> USE DEF IsCut
<1>1. x + c \in Nat
  OBVIOUS
<1>2. SumOver(f, 1..(x + c)) = SumOver(f, 1..x) + SumOver(h, 1..c)
  <2>1. \A i \in 1..(x + c) : f[i] \in Int
    OBVIOUS
  <2> QED
    BY <2>1, SumOverSplit
<1>3. SumOver(f, 1..((x + c) + r)) = SumOver(f, 1..(x + c)) + SumOver(t, 1..r)
  <2>1. \A i \in 1..r : t[i] = f[(x + c) + i]
    OBVIOUS
  <2> DEFINE y == x + c
  <2>2. /\ y \in Nat /\ (\A i \in 1..(y + r) : f[i] \in Int)
        /\ \A i \in 1..r : t[i] = f[y + i]
    BY <1>1, <2>1
  <2> HIDE DEF t, y
  <2>3. SumOver(f, 1..(y + r)) = SumOver(f, 1..y) + SumOver(t, 1..r)
    BY <2>2, SumOverSplit
  <2> QED
    BY <2>3 DEF y
<1>4. SumOver(g, 1..(x + r)) = SumOver(g, 1..x) + SumOver(t, 1..r)
  <2>1. \A i \in 1..(x + r) : g[i] \in Int
    OBVIOUS
  <2>2. \A i \in 1..r : t[i] = g[x + i]
    OBVIOUS
  <2> HIDE DEF t
  <2> QED
    BY <2>1, <2>2, SumOverSplit
<1>5. SumOver(g, 1..x) = SumOver(f, 1..x)
  <2>1. \A i \in 1..x : f[i] \in Int /\ f[i] = g[i]
    OBVIOUS
  <2>2. IsFiniteSet(1..x)
    BY FS_Interval
  <2> QED
    BY <2>1, <2>2, SumOverSame
<1>6. /\ SumOver(f, 1..x) \in Int /\ SumOver(h, 1..c) \in Int
      /\ SumOver(t, 1..r) \in Int
  <2>1. /\ \A i \in 1..x : f[i] \in Int
        /\ \A i \in 1..c : h[i] \in Int
        /\ \A i \in 1..r : t[i] \in Int
    OBVIOUS
  <2>2. IsFiniteSet(1..x) /\ IsFiniteSet(1..c) /\ IsFiniteSet(1..r)
    BY FS_Interval
  <2> HIDE DEF t
  <2> QED
    BY <2>1, <2>2, SumOverType
<1> DEFINE A == SumOver(f, 1..x)
           B == SumOver(h, 1..c)
           C == SumOver(t, 1..r)
<1>7. /\ SumOver(f, 1..((x + c) + r)) = (A + B) + C /\ SumOver(g, 1..(x + r)) = A + C
  BY <1>2, <1>3, <1>4, <1>5
<1>8. A \in Int /\ B \in Int /\ C \in Int
  BY <1>6
<1>9. (A + B) + C = (A + C) + B /\ A + C \in Int
  <2> HIDE DEF A, B, C
  <2> QED
    BY <1>8
<1> QED
  BY <1>6, <1>7, <1>9

\* A row of values none of which exceeds B.
LEMMA SumOverAtMost ==
  ASSUME NEW m \in Nat, NEW f, NEW B \in Int, \A i \in 1..m : f[i] \in Int /\ f[i] <= B
  PROVE  SumOver(f, 1..m) <= m * B
<1> DEFINE N == {n \in Nat : n <= m => SumOver(f, 1..n) <= n * B}
<1>1. 0 \in N
  <2>1. 1..0 = {}
    OBVIOUS
  <2>2. SumOver(f, 1..0) = 0
    BY <2>1, SumOverEmpty
  <2> QED
    BY <2>2
<1>2. ASSUME NEW n \in Nat, n \in N PROVE n + 1 \in N
  <2> SUFFICES ASSUME n + 1 <= m PROVE SumOver(f, 1..(n + 1)) <= (n + 1) * B
    OBVIOUS
  <2>1. SumOver(f, 1..n) <= n * B
    BY <1>2
  <2> HIDE DEF N
  <2>2. n + 1 \in 1..m /\ \A i \in 1..(n + 1) : f[i] \in Int
    OBVIOUS
  <2>3. SumOver(f, 1..n) \in Int /\ SumOver(f, 1..(n + 1)) = SumOver(f, 1..n) + f[n + 1]
    BY <2>2, SumOverNext
  <2>4. f[n + 1] \in Int /\ f[n + 1] <= B /\ (n + 1) * B = n * B + B /\ n * B \in Int
    BY <2>2
  <2> QED
    BY <2>1, <2>3, <2>4
<1>3. Nat \subseteq N
  <2> HIDE DEF N
  <2> QED
    BY <1>1, <1>2, NatSetInduction
<1> QED
  BY <1>3

\* What d gains from place to place it gains in all.
LEMMA Telescope ==
  ASSUME NEW m \in Nat, NEW f, \A i \in 1..m : f[i] \in Int,
         NEW d, \A i \in 0..m : d[i] \in Int,
         NEW c \in Int, d[0] <= c,
         \A i \in 0..(m - 1) :
            d[i] <= c + SumOver(f, 1..i) => d[i + 1] <= d[i] + f[i + 1]
  PROVE  d[m] <= c + SumOver(f, 1..m)
<1> DEFINE N == {n \in Nat : n <= m => d[n] <= c + SumOver(f, 1..n)}
<1>1. 0 \in N
  <2>1. 1..0 = {}
    OBVIOUS
  <2>2. SumOver(f, 1..0) = 0
    BY <2>1, SumOverEmpty
  <2> QED
    BY <2>2
<1>2. ASSUME NEW n \in Nat, n \in N PROVE n + 1 \in N
  <2> SUFFICES ASSUME n + 1 <= m PROVE d[n + 1] <= c + SumOver(f, 1..(n + 1))
    OBVIOUS
  <2>1. d[n] <= c + SumOver(f, 1..n)
    BY <1>2
  <2> HIDE DEF N
  <2>2. n \in 0..(m - 1) /\ n \in 0..m /\ n + 1 \in 0..m /\ f[n + 1] \in Int
        /\ \A i \in 1..(n + 1) : f[i] \in Int
    OBVIOUS
  <2>3. SumOver(f, 1..n) \in Int /\ SumOver(f, 1..(n + 1)) = SumOver(f, 1..n) + f[n + 1]
    BY <2>2, SumOverNext
  <2>4. d[n + 1] <= d[n] + f[n + 1]
    BY <2>1, <2>2
  <2>5. d[n] \in Int /\ d[n + 1] \in Int
    BY <2>2
  <2> QED
    BY <2>1, <2>2, <2>3, <2>4, <2>5
<1>3. Nat \subseteq N
  <2> HIDE DEF N
  <2> QED
    BY <1>1, <1>2, NatSetInduction
<1> QED
  BY <1>3

LEMMA SumOverAtLeast ==
  ASSUME NEW m \in Nat, NEW f, NEW B \in Int, \A i \in 1..m : f[i] \in Int /\ f[i] >= B
  PROVE  m * B <= SumOver(f, 1..m)
<1> DEFINE d == [i \in 0..m |-> i * B]
<1>1. \A i \in 0..m : d[i] = i * B /\ d[i] \in Int
  OBVIOUS
<1>2. d[0] <= 0 /\ m \in 0..m
  OBVIOUS
<1>3. \A i \in 0..(m - 1) : d[i + 1] <= d[i] + f[i + 1]
  <2> SUFFICES ASSUME NEW i \in 0..(m - 1) PROVE d[i + 1] <= d[i] + f[i + 1]
    OBVIOUS
  <2>1. i + 1 \in 1..m /\ i + 1 \in 0..m /\ i \in 0..m /\ (i + 1) * B = i * B + B
    OBVIOUS
  <2>2. d[i + 1] = i * B + B /\ d[i] = i * B /\ i * B \in Int
    BY <1>1, <2>1
  <2> QED
    BY <2>1, <2>2
<1> HIDE DEF d
<1> DEFINE c == 0
<1>4. d[m] <= c + SumOver(f, 1..m)
  <2>1. c \in Int /\ d[0] <= c
    BY <1>2
  <2>2. \A i \in 0..(m - 1) :
          d[i] <= c + SumOver(f, 1..i) => d[i + 1] <= d[i] + f[i + 1]
    BY <1>3
  <2> HIDE DEF c
  <2> QED
    BY <1>1, <2>1, <2>2, Telescope
<1>5. SumOver(f, 1..m) \in Int
  <2>1. IsFiniteSet(1..m)
    BY FS_Interval
  <2> QED
    BY <2>1, SumOverType
<1> QED
  BY <1>1, <1>2, <1>4, <1>5

LEMMA GreatestOfRow ==
  ASSUME NEW m \in Nat \ {0}, NEW f, \A i \in 1..m : f[i] \in Int
  PROVE  \E x \in 1..m : \A y \in 1..m : f[y] <= f[x]
<1> DEFINE N == {n \in Nat : n <= m - 1 =>
                   \E x \in 1..(n + 1) : \A y \in 1..(n + 1) : f[y] <= f[x]}
<1>1. 0 \in N
  <2>1. \A y \in 1..(0 + 1) : y = 1
    OBVIOUS
  <2>2. 1 \in 1..(0 + 1) /\ f[1] <= f[1]
    OBVIOUS
  <2> QED
    BY <2>1, <2>2
<1>2. ASSUME NEW n \in Nat, n \in N PROVE n + 1 \in N
  <2> SUFFICES ASSUME n + 1 <= m - 1
               PROVE  \E x \in 1..((n + 1) + 1) : \A y \in 1..((n + 1) + 1) : f[y] <= f[x]
    OBVIOUS
  <2>1. PICK x \in 1..(n + 1) : \A y \in 1..(n + 1) : f[y] <= f[x]
    BY <1>2
  <2> DEFINE z == (n + 1) + 1
  <2>2. /\ z \in 1..m /\ x \in 1..m /\ x \in 1..z /\ z \in 1..z
        /\ \A y \in 1..z : y \in 1..(n + 1) \/ y = z
    OBVIOUS
  <2>3. f[z] \in Int /\ f[x] \in Int
    BY <2>2
  <2> HIDE DEF z, N
  <2>4. CASE f[z] <= f[x]
    <3>1. \A y \in 1..z : f[y] <= f[x]
      BY <2>1, <2>2, <2>4
    <3> QED
      BY <2>2, <3>1 DEF z
  <2>5. CASE ~(f[z] <= f[x])
    <3>1. \A y \in 1..z : f[y] <= f[z]
      <4> SUFFICES ASSUME NEW y \in 1..(n + 1) PROVE f[y] <= f[z]
        BY <2>2, <2>3
      <4>1. y \in 1..m
        BY <2>2 DEF z
      <4>2. f[y] \in Int
        BY <4>1
      <4> QED
        BY <2>1, <2>3, <2>5, <4>2
    <3> QED
      BY <2>2, <3>1 DEF z
  <2> QED
    BY <2>4, <2>5
<1>3. Nat \subseteq N
  <2> HIDE DEF N
  <2> QED
    BY <1>1, <1>2, NatSetInduction
<1>4. m - 1 \in Nat /\ m - 1 <= m - 1 /\ (m - 1) + 1 = m
  OBVIOUS
<1>5. m - 1 \in N
  <2> HIDE DEF N
  <2> QED
    BY <1>3, <1>4
<1> QED
  BY <1>4, <1>5

-----------------------------------------------------------------------------
(* Texts in buffers.                                                        *)

\* b is a buffer of size bytes whose first NUL is at place n.
IsText(b, size, n) ==
  /\ DOMAIN b = 0..(size - 1) /\ b = [i \in DOMAIN b |-> b[i]]
  /\ n < size /\ b[n] = NUL
  /\ \A i \in 0..(n - 1) : b[i] # NUL

LEMMA LengthOfText ==
  ASSUME NEW b, NEW size \in Nat, NEW n \in Nat, IsText(b, size, n)
  PROVE  StrLen(b) = n
<1> DEFINE nuls == {i \in DOMAIN b : b[i] = NUL}
<1>1. DOMAIN b = 0..(size - 1) /\ n \in 0..(size - 1)
  BY DEF IsText
<1>2. nuls \in SUBSET Nat /\ n \in nuls
  BY <1>1 DEF IsText
<1>3. ASSUME NEW i \in nuls PROVE n <= i
  <2>1. i \in 0..(size - 1) /\ b[i] = NUL
    BY <1>1
  <2>2. i \notin 0..(n - 1)
    BY <2>1 DEF IsText
  <2> QED
    BY <2>1, <2>2
<1>4. Min(nuls) = n
  <2> HIDE DEF nuls
  <2>1. Min(nuls) \in nuls /\ Min(nuls) <= n
    BY <1>2, MinIsLeast
  <2>2. Min(nuls) \in Nat /\ n <= Min(nuls)
    BY <1>2, <1>3, <2>1
  <2> QED
    BY <2>1, <2>2
<1> QED
  BY <1>2, <1>4 DEF StrLen

\* A buffer with a NUL holds a text.
LEMMA TextFits ==
  ASSUME NEW b, NEW size \in Nat, DOMAIN b = 0..(size - 1), b = [i \in DOMAIN b |-> b[i]],
         NEW j \in 0..(size - 1), b[j] = NUL
  PROVE  StrLen(b) \in 0..j /\ IsText(b, size, StrLen(b))
<1> DEFINE nuls == {i \in DOMAIN b : b[i] = NUL}
           k == StrLen(b)
<1>1. nuls \in SUBSET Nat /\ j \in nuls
  OBVIOUS
<1>2. k = Min(nuls)
  BY <1>1 DEF StrLen
<1>3. k \in nuls /\ \A i \in nuls : k <= i
  <2> HIDE DEF nuls, k
  <2> QED
    BY <1>1, <1>2, MinIsLeast
<1>4. k \in 0..j /\ k < size /\ b[k] = NUL
  <2> HIDE DEF k
  <2> QED
    BY <1>1, <1>3
<1>5. ASSUME NEW i \in 0..(k - 1) PROVE b[i] # NUL
  <2> HIDE DEF k
  <2>1. i \in 0..(size - 1) /\ ~(k <= i)
    BY <1>4
  <2> QED
    BY <1>3, <2>1
<1> QED
  BY <1>4, <1>5 DEF IsText

LEMMA EmptyBuffers ==
  /\ StrLen(NoBuffer) = 0
  /\ \A n \in Nat \ {0} : IsText(Zeroed(n), n, 0)
<1>1. StrLen(NoBuffer) = 0
  <2>1. DOMAIN NoBuffer = {}
    BY DEF NoBuffer
  <2> QED
    BY <2>1, FS_EmptySet DEF StrLen
<1>2. ASSUME NEW n \in Nat \ {0} PROVE IsText(Zeroed(n), n, 0)
  BY DEF IsText, Zeroed
<1> QED
  BY <1>1, <1>2

\* What strlcpy leaves of the text src in a buffer of size bytes.
CutTo(size, src) == Min({StrLen(src), size - 1})

LEMMA CutToIs ==
  ASSUME NEW size \in Nat \ {0}, NEW src, StrLen(src) \in Nat
  PROVE  /\ CutTo(size, src) \in 0..(size - 1) /\ CutTo(size, src) <= StrLen(src)
         /\ Min({StrLen(src), OneLess(size, StrLen(src))}) = CutTo(size, src)
<1>1. OneLess(size, StrLen(src)) = size - 1
  BY DEF OneLess
<1>2. {StrLen(src), size - 1} \in SUBSET Nat
  OBVIOUS
<1> QED
  BY <1>1, <1>2, MinIsLeast DEF CutTo

LEMMA CutToType ==
  ASSUME NEW size \in Nat \ {0}, NEW src, StrLen(src) \in Nat
  PROVE  CutTo(size, src) \in 0..(size - 1) /\ CutTo(size, src) <= StrLen(src)
BY CutToIs

LEMMA StrlcpyCuts ==
  ASSUME NEW size \in Nat \ {0}, NEW src, NEW room \in Nat, NEW k \in Nat, IsText(src, room, k)
  PROVE  /\ IsText(Strlcpy(Zeroed(size), src, size), size, CutTo(size, src))
         /\ \A i \in 0..(CutTo(size, src) - 1) : Strlcpy(Zeroed(size), src, size)[i] = src[i]
<1> DEFINE m == CutTo(size, src)
           b == Strlcpy(Zeroed(size), src, size)
<1>1. StrLen(src) = k
  BY LengthOfText
<1>2. m \in 0..(size - 1) /\ m <= k /\ Min({StrLen(src), OneLess(size, StrLen(src))}) = m
  BY <1>1, CutToIs
<1>3. NoBuffer \notin {Zeroed(size), src}
  <2>1. 0 \in DOMAIN Zeroed(size) /\ k \in DOMAIN src
    BY DEF Zeroed, IsText
  <2>2. DOMAIN NoBuffer = {}
    BY DEF NoBuffer
  <2> QED
    BY <2>1, <2>2
<1>4. b = Put(Zeroed(size), 0, src, m)
  <2> HIDE DEF m
  <2> QED
    BY <1>2, <1>3 DEF Strlcpy
<1> HIDE DEF m, b
<1>5. b = [i \in 0..(size - 1) |-> IF i < m THEN src[i] ELSE NUL]
  BY <1>2, <1>4 DEF Put, Zeroed
<1>6. \A i \in 0..(m - 1) : b[i] = src[i] /\ src[i] # NUL
  BY <1>2, <1>5 DEF IsText
<1>7. DOMAIN b = 0..(size - 1) /\ b = [i \in DOMAIN b |-> b[i]] /\ b[m] = NUL
  BY <1>2, <1>5
<1>8. IsText(b, size, m)
  BY <1>2, <1>6, <1>7 DEF IsText
<1> QED
  BY <1>6, <1>8 DEF m, b

\* strlcat appends a text that there is room for.
LEMMA StrlcatAppends ==
  ASSUME NEW b, NEW size \in Nat, NEW n \in Nat, IsText(b, size, n), b[size - 1] = NUL,
         NEW src, NEW room \in Nat, NEW k \in Nat, IsText(src, room, k), n + k < size
  PROVE  /\ IsText(Strlcat(b, src, size), size, n + k)
         /\ Strlcat(b, src, size)[size - 1] = NUL
<1>1. DOMAIN b = 0..(size - 1) /\ DOMAIN src = 0..(room - 1)
  BY DEF IsText
<1>2. NoBuffer \notin {b, src}
  <2>1. DOMAIN NoBuffer = {}
    BY DEF NoBuffer
  <2>2. n \in DOMAIN b /\ k \in DOMAIN src
    BY <1>1 DEF IsText
  <2> QED
    BY <2>1, <2>2
<1>3. [b EXCEPT ![size - 1] = NUL] = b
  BY DEF IsText
<1>4. StrLen(b) = n /\ StrLen(src) = k
  BY LengthOfText
<1>5. Min({k, OneLess(size - n, k)}) = k
  <2>1. OneLess(size - n, k) \in Nat /\ k <= OneLess(size - n, k)
    BY DEF OneLess
  <2> HIDE DEF OneLess
  <2>2. Min({k, OneLess(size - n, k)}) \in {k, OneLess(size - n, k)}
        /\ Min({k, OneLess(size - n, k)}) <= k
    BY <2>1, MinIsLeast
  <2> QED
    BY <2>1, <2>2
<1>6. Strlcat(b, src, size) = Put(b, n, src, k)
  BY <1>2, <1>3, <1>4, <1>5 DEF Strlcat
<1>7. /\ DOMAIN Put(b, n, src, k) = 0..(size - 1)
      /\ Put(b, n, src, k) = [i \in DOMAIN Put(b, n, src, k) |-> Put(b, n, src, k)[i]]
  BY <1>1 DEF Put
<1>8. \A i \in 0..(size - 1) :
        Put(b, n, src, k)[i] = IF i >= n /\ i < n + k THEN src[i - n]
                               ELSE IF i = n + k THEN NUL ELSE b[i]
  BY <1>1 DEF Put
<1>9. \A i \in 0..(n + k - 1) : Put(b, n, src, k)[i] # NUL
  <2> SUFFICES ASSUME NEW i \in 0..(n + k - 1) PROVE Put(b, n, src, k)[i] # NUL
    OBVIOUS
  <2>1. CASE i < n
    <3>1. i \in 0..(n - 1) /\ i \in 0..(size - 1) /\ i # n + k /\ ~(i >= n)
      BY <2>1
    <3>2. b[i] # NUL
      BY <3>1 DEF IsText
    <3> QED
      BY <1>8, <3>1, <3>2
  <2>2. CASE i >= n
    <3>1. i - n \in 0..(k - 1) /\ i \in 0..(size - 1)
      BY <2>2
    <3>2. src[i - n] # NUL
      BY <3>1 DEF IsText
    <3> QED
      BY <1>8, <2>2, <3>1, <3>2
  <2> QED
    BY <2>1, <2>2
<1>10. Put(b, n, src, k)[n + k] = NUL /\ Put(b, n, src, k)[size - 1] = NUL
  BY <1>8
<1> QED
  BY <1>6, <1>7, <1>9, <1>10 DEF IsText

\* It never writes anything but characters of its arguments.
LEMMA StrlcatType ==
  ASSUME NEW C, NUL \in C, NEW size \in Nat \ {0}, NEW b \in [0..(size - 1) -> C],
         NEW room \in Nat, NEW src \in [0..(room - 1) -> C],
         NEW k \in Nat, IsText(src, room, k)
  PROVE  Strlcat(b, src, size) \in [0..(size - 1) -> C]
<1> DEFINE cut == [b EXCEPT ![size - 1] = NUL]
           start == StrLen(cut)
           m == Min({k, OneLess(size - start, k)})
<1>1. cut \in [0..(size - 1) -> C] /\ cut[size - 1] = NUL
  OBVIOUS
<1>2. start \in 0..(size - 1)
  <2> DEFINE nuls == {i \in DOMAIN cut : cut[i] = NUL}
  <2>1. nuls \in SUBSET Nat /\ size - 1 \in nuls /\ nuls \in SUBSET (0..(size - 1))
    BY <1>1
  <2>2. start = Min(nuls)
    <3> HIDE DEF cut
    <3> QED
      BY <1>1 DEF StrLen
  <2> HIDE DEF start, nuls
  <2> QED
    BY <2>1, <2>2, MinIsLeast
<1>3. StrLen(src) = k
  BY LengthOfText
<1>4. m \in Nat /\ m <= k
  <2> HIDE DEF start
  <2>1. OneLess(size - start, k) \in Nat
    BY <1>2 DEF OneLess
  <2> HIDE DEF OneLess
  <2> QED
    BY <2>1, MinIsLeast
<1>5. Strlcat(b, src, size) \in {b, Put(cut, start, src, m)}
  BY <1>3 DEF Strlcat
<1>6. Put(cut, start, src, m) \in [0..(size - 1) -> C]
  <2> HIDE DEF cut, start, m
  <2>1. ASSUME NEW i \in 0..(size - 1), i >= start /\ i < start + m
        PROVE  src[i - start] \in C
    <3>1. i - start \in 0..(room - 1)
      BY <1>2, <1>4, <2>1 DEF IsText
    <3> QED
      BY <3>1
  <2> QED
    BY <1>1, <2>1 DEF Put
<1> QED
  BY <1>5, <1>6

-----------------------------------------------------------------------------
(* Counting modulo w.                                                       *)

LEMMA ModIs ==
  ASSUME NEW a \in Nat, NEW w \in Nat \ {0}
  PROVE  /\ a % w \in 0..(w - 1) /\ a \div w \in Nat
         /\ a = w * (a \div w) + (a % w)
OBVIOUS

LEMMA ModUnique ==
  ASSUME NEW a \in Nat, NEW w \in Nat \ {0}, NEW r \in 0..(w - 1), NEW k \in Int, a = r + k * w
  PROVE  a % w = r
OBVIOUS

LEMMA Distribute ==
  \A i, j, w \in Int : (i - j) * w = (w * i) - (w * j) /\ w * i \in Int
OBVIOUS

LEMMA ModAdd ==
  ASSUME NEW a \in Nat, NEW n \in Nat, NEW w \in Nat \ {0}
  PROVE  ((a % w) + n) % w = (a + n) % w
<1> DEFINE q == (a + n) \div w
           p == a \div w
           r == (a + n) % w
           x == a % w
<1>1. /\ r \in 0..(w - 1) /\ q \in Nat /\ a + n = (w * q) + r
      /\ x \in 0..(w - 1) /\ p \in Nat /\ a = (w * p) + x
  <2> DEFINE y == a + n
  <2>1. y \in Nat
    OBVIOUS
  <2> HIDE DEF y
  <2>2. y % w \in 0..(w - 1) /\ y \div w \in Nat /\ y = w * (y \div w) + (y % w)
    BY <2>1, ModIs
  <2>3. a % w \in 0..(w - 1) /\ a \div w \in Nat /\ a = w * (a \div w) + (a % w)
    BY ModIs
  <2> QED
    BY <2>2, <2>3 DEF y
<1> HIDE DEF q, p, r, x
<1>2. (q - p) * w = (w * q) - (w * p) /\ w * q \in Int /\ w * p \in Int
  BY <1>1, Distribute
<1>3. x + n = r + ((w * q) - (w * p))
  BY <1>1, <1>2
<1>4. x + n = r + ((q - p) * w)
  BY <1>1, <1>2, <1>3
<1>5. x + n \in Nat /\ q - p \in Int
  BY <1>1
<1>6. (x + n) % w = r
  BY <1>1, <1>4, <1>5, ModUnique
<1> QED
  BY <1>6 DEF r, x

LEMMA ModSubtract ==
  ASSUME NEW a \in Nat, NEW n \in Nat, NEW w \in Nat \ {0}
  PROVE  (((a + n) % w) + (w - (n % w))) % w = a % w
<1> DEFINE q == (a + n) \div w
           p == a \div w
           m == n \div w
           s == (a + n) % w
           r == a % w
           z == n % w
<1>1. /\ s \in 0..(w - 1) /\ q \in Nat /\ a + n = w * q + s
      /\ r \in 0..(w - 1) /\ p \in Nat /\ a = w * p + r
      /\ z \in 0..(w - 1) /\ m \in Nat /\ n = w * m + z
  <2> DEFINE y == a + n
  <2>1. y \in Nat
    OBVIOUS
  <2> HIDE DEF y
  <2>2. y % w \in 0..(w - 1) /\ y \div w \in Nat /\ y = w * (y \div w) + (y % w)
    BY <2>1, ModIs
  <2>3. a % w \in 0..(w - 1) /\ a \div w \in Nat /\ a = w * (a \div w) + (a % w)
    BY ModIs
  <2>4. n % w \in 0..(w - 1) /\ n \div w \in Nat /\ n = w * (n \div w) + (n % w)
    BY ModIs
  <2> QED
    BY <2>2, <2>3, <2>4 DEF y
<1> HIDE DEF q, p, m, r, s, z
<1>2. /\ (((p + 1) - q) + m) * w = (((w * p) + w) - (w * q)) + (w * m)
      /\ w * p \in Int /\ w * q \in Int /\ w * m \in Int
  <2>1. \A i, j, k \in Int : (((i + 1) - j) + k) * w = (((w * i) + w) - (w * j)) + (w * k)
    OBVIOUS
  <2>2. \A i \in Int : w * i \in Int
    OBVIOUS
  <2> QED
    BY <1>1, <2>1, <2>2
<1>3. s + (w - z) = r + ((((w * p) + w) - (w * q)) + (w * m))
  BY <1>1, <1>2
<1>4. s + (w - z) = r + ((((p + 1) - q) + m) * w)
  BY <1>1, <1>2, <1>3
<1>5. s + (w - z) \in Nat /\ ((p + 1) - q) + m \in Int
  BY <1>1
<1>6. (s + (w - z)) % w = r
  BY <1>1, <1>4, <1>5, ModUnique
<1> QED
  BY <1>6 DEF s, z, r
=============================================================================
