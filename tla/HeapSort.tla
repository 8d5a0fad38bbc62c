------------------------------ MODULE HeapSort ------------------------------
(***************************************************************************)
(* ALGORITHM_BT_HeapSort of algorithm.c, one iteration of a loop at a      *)
(* time: a heap with its minimum on top is built in a copy of the numbers, *)
(* then its top is popped as often as there are numbers.                   *)
(***************************************************************************)
EXTENDS Naturals, FiniteSets

CONSTANTS
  MaxCount,      \* bound: how many numbers are sorted at most
  Numbers        \* the values they have

VARIABLES
  auiNum,        \* the caller's array, from 0; the result replaces the input
  auiNumDeal,    \* the heap, from 1
  uiCount,       \* how many numbers there are
  uiTempCount,   \* how many of them are still in the heap
  uiIndex,       \* where Algorithm_bt_SiftDown is, 0 when it does not run
  i,             \* the variable of the loop that calls it
  phase          \* "create", "pop" or "done"

vars == <<auiNum, auiNumDeal, uiCount, uiTempCount, uiIndex, i, phase>>

Init ==
  /\ uiCount \in 0..MaxCount
  /\ auiNum \in [0..(uiCount - 1) -> Numbers]
  /\ auiNumDeal = [j \in 1..uiCount |-> auiNum[j - 1]]
  /\ uiTempCount = uiCount
  /\ uiIndex = 0
  /\ i = uiCount \div 2
  /\ phase = "create"

\* Faulty variant: the right child is compared with the parent only.
SmallestOfTwo(j) ==
  LET left == IF auiNumDeal[j] > auiNumDeal[2 * j] THEN 2 * j ELSE j
  IN  IF 2 * j + 1 <= uiTempCount /\ auiNumDeal[j] > auiNumDeal[2 * j + 1]
      THEN 2 * j + 1 ELSE left

\* The place of the smallest number among j's and its children's.
Smallest(j) ==
  LET left == IF auiNumDeal[j] > auiNumDeal[2 * j] THEN 2 * j ELSE j
  IN  IF 2 * j + 1 <= uiTempCount /\ auiNumDeal[left] > auiNumDeal[2 * j + 1]
      THEN 2 * j + 1 ELSE left

\* One iteration of Algorithm_bt_SiftDown; it is over when the number at uiIndex
\* has no child or none that is smaller.
SiftOn ==
  /\ uiIndex > 0
  /\ 2 * uiIndex <= uiTempCount
  /\ Smallest(uiIndex) # uiIndex
  /\ auiNumDeal' = [auiNumDeal EXCEPT ![uiIndex] = auiNumDeal[Smallest(uiIndex)],
                                      ![Smallest(uiIndex)] = auiNumDeal[uiIndex]]
  /\ uiIndex' = Smallest(uiIndex)
  /\ UNCHANGED <<auiNum, uiCount, uiTempCount, i, phase>>

\* Faulty variant: a number that has only a left child is not compared.
SiftEndEarly ==
  /\ uiIndex > 0
  /\ 2 * uiIndex < uiTempCount => Smallest(uiIndex) = uiIndex
  /\ uiIndex' = 0
  /\ UNCHANGED <<auiNum, auiNumDeal, uiCount, uiTempCount, i, phase>>

SiftEnd ==
  /\ uiIndex > 0
  /\ 2 * uiIndex <= uiTempCount => Smallest(uiIndex) = uiIndex
  /\ uiIndex' = 0
  /\ UNCHANGED <<auiNum, auiNumDeal, uiCount, uiTempCount, i, phase>>

\* Faulty variant: the loop does not count down.
CreateForever ==
  /\ phase = "create" /\ uiIndex = 0
  /\ IF i >= 1 THEN uiIndex' = i /\ i' = i /\ phase' = phase
               ELSE uiIndex' = 0 /\ i' = 1 /\ phase' = "pop"
  /\ UNCHANGED <<auiNum, auiNumDeal, uiCount, uiTempCount>>

\* Algorithm_bt_HeapCreate: from the last number that has a child to the first.
Create ==
  /\ phase = "create" /\ uiIndex = 0
  /\ IF i >= 1 THEN uiIndex' = i /\ i' = i - 1 /\ phase' = phase
               ELSE uiIndex' = 0 /\ i' = 1 /\ phase' = "pop"
  /\ UNCHANGED <<auiNum, auiNumDeal, uiCount, uiTempCount>>

\* Faulty variant: the top stays where it is.
PopKeepsTop ==
  /\ phase = "pop" /\ uiIndex = 0
  /\ i <= uiCount
  /\ auiNum' = [auiNum EXCEPT ![i - 1] = auiNumDeal[1]]
  /\ uiTempCount' = uiTempCount - 1
  /\ uiIndex' = 1
  /\ i' = i + 1
  /\ UNCHANGED <<auiNumDeal, uiCount, phase>>

\* Algorithm_bt_DeleteMax, which takes the minimum: the last number of the heap
\* replaces the top and is sifted down.
Pop ==
  /\ phase = "pop" /\ uiIndex = 0
  /\ i <= uiCount
  /\ auiNum' = [auiNum EXCEPT ![i - 1] = auiNumDeal[1]]
  /\ auiNumDeal' = [auiNumDeal EXCEPT ![1] = auiNumDeal[uiTempCount]]
  /\ uiTempCount' = uiTempCount - 1
  /\ uiIndex' = 1
  /\ i' = i + 1
  /\ UNCHANGED <<uiCount, phase>>

Return ==
  /\ phase = "pop" /\ uiIndex = 0
  /\ i > uiCount
  /\ phase' = "done"
  /\ UNCHANGED <<auiNum, auiNumDeal, uiCount, uiTempCount, uiIndex, i>>

Done == phase = "done" /\ UNCHANGED vars

Next == SiftOn \/ SiftEnd \/ Create \/ Pop \/ Return \/ Done

Spec == Init /\ [][Next]_vars

-----------------------------------------------------------------------------
\* j is not greater than its children.
OverChildren(j) ==
  \A c \in {2 * j, 2 * j + 1} : c <= uiTempCount => auiNumDeal[j] <= auiNumDeal[c]

\* The places from which on the heap is in order.
Ordered == IF phase = "create" THEN (i + 1)..uiTempCount ELSE 1..uiTempCount

\* While SiftDown runs its place is the only one out of order, and what lies
\* above it is no greater than what lies below it: the loop of SiftDown needs
\* no look back.
HeapOrder ==
  /\ \A j \in Ordered \ {uiIndex} : OverChildren(j)
  /\ uiIndex > 0 /\ uiIndex \div 2 \in Ordered =>
        \A c \in {2 * uiIndex, 2 * uiIndex + 1} :
           c <= uiTempCount => auiNumDeal[uiIndex \div 2] <= auiNumDeal[c]

\* What was popped is in order and no greater than anything left in the heap.
PoppedSorted ==
  phase # "create" =>
     /\ \A j, l \in 0..(i - 2) : j <= l => auiNum[j] <= auiNum[l]
     /\ \A j \in 0..(i - 2) : \A l \in 1..uiTempCount : auiNum[j] <= auiNumDeal[l]

Occurs(f, S, n) == Cardinality({j \in S : f[j] = n})

\* No number is lost or doubled: what was popped and what is in the heap are
\* together as many of each number as the caller passed.  Stated as a step: no
\* step changes how often a number occurs.
Held(n) == IF phase = "create" THEN Occurs(auiNumDeal, 1..uiTempCount, n)
           ELSE Occurs(auiNum, 0..(i - 2), n) + Occurs(auiNumDeal, 1..uiTempCount, n)
NothingLost == [][\A n \in Numbers : Held(n)' = Held(n)]_vars

\* The sort ends.
Terminates == <>(phase = "done")

=============================================================================
