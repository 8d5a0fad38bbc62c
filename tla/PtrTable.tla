------------------------------ MODULE PtrTable ------------------------------
(***************************************************************************)
(* What the header of an hmdb index file is meant to be: an array with one *)
(* pointer for the free list and one for each hash value.  A pointer that  *)
(* is written is read back, and writing it changes no other.               *)
(***************************************************************************)
CONSTANTS Slots, Pointers

VARIABLE table

Init == table = [s \in Slots |-> 0]

Write(s, n) == table' = [table EXCEPT ![s] = n]

Next == \E s \in Slots, n \in Pointers : Write(s, n)

Spec == Init /\ [][Next]_table

=============================================================================
