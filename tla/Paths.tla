-------------------------------- MODULE Paths --------------------------------
(***************************************************************************)
(* The reference for the functions on maps: the lengths of the paths       *)
(* between two points that lead through points of a set, each at most once.*)
(***************************************************************************)
EXTENDS Maps, SequencesExt

LengthOf(map, path) ==
  SumFunction([x \in 1..(Len(path) - 1) |-> map[path[x]][path[x + 1]]])

\* The shortest path from a to b by way of S, INVAILD when there is none.
ShortestVia(map, S, a, b) ==
  LET inner == S \ {a, b}
  IN  Min({INVAILD} \cup {LengthOf(map, <<a>> \o s \o <<b>>) :
             s \in {t \in SeqOf(inner, Cardinality(inner)) : IsInjective(t)}})

=============================================================================
