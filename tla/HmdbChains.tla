----------------------------- MODULE HmdbChains -----------------------------
(***************************************************************************)
(* What the index of hmdb.c promises while records are only added: every   *)
(* key has a chain of its own or shares one, and the one thing that ever   *)
(* happens to a chain is that a key that hashes to it is put in front,     *)
(* in one indivisible step.  Nothing is lost, nothing is reordered, and no *)
(* process that dies leaves a trace.                                       *)
(***************************************************************************)
EXTENDS Sequences

CONSTANTS Keys, Chains, Home

VARIABLE chain

Init == chain = [c \in Chains |-> <<>>]

Insert(k) == chain' = [chain EXCEPT ![Home[k]] = <<k>> \o @]

Next == \E k \in Keys : Insert(k)

Spec == Init /\ [][Next]_chain

=============================================================================
