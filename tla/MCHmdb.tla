------------------------------- MODULE MCHmdb -------------------------------
\* Instances of Hmdb for TLC.
EXTENDS Hmdb, TLC

CONSTANTS k1, k2, k3, p1, p2, p3

\* k1 and k2 are on one chain, k3 is on another.
MCHash == (k1 :> 0) @@ (k2 :> 0) @@ (k3 :> 8)
MCHash2 == (k1 :> 0) @@ (k2 :> 0)
MCHashApart == (k1 :> 0) @@ (k3 :> 8)

ProcSymmetry == Permutations(Procs)

=============================================================================
