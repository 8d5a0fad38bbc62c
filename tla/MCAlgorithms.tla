---------------------------- MODULE MCAlgorithms ----------------------------
\* An instance of Algorithms for TLC.
EXTENDS Algorithms

TwoSigns == {-1, 2}

\* Around the distances that occur: those of a walk from point 0, and those that
\* come from INVAILD.
Samples == {-1, 0, 2} \cup {INVAILD - 1, INVAILD}

=============================================================================
