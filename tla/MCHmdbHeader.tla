---------------------------- MODULE MCHmdbHeader ----------------------------
\* Instances of HmdbHeader for TLC: hash values that are PtrSize apart, and
\* hash values that are neighbours.
EXTENDS HmdbHeader

ApartHashes == {0, 3, 7}
NeighbourHashes == {1, 2}

=============================================================================
