SPECIFICATION Spec
CONSTANTS
  PtrSize = 3
  HashSize = 8
  Hashes <- NeighbourHashes
  Pointers = {0, 7, 10, 29, 305}
PROPERTY ImplementsTable
