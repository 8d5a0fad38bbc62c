SPECIFICATION Spec
CONSTANTS
  PtrSize = 3
  HashSize = 8
  Hashes <- ApartHashes
  Pointers = {0, 7, 10, 29, 305}
PROPERTIES
  ImplementsTable
  
