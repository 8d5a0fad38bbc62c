SPECIFICATION SpecAll
CONSTANTS
  MaxPoints = 3
  MaxSides = 3
  Weights <- TwoSigns
  Potentials <- Samples
  MaxMapPoints = 4
  MaxMapSides = 3
  MapWeights = {1, 3}
  MaxCount = 6
  Numbers = {1, 2, 3}
  PointCount = 4
INVARIANTS
  GreatestPotential
  CycleReported
  
  SettledOutsideQueue
  QueueSuffices
  VariantsAgree
  MapDistances
  ViaFirstPoints
  HeapOrder
  PoppedSorted
PROPERTIES
  
  BookedIsFinal
  NothingLost
  Terminates
  
