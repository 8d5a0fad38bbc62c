SPECIFICATION Spec
CONSTANTS
  p1 = p1
  p2 = p2
  p3 = p3
  k1 = k1
  k2 = k2
  k3 = k3
  Blank = Blank
  RecLen = 21
  Procs = {p1, p2, p3}
  Keys = {k1, k3}
  Hash <- MCHashApart
  Lens = {2}
  LongestData = 2
  MaxRecs = 2
  Kinds = {"fetch", "delete", "store"}
  Flags = {"replace", "store"}
  Mortal = {p1, p2, p3}
SYMMETRY ProcSymmetry
INVARIANTS
  TypeOK
  ChainExclusion
  SectionExclusion
  DataAppendExclusion
  RestHoldsNoIndexLock
  PointersResolve
PROPERTY RefusalNeedsLeak
