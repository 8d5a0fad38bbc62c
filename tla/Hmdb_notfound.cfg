SPECIFICATION Spec
CONSTANTS
  p1 = p1
  p2 = p2
  p3 = p3
  k1 = k1
  k2 = k2
  k3 = k3
  Blank = Blank
  RecLen = 21
  Procs = {p1}
  Keys = {k1, k2}
  Hash <- MCHash2
  Lens = {2}
  LongestData = 2
  MaxRecs = 3
  Kinds = {"store"}
  Flags = {"insert"}
  Mortal = {}
INVARIANT NotFoundIsTrue
