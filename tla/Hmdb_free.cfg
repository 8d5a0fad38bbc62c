SPECIFICATION Spec
CONSTANTS
  p1 = p1
  p2 = p2
  p3 = p3
  k1 = k1
  k2 = k2
  k3 = k3
  Blank = Blank
  RecLen = 21
  Procs = {p1, p2}
  Keys = {k1, k3}
  Hash <- MCHashApart
  Lens = {2, 3}
  LongestData = 3
  MaxRecs = 3
  Kinds = {"delete", "store"}
  Flags = {"store"}
  Mortal = {p2}
INVARIANT FreeHeadNotLive
