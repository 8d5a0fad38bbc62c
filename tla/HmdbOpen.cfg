CONSTANTS
  Procs = {p1, p2}
  Chains = {c1, c2}
  Flags = {{}, {"creat"}, {"trunc"}, {"creat", "trunc"}}
  MaxRecs = 2
  MaxFds = 3
  PTR_SIZE = 2
  HASH_SIZE = 2
  Mortal = {p2}
SPECIFICATION FairSpec
INVARIANTS  HeaderStands
 
