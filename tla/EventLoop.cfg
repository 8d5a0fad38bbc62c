CONSTANTS
  Threads = {t1, t2}
  Main = t1
  Addresses = {a1, a2}
  Sizes = {1, 2}
  StructSize = 2
  WordMod = 4
  Fds = {f1, f2}
  MaxOps = 1
SPECIFICATION Spec
INVARIANTS  RegisteredAlive
PROPERTIES EventServed
\* A loop without events, or a process that ended, does nothing any more.
CHECK_DEADLOCK FALSE
