----------------------------- MODULE FileLocks -----------------------------
(***************************************************************************)
(* POSIX record locks as lock.c asks for them.  LOCK_SomeThing is a thin   *)
(* wrapper of fcntl: F_SETLKW for a read or a write lock on a byte range,  *)
(* F_SETLK for an unlock.  The kernel's lock table is external code; it is *)
(* modelled by what fcntl(2) promises its callers:                         *)
(*   - locks belong to a process and never conflict with its own;          *)
(*   - a request that conflicts waits on ONE conflicting owner;            *)
(*   - a request whose owner waits, directly or through others, on the     *)
(*     requester returns EDEADLK instead of waiting;                       *)
(*   - giving up bytes wakes the processes that wait for them.             *)
(* LOCK_SomeThing reports a failed request with ERR_Sys, which prints and  *)
(* returns, so its caller goes on WITHOUT the lock: LockRefused.           *)
(***************************************************************************)
EXTENDS Naturals

CONSTANT Procs          \* the processes that share the files

VARIABLES
  rlock,                \* rlock[p]: the bytes p holds a read lock on
  wlock,                \* wlock[p]: the bytes p holds a write lock on
  blocker,              \* blocker[p]: whom p waits on; p itself when it runs
  want                  \* want[p]: the bytes p waits for

lockVars == <<rlock, wlock, blocker, want>>

LocksInit ==
  /\ rlock = [p \in Procs |-> {}]
  /\ wlock = [p \in Procs |-> {}]
  /\ blocker = [p \in Procs |-> p]
  /\ want = [p \in Procs |-> {}]

LocksTypeOK(Byte) ==
  /\ rlock \in [Procs -> SUBSET Byte]
  /\ wlock \in [Procs -> SUBSET Byte]
  /\ blocker \in [Procs -> Procs]
  /\ want \in [Procs -> SUBSET Byte]

Running(p) == blocker[p] = p

\* The processes whose locks stand in the way of p locking the bytes B.
Holders(p, B, mode) ==
  {q \in Procs \ {p} : \/ wlock[q] \cap B # {}
                       \/ mode = "write" /\ rlock[q] \cap B # {}}

\* q waits on p, directly or through others: p lies in every set of
\* processes that holds q and whatever its members wait on.
WaitsOn(q, p) ==
  \A S \in SUBSET Procs :
     (q \in S /\ \A r \in S : blocker[r] \in S) => p \in S

LockGranted(p, B, mode) ==
  /\ Running(p)
  /\ Holders(p, B, mode) = {}
  /\ rlock' = [rlock EXCEPT ![p] = IF mode = "read" THEN @ \cup B ELSE @]
  /\ wlock' = [wlock EXCEPT ![p] = IF mode = "write" THEN @ \cup B ELSE @]
  /\ UNCHANGED <<blocker, want>>

LockWaits(p, B, mode) ==
  /\ Running(p)
  /\ \E q \in Holders(p, B, mode) :
        /\ ~WaitsOn(q, p)
        /\ blocker' = [blocker EXCEPT ![p] = q]
  /\ want' = [want EXCEPT ![p] = B]
  /\ UNCHANGED <<rlock, wlock>>

\* EDEADLK: the error is printed and the caller carries on.
LockRefused(p, B, mode) ==
  /\ Running(p)
  /\ \E q \in Holders(p, B, mode) : WaitsOn(q, p)
  /\ UNCHANGED lockVars

Woken(p, B) == {r \in Procs \ {p} : blocker[r] = p /\ want[r] \cap B # {}}

\* p gives up whatever it holds of the bytes B (F_UNLCK of bytes that are not
\* locked is no error), and the processes that wait for them ask again.
Release(p, B) ==
  /\ rlock' = [rlock EXCEPT ![p] = @ \ B]
  /\ wlock' = [wlock EXCEPT ![p] = @ \ B]
  /\ blocker' = [r \in Procs |-> IF r \in Woken(p, B) THEN r ELSE blocker[r]]
  /\ want' = [r \in Procs |-> IF r \in Woken(p, B) THEN {} ELSE want[r]]

\* p is gone and the kernel drops all its locks.
Vanish(p) ==
  /\ rlock' = [rlock EXCEPT ![p] = {}]
  /\ wlock' = [wlock EXCEPT ![p] = {}]
  /\ blocker' = [r \in Procs |-> IF r = p \/ blocker[r] = p THEN r ELSE blocker[r]]
  /\ want' = [r \in Procs |-> IF r = p \/ blocker[r] = p THEN {} ELSE want[r]]

============================================================================
