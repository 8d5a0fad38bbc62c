------------------------------ MODULE HmdbOpen ------------------------------
(***************************************************************************)
(* HMDB_Open and HMDB_Close of hmdb.c beside stores of other processes,    *)
(* one step per system call.  The open empties both files by O_TRUNC       *)
(* before it asks for the lock of the whole index file, under which it     *)
(* writes the table of pointers if the file is empty.  Hmdb_Free closes    *)
(* the index file twice and the data file never, so that every handle      *)
(* costs its process a descriptor for good.                                *)
(*                                                                         *)
(* The index file is a sequence of cells, the first for the table and one  *)
(* for each record.  A write behind the end leaves a hole.  Of an          *)
(* operation on the database the model has the store of a new key, which   *)
(* is the one that appends; what keys and chains come to is Hmdb's part.   *)
(***************************************************************************)
EXTENDS FileLocks, Sequences, SequencesExt, StringEx

CONSTANTS
  Chains,        \* the chains stored on
  Flags,         \* the flags HMDB_Open is called with, as sets
  MaxRecs,       \* bound: a store begins while the files are shorter
  MaxFds,        \* how many descriptors a process may have
  PTR_SIZE,      \* the width of a pointer in the table
  HASH_SIZE,     \* the number of chains in the table
  Mortal         \* the processes that may be killed, and started again

ASSUME OpenParameters ==
  /\ Chains \cap {"free", "tail", "none"} = {}
  /\ Flags \subseteq SUBSET {"creat", "trunc"}
  /\ MaxRecs \in Nat /\ MaxFds \in Nat
  /\ PTR_SIZE \in Nat \ {0} /\ HASH_SIZE \in Nat
  /\ Mortal \subseteq Procs

VARIABLES
  files,         \* the files that exist
  idx,           \* the cells of the index file
  dat,           \* the length of the data file, in stores
  pc,            \* pc[p]: the system call p makes next
  fds,           \* fds[p]: how many descriptors p has
  flag,          \* flag[p]: the iFlag of HMDB_Open, as a set
  loc,           \* loc[p]: the chain of a store, where its data lies, and
                 \* where its record goes
  intact         \* history: the index was emptied last by an open that came to
                 \* its end, or may yet, and that no store ran beside

openVars == <<files, idx, dat, pc, fds, flag, loc, intact>>
vars == <<openVars, lockVars>>

NoLoc == [chain |-> "none", data |-> 0, off |-> 0]
Rec(place) == <<"rec", place>>
Hole == <<"hole", 0>>
Pointer == <<"pointer", 0>>       \* a pointer where there is no table

-----------------------------------------------------------------------------
\* The table, as HMDB_Open puts it together: one pointer for the free list, one
\* for each chain, and a newline, in a buffer for them and the NUL.

szAscii == [i \in 0..PTR_SIZE |-> IF i = PTR_SIZE THEN NUL
                                  ELSE IF i = PTR_SIZE - 1 THEN "0" ELSE " "]
Newline == [i \in 0..1 |-> IF i = 0 THEN "\n" ELSE NUL]

szHashSize == (HASH_SIZE + 1) * PTR_SIZE + 2

szHash ==
  LET Adding(b, s) == Strlcat(b, s, szHashSize)
  IN  Adding(FoldLeft(Adding, Zeroed(szHashSize), [i \in 1..(HASH_SIZE + 1) |-> szAscii]),
             Newline)

\* What is written of it, and whether that reaches to where records begin.
Table == <<"table", StrLen(szHash)>>
WholeTable == <<"table", (HASH_SIZE + 1) * PTR_SIZE + 1>>

\* The file f with c written to cell n.
Written(f, n, c) ==
  [i \in 1..(IF n > Len(f) THEN n ELSE Len(f)) |->
     IF i = n THEN c ELSE IF i <= Len(f) THEN f[i] ELSE Hole]

-----------------------------------------------------------------------------
\* Control states.

LockStages == {"lockFile", "lockChain", "lockTail"}
StoreStages == {"lockChain", "data", "lockTail", "seek", "append", "unlockTail",
                "head", "unlockChain"}
\* From the first open(2) to the end of HMDB_Open.
WindowStages == {"openData", "openDataOnly", "lockFile", "stat", "table", "unlockFile"}
OpenStages == {"openIndex"} \cup WindowStages

Storing == {p \in Procs : pc[p] \in StoreStages}
Window == {p \in Procs : pc[p] \in WindowStages /\ "trunc" \in flag[p]}

Init ==
  /\ files = {} /\ idx = <<>> /\ dat = 0
  /\ pc = [p \in Procs |-> "closed"]
  /\ fds = [p \in Procs |-> 0]
  /\ flag = [p \in Procs |-> {}]
  /\ loc = [p \in Procs |-> NoLoc]
  /\ intact = FALSE
  /\ LocksInit

Goto(p, s) == pc' = [pc EXCEPT ![p] = s]

-----------------------------------------------------------------------------
\* Locks: the bytes of each request, and its outcomes.

Bytes == {"free", "tail"} \cup Chains

\* Faulty variant: the open locks the first byte only.
RequestFirstByte(p) == CASE pc[p] = "lockFile"  -> {"free"}
                         [] pc[p] = "lockChain" -> {loc[p].chain}
                         [] pc[p] = "lockTail"  -> {"tail"}

Request(p) == CASE pc[p] = "lockFile"  -> Bytes
                [] pc[p] = "lockChain" -> {loc[p].chain}
                [] pc[p] = "lockTail"  -> {"tail"}

AfterLock == [lockFile |-> "stat", lockChain |-> "data", lockTail |-> "seek"]

Acquire(p) ==
  /\ pc[p] \in LockStages
  /\ LockGranted(p, Request(p), "write")
  /\ Goto(p, AfterLock[pc[p]])
  /\ UNCHANGED <<files, idx, dat, fds, flag, loc, intact>>

Await(p) ==
  /\ pc[p] \in LockStages
  /\ LockWaits(p, Request(p), "write")
  /\ UNCHANGED openVars

Unlock(p, B, s) ==
  /\ Release(p, B)
  /\ Goto(p, s)
  /\ UNCHANGED <<files, idx, dat, fds, flag, loc, intact>>

-----------------------------------------------------------------------------
\* HMDB_Open

Open(p) ==
  /\ pc[p] = "closed"
  /\ \E f \in Flags : flag' = [flag EXCEPT ![p] = f]
  /\ Goto(p, "openIndex")
  /\ UNCHANGED <<files, idx, dat, fds, loc, intact, lockVars>>

\* open(2) of a file succeeds.
Opens(p, file) ==
  fds[p] < MaxFds /\ (file \in files \/ "creat" \in flag[p])

\* Of both opens the result is looked at afterwards; O_TRUNC empties the file.
OpenIndex(p) ==
  /\ pc[p] = "openIndex"
  /\ IF Opens(p, "index")
     THEN /\ files' = files \cup {"index"}
          /\ fds' = [fds EXCEPT ![p] = @ + 1]
          /\ IF "trunc" \in flag[p]
             THEN /\ idx' = <<>>
                  /\ intact' = (Storing = {} /\ (intact \/ Window = {}))
             ELSE UNCHANGED <<idx, intact>>
          /\ Goto(p, "openData")
     ELSE /\ Goto(p, "openDataOnly")
          /\ UNCHANGED <<files, fds, idx, intact>>
  /\ UNCHANGED <<dat, flag, loc, lockVars>>

\* The open ends without a handle.  So it does, with both files left open, when
\* HMDB_Open was called without one of the flags: it has no return statement
\* then, and what the caller gets is NULL or the address of nothing.
Fails(p) ==
  /\ Goto(p, "closed")
  /\ flag' = [flag EXCEPT ![p] = {}]
  /\ intact' = (intact /\ p \notin Window)

OpenData(p) ==
  /\ pc[p] = "openData"
  /\ Opens(p, "data")
  /\ files' = files \cup {"data"}
  /\ fds' = [fds EXCEPT ![p] = @ + 1]
  /\ dat' = IF "trunc" \in flag[p] THEN 0 ELSE dat
  /\ IF flag[p] = {"creat", "trunc"}
     THEN Goto(p, "lockFile") /\ UNCHANGED <<flag, intact>>
     ELSE Fails(p)
  /\ UNCHANGED <<idx, loc, lockVars>>

OpenDataFails(p) ==
  /\ pc[p] = "openData"
  /\ ~Opens(p, "data")
  /\ fds' = [fds EXCEPT ![p] = @ - 1]
  /\ Fails(p)
  /\ UNCHANGED <<files, idx, dat, loc, lockVars>>

\* The index file could not be opened.  When another process has made the files
\* by now the data file can, and stays open.
OpenDataOnly(p) ==
  /\ pc[p] = "openDataOnly"
  /\ IF Opens(p, "data")
     THEN /\ files' = files \cup {"data"}
          /\ fds' = [fds EXCEPT ![p] = @ + 1]
          /\ dat' = IF "trunc" \in flag[p] THEN 0 ELSE dat
     ELSE UNCHANGED <<files, fds, dat>>
  /\ Fails(p)
  /\ UNCHANGED <<idx, loc, lockVars>>

Stat(p) ==
  /\ pc[p] = "stat"
  /\ Goto(p, IF idx = <<>> THEN "table" ELSE "unlockFile")
  /\ UNCHANGED <<files, idx, dat, fds, flag, loc, intact, lockVars>>

WriteTable(p) ==
  /\ pc[p] = "table"
  /\ idx' = Written(idx, 1, Table)
  /\ Goto(p, "unlockFile")
  /\ UNCHANGED <<files, dat, fds, flag, loc, intact, lockVars>>

\* Faulty variant: the lock of the file is kept.
UnlockFileForgotten(p) ==
  /\ pc[p] = "unlockFile"
  /\ Unlock(p, {}, "rest")

UnlockFile(p) ==
  /\ pc[p] = "unlockFile"
  /\ Unlock(p, Bytes, "rest")

\* HMDB_Close: the second close of the index file finds no such descriptor.
Close(p) ==
  /\ pc[p] = "rest"
  /\ Release(p, Bytes)
  /\ fds' = [fds EXCEPT ![p] = @ - 1]
  /\ flag' = [flag EXCEPT ![p] = {}]
  /\ Goto(p, "closed")
  /\ UNCHANGED <<files, idx, dat, loc, intact>>

-----------------------------------------------------------------------------
\* HMDB_Store of a new key.

Recs == {i \in DOMAIN idx : idx[i][1] = "rec"}

BeginStore(p) ==
  /\ pc[p] = "rest"
  /\ Len(idx) + Cardinality(Storing) <= MaxRecs
  /\ dat + Cardinality(Storing) < MaxRecs
  /\ \E c \in Chains : loc' = [loc EXCEPT ![p] = [NoLoc EXCEPT !.chain = c]]
  /\ intact' = (intact /\ Window = {})
  /\ Goto(p, "lockChain")
  /\ UNCHANGED <<files, idx, dat, fds, flag, lockVars>>

\* Hmdb_WriteData: the data goes to the end of its file.
Data(p) ==
  /\ pc[p] = "data"
  /\ dat' = dat + 1
  /\ loc' = [loc EXCEPT ![p].data = dat + 1]
  /\ Goto(p, "lockTail")
  /\ UNCHANGED <<files, idx, fds, flag, intact, lockVars>>

\* Hmdb_WriteIndex: the place is the end of the file at the lseek.
Seek(p) ==
  /\ pc[p] = "seek"
  /\ loc' = [loc EXCEPT ![p].off = Len(idx) + 1]
  /\ Goto(p, "append")
  /\ UNCHANGED <<files, idx, dat, fds, flag, intact, lockVars>>

Append1(p) ==
  /\ pc[p] = "append"
  /\ idx' = Written(idx, loc[p].off, Rec(loc[p].data))
  /\ Goto(p, "unlockTail")
  /\ UNCHANGED <<files, dat, fds, flag, loc, intact, lockVars>>

UnlockTail(p) ==
  /\ pc[p] = "unlockTail"
  /\ Unlock(p, {"tail"}, "head")

\* Hmdb_WritePtr into the table.
WriteHead(p) ==
  /\ pc[p] = "head"
  /\ idx' = IF idx # <<>> /\ idx[1][1] # "hole" THEN idx ELSE Written(idx, 1, Pointer)
  /\ Goto(p, "unlockChain")
  /\ UNCHANGED <<files, dat, fds, flag, loc, intact, lockVars>>

UnlockChain(p) ==
  /\ pc[p] = "unlockChain"
  /\ Release(p, {loc[p].chain})
  /\ loc' = [loc EXCEPT ![p] = NoLoc]
  /\ Goto(p, "rest")
  /\ UNCHANGED <<files, idx, dat, fds, flag, intact>>

-----------------------------------------------------------------------------
\* The process is killed; the kernel closes its files and drops its locks.
Killed(p) ==
  /\ p \in Mortal /\ pc[p] # "closed"
  /\ Vanish(p)
  /\ Fails(p)
  /\ fds' = [fds EXCEPT ![p] = 0]
  /\ loc' = [loc EXCEPT ![p] = NoLoc]
  /\ UNCHANGED <<files, idx, dat>>

Work(p) ==
  \/ OpenIndex(p) \/ OpenData(p) \/ OpenDataFails(p) \/ OpenDataOnly(p)
  \/ Stat(p) \/ WriteTable(p) \/ UnlockFile(p)
  \/ Data(p) \/ Seek(p) \/ Append1(p) \/ UnlockTail(p)
  \/ WriteHead(p) \/ UnlockChain(p) \/ Await(p)

Next ==
  \E p \in Procs : Open(p) \/ BeginStore(p) \/ Close(p) \/ Killed(p)
                   \/ Acquire(p) \/ Work(p)

Spec == Init /\ [][Next]_vars

\* A call runs on, and a lock that is free again and again is granted.
FairSpec == Spec /\ \A p \in Procs : WF_vars(Work(p)) /\ SF_vars(Acquire(p))

-----------------------------------------------------------------------------
\* Whoever is about to write the table has the lock of the whole file, so that
\* the file it found empty still is: nobody appends between the fstat and the
\* write, however many open at once (hmdb.c:569-590).
TableOnEmptyFile == \A p \in Procs : pc[p] = "table" => idx = <<>>

\* The index file begins with a whole table and its records lead to data that
\* is there, once an open has come to its end that no store ran beside, however
\* many other processes opened, closed or were killed then.
HeaderStands ==
  intact /\ Window = {} =>
    /\ idx # <<>> /\ idx[1] = WholeTable
    /\ \A i \in Recs : idx[i][2] <= dat

\* Every HMDB_Open ends, with a handle or without (hmdb.c:569).
OpenReturns ==
  \A p \in Procs : pc[p] \in OpenStages ~> pc[p] \in {"rest", "closed"}

\* "the free list + the hash slots + '\n'" (hmdb.c:518): the index begins with
\* the table for whoever has it open and none is opening it.
TableComesFirst ==
  Window = {} /\ (\E p \in Procs : pc[p] = "rest") => idx # <<>> /\ idx[1] = WholeTable

=============================================================================
