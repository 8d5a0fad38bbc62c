-------------------------------- MODULE Hmdb --------------------------------
(***************************************************************************)
(* The database of hmdb.c: an index file (a free pointer, a table of hash  *)
(* chains and the index records) and a data file, shared by processes that *)
(* each opened them once and coordinate by record locks only.  One step of *)
(* the model is one system call on shared state with the private           *)
(* computation up to the next one.                                         *)
(*                                                                         *)
(* ERR_Sys prints and returns, so no error path of hmdb.c leaves its       *)
(* function: a failed lock, read or check only lets the caller go on.      *)
(*                                                                         *)
(* Hmdb_ReadIndex fills astIov[0] twice and leaves astIov[1] uninitialised *)
(* (hmdb.c:214-217).  Nothing, or the first INDEXLEN_SIZE characters of    *)
(* the record's pointer field, is read; szAsciiPtr stays empty, so         *)
(* lNextNodePtr is 0; and what is parsed is whatever pcIndexBuf still      *)
(* holds: the record this handle last WROTE if it was not parsed since.    *)
(* When no separator is left in the buffer strchr returns NULL and the     *)
(* process dies of the store through it (hmdb.c:254-261).                  *)
(*                                                                         *)
(* Assumed: all keys have one length; a write or read system call is       *)
(* atomic; index offsets have at most four digits; the garbage in          *)
(* astIov[1] does not hit other memory of the process; a fresh pcIndexBuf  *)
(* holds no separator; a record rewritten in place keeps its length.       *)
(* Of the data file only the extents are modelled.                         *)
(***************************************************************************)
EXTENDS FileLocks, FiniteSets

CONSTANTS
  Keys,          \* the keys stored under
  Blank,         \* the key left in a deleted index record (the empty string)
  Hash,          \* Hash[k]: what Hmdb_hash computes for k
  Lens,          \* the data lengths stored, with their newline
  LongestData,   \* the largest of them
  RecLen,        \* length of an index record in the file
  MaxRecs,       \* bound: how many index records a behaviour may append
  Kinds,         \* the operations called: "fetch", "delete", "store"
  Flags,         \* the flags HMDB_Store is called with
  Mortal         \* the processes that may be killed at any moment

PTR_SIZE == 7
INDEXLEN_SIZE == 4
HASH_SIZE == 137
FREE_OFF == 0
HASH_OFF == 7
DATALEN_MIN == 2
DATALEN_MAX == 1024

\* Where the index records start, and where the append lock does.
RecordsOff == (HASH_SIZE + 1) * PTR_SIZE + 1

\* The chain heads of different hash values do not overlap.  They do in the
\* file as soon as two hash values differ by less than PTR_SIZE, since
\* Hmdb_FindAndLock adds the hash value, not a multiple of it.
ASSUME HashApart ==
  /\ Hash \in [Keys -> 0..(HASH_SIZE - 1)]
  /\ \A k, l \in Keys : \/ Hash[k] = Hash[l]
                        \/ Hash[k] + PTR_SIZE <= Hash[l]
                        \/ Hash[l] + PTR_SIZE <= Hash[k]

ASSUME Parameters ==
  /\ Blank \notin Keys
  /\ LongestData \in DATALEN_MIN..DATALEN_MAX
  /\ Lens \subseteq DATALEN_MIN..LongestData
  /\ RecLen \in Nat /\ RecLen > 0
  /\ MaxRecs \in Nat
  /\ Kinds \subseteq {"fetch", "delete", "store"}
  /\ Flags \subseteq {"insert", "replace", "store"}
  /\ Mortal \subseteq Procs /\ IsFiniteSet(Mortal)

VARIABLES
  ptr,           \* the pointers in the header of the index file
  idx,           \* the index records in the file, by their offset
  idxEnd,        \* the length of the index file
  datEnd,        \* the length of the data file
  pc,            \* pc[p]: the system call p makes next
  op,            \* op[p]: the operation p is in, with its arguments
  h,             \* h[p]: the handle's fields and the locals that matter
  buf,           \* buf[p]: what pcIndexBuf of p's handle parses as
  refused        \* refused[p]: the lock requests this operation went on without

fileVars == <<ptr, idx, idxEnd, datEnd>>
procVars == <<pc, op, h, buf, refused>>
vars == <<ptr, idx, idxEnd, datEnd, pc, op, h, buf, refused,
          rlock, wlock, blocker, want>>

-----------------------------------------------------------------------------
\* The bytes that are locked.

Byte == {"idx", "dat"} \X Nat
FreeByte == <<"idx", FREE_OFF>>
LinkHeadOff(k) == Hash[k] + HASH_OFF
ChainByte(k) == <<"idx", LinkHeadOff(k)>>
TailByte == <<"idx", RecordsOff>>                \* from there to the end of file

\* The whole data file: what the records hold, and what a killed process has
\* appended without a record.
DatBytes == {"dat"} \X (0..((MaxRecs + Cardinality(Mortal)) * LongestData))

HeadOffs == {FREE_OFF} \cup {LinkHeadOff(k) : k \in Keys}

-----------------------------------------------------------------------------
\* The control states.  A process rests between operations.

Resting == {"rest", "closed", "dead"}
LockStages == {"lockChain", "lockBlank", "lockFree", "lockData", "lockTail"}
FreeSection == {"freeHead", "walkFree", "popFree", "unlockFree"}
DataSection == {"seekData", "appendData", "unlockData"}
TailSection == {"seekIndex", "appendIndex", "unlockTail"}
ChainSection == {"readHead", "walk", "readData", "readHead2", "readFree",
                 "blankIndex", "pushFree", "unlink", "rereadHead", "overwrite",
                 "reuseData", "reuseIndex", "writeHead", "unlockChain"}
                \cup (LockStages \ {"lockChain"})
                \cup FreeSection \cup DataSection \cup TailSection
Stages == Resting \cup {"lockChain"} \cup ChainSection

AfterLock == [s \in LockStages |-> CASE s = "lockChain" -> "readHead"
                                     [] s = "lockBlank" -> "readFree"
                                     [] s = "lockFree"  -> "freeHead"
                                     [] s = "lockData"  -> "seekData"
                                     [] s = "lockTail"  -> "seekIndex"]

NoOp == [kind |-> "none", key |-> Blank, len |-> 0, flag |-> "none"]

\* walk: the search's lOffset; next: lNextNodePtr of the handle; save: the
\* pointer an operation keeps in a local; free: lFreePtr of Hmdb_Dodelete.
FreshHandle == [walk |-> 0, next |-> 0, save |-> 0, free |-> 0,
                indexOff |-> 0, dataOff |-> 0, dataLen |-> 0]

\* pcIndexBuf without a separator, and as Hmdb_WriteIndex leaves it.
NoText == [seps |-> FALSE, key |-> Blank, off |-> 0, len |-> 0]
Text(k, off, len) == [seps |-> TRUE, key |-> k, off |-> off, len |-> len]

Init ==
  /\ ptr = [o \in HeadOffs |-> 0]
  /\ idx = [o \in {} |-> 0]
  /\ idxEnd = RecordsOff
  /\ datEnd = 0
  /\ pc = [p \in Procs |-> "rest"]
  /\ op = [p \in Procs |-> NoOp]
  /\ h = [p \in Procs |-> FreshHandle]
  /\ buf = [p \in Procs |-> NoText]
  /\ refused = [p \in Procs |-> {}]
  /\ LocksInit

Goto(p, s) == pc' = [pc EXCEPT ![p] = s]

-----------------------------------------------------------------------------
\* Locks.  The request of each lock stage, then its three outcomes.

\* Faulty variant: an append locks the first free data byte only.
RequestOneDataByte(p) ==
  CASE pc[p] = "lockChain" -> {ChainByte(op[p].key)}
    [] pc[p] = "lockBlank" -> {<<"dat", h[p].dataOff>>}
    [] pc[p] = "lockFree"  -> {FreeByte}
    [] pc[p] = "lockData"  -> {<<"dat", datEnd>>}
    [] pc[p] = "lockTail"  -> {TailByte}

Request(p) ==
  CASE pc[p] = "lockChain" -> {ChainByte(op[p].key)}
    [] pc[p] = "lockBlank" -> {<<"dat", h[p].dataOff>>}
    [] pc[p] = "lockFree"  -> {FreeByte}
    [] pc[p] = "lockData"  -> DatBytes
    [] pc[p] = "lockTail"  -> {TailByte}

\* Faulty variants: a read lock where a write lock is needed.
ModeChainShared(p) == IF pc[p] = "lockChain" THEN "read" ELSE "write"
ModeIndexShared(p) ==
  IF \/ pc[p] \in {"lockFree", "lockTail"}
     \/ pc[p] = "lockChain" /\ op[p].kind = "fetch"
  THEN "read" ELSE "write"
Mode(p) == IF pc[p] = "lockChain" /\ op[p].kind = "fetch" THEN "read" ELSE "write"

Acquire(p) ==
  /\ pc[p] \in LockStages
  /\ LockGranted(p, Request(p), Mode(p))
  /\ Goto(p, AfterLock[pc[p]])
  /\ UNCHANGED <<fileVars, op, h, buf, refused>>

Await(p) ==
  /\ pc[p] \in LockStages
  /\ LockWaits(p, Request(p), Mode(p))
  /\ UNCHANGED <<fileVars, procVars>>

GoWithout(p) ==
  /\ pc[p] \in LockStages
  /\ LockRefused(p, Request(p), Mode(p))
  /\ refused' = [refused EXCEPT ![p] = @ \cup {pc[p]}]
  /\ Goto(p, AfterLock[pc[p]])
  /\ UNCHANGED <<fileVars, op, h, buf>>

\* What p holds of a file.
Held(p, file) == {b \in rlock[p] \cup wlock[p] : b[1] = file}

\* An unlock call, and the stage that follows it.
Unlock(p, B, s) ==
  /\ Release(p, B)
  /\ Goto(p, s)
  /\ UNCHANGED <<fileVars, op, h, buf, refused>>

\* The process is gone: the kernel drops its locks.  What it wrote stays.
Dies(p) ==
  /\ Vanish(p)
  /\ pc' = [pc EXCEPT ![p] = "dead"]
  /\ op' = [op EXCEPT ![p] = NoOp]
  /\ h' = [h EXCEPT ![p] = FreshHandle]
  /\ buf' = [buf EXCEPT ![p] = NoText]
  /\ refused' = [refused EXCEPT ![p] = {}]
  /\ UNCHANGED fileVars

-----------------------------------------------------------------------------
\* Calls and returns.

\* Faulty variant: the key is not passed on.
BeginNoKey(p, call) ==
  /\ pc[p] = "rest"
  /\ op' = [op EXCEPT ![p] = [call EXCEPT !.key = Blank]]
  /\ Goto(p, "lockChain")
  /\ UNCHANGED <<fileVars, h, buf, refused, lockVars>>

Begin(p, call) ==
  /\ pc[p] = "rest"
  /\ op' = [op EXCEPT ![p] = call]
  /\ Goto(p, "lockChain")
  /\ UNCHANGED <<fileVars, h, buf, refused, lockVars>>

BeginFetch(p) ==
  /\ "fetch" \in Kinds
  /\ \E k \in Keys :
        Begin(p, [kind |-> "fetch", key |-> k, len |-> 0, flag |-> "none"])

BeginDelete(p) ==
  /\ "delete" \in Kinds
  /\ \E k \in Keys :
        Begin(p, [kind |-> "delete", key |-> k, len |-> 0, flag |-> "none"])

\* The bound MaxRecs counts the stores under way, each of which may append.
\* A call with any other flag returns at once (hmdb.c:671-675).
Storing == {q \in Procs : op[q].kind = "store"}

BeginStore(p) ==
  /\ "store" \in Kinds
  /\ idxEnd + RecLen * Cardinality(Storing) < RecordsOff + RecLen * MaxRecs
  /\ \E k \in Keys, n \in Lens, f \in Flags :
        Begin(p, [kind |-> "store", key |-> k, len |-> n, flag |-> f])

UnlockChain(p) ==
  /\ pc[p] = "unlockChain"
  /\ Release(p, {ChainByte(op[p].key)})
  /\ Goto(p, "rest")
  /\ op' = [op EXCEPT ![p] = NoOp]
  /\ h' = [h EXCEPT ![p] = FreshHandle]
  /\ refused' = [refused EXCEPT ![p] = {}]
  /\ UNCHANGED <<fileVars, buf>>

\* HMDB_NextRec never sets pstHmdb from its handle and reads through NULL.
NextRec(p) ==
  /\ pc[p] = "rest"
  /\ Dies(p)

\* Hmdb_Free closes iIndexFd twice and iDataFd never: closing drops the locks
\* on the index file, those on the data file stay until the process exits.
Close(p) ==
  /\ pc[p] = "rest"
  /\ Release(p, Held(p, "idx"))
  /\ Goto(p, "closed")
  /\ buf' = [buf EXCEPT ![p] = NoText]
  /\ UNCHANGED <<fileVars, op, h, refused>>

Exit(p) ==
  /\ pc[p] = "closed"
  /\ Dies(p)

\* Crash: a process may be killed at any moment, between two of its steps or
\* while it waits for a lock.
Killed(p) ==
  /\ p \in Mortal
  /\ pc[p] # "dead"
  /\ Dies(p)

-----------------------------------------------------------------------------
\* Hmdb_FindAndLock.  The walk ends at the first record, for lNextNodePtr is 0.

AfterFound(p, len) ==
  IF op[p].kind = "fetch" THEN "readData"
  ELSE IF op[p].kind = "store" /\ op[p].flag = "insert" THEN "unlockChain"
  ELSE IF op[p].kind = "store" /\ op[p].len = len THEN "overwrite"
  ELSE "lockBlank"

AfterMissed(p) ==
  IF op[p].kind = "store" /\ op[p].flag # "replace" THEN "readHead2"
                                                    ELSE "unlockChain"

ReadHead(p) ==
  /\ pc[p] = "readHead"
  /\ h' = [h EXCEPT ![p].walk = ptr[LinkHeadOff(op[p].key)]]
  /\ Goto(p, IF ptr[LinkHeadOff(op[p].key)] = 0 THEN AfterMissed(p) ELSE "walk")
  /\ UNCHANGED <<fileVars, op, buf, refused, lockVars>>

\* Hmdb_ReadIndex of the record at h[p].walk, when it returns.  Its parse cuts
\* the buffer up, so that it can be parsed once only.
ParseBuffer(p, hit) ==
  /\ buf[p].seps
  /\ h' = [h EXCEPT ![p] = [@ EXCEPT !.walk = IF hit THEN h[p].walk ELSE 0, !.next = 0,
                                     !.indexOff = h[p].walk,
                                     !.dataOff = buf[p].off,
                                     !.dataLen = buf[p].len]]
  /\ buf' = [buf EXCEPT ![p] = NoText]

Walk(p) ==
  /\ pc[p] = "walk"
  /\ LET hit == buf[p].key = op[p].key IN
        /\ ParseBuffer(p, hit)
        /\ Goto(p, IF hit THEN AfterFound(p, buf[p].len) ELSE AfterMissed(p))
  /\ UNCHANGED <<fileVars, op, refused, lockVars>>

\* Hmdb_ReadIndex when it does not return: there is no separator in the buffer,
\* or the length field got the high digits of the next pointer and 1 to 9
\* characters were read over the front of the buffer, which then end in '\0'.
Segv(p) ==
  /\ pc[p] \in {"walk", "walkFree"}
  /\ \E ulIndexLen \in {0, idx[h[p].walk].next \div 10^(PTR_SIZE - INDEXLEN_SIZE)} :
        ~buf[p].seps \/ ulIndexLen > 0
  /\ Dies(p)

\* HMDB_Fetch: Hmdb_ReadData.
ReadData(p) ==
  /\ pc[p] = "readData"
  /\ Goto(p, "unlockChain")
  /\ UNCHANGED <<fileVars, op, h, buf, refused, lockVars>>

-----------------------------------------------------------------------------
\* Writing to the files.

WritePtr(off, to) ==
  /\ ptr' = [ptr EXCEPT ![off] = to]
  /\ UNCHANGED <<idx, idxEnd, datEnd>>

\* The system call of Hmdb_WriteIndex, at the offset off: the record on disk
\* and its text in pcIndexBuf.
PutRecord(p, off, k, len, next) ==
  /\ idx' = [a \in DOMAIN idx \cup {off} |->
               IF a = off THEN [key |-> k, off |-> h[p].dataOff, len |-> len,
                                next |-> next]
                          ELSE idx[a]]
  /\ idxEnd' = IF idxEnd < off + RecLen THEN off + RecLen ELSE idxEnd
  /\ buf' = [buf EXCEPT ![p] = Text(k, h[p].dataOff, len)]
  /\ UNCHANGED <<ptr, datEnd>>

\* Hmdb_Dodelete.  It blanks the data under a lock on their first byte that it
\* never gives back, and pushes the record on the free list without the lock
\* of the free list; then it stores lNextNodePtr as the head of the chain.
ReadFree(p) ==
  /\ pc[p] = "readFree"
  /\ h' = [h EXCEPT ![p] = [@ EXCEPT !.free = ptr[FREE_OFF], !.save = h[p].next]]
  /\ Goto(p, "blankIndex")
  /\ UNCHANGED <<fileVars, op, buf, refused, lockVars>>

BlankIndex(p) ==
  /\ pc[p] = "blankIndex"
  /\ PutRecord(p, h[p].indexOff, Blank, h[p].dataLen, h[p].free)
  /\ h' = [h EXCEPT ![p].next = h[p].free]
  /\ Goto(p, "pushFree")
  /\ UNCHANGED <<op, refused, lockVars>>

PushFree(p) ==
  /\ pc[p] = "pushFree"
  /\ WritePtr(FREE_OFF, h[p].indexOff)
  /\ Goto(p, "unlink")
  /\ UNCHANGED <<op, h, buf, refused, lockVars>>

\* Faulty variant: the chain keeps the deleted record.
UnlinkForgotten(p) ==
  /\ pc[p] = "unlink"
  /\ Release(p, {FreeByte})
  /\ Goto(p, IF op[p].kind = "delete" THEN "unlockChain" ELSE "rereadHead")
  /\ UNCHANGED <<fileVars, op, h, buf, refused>>

Unlink(p) ==
  /\ pc[p] = "unlink"
  /\ WritePtr(LinkHeadOff(op[p].key), h[p].save)
  /\ Release(p, {FreeByte})
  /\ Goto(p, IF op[p].kind = "delete" THEN "unlockChain" ELSE "rereadHead")
  /\ UNCHANGED <<op, h, buf, refused>>

\* HMDB_Store rereads the head of its chain before it looks for a place.
KeepHead(p, s) ==
  /\ h' = [h EXCEPT ![p].save = ptr[LinkHeadOff(op[p].key)]]
  /\ Goto(p, s)
  /\ UNCHANGED <<fileVars, op, buf, refused, lockVars>>

\* Faulty variant: the new record is linked to nothing.
ReadHead2Skipped(p) ==
  /\ pc[p] = "readHead2"
  /\ Goto(p, "lockFree")
  /\ UNCHANGED <<fileVars, op, h, buf, refused, lockVars>>

ReadHead2(p) == pc[p] = "readHead2" /\ KeepHead(p, "lockFree")
RereadHead(p) == pc[p] = "rereadHead" /\ KeepHead(p, "lockData")

\* The record was found and its data has the same length: written in place.
Overwrite(p) ==
  /\ pc[p] = "overwrite"
  /\ Goto(p, "unlockChain")
  /\ UNCHANGED <<fileVars, op, h, buf, refused, lockVars>>

-----------------------------------------------------------------------------
\* Hmdb_FindFree.  h[p].walk is its lOffset: 0 when nothing fits.

FreeHead(p) ==
  /\ pc[p] = "freeHead"
  /\ h' = [h EXCEPT ![p].walk = ptr[FREE_OFF]]
  /\ Goto(p, IF ptr[FREE_OFF] = 0 THEN "unlockFree" ELSE "walkFree")
  /\ UNCHANGED <<fileVars, op, buf, refused, lockVars>>

\* Keys have one length, the blank key has none.
Fits(p) == buf[p].key # Blank /\ buf[p].len = op[p].len

WalkFree(p) ==
  /\ pc[p] = "walkFree"
  /\ ParseBuffer(p, Fits(p))
  /\ Goto(p, IF Fits(p) THEN "popFree" ELSE "unlockFree")
  /\ UNCHANGED <<fileVars, op, refused, lockVars>>

PopFree(p) ==
  /\ pc[p] = "popFree"
  /\ WritePtr(FREE_OFF, h[p].next)
  /\ Goto(p, "unlockFree")
  /\ UNCHANGED <<op, h, buf, refused, lockVars>>

\* Faulty variant: FindFree returns with its lock.
UnlockFreeForgotten(p) ==
  /\ pc[p] = "unlockFree"
  /\ Goto(p, IF h[p].walk = 0 THEN "lockData" ELSE "reuseData")
  /\ UNCHANGED <<fileVars, op, h, buf, refused, lockVars>>

UnlockFree(p) ==
  /\ pc[p] = "unlockFree"
  /\ Unlock(p, {FreeByte}, IF h[p].walk = 0 THEN "lockData" ELSE "reuseData")

\* Reusing the free record: the data goes to the offset its parse gave.
ReuseData(p) ==
  /\ pc[p] = "reuseData"
  /\ h' = [h EXCEPT ![p].dataLen = op[p].len]
  /\ Goto(p, "reuseIndex")
  /\ UNCHANGED <<fileVars, op, buf, refused, lockVars>>

ReuseIndex(p) ==
  /\ pc[p] = "reuseIndex"
  /\ PutRecord(p, h[p].indexOff, op[p].key, op[p].len, h[p].save)
  /\ h' = [h EXCEPT ![p].next = h[p].save]
  /\ Goto(p, "writeHead")
  /\ UNCHANGED <<op, refused, lockVars>>

-----------------------------------------------------------------------------
\* Appending: Hmdb_WriteData, then Hmdb_WriteIndex, with SEEK_END.

SeekData(p) ==
  /\ pc[p] = "seekData"
  /\ h' = [h EXCEPT ![p].dataOff = datEnd]
  /\ Goto(p, "appendData")
  /\ UNCHANGED <<fileVars, op, buf, refused, lockVars>>

\* Faulty variant: the newline is not written.
AppendDataShort(p) ==
  /\ pc[p] = "appendData"
  /\ datEnd' = LET end == h[p].dataOff + op[p].len - 1
               IN  IF datEnd < end THEN end ELSE datEnd
  /\ h' = [h EXCEPT ![p].dataLen = op[p].len]
  /\ Goto(p, "unlockData")
  /\ UNCHANGED <<ptr, idx, idxEnd, op, buf, refused, lockVars>>

AppendData(p) ==
  /\ pc[p] = "appendData"
  /\ datEnd' = LET end == h[p].dataOff + op[p].len
               IN  IF datEnd < end THEN end ELSE datEnd
  /\ h' = [h EXCEPT ![p].dataLen = op[p].len]
  /\ Goto(p, "unlockData")
  /\ UNCHANGED <<ptr, idx, idxEnd, op, buf, refused, lockVars>>

\* The unlock of the whole data file gives up a byte kept by a delete as well.
UnlockData(p) ==
  /\ pc[p] = "unlockData"
  /\ Unlock(p, Held(p, "dat"), "lockTail")

\* Faulty variant: the chain is made to lead to the record before it is written.
SeekIndexPublishes(p) ==
  /\ pc[p] = "seekIndex"
  /\ h' = [h EXCEPT ![p].indexOff = idxEnd]
  /\ WritePtr(LinkHeadOff(op[p].key), idxEnd)
  /\ Goto(p, "appendIndex")
  /\ UNCHANGED <<op, buf, refused, lockVars>>

SeekIndex(p) ==
  /\ pc[p] = "seekIndex"
  /\ h' = [h EXCEPT ![p].indexOff = idxEnd]
  /\ Goto(p, "appendIndex")
  /\ UNCHANGED <<fileVars, op, buf, refused, lockVars>>

AppendIndex(p) ==
  /\ pc[p] = "appendIndex"
  /\ PutRecord(p, h[p].indexOff, op[p].key, op[p].len, h[p].save)
  /\ h' = [h EXCEPT ![p].next = h[p].save]
  /\ Goto(p, "unlockTail")
  /\ UNCHANGED <<op, refused, lockVars>>

\* Faulty variant: the append keeps its lock.
UnlockTailForgotten(p) ==
  /\ pc[p] = "unlockTail"
  /\ Goto(p, "writeHead")
  /\ UNCHANGED <<fileVars, op, h, buf, refused, lockVars>>

UnlockTail(p) ==
  /\ pc[p] = "unlockTail"
  /\ Unlock(p, {TailByte}, "writeHead")

\* The new record becomes the head of its chain.
WriteHead(p) ==
  /\ pc[p] = "writeHead"
  /\ WritePtr(LinkHeadOff(op[p].key), h[p].indexOff)
  /\ Goto(p, "unlockChain")
  /\ UNCHANGED <<op, h, buf, refused, lockVars>>

-----------------------------------------------------------------------------
Call(p) == \/ BeginFetch(p) \/ BeginDelete(p) \/ BeginStore(p)
           \/ NextRec(p) \/ Close(p) \/ Exit(p) \/ Killed(p)

\* The steps of an operation that ask for no lock.
Work(p) ==
  \/ ReadHead(p) \/ Walk(p) \/ Segv(p) \/ ReadData(p) \/ UnlockChain(p)
  \/ ReadFree(p) \/ BlankIndex(p) \/ PushFree(p) \/ Unlink(p) \/ RereadHead(p)
  \/ ReadHead2(p) \/ Overwrite(p)
  \/ FreeHead(p) \/ WalkFree(p) \/ PopFree(p) \/ UnlockFree(p)
  \/ ReuseData(p) \/ ReuseIndex(p)
  \/ SeekData(p) \/ AppendData(p) \/ UnlockData(p)
  \/ SeekIndex(p) \/ AppendIndex(p) \/ UnlockTail(p) \/ WriteHead(p)

Locking(p) == Acquire(p) \/ Await(p) \/ GoWithout(p)

\* Every process has exited: the only state in which nothing more happens.
Terminated == (\A p \in Procs : pc[p] = "dead") /\ UNCHANGED vars

Next == (\E p \in Procs : Call(p) \/ Work(p) \/ Locking(p)) \/ Terminated

Spec == Init /\ [][Next]_vars

\* A process in an operation keeps running.  A lock that is free again and
\* again is granted at last: the kernel wakes the waiters, it does not queue
\* newcomers before them for ever.
Fairness == \A p \in Procs : /\ WF_vars(Work(p) \/ Locking(p))
                             /\ SF_vars(Acquire(p))

FairSpec == Spec /\ Fairness

-----------------------------------------------------------------------------
(* Properties.                                                              *)

Calls == [kind : {"none", "fetch", "delete", "store"}, key : Keys \cup {Blank},
          len : Nat, flag : {"none", "insert", "replace", "store"}]
Records == [key : Keys \cup {Blank}, off : Nat, len : Nat, next : Nat]
Handles == [walk : Nat, next : Nat, save : Nat, free : Nat,
            indexOff : Nat, dataOff : Nat, dataLen : Nat]
Texts == [seps : BOOLEAN, key : Keys \cup {Blank}, off : Nat, len : Nat]

\* Type invariant: the files, the handles and the lock table of the kernel
\* keep their form, and only a process in an operation has a key.
TypeOK ==
  /\ ptr \in [HeadOffs -> Nat]
  /\ DOMAIN idx \subseteq Nat
  /\ idx \in [DOMAIN idx -> Records]
  /\ idxEnd \in Nat /\ datEnd \in Nat
  /\ pc \in [Procs -> Stages]
  /\ op \in [Procs -> Calls]
  /\ \A p \in Procs : pc[p] \notin Resting => op[p].key \in Keys
  /\ h \in [Procs -> Handles]
  /\ buf \in [Procs -> Texts]
  /\ refused \in [Procs -> SUBSET LockStages]
  /\ LocksTypeOK(Byte)

InChain(p) == pc[p] \in ChainSection
SameChain(p, q) == LinkHeadOff(op[p].key) = LinkHeadOff(op[q].key)

\* Between Hmdb_FindAndLock and the unlock of the chain, a process that may
\* write the chain is alone on it, unless the kernel refused one of the two
\* the lock and it went on (hmdb.c:143-150, 635, 658, 750).
ChainExclusion ==
  \A p, q \in Procs :
     p # q /\ InChain(p) /\ InChain(q) /\ SameChain(p, q) /\ op[p].kind # "fetch"
       => "lockChain" \in refused[p] \cup refused[q]

\* Two processes are never both inside Hmdb_FindFree, nor both between the lock
\* and the unlock of an append to the index file, whatever else went wrong: these
\* locks cannot be refused, since who holds them waits for nothing
\* (hmdb.c:475-501, 416-441).
FreeListExclusion ==
  \A p, q \in Procs : pc[p] \in FreeSection /\ pc[q] \in FreeSection => p = q
TailExclusion ==
  \A p, q \in Procs : pc[p] \in TailSection /\ pc[q] \in TailSection => p = q
SectionExclusion == FreeListExclusion /\ TailExclusion

\* The same of an append to the data file, where Hmdb_Dodelete's lock can be
\* in the way and the request be refused (hmdb.c:357-385).
DataAppendExclusion ==
  \A p, q \in Procs :
     pc[p] \in DataSection /\ pc[q] \in DataSection /\ p # q
       => "lockData" \in refused[p] \cup refused[q]

\* Between operations a process holds no lock on the index file: every way
\* out of an operation gives the chain back, and the locks taken under it.
RestHoldsNoIndexLock ==
  \A p \in Procs : pc[p] \in Resting => \A b \in rlock[p] \cup wlock[p] : b[1] = "dat"

\* No pointer in the index file, be it in the header or in a record, leads
\* anywhere but to a record that was written completely: a record is on disk
\* before it is linked, and a kill between the two leaves it unlinked.
PointersResolve ==
  /\ \A o \in HeadOffs : ptr[o] \in DOMAIN idx \cup {0}
  /\ \A a \in DOMAIN idx : idx[a].next \in DOMAIN idx \cup {0}

\* The records a chain leads to: those in every set that holds its head and,
\* with a record, the record it points to.
OnChain(a, off) ==
  \A S \in SUBSET DOMAIN idx :
     (ptr[off] \in S \cup {0} /\ \A r \in S : idx[r].next \in S \cup {0}) => a \in S

Live(k) == \E a \in DOMAIN idx : idx[a].key = k /\ OnChain(a, LinkHeadOff(k))

\* A lock is refused only while some process holds on to a data byte outside
\* an append: without the lock Hmdb_Dodelete never gives back there would be
\* no deadlock to refuse (hmdb.c:333).
Leaks(q) == pc[q] \notin DataSection /\ \E b \in wlock[q] : b[1] = "dat"
RefusalNeedsLeak ==
  [][\A p \in Procs : refused'[p] \subseteq refused[p] \/ \E q \in Procs : Leaks(q)]_vars

\* While nothing is deleted, no two linked records share a byte of data.
Overlap(o1, n1, o2, n2) == o1 < o2 + n2 /\ o2 < o1 + n1
LiveDataDisjoint ==
  \A a, b \in DOMAIN idx :
     a # b /\ idx[a].key # Blank /\ idx[b].key # Blank
       => ~Overlap(idx[a].off, idx[a].len, idx[b].off, idx[b].len)

\* A record that heads the free list heads no chain, but for the moment in
\* which Hmdb_Dodelete moves it from the one to the other.  A process that is
\* killed in that moment leaves it on both (hmdb.c:343-345).
FreeHeadNotLive ==
  \A k \in Keys :
     ptr[FREE_OFF] # 0 /\ ptr[LinkHeadOff(k)] = ptr[FREE_OFF]
       => \E p \in Procs :
             \/ pc[p] = "unlink" /\ LinkHeadOff(op[p].key) = LinkHeadOff(k)
             \/ p \in Mortal /\ pc[p] = "dead"

\* Every call returns or its process dies, unless some process holds on to a
\* data byte after a delete.
CallReturns ==
  \A p \in Procs : pc[p] \notin Resting ~> pc[p] \in Resting \/ \E q \in Procs : Leaks(q)

\* "Not found" (hmdb.c:654, 685): where an operation says so the key is not in
\* the database.
NotFoundIsTrue ==
  \A p \in Procs : pc[p] = "readHead2" => ~Live(op[p].key)

=============================================================================
