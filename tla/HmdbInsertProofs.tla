-------------------------- MODULE HmdbInsertProofs --------------------------
(***************************************************************************)
(* What hmdb.c guarantees its callers as long as records are only added,   *)
(* for any number of processes and keys, with kills at any moment: no two  *)
(* records share data, and every step of the index is one of HmdbChains.   *)
(***************************************************************************)
EXTENDS HmdbInserts, HmdbProofs, DataProofs

\* Nobody calls HMDB_Delete, and HMDB_Store is called with HMDB_INSERT only.
InsertsOnly == "delete" \notin Kinds /\ Flags \subseteq {"insert"}

-----------------------------------------------------------------------------
(* The invariant.  First part: how far an operation gets.  The free list is *)
(* empty, so Hmdb_FindFree finds nothing; nobody deletes, so nobody keeps a *)
(* lock on the data; hence no lock is ever refused.                         *)

KeepStages ==
  {"lockFree", "freeHead", "unlockFree", "lockData", "seekData", "appendData", "unlockData",
   "lockTail", "seekIndex", "appendIndex", "unlockTail", "writeHead"}
InsertStages ==
  KeepStages \cup Resting
  \cup {"lockChain", "readHead", "walk", "readData", "readHead2", "unlockChain"}

DataUnlocked(p) ==
  \A b \in wlock[p] : b[1] = "dat" => pc[p] \in DataSection

Inserting(p) ==
  /\ pc[p] \in InsertStages
  /\ pc[p] \notin Resting =>
       \/ op[p].kind = "fetch"
       \/ op[p].kind = "store" /\ op[p].flag = "insert"
  /\ pc[p] \in KeepStages \cup {"readHead2"} => op[p].kind = "store"
  /\ pc[p] = "unlockFree" => h[p].walk = 0
  /\ refused[p] = {}
  /\ DataUnlocked(p)

OnlyInserts == ptr[FREE_OFF] = 0 /\ \A p \in Procs : Inserting(p)

(* Second part: records lie behind one another and point backwards; what a  *)
(* store keeps of its chain is still so when it writes the head.            *)

IndexGrows ==
  /\ RecordsOff <= idxEnd
  /\ \A a \in DOMAIN idx : 0 < a /\ a < idxEnd /\ idx[a].next < a

LinkReady(p) ==
  /\ pc[p] \in KeepStages => h[p].save = ptr[LinkHeadOff(op[p].key)]
  /\ pc[p] = "appendIndex" => h[p].indexOff = idxEnd
  /\ pc[p] \in {"unlockTail", "writeHead"} =>
       /\ h[p].indexOff \in DOMAIN idx
       /\ idx[h[p].indexOff].key = op[p].key
       /\ idx[h[p].indexOff].next = h[p].save

IndexInv == IndexGrows /\ \A p \in Procs : LinkReady(p)

(* Third part: the data of the records, and of the stores that have written *)
(* theirs and not yet the record.                                           *)

Pending(p) == pc[p] \in {"unlockData", "lockTail", "seekIndex", "appendIndex"}
Apart(o1, n1, o2, n2) == o1 + n1 <= o2 \/ o2 + n2 <= o1

DataInv ==
  /\ \A a \in DOMAIN idx : idx[a].off + idx[a].len <= datEnd
  /\ \A p \in Procs : pc[p] = "appendData" => h[p].dataOff = datEnd
  /\ \A p \in Procs : Pending(p) => h[p].dataOff + op[p].len <= datEnd
  /\ \A a, b \in DOMAIN idx :
        a # b => Apart(idx[a].off, idx[a].len, idx[b].off, idx[b].len)
  /\ \A p \in Procs : \A a \in DOMAIN idx :
        Pending(p) => Apart(h[p].dataOff, op[p].len, idx[a].off, idx[a].len)
  /\ \A p, q \in Procs :
        Pending(p) /\ Pending(q) /\ p # q
          => Apart(h[p].dataOff, op[p].len, h[q].dataOff, op[q].len)

Before == LockInv /\ WaitInv /\ PointerInv

-----------------------------------------------------------------------------
(* The steps.                                                               *)

\* A step of p leaves alone what belongs to the others.
Alone(p) ==
  /\ Private(p)
  /\ \A q \in Procs \ {p} : refused'[q] = refused[q] /\ wlock'[q] = wlock[q]

LEMMA DiesAlone ==
  ASSUME TypeOK, NEW p \in Procs, Dies(p)
  PROVE  /\ Alone(p) /\ pc'[p] = "dead" /\ refused'[p] = {} /\ wlock'[p] = {}
         /\ UNCHANGED fileVars
BY DEF Dies, Vanish, TypeOK, LocksTypeOK, Alone, Private

\* The steps of a store that inserts, and of a fetch.
Quiet(p) ==
  \/ ReadHead(p) \/ Walk(p) \/ ReadData(p) \/ ReadHead2(p) \/ FreeHead(p)
  \/ SeekData(p) \/ AppendData(p) \/ SeekIndex(p) \/ AppendIndex(p) \/ WriteHead(p)
Unlocks(p) == UnlockFree(p) \/ UnlockData(p) \/ UnlockTail(p) \/ UnlockChain(p)

LEMMA InsertWork ==
  ASSUME OnlyInserts, NEW p \in Procs, Work(p)
  PROVE  Quiet(p) \/ Unlocks(p) \/ Segv(p)
<1>1. pc[p] \in InsertStages
  BY DEF OnlyInserts, Inserting
<1>2. /\ ~ReadFree(p) /\ ~BlankIndex(p) /\ ~PushFree(p) /\ ~Unlink(p) /\ ~RereadHead(p)
      /\ ~Overwrite(p) /\ ~WalkFree(p) /\ ~PopFree(p) /\ ~ReuseData(p) /\ ~ReuseIndex(p)
  BY <1>1 DEF ReadFree, BlankIndex, PushFree, Unlink, RereadHead, Overwrite, WalkFree, PopFree,
              ReuseData, ReuseIndex, InsertStages, KeepStages, Resting
<1> QED
  BY <1>2 DEF Work, Quiet, Unlocks

\* A quiet step touches no lock, and what else it changes of p.
LEMMA QuietAlone ==
  ASSUME TypeOK, NEW p \in Procs, Quiet(p)
  PROVE  /\ Alone(p) /\ UNCHANGED <<op, refused, lockVars>>
         /\ pc[p] \notin Resting
<1>1. UNCHANGED <<op, refused, lockVars>>
  BY DEF Quiet, ReadHead, Walk, ReadData, ReadHead2, KeepHead, FreeHead, SeekData, AppendData,
         SeekIndex, AppendIndex, WriteHead
<1>2. \A q \in Procs \ {p} : pc'[q] = pc[q]
  BY DEF TypeOK, Goto, Quiet, ReadHead, Walk, ReadData, ReadHead2, KeepHead, FreeHead, SeekData,
         AppendData, SeekIndex, AppendIndex, WriteHead
<1>3. \A q \in Procs \ {p} : h'[q] = h[q]
  BY DEF TypeOK, Quiet, ReadHead, Walk, ParseBuffer, ReadData, ReadHead2, KeepHead, FreeHead,
         SeekData, AppendData, SeekIndex, AppendIndex, WriteHead
<1>4. pc[p] \notin Resting
  BY DEF Resting, Quiet, ReadHead, Walk, ReadData, ReadHead2, FreeHead,
         SeekData, AppendData, SeekIndex, AppendIndex, WriteHead
<1> QED
  BY <1>1, <1>2, <1>3, <1>4 DEF Alone, Private, lockVars

\* An unlock gives locks up and changes no file.
LEMMA UnlocksAlone ==
  ASSUME TypeOK, NEW p \in Procs, Unlocks(p)
  PROVE  /\ Alone(p) /\ UNCHANGED fileVars /\ wlock'[p] \subseteq wlock[p]
         /\ UnlockData(p) => wlock'[p] = wlock[p] \ Held(p, "dat")
<1>1. PICK B : Release(p, B) /\ (UnlockData(p) => B = Held(p, "dat"))
  <2>1. CASE UnlockFree(p)
    BY <2>1 DEF UnlockFree, UnlockData, Unlock
  <2>2. CASE UnlockData(p)
    BY <2>2 DEF UnlockData, Unlock
  <2>3. CASE UnlockTail(p)
    BY <2>3 DEF UnlockTail, UnlockData, Unlock
  <2>4. CASE UnlockChain(p)
    BY <2>4 DEF UnlockChain, UnlockData
  <2> QED
    BY <2>1, <2>2, <2>3, <2>4 DEF Unlocks
<1>2. /\ wlock'[p] = wlock[p] \ B
      /\ \A q \in Procs \ {p} : wlock'[q] = wlock[q]
  BY <1>1, ReleaseEffect
<1>3. UNCHANGED fileVars /\ \A q \in Procs \ {p} :
         pc'[q] = pc[q] /\ op'[q] = op[q] /\ h'[q] = h[q] /\ refused'[q] = refused[q]
  BY DEF TypeOK, Goto, Unlocks, UnlockFree, UnlockData, UnlockTail, UnlockChain, Unlock
<1> QED
  BY <1>1, <1>2, <1>3 DEF Alone, Private

\* A request that is granted or waits changes no file and no handle.
LEMMA LockingAlone ==
  ASSUME TypeOK, NEW p \in Procs, Acquire(p) \/ Await(p)
  PROVE  /\ Alone(p) /\ UNCHANGED <<fileVars, op, h, refused>>
         /\ pc[p] \in LockStages
         /\ Await(p) => pc' = pc /\ wlock' = wlock
         /\ Acquire(p) => /\ pc'[p] = AfterLock[pc[p]]
                          /\ wlock'[p] \subseteq wlock[p] \cup Request(p)
<1>1. UNCHANGED <<fileVars, op, h, refused>> /\ pc[p] \in LockStages
  BY DEF Acquire, Await, procVars
<1>2. \A q \in Procs \ {p} : pc'[q] = pc[q] /\ wlock'[q] = wlock[q]
  BY DEF TypeOK, LocksTypeOK, Acquire, Await, LockGranted, LockWaits, Goto, procVars
<1>3. Await(p) => pc' = pc /\ wlock' = wlock
  BY DEF Await, LockWaits, procVars
<1>4. Acquire(p) => pc'[p] = AfterLock[pc[p]] /\ wlock'[p] \subseteq wlock[p] \cup Request(p)
  BY DEF Acquire, LockGranted, Goto, TypeOK, LocksTypeOK
<1> QED
  BY <1>1, <1>2, <1>3, <1>4 DEF Alone, Private

\* A call that begins changes no file and no handle.
Begins(p) == BeginFetch(p) \/ BeginStore(p)

LEMMA BeginsAlone ==
  ASSUME TypeOK, NEW p \in Procs, Begins(p)
  PROVE  /\ Alone(p) /\ UNCHANGED <<fileVars, h, refused, wlock>>
         /\ pc[p] = "rest" /\ pc'[p] = "lockChain"
         /\ \/ op'[p].kind = "fetch"
            \/ op'[p].kind = "store" /\ op'[p].flag \in Flags
<1>1. PICK call : /\ Begin(p, call)
                  /\ \/ call.kind = "fetch"
                     \/ call.kind = "store" /\ call.flag \in Flags
  <2>1. CASE BeginFetch(p)
    <3>1. PICK k \in Keys :
             Begin(p, [kind |-> "fetch", key |-> k, len |-> 0, flag |-> "none"])
      BY <2>1 DEF BeginFetch
    <3> QED
      BY <3>1
  <2>2. CASE BeginStore(p)
    <3>1. PICK k \in Keys, n \in Lens, f \in Flags :
             Begin(p, [kind |-> "store", key |-> k, len |-> n, flag |-> f])
      BY <2>2 DEF BeginStore
    <3> QED
      BY <3>1
  <2> QED
    BY <2>1, <2>2 DEF Begins
<1> QED
  BY <1>1 DEF Begin, Goto, TypeOK, Alone, Private, lockVars

LEMMA CloseAlone ==
  ASSUME TypeOK, NEW p \in Procs, Close(p)
  PROVE  /\ Alone(p) /\ UNCHANGED <<fileVars, op, h, refused>>
         /\ pc[p] = "rest" /\ pc'[p] = "closed" /\ wlock'[p] \subseteq wlock[p]
<1>1. PICK B : Release(p, B)
  BY DEF Close
<1>2. /\ wlock'[p] = wlock[p] \ B
      /\ \A q \in Procs \ {p} : wlock'[q] = wlock[q]
  BY <1>1, ReleaseEffect
<1> QED
  BY <1>2 DEF Close, Goto, TypeOK, Alone, Private

-----------------------------------------------------------------------------
(* The first part is inductive.                                             *)

\* Nothing leaks, so nothing is refused.
LEMMA NothingLeaks == OnlyInserts => \A p \in Procs : ~Leaks(p)
BY DEF OnlyInserts, Inserting, DataUnlocked, Leaks

LEMMA InsertersKeep ==
  ASSUME OnlyInserts, NEW p \in Procs, Alone(p), Inserting(p)', ptr'[FREE_OFF] = 0
  PROVE  OnlyInserts'
<1>1. ASSUME NEW q \in Procs \ {p} PROVE Inserting(q)'
  <2>1. /\ pc'[q] = pc[q] /\ op'[q] = op[q] /\ h'[q] = h[q] /\ refused'[q] = refused[q]
        /\ wlock'[q] = wlock[q] /\ Inserting(q)
    BY DEF Alone, Private, OnlyInserts
  <2> QED
    BY <2>1 DEF Inserting, DataUnlocked
<1> QED
  BY <1>1 DEF OnlyInserts

LEMMA QuietInserts ==
  ASSUME TypeOK, TypeOK', OnlyInserts, NEW p \in Procs, Quiet(p)
  PROVE  OnlyInserts'
<1> DEFINE s == pc[p]
<1>1. Alone(p) /\ UNCHANGED <<op, refused, lockVars>> /\ pc[p] \notin Resting
  BY QuietAlone
<1>2. ptr'[FREE_OFF] = 0
  <2>1. CASE WriteHead(p)
    <3>1. LinkHeadOff(op[p].key) # FREE_OFF
      BY <1>1, HeadOff DEF TypeOK
    <3>2. ptr' = [ptr EXCEPT ![LinkHeadOff(op[p].key)] = h[p].indexOff]
      BY <2>1 DEF WriteHead, WritePtr
    <3> QED
      BY <3>1, <3>2 DEF OnlyInserts, TypeOK, HeadOffs
  <2>2. CASE ~WriteHead(p)
    <3>1. ptr' = ptr
      BY <2>2 DEF Quiet, ReadHead, Walk, ReadData, ReadHead2, KeepHead, FreeHead, SeekData,
                  AppendData, SeekIndex, AppendIndex, PutRecord, fileVars
    <3> QED
      BY <3>1 DEF OnlyInserts
  <2> QED
    BY <2>1, <2>2
<1>3. /\ op'[p] = op[p] /\ refused'[p] = refused[p] /\ wlock'[p] = wlock[p]
      /\ Inserting(p)
  BY <1>1 DEF OnlyInserts, lockVars
<1>4. /\ \A len : AfterFound(p, len) \in {"readData", "unlockChain"}
      /\ AfterMissed(p) \in {"readHead2", "unlockChain"}
      /\ AfterMissed(p) = "readHead2" => op[p].kind = "store"
  BY <1>1, <1>3 DEF Inserting, AfterFound, AfterMissed
<1>5. /\ pc'[p] \in InsertStages \ Resting
      /\ pc'[p] \in KeepStages \cup {"readHead2"} => op[p].kind = "store"
      /\ pc'[p] \in DataSection <=> pc[p] \in DataSection
  <2> USE DEF InsertStages, KeepStages, Resting, DataSection
  <2>1. CASE ReadHead(p) \/ Walk(p)
    <3>1. pc'[p] \in {"walk", "readData", "unlockChain", AfterMissed(p)} /\ pc[p] \notin DataSection
      BY <1>4, <2>1 DEF ReadHead, Walk, Goto, TypeOK
    <3> QED
      BY <1>4, <3>1
  <2>2. CASE ReadData(p) \/ ReadHead2(p) \/ FreeHead(p) \/ WriteHead(p)
    BY <1>3, <2>2 DEF ReadData, ReadHead2, KeepHead, FreeHead, WriteHead, Goto, TypeOK,
                      Inserting, OnlyInserts
  <2>3. CASE SeekData(p) \/ AppendData(p) \/ SeekIndex(p) \/ AppendIndex(p)
    BY <1>3, <2>3 DEF SeekData, AppendData, SeekIndex, AppendIndex, Goto, TypeOK, Inserting
  <2> QED
    BY <2>1, <2>2, <2>3 DEF Quiet
<1>6. pc'[p] = "unlockFree" => h'[p].walk = 0
  <2>1. CASE FreeHead(p)
    <3>1. h'[p] = [h[p] EXCEPT !.walk = 0] /\ h[p] \in Handles
      BY <2>1 DEF FreeHead, OnlyInserts, TypeOK
    <3> QED
      BY <3>1 DEF Handles
  <2>2. CASE ~FreeHead(p)
    <3>1. pc'[p] # "unlockFree"
      <4>1. CASE ReadHead(p) \/ Walk(p)
        <5>1. pc'[p] \in {"walk", "readData", "unlockChain", AfterMissed(p)}
          BY <1>4, <4>1 DEF ReadHead, Walk, Goto, TypeOK
        <5> QED
          BY <1>4, <5>1
      <4>2. CASE ~(ReadHead(p) \/ Walk(p))
        BY <2>2, <4>2 DEF Quiet, ReadData, ReadHead2, KeepHead, WriteHead, SeekData, AppendData,
                          SeekIndex, AppendIndex, Goto, TypeOK
      <4> QED
        BY <4>1, <4>2
    <3> QED
      BY <3>1
  <2> QED
    BY <2>1, <2>2
<1>7. DataUnlocked(p)'
  <2>1. (\A b \in wlock[p] : b[1] = "dat" => pc[p] \in DataSection)
    BY <1>3 DEF Inserting, DataUnlocked
  <2> QED
    BY <1>3, <1>5, <2>1 DEF DataUnlocked
<1>8. Inserting(p)'
  BY <1>1, <1>3, <1>5, <1>6, <1>7 DEF Inserting
<1> QED
  BY <1>1, <1>2, <1>8, InsertersKeep

LEMMA UnlocksInsert ==
  ASSUME TypeOK, TypeOK', OnlyInserts, NEW p \in Procs, Unlocks(p)
  PROVE  OnlyInserts'
<1>1. /\ Alone(p) /\ UNCHANGED fileVars /\ wlock'[p] \subseteq wlock[p]
      /\ UnlockData(p) => wlock'[p] = wlock[p] \ Held(p, "dat")
  BY UnlocksAlone
<1>2. Inserting(p) /\ ptr'[FREE_OFF] = 0
  BY <1>1 DEF OnlyInserts, fileVars
<1>3. DataUnlocked(p)'
  <2>1. (\A b \in wlock[p] : b[1] = "dat" => pc[p] \in DataSection)
    BY <1>2 DEF Inserting, DataUnlocked
  <2>2. UnlockData(p) \/ pc[p] \notin DataSection
    BY DEF Unlocks, UnlockFree, UnlockTail, UnlockChain, DataSection
  <2>3. \A b \in wlock'[p] : b[1] # "dat"
    BY <1>1, <2>1, <2>2 DEF Held
  <2> QED
    BY <2>3 DEF DataUnlocked
<1>4. CASE UnlockFree(p) \/ UnlockData(p) \/ UnlockTail(p)
  <2>1. UNCHANGED <<op, h, refused>>
    BY <1>4 DEF UnlockFree, UnlockData, UnlockTail, Unlock
  <2>2. pc'[p] \in {"lockData", "lockTail", "writeHead"} /\ pc[p] \in KeepStages
    BY <1>2, <1>4 DEF UnlockFree, UnlockData, UnlockTail, Unlock, Goto, TypeOK, Inserting,
                      KeepStages
  <2>3. op[p].kind = "store" /\ op[p].flag = "insert" /\ refused[p] = {}
    BY <1>2, <2>2 DEF Inserting, KeepStages, Resting
  <2>4. Inserting(p)'
    BY <1>3, <2>1, <2>2, <2>3 DEF Inserting, InsertStages, KeepStages
  <2> QED
    BY <1>1, <1>2, <2>4, InsertersKeep
<1>5. CASE UnlockChain(p)
  <2>1. pc'[p] = "rest" /\ refused'[p] = {}
    BY <1>5 DEF UnlockChain, Goto, TypeOK
  <2>2. Inserting(p)'
    BY <1>3, <2>1 DEF Inserting, InsertStages, KeepStages, Resting
  <2> QED
    BY <1>1, <1>2, <2>2, InsertersKeep
<1> QED
  BY <1>4, <1>5 DEF Unlocks

LEMMA LockingInserts ==
  ASSUME LockInv, WaitInv, TypeOK', OnlyInserts, NEW p \in Procs, Locking(p)
  PROVE  OnlyInserts'
<1>0. TypeOK
  BY DEF LockInv
<1>1. Acquire(p) \/ Await(p)
  BY NothingLeaks, RefusedByLeak DEF Locking
<1>2. /\ Alone(p) /\ UNCHANGED <<fileVars, op, h, refused>> /\ pc[p] \in LockStages
      /\ Await(p) => pc' = pc /\ wlock' = wlock
      /\ Acquire(p) => /\ pc'[p] = AfterLock[pc[p]]
                       /\ wlock'[p] \subseteq wlock[p] \cup Request(p)
  BY <1>0, <1>1, LockingAlone
<1>3. Inserting(p) /\ ptr'[FREE_OFF] = 0
  BY <1>2 DEF OnlyInserts, fileVars
<1>4. CASE Await(p)
  <2>1. Inserting(p)'
    BY <1>2, <1>3, <1>4 DEF Inserting, DataUnlocked
  <2> QED
    BY <1>2, <1>3, <2>1, InsertersKeep
<1>5. CASE Acquire(p)
  <2>1. /\ pc[p] \in {"lockChain", "lockFree", "lockData", "lockTail"}
        /\ pc[p] \notin DataSection
    BY <1>2, <1>3 DEF Inserting, InsertStages, KeepStages, Resting, LockStages, DataSection
  <2>2. /\ pc[p] = "lockChain" => pc'[p] = "readHead"
        /\ pc[p] = "lockFree" => pc'[p] = "freeHead"
        /\ pc[p] = "lockData" => pc'[p] = "seekData"
        /\ pc[p] = "lockTail" => pc'[p] = "seekIndex"
    BY <1>2, <1>5 DEF AfterLock, LockStages
  <2>3. op[p].kind = "fetch" \/ (op[p].kind = "store" /\ op[p].flag = "insert")
    BY <1>3, <2>1 DEF Inserting, Resting
  <2>4. pc[p] # "lockChain" => op[p].kind = "store"
    BY <1>3, <2>1 DEF Inserting, KeepStages
  <2>5. DataUnlocked(p)'
    <3>1. \A b \in wlock[p] : b[1] # "dat"
      BY <1>3, <2>1 DEF Inserting, DataUnlocked
    <3>2. \A b \in Request(p) : b[1] = "dat" => pc[p] = "lockData"
      <4>1. /\ pc[p] = "lockChain" => Request(p) = {ChainByte(op[p].key)}
            /\ pc[p] = "lockFree" => Request(p) = {FreeByte}
            /\ pc[p] = "lockData" => Request(p) = DatBytes
            /\ pc[p] = "lockTail" => Request(p) = {TailByte}
        BY DEF Request
      <4> QED
        BY <2>1, <4>1 DEF ChainByte, FreeByte, TailByte
    <3>3. wlock'[p] \subseteq wlock[p] \cup Request(p)
      BY <1>2, <1>5
    <3> QED
      BY <2>2, <3>1, <3>2, <3>3 DEF DataUnlocked, DataSection
  <2>6. Inserting(p)'
    BY <1>2, <1>3, <2>1, <2>2, <2>3, <2>4, <2>5 DEF Inserting, InsertStages, KeepStages
  <2> QED
    BY <1>2, <1>3, <2>6, InsertersKeep
<1> QED
  BY <1>1, <1>4, <1>5

LEMMA DiesInserts ==
  ASSUME TypeOK, OnlyInserts, NEW p \in Procs, Dies(p)
  PROVE  OnlyInserts'
<1>1. /\ Alone(p) /\ pc'[p] = "dead" /\ refused'[p] = {} /\ wlock'[p] = {} /\ UNCHANGED fileVars
  BY DiesAlone
<1>2. Inserting(p)'
  BY <1>1 DEF Inserting, InsertStages, KeepStages, Resting, DataUnlocked
<1> QED
  BY <1>1, <1>2, InsertersKeep DEF OnlyInserts, fileVars

LEMMA CallInserts ==
  ASSUME InsertsOnly, TypeOK, TypeOK', OnlyInserts, NEW p \in Procs, Call(p)
  PROVE  OnlyInserts'
<1>1. CASE NextRec(p) \/ Exit(p) \/ Killed(p)
  BY <1>1, DiesInserts DEF NextRec, Exit, Killed
<1>2. CASE Begins(p)
  <2>1. /\ Alone(p) /\ UNCHANGED <<fileVars, h, refused, wlock>>
        /\ pc[p] = "rest" /\ pc'[p] = "lockChain"
        /\ op'[p].kind = "fetch" \/ (op'[p].kind = "store" /\ op'[p].flag \in Flags)
    BY <1>2, BeginsAlone
  <2>2. Inserting(p) /\ ptr'[FREE_OFF] = 0
    BY <2>1 DEF OnlyInserts, fileVars
  <2>3. DataUnlocked(p)'
    BY <2>1, <2>2 DEF Inserting, DataUnlocked, DataSection
  <2>4. Inserting(p)'
    BY <2>1, <2>2, <2>3 DEF Inserting, InsertStages, KeepStages, InsertsOnly
  <2> QED
    BY <2>1, <2>2, <2>4, InsertersKeep
<1>3. CASE Close(p)
  <2>1. /\ Alone(p) /\ UNCHANGED <<fileVars, op, h, refused>>
        /\ pc[p] = "rest" /\ pc'[p] = "closed" /\ wlock'[p] \subseteq wlock[p]
    BY <1>3, CloseAlone
  <2>2. Inserting(p) /\ ptr'[FREE_OFF] = 0
    BY <2>1 DEF OnlyInserts, fileVars
  <2>3. DataUnlocked(p)'
    BY <2>1, <2>2 DEF Inserting, DataUnlocked, DataSection
  <2>4. Inserting(p)'
    BY <2>1, <2>2, <2>3 DEF Inserting, InsertStages, KeepStages, Resting
  <2> QED
    BY <2>1, <2>2, <2>4, InsertersKeep
<1>4. ~BeginDelete(p)
  BY DEF BeginDelete, InsertsOnly
<1> QED
  BY <1>1, <1>2, <1>3, <1>4 DEF Call, Begins

-----------------------------------------------------------------------------
(* The second part is inductive.                                            *)

\* Whoever is alone on a chain stays so: nobody else appends, and nobody else
\* is about to write the same head.
LEMMA StoresExclude ==
  ASSUME LockInv, OnlyInserts, NEW p \in Procs, NEW q \in Procs, p # q, pc[q] \in KeepStages
  PROVE  /\ pc[p] = "writeHead" => LinkHeadOff(op[p].key) # LinkHeadOff(op[q].key)
         /\ pc[p] = "appendIndex" => pc[q] # "appendIndex"
         /\ pc[p] = "appendData" => pc[q] # "appendData"
<1>1. ChainExclusion /\ SectionExclusion /\ DataAppendExclusion
  BY LockInvExcludes
<1>2. refused[p] = {} /\ refused[q] = {} /\ op[q].kind = "store"
  BY DEF OnlyInserts, Inserting
<1>3. pc[p] = "writeHead" => LinkHeadOff(op[p].key) # LinkHeadOff(op[q].key)
  <2>1. KeepStages \subseteq ChainSection
    BY DEF KeepStages, ChainSection, LockStages, FreeSection, DataSection, TailSection
  <2>2. pc[p] = "writeHead" => InChain(p) /\ InChain(q)
    BY <2>1 DEF InChain, KeepStages
  <2> QED
    BY <1>1, <1>2, <2>2 DEF ChainExclusion, SameChain
<1>4. pc[p] = "appendIndex" => pc[q] # "appendIndex"
  BY <1>1 DEF SectionExclusion, TailExclusion, TailSection
<1>5. pc[p] = "appendData" => pc[q] # "appendData"
  BY <1>1, <1>2 DEF DataAppendExclusion, DataSection
<1> QED
  BY <1>3, <1>4, <1>5

LEMMA LinksKeep ==
  ASSUME IndexInv, NEW p \in Procs, Alone(p), UNCHANGED <<ptr, idx, idxEnd>>, LinkReady(p)'
  PROVE  IndexInv'
<1>1. ASSUME NEW q \in Procs \ {p} PROVE LinkReady(q)'
  <2>1. pc'[q] = pc[q] /\ op'[q] = op[q] /\ h'[q] = h[q] /\ LinkReady(q)
    BY DEF Alone, Private, IndexInv
  <2> QED
    BY <2>1 DEF LinkReady
<1> QED
  BY <1>1 DEF IndexInv, IndexGrows

\* Outside the stages in which something is kept there is nothing to show.
LEMMA LinksDropped ==
  ASSUME NEW p \in Procs, pc'[p] \notin KeepStages
  PROVE  LinkReady(p)'
BY DEF LinkReady, KeepStages

LEMMA AppendIndexLinks ==
  ASSUME LockInv, PointerInv, OnlyInserts, IndexInv, NEW p \in Procs, AppendIndex(p)
  PROVE  IndexInv'
<1>0. TypeOK
  BY DEF LockInv
<1>1. /\ pc[p] = "appendIndex" /\ h[p].indexOff = idxEnd
      /\ h[p].save = ptr[LinkHeadOff(op[p].key)]
  BY DEF AppendIndex, IndexInv, LinkReady, KeepStages
<1>2. /\ DOMAIN idx' = DOMAIN idx \cup {idxEnd}
      /\ idx'[idxEnd].key = op[p].key /\ idx'[idxEnd].next = h[p].save
      /\ \A a \in DOMAIN idx \ {idxEnd} : idx'[a] = idx[a]
      /\ idxEnd' = idxEnd + RecLen /\ ptr' = ptr
  BY <1>0, <1>1, Parameters DEF AppendIndex, PutRecord, TypeOK
<1>3. idxEnd \notin DOMAIN idx
  BY <1>0 DEF IndexInv, IndexGrows, TypeOK
<1>4. h[p].save \in DOMAIN idx \cup {0}
  BY DEF PointerInv, HandlesResolve, HandleResolves, Resolved
<1>5. IndexGrows'
  <2>1. RecordsOff \in Nat /\ 0 < RecordsOff
    BY DEF RecordsOff, HASH_SIZE, PTR_SIZE
  <2>2. /\ h[p].save < idxEnd /\ 0 < idxEnd /\ idxEnd < idxEnd' /\ idxEnd \in Nat
        /\ RecordsOff <= idxEnd'
    BY <1>0, <1>2, <1>4, <2>1, Parameters DEF IndexInv, IndexGrows, TypeOK
  <2>3. \A a \in DOMAIN idx : a # idxEnd /\ 0 < a /\ a < idxEnd' /\ idx[a].next < a
    BY <1>0, <1>2, <1>3, Parameters DEF IndexInv, IndexGrows, TypeOK
  <2> QED
    BY <1>2, <2>2, <2>3 DEF IndexGrows
<1>6. Alone(p) /\ op' = op
  BY <1>0, QuietAlone DEF Quiet
<1>7. ASSUME NEW q \in Procs \ {p} PROVE LinkReady(q)'
  <2>1. pc'[q] = pc[q] /\ op'[q] = op[q] /\ h'[q] = h[q] /\ LinkReady(q)
    BY <1>6 DEF Alone, Private, IndexInv
  <2>2. pc[q] # "appendIndex"
    BY <1>1, StoresExclude DEF KeepStages
  <2> QED
    BY <1>2, <1>3, <2>1, <2>2 DEF LinkReady
<1>8. LinkReady(p)'
  <2>1. pc'[p] = "unlockTail"
    BY <1>0 DEF AppendIndex, Goto, TypeOK
  <2>2. h'[p].save = h[p].save /\ h'[p].indexOff = h[p].indexOff
    BY <1>0 DEF AppendIndex, TypeOK, Handles
  <2> QED
    BY <1>1, <1>2, <1>6, <2>1, <2>2 DEF LinkReady
<1> QED
  BY <1>5, <1>7, <1>8 DEF IndexInv

LEMMA WriteHeadLinks ==
  ASSUME LockInv, OnlyInserts, IndexInv, NEW p \in Procs, WriteHead(p)
  PROVE  IndexInv'
<1>0. TypeOK
  BY DEF LockInv
<1>1. /\ pc[p] = "writeHead" /\ pc'[p] = "unlockChain"
      /\ ptr' = [ptr EXCEPT ![LinkHeadOff(op[p].key)] = h[p].indexOff]
      /\ idx' = idx /\ idxEnd' = idxEnd
  BY <1>0 DEF WriteHead, WritePtr, Goto, TypeOK
<1>2. Alone(p)
  BY <1>0, QuietAlone DEF Quiet
<1>3. ASSUME NEW q \in Procs \ {p} PROVE LinkReady(q)'
  <2>1. pc'[q] = pc[q] /\ op'[q] = op[q] /\ h'[q] = h[q] /\ LinkReady(q)
    BY <1>2 DEF Alone, Private, IndexInv
  <2>2. ASSUME pc[q] \in KeepStages
        PROVE  ptr'[LinkHeadOff(op[q].key)] = ptr[LinkHeadOff(op[q].key)]
    <3>1. LinkHeadOff(op[p].key) # LinkHeadOff(op[q].key)
      BY <1>1, <2>2, StoresExclude
    <3>2. LinkHeadOff(op[q].key) \in HeadOffs
      <4>1. op[q].key \in Keys
        BY <1>0, <2>2 DEF TypeOK, KeepStages, Resting
      <4> QED
        BY <4>1, HeadOff
    <3> QED
      BY <1>0, <1>1, <3>1, <3>2 DEF TypeOK
  <2> QED
    BY <1>1, <2>1, <2>2 DEF LinkReady
<1>4. LinkReady(p)'
  BY <1>1, LinksDropped DEF KeepStages
<1> QED
  BY <1>1, <1>3, <1>4 DEF IndexInv, IndexGrows

LEMMA QuietLinks ==
  ASSUME LockInv, OnlyInserts, IndexInv, NEW p \in Procs, Quiet(p),
         ~AppendIndex(p), ~WriteHead(p)
  PROVE  IndexInv'
<1>0. TypeOK
  BY DEF LockInv
<1>1. Alone(p) /\ op' = op
  BY <1>0, QuietAlone
<1>2. UNCHANGED <<ptr, idx, idxEnd>>
  BY DEF Quiet, ReadHead, Walk, ReadData, ReadHead2, KeepHead, FreeHead, SeekData, AppendData,
         SeekIndex, fileVars
<1>3. LinkReady(p) /\ Inserting(p) /\ h[p] \in Handles
  BY <1>0 DEF IndexInv, OnlyInserts, TypeOK
<1>4. CASE ReadHead(p) \/ Walk(p) \/ ReadData(p)
  <2>1. pc'[p] \notin KeepStages
    <3>1. \A len : AfterFound(p, len) \in {"readData", "lockBlank", "unlockChain", "overwrite"}
      BY DEF AfterFound
    <3>2. AfterMissed(p) \in {"readHead2", "unlockChain"}
      BY DEF AfterMissed
    <3>3. pc'[p] \in {"walk", "readData", "lockBlank", "unlockChain", "overwrite", "readHead2"}
      BY <1>0, <1>4, <3>1, <3>2 DEF ReadHead, Walk, ReadData, Goto, TypeOK
    <3> QED
      BY <3>3 DEF KeepStages
  <2> QED
    BY <1>1, <1>2, <2>1, LinksDropped, LinksKeep
<1>5. CASE ReadHead2(p)
  <2>1. pc'[p] = "lockFree" /\ h'[p].save = ptr[LinkHeadOff(op[p].key)]
    BY <1>0, <1>3, <1>5 DEF ReadHead2, KeepHead, Goto, TypeOK, Handles
  <2>2. LinkReady(p)'
    BY <1>1, <1>2, <2>1 DEF LinkReady
  <2> QED
    BY <1>1, <1>2, <2>2, LinksKeep
<1>6. CASE FreeHead(p) \/ SeekData(p) \/ AppendData(p) \/ SeekIndex(p)
  <2>1. h'[p].save = h[p].save
    BY <1>0, <1>3, <1>6 DEF FreeHead, SeekData, AppendData, SeekIndex, TypeOK, Handles
  <2>2. /\ pc[p] \in KeepStages
        /\ pc'[p] \in {"unlockFree", "walkFree", "appendData", "unlockData", "appendIndex"}
        /\ pc'[p] = "appendIndex" => SeekIndex(p)
    BY <1>0, <1>6 DEF FreeHead, SeekData, AppendData, SeekIndex, Goto, TypeOK, KeepStages
  <2>3. SeekIndex(p) => h'[p].indexOff = idxEnd
    BY <1>0, <1>3 DEF SeekIndex, TypeOK, Handles
  <2>4. LinkReady(p)'
    BY <1>1, <1>2, <1>3, <2>1, <2>2, <2>3 DEF LinkReady
  <2> QED
    BY <1>1, <1>2, <2>4, LinksKeep
<1> QED
  BY <1>4, <1>5, <1>6 DEF Quiet

LEMMA UnlocksLink ==
  ASSUME TypeOK, IndexInv, NEW p \in Procs, Unlocks(p)
  PROVE  IndexInv'
<1>1. Alone(p) /\ UNCHANGED <<ptr, idx, idxEnd>>
  BY UnlocksAlone DEF fileVars
<1>2. LinkReady(p)
  BY DEF IndexInv
<1>3. CASE UnlockChain(p)
  BY <1>1, <1>3, LinksDropped, LinksKeep DEF UnlockChain, Goto, TypeOK, KeepStages
<1>4. CASE UnlockFree(p) \/ UnlockData(p) \/ UnlockTail(p)
  <2>1. UNCHANGED <<op, h>>
    BY <1>4 DEF UnlockFree, UnlockData, UnlockTail, Unlock
  <2>2. /\ pc[p] \in KeepStages
        /\ pc'[p] \in {"lockData", "reuseData", "lockTail", "writeHead"}
        /\ pc'[p] = "writeHead" => pc[p] = "unlockTail"
    BY <1>4 DEF UnlockFree, UnlockData, UnlockTail, Unlock, Goto, TypeOK, KeepStages
  <2>3. LinkReady(p)'
    BY <1>1, <1>2, <2>1, <2>2 DEF LinkReady
  <2> QED
    BY <1>1, <2>3, LinksKeep
<1> QED
  BY <1>3, <1>4 DEF Unlocks

LEMMA LockingLinks ==
  ASSUME TypeOK, OnlyInserts, IndexInv, NEW p \in Procs, Acquire(p) \/ Await(p)
  PROVE  IndexInv'
<1>1. /\ Alone(p) /\ UNCHANGED <<fileVars, op, h>> /\ pc[p] \in LockStages
      /\ Await(p) => pc' = pc
      /\ Acquire(p) => pc'[p] = AfterLock[pc[p]]
  BY LockingAlone
<1>2. LinkReady(p) /\ Inserting(p)
  BY DEF IndexInv, OnlyInserts
<1>3. pc[p] \in {"lockChain", "lockFree", "lockData", "lockTail"}
  BY <1>1, <1>2 DEF Inserting, InsertStages, KeepStages, Resting, LockStages
<1>4. \/ pc'[p] = pc[p]
      \/ pc[p] = "lockChain" /\ pc'[p] = "readHead"
      \/ pc[p] \in KeepStages /\ pc'[p] \in {"freeHead", "seekData", "seekIndex"}
  BY <1>1, <1>3 DEF AfterLock, LockStages, KeepStages
<1>5. LinkReady(p)'
  BY <1>1, <1>2, <1>4 DEF LinkReady, fileVars, KeepStages
<1> QED
  BY <1>1, <1>5, LinksKeep DEF fileVars

LEMMA DiesLinks ==
  ASSUME TypeOK, IndexInv, NEW p \in Procs, Dies(p)
  PROVE  IndexInv'
BY DiesAlone, LinksDropped, LinksKeep DEF KeepStages, fileVars

\* Every step but those of an append and of WriteHead, beside what the three
\* parts of the invariant have in common.
LEMMA CallLinks ==
  ASSUME InsertsOnly, TypeOK, IndexInv, NEW p \in Procs, Call(p)
  PROVE  IndexInv'
<1>1. CASE NextRec(p) \/ Exit(p) \/ Killed(p)
  BY <1>1, DiesLinks DEF NextRec, Exit, Killed
<1>2. CASE Begins(p)
  BY <1>2, BeginsAlone, LinksDropped, LinksKeep DEF KeepStages, fileVars
<1>3. CASE Close(p)
  BY <1>3, CloseAlone, LinksDropped, LinksKeep DEF KeepStages, fileVars
<1>4. ~BeginDelete(p)
  BY DEF BeginDelete, InsertsOnly
<1> QED
  BY <1>1, <1>2, <1>3, <1>4 DEF Call, Begins

-----------------------------------------------------------------------------
(* The third part is inductive.                                             *)

\* A step that leaves the records and the pending data of the others alone.
LEMMA DataKeeps ==
  ASSUME DataInv, NEW p \in Procs, Alone(p), UNCHANGED <<idx, datEnd>>,
         pc'[p] = "appendData" => h'[p].dataOff = datEnd,
         Pending(p)' => Pending(p) /\ h'[p].dataOff = h[p].dataOff /\ op'[p].len = op[p].len
  PROVE  DataInv'
<1>1. \A q \in Procs \ {p} : pc'[q] = pc[q] /\ op'[q] = op[q] /\ h'[q] = h[q]
  BY DEF Alone, Private
<1>2. \A q \in Procs : Pending(q)' =>
         Pending(q) /\ h'[q].dataOff = h[q].dataOff /\ op'[q].len = op[q].len
  BY <1>1 DEF Pending
<1>3. \A q \in Procs : pc'[q] = "appendData" => h'[q].dataOff = datEnd'
  BY <1>1 DEF DataInv
<1> QED
  BY <1>2, <1>3 DEF DataInv

LEMMA AppendDataKeeps ==
  ASSUME LockInv, OnlyInserts, DataInv, NEW p \in Procs, AppendData(p)
  PROVE  DataInv'
<1>0. TypeOK
  BY DEF LockInv
<1>1. Alone(p) /\ op' = op
  BY <1>0, QuietAlone DEF Quiet
<1>2. /\ h[p].dataOff = datEnd /\ datEnd \in Nat /\ op[p].len \in Nat
  BY <1>0 DEF AppendData, DataInv, TypeOK, Calls
<1>3. datEnd' = datEnd + op[p].len /\ idx' = idx
  BY <1>2 DEF AppendData
<1>4. pc'[p] = "unlockData" /\ h'[p].dataOff = datEnd /\ ~Pending(p) /\ pc[p] = "appendData"
  BY <1>0, <1>2 DEF AppendData, Goto, TypeOK, Handles, Pending
<1>5. \A q \in Procs \ {p} : /\ pc'[q] = pc[q] /\ op'[q] = op[q] /\ h'[q] = h[q]
                             /\ pc[q] # "appendData"
  BY <1>1, <1>4, StoresExclude DEF Alone, Private, KeepStages
<1>6. \A q \in Procs : h[q].dataOff \in Nat /\ op[q].len \in Nat
  BY <1>0 DEF TypeOK, Handles, Calls
<1>7. \A a \in DOMAIN idx : idx[a].off \in Nat /\ idx[a].len \in Nat
  BY <1>0 DEF TypeOK, Records
<1>8. \A q \in Procs \ {p} : Pending(q)' = Pending(q)
  BY <1>5 DEF Pending
<1>9. \A a \in DOMAIN idx' : idx'[a].off + idx'[a].len <= datEnd'
  BY <1>2, <1>3, <1>7 DEF DataInv
<1>10. \A q \in Procs : pc'[q] = "appendData" => h'[q].dataOff = datEnd'
  BY <1>4, <1>5
<1>11. \A q \in Procs : Pending(q)' => h'[q].dataOff + op'[q].len <= datEnd'
  BY <1>1, <1>2, <1>3, <1>4, <1>5, <1>6, <1>8 DEF DataInv
<1>12. \A q \in Procs : \A a \in DOMAIN idx' :
          Pending(q)' => Apart(h'[q].dataOff, op'[q].len, idx'[a].off, idx'[a].len)
  <2>1. \A a \in DOMAIN idx : Apart(datEnd, op[p].len, idx[a].off, idx[a].len)
    BY <1>2, <1>7 DEF DataInv, Apart
  <2> QED
    BY <1>1, <1>3, <1>4, <1>5, <1>8, <2>1 DEF DataInv
<1>13. \A q, r \in Procs : Pending(q)' /\ Pending(r)' /\ q # r
          => Apart(h'[q].dataOff, op'[q].len, h'[r].dataOff, op'[r].len)
  <2>1. \A q \in Procs \ {p} : Pending(q) =>
           /\ Apart(datEnd, op[p].len, h[q].dataOff, op[q].len)
           /\ Apart(h[q].dataOff, op[q].len, datEnd, op[p].len)
    BY <1>2, <1>6 DEF DataInv, Apart
  <2>2. \A q, r \in Procs \ {p} : Pending(q)' /\ Pending(r)' /\ q # r
           => Apart(h'[q].dataOff, op'[q].len, h'[r].dataOff, op'[r].len)
    BY <1>1, <1>5, <1>8 DEF DataInv
  <2> QED
    BY <1>1, <1>4, <1>5, <1>8, <2>1, <2>2
<1>14. \A a, b \in DOMAIN idx' :
          a # b => Apart(idx'[a].off, idx'[a].len, idx'[b].off, idx'[b].len)
  BY <1>3 DEF DataInv
<1> QED
  BY <1>9, <1>10, <1>11, <1>12, <1>13, <1>14 DEF DataInv, Apart

LEMMA AppendIndexData ==
  ASSUME TypeOK, IndexInv, DataInv, NEW p \in Procs, AppendIndex(p)
  PROVE  DataInv'
<1>1. Alone(p) /\ op' = op
  BY QuietAlone DEF Quiet
<1>2. h[p].indexOff = idxEnd /\ Pending(p)
  BY DEF AppendIndex, IndexInv, LinkReady, Pending
<1>3. idxEnd \notin DOMAIN idx
  BY DEF IndexInv, IndexGrows, TypeOK
<1>4. /\ DOMAIN idx' = DOMAIN idx \cup {idxEnd}
      /\ idx'[idxEnd].off = h[p].dataOff /\ idx'[idxEnd].len = op[p].len
      /\ \A a \in DOMAIN idx : idx'[a] = idx[a]
      /\ datEnd' = datEnd
  BY <1>2, <1>3 DEF AppendIndex, PutRecord
<1>5. pc'[p] = "unlockTail" /\ \A q \in Procs \ {p} : pc'[q] = pc[q] /\ h'[q] = h[q]
  BY <1>1 DEF AppendIndex, Goto, TypeOK, Alone, Private
<1>6. /\ ~Pending(p)' /\ \A q \in Procs \ {p} : Pending(q)' = Pending(q)
  BY <1>5 DEF Pending
<1>7. \A o1, n1, o2, n2 : Apart(o1, n1, o2, n2) => Apart(o2, n2, o1, n1)
  BY DEF Apart
<1>8. \A a \in DOMAIN idx' : idx'[a].off + idx'[a].len <= datEnd'
  BY <1>2, <1>4 DEF DataInv
<1>9. \A q \in Procs : /\ pc'[q] = "appendData" => h'[q].dataOff = datEnd'
                       /\ Pending(q)' => h'[q].dataOff + op'[q].len <= datEnd'
  BY <1>1, <1>4, <1>5, <1>6 DEF DataInv
<1>10. \A a, b \in DOMAIN idx' :
          a # b => Apart(idx'[a].off, idx'[a].len, idx'[b].off, idx'[b].len)
  <2>1. \A a \in DOMAIN idx : Apart(idx'[idxEnd].off, idx'[idxEnd].len, idx'[a].off, idx'[a].len)
    BY <1>2, <1>4 DEF DataInv
  <2> QED
    BY <1>4, <1>7, <2>1 DEF DataInv
<1>11. \A q \in Procs : \A a \in DOMAIN idx' :
          Pending(q)' => Apart(h'[q].dataOff, op'[q].len, idx'[a].off, idx'[a].len)
  BY <1>1, <1>2, <1>4, <1>5, <1>6 DEF DataInv
<1>12. \A q, r \in Procs : Pending(q)' /\ Pending(r)' /\ q # r
          => Apart(h'[q].dataOff, op'[q].len, h'[r].dataOff, op'[r].len)
  BY <1>1, <1>5, <1>6 DEF DataInv
<1> QED
  BY <1>8, <1>9, <1>10, <1>11, <1>12 DEF DataInv, Apart

LEMMA QuietData ==
  ASSUME TypeOK, DataInv, NEW p \in Procs, Quiet(p), ~AppendIndex(p), ~AppendData(p)
  PROVE  DataInv'
<1>1. Alone(p) /\ op' = op
  BY QuietAlone
<1>2. UNCHANGED <<idx, datEnd>>
  BY DEF Quiet, ReadHead, Walk, ReadData, ReadHead2, KeepHead, FreeHead, SeekData,
         SeekIndex, WriteHead, WritePtr, fileVars
<1>3. CASE SeekData(p)
  <2>1. pc'[p] = "appendData" /\ h'[p].dataOff = datEnd
    BY <1>3 DEF SeekData, Goto, TypeOK, Handles
  <2> QED
    BY <1>1, <1>2, <2>1, DataKeeps DEF Pending
<1>4. CASE SeekIndex(p)
  <2>1. /\ pc'[p] = "appendIndex" /\ Pending(p) /\ h'[p].dataOff = h[p].dataOff
    BY <1>4 DEF SeekIndex, Goto, TypeOK, Handles, Pending
  <2> QED
    BY <1>1, <1>2, <2>1, DataKeeps
<1>5. CASE ~SeekData(p) /\ ~SeekIndex(p)
  <2>1. pc'[p] \notin {"appendData", "unlockData", "lockTail", "seekIndex", "appendIndex"}
    <3>1. \A len : AfterFound(p, len) \in {"readData", "lockBlank", "unlockChain", "overwrite"}
      BY DEF AfterFound
    <3>2. AfterMissed(p) \in {"readHead2", "unlockChain"}
      BY DEF AfterMissed
    <3>3. CASE ReadHead(p) \/ Walk(p)
      <4>1. pc'[p] \in {"walk", "readData", "lockBlank", "unlockChain", "overwrite", "readHead2"}
        BY <3>1, <3>2, <3>3 DEF ReadHead, Walk, Goto, TypeOK
      <4> QED
        BY <4>1
    <3>4. CASE ReadData(p) \/ ReadHead2(p) \/ FreeHead(p) \/ WriteHead(p)
      BY <3>4 DEF ReadData, ReadHead2, KeepHead, FreeHead, WriteHead, Goto, TypeOK
    <3> QED
      BY <1>5, <3>3, <3>4 DEF Quiet
  <2> QED
    BY <1>1, <1>2, <2>1, DataKeeps DEF Pending
<1> QED
  BY <1>3, <1>4, <1>5

LEMMA UnlocksData ==
  ASSUME TypeOK, DataInv, NEW p \in Procs, Unlocks(p)
  PROVE  DataInv'
<1>1. Alone(p) /\ UNCHANGED <<idx, datEnd>>
  BY UnlocksAlone DEF fileVars
<1>2. CASE UnlockChain(p)
  BY <1>1, <1>2, DataKeeps DEF UnlockChain, Goto, TypeOK, Pending
<1>3. CASE UnlockFree(p) \/ UnlockData(p) \/ UnlockTail(p)
  <2>1. UNCHANGED <<op, h>>
    BY <1>3 DEF UnlockFree, UnlockData, UnlockTail, Unlock
  <2>2. /\ pc'[p] \in {"lockData", "reuseData", "lockTail", "writeHead"}
        /\ pc'[p] = "lockTail" => pc[p] = "unlockData"
    BY <1>3 DEF UnlockFree, UnlockData, UnlockTail, Unlock, Goto, TypeOK
  <2> QED
    BY <1>1, <2>1, <2>2, DataKeeps DEF Pending
<1> QED
  BY <1>2, <1>3 DEF Unlocks

LEMMA LockingData ==
  ASSUME TypeOK, DataInv, NEW p \in Procs, Acquire(p) \/ Await(p)
  PROVE  DataInv'
<1>1. /\ Alone(p) /\ UNCHANGED <<fileVars, op, h>> /\ pc[p] \in LockStages
      /\ Await(p) => pc' = pc
      /\ Acquire(p) => pc'[p] = AfterLock[pc[p]]
  BY LockingAlone
<1>2. /\ Pending(p)' => Pending(p)
      /\ pc'[p] # "appendData"
  BY <1>1 DEF AfterLock, LockStages, Pending
<1> QED
  BY <1>1, <1>2, DataKeeps DEF fileVars

LEMMA DiesData ==
  ASSUME TypeOK, DataInv, NEW p \in Procs, Dies(p)
  PROVE  DataInv'
BY DiesAlone, DataKeeps DEF Pending, fileVars

LEMMA CallData ==
  ASSUME InsertsOnly, TypeOK, DataInv, NEW p \in Procs, Call(p)
  PROVE  DataInv'
<1>1. CASE NextRec(p) \/ Exit(p) \/ Killed(p)
  BY <1>1, DiesData DEF NextRec, Exit, Killed
<1>2. CASE Begins(p)
  BY <1>2, BeginsAlone, DataKeeps DEF Pending, fileVars
<1>3. CASE Close(p)
  BY <1>3, CloseAlone, DataKeeps DEF Pending, fileVars
<1>4. ~BeginDelete(p)
  BY DEF BeginDelete, InsertsOnly
<1> QED
  BY <1>1, <1>2, <1>3, <1>4 DEF Call, Begins

-----------------------------------------------------------------------------
(* The invariant as a whole.                                                *)

InsertInv == Before /\ OnlyInserts /\ IndexInv /\ DataInv

LEMMA InsertInvInit == Init => InsertInv
<1> SUFFICES ASSUME Init PROVE InsertInv
  OBVIOUS
<1>1. Before
  BY LockInvInit, WaitInvInit, PointerInvInit DEF Before
<1>2. \A p \in Procs : /\ pc[p] = "rest" /\ refused[p] = {} /\ wlock[p] = {}
  BY DEF Init, LocksInit
<1>3. OnlyInserts
  <2>1. ptr[FREE_OFF] = 0
    BY DEF Init, HeadOffs
  <2>2. \A p \in Procs : Inserting(p)
    BY <1>2 DEF Inserting, InsertStages, KeepStages, Resting, DataUnlocked
  <2> QED
    BY <2>1, <2>2 DEF OnlyInserts
<1>4. DOMAIN idx = {} /\ idxEnd = RecordsOff /\ RecordsOff \in Nat
  BY DEF Init, RecordsOff, HASH_SIZE, PTR_SIZE
<1>5. IndexInv
  BY <1>2, <1>4 DEF IndexInv, IndexGrows, LinkReady, KeepStages
<1>6. DataInv
  BY <1>2, <1>4 DEF DataInv, Pending
<1> QED
  BY <1>1, <1>3, <1>5, <1>6 DEF InsertInv

LEMMA InsertInvNext == InsertsOnly /\ InsertInv /\ [Next]_vars => InsertInv'
<1> SUFFICES ASSUME InsertsOnly, InsertInv, [Next]_vars PROVE InsertInv'
  OBVIOUS
<1>0. Before /\ OnlyInserts /\ IndexInv /\ DataInv
  BY DEF InsertInv
<1>1. LockInv /\ WaitInv /\ PointerInv /\ TypeOK
  BY <1>0 DEF Before, LockInv
<1>2. Before'
  BY <1>1, LockInvNext, WaitInvNext, PointerInvNext DEF Before
<1>3. TypeOK'
  BY <1>2 DEF Before, LockInv
<1>4. CASE UNCHANGED vars
  <2>1. OnlyInserts'
    BY <1>0, <1>4 DEF vars, OnlyInserts, Inserting, DataUnlocked
  <2>2. IndexInv'
    BY <1>0, <1>4 DEF vars, IndexInv, IndexGrows, LinkReady
  <2>3. DataInv'
    BY <1>0, <1>4 DEF vars, DataInv, Pending
  <2> QED
    BY <1>2, <2>1, <2>2, <2>3 DEF InsertInv
<1>5. ASSUME NEW p \in Procs, Call(p) \/ Work(p) \/ Locking(p) PROVE InsertInv'
  <2>1. CASE Call(p)
    BY <1>0, <1>1, <1>2, <1>3, <2>1, CallInserts, CallLinks, CallData DEF InsertInv
  <2>2. CASE Locking(p)
    <3>1. Acquire(p) \/ Await(p)
      BY <1>0, <1>1, <2>2, NothingLeaks, RefusedByLeak DEF Locking
    <3> QED
      BY <1>0, <1>1, <1>2, <1>3, <2>2, <3>1, LockingInserts, LockingLinks, LockingData
      DEF InsertInv
  <2>3. CASE Segv(p)
    <3>1. Dies(p)
      BY <2>3 DEF Segv
    <3> QED
      BY <1>0, <1>1, <1>2, <3>1, DiesInserts, DiesLinks, DiesData DEF InsertInv
  <2>4. CASE Unlocks(p)
    BY <1>0, <1>1, <1>2, <1>3, <2>4, UnlocksInsert, UnlocksLink, UnlocksData DEF InsertInv
  <2>5. CASE Quiet(p)
    <3>1. OnlyInserts'
      BY <1>0, <1>1, <1>3, <2>5, QuietInserts
    <3>2. IndexInv'
      BY <1>0, <1>1, <2>5, AppendIndexLinks, WriteHeadLinks, QuietLinks
    <3>3. DataInv'
      BY <1>0, <1>1, <2>5, AppendDataKeeps, AppendIndexData, QuietData
    <3> QED
      BY <1>2, <3>1, <3>2, <3>3 DEF InsertInv
  <2> QED
    BY <1>0, <1>5, <2>1, <2>2, <2>3, <2>4, <2>5, InsertWork
<1> QED
  BY <1>4, <1>5 DEF Next, Terminated

\* While nothing is deleted no two records share a byte of the data file,
\* whoever is killed (hmdb.c:357-385): appends to it exclude one another.
THEOREM InsertedDataDisjoint ==
  ASSUME InsertsOnly
  PROVE  Spec => []LiveDataDisjoint
<1>1. Init => InsertInv
  BY InsertInvInit
<1>2. InsertInv /\ [Next]_vars => InsertInv'
  BY InsertInvNext
<1>3. InsertInv => LiveDataDisjoint
  <2> SUFFICES ASSUME InsertInv, NEW a \in DOMAIN idx, NEW b \in DOMAIN idx, a # b
               PROVE  ~Overlap(idx[a].off, idx[a].len, idx[b].off, idx[b].len)
    BY DEF LiveDataDisjoint
  <2>1. Apart(idx[a].off, idx[a].len, idx[b].off, idx[b].len)
    BY DEF InsertInv, DataInv
  <2>2. idx[a] \in Records /\ idx[b] \in Records
    BY DEF InsertInv, Before, LockInv, TypeOK
  <2> QED
    BY <2>1, <2>2 DEF Apart, Overlap, Records
<1> QED
  BY <1>1, <1>2, <1>3, PTL DEF Spec

-----------------------------------------------------------------------------
(* The refinement.  KeysFrom is defined by recursion over the records; that *)
(* such a function exists is carried along as an invariant, and that there  *)
(* is only one follows from the records pointing backwards.                 *)

AreWalks(f, records) ==
  f = [a \in DOMAIN records \cup {0} |->
         IF a = 0 THEN <<>> ELSE <<records[a].key>> \o f[records[a].next]]

WalksExist == \E f : AreWalks(f, idx)

LEMMA KeysFromWalks == WalksExist => AreWalks(KeysFrom, idx)
BY DEF WalksExist, AreWalks, KeysFrom

LEMMA WalksInit == Init => WalksExist /\ KeysFrom[0] = <<>>
<1> SUFFICES ASSUME Init PROVE WalksExist /\ KeysFrom[0] = <<>>
  OBVIOUS
<1>1. DOMAIN idx = {}
  BY DEF Init
<1>2. AreWalks([a \in {0} |-> <<>>], idx)
  BY <1>1 DEF AreWalks
<1>3. WalksExist
  BY <1>2 DEF WalksExist
<1>4. AreWalks(KeysFrom, idx)
  BY <1>3, KeysFromWalks
<1> QED
  BY <1>3, <1>4 DEF AreWalks

\* A step that leaves the records alone.
LEMMA WalksKeep ==
  ASSUME WalksExist, idx' = idx
  PROVE  WalksExist' /\ KeysFrom' = KeysFrom
BY DEF WalksExist, AreWalks, KeysFrom

\* What a function of this kind is at a record.
LEMMA WalkAt ==
  ASSUME NEW f, AreWalks(f, idx), NEW a \in DOMAIN idx, a # 0
  PROVE  f[a] = <<idx[a].key>> \o f[idx[a].next]
BY DEF AreWalks

\* An append adds a walk, and changes none.
LEMMA WalksGrow ==
  ASSUME TypeOK, PointerInv, IndexInv, IndexInv', WalksExist, NEW p \in Procs, AppendIndex(p)
  PROVE  /\ WalksExist'
         /\ \A a \in DOMAIN idx \cup {0} : KeysFrom'[a] = KeysFrom[a]
<1>1. h[p].indexOff = idxEnd /\ idxEnd \notin DOMAIN idx /\ idxEnd # 0
  BY DEF AppendIndex, IndexInv, IndexGrows, LinkReady, TypeOK, RecordsOff, HASH_SIZE, PTR_SIZE
<1>2. /\ DOMAIN idx' = DOMAIN idx \cup {idxEnd}
      /\ idx'[idxEnd].next = h[p].save
      /\ \A a \in DOMAIN idx : idx'[a] = idx[a]
  BY <1>1 DEF AppendIndex, PutRecord
<1>3. /\ h[p].save \in DOMAIN idx \cup {0}
      /\ \A a \in DOMAIN idx : idx[a].next \in DOMAIN idx \cup {0}
  BY DEF PointerInv, PointersResolve, HandlesResolve, HandleResolves, Resolved
<1>4. PICK f : AreWalks(f, idx)
  BY DEF WalksExist
<1> DEFINE g == [a \in DOMAIN idx' \cup {0} |->
                   IF a = idxEnd THEN <<idx'[idxEnd].key>> \o f[h[p].save] ELSE f[a]]
<1>5. AreWalks(g, idx')
  <2>1. \A a \in DOMAIN idx \cup {0} : g[a] = f[a]
    BY <1>1, <1>2
  <2>2. g[idxEnd] = <<idx'[idxEnd].key>> \o f[h[p].save]
    BY <1>2
  <2>3. ASSUME NEW a \in DOMAIN idx' \cup {0}
        PROVE  g[a] = IF a = 0 THEN <<>> ELSE <<idx'[a].key>> \o g[idx'[a].next]
    <3> HIDE DEF g
    <3>1. CASE a = idxEnd
      <4>1. g[idx'[idxEnd].next] = f[h[p].save]
        BY <1>2, <1>3, <2>1
      <4> QED
        BY <1>1, <2>2, <3>1, <4>1
    <3>2. CASE a = 0
      BY <1>4, <2>1, <3>2 DEF AreWalks
    <3>3. CASE a \in DOMAIN idx /\ a # 0
      <4>1. g[a] = f[a] /\ g[idx[a].next] = f[idx[a].next] /\ idx'[a] = idx[a]
        BY <1>2, <1>3, <2>1, <3>3
      <4>2. f[a] = <<idx[a].key>> \o f[idx[a].next]
        BY <1>4, <3>3, WalkAt
      <4> QED
        BY <3>3, <4>1, <4>2
    <3> QED
      BY <1>2, <3>1, <3>2, <3>3
  <2>4. g = [a \in DOMAIN idx' \cup {0} |-> g[a]]
    OBVIOUS
  <2>5. g = [a \in DOMAIN idx' \cup {0} |->
               IF a = 0 THEN <<>> ELSE <<idx'[a].key>> \o g[idx'[a].next]]
    <3> HIDE DEF g
    <3> QED
      BY <2>3, <2>4
  <2> HIDE DEF g
  <2> QED
    BY <2>5 DEF AreWalks
<1> HIDE DEF g
<1>6. WalksExist'
  BY <1>5 DEF WalksExist
<1>7. AreWalks(KeysFrom, idx) /\ AreWalks(KeysFrom', idx')
  <2>1. WalksExist' => AreWalks(KeysFrom', idx')
    BY DEF WalksExist, AreWalks, KeysFrom
  <2> QED
    BY <1>6, <2>1, KeysFromWalks
<1>8. \A a \in DOMAIN idx \cup {0} : KeysFrom'[a] = KeysFrom[a]
  <2> DEFINE T == {a \in DOMAIN idx : KeysFrom'[a] # KeysFrom[a]}
  <2>1. ASSUME T # {} PROVE FALSE
    <3>1. T \in SUBSET Nat
      BY DEF TypeOK
    <3>2. PICK m \in T : \A n \in T : m <= n
      BY <2>1, <3>1, LeastNatural
    <3>3. m # 0 /\ idx[m].next < m /\ idx[m].next \notin T /\ m \in DOMAIN idx
      <4>1. m # 0 /\ idx[m].next < m /\ m \in Nat /\ idx[m].next \in Nat /\ m \in DOMAIN idx
        BY <3>1, <3>2 DEF IndexInv, IndexGrows, TypeOK, Records
      <4> HIDE DEF T
      <4> QED
        BY <3>2, <4>1
    <3>4. KeysFrom'[idx[m].next] = KeysFrom[idx[m].next]
      <4>1. CASE idx[m].next = 0
        BY <1>7, <4>1 DEF AreWalks
      <4>2. CASE idx[m].next \in DOMAIN idx
        BY <3>3, <4>2
      <4> QED
        BY <1>3, <3>3, <4>1, <4>2
    <3>5. KeysFrom[m] = <<idx[m].key>> \o KeysFrom[idx[m].next]
      BY <1>7, <3>3, WalkAt
    <3>6. KeysFrom'[m] = <<idx'[m].key>> \o KeysFrom'[idx'[m].next]
      BY <1>2, <1>7, <3>3 DEF AreWalks
    <3> QED
      BY <1>2, <3>2, <3>3, <3>4, <3>5, <3>6
  <2>2. KeysFrom'[0] = KeysFrom[0]
    BY <1>7 DEF AreWalks
  <2> QED
    BY <2>1, <2>2
<1> QED
  BY <1>6, <1>8

\* Everything but AppendIndex leaves the records alone, and everything but
\* WriteHead the pointers.
LEMMA FilesChange ==
  ASSUME InsertsOnly, InsertInv, NEW p \in Procs, Call(p) \/ Work(p) \/ Locking(p)
  PROVE  /\ AppendIndex(p) \/ idx' = idx
         /\ WriteHead(p) \/ ptr' = ptr
<1>0. TypeOK /\ OnlyInserts /\ LockInv /\ WaitInv
  BY DEF InsertInv, Before, LockInv
<1>1. CASE Call(p)
  <2>1. ~BeginDelete(p)
    BY DEF BeginDelete, InsertsOnly
  <2> QED
    BY <1>0, <1>1, <2>1, DiesAlone, BeginsAlone, CloseAlone
    DEF Call, Begins, NextRec, Exit, Killed, fileVars
<1>2. CASE Locking(p)
  BY <1>0, <1>2, NothingLeaks, RefusedByLeak, LockingAlone DEF Locking, fileVars
<1>3. CASE Segv(p) \/ Unlocks(p)
  BY <1>0, <1>3, DiesAlone, UnlocksAlone DEF Segv, fileVars
<1>4. CASE Quiet(p)
  BY <1>4 DEF Quiet, ReadHead, Walk, ReadData, ReadHead2, KeepHead, FreeHead, SeekData,
              AppendData, SeekIndex, AppendIndex, WriteHead, WritePtr, PutRecord, fileVars
<1> QED
  BY <1>0, <1>1, <1>2, <1>3, <1>4, InsertWork

Heads == {LinkHeadOff(k) : k \in Keys}
ChainsNow == [c \in Heads |-> KeysFrom[ptr[c]]]

\* The write of a head puts one key in front of one chain.
LEMMA WriteHeadInserts ==
  ASSUME InsertInv, WalksExist, NEW p \in Procs, WriteHead(p)
  PROVE  /\ op[p].key \in Keys
         /\ Index!Insert(op[p].key)
<1>0. TypeOK /\ IndexInv
  BY DEF InsertInv, Before, LockInv
<1>1. op[p].key \in Keys /\ LinkHeadOff(op[p].key) \in Heads
  BY <1>0 DEF WriteHead, TypeOK, Resting, Heads
<1>2. /\ h[p].indexOff \in DOMAIN idx /\ idx[h[p].indexOff].key = op[p].key
      /\ idx[h[p].indexOff].next = ptr[LinkHeadOff(op[p].key)]
      /\ h[p].indexOff # 0
  BY <1>0 DEF WriteHead, IndexInv, IndexGrows, LinkReady, KeepStages
<1>3. KeysFrom[h[p].indexOff] = <<op[p].key>> \o KeysFrom[ptr[LinkHeadOff(op[p].key)]]
  BY <1>2, KeysFromWalks, WalkAt
<1>4. /\ KeysFrom' = KeysFrom
      /\ ptr' = [ptr EXCEPT ![LinkHeadOff(op[p].key)] = h[p].indexOff]
  BY WalksKeep DEF WriteHead, WritePtr
<1>5. ASSUME NEW c \in Heads
      PROVE  KeysFrom'[ptr'[c]] =
               IF c = LinkHeadOff(op[p].key) THEN <<op[p].key>> \o KeysFrom[ptr[c]]
                                             ELSE KeysFrom[ptr[c]]
  <2>1. c \in HeadOffs
    BY DEF Heads, HeadOffs
  <2>2. ptr'[c] = IF c = LinkHeadOff(op[p].key) THEN h[p].indexOff ELSE ptr[c]
    BY <1>0, <1>4, <2>1 DEF TypeOK
  <2>3. KeysFrom'[ptr'[c]] = KeysFrom[ptr'[c]]
    BY <1>4
  <2>4. CASE c = LinkHeadOff(op[p].key)
    <3>1. KeysFrom[ptr'[c]] = <<op[p].key>> \o KeysFrom[ptr[c]]
      BY <1>3, <2>2, <2>4
    <3> QED
      BY <2>3, <2>4, <3>1
  <2>5. CASE c # LinkHeadOff(op[p].key)
    BY <2>2, <2>3, <2>5
  <2> QED
    BY <2>4, <2>5
<1>6. ChainsNow' = [ChainsNow EXCEPT ![LinkHeadOff(op[p].key)] = <<op[p].key>> \o @]
  BY <1>1, <1>5 DEF ChainsNow, Heads
<1> QED
  BY <1>1, <1>6 DEF Index!Insert, ChainsNow, Heads

\* No other step shows.
LEMMA OthersStutter ==
  ASSUME InsertInv, InsertInv', WalksExist, NEW p \in Procs, ptr' = ptr,
         AppendIndex(p) \/ idx' = idx
  PROVE  ChainsNow' = ChainsNow /\ WalksExist'
<1>1. TypeOK /\ PointerInv /\ IndexInv /\ IndexInv'
  BY DEF InsertInv, Before, LockInv
<1>2. /\ WalksExist'
      /\ \A a \in DOMAIN idx \cup {0} : KeysFrom'[a] = KeysFrom[a]
  BY <1>1, WalksGrow, WalksKeep
<1>3. \A c \in Heads : ptr[c] \in DOMAIN idx \cup {0}
  BY <1>1 DEF PointerInv, PointersResolve, Heads, HeadOffs
<1> QED
  BY <1>2, <1>3 DEF ChainsNow, Heads

\* For any number of processes and keys: while nothing is deleted every step of
\* the index, kills included, is the insertion of one key into one chain or none,
\* and what HMDB_Store inserts is the key of its caller (hmdb.c:695-735).
THEOREM InsertsImplementChains ==
  ASSUME InsertsOnly
  PROVE  Spec => ImplementsChains
<1> DEFINE Inv == InsertInv /\ WalksExist
<1>1. Init => Inv /\ Index!Init
  <2> SUFFICES ASSUME Init PROVE Inv /\ Index!Init
    OBVIOUS
  <2>1. Inv /\ KeysFrom[0] = <<>>
    BY InsertInvInit, WalksInit
  <2>2. \A k \in Keys : ptr[LinkHeadOff(k)] = 0
    BY DEF Init, HeadOffs
  <2> QED
    BY <2>1, <2>2 DEF Index!Init
<1>2. ASSUME Inv, [Next]_vars
      PROVE  /\ Inv'
             /\ \/ \E p \in Procs : WriteHead(p) /\ op[p].key \in Keys /\ Index!Insert(op[p].key)
                \/ ChainsNow' = ChainsNow
  <2>1. InsertInv'
    BY <1>2, InsertInvNext
  <2>2. CASE UNCHANGED vars
    <3>1. ptr' = ptr /\ idx' = idx
      BY <2>2 DEF vars
    <3>2. WalksExist' /\ KeysFrom' = KeysFrom
      BY <1>2, <3>1, WalksKeep
    <3> QED
      BY <2>1, <3>1, <3>2 DEF ChainsNow, Heads
  <2>3. ASSUME NEW p \in Procs, Call(p) \/ Work(p) \/ Locking(p)
        PROVE  /\ Inv'
               /\ \/ WriteHead(p) /\ op[p].key \in Keys /\ Index!Insert(op[p].key)
                  \/ ChainsNow' = ChainsNow
    <3>1. (AppendIndex(p) \/ idx' = idx) /\ (WriteHead(p) \/ ptr' = ptr)
      BY <1>2, <2>3, FilesChange
    <3>2. CASE WriteHead(p)
      <4>1. idx' = idx
        BY <3>2 DEF WriteHead, WritePtr
      <4> QED
        BY <1>2, <2>1, <3>2, <4>1, WriteHeadInserts, WalksKeep
    <3>3. CASE ptr' = ptr
      BY <1>2, <2>1, <3>1, <3>3, OthersStutter
    <3> QED
      BY <3>1, <3>2, <3>3
  <2> QED
    BY <1>2, <2>2, <2>3 DEF Next, Terminated
<1>3. ASSUME Inv, [Next]_vars
      PROVE  [Index!Next]_([c \in {LinkHeadOff(k) : k \in Keys} |-> KeysFrom[ptr[c]]])
  <2>1. CASE \E p \in Procs : WriteHead(p) /\ op[p].key \in Keys /\ Index!Insert(op[p].key)
    <3>1. PICK p \in Procs : op[p].key \in Keys /\ Index!Insert(op[p].key)
      BY <2>1
    <3>2. Index!Next
      BY <3>1 DEF Index!Next, Index!Insert
    <3> QED
      BY <3>2
  <2>2. CASE ChainsNow' = ChainsNow
    BY <2>2 DEF ChainsNow, Heads
  <2> QED
    BY <1>2, <1>3, <2>1, <2>2
<1>4. ASSUME Inv, [Next]_vars
      PROVE  [\A p \in Procs : WriteHead(p) => Index!Insert(op[p].key)]_vars
  BY <1>4, WriteHeadInserts
<1> HIDE DEF Inv
<1> QED
  BY <1>1, <1>2, <1>3, <1>4, PTL DEF Spec, ImplementsChains, Index!Spec

=============================================================================
