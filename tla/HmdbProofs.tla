----------------------------- MODULE HmdbProofs -----------------------------
(***************************************************************************)
(* Proofs about Hmdb, for any number of processes, keys and records.       *)
(***************************************************************************)
EXTENDS Hmdb, FiniteSetTheorems, TLAPS

-----------------------------------------------------------------------------
(* The lock table keeps its type.                                           *)

\* An unlock leaves the lock table well formed.
LEMMA ReleaseType ==
  ASSUME LocksTypeOK(Byte), NEW p \in Procs, NEW B, Release(p, B)
  PROVE  LocksTypeOK(Byte)'
<1>1. rlock' \in [Procs -> SUBSET Byte] /\ wlock' \in [Procs -> SUBSET Byte]
  BY DEF LocksTypeOK, Release
<1>2. blocker' \in [Procs -> Procs] /\ want' \in [Procs -> SUBSET Byte]
  BY DEF LocksTypeOK, Release
<1> QED
  BY <1>1, <1>2 DEF LocksTypeOK

\* The exit of a process leaves the lock table well formed.
LEMMA VanishType ==
  ASSUME LocksTypeOK(Byte), NEW p \in Procs, Vanish(p)
  PROVE  LocksTypeOK(Byte)'
<1>1. rlock' \in [Procs -> SUBSET Byte] /\ wlock' \in [Procs -> SUBSET Byte]
  BY DEF LocksTypeOK, Vanish
<1>2. blocker' \in [Procs -> Procs] /\ want' \in [Procs -> SUBSET Byte]
  BY DEF LocksTypeOK, Vanish
<1> QED
  BY <1>1, <1>2 DEF LocksTypeOK

\* A request that is granted, waits or is refused leaves it well formed.
LEMMA LockType ==
  ASSUME LocksTypeOK(Byte), NEW p \in Procs, NEW B \in SUBSET Byte, NEW mode,
         LockGranted(p, B, mode) \/ LockWaits(p, B, mode) \/ LockRefused(p, B, mode)
  PROVE  LocksTypeOK(Byte)'
<1>1. CASE LockGranted(p, B, mode)
  BY <1>1 DEF LocksTypeOK, LockGranted
<1>2. CASE LockWaits(p, B, mode)
  <2>1. PICK q \in Holders(p, B, mode) : blocker' = [blocker EXCEPT ![p] = q]
    BY <1>2 DEF LockWaits
  <2>2. q \in Procs
    BY DEF Holders
  <2> QED
    BY <1>2, <2>1, <2>2 DEF LocksTypeOK, LockWaits
<1>3. CASE LockRefused(p, B, mode)
  BY <1>3 DEF LocksTypeOK, LockRefused, lockVars
<1> QED
  BY <1>1, <1>2, <1>3

\* The head of a key's chain is an offset behind the free pointer and before
\* the records.
LEMMA HeadOff ==
  ASSUME NEW k \in Keys
  PROVE  /\ LinkHeadOff(k) \in Nat
         /\ LinkHeadOff(k) # FREE_OFF
         /\ LinkHeadOff(k) # RecordsOff
         /\ LinkHeadOff(k) \in HeadOffs
BY HashApart DEF LinkHeadOff, HASH_OFF, FREE_OFF, RecordsOff, HASH_SIZE, PTR_SIZE,
                 HeadOffs

\* What an operation asks to lock are bytes of the two files.
LEMMA RequestType ==
  ASSUME TypeOK, NEW p \in Procs, pc[p] \in LockStages
  PROVE  Request(p) \in SUBSET Byte
<1>1. op[p].key \in Keys
  BY DEF TypeOK, LockStages, Resting
<1>2. LinkHeadOff(op[p].key) \in Nat
  BY <1>1, HeadOff
<1>3. h[p].dataOff \in Nat
  BY DEF TypeOK, Handles
<1>4. FREE_OFF \in Nat /\ RecordsOff \in Nat
  BY DEF FREE_OFF, RecordsOff, HASH_SIZE, PTR_SIZE
<1>5. DatBytes \subseteq Byte
  BY DEF DatBytes, Byte
<1> QED
  BY <1>2, <1>3, <1>4, <1>5
  DEF Request, LockStages, ChainByte, FreeByte, TailByte, Byte

-----------------------------------------------------------------------------
(* Type correctness.                                                        *)

\* TypeOK of the files, of the processes, and of a process that rests.
FilesOK ==
  /\ ptr \in [HeadOffs -> Nat]
  /\ DOMAIN idx \subseteq Nat
  /\ idx \in [DOMAIN idx -> Records]
  /\ idxEnd \in Nat /\ datEnd \in Nat

ProcsOK ==
  /\ pc \in [Procs -> Stages]
  /\ op \in [Procs -> Calls]
  /\ \A p \in Procs : pc[p] \notin Resting => op[p].key \in Keys
  /\ h \in [Procs -> Handles]
  /\ buf \in [Procs -> Texts]
  /\ refused \in [Procs -> SUBSET LockStages]

LEMMA TypeParts == TypeOK <=> FilesOK /\ ProcsOK /\ LocksTypeOK(Byte)
BY DEF TypeOK, FilesOK, ProcsOK

\* Writing a record keeps the files and the buffers well formed.
LEMMA PutRecordType ==
  ASSUME TypeOK, NEW p \in Procs, NEW off \in Nat, NEW k \in Keys \cup {Blank},
         NEW len \in Nat, NEW next \in Nat, PutRecord(p, off, k, len, next)
  PROVE  FilesOK' /\ buf' \in [Procs -> Texts]
<1> DEFINE r == [key |-> k, off |-> h[p].dataOff, len |-> len, next |-> next]
<1>1. h[p].dataOff \in Nat
  BY DEF TypeOK, Handles
<1>2. r \in Records
  BY <1>1 DEF Records
<1>3. idx' = [a \in DOMAIN idx \cup {off} |-> IF a = off THEN r ELSE idx[a]]
  BY DEF PutRecord
<1> HIDE DEF r
<1>4. DOMAIN idx' \subseteq Nat /\ idx' \in [DOMAIN idx' -> Records]
  BY <1>2, <1>3 DEF TypeOK
<1>5. RecLen \in Nat
  BY Parameters
<1>6. idxEnd' \in Nat
  BY <1>5 DEF PutRecord, TypeOK
<1>7. Text(k, h[p].dataOff, len) \in Texts
  BY <1>1 DEF Text, Texts
<1>8. buf' \in [Procs -> Texts]
  BY <1>7 DEF PutRecord, TypeOK
<1> QED
  BY <1>4, <1>6, <1>8 DEF PutRecord, TypeOK, FilesOK

\* The initial state is well formed.
LEMMA TypeInit == Init => TypeOK
<1> SUFFICES ASSUME Init PROVE TypeOK
  OBVIOUS
<1>1. FilesOK
  <2>1. RecordsOff \in Nat
    BY DEF RecordsOff, HASH_SIZE, PTR_SIZE
  <2>2. idx = [o \in {} |-> 0] /\ DOMAIN idx = {}
    BY DEF Init
  <2>3. idx \in [DOMAIN idx -> Records]
    BY <2>2
  <2> QED
    BY <2>1, <2>2, <2>3 DEF Init, FilesOK
<1>2. ProcsOK
  <2>1. NoOp \in Calls
    BY DEF NoOp, Calls
  <2>2. FreshHandle \in Handles
    BY DEF FreshHandle, Handles
  <2>3. NoText \in Texts
    BY DEF NoText, Texts
  <2>4. "rest" \in Stages /\ "rest" \in Resting
    BY DEF Stages, Resting
  <2> QED
    BY <2>1, <2>2, <2>3, <2>4 DEF Init, ProcsOK
<1>3. LocksTypeOK(Byte)
  BY DEF Init, LocksInit, LocksTypeOK
<1> QED
  BY <1>1, <1>2, <1>3, TypeParts

\* A process that dies leaves everything well formed.
LEMMA DiesType ==
  ASSUME TypeOK, NEW p \in Procs, Dies(p)
  PROVE  TypeOK'
<1>1. NoOp \in Calls
  BY DEF NoOp, Calls
<1>2. FreshHandle \in Handles
  BY DEF FreshHandle, Handles
<1>3. NoText \in Texts
  BY DEF NoText, Texts
<1>4. "dead" \in Stages /\ "dead" \in Resting
  BY DEF Stages, Resting
<1>5. ProcsOK'
  BY <1>1, <1>2, <1>3, <1>4 DEF Dies, TypeOK, ProcsOK
<1>6. FilesOK'
  BY DEF Dies, TypeOK, FilesOK, fileVars
<1>7. LocksTypeOK(Byte)'
  BY VanishType DEF Dies, TypeOK
<1> QED
  BY <1>5, <1>6, <1>7, TypeParts DEF TypeOK, FilesOK, ProcsOK

\* What a call does keeps everything well formed.
LEMMA BeginType ==
  ASSUME TypeOK, NEW p \in Procs, NEW call \in Calls, call.key \in Keys, Begin(p, call)
  PROVE  TypeOK'
<1>1. "lockChain" \in Stages
  BY DEF Stages
<1>2. ProcsOK'
  BY <1>1 DEF Begin, Goto, TypeOK, ProcsOK
<1> QED
  BY <1>2, TypeParts DEF Begin, TypeOK, FilesOK, LocksTypeOK, fileVars, lockVars, ProcsOK

LEMMA CallType ==
  ASSUME TypeOK, NEW p \in Procs, Call(p)
  PROVE  TypeOK'
<1>1. CASE BeginFetch(p)
  <2>1. PICK k \in Keys :
           Begin(p, [kind |-> "fetch", key |-> k, len |-> 0, flag |-> "none"])
    BY <1>1 DEF BeginFetch
  <2> QED
    BY <2>1, BeginType DEF Calls
<1>2. CASE BeginDelete(p)
  <2>1. PICK k \in Keys :
           Begin(p, [kind |-> "delete", key |-> k, len |-> 0, flag |-> "none"])
    BY <1>2 DEF BeginDelete
  <2> QED
    BY <2>1, BeginType DEF Calls
<1>3. CASE BeginStore(p)
  <2>1. PICK k \in Keys, n \in Lens, f \in Flags :
           Begin(p, [kind |-> "store", key |-> k, len |-> n, flag |-> f])
    BY <1>3 DEF BeginStore
  <2>2. n \in Nat /\ f \in {"none", "insert", "replace", "store"}
    BY Parameters DEF DATALEN_MIN, DATALEN_MAX
  <2> QED
    BY <2>1, <2>2, BeginType DEF Calls
<1>4. CASE NextRec(p) \/ Exit(p) \/ Killed(p)
  BY <1>4, DiesType DEF NextRec, Exit, Killed
<1>5. CASE Close(p)
  <2>1. NoText \in Texts
    BY DEF NoText, Texts
  <2>2. "closed" \in Stages /\ "closed" \in Resting
    BY DEF Stages, Resting
  <2>3. ProcsOK'
    BY <1>5, <2>1, <2>2 DEF Close, Goto, TypeOK, ProcsOK
  <2>4. LocksTypeOK(Byte)'
    BY <1>5, ReleaseType DEF Close, TypeOK
  <2> QED
    BY <1>5, <2>3, <2>4, TypeParts DEF Close, TypeOK, FilesOK, fileVars, ProcsOK
<1> QED
  BY <1>1, <1>2, <1>3, <1>4, <1>5 DEF Call

\* A step inside an operation that goes on keeps the processes well formed.
LEMMA MoveType ==
  ASSUME TypeOK, NEW p \in Procs, NEW s \in ChainSection,
         pc[p] \notin Resting, Goto(p, s), op' = op, refused' = refused,
         h' \in [Procs -> Handles], buf' \in [Procs -> Texts]
  PROVE  ProcsOK'
<1>1. s \in Stages
  BY DEF Stages
<1> QED
  BY <1>1 DEF Goto, TypeOK, ProcsOK

\* Hmdb_ReadIndex keeps the handle and its buffer well formed.
LEMMA ParseType ==
  ASSUME TypeOK, NEW p \in Procs, NEW hit \in BOOLEAN, ParseBuffer(p, hit)
  PROVE  h' \in [Procs -> Handles] /\ buf' \in [Procs -> Texts]
<1>1. h[p] \in Handles /\ buf[p] \in Texts
  BY DEF TypeOK
<1>2. [h[p] EXCEPT !.walk = IF hit THEN h[p].walk ELSE 0, !.next = 0,
                   !.indexOff = h[p].walk,
                   !.dataOff = buf[p].off, !.dataLen = buf[p].len] \in Handles
  BY <1>1 DEF Handles, Texts
<1>3. NoText \in Texts
  BY DEF NoText, Texts
<1> QED
  BY <1>2, <1>3 DEF ParseBuffer, TypeOK

\* The steps that read the files.
LEMMA ReadType ==
  ASSUME TypeOK, NEW p \in Procs,
         \/ ReadHead(p) \/ Walk(p) \/ ReadData(p) \/ ReadFree(p) \/ RereadHead(p)
         \/ ReadHead2(p) \/ Overwrite(p) \/ FreeHead(p) \/ WalkFree(p)
         \/ ReuseData(p) \/ SeekData(p) \/ SeekIndex(p)
  PROVE  TypeOK'
<1> USE DEF TypeOK, Goto
<1>0. h[p] \in Handles /\ op[p] \in Calls
  OBVIOUS
<1>1. UNCHANGED <<fileVars, op, refused, lockVars>>
  BY DEF ReadHead, Walk, ReadData, ReadFree, RereadHead, ReadHead2, KeepHead,
         Overwrite, FreeHead, WalkFree, ReuseData, SeekData, SeekIndex
<1>2. pc[p] \notin Resting
  BY DEF ReadHead, Walk, ReadData, ReadFree, RereadHead, ReadHead2, KeepHead,
         Overwrite, FreeHead, WalkFree, ReuseData, SeekData, SeekIndex, Resting
<1>3. \A len : AfterFound(p, len) \in ChainSection
  BY DEF AfterFound, ChainSection, LockStages
<1>4. AfterMissed(p) \in ChainSection
  BY DEF AfterMissed, ChainSection
<1>5. \E s \in ChainSection : Goto(p, s)
  BY <1>3, <1>4
  DEF ReadHead, Walk, ReadData, ReadFree, RereadHead, ReadHead2, KeepHead,
      Overwrite, FreeHead, WalkFree, ReuseData, SeekData, SeekIndex,
      ChainSection, LockStages, FreeSection, DataSection, TailSection
<1>6. ptr[FREE_OFF] \in Nat
  BY DEF HeadOffs
<1>7. ptr[LinkHeadOff(op[p].key)] \in Nat
  BY <1>2, HeadOff
<1>8. h' \in [Procs -> Handles] /\ buf' \in [Procs -> Texts]
  <2>1. CASE Walk(p) \/ WalkFree(p)
    <3>1. \E hit \in BOOLEAN : ParseBuffer(p, hit)
      BY <2>1 DEF Walk, WalkFree, Fits
    <3> QED
      BY <3>1, ParseType
  <2>2. CASE ReadHead(p) \/ FreeHead(p)
    BY <1>0, <1>6, <1>7, <2>2 DEF ReadHead, FreeHead, Handles
  <2>3. CASE ReadData(p) \/ Overwrite(p)
    BY <2>3 DEF ReadData, Overwrite
  <2>4. CASE ReadFree(p)
    BY <1>0, <1>6, <2>4 DEF ReadFree, Handles
  <2>5. CASE RereadHead(p) \/ ReadHead2(p)
    <3>1. h' = [h EXCEPT ![p].save = ptr[LinkHeadOff(op[p].key)]] /\ buf' = buf
      BY <2>5 DEF RereadHead, ReadHead2, KeepHead
    <3>2. [h[p] EXCEPT !.save = ptr[LinkHeadOff(op[p].key)]] \in Handles
      BY <1>0, <1>7 DEF Handles
    <3> QED
      BY <3>1, <3>2
  <2>6. CASE ReuseData(p)
    BY <1>0, <2>6 DEF ReuseData, Handles, Calls
  <2>7. CASE SeekData(p) \/ SeekIndex(p)
    <3>1. datEnd \in Nat /\ idxEnd \in Nat
      OBVIOUS
    <3>2. CASE SeekData(p)
      BY <1>0, <3>1, <3>2 DEF SeekData, Handles
    <3>3. CASE SeekIndex(p)
      BY <1>0, <3>1, <3>3 DEF SeekIndex, Handles
    <3> QED
      BY <2>7, <3>2, <3>3
  <2> QED
    BY <2>1, <2>2, <2>3, <2>4, <2>5, <2>6, <2>7
<1>9. ProcsOK'
  BY <1>1, <1>2, <1>5, <1>8, MoveType
<1> QED
  BY <1>1, <1>9, TypeParts DEF FilesOK, fileVars, lockVars, LocksTypeOK, ProcsOK

\* The steps that write a record.
LEMMA RecordType ==
  ASSUME TypeOK, NEW p \in Procs, BlankIndex(p) \/ ReuseIndex(p) \/ AppendIndex(p)
  PROVE  TypeOK'
<1>0. h[p] \in Handles /\ op[p] \in Calls /\ pc[p] \notin Resting /\ Blank \in Keys \cup {Blank}
  BY DEF TypeOK, BlankIndex, ReuseIndex, AppendIndex, Resting
<1>1. op[p].key \in Keys /\ op[p].len \in Nat
  BY <1>0 DEF TypeOK, Calls
<1>2. FilesOK' /\ buf' \in [Procs -> Texts]
  <2>1. CASE BlankIndex(p)
    BY <1>0, <2>1, PutRecordType DEF BlankIndex, Handles
  <2>2. CASE ReuseIndex(p) \/ AppendIndex(p)
    BY <1>0, <1>1, <2>2, PutRecordType DEF ReuseIndex, AppendIndex, Handles
  <2> QED
    BY <2>1, <2>2
<1>3. h' \in [Procs -> Handles]
  BY <1>0 DEF BlankIndex, ReuseIndex, AppendIndex, Handles, TypeOK
<1>4. \E s \in ChainSection : Goto(p, s)
  BY DEF BlankIndex, ReuseIndex, AppendIndex, ChainSection, TailSection
<1>5. UNCHANGED <<op, refused, lockVars>>
  BY DEF BlankIndex, ReuseIndex, AppendIndex
<1>6. ProcsOK'
  BY <1>0, <1>2, <1>3, <1>4, <1>5, MoveType
<1> QED
  BY <1>2, <1>5, <1>6, TypeParts DEF TypeOK, LocksTypeOK, lockVars, FilesOK, ProcsOK

\* The steps that write a pointer or extend the data file.
LEMMA WriteType ==
  ASSUME TypeOK, NEW p \in Procs,
         PushFree(p) \/ Unlink(p) \/ PopFree(p) \/ AppendData(p) \/ WriteHead(p)
  PROVE  TypeOK'
<1>0. h[p] \in Handles /\ op[p] \in Calls /\ pc[p] \notin Resting
  BY DEF TypeOK, PushFree, Unlink, PopFree, AppendData, WriteHead, Resting
<1>1. FREE_OFF \in HeadOffs /\ LinkHeadOff(op[p].key) \in HeadOffs
  BY <1>0, HeadOff DEF TypeOK, HeadOffs
<1>2. FilesOK'
  BY <1>0, <1>1
  DEF TypeOK, FilesOK, PushFree, Unlink, PopFree, AppendData, WriteHead, WritePtr,
      Handles, Calls
<1>3. h' \in [Procs -> Handles] /\ buf' = buf
  BY <1>0 DEF TypeOK, PushFree, Unlink, PopFree, AppendData, WriteHead, Handles, Calls
<1>4. \E s \in ChainSection : Goto(p, s)
  BY DEF PushFree, Unlink, PopFree, AppendData, WriteHead, ChainSection, FreeSection,
         DataSection
<1>5. UNCHANGED <<op, refused>>
  BY DEF PushFree, Unlink, PopFree, AppendData, WriteHead
<1>6. ProcsOK'
  BY <1>0, <1>3, <1>4, <1>5, MoveType DEF TypeOK
<1>7. LocksTypeOK(Byte)'
  <2>1. CASE Unlink(p)
    BY <2>1, ReleaseType DEF TypeOK, Unlink
  <2>2. CASE PushFree(p) \/ PopFree(p) \/ AppendData(p) \/ WriteHead(p)
    BY <2>2 DEF TypeOK, LocksTypeOK, lockVars, PushFree, PopFree, AppendData, WriteHead
  <2> QED
    BY <2>1, <2>2
<1> QED
  BY <1>2, <1>6, <1>7, TypeParts DEF TypeOK, FilesOK, ProcsOK

\* The steps that unlock.
LEMMA UnlockType ==
  ASSUME TypeOK, NEW p \in Procs,
         UnlockFree(p) \/ UnlockData(p) \/ UnlockTail(p) \/ UnlockChain(p)
  PROVE  TypeOK'
<1>1. CASE UnlockFree(p) \/ UnlockData(p) \/ UnlockTail(p)
  <2>1. \E B, s : s \in ChainSection /\ Unlock(p, B, s) /\ pc[p] \notin Resting
    BY <1>1 DEF UnlockFree, UnlockData, UnlockTail, ChainSection, LockStages, Resting
  <2>2. LocksTypeOK(Byte)'
    BY <2>1, ReleaseType DEF Unlock, TypeOK
  <2>3. ProcsOK'
    BY <2>1, MoveType DEF Unlock, TypeOK
  <2> QED
    BY <2>1, <2>2, <2>3, TypeParts DEF Unlock, TypeOK, FilesOK, fileVars, ProcsOK
<1>2. CASE UnlockChain(p)
  <2>1. NoOp \in Calls /\ FreshHandle \in Handles
    BY DEF NoOp, Calls, FreshHandle, Handles
  <2>2. "rest" \in Stages /\ "rest" \in Resting
    BY DEF Stages, Resting
  <2>3. ProcsOK'
    BY <1>2, <2>1, <2>2 DEF UnlockChain, Goto, TypeOK, ProcsOK
  <2>4. LocksTypeOK(Byte)'
    BY <1>2, ReleaseType DEF UnlockChain, TypeOK
  <2> QED
    BY <1>2, <2>3, <2>4, TypeParts DEF UnlockChain, TypeOK, FilesOK, fileVars, ProcsOK
<1> QED
  BY <1>1, <1>2

\* The steps that lock.
LEMMA LockingType ==
  ASSUME TypeOK, NEW p \in Procs, Locking(p)
  PROVE  TypeOK'
<1>1. pc[p] \in LockStages /\ pc[p] \notin Resting
  BY DEF Locking, Acquire, Await, GoWithout, LockStages, Resting
<1>2. \/ LockGranted(p, Request(p), Mode(p))
      \/ LockWaits(p, Request(p), Mode(p))
      \/ LockRefused(p, Request(p), Mode(p))
  BY DEF Locking, Acquire, Await, GoWithout
<1>3. LocksTypeOK(Byte)'
  BY <1>1, <1>2, RequestType, LockType DEF TypeOK
<1>4. AfterLock[pc[p]] \in Stages /\ AfterLock[pc[p]] \notin Resting
  BY <1>1 DEF AfterLock, LockStages, Stages, ChainSection, FreeSection, DataSection,
              TailSection, Resting
<1>5. ProcsOK'
  <2>1. CASE Await(p)
    BY <2>1 DEF Await, procVars, TypeOK, ProcsOK
  <2>2. CASE Acquire(p)
    BY <1>1, <1>4, <2>2 DEF Acquire, Goto, TypeOK, ProcsOK
  <2>3. CASE GoWithout(p)
    BY <1>1, <1>4, <2>3 DEF GoWithout, Goto, TypeOK, ProcsOK
  <2> QED
    BY <2>1, <2>2, <2>3 DEF Locking
<1>6. FilesOK'
  BY DEF Locking, Acquire, Await, GoWithout, fileVars, TypeOK, FilesOK
<1> QED
  BY <1>3, <1>5, <1>6, TypeParts DEF TypeOK, FilesOK, ProcsOK

LEMMA TypeNext == TypeOK /\ [Next]_vars => TypeOK'
<1> SUFFICES ASSUME TypeOK, [Next]_vars PROVE TypeOK'
  OBVIOUS
<1>1. CASE UNCHANGED vars
  BY <1>1 DEF vars, TypeOK, LocksTypeOK
<1>2. ASSUME NEW p \in Procs, Work(p) PROVE TypeOK'
  BY <1>2, DiesType, ReadType, RecordType, WriteType, UnlockType DEF Work, Segv
<1>3. ASSUME NEW p \in Procs, Call(p) \/ Locking(p) PROVE TypeOK'
  BY <1>3, CallType, LockingType
<1> QED
  BY <1>1, <1>2, <1>3 DEF Next, Terminated

\* Type correctness of hmdb.c's files, handles and locks: every reachable state
\* is well formed, whatever the processes call and wherever they die.
THEOREM TypeCorrect == Spec => []TypeOK
<1>1. Init => TypeOK
  BY TypeInit
<1>2. TypeOK /\ [Next]_vars => TypeOK'
  BY TypeNext
<1> QED
  BY <1>1, <1>2, PTL DEF Spec

-----------------------------------------------------------------------------
(***************************************************************************)
(* No pointer of the index file dangles, whatever locks were refused and   *)
(* whoever died.  The locks have no part in the argument: a record is in   *)
(* the file before its offset is written anywhere, and no record leaves.   *)
(***************************************************************************)

(* The invariant: the pointers that the handles hold resolve as well.  Only *)
(* the offset that an append is about to write at does not yet.             *)

Resolved == DOMAIN idx \cup {0}

HandleResolves(hp) == hp.walk \in Resolved /\ hp.next \in Resolved
                      /\ hp.save \in Resolved /\ hp.free \in Resolved

HandlesResolve ==
  \A p \in Procs : /\ HandleResolves(h[p])
                   /\ pc[p] # "appendIndex" => h[p].indexOff \in Resolved

PointerInv == TypeOK /\ PointersResolve /\ HandlesResolve

LEMMA PointerInvInit == Init => PointerInv
<1> SUFFICES ASSUME Init PROVE PointerInv
  OBVIOUS
<1>1. PointersResolve
  BY DEF Init, PointersResolve
<1>2. HandlesResolve
  BY DEF Init, HandlesResolve, HandleResolves, Resolved, FreshHandle
<1> QED
  BY <1>1, <1>2, TypeInit DEF PointerInv

-----------------------------------------------------------------------------
(* The kinds of steps.                                                      *)

\* What becomes of the handle of p, and that the others keep theirs.
HandleStep(p) ==
  /\ \A q \in Procs \ {p} : pc'[q] = pc[q] /\ h'[q] = h[q]
  /\ HandleResolves(h'[p])
  /\ pc'[p] # "appendIndex" => h'[p].indexOff \in Resolved

LEMMA ReadingStep ==
  ASSUME PointerInv, TypeOK', NEW p \in Procs, HandleStep(p), UNCHANGED <<ptr, idx>>
  PROVE  PointerInv'
<1> USE DEF PointerInv
<1>1. PointersResolve'
  BY DEF PointersResolve
<1>2. HandlesResolve'
  BY DEF HandlesResolve, HandleStep, HandleResolves, Resolved
<1> QED
  BY <1>1, <1>2

LEMMA PointerStep ==
  ASSUME PointerInv, TypeOK', NEW p \in Procs, HandleStep(p),
         NEW off, NEW to \in Resolved, WritePtr(off, to)
  PROVE  PointerInv'
<1> USE DEF PointerInv
<1>1. PointersResolve'
  BY DEF PointersResolve, WritePtr, Resolved, TypeOK
<1>2. HandlesResolve'
  BY DEF HandlesResolve, HandleStep, HandleResolves, Resolved, WritePtr
<1> QED
  BY <1>1, <1>2

\* The handle of p is allowed to lead to the record it has just written.
LEMMA RecordStep ==
  ASSUME PointerInv, TypeOK', NEW p \in Procs, NEW s, NEW k, NEW len,
         NEW next \in Resolved, PutRecord(p, h[p].indexOff, k, len, next),
         h' = [h EXCEPT ![p].next = next], pc' = [pc EXCEPT ![p] = s]
  PROVE  PointerInv'
<1> USE DEF PointerInv
<1>1. /\ DOMAIN idx' = DOMAIN idx \cup {h[p].indexOff} /\ ptr' = ptr
      /\ idx'[h[p].indexOff].next = next
      /\ \A a \in DOMAIN idx \ {h[p].indexOff} : idx'[a] = idx[a]
  BY DEF PutRecord
<1>2. PointersResolve'
  BY <1>1 DEF PointersResolve, Resolved
<1>3. /\ \A q \in Procs \ {p} : pc'[q] = pc[q] /\ h'[q] = h[q]
      /\ h'[p] = [h[p] EXCEPT !.next = next]
  BY DEF TypeOK
<1>4. h[p] \in Handles
  BY DEF TypeOK
<1>5. /\ h'[p].walk = h[p].walk /\ h'[p].save = h[p].save /\ h'[p].free = h[p].free
      /\ h'[p].next = next /\ h'[p].indexOff = h[p].indexOff
  BY <1>3, <1>4 DEF Handles
<1>6. HandlesResolve'
  BY <1>1, <1>3, <1>5 DEF HandlesResolve, HandleResolves, Resolved
<1> QED
  BY <1>2, <1>6

\* A step that leaves all handles alone, and does not go to appendIndex.
LEMMA HandleKept ==
  ASSUME PointerInv, NEW p \in Procs, NEW s, Goto(p, s), h' = h,
         pc[p] # "appendIndex", s # "appendIndex"
  PROVE  HandleStep(p)
BY DEF PointerInv, HandlesResolve, HandleStep, Goto, TypeOK

LEMMA HandleDropped ==
  ASSUME PointerInv, NEW p \in Procs, NEW s, Goto(p, s), h' = [h EXCEPT ![p] = FreshHandle]
  PROVE  HandleStep(p)
BY DEF PointerInv, HandleStep, HandleResolves, Resolved, FreshHandle, Goto, TypeOK

LEMMA HeadResolves ==
  ASSUME PointerInv, NEW p \in Procs, pc[p] \notin Resting
  PROVE  ptr[LinkHeadOff(op[p].key)] \in Resolved /\ ptr[FREE_OFF] \in Resolved
BY DEF PointerInv, PointersResolve, Resolved, HeadOffs, TypeOK

-----------------------------------------------------------------------------
(* Every step is one of them.                                               *)

LEMMA DiesPointers ==
  ASSUME PointerInv, TypeOK', NEW p \in Procs, Dies(p)
  PROVE  PointerInv'
<1>1. HandleStep(p)
  BY HandleDropped DEF Dies, Goto
<1> QED
  BY <1>1, ReadingStep DEF Dies, fileVars

LEMMA CallPointers ==
  ASSUME PointerInv, TypeOK', NEW p \in Procs, Call(p)
  PROVE  PointerInv'
<1>1. CASE BeginFetch(p) \/ BeginDelete(p) \/ BeginStore(p)
  <2>1. Goto(p, "lockChain") /\ h' = h /\ pc[p] = "rest" /\ UNCHANGED <<ptr, idx>>
    BY <1>1 DEF BeginFetch, BeginDelete, BeginStore, Begin, fileVars
  <2> QED
    BY <2>1, HandleKept, ReadingStep
<1>2. CASE NextRec(p) \/ Exit(p) \/ Killed(p)
  BY <1>2, DiesPointers DEF NextRec, Exit, Killed
<1>3. CASE Close(p)
  <2>1. Goto(p, "closed") /\ h' = h /\ pc[p] = "rest" /\ UNCHANGED <<ptr, idx>>
    BY <1>3 DEF Close, fileVars
  <2> QED
    BY <2>1, HandleKept, ReadingStep
<1> QED
  BY <1>1, <1>2, <1>3 DEF Call

LEMMA LockingPointers ==
  ASSUME PointerInv, TypeOK', NEW p \in Procs, Locking(p)
  PROVE  PointerInv'
<1>1. CASE Await(p)
  <2>1. HandleStep(p) /\ UNCHANGED <<ptr, idx>>
    BY <1>1 DEF Await, procVars, fileVars, HandleStep, PointerInv, HandlesResolve
  <2> QED
    BY <2>1, ReadingStep
<1>2. CASE Acquire(p) \/ GoWithout(p)
  <2>1. Goto(p, AfterLock[pc[p]]) /\ h' = h /\ pc[p] \in LockStages /\ UNCHANGED <<ptr, idx>>
    BY <1>2 DEF Acquire, GoWithout, fileVars
  <2>2. AfterLock[pc[p]] # "appendIndex" /\ pc[p] # "appendIndex"
    BY <2>1 DEF AfterLock, LockStages
  <2> QED
    BY <2>1, <2>2, HandleKept, ReadingStep
<1> QED
  BY <1>1, <1>2 DEF Locking

\* The steps that only move the handle of p on, or read into it.
MovesOn(p) == ReadData(p) \/ Overwrite(p) \/ UnlockFree(p) \/ UnlockData(p) \/ UnlockTail(p)
ReadsIn(p) == ReadHead(p) \/ FreeHead(p) \/ ReadFree(p) \/ RereadHead(p) \/ ReadHead2(p)
              \/ Walk(p) \/ WalkFree(p)
ReadsInData(p) == ReuseData(p) \/ SeekData(p) \/ AppendData(p)

LEMMA MovesOnPointers ==
  ASSUME PointerInv, TypeOK', NEW p \in Procs, MovesOn(p)
  PROVE  PointerInv'
<1>1. PICK s : Goto(p, s) /\ s # "appendIndex"
  <2>1. CASE ReadData(p) \/ Overwrite(p)
    BY <2>1 DEF ReadData, Overwrite
  <2>2. CASE UnlockFree(p)
    <3>1. Goto(p, IF h[p].walk = 0 THEN "lockData" ELSE "reuseData")
      BY <2>2 DEF UnlockFree, Unlock
    <3> QED
      BY <3>1
  <2>3. CASE UnlockData(p) \/ UnlockTail(p)
    BY <2>3 DEF UnlockData, UnlockTail, Unlock
  <2> QED
    BY <2>1, <2>2, <2>3 DEF MovesOn
<1>2. h' = h /\ pc[p] # "appendIndex" /\ UNCHANGED <<ptr, idx>>
  BY DEF MovesOn, ReadData, Overwrite, UnlockFree, UnlockData, UnlockTail, Unlock, fileVars
<1> QED
  BY <1>1, <1>2, HandleKept, ReadingStep

\* What a step does to the handle of p, when it goes to a stage other than
\* appendIndex and leaves the other handles alone.
LEMMA HandleMoved ==
  ASSUME PointerInv, NEW p \in Procs, NEW s, Goto(p, s), NEW hp,
         h' = [h EXCEPT ![p] = hp], HandleResolves(hp),
         s = "appendIndex" \/ hp.indexOff \in Resolved
  PROVE  HandleStep(p)
BY DEF PointerInv, HandleStep, Goto, TypeOK

LEMMA HandleOf ==
  ASSUME PointerInv, NEW p \in Procs
  PROVE  /\ h[p] \in Handles /\ HandleResolves(h[p])
         /\ pc[p] # "appendIndex" => h[p].indexOff \in Resolved
BY DEF PointerInv, HandlesResolve, TypeOK

LEMMA ReadsInPointers ==
  ASSUME PointerInv, TypeOK', NEW p \in Procs, ReadsIn(p)
  PROVE  PointerInv'
<1>1. h[p] \in Handles /\ HandleResolves(h[p])
  BY HandleOf
<1>2. UNCHANGED <<ptr, idx>> /\ pc[p] # "appendIndex" /\ pc[p] \notin Resting
  BY DEF ReadsIn, ReadHead, FreeHead, ReadFree, RereadHead, ReadHead2, KeepHead,
         Walk, WalkFree, Resting, fileVars
<1>3. /\ ptr[LinkHeadOff(op[p].key)] \in Resolved /\ ptr[FREE_OFF] \in Resolved
      /\ h[p].indexOff \in Resolved /\ 0 \in Resolved
  BY <1>2, HeadResolves, HandleOf DEF Resolved
<1>4. CASE ReadHead(p) \/ FreeHead(p)
  <2>1. PICK w, s : /\ w \in Resolved /\ Goto(p, s) /\ s # "appendIndex"
                    /\ h' = [h EXCEPT ![p].walk = w]
    <3>1. CASE ReadHead(p)
      <4>1. AfterMissed(p) # "appendIndex"
        BY DEF AfterMissed
      <4> QED
        BY <3>1, <4>1, <1>3 DEF ReadHead
    <3>2. CASE FreeHead(p)
      BY <3>2, <1>3 DEF FreeHead
    <3> QED
      BY <1>4, <3>1, <3>2
  <2> DEFINE hp == [h[p] EXCEPT !.walk = w]
  <2>2. HandleResolves(hp) /\ hp.indexOff \in Resolved
    BY <2>1, <1>1, <1>3 DEF HandleResolves, Handles
  <2>3. h' = [h EXCEPT ![p] = hp]
    BY <2>1
  <2> QED
    BY <2>1, <2>2, <2>3, <1>2, HandleMoved, ReadingStep
<1>5. CASE ReadFree(p)
  <2> DEFINE hp == [h[p] EXCEPT !.free = ptr[FREE_OFF], !.save = h[p].next]
  <2>1. HandleResolves(hp) /\ hp.indexOff \in Resolved
    BY <1>1, <1>3 DEF HandleResolves, Handles
  <2>2. h' = [h EXCEPT ![p] = hp] /\ Goto(p, "blankIndex")
    BY <1>5 DEF ReadFree
  <2> QED
    BY <2>1, <2>2, <1>2, HandleMoved, ReadingStep
<1>6. CASE RereadHead(p) \/ ReadHead2(p)
  <2> DEFINE hp == [h[p] EXCEPT !.save = ptr[LinkHeadOff(op[p].key)]]
  <2>1. HandleResolves(hp) /\ hp.indexOff \in Resolved
    BY <1>1, <1>3 DEF HandleResolves, Handles
  <2>2. PICK s : h' = [h EXCEPT ![p] = hp] /\ Goto(p, s)
    BY <1>6 DEF RereadHead, ReadHead2, KeepHead
  <2> QED
    BY <2>1, <2>2, <1>2, HandleMoved, ReadingStep
<1>7. CASE Walk(p) \/ WalkFree(p)
  <2>1. PICK hit, s : Goto(p, s) /\ ParseBuffer(p, hit)
    BY <1>7 DEF Walk, WalkFree
  <2> DEFINE hp == [h[p] EXCEPT !.walk = IF hit THEN h[p].walk ELSE 0, !.next = 0,
                                !.indexOff = h[p].walk, !.dataOff = buf[p].off,
                                !.dataLen = buf[p].len]
  <2>2. h' = [h EXCEPT ![p] = hp]
    BY <2>1 DEF ParseBuffer
  <2>3. hp.indexOff = h[p].walk /\ hp.next = 0 /\ hp.save = h[p].save
        /\ hp.free = h[p].free /\ hp.walk = IF hit THEN h[p].walk ELSE 0
    BY <1>1 DEF Handles
  <2>4. HandleResolves(hp) /\ hp.indexOff \in Resolved
    BY <2>3, <1>1, <1>3 DEF HandleResolves
  <2> HIDE DEF hp
  <2> QED
    BY <2>1, <2>2, <2>4, <1>2, HandleMoved, ReadingStep
<1> QED
  BY <1>4, <1>5, <1>6, <1>7 DEF ReadsIn

LEMMA DataPointers ==
  ASSUME PointerInv, TypeOK', NEW p \in Procs, ReadsInData(p) \/ SeekIndex(p)
  PROVE  PointerInv'
<1>1. h[p] \in Handles /\ HandleResolves(h[p])
  BY HandleOf
<1>2. UNCHANGED <<ptr, idx>> /\ pc[p] # "appendIndex"
  BY DEF ReadsInData, ReuseData, SeekData, AppendData, SeekIndex, fileVars
<1>3. h[p].indexOff \in Resolved
  BY <1>2, HandleOf
<1>4. CASE ReuseData(p) \/ AppendData(p)
  <2> DEFINE hp == [h[p] EXCEPT !.dataLen = op[p].len]
  <2>1. HandleResolves(hp) /\ hp.indexOff \in Resolved
    BY <1>1, <1>3 DEF HandleResolves, Handles
  <2>2. PICK s : h' = [h EXCEPT ![p] = hp] /\ Goto(p, s)
    BY <1>4 DEF ReuseData, AppendData
  <2> QED
    BY <2>1, <2>2, <1>2, HandleMoved, ReadingStep
<1>5. CASE SeekData(p)
  <2> DEFINE hp == [h[p] EXCEPT !.dataOff = datEnd]
  <2>1. HandleResolves(hp) /\ hp.indexOff \in Resolved
    BY <1>1, <1>3 DEF HandleResolves, Handles
  <2>2. h' = [h EXCEPT ![p] = hp] /\ Goto(p, "appendData")
    BY <1>5 DEF SeekData
  <2> QED
    BY <2>1, <2>2, <1>2, HandleMoved, ReadingStep
<1>6. CASE SeekIndex(p)
  <2> DEFINE hp == [h[p] EXCEPT !.indexOff = idxEnd]
  <2>1. HandleResolves(hp)
    BY <1>1 DEF HandleResolves, Handles
  <2>2. h' = [h EXCEPT ![p] = hp] /\ Goto(p, "appendIndex")
    BY <1>6 DEF SeekIndex
  <2> QED
    BY <2>1, <2>2, <1>2, HandleMoved, ReadingStep
<1> QED
  BY <1>4, <1>5, <1>6 DEF ReadsInData

\* The pointers an operation writes are all held by its handle.
LEMMA WritingPointers ==
  ASSUME PointerInv, TypeOK', NEW p \in Procs,
         PushFree(p) \/ Unlink(p) \/ PopFree(p) \/ WriteHead(p)
  PROVE  PointerInv'
<1>1. PICK off, to, s : WritePtr(off, to) /\ Goto(p, s) /\ s # "appendIndex"
                        /\ to \in {h[p].indexOff, h[p].save, h[p].next}
  <2>1. CASE Unlink(p)
    <3>1. Goto(p, IF op[p].kind = "delete" THEN "unlockChain" ELSE "rereadHead")
      BY <2>1 DEF Unlink
    <3> QED
      BY <2>1, <3>1 DEF Unlink
  <2>2. CASE PushFree(p) \/ PopFree(p) \/ WriteHead(p)
    BY <2>2 DEF PushFree, PopFree, WriteHead
  <2> QED
    BY <2>1, <2>2
<1>2. h' = h /\ pc[p] # "appendIndex"
  BY DEF PushFree, Unlink, PopFree, WriteHead
<1>3. to \in Resolved
  BY <1>1, <1>2, HandleOf DEF HandleResolves
<1> QED
  BY <1>1, <1>2, <1>3, HandleKept, PointerStep

\* So are those it puts into a record.
LEMMA RecordPointers ==
  ASSUME PointerInv, TypeOK', NEW p \in Procs,
         BlankIndex(p) \/ ReuseIndex(p) \/ AppendIndex(p)
  PROVE  PointerInv'
<1>1. h[p].free \in Resolved /\ h[p].save \in Resolved
  BY HandleOf DEF HandleResolves
<1>2. CASE BlankIndex(p)
  BY <1>1, <1>2, RecordStep DEF BlankIndex, Goto
<1>3. CASE ReuseIndex(p)
  BY <1>1, <1>3, RecordStep DEF ReuseIndex, Goto
<1>4. CASE AppendIndex(p)
  BY <1>1, <1>4, RecordStep DEF AppendIndex, Goto
<1> QED
  BY <1>2, <1>3, <1>4

LEMMA UnlockChainPointers ==
  ASSUME PointerInv, TypeOK', NEW p \in Procs, UnlockChain(p)
  PROVE  PointerInv'
<1>1. HandleStep(p)
  BY HandleDropped DEF UnlockChain
<1> QED
  BY <1>1, ReadingStep DEF UnlockChain, fileVars

LEMMA PointerInvNext == PointerInv /\ [Next]_vars => PointerInv'
<1> SUFFICES ASSUME PointerInv, [Next]_vars PROVE PointerInv'
  OBVIOUS
<1>1. TypeOK'
  BY TypeNext DEF PointerInv
<1>2. CASE UNCHANGED vars
  BY <1>1, <1>2 DEF PointerInv, PointersResolve, HandlesResolve, HandleResolves, Resolved, vars
<1>3. ASSUME NEW p \in Procs, Call(p) \/ Work(p) \/ Locking(p) PROVE PointerInv'
  <2>1. CASE Call(p)
    BY <1>1, <2>1, CallPointers
  <2>2. CASE Locking(p)
    BY <1>1, <2>2, LockingPointers
  <2>3. CASE Segv(p)
    BY <1>1, <2>3, DiesPointers DEF Segv
  <2>4. CASE MovesOn(p) \/ ReadsIn(p) \/ ReadsInData(p) \/ SeekIndex(p) \/ UnlockChain(p)
    BY <1>1, <2>4, MovesOnPointers, ReadsInPointers, DataPointers, UnlockChainPointers
  <2>5. CASE PushFree(p) \/ Unlink(p) \/ PopFree(p) \/ WriteHead(p)
    BY <1>1, <2>5, WritingPointers
  <2>6. CASE BlankIndex(p) \/ ReuseIndex(p) \/ AppendIndex(p)
    BY <1>1, <2>6, RecordPointers
  <2> QED
    BY <1>3, <2>1, <2>2, <2>3, <2>4, <2>5, <2>6 DEF Work, MovesOn, ReadsIn, ReadsInData
<1> QED
  BY <1>2, <1>3 DEF Next, Terminated

-----------------------------------------------------------------------------
(* No pointer in the index file leads anywhere but to a record that was     *)
(* written completely (hmdb.c:313-347, 391-441, 695-735): for any number of *)
(* processes and keys, with every lock refused and every kill possible.     *)
THEOREM PointersNeverDangle == Spec => []PointersResolve
<1>1. Init => PointerInv
  BY PointerInvInit
<1>2. PointerInv /\ [Next]_vars => PointerInv'
  BY PointerInvNext
<1>3. PointerInv => PointersResolve
  BY DEF PointerInv
<1> QED
  BY <1>1, <1>2, <1>3, PTL DEF Spec

-----------------------------------------------------------------------------
(***************************************************************************)
(* What the record locks of hmdb.c guarantee, for any number of processes: *)
(* exclusion on a chain, on the free list and at the end of both files.    *)
(***************************************************************************)

(* The inductive invariant.  None of the exclusion properties is inductive: *)
(* each follows from which locks a process holds where it is, and that the  *)
(* lock on the free list or on the end of the index file is never refused   *)
(* follows in turn from their holders never waiting.                        *)

Compatible ==
  \A p, q \in Procs : p # q => wlock[p] \cap (wlock[q] \cup rlock[q]) = {}

ChainHeld ==
  \A p \in Procs :
     InChain(p) /\ "lockChain" \notin refused[p]
       => /\ op[p].kind = "fetch" => ChainByte(op[p].key) \in rlock[p]
          /\ op[p].kind # "fetch" => ChainByte(op[p].key) \in wlock[p]

FreeHeld == \A p \in Procs : pc[p] \in FreeSection => FreeByte \in wlock[p]

TailHeld == \A p \in Procs : pc[p] \in TailSection => TailByte \in wlock[p]

DataHeld ==
  \A p \in Procs :
     pc[p] \in DataSection /\ "lockData" \notin refused[p] => DatBytes \subseteq wlock[p]

MayHold(p, b) ==
  \/ b[1] = "dat"
  \/ InChain(p) /\ b = ChainByte(op[p].key)
  \/ pc[p] \in FreeSection /\ b = FreeByte
  \/ pc[p] \in TailSection /\ b = TailByte

HeldOnly == \A p \in Procs : \A b \in rlock[p] \cup wlock[p] : MayHold(p, b)

WaitersLock == \A p \in Procs : blocker[p] # p => pc[p] \in LockStages

LockInv ==
  /\ TypeOK
  /\ Compatible
  /\ ChainHeld
  /\ FreeHeld
  /\ TailHeld
  /\ DataHeld
  /\ HeldOnly
  /\ WaitersLock

-----------------------------------------------------------------------------
(* The five properties follow from it.                                      *)

\* The three kinds of locked bytes of the index file are different bytes.
LEMMA BytesApart ==
  ASSUME NEW k \in Keys
  PROVE  /\ ChainByte(k) # FreeByte /\ ChainByte(k) # TailByte /\ FreeByte # TailByte
         /\ ChainByte(k)[1] = "idx" /\ FreeByte[1] = "idx" /\ TailByte[1] = "idx"
<1>1. FREE_OFF # RecordsOff
  BY DEF FREE_OFF, RecordsOff, HASH_SIZE, PTR_SIZE
<1> QED
  BY <1>1, HeadOff DEF ChainByte, FreeByte, TailByte

\* The whole data file is at least one byte.
LEMMA SomeDatByte == <<"dat", 0>> \in DatBytes
<1>1. Cardinality(Mortal) \in Nat /\ MaxRecs \in Nat
  BY Parameters, FS_CardinalityType
<1>2. MaxRecs + Cardinality(Mortal) \in Nat
  BY <1>1
<1>3. LongestData \in Nat
  BY Parameters DEF DATALEN_MIN, DATALEN_MAX
<1>4. \A m, n \in Nat : 0 \in 0..(m * n)
  OBVIOUS
<1>5. 0 \in 0..((MaxRecs + Cardinality(Mortal)) * LongestData)
  BY <1>2, <1>3, <1>4
<1> QED
  BY <1>5 DEF DatBytes

LEMMA LockInvExcludes ==
  LockInv => /\ ChainExclusion /\ SectionExclusion
             /\ DataAppendExclusion /\ RestHoldsNoIndexLock
<1> SUFFICES ASSUME LockInv
             PROVE  /\ ChainExclusion /\ SectionExclusion
                    /\ DataAppendExclusion /\ RestHoldsNoIndexLock
  OBVIOUS
<1>1. ChainExclusion
  <2> SUFFICES ASSUME NEW p \in Procs, NEW q \in Procs, p # q, InChain(p), InChain(q),
                      SameChain(p, q), op[p].kind # "fetch",
                      "lockChain" \notin refused[p] \cup refused[q]
               PROVE  FALSE
    BY DEF ChainExclusion
  <2>1. ChainByte(op[p].key) \in wlock[p]
    BY DEF LockInv, ChainHeld
  <2>2. ChainByte(op[q].key) \in wlock[q] \cup rlock[q]
    BY DEF LockInv, ChainHeld
  <2>3. ChainByte(op[p].key) = ChainByte(op[q].key)
    BY DEF SameChain, ChainByte
  <2> QED
    BY <2>1, <2>2, <2>3 DEF LockInv, Compatible
<1>2. FreeListExclusion
  BY DEF LockInv, FreeHeld, Compatible, FreeListExclusion
<1>3. TailExclusion
  BY DEF LockInv, TailHeld, Compatible, TailExclusion
<1>4. DataAppendExclusion
  <2>1. <<"dat", 0>> \in DatBytes
    BY SomeDatByte
  <2> QED
    BY <2>1 DEF LockInv, DataHeld, Compatible, DataAppendExclusion
<1>5. RestHoldsNoIndexLock
  <2>1. \A p \in Procs : pc[p] \in Resting =>
           ~InChain(p) /\ pc[p] \notin FreeSection /\ pc[p] \notin TailSection
    BY DEF Resting, InChain, ChainSection, LockStages, FreeSection, DataSection, TailSection
  <2> QED
    BY <2>1 DEF LockInv, HeldOnly, MayHold, RestHoldsNoIndexLock
<1> QED
  BY <1>1, <1>2, <1>3, <1>4, <1>5 DEF SectionExclusion

-----------------------------------------------------------------------------
(* It is inductive.                                                         *)

LEMMA LockInvInit == Init => LockInv
<1> SUFFICES ASSUME Init PROVE LockInv
  OBVIOUS
<1>1. \A p \in Procs : pc[p] = "rest" /\ rlock[p] = {} /\ wlock[p] = {} /\ blocker[p] = p
  BY DEF Init, LocksInit
<1>2. "rest" \notin ChainSection /\ "rest" \notin FreeSection
      /\ "rest" \notin TailSection /\ "rest" \notin DataSection
  BY DEF ChainSection, FreeSection, TailSection, DataSection, LockStages
<1> QED
  BY <1>1, <1>2, TypeInit
  DEF LockInv, Compatible, ChainHeld, FreeHeld, TailHeld, DataHeld, HeldOnly, MayHold,
      WaitersLock, InChain

\* A process whose holder runs never waits for itself through that holder.
LEMMA RunningWaitsOnNobody ==
  ASSUME NEW p \in Procs, NEW q \in Procs, q # p, Running(q)
  PROVE  ~WaitsOn(q, p)
<1>1. {q} \in SUBSET Procs /\ q \in {q} /\ \A r \in {q} : blocker[r] \in {q}
  BY DEF Running
<1> QED
  BY <1>1 DEF WaitsOn

\* A step from one stage of a section to another, or from outside the sections
\* to outside, that touches no lock.
SameSections(s, t) ==
  /\ s \in FreeSection <=> t \in FreeSection
  /\ s \in TailSection <=> t \in TailSection
  /\ s \in DataSection <=> t \in DataSection

LEMMA InnerStep ==
  ASSUME LockInv, TypeOK', NEW p \in Procs, NEW s \in ChainSection,
         pc[p] \in ChainSection, pc[p] \notin LockStages,
         SameSections(pc[p], s), Goto(p, s), UNCHANGED <<op, refused, lockVars>>
  PROVE  LockInv'
<1> USE DEF LockInv, Goto, lockVars
<1>0. pc \in [Procs -> Stages]
  BY DEF TypeOK
<1>1. Compatible' BY DEF Compatible
<1>2. ChainHeld'  BY <1>0 DEF ChainHeld, InChain
<1>3. FreeHeld'   BY <1>0 DEF FreeHeld, SameSections
<1>4. TailHeld'   BY <1>0 DEF TailHeld, SameSections
<1>5. DataHeld'   BY <1>0 DEF DataHeld, SameSections
<1>6. HeldOnly'   BY <1>0 DEF HeldOnly, MayHold, SameSections, InChain
<1>7. WaitersLock' BY <1>0 DEF WaitersLock
<1> QED BY <1>1, <1>2, <1>3, <1>4, <1>5, <1>6, <1>7

\* What a release does to the locks, its own and the others'.
LEMMA ReleaseEffect ==
  ASSUME TypeOK, NEW p \in Procs, NEW B, Release(p, B)
  PROVE  /\ rlock'[p] = rlock[p] \ B /\ wlock'[p] = wlock[p] \ B
         /\ \A q \in Procs \ {p} : rlock'[q] = rlock[q] /\ wlock'[q] = wlock[q]
         /\ \A q \in Procs : blocker'[q] # q => blocker[q] # q
BY DEF Release, TypeOK, LocksTypeOK

LEMMA CompatibleShrinks ==
  ASSUME Compatible,
         \A q \in Procs : rlock'[q] \subseteq rlock[q] /\ wlock'[q] \subseteq wlock[q]
  PROVE  Compatible'
BY DEF Compatible

\* A step by which p gives locks up and goes to a stage outside the sections
\* that are guarded by a lock of their own.
Leaves(p, t) ==
  /\ pc' = [pc EXCEPT ![p] = t]
  /\ t \notin FreeSection /\ t \notin TailSection /\ t \notin DataSection
  /\ \A q \in Procs \ {p} : /\ op'[q] = op[q] /\ refused'[q] = refused[q]
                            /\ rlock'[q] = rlock[q] /\ wlock'[q] = wlock[q]
  /\ rlock'[p] \subseteq rlock[p] /\ wlock'[p] \subseteq wlock[p]
  /\ \A q \in Procs : blocker'[q] # q => blocker[q] # q
  /\ blocker'[p] = p
  /\ t \in ChainSection =>
        /\ op'[p] = op[p] /\ refused'[p] = refused[p]
        /\ pc[p] \in ChainSection
        /\ ChainByte(op[p].key) \in rlock[p] => ChainByte(op[p].key) \in rlock'[p]
        /\ ChainByte(op[p].key) \in wlock[p] => ChainByte(op[p].key) \in wlock'[p]
  /\ \A b \in rlock'[p] \cup wlock'[p] :
        b[1] = "dat" \/ (t \in ChainSection /\ b = ChainByte(op[p].key))

LEMMA LeaveStep ==
  ASSUME LockInv, TypeOK', NEW p \in Procs, NEW t, Leaves(p, t)
  PROVE  LockInv'
<1> USE DEF LockInv, Leaves
<1>0. pc \in [Procs -> Stages] /\ pc'[p] = t
      /\ \A q \in Procs \ {p} : pc'[q] = pc[q]
  BY DEF TypeOK
<1>1. Compatible'
  BY CompatibleShrinks
<1>2. ChainHeld'
  BY <1>0 DEF ChainHeld, InChain
<1>3. FreeHeld' /\ TailHeld' /\ DataHeld'
  BY <1>0 DEF FreeHeld, TailHeld, DataHeld
<1>4. HeldOnly'
  <2>1. \A q \in Procs \ {p} : \A b \in rlock'[q] \cup wlock'[q] : MayHold(q, b)'
    BY <1>0 DEF HeldOnly, MayHold, InChain
  <2>2. \A b \in rlock'[p] \cup wlock'[p] : MayHold(p, b)'
    BY <1>0 DEF MayHold, InChain
  <2> QED
    BY <2>1, <2>2 DEF HeldOnly
<1>5. WaitersLock'
  BY <1>0 DEF WaitersLock
<1> QED
  BY <1>1, <1>2, <1>3, <1>4, <1>5

\* A process that dies leaves all its locks.
LEMMA DiesStep ==
  ASSUME LockInv, NEW p \in Procs, Dies(p)
  PROVE  LockInv'
<1>1. TypeOK'
  BY DiesType DEF LockInv
<1>2. "dead" \notin ChainSection /\ "dead" \notin FreeSection
      /\ "dead" \notin TailSection /\ "dead" \notin DataSection
  BY DEF ChainSection, FreeSection, TailSection, DataSection, LockStages
<1>3. /\ rlock'[p] = {} /\ wlock'[p] = {} /\ blocker'[p] = p
      /\ \A q \in Procs : blocker'[q] # q => blocker[q] # q
      /\ \A q \in Procs \ {p} : rlock'[q] = rlock[q] /\ wlock'[q] = wlock[q]
  BY DEF Dies, Vanish, LockInv, TypeOK, LocksTypeOK
<1>4. \A q \in Procs \ {p} : op'[q] = op[q] /\ refused'[q] = refused[q]
  BY DEF Dies, LockInv, TypeOK
<1>5. pc' = [pc EXCEPT ![p] = "dead"]
  BY DEF Dies
<1>6. Leaves(p, "dead")
  BY <1>2, <1>3, <1>4, <1>5 DEF Leaves
<1> QED
  BY <1>1, <1>6, LeaveStep

\* The steps that unlock.
LEMMA UnlockStep ==
  ASSUME LockInv, TypeOK', NEW p \in Procs,
         UnlockFree(p) \/ UnlockData(p) \/ UnlockTail(p) \/ Unlink(p) \/ UnlockChain(p)
  PROVE  LockInv'
<1> USE DEF LockInv
<1>0. op[p].key \in Keys
  BY DEF TypeOK, UnlockFree, UnlockData, UnlockTail, Unlink, UnlockChain, Resting
<1>1. blocker[p] = p
  BY DEF WaitersLock, UnlockFree, UnlockData, UnlockTail, Unlink, UnlockChain, LockStages
<1>2. \A b \in rlock[p] \cup wlock[p] : MayHold(p, b)
  BY DEF HeldOnly
<1>3. CASE UnlockFree(p) \/ UnlockData(p) \/ UnlockTail(p) \/ Unlink(p)
  <2>1. PICK B \in {{FreeByte}, Held(p, "dat"), {TailByte}}, t \in ChainSection :
           /\ Release(p, B) /\ Goto(p, t) /\ UNCHANGED <<op, refused>>
           /\ t \notin FreeSection /\ t \notin TailSection /\ t \notin DataSection
           /\ pc[p] \in ChainSection
           /\ pc[p] \in FreeSection => B = {FreeByte}
           /\ pc[p] \in TailSection => B = {TailByte}
    BY <1>3 DEF UnlockFree, UnlockData, UnlockTail, Unlink, Unlock, ChainSection,
                FreeSection, TailSection, DataSection, LockStages
  <2>2. ChainByte(op[p].key) \notin B
    <3>1. \A b \in Held(p, "dat") : b[1] = "dat"
      BY DEF Held
    <3> QED
      BY <1>0, <2>1, <3>1, BytesApart
  <2>3. /\ rlock'[p] = rlock[p] \ B /\ wlock'[p] = wlock[p] \ B
        /\ \A q \in Procs \ {p} : rlock'[q] = rlock[q] /\ wlock'[q] = wlock[q]
        /\ \A q \in Procs : blocker'[q] # q => blocker[q] # q
    BY <2>1, ReleaseEffect
  <2>4. \A b \in rlock'[p] \cup wlock'[p] : b[1] = "dat" \/ b = ChainByte(op[p].key)
    BY <1>2, <2>1, <2>3 DEF MayHold
  <2>5. blocker'[p] = p
    BY <1>1, <2>3
  <2>6. pc' = [pc EXCEPT ![p] = t]
    BY <2>1 DEF Goto
  <2>7. ChainByte(op[p].key) \in rlock[p] => ChainByte(op[p].key) \in rlock'[p]
    BY <2>2, <2>3
  <2>8. ChainByte(op[p].key) \in wlock[p] => ChainByte(op[p].key) \in wlock'[p]
    BY <2>2, <2>3
  <2>9. \A q \in Procs \ {p} : /\ op'[q] = op[q] /\ refused'[q] = refused[q]
                                /\ rlock'[q] = rlock[q] /\ wlock'[q] = wlock[q]
    BY <2>1, <2>3
  <2>10. rlock'[p] \subseteq rlock[p] /\ wlock'[p] \subseteq wlock[p]
    BY <2>3
  <2>11. op'[p] = op[p] /\ refused'[p] = refused[p]
    BY <2>1
  <2>12. \A q \in Procs : blocker'[q] # q => blocker[q] # q
    BY <2>3
  <2>13. /\ t \notin FreeSection /\ t \notin TailSection /\ t \notin DataSection
         /\ pc[p] \in ChainSection
    BY <2>1
  <2>14. Leaves(p, t)
    BY <2>4, <2>5, <2>6, <2>7, <2>8, <2>9, <2>10, <2>11, <2>12, <2>13 DEF Leaves
  <2> QED
    BY <2>14, LeaveStep
<1>4. CASE UnlockChain(p)
  <2>1. "rest" \notin ChainSection /\ "rest" \notin FreeSection
        /\ "rest" \notin TailSection /\ "rest" \notin DataSection
    BY DEF ChainSection, FreeSection, TailSection, DataSection, LockStages
  <2>2. pc[p] \notin FreeSection /\ pc[p] \notin TailSection
    BY <1>4 DEF UnlockChain, FreeSection, TailSection
  <2>3. Release(p, {ChainByte(op[p].key)}) /\ pc' = [pc EXCEPT ![p] = "rest"]
    BY <1>4 DEF UnlockChain, Goto
  <2>4. /\ rlock'[p] = rlock[p] \ {ChainByte(op[p].key)}
        /\ wlock'[p] = wlock[p] \ {ChainByte(op[p].key)}
        /\ \A q \in Procs \ {p} : rlock'[q] = rlock[q] /\ wlock'[q] = wlock[q]
        /\ \A q \in Procs : blocker'[q] # q => blocker[q] # q
    BY <2>3, ReleaseEffect
  <2>5. \A b \in rlock'[p] \cup wlock'[p] : b[1] = "dat"
    BY <1>2, <2>2, <2>4 DEF MayHold
  <2>6. \A q \in Procs \ {p} : op'[q] = op[q] /\ refused'[q] = refused[q]
    BY <1>4 DEF UnlockChain, TypeOK
  <2>7. \A q \in Procs \ {p} : /\ op'[q] = op[q] /\ refused'[q] = refused[q]
                                /\ rlock'[q] = rlock[q] /\ wlock'[q] = wlock[q]
    BY <2>4, <2>6
  <2>8. rlock'[p] \subseteq rlock[p] /\ wlock'[p] \subseteq wlock[p] /\ blocker'[p] = p
    BY <1>1, <2>4
  <2>9. pc' = [pc EXCEPT ![p] = "rest"] /\ \A q \in Procs : blocker'[q] # q => blocker[q] # q
    BY <2>3, <2>4
  <2>10. Leaves(p, "rest")
    BY <2>1, <2>5, <2>7, <2>8, <2>9 DEF Leaves
  <2> QED
    BY <2>10, LeaveStep
<1> QED
  BY <1>3, <1>4

\* The steps that read and write under the locks they hold.
LEMMA InnerSteps ==
  ASSUME LockInv, TypeOK', NEW p \in Procs,
         \/ ReadHead(p) \/ Walk(p) \/ ReadData(p) \/ ReadFree(p) \/ BlankIndex(p)
         \/ PushFree(p) \/ RereadHead(p) \/ ReadHead2(p) \/ Overwrite(p)
         \/ FreeHead(p) \/ WalkFree(p) \/ PopFree(p) \/ ReuseData(p) \/ ReuseIndex(p)
         \/ SeekData(p) \/ AppendData(p) \/ SeekIndex(p) \/ AppendIndex(p)
         \/ WriteHead(p)
  PROVE  LockInv'
<1> USE DEF ChainSection, FreeSection, DataSection, TailSection, LockStages
<1>1. UNCHANGED <<op, refused, lockVars>>
  BY DEF ReadHead, Walk, ReadData, ReadFree, BlankIndex, PushFree, RereadHead, ReadHead2,
         KeepHead, Overwrite, FreeHead, WalkFree, PopFree, ReuseData, ReuseIndex, SeekData,
         AppendData, SeekIndex, AppendIndex, WriteHead
<1>2. pc[p] \in ChainSection /\ pc[p] \notin LockStages
  BY DEF ReadHead, Walk, ReadData, ReadFree, BlankIndex, PushFree, RereadHead, ReadHead2,
         Overwrite, FreeHead, WalkFree, PopFree, ReuseData, ReuseIndex, SeekData,
         AppendData, SeekIndex, AppendIndex, WriteHead
<1>3. \A len : AfterFound(p, len) \in {"readData", "lockBlank", "unlockChain", "overwrite"}
  BY DEF AfterFound
<1>4. AfterMissed(p) \in {"readHead2", "unlockChain"}
  BY DEF AfterMissed
<1>5. PICK s \in ChainSection : Goto(p, s) /\ SameSections(pc[p], s)
  <2>1. CASE ReadHead(p) \/ Walk(p)
    BY <1>3, <1>4, <2>1 DEF ReadHead, Walk, SameSections
  <2>2. CASE \/ ReadData(p) \/ ReadFree(p) \/ BlankIndex(p) \/ PushFree(p)
             \/ RereadHead(p) \/ ReadHead2(p) \/ Overwrite(p)
    BY <2>2 DEF ReadData, ReadFree, BlankIndex, PushFree, RereadHead, ReadHead2, KeepHead,
                Overwrite, SameSections
  <2>3. CASE FreeHead(p) \/ WalkFree(p) \/ PopFree(p) \/ ReuseData(p) \/ ReuseIndex(p)
    BY <2>3 DEF FreeHead, WalkFree, PopFree, ReuseData, ReuseIndex, SameSections
  <2>4. CASE \/ SeekData(p) \/ AppendData(p) \/ SeekIndex(p) \/ AppendIndex(p)
             \/ WriteHead(p)
    BY <2>4 DEF SeekData, AppendData, SeekIndex, AppendIndex, WriteHead, SameSections
  <2> QED
    BY <2>1, <2>2, <2>3, <2>4
<1> QED
  BY <1>1, <1>2, <1>5, InnerStep

\* The steps that lock.
LEMMA LockingStep ==
  ASSUME LockInv, TypeOK', NEW p \in Procs, Locking(p)
  PROVE  LockInv'
<1> USE DEF LockInv
<1>0. pc[p] \in LockStages /\ pc \in [Procs -> Stages] /\ op[p].key \in Keys
  BY DEF Locking, Acquire, Await, GoWithout, TypeOK, LockStages, Resting
<1>a. /\ pc[p] \notin FreeSection /\ pc[p] \notin TailSection /\ pc[p] \notin DataSection
      /\ pc[p] # "lockChain" => pc[p] \in ChainSection
      /\ "lockChain" \notin ChainSection
  BY <1>0 DEF LockStages, FreeSection, TailSection, DataSection, ChainSection
<1>b. LET t == AfterLock[pc[p]] IN
        /\ t \in ChainSection /\ t \notin LockStages
        /\ t \in FreeSection <=> pc[p] = "lockFree"
        /\ t \in DataSection <=> pc[p] = "lockData"
        /\ t \in TailSection <=> pc[p] = "lockTail"
  BY <1>0 DEF AfterLock, LockStages, FreeSection, TailSection, DataSection, ChainSection
<1>c. /\ pc[p] = "lockChain" => Request(p) = {ChainByte(op[p].key)}
      /\ pc[p] = "lockBlank" => \A b \in Request(p) : b[1] = "dat"
      /\ pc[p] = "lockFree" => Request(p) = {FreeByte}
      /\ pc[p] = "lockData" => Request(p) = DatBytes
      /\ pc[p] = "lockTail" => Request(p) = {TailByte}
  BY DEF Request
<1>1. CASE Await(p)
  <2>1. UNCHANGED <<pc, op, refused, rlock, wlock>>
    BY <1>1 DEF Await, LockWaits, procVars
  <2>2. WaitersLock'
    <3>1. \A q \in Procs \ {p} : blocker'[q] = blocker[q]
      BY <1>1 DEF Await, LockWaits, TypeOK, LocksTypeOK
    <3> QED
      BY <1>0, <2>1, <3>1 DEF WaitersLock
  <2> QED
    BY <2>1, <2>2 DEF Compatible, ChainHeld, FreeHeld, TailHeld, DataHeld, HeldOnly,
                      MayHold, InChain
<1>2. CASE Acquire(p)
  <2> DEFINE B == Request(p)
             t == AfterLock[pc[p]]
  <2>1. /\ Holders(p, B, Mode(p)) = {} /\ Running(p)
        /\ rlock' = [rlock EXCEPT ![p] = IF Mode(p) = "read" THEN @ \cup B ELSE @]
        /\ wlock' = [wlock EXCEPT ![p] = IF Mode(p) = "write" THEN @ \cup B ELSE @]
        /\ blocker' = blocker /\ op' = op /\ refused' = refused
    BY <1>2 DEF Acquire, LockGranted
  <2>2. pc'[p] = t /\ \A q \in Procs \ {p} : pc'[q] = pc[q]
    BY <1>0, <1>2 DEF Acquire, Goto
  <2>3. /\ \A q \in Procs \ {p} : rlock'[q] = rlock[q] /\ wlock'[q] = wlock[q]
        /\ rlock[p] \subseteq rlock'[p] /\ wlock[p] \subseteq wlock'[p]
        /\ rlock'[p] \subseteq rlock[p] \cup B /\ wlock'[p] \subseteq wlock[p] \cup B
        /\ Mode(p) = "read" => B \subseteq rlock'[p] /\ wlock'[p] = wlock[p]
        /\ Mode(p) = "write" => B \subseteq wlock'[p] /\ rlock'[p] = rlock[p]
    BY <2>1 DEF TypeOK, LocksTypeOK
  <2>m. /\ Mode(p) = "read" <=> pc[p] = "lockChain" /\ op[p].kind = "fetch"
        /\ Mode(p) = "read" \/ Mode(p) = "write"
    BY DEF Mode
  <2> HIDE DEF B, t
  <2>4. Compatible'
    <3>1. \A q \in Procs \ {p} :
             /\ wlock[q] \cap B = {}
             /\ Mode(p) = "write" => rlock[q] \cap B = {}
      BY <2>1 DEF Holders
    <3>2. \A q \in Procs \ {p} : wlock[p] \cap (wlock[q] \cup rlock[q]) = {}
                                 /\ wlock[q] \cap (wlock[p] \cup rlock[p]) = {}
      BY DEF Compatible
    <3>3. \A q \in Procs \ {p} : wlock'[p] \cap (wlock'[q] \cup rlock'[q]) = {}
      BY <2>3, <2>m, <3>1, <3>2
    <3>4. \A q \in Procs \ {p} : wlock'[q] \cap (wlock'[p] \cup rlock'[p]) = {}
      BY <2>3, <2>m, <3>1, <3>2
    <3> QED
      BY <2>3, <3>3, <3>4 DEF Compatible
  <2>5. ChainHeld'
    <3>1. \A q \in Procs \ {p} :
             InChain(q)' /\ "lockChain" \notin refused'[q]
               => /\ op'[q].kind = "fetch" => ChainByte(op'[q].key) \in rlock'[q]
                  /\ op'[q].kind # "fetch" => ChainByte(op'[q].key) \in wlock'[q]
      BY <2>1, <2>2, <2>3 DEF ChainHeld, InChain
    <3>2. CASE pc[p] = "lockChain"
      <4>1. ChainByte(op[p].key) \in B
        BY <1>c, <3>2 DEF B
      <4>2. /\ op[p].kind = "fetch" => ChainByte(op[p].key) \in rlock'[p]
            /\ op[p].kind # "fetch" => ChainByte(op[p].key) \in wlock'[p]
        BY <2>3, <2>m, <3>2, <4>1
      <4> QED
        BY <2>1, <3>1, <4>2 DEF ChainHeld
    <3>3. CASE pc[p] # "lockChain"
      BY <1>a, <2>1, <2>3, <3>1, <3>3 DEF ChainHeld, InChain
    <3> QED
      BY <3>2, <3>3
  <2>6. FreeHeld'
    BY <1>b, <1>c, <2>2, <2>3, <2>m DEF FreeHeld, B, t
  <2>7. TailHeld'
    BY <1>b, <1>c, <2>2, <2>3, <2>m DEF TailHeld, B, t
  <2>8. DataHeld'
    BY <1>b, <1>c, <2>1, <2>2, <2>3, <2>m DEF DataHeld, B, t
  <2>9. HeldOnly'
    <3>1. \A q \in Procs \ {p} : \A b \in rlock'[q] \cup wlock'[q] : MayHold(q, b)'
      BY <2>1, <2>2, <2>3 DEF HeldOnly, MayHold, InChain
    <3>2. \A b \in rlock[p] \cup wlock[p] : MayHold(p, b)'
      BY <1>a, <1>b, <2>1, <2>2 DEF HeldOnly, MayHold, InChain, t
    <3>3. \A b \in B : MayHold(p, b)'
      <4>1. \A b \in DatBytes : b[1] = "dat"
        BY DEF DatBytes
      <4> QED
        BY <1>0, <1>b, <1>c, <2>1, <2>2, <4>1 DEF MayHold, InChain, B, t, LockStages
    <3> QED
      BY <2>3, <3>1, <3>2, <3>3 DEF HeldOnly
  <2>10. WaitersLock'
    BY <2>1, <2>2 DEF WaitersLock, Running
  <2> QED
    BY <2>4, <2>5, <2>6, <2>7, <2>8, <2>9, <2>10
<1>3. CASE GoWithout(p)
  <2> DEFINE t == AfterLock[pc[p]]
  <2>1. /\ UNCHANGED <<rlock, wlock, blocker, op>> /\ Running(p)
        /\ \E q \in Holders(p, Request(p), Mode(p)) : WaitsOn(q, p)
    BY <1>3 DEF GoWithout, LockRefused, lockVars
  <2>2. /\ pc'[p] = t /\ refused'[p] = refused[p] \cup {pc[p]}
        /\ \A q \in Procs \ {p} : pc'[q] = pc[q] /\ refused'[q] = refused[q]
    BY <1>0, <1>3 DEF GoWithout, Goto, TypeOK
  <2> HIDE DEF t
  <2>3. pc[p] # "lockFree" /\ pc[p] # "lockTail"
    <3> SUFFICES ASSUME pc[p] = "lockFree" \/ pc[p] = "lockTail" PROVE FALSE
      OBVIOUS
    <3>1. PICK q \in Holders(p, Request(p), Mode(p)) : WaitsOn(q, p)
      BY <2>1
    <3>2. /\ q \in Procs /\ q # p
          /\ pc[p] = "lockFree" => FreeByte \in rlock[q] \cup wlock[q]
          /\ pc[p] = "lockTail" => TailByte \in rlock[q] \cup wlock[q]
      BY <1>c, <3>1 DEF Holders
    <3>3. pc[q] \in FreeSection \cup TailSection
      <4>0. InChain(q) => op[q].key \in Keys
        BY <3>2 DEF TypeOK, InChain, ChainSection, LockStages, FreeSection, DataSection,
                    TailSection, Resting
      <4>1. \A b \in {FreeByte, TailByte} : MayHold(q, b) => pc[q] \in FreeSection \cup TailSection
        BY <4>0, BytesApart DEF MayHold, FreeByte, TailByte
      <4> QED
        BY <3>2, <4>1 DEF HeldOnly
    <3>4. Running(q)
      BY <3>2, <3>3 DEF WaitersLock, Running, LockStages, FreeSection, TailSection
    <3> QED
      BY <3>1, <3>2, <3>4, RunningWaitsOnNobody
  <2>4. Compatible'
    BY <2>1 DEF Compatible
  <2>5. ChainHeld'
    BY <1>a, <2>1, <2>2 DEF ChainHeld, InChain
  <2>6. FreeHeld' /\ TailHeld'
    BY <1>b, <2>1, <2>2, <2>3 DEF FreeHeld, TailHeld, t
  <2>7. DataHeld'
    BY <1>b, <2>1, <2>2 DEF DataHeld, t
  <2>8. HeldOnly'
    BY <1>a, <1>b, <2>1, <2>2 DEF HeldOnly, MayHold, InChain, t
  <2>9. WaitersLock'
    BY <2>1, <2>2 DEF WaitersLock, Running
  <2> QED
    BY <2>4, <2>5, <2>6, <2>7, <2>8, <2>9
<1> QED
  BY <1>1, <1>2, <1>3 DEF Locking

\* The calls.
LEMMA CallStep ==
  ASSUME LockInv, TypeOK', NEW p \in Procs, Call(p)
  PROVE  LockInv'
<1> USE DEF LockInv
<1>0. pc \in [Procs -> Stages] /\ op \in [Procs -> Calls]
  BY DEF TypeOK
<1>1. ASSUME NEW call, Begin(p, call) PROVE LockInv'
  <2>1. /\ pc[p] = "rest" /\ pc'[p] = "lockChain"
        /\ \A q \in Procs \ {p} : pc'[q] = pc[q] /\ op'[q] = op[q]
        /\ UNCHANGED <<refused, rlock, wlock, blocker>>
    BY <1>0, <1>1 DEF Begin, Goto, lockVars
  <2>2. \A s \in {"rest", "lockChain"} :
          s \notin ChainSection /\ s \notin FreeSection /\ s \notin TailSection
          /\ s \notin DataSection
    BY DEF ChainSection, FreeSection, TailSection, DataSection, LockStages
  <2>3. "rest" \notin LockStages
    BY DEF LockStages
  <2>4. Compatible' /\ ChainHeld' /\ FreeHeld' /\ TailHeld' /\ DataHeld'
    BY <2>1, <2>2 DEF Compatible, ChainHeld, FreeHeld, TailHeld, DataHeld, InChain
  <2>5. HeldOnly'
    BY <2>1, <2>2 DEF HeldOnly, MayHold, InChain
  <2>6. WaitersLock'
    BY <2>1, <2>3 DEF WaitersLock
  <2> QED
    BY <2>4, <2>5, <2>6
<1>2. CASE BeginFetch(p) \/ BeginDelete(p) \/ BeginStore(p)
  BY <1>1, <1>2 DEF BeginFetch, BeginDelete, BeginStore
<1>3. CASE NextRec(p) \/ Exit(p) \/ Killed(p)
  BY <1>3, DiesStep DEF NextRec, Exit, Killed
<1>4. CASE Close(p)
  <2> DEFINE B == Held(p, "idx")
  <2>1. \A s \in {"rest", "closed"} :
          s \notin ChainSection /\ s \notin FreeSection /\ s \notin TailSection
          /\ s \notin DataSection /\ s \notin LockStages
    BY DEF ChainSection, FreeSection, TailSection, DataSection, LockStages
  <2>2. pc[p] = "rest" /\ Release(p, B) /\ pc' = [pc EXCEPT ![p] = "closed"]
        /\ UNCHANGED <<op, refused>>
    BY <1>4 DEF Close, Goto
  <2>3. /\ rlock'[p] \subseteq rlock[p] /\ wlock'[p] \subseteq wlock[p]
        /\ \A q \in Procs \ {p} : rlock'[q] = rlock[q] /\ wlock'[q] = wlock[q]
        /\ \A q \in Procs : blocker'[q] # q => blocker[q] # q
    BY <2>2, ReleaseEffect
  <2>4. \A b \in rlock'[p] \cup wlock'[p] : b[1] = "dat"
    BY <2>1, <2>2, <2>3 DEF HeldOnly, MayHold, InChain
  <2>5. blocker'[p] = p
    BY <2>1, <2>2, <2>3 DEF WaitersLock
  <2>6. \A q \in Procs \ {p} : /\ op'[q] = op[q] /\ refused'[q] = refused[q]
                                /\ rlock'[q] = rlock[q] /\ wlock'[q] = wlock[q]
    BY <2>2, <2>3
  <2>7. Leaves(p, "closed")
    BY <2>1, <2>2, <2>3, <2>4, <2>5, <2>6 DEF Leaves
  <2> QED
    BY <2>7, LeaveStep
<1> QED
  BY <1>2, <1>3, <1>4 DEF Call

LEMMA LockInvNext == LockInv /\ [Next]_vars => LockInv'
<1> SUFFICES ASSUME LockInv, [Next]_vars PROVE LockInv'
  OBVIOUS
<1>0. TypeOK'
  BY TypeNext DEF LockInv
<1>1. CASE UNCHANGED vars
  BY <1>0, <1>1 DEF vars, LockInv, Compatible, ChainHeld, FreeHeld, TailHeld, DataHeld,
                    HeldOnly, MayHold, WaitersLock, InChain
<1>2. ASSUME NEW p \in Procs, Work(p) PROVE LockInv'
  BY <1>0, <1>2, DiesStep, UnlockStep, InnerSteps DEF Work, Segv
<1>3. ASSUME NEW p \in Procs, Call(p) \/ Locking(p) PROVE LockInv'
  BY <1>0, <1>3, CallStep, LockingStep
<1> QED
  BY <1>1, <1>2, <1>3 DEF Next, Terminated

-----------------------------------------------------------------------------
(* The theorems.                                                            *)

\* The invariant of the lock discipline of hmdb.c holds throughout.
THEOREM LocksHeld == Spec => []LockInv
<1>1. Init => LockInv
  BY LockInvInit
<1>2. LockInv /\ [Next]_vars => LockInv'
  BY LockInvNext
<1> QED
  BY <1>1, <1>2, PTL DEF Spec

\* For any number of processes: a writer is alone on its chain unless a request
\* for that chain's lock was refused (Hmdb_FindAndLock to the unlock of each
\* operation).
THEOREM ChainExcludes == Spec => []ChainExclusion
BY LocksHeld, LockInvExcludes, PTL

\* For any number of processes: Hmdb_FindFree and the append of Hmdb_WriteIndex
\* are critical sections, whatever locks were refused.
THEOREM SectionsExclude == Spec => []SectionExclusion
BY LocksHeld, LockInvExcludes, PTL

\* For any number of processes: so is the append of Hmdb_WriteData, unless the
\* kernel refused its lock.
THEOREM DataAppendExcludes == Spec => []DataAppendExclusion
BY LocksHeld, LockInvExcludes, PTL

\* For any number of processes: between calls, and after its end, a process
\* holds no lock on the index file.
THEOREM RestHoldsNothing == Spec => []RestHoldsNoIndexLock
BY LocksHeld, LockInvExcludes, PTL

-----------------------------------------------------------------------------
(***************************************************************************)
(* Why processes of hmdb.c ever wait in a ring, for any number of them: a  *)
(* lock is refused only while a process keeps the data lock of a delete.   *)
(*                                                                         *)
(* A process that waits for a lock on the free list or at an end of file   *)
(* waits on one that is in the section of that lock, and there is no lock  *)
(* request in those sections.  So a chain of waiting processes is at most  *)
(* two long, unless a data byte is held outside its section.               *)
(***************************************************************************)

(* The invariant: who waits, waits on a process that holds what it wants.   *)

WaitsForHolder(q) ==
  blocker[q] # q => /\ want[q] = Request(q)
                    /\ blocker[q] \in Holders(q, want[q], Mode(q))

SharedOnIndex == \A q \in Procs : \A b \in rlock[q] : b[1] # "dat"

WaitInv == (\A q \in Procs : WaitsForHolder(q)) /\ SharedOnIndex

LEMMA WaitInvInit == Init => WaitInv
BY DEF Init, LocksInit, WaitInv, WaitsForHolder, SharedOnIndex

\* What a step of p leaves alone: the place, the operation and the handle of
\* every other process, hence what it asks for.
Private(p) == \A q \in Procs \ {p} : pc'[q] = pc[q] /\ op'[q] = op[q] /\ h'[q] = h[q]

LEMMA SameRequest ==
  ASSUME NEW p \in Procs, Private(p), NEW q \in Procs \ {p}, pc[q] \in LockStages
  PROVE  Request(q)' = Request(q) /\ Mode(q)' = Mode(q)
<1>1. pc'[q] = pc[q] /\ op'[q] = op[q] /\ h'[q] = h[q]
  BY DEF Private
<1>2. /\ pc[q] = "lockChain" => Request(q) = {ChainByte(op[q].key)}
      /\ pc[q] = "lockBlank" => Request(q) = {<<"dat", h[q].dataOff>>}
      /\ pc[q] = "lockFree" => Request(q) = {FreeByte}
      /\ pc[q] = "lockData" => Request(q) = DatBytes
      /\ pc[q] = "lockTail" => Request(q) = {TailByte}
  BY DEF Request
<1>3. /\ pc'[q] = "lockChain" => Request(q)' = {ChainByte(op'[q].key)}
      /\ pc'[q] = "lockBlank" => Request(q)' = {<<"dat", h'[q].dataOff>>}
      /\ pc'[q] = "lockFree" => Request(q)' = {FreeByte}
      /\ pc'[q] = "lockData" => Request(q)' = DatBytes
      /\ pc'[q] = "lockTail" => Request(q)' = {TailByte}
  BY DEF Request
<1>4. Mode(q)' = Mode(q)
  BY <1>1 DEF Mode
<1> QED
  BY <1>1, <1>2, <1>3, <1>4 DEF LockStages

-----------------------------------------------------------------------------
(* The kinds of steps.                                                      *)

LEMMA QuietStep ==
  ASSUME WaitInv, WaitersLock, NEW p \in Procs, Running(p), Private(p), UNCHANGED lockVars
  PROVE  WaitInv'
<1> USE DEF WaitInv, lockVars
<1>1. SharedOnIndex'
  BY DEF SharedOnIndex
<1>2. ASSUME NEW q \in Procs PROVE WaitsForHolder(q)'
  <2>1. CASE q = p
    BY <2>1 DEF WaitsForHolder, Running
  <2>2. CASE q # p
    BY <2>2, SameRequest DEF WaitsForHolder, Holders, WaitersLock
  <2> QED
    BY <2>1, <2>2
<1> QED
  BY <1>1, <1>2

LEMMA GrantStep ==
  ASSUME WaitInv, WaitersLock, TypeOK, NEW p \in Procs, Private(p), pc[p] \in LockStages,
         LockGranted(p, Request(p), Mode(p))
  PROVE  WaitInv'
<1> USE DEF WaitInv
<1>0. op[p].key \in Keys
  BY DEF TypeOK, LockStages, Resting
<1>1. /\ blocker'[p] = p /\ blocker' = blocker /\ want' = want
      /\ \A q \in Procs : rlock[q] \subseteq rlock'[q] /\ wlock[q] \subseteq wlock'[q]
      /\ \A q \in Procs \ {p} : rlock'[q] = rlock[q]
      /\ rlock'[p] \subseteq rlock[p] \cup (IF Mode(p) = "read" THEN Request(p) ELSE {})
  BY DEF LockGranted, Running, TypeOK, LocksTypeOK
<1>2. Mode(p) = "read" => Request(p) = {ChainByte(op[p].key)}
  BY DEF Mode, Request
<1>3. SharedOnIndex'
  BY <1>0, <1>1, <1>2, BytesApart DEF SharedOnIndex
<1>4. ASSUME NEW q \in Procs PROVE WaitsForHolder(q)'
  <2>1. CASE q = p
    BY <1>1, <2>1 DEF WaitsForHolder
  <2>2. CASE q # p
    BY <1>1, <2>2, SameRequest DEF WaitsForHolder, Holders, WaitersLock
  <2> QED
    BY <2>1, <2>2
<1> QED
  BY <1>3, <1>4

LEMMA WaitStep ==
  ASSUME WaitInv, WaitersLock, TypeOK, NEW p \in Procs, Await(p)
  PROVE  WaitInv'
<1> USE DEF WaitInv
<1>1. /\ UNCHANGED <<pc, op, h, rlock, wlock>>
      /\ \A q \in Procs \ {p} : blocker'[q] = blocker[q] /\ want'[q] = want[q]
      /\ want'[p] = Request(p) /\ blocker'[p] \in Holders(p, Request(p), Mode(p))
  BY DEF Await, LockWaits, procVars, TypeOK, LocksTypeOK
<1>2. \A q \in Procs : Request(q)' = Request(q) /\ Mode(q)' = Mode(q)
  BY <1>1 DEF Request, Mode, Await, fileVars
<1>3. \A q \in Procs : WaitsForHolder(q)'
  BY <1>1, <1>2 DEF WaitsForHolder, Holders
<1> QED
  BY <1>1, <1>3 DEF SharedOnIndex

LEMMA ReleaseStep ==
  ASSUME WaitInv, WaitersLock, TypeOK, NEW p \in Procs, Running(p), Private(p), NEW B, Release(p, B)
  PROVE  WaitInv'
<1> USE DEF WaitInv
<1>1. /\ rlock'[p] = rlock[p] \ B /\ wlock'[p] = wlock[p] \ B
      /\ \A q \in Procs \ {p} : rlock'[q] = rlock[q] /\ wlock'[q] = wlock[q]
      /\ \A q \in Procs : blocker'[q] # q => /\ blocker'[q] = blocker[q] /\ want'[q] = want[q]
                                             /\ q \notin Woken(p, B)
  BY DEF Release, TypeOK, LocksTypeOK
<1>2. SharedOnIndex'
  BY <1>1 DEF SharedOnIndex
<1>3. ASSUME NEW q \in Procs, blocker'[q] # q
      PROVE  (want[q] = Request(q) /\ blocker[q] \in Holders(q, want[q], Mode(q)))'
  <2>1. q # p /\ blocker'[q] = blocker[q] /\ want'[q] = want[q] /\ q \notin Woken(p, B)
    BY <1>1, <1>3 DEF Running
  <2>2. want[q] = Request(q) /\ blocker[q] \in Holders(q, want[q], Mode(q))
    BY <1>3, <2>1 DEF WaitsForHolder
  <2>3. blocker[q] = p => want[q] \cap B = {}
    BY <2>1 DEF Woken
  <2>4. /\ wlock'[blocker[q]] \cap want[q] = wlock[blocker[q]] \cap want[q]
        /\ rlock'[blocker[q]] \cap want[q] = rlock[blocker[q]] \cap want[q]
    BY <1>1, <2>2, <2>3 DEF Holders
  <2>5. Request(q)' = Request(q) /\ Mode(q)' = Mode(q)
    BY <1>3, <2>1, SameRequest DEF WaitersLock
  <2> QED
    BY <2>1, <2>2, <2>4, <2>5 DEF Holders
<1> QED
  BY <1>1, <1>2, <1>3 DEF WaitsForHolder, Holders

LEMMA EndStep ==
  ASSUME WaitInv, WaitersLock, TypeOK, NEW p \in Procs, Dies(p)
  PROVE  WaitInv'
<1> USE DEF WaitInv
<1>1. /\ rlock'[p] = {} /\ wlock'[p] = {} /\ blocker'[p] = p
      /\ \A q \in Procs \ {p} : rlock'[q] = rlock[q] /\ wlock'[q] = wlock[q]
      /\ \A q \in Procs : blocker'[q] # q => /\ blocker'[q] = blocker[q] /\ want'[q] = want[q]
                                             /\ blocker[q] # p
  BY DEF Dies, Vanish, TypeOK, LocksTypeOK
<1>2. Private(p)
  BY DEF Dies, TypeOK, Private
<1>3. SharedOnIndex'
  BY <1>1 DEF SharedOnIndex
<1>4. ASSUME NEW q \in Procs, blocker'[q] # q
      PROVE  (want[q] = Request(q) /\ blocker[q] \in Holders(q, want[q], Mode(q)))'
  <2>1. q # p /\ blocker[q] # p /\ blocker'[q] = blocker[q] /\ want'[q] = want[q]
    BY <1>1, <1>4
  <2>2. want[q] = Request(q) /\ blocker[q] \in Holders(q, want[q], Mode(q))
    BY <1>4, <2>1 DEF WaitsForHolder
  <2>3. Request(q)' = Request(q) /\ Mode(q)' = Mode(q)
    BY <1>2, <1>4, <2>1, SameRequest DEF WaitersLock
  <2> QED
    BY <1>1, <2>1, <2>2, <2>3 DEF Holders
<1> QED
  BY <1>1, <1>3, <1>4 DEF WaitsForHolder, Holders

-----------------------------------------------------------------------------
(* Every step is one of them.                                               *)

LEMMA CallWaits ==
  ASSUME LockInv, WaitInv, NEW p \in Procs, Call(p)
  PROVE  WaitInv'
<1>0. TypeOK /\ WaitersLock
  BY DEF LockInv
<1>1. CASE BeginFetch(p) \/ BeginDelete(p) \/ BeginStore(p)
  <2>1. PICK call : Begin(p, call)
    BY <1>1 DEF BeginFetch, BeginDelete, BeginStore
  <2>2. Private(p) /\ UNCHANGED lockVars
    BY <1>0, <2>1 DEF Begin, Goto, Private, TypeOK
  <2>3. Running(p)
    BY <1>0, <2>1 DEF Begin, WaitersLock, Running, LockStages
  <2> QED
    BY <1>0, <2>2, <2>3, QuietStep
<1>2. CASE NextRec(p) \/ Exit(p) \/ Killed(p)
  BY <1>0, <1>2, EndStep DEF NextRec, Exit, Killed
<1>3. CASE Close(p)
  <2>1. Private(p)
    BY <1>0, <1>3 DEF Close, Goto, Private, TypeOK
  <2>2. Running(p)
    BY <1>0, <1>3 DEF Close, WaitersLock, Running, LockStages
  <2>3. PICK B : Release(p, B)
    BY <1>3 DEF Close
  <2> QED
    BY <1>0, <2>1, <2>2, <2>3, ReleaseStep
<1> QED
  BY <1>1, <1>2, <1>3 DEF Call

LEMMA QuietWaits ==
  ASSUME LockInv, WaitInv, NEW p \in Procs,
         \/ ReadHead(p) \/ Walk(p) \/ ReadData(p) \/ ReadFree(p) \/ BlankIndex(p)
         \/ PushFree(p) \/ RereadHead(p) \/ ReadHead2(p) \/ Overwrite(p)
         \/ FreeHead(p) \/ WalkFree(p) \/ PopFree(p) \/ ReuseData(p) \/ ReuseIndex(p)
         \/ SeekData(p) \/ AppendData(p) \/ SeekIndex(p) \/ AppendIndex(p)
         \/ WriteHead(p)
  PROVE  WaitInv'
<1>0. TypeOK /\ WaitersLock
  BY DEF LockInv
<1>1. UNCHANGED <<op, lockVars>>
  BY DEF ReadHead, Walk, ReadData, ReadFree, BlankIndex, PushFree, RereadHead, ReadHead2,
         KeepHead, Overwrite, FreeHead, WalkFree, PopFree, ReuseData, ReuseIndex, SeekData,
         AppendData, SeekIndex, AppendIndex, WriteHead
<1>2. Running(p)
  BY <1>0 DEF ReadHead, Walk, ReadData, ReadFree, BlankIndex, PushFree, RereadHead, ReadHead2,
         Overwrite, FreeHead, WalkFree, PopFree, ReuseData, ReuseIndex, SeekData,
         AppendData, SeekIndex, AppendIndex, WriteHead, WaitersLock, Running, LockStages
<1>3. PICK s : Goto(p, s)
  BY DEF ReadHead, Walk, ReadData, ReadFree, BlankIndex, PushFree, RereadHead, ReadHead2,
         KeepHead, Overwrite, FreeHead, WalkFree, PopFree, ReuseData, ReuseIndex, SeekData,
         AppendData, SeekIndex, AppendIndex, WriteHead
<1>4. \A q \in Procs \ {p} : h'[q] = h[q]
  <2>0. h \in [Procs -> Handles]
    BY <1>0 DEF TypeOK
  <2>1. CASE \/ ReadHead(p) \/ Walk(p) \/ ReadData(p) \/ ReadFree(p) \/ BlankIndex(p)
             \/ PushFree(p) \/ RereadHead(p) \/ ReadHead2(p) \/ Overwrite(p)
    BY <2>0, <2>1 DEF ReadHead, Walk, ParseBuffer, ReadData, ReadFree, BlankIndex, PushFree,
             RereadHead, ReadHead2, KeepHead, Overwrite
  <2>2. CASE \/ FreeHead(p) \/ WalkFree(p) \/ PopFree(p) \/ ReuseData(p) \/ ReuseIndex(p)
             \/ SeekData(p) \/ AppendData(p) \/ SeekIndex(p) \/ AppendIndex(p)
             \/ WriteHead(p)
    BY <2>0, <2>2 DEF FreeHead, WalkFree, ParseBuffer, PopFree, ReuseData, ReuseIndex,
             SeekData, AppendData, SeekIndex, AppendIndex, WriteHead
  <2> QED
    BY <2>1, <2>2
<1>5. Private(p)
  BY <1>0, <1>1, <1>3, <1>4 DEF Goto, Private, TypeOK
<1> QED
  BY <1>0, <1>1, <1>2, <1>5, QuietStep

LEMMA UnlockWaits ==
  ASSUME LockInv, WaitInv, NEW p \in Procs,
         UnlockFree(p) \/ UnlockData(p) \/ UnlockTail(p) \/ Unlink(p) \/ UnlockChain(p)
  PROVE  WaitInv'
<1>0. TypeOK /\ WaitersLock
  BY DEF LockInv
<1>1. PICK B, s : Release(p, B) /\ Goto(p, s)
  BY DEF UnlockFree, UnlockData, UnlockTail, Unlink, UnlockChain, Unlock
<1>2. Running(p)
  BY <1>0 DEF UnlockFree, UnlockData, UnlockTail, Unlink, UnlockChain, WaitersLock, Running,
              LockStages
<1>3. \A q \in Procs \ {p} : op'[q] = op[q] /\ h'[q] = h[q]
  BY <1>0 DEF UnlockFree, UnlockData, UnlockTail, Unlink, UnlockChain, Unlock, TypeOK
<1>4. Private(p)
  BY <1>0, <1>1, <1>3 DEF Goto, Private, TypeOK
<1> QED
  BY <1>0, <1>1, <1>2, <1>4, ReleaseStep

LEMMA LockingWaits ==
  ASSUME LockInv, WaitInv, NEW p \in Procs, Locking(p)
  PROVE  WaitInv'
<1>0. TypeOK /\ WaitersLock
  BY DEF LockInv
<1>1. CASE Await(p)
  BY <1>0, <1>1, WaitStep
<1>2. CASE Acquire(p)
  <2>1. Private(p)
    BY <1>0, <1>2 DEF Acquire, Goto, Private, TypeOK
  <2> QED
    BY <1>0, <1>2, <2>1, GrantStep DEF Acquire
<1>3. CASE GoWithout(p)
  <2>1. Private(p) /\ Running(p) /\ UNCHANGED lockVars
    BY <1>0, <1>3 DEF GoWithout, LockRefused, Goto, Private, TypeOK
  <2> QED
    BY <1>0, <2>1, QuietStep
<1> QED
  BY <1>1, <1>2, <1>3 DEF Locking

LEMMA WaitInvNext == LockInv /\ WaitInv /\ [Next]_vars => WaitInv'
<1> SUFFICES ASSUME LockInv, WaitInv, [Next]_vars PROVE WaitInv'
  OBVIOUS
<1>0. TypeOK /\ WaitersLock
  BY DEF LockInv
<1>1. CASE UNCHANGED vars
  <2>1. /\ UNCHANGED <<rlock, wlock, blocker, want>>
        /\ \A q \in Procs : pc'[q] = pc[q] /\ op'[q] = op[q] /\ h'[q] = h[q]
    BY <1>1 DEF vars
  <2>2. ASSUME NEW q \in Procs PROVE WaitsForHolder(q)'
    <3>1. CASE blocker[q] = q
      BY <2>1, <3>1 DEF WaitsForHolder
    <3>2. CASE blocker[q] # q
      <4>1. Private(blocker[q]) /\ blocker[q] \in Procs /\ pc[q] \in LockStages
        BY <1>0, <2>1, <3>2 DEF Private, WaitersLock, TypeOK, LocksTypeOK
      <4> QED
        BY <2>1, <3>2, <4>1, SameRequest DEF WaitInv, WaitsForHolder, Holders
    <3> QED
      BY <3>1, <3>2
  <2> QED
    BY <2>1, <2>2 DEF WaitInv, SharedOnIndex
<1>2. ASSUME NEW p \in Procs, Work(p) PROVE WaitInv'
  BY <1>0, <1>2, EndStep, QuietWaits, UnlockWaits DEF Work, Segv
<1>3. ASSUME NEW p \in Procs, Call(p) \/ Locking(p) PROVE WaitInv'
  BY <1>3, CallWaits, LockingWaits
<1> QED
  BY <1>1, <1>2, <1>3 DEF Next, Terminated

-----------------------------------------------------------------------------
(* A refusal needs a leak.                                                  *)

LEMMA RefusedByLeak ==
  ASSUME LockInv, WaitInv, NEW p \in Procs, GoWithout(p)
  PROVE  \E q \in Procs : Leaks(q)
<1> DEFINE Inside(q) == pc[q] \in FreeSection \cup TailSection \cup DataSection
<1> SUFFICES ASSUME \A q \in Procs : ~Leaks(q) PROVE FALSE
  OBVIOUS
<1>0. TypeOK /\ WaitersLock /\ HeldOnly
  BY DEF LockInv
<1>1. PICK q \in Holders(p, Request(p), Mode(p)) : WaitsOn(q, p)
  BY DEF GoWithout, LockRefused
<1>2. q \in Procs /\ q # p
  BY <1>1 DEF Holders
<1>3. \A r \in Procs : \A b \in rlock[r] \cup wlock[r] : b[1] = "dat" => Inside(r)
  BY DEF Leaks, WaitInv, SharedOnIndex
<1>4. ASSUME NEW x \in Procs, pc[x] \in LockStages, pc[x] # "lockChain",
             NEW r \in Holders(x, Request(x), Mode(x))
      PROVE  Inside(r)
  <2>1. r \in Procs
    BY DEF Holders
  <2>2. PICK b \in Request(x) : b \in rlock[r] \cup wlock[r]
    BY DEF Holders
  <2>3. CASE pc[x] = "lockBlank" \/ pc[x] = "lockData"
    <3>1. \A c \in Request(x) : c[1] = "dat"
      <4>1. /\ pc[x] = "lockBlank" => Request(x) = {<<"dat", h[x].dataOff>>}
            /\ pc[x] = "lockData" => Request(x) = DatBytes
        BY DEF Request
      <4> QED
        BY <2>3, <4>1 DEF DatBytes
    <3> QED
      BY <1>3, <2>1, <2>2, <3>1
  <2>4. CASE pc[x] = "lockFree" \/ pc[x] = "lockTail"
    <3>1. b = FreeByte \/ b = TailByte
      <4>1. /\ pc[x] = "lockFree" => Request(x) = {FreeByte}
            /\ pc[x] = "lockTail" => Request(x) = {TailByte}
        BY DEF Request
      <4> QED
        BY <2>2, <2>4, <4>1
    <3>2. InChain(r) => op[r].key \in Keys
      BY <1>0, <2>1 DEF TypeOK, InChain, ChainSection, LockStages, FreeSection, DataSection,
                        TailSection, Resting
    <3>3. MayHold(r, b)
      BY <1>0, <2>1, <2>2 DEF HeldOnly
    <3> QED
      BY <3>1, <3>2, <3>3, BytesApart DEF MayHold, FreeByte, TailByte
  <2> QED
    BY <1>4, <2>3, <2>4 DEF LockStages
<1>5. \A r \in Procs : Inside(r) => Running(r) /\ pc[r] # "lockChain"
  BY <1>0 DEF WaitersLock, Running, LockStages, FreeSection, TailSection, DataSection
<1>6. pc[p] \in LockStages /\ op[p].key \in Keys
  BY <1>0 DEF GoWithout, TypeOK, LockStages, Resting
<1> HIDE DEF Inside
<1>7. CASE pc[p] # "lockChain"
  BY <1>1, <1>2, <1>4, <1>5, <1>6, <1>7, RunningWaitsOnNobody
<1>8. CASE pc[p] = "lockChain"
  <2>1. Request(p) = {ChainByte(op[p].key)}
    BY <1>8 DEF Request
  <2>2. ChainByte(op[p].key) \in rlock[q] \cup wlock[q]
    BY <1>1, <2>1 DEF Holders
  <2>3. MayHold(q, ChainByte(op[p].key)) /\ ChainByte(op[p].key)[1] = "idx"
    BY <1>0, <1>2, <1>6, <2>2, BytesApart DEF HeldOnly
  <2>4. pc[q] # "lockChain"
    BY <2>3 DEF MayHold, InChain, ChainSection, FreeSection, TailSection, DataSection, LockStages
  <2>5. blocker[q] # q
    BY <1>1, <1>2, RunningWaitsOnNobody DEF Running
  <2>6. pc[q] \in LockStages /\ blocker[q] \in Holders(q, Request(q), Mode(q))
    BY <1>0, <1>2, <2>5 DEF WaitersLock, WaitInv, WaitsForHolder
  <2>7. blocker[q] \in Procs /\ Inside(blocker[q])
    BY <1>2, <1>4, <2>4, <2>6 DEF Holders
  <2>8. blocker[blocker[q]] = blocker[q] /\ blocker[q] # p
    BY <1>5, <1>8, <2>7 DEF Running
  <2>9. LET S == {q, blocker[q]}
        IN  S \in SUBSET Procs /\ q \in S /\ (\A r \in S : blocker[r] \in S) /\ p \notin S
    BY <1>2, <2>7, <2>8
  <2> QED
    BY <1>1, <2>9 DEF WaitsOn
<1> QED
  BY <1>7, <1>8

\* No other step adds a refusal.
LEMMA RefusedSteps ==
  ASSUME TypeOK, NEW p \in Procs, Call(p) \/ Work(p) \/ Acquire(p) \/ Await(p)
  PROVE  \A q \in Procs : refused'[q] \subseteq refused[q]
<1> USE DEF TypeOK
<1>1. ASSUME Dies(p) PROVE \A q \in Procs : refused'[q] \subseteq refused[q]
  BY <1>1 DEF Dies
<1>2. CASE Call(p)
  BY <1>1, <1>2 DEF Call, BeginFetch, BeginDelete, BeginStore, Begin, NextRec, Close, Exit,
                    Killed
<1>3. CASE Acquire(p) \/ Await(p)
  BY <1>3 DEF Acquire, Await, procVars
<1>4. CASE Work(p)
  BY <1>1, <1>4
  DEF Work, ReadHead, Walk, Segv, ReadData, UnlockChain, ReadFree, BlankIndex, PushFree,
      Unlink, RereadHead, ReadHead2, KeepHead, Overwrite, FreeHead, WalkFree, PopFree,
      UnlockFree, Unlock, ReuseData, ReuseIndex, SeekData, AppendData, UnlockData, SeekIndex,
      AppendIndex, UnlockTail, WriteHead
<1> QED
  BY <1>2, <1>3, <1>4

\* For any number of processes: without the lock on the data that Hmdb_Dodelete
\* never gives back no lock of hmdb.c is ever refused, which is to say that no
\* ring of waiting processes can close.
THEOREM RefusalsNeedLeaks == Spec => RefusalNeedsLeak
<1>1. Init => WaitInv
  BY WaitInvInit
<1>2. LockInv /\ WaitInv /\ [Next]_vars => WaitInv'
  BY WaitInvNext
<1>3. LockInv /\ WaitInv /\ [Next]_vars
        => [\A p \in Procs : refused'[p] \subseteq refused[p] \/ \E q \in Procs : Leaks(q)]_vars
  <2> SUFFICES ASSUME LockInv, WaitInv, Next
               PROVE  \A p \in Procs :
                         refused'[p] \subseteq refused[p] \/ \E q \in Procs : Leaks(q)
    OBVIOUS
  <2>0. TypeOK
    BY DEF LockInv
  <2>1. ASSUME NEW p \in Procs, GoWithout(p) PROVE \E q \in Procs : Leaks(q)
    BY <2>1, RefusedByLeak
  <2>2. ASSUME NEW p \in Procs, Call(p) \/ Work(p) \/ Acquire(p) \/ Await(p)
        PROVE  \A q \in Procs : refused'[q] \subseteq refused[q]
    BY <2>0, <2>2, RefusedSteps
  <2>3. CASE Terminated
    BY <2>3 DEF Terminated, vars
  <2> QED
    BY <2>1, <2>2, <2>3 DEF Next, Locking
<1> QED
  BY <1>1, <1>2, <1>3, LocksHeld, PTL DEF Spec, RefusalNeedsLeak

-----------------------------------------------------------------------------
(***************************************************************************)
(* The free list.  Hmdb_Dodelete pushes a record on it without its lock,   *)
(* and takes it off its chain afterwards; that no record is on both is not *)
(* a matter of that lock, but of who has the record in hand.               *)
(***************************************************************************)

Doomed == {"lockBlank", "readFree", "blankIndex", "pushFree"}
Taking == {"walkFree", "popFree"}
Reusing == {"popFree", "reuseData", "reuseIndex"}
Placing == {"appendIndex", "unlockTail", "writeHead"}

HoldsData(p) == \E b \in wlock[p] : b[1] = "dat"
Whole(p) == "lockChain" \notin refused[p] /\ op[p].kind # "fetch"

(* First part, about each process alone.  A process that keeps the lock of  *)
(* a delete has nothing in its buffer that a search could find, until an    *)
(* append has given the lock back.                                          *)
SpentText(p) ==
  /\ pc[p] = "lockBlank" => buf[p].key = Blank
  /\ HoldsData(p) => /\ pc[p] \in DataSection \/ buf[p].key = Blank
                     /\ pc[p] \notin {"lockTail"} \cup TailSection \cup Reusing
                     /\ pc[p] = "unlockFree" => h[p].walk = 0

\* So a process that was refused its chain, as only one that keeps such a lock
\* can be, finds nothing there and takes nothing from the free list.
FindsNothing(p) ==
  "lockChain" \in refused[p] =>
    /\ pc[p] \notin Reusing \cup Doomed \cup {"unlink", "rereadHead", "rest", "lockChain"}
    /\ pc[p] \in {"readHead", "walk", "readHead2", "lockFree", "freeHead", "walkFree"}
         => buf[p].key = Blank
    /\ pc[p] = "unlockFree" => h[p].walk = 0

\* A delete has its chain to itself, and what the handle leads to at each stage:
\* a record, or nothing after it.
HandleReady(p) ==
  /\ pc[p] \in Doomed \cup {"unlink"} => Whole(p)
  /\ pc[p] \in {"lockBlank", "readFree", "popFree"} => h[p].next = 0
  /\ pc[p] \in {"blankIndex", "pushFree", "unlink"} => h[p].save = 0
  /\ pc[p] \in {"walk", "walkFree"} => h[p].walk # 0
  /\ pc[p] \in Doomed \cup Reusing \cup Placing => h[p].indexOff # 0
  /\ pc[p] = "unlockFree" /\ h[p].walk # 0 => h[p].indexOff # 0

HandleSafe(p) == SpentText(p) /\ FindsNothing(p) /\ HandleReady(p)

(* Second part: where the index file ends.                                  *)
FileGrows ==
  /\ 0 < idxEnd
  /\ \A a \in DOMAIN idx : 0 < a /\ a + RecLen <= idxEnd
  /\ \A p \in Procs : pc[p] = "appendIndex" => h[p].indexOff = idxEnd

(* Third part: p has the record at the offset a in hand.                    *)
Has(p, a) ==
  \/ pc[p] = "walk" /\ Whole(p) /\ a = h[p].walk
  \/ pc[p] = "walkFree" /\ a = h[p].walk
  \/ pc[p] = "unlockFree" /\ h[p].walk # 0 /\ a = h[p].indexOff
  \/ pc[p] \in Doomed \cup Reusing \cup Placing /\ a = h[p].indexOff

Moving(o) == \E q \in Procs : pc[q] = "unlink" /\ LinkHeadOff(op[q].key) = o
ChainOffs == {LinkHeadOff(k) : k \in Keys}

\* A record is in one hand at a time; who holds the head of the free list is in
\* Hmdb_FindFree, who holds that of a chain is on that chain; and no record heads
\* two lists, but for those a delete is moving.
OneHand == \A p, q \in Procs : \A a : Has(p, a) /\ Has(q, a) => p = q
FreeTaken == \A p \in Procs : Has(p, ptr[FREE_OFF]) => pc[p] \in Taking
HeadTaken ==
  \A p \in Procs : \A o \in ChainOffs :
     Has(p, ptr[o]) => \/ Moving(o)
                       \/ pc[p] \in Doomed \cup {"walk"} /\ LinkHeadOff(op[p].key) = o
ChainsApart ==
  \A o, u \in ChainOffs : o # u /\ ptr[o] = ptr[u] /\ ptr[o] # 0 => Moving(o) \/ Moving(u)
FreeApart == \A o \in ChainOffs : ptr[o] = ptr[FREE_OFF] /\ ptr[o] # 0 => Moving(o)

Wounded == \E p \in Mortal : pc[p] = "dead"
RecordInv == OneHand /\ FreeTaken /\ HeadTaken /\ ChainsApart /\ FreeApart

ListInv == (\A p \in Procs : HandleSafe(p)) /\ FileGrows /\ (Wounded \/ RecordInv)
Known == LockInv /\ WaitInv /\ PointerInv

LEMMA ListInvInit == Init => ListInv
<1> SUFFICES ASSUME Init PROVE ListInv
  OBVIOUS
<1>1. /\ \A p \in Procs : pc[p] = "rest" /\ wlock[p] = {} /\ refused[p] = {}
      /\ \A o \in HeadOffs : ptr[o] = 0
      /\ DOMAIN idx = {} /\ idxEnd = RecordsOff /\ RecordsOff > 0
  BY DEF Init, LocksInit, RecordsOff, HASH_SIZE, PTR_SIZE
<1>2. \A p \in Procs : HandleSafe(p) /\ \A a : ~Has(p, a)
  BY <1>1 DEF HandleSafe, SpentText, FindsNothing, HandleReady, HoldsData, Has, Doomed, Reusing, Placing
<1>3. FileGrows
  BY <1>1 DEF FileGrows
<1>4. ChainOffs \subseteq HeadOffs
  BY DEF ChainOffs, HeadOffs
<1>5. RecordInv
  BY <1>1, <1>2, <1>4 DEF RecordInv, OneHand, FreeTaken, HeadTaken, ChainsApart, FreeApart
<1> QED
  BY <1>2, <1>3, <1>5 DEF ListInv

-----------------------------------------------------------------------------
(* The first part is inductive.                                             *)

\* A step of p leaves alone what belongs to the others.
Untouched(p) ==
  \A q \in Procs \ {p} :
     /\ pc'[q] = pc[q] /\ op'[q] = op[q] /\ h'[q] = h[q] /\ buf'[q] = buf[q]
     /\ refused'[q] = refused[q] /\ wlock'[q] = wlock[q]

LEMMA OthersUntouched ==
  ASSUME TypeOK, NEW p \in Procs, Call(p) \/ Work(p) \/ Locking(p)
  PROVE  Untouched(p)
<1> USE DEF TypeOK, Untouched, Goto
<1>1. ASSUME Dies(p) PROVE Untouched(p)
  BY <1>1 DEF Dies, Vanish, LocksTypeOK
<1>2. CASE Call(p)
  <2>1. CASE BeginFetch(p) \/ BeginDelete(p) \/ BeginStore(p)
    BY <2>1 DEF BeginFetch, BeginDelete, BeginStore, Begin, lockVars
  <2>2. CASE Close(p)
    BY <2>2, ReleaseEffect DEF Close
  <2> QED
    BY <1>1, <1>2, <2>1, <2>2 DEF Call, NextRec, Exit, Killed
<1>3. CASE Locking(p)
  BY <1>3 DEF Locking, Acquire, Await, GoWithout, LockGranted, LockWaits, LockRefused,
              LocksTypeOK, procVars, lockVars
<1>4. CASE Work(p)
  <2>1. CASE Unlink(p) \/ UnlockChain(p) \/ UnlockFree(p) \/ UnlockData(p) \/ UnlockTail(p)
    <3>1. PICK B : Release(p, B)
      BY <2>1 DEF Unlink, UnlockChain, UnlockFree, UnlockData, UnlockTail, Unlock
    <3>2. \A q \in Procs \ {p} : wlock'[q] = wlock[q]
      BY <3>1, ReleaseEffect
    <3> QED
      BY <2>1, <3>2 DEF Unlink, UnlockChain, UnlockFree, UnlockData, UnlockTail, Unlock
  <2>2. CASE Segv(p)
    BY <1>1, <2>2 DEF Segv
  <2>3. CASE \/ ReadHead(p) \/ Walk(p) \/ ReadData(p) \/ ReadFree(p) \/ PushFree(p)
             \/ RereadHead(p) \/ ReadHead2(p) \/ Overwrite(p) \/ FreeHead(p) \/ WalkFree(p)
             \/ PopFree(p)
    BY <2>3 DEF ReadHead, Walk, ParseBuffer, ReadData, ReadFree, PushFree, RereadHead,
                ReadHead2, KeepHead, Overwrite, FreeHead, WalkFree, PopFree, lockVars
  <2>4. CASE \/ BlankIndex(p) \/ ReuseData(p) \/ ReuseIndex(p) \/ SeekData(p) \/ AppendData(p)
             \/ SeekIndex(p) \/ AppendIndex(p) \/ WriteHead(p)
    BY <2>4 DEF BlankIndex, ReuseData, ReuseIndex, PutRecord, SeekData, AppendData, SeekIndex,
                AppendIndex, WriteHead, lockVars
  <2> QED
    BY <1>4, <2>1, <2>2, <2>3, <2>4 DEF Work
<1> QED
  BY <1>2, <1>3, <1>4


\* Who is refused its chain holds a data byte: somebody waits for a lock of p,
\* which has none on the index file yet.
LEMMA RefusedHolds ==
  ASSUME LockInv, WaitInv, NEW p \in Procs, GoWithout(p), pc[p] = "lockChain"
  PROVE  HoldsData(p)
<1>0. TypeOK /\ WaitersLock /\ HeldOnly
  BY DEF LockInv
<1>1. PICK q \in Holders(p, Request(p), Mode(p)) : WaitsOn(q, p)
  BY DEF GoWithout, LockRefused
<1>2. PICK r \in Procs \ {p} : blocker[r] = p
  <2> SUFFICES ASSUME \A r \in Procs \ {p} : blocker[r] # p PROVE FALSE
    OBVIOUS
  <2> DEFINE S == Procs \ {p}
  <2>1. S \in SUBSET Procs /\ q \in S /\ \A r \in S : blocker[r] \in S
    BY <1>0, <1>1 DEF Holders, TypeOK, LocksTypeOK
  <2> QED
    BY <1>1, <2>1 DEF WaitsOn
<1>3. p \in Holders(r, Request(r), Mode(r))
  BY <1>2 DEF WaitInv, WaitsForHolder
<1>4. PICK b \in Request(r) : b \in rlock[p] \cup wlock[p]
  BY <1>3 DEF Holders
<1>5. MayHold(p, b)
  BY <1>0, <1>4 DEF HeldOnly
<1>6. b[1] = "dat"
  BY <1>5 DEF MayHold, InChain, ChainSection, FreeSection, TailSection, DataSection, LockStages
<1> QED
  BY <1>4, <1>6 DEF HoldsData, WaitInv, SharedOnIndex

LEMMA SafeDies ==
  ASSUME TypeOK, NEW p \in Procs, Dies(p)
  PROVE  HandleSafe(p)'
<1>1. pc'[p] = "dead" /\ wlock'[p] = {} /\ refused'[p] = {}
  BY DEF Dies, Vanish, TypeOK, LocksTypeOK
<1> QED
  BY <1>1 DEF HandleSafe, SpentText, FindsNothing, HandleReady, HoldsData, Doomed, Reusing,
              Placing, DataSection, TailSection

LEMMA SafeCall ==
  ASSUME TypeOK, NEW p \in Procs, HandleSafe(p), Call(p)
  PROVE  HandleSafe(p)'
<1> USE DEF HandleSafe, SpentText, FindsNothing, HandleReady, HoldsData, Doomed, Reusing,
            Placing, DataSection, TailSection
<1>1. CASE BeginFetch(p) \/ BeginDelete(p) \/ BeginStore(p)
  <2>1. /\ pc[p] = "rest" /\ pc'[p] = "lockChain"
        /\ UNCHANGED <<h, buf, refused, wlock>>
    BY <1>1 DEF BeginFetch, BeginDelete, BeginStore, Begin, lockVars, Goto, TypeOK
  <2> QED
    BY <2>1
<1>2. CASE Close(p)
  <2>1. /\ pc[p] = "rest" /\ pc'[p] = "closed" /\ buf'[p] = NoText
        /\ wlock'[p] \subseteq wlock[p] /\ UNCHANGED <<h, refused>>
    BY <1>2, ReleaseEffect DEF Close, Goto, TypeOK
  <2> QED
    BY <2>1 DEF NoText
<1> QED
  BY <1>1, <1>2, SafeDies DEF Call, NextRec, Exit, Killed

LEMMA SafeLocking ==
  ASSUME LockInv, WaitInv, NEW p \in Procs, HandleSafe(p), Locking(p)
  PROVE  HandleSafe(p)'
<1> USE DEF HandleSafe, SpentText, FindsNothing, HandleReady, HoldsData, Doomed, Reusing,
            Placing, DataSection, TailSection, Whole
<1>0. TypeOK
  BY DEF LockInv
<1>1. CASE Await(p)
  BY <1>1 DEF Await, procVars, LockWaits
<1>2. CASE Acquire(p) \/ GoWithout(p)
  <2>1. /\ pc[p] \in LockStages /\ pc'[p] = AfterLock[pc[p]]
        /\ UNCHANGED <<op, h, buf>>
    BY <1>0, <1>2 DEF Acquire, GoWithout, Goto, TypeOK
  <2>2. /\ pc[p] = "lockChain" => pc'[p] = "readHead"
        /\ pc[p] = "lockBlank" => pc'[p] = "readFree"
        /\ pc[p] = "lockFree" => pc'[p] = "freeHead"
        /\ pc[p] = "lockData" => pc'[p] = "seekData"
        /\ pc[p] = "lockTail" => pc'[p] = "seekIndex"
    BY <2>1 DEF AfterLock, LockStages
  <2>3. CASE Acquire(p)
    <3>1. refused' = refused /\ wlock'[p] \subseteq wlock[p] \cup Request(p)
      BY <1>0, <2>3 DEF Acquire, LockGranted, TypeOK, LocksTypeOK
    <3>2. pc[p] \notin {"lockBlank", "lockData"} => \A b \in Request(p) : b[1] = "idx"
      BY <2>1 DEF Request, LockStages, ChainByte, FreeByte, TailByte
    <3>3. HoldsData(p)' => HoldsData(p) \/ pc[p] \in {"lockBlank", "lockData"}
      BY <3>1, <3>2
    <3> QED
      BY <2>1, <2>2, <3>1, <3>3 DEF LockStages
  <2>4. CASE GoWithout(p)
    <3>1. wlock' = wlock /\ refused'[p] = refused[p] \cup {pc[p]}
      BY <1>0, <2>4 DEF GoWithout, LockRefused, lockVars, TypeOK
    <3>2. pc[p] = "lockChain" => buf[p].key = Blank
      BY <2>4, RefusedHolds
    <3> QED
      BY <2>1, <2>2, <3>1, <3>2 DEF LockStages
  <2> QED
    BY <1>2, <2>3, <2>4
<1> QED
  BY <1>1, <1>2 DEF Locking


LEMMA SafeUnlock ==
  ASSUME LockInv, NEW p \in Procs, HandleSafe(p),
         UnlockFree(p) \/ UnlockData(p) \/ UnlockTail(p) \/ Unlink(p) \/ UnlockChain(p)
  PROVE  HandleSafe(p)'
<1> USE DEF HandleSafe, SpentText, FindsNothing, HandleReady, HoldsData, Doomed, Reusing,
            Placing, DataSection, TailSection, Whole
<1>0. TypeOK
  BY DEF LockInv
<1>1. buf' = buf /\ wlock'[p] \subseteq wlock[p]
  <2>1. PICK B : Release(p, B)
    BY DEF UnlockFree, UnlockData, UnlockTail, Unlink, UnlockChain, Unlock
  <2> QED
    BY <1>0, <2>1, ReleaseEffect
    DEF UnlockFree, UnlockData, UnlockTail, Unlink, UnlockChain, Unlock
<1>2. CASE UnlockFree(p)
  <2>1. /\ pc[p] = "unlockFree" /\ UNCHANGED <<op, h, refused>>
        /\ pc'[p] = IF h[p].walk = 0 THEN "lockData" ELSE "reuseData"
    BY <1>0, <1>2 DEF UnlockFree, Unlock, Goto, TypeOK
  <2> QED
    BY <1>1, <2>1
<1>3. CASE UnlockData(p)
  <2>1. /\ pc[p] = "unlockData" /\ UNCHANGED <<op, h, refused>> /\ pc'[p] = "lockTail"
    BY <1>0, <1>3 DEF UnlockData, Unlock, Goto, TypeOK
  <2>2. wlock'[p] = wlock[p] \ Held(p, "dat")
    BY <1>0, <1>3, ReleaseEffect DEF UnlockData, Unlock
  <2>3. ~HoldsData(p)'
    BY <2>2 DEF Held
  <2> QED
    BY <2>1, <2>3
<1>4. CASE UnlockTail(p)
  <2>1. /\ pc[p] = "unlockTail" /\ UNCHANGED <<op, h, refused>> /\ pc'[p] = "writeHead"
    BY <1>0, <1>4 DEF UnlockTail, Unlock, Goto, TypeOK
  <2> QED
    BY <1>1, <2>1
<1>5. CASE Unlink(p)
  <2>1. /\ pc[p] = "unlink" /\ UNCHANGED <<op, h, refused>>
        /\ pc'[p] \in {"unlockChain", "rereadHead"}
    BY <1>0, <1>5 DEF Unlink, Goto, TypeOK
  <2> QED
    BY <1>1, <2>1
<1>6. CASE UnlockChain(p)
  <2>1. /\ pc[p] = "unlockChain" /\ pc'[p] = "rest" /\ refused'[p] = {}
    BY <1>0, <1>6 DEF UnlockChain, Goto, TypeOK
  <2> QED
    BY <1>1, <2>1
<1> QED
  BY <1>2, <1>3, <1>4, <1>5, <1>6

\* The head of a chain, or of the free list, is read: it is followed if it leads
\* anywhere.
LEMMA SafeReadsHead ==
  ASSUME TypeOK, NEW p \in Procs, HandleSafe(p),
         \/ ReadHead(p) \/ FreeHead(p) \/ ReadHead2(p) \/ RereadHead(p)
  PROVE  HandleSafe(p)'
<1> USE DEF HandleSafe, SpentText, FindsNothing, HandleReady, HoldsData, Doomed, Reusing,
            Placing, DataSection, TailSection, Whole
<1>1. h[p] \in Handles /\ UNCHANGED <<op, buf, refused, wlock>>
  BY DEF TypeOK, ReadHead, FreeHead, ReadHead2, RereadHead, KeepHead, lockVars
<1>2. CASE ReadHead(p)
  <2>1. /\ pc[p] = "readHead" /\ h'[p].walk = ptr[LinkHeadOff(op[p].key)]
        /\ pc'[p] = IF ptr[LinkHeadOff(op[p].key)] = 0 THEN AfterMissed(p) ELSE "walk"
    BY <1>1, <1>2 DEF ReadHead, Goto, TypeOK, Handles
  <2> QED
    BY <1>1, <2>1 DEF AfterMissed
<1>3. CASE FreeHead(p)
  <2>1. /\ pc[p] = "freeHead" /\ h'[p].walk = ptr[FREE_OFF]
        /\ pc'[p] = IF ptr[FREE_OFF] = 0 THEN "unlockFree" ELSE "walkFree"
    BY <1>1, <1>3 DEF FreeHead, Goto, TypeOK, Handles
  <2> QED
    BY <1>1, <2>1
<1>4. CASE ReadHead2(p) \/ RereadHead(p)
  <2>1. \/ pc[p] = "readHead2" /\ pc'[p] = "lockFree"
        \/ pc[p] = "rereadHead" /\ pc'[p] = "lockData"
    BY <1>4 DEF ReadHead2, RereadHead, KeepHead, Goto, TypeOK
  <2> QED
    BY <1>1, <2>1
<1> QED
  BY <1>2, <1>3, <1>4

\* A record is parsed, which leaves nothing in the buffer.
LEMMA SafeParses ==
  ASSUME TypeOK, NEW p \in Procs, HandleSafe(p), Walk(p) \/ WalkFree(p)
  PROVE  HandleSafe(p)'
<1> USE DEF HandleSafe, SpentText, FindsNothing, HandleReady, HoldsData, Doomed, Reusing,
            Placing, DataSection, TailSection, Whole
<1>1. PICK hit : /\ ParseBuffer(p, hit)
                 /\ Walk(p) => hit = (buf[p].key = op[p].key)
                 /\ WalkFree(p) => hit = Fits(p)
  BY DEF Walk, WalkFree
<1>2. /\ h'[p].walk = IF hit THEN h[p].walk ELSE 0
      /\ h'[p].next = 0 /\ h'[p].indexOff = h[p].walk /\ h'[p].save = h[p].save
  BY <1>1 DEF ParseBuffer, TypeOK, Handles
<1>3. buf'[p].key = Blank
  BY <1>1 DEF ParseBuffer, TypeOK, NoText
<1>4. UNCHANGED <<op, refused, wlock>> /\ op[p].key \in Keys
  BY DEF Walk, WalkFree, lockVars, TypeOK, Resting
<1>5. CASE Walk(p)
  <2>1. /\ pc[p] = "walk"
        /\ pc'[p] = IF buf[p].key = op[p].key THEN AfterFound(p, buf[p].len) ELSE AfterMissed(p)
    BY <1>5 DEF Walk, Goto, TypeOK
  <2> QED
    BY <1>2, <1>3, <1>4, <2>1, Parameters DEF AfterFound, AfterMissed
<1>6. CASE WalkFree(p)
  <2>1. /\ pc[p] = "walkFree" /\ pc'[p] = IF Fits(p) THEN "popFree" ELSE "unlockFree"
    BY <1>6 DEF WalkFree, Goto, TypeOK
  <2> QED
    BY <1>1, <1>2, <1>3, <1>4, <1>6, <2>1 DEF Fits
<1> QED
  BY <1>5, <1>6

\* A record is written, which leaves its text in the buffer.
LEMMA SafePuts ==
  ASSUME TypeOK, NEW p \in Procs, HandleSafe(p),
         BlankIndex(p) \/ ReuseIndex(p) \/ AppendIndex(p)
  PROVE  HandleSafe(p)'
<1> USE DEF HandleSafe, SpentText, FindsNothing, HandleReady, HoldsData, Doomed, Reusing,
            Placing, DataSection, TailSection, Whole
<1>1. /\ UNCHANGED <<op, refused, wlock>>
      /\ h'[p].indexOff = h[p].indexOff /\ h'[p].save = h[p].save
  BY DEF BlankIndex, ReuseIndex, AppendIndex, lockVars, TypeOK, Handles
<1>2. CASE BlankIndex(p)
  <2>1. pc[p] = "blankIndex" /\ pc'[p] = "pushFree" /\ buf'[p].key = Blank
    BY <1>2 DEF BlankIndex, Goto, TypeOK, PutRecord, Text
  <2> QED
    BY <1>1, <2>1
<1>3. CASE ReuseIndex(p)
  <2>1. pc[p] = "reuseIndex" /\ pc'[p] = "writeHead"
    BY <1>3 DEF ReuseIndex, Goto, TypeOK
  <2> QED
    BY <1>1, <2>1
<1>4. CASE AppendIndex(p)
  <2>1. pc[p] = "appendIndex" /\ pc'[p] = "unlockTail"
    BY <1>4 DEF AppendIndex, Goto, TypeOK
  <2> QED
    BY <1>1, <2>1
<1> QED
  BY <1>2, <1>3, <1>4

\* The remaining steps change no lock and no text.
LEMMA SafeMoves ==
  ASSUME TypeOK, FileGrows, NEW p \in Procs, HandleSafe(p),
         \/ ReadData(p) \/ Overwrite(p) \/ ReadFree(p) \/ PushFree(p) \/ PopFree(p)
         \/ ReuseData(p) \/ SeekData(p) \/ AppendData(p) \/ SeekIndex(p) \/ WriteHead(p)
  PROVE  HandleSafe(p)'
<1> USE DEF HandleSafe, SpentText, FindsNothing, HandleReady, HoldsData, Doomed, Reusing,
            Placing, DataSection, TailSection, Whole
<1>1. UNCHANGED <<op, buf, refused, wlock>> /\ h[p] \in Handles
  BY DEF ReadData, Overwrite, ReadFree, PushFree, PopFree, ReuseData, SeekData, AppendData,
         SeekIndex, WriteHead, lockVars, TypeOK
<1>2. CASE ReadData(p) \/ Overwrite(p) \/ PushFree(p) \/ PopFree(p) \/ WriteHead(p)
  <2>1. h' = h /\ <<pc[p], pc'[p]>> \in
          {<<"readData", "unlockChain">>, <<"overwrite", "unlockChain">>,
           <<"pushFree", "unlink">>, <<"popFree", "unlockFree">>, <<"writeHead", "unlockChain">>}
    BY <1>2 DEF ReadData, Overwrite, PushFree, PopFree, WriteHead, Goto, TypeOK
  <2> QED
    BY <1>1, <2>1
<1>3. CASE ReadFree(p)
  <2>1. /\ pc[p] = "readFree" /\ pc'[p] = "blankIndex"
        /\ h'[p].save = h[p].next /\ h'[p].indexOff = h[p].indexOff
    BY <1>1, <1>3 DEF ReadFree, Goto, TypeOK, Handles
  <2> QED
    BY <1>1, <2>1
<1>4. CASE ReuseData(p) \/ SeekData(p) \/ AppendData(p)
  <2>1. /\ <<pc[p], pc'[p]>> \in {<<"reuseData", "reuseIndex">>, <<"seekData", "appendData">>,
                                  <<"appendData", "unlockData">>}
        /\ h'[p].indexOff = h[p].indexOff
    BY <1>1, <1>4 DEF ReuseData, SeekData, AppendData, Goto, TypeOK, Handles
  <2> QED
    BY <1>1, <2>1
<1>5. CASE SeekIndex(p)
  <2>1. pc[p] = "seekIndex" /\ pc'[p] = "appendIndex" /\ h'[p].indexOff = idxEnd /\ idxEnd # 0
    BY <1>1, <1>5 DEF SeekIndex, Goto, TypeOK, Handles, FileGrows
  <2> QED
    BY <1>1, <2>1
<1> QED
  BY <1>2, <1>3, <1>4, <1>5

LEMMA SafeNext ==
  ASSUME Known, ListInv, NEW p \in Procs, Call(p) \/ Work(p) \/ Locking(p)
  PROVE  \A q \in Procs : HandleSafe(q)'
<1> USE DEF Known
<1>0. TypeOK /\ HandleSafe(p) /\ FileGrows
  BY DEF LockInv, ListInv
<1>1. HandleSafe(p)'
  BY <1>0, SafeDies, SafeCall, SafeLocking, SafeUnlock, SafeReadsHead, SafeParses, SafePuts,
     SafeMoves DEF Work, Segv
<1>2. ASSUME NEW q \in Procs \ {p} PROVE HandleSafe(q)'
  <2>1. Untouched(p) /\ HandleSafe(q)
    BY <1>0, OthersUntouched DEF ListInv
  <2> QED
    BY <2>1 DEF Untouched, HandleSafe, SpentText, FindsNothing, HandleReady, HoldsData, Whole
<1> QED
  BY <1>1, <1>2


-----------------------------------------------------------------------------
(* The second part is inductive: a record that is rewritten lies before the *)
(* end of the file, and only one process is appending.                      *)

\* What is in hand is a record, but for one that is about to be appended.
LEMMA InHand ==
  ASSUME PointerInv, NEW p \in Procs, HandleSafe(p), NEW a, Has(p, a)
  PROVE  a # 0 /\ (pc[p] # "appendIndex" => a \in DOMAIN idx)
<1>1. h[p].walk \in Resolved /\ (pc[p] # "appendIndex" => h[p].indexOff \in Resolved)
  BY HandleOf DEF HandleResolves
<1> QED
  BY <1>1 DEF Has, HandleSafe, HandleReady, Resolved, Doomed, Reusing, Placing

LEMMA PutGrows ==
  ASSUME Known, ListInv, NEW p \in Procs, BlankIndex(p) \/ ReuseIndex(p) \/ AppendIndex(p)
  PROVE  FileGrows'
<1> DEFINE off == h[p].indexOff
<1>0. TypeOK /\ FileGrows /\ HandleSafe(p) /\ Untouched(p)
  BY OthersUntouched DEF Known, LockInv, ListInv, Work
<1>1. PICK k, len, next : PutRecord(p, off, k, len, next)
  BY DEF BlankIndex, ReuseIndex, AppendIndex
<1>2. /\ DOMAIN idx' = DOMAIN idx \cup {off}
      /\ idxEnd' = IF idxEnd < off + RecLen THEN off + RecLen ELSE idxEnd
  BY <1>1 DEF PutRecord
<1>3. Has(p, off)
  BY DEF Has, BlankIndex, ReuseIndex, AppendIndex, Doomed, Reusing, Placing
<1>4. off \in Nat /\ 0 < off /\ idxEnd \in Nat /\ DOMAIN idx \subseteq Nat
      /\ RecLen \in Nat /\ RecLen > 0
  <2>1. off # 0
    BY <1>0, <1>3, InHand DEF Known
  <2>2. off \in Nat
    BY <1>0 DEF TypeOK, Handles
  <2> QED
    BY <1>0, <2>1, <2>2, Parameters DEF TypeOK
<1>5. 0 < idxEnd' /\ \A a \in DOMAIN idx' : 0 < a /\ a + RecLen <= idxEnd'
  BY <1>0, <1>2, <1>4 DEF FileGrows
<1>6. ASSUME NEW q \in Procs, pc'[q] = "appendIndex" PROVE h'[q].indexOff = idxEnd'
  <2>1. pc'[p] # "appendIndex"
    BY <1>0 DEF BlankIndex, ReuseIndex, AppendIndex, Goto, TypeOK
  <2>2. q # p /\ pc[q] = "appendIndex" /\ h'[q] = h[q] /\ h[q].indexOff = idxEnd
    BY <1>0, <1>6, <2>1 DEF Untouched, FileGrows
  <2>3. pc[p] # "appendIndex"
    BY <2>2, LockInvExcludes DEF Known, SectionExclusion, TailExclusion, TailSection
  <2>4. off \in DOMAIN idx
    BY <1>0, <1>3, <2>3, InHand DEF Known
  <2>5. idxEnd' = idxEnd
    BY <1>0, <1>2, <1>4, <2>4 DEF FileGrows
  <2> QED
    BY <2>2, <2>5
<1> QED
  BY <1>5, <1>6 DEF FileGrows

\* No other step changes the index records, and but for SeekIndex none goes to
\* appendIndex.
Puts(p) == BlankIndex(p) \/ ReuseIndex(p) \/ AppendIndex(p)

LEMMA RecordsKept ==
  ASSUME TypeOK, NEW p \in Procs, Call(p) \/ Work(p) \/ Locking(p), ~Puts(p)
  PROVE  /\ UNCHANGED <<idx, idxEnd>>
         /\ pc'[p] = "appendIndex" => /\ SeekIndex(p) \/ (pc[p] = "appendIndex" /\ h' = h)
                                      /\ SeekIndex(p) => h'[p].indexOff = idxEnd
<1> USE DEF TypeOK, Goto, fileVars
<1>1. ASSUME Dies(p) PROVE UNCHANGED <<idx, idxEnd>> /\ pc'[p] = "dead"
  BY <1>1 DEF Dies
<1>2. CASE Call(p)
  <2>1. CASE BeginFetch(p) \/ BeginDelete(p) \/ BeginStore(p)
    BY <2>1 DEF BeginFetch, BeginDelete, BeginStore, Begin
  <2> QED
    BY <1>1, <1>2, <2>1 DEF Call, NextRec, Exit, Killed, Close
<1>3. CASE Locking(p)
  <2>1. CASE Await(p)
    BY <2>1 DEF Await, procVars, LockStages
  <2>2. CASE Acquire(p) \/ GoWithout(p)
    <3>1. /\ pc[p] \in LockStages /\ pc'[p] = AfterLock[pc[p]] /\ UNCHANGED <<idx, idxEnd>>
      BY <2>2 DEF Acquire, GoWithout
    <3> QED
      BY <3>1 DEF AfterLock, LockStages
  <2> QED
    BY <1>3, <2>1, <2>2 DEF Locking
<1>4. CASE Work(p)
  <2>1. CASE SeekIndex(p)
    BY <2>1 DEF SeekIndex, Handles
  <2>2. CASE Segv(p)
    BY <1>1, <2>2 DEF Segv
  <2>3. CASE ReadHead(p) \/ Walk(p)
    <3>1. /\ UNCHANGED <<idx, idxEnd>>
          /\ pc'[p] \in {"walk", AfterMissed(p)} \cup {AfterFound(p, n) : n \in {buf[p].len}}
      BY <2>3 DEF ReadHead, Walk
    <3>2. AfterMissed(p) # "appendIndex" /\ \A n : AfterFound(p, n) # "appendIndex"
      BY DEF AfterMissed, AfterFound
    <3> QED
      BY <3>1, <3>2
  <2>4. CASE UnlockFree(p) \/ Unlink(p) \/ FreeHead(p) \/ WalkFree(p)
    BY <2>4 DEF UnlockFree, Unlock, Unlink, FreeHead, WalkFree, WritePtr
  <2>5. CASE \/ UnlockChain(p) \/ UnlockData(p) \/ UnlockTail(p) \/ ReadData(p) \/ ReadFree(p)
             \/ PushFree(p) \/ RereadHead(p) \/ ReadHead2(p) \/ Overwrite(p) \/ PopFree(p)
             \/ ReuseData(p) \/ SeekData(p) \/ AppendData(p) \/ WriteHead(p)
    BY <2>5 DEF UnlockChain, UnlockData, UnlockTail, Unlock, ReadData, ReadFree, PushFree,
                RereadHead, ReadHead2, KeepHead, Overwrite, PopFree, ReuseData, SeekData,
                AppendData, WriteHead, WritePtr
  <2> QED
    BY <1>4, <2>1, <2>2, <2>3, <2>4, <2>5 DEF Work, Puts
<1> QED
  BY <1>2, <1>3, <1>4

LEMMA GrowsNext ==
  ASSUME Known, ListInv, NEW p \in Procs, Call(p) \/ Work(p) \/ Locking(p)
  PROVE  FileGrows'
<1>0. TypeOK /\ FileGrows /\ Untouched(p)
  BY OthersUntouched DEF Known, LockInv, ListInv
<1>1. CASE Puts(p)
  BY <1>1, PutGrows DEF Puts
<1>2. CASE ~Puts(p)
  BY <1>0, <1>2, RecordsKept DEF FileGrows, Untouched
<1> QED
  BY <1>1, <1>2


-----------------------------------------------------------------------------
(* The third part is inductive.  First what a step of p leaves alone.       *)

LEMMA OthersHave ==
  ASSUME NEW p \in Procs, Untouched(p), NEW q \in Procs \ {p}, NEW a
  PROVE  Has(q, a)' <=> Has(q, a)
BY DEF Untouched, Has, Whole

LEMMA StillMoving ==
  ASSUME NEW p \in Procs, Untouched(p), NEW o, Moving(o),
         pc[p] = "unlink" => LinkHeadOff(op[p].key) # o
  PROVE  Moving(o)'
BY DEF Untouched, Moving

\* A step by which p keeps or drops what it has in hand.
Drops(p) ==
  \A a : Has(p, a)' =>
    /\ Has(p, a)
    /\ pc[p] \in Taking => pc'[p] \in Taking
    /\ pc[p] \in Doomed \cup {"walk"} => pc'[p] \in Doomed \cup {"walk"} /\ op'[p] = op[p]

LEMMA DropStep ==
  ASSUME RecordInv, NEW p \in Procs, Untouched(p), Drops(p), pc[p] # "unlink", ptr' = ptr
  PROVE  RecordInv'
<1> USE DEF RecordInv
<1>1. \A q \in Procs : \A a : Has(q, a)' => Has(q, a)
  BY OthersHave DEF Drops
<1>2. \A o : Moving(o) => Moving(o)'
  BY StillMoving
<1>3. OneHand'
  BY <1>1 DEF OneHand
<1>4. FreeTaken'
  <2> SUFFICES ASSUME NEW q \in Procs, Has(q, ptr[FREE_OFF])' PROVE pc'[q] \in Taking
    BY DEF FreeTaken
  <2>1. Has(q, ptr[FREE_OFF]) /\ pc[q] \in Taking
    BY <1>1 DEF FreeTaken
  <2> QED
    BY <2>1 DEF Drops, Untouched
<1>5. HeadTaken'
  <2> SUFFICES ASSUME NEW q \in Procs, NEW o \in ChainOffs, Has(q, ptr[o])', ~Moving(o)'
               PROVE  pc'[q] \in Doomed \cup {"walk"} /\ LinkHeadOff(op'[q].key) = o
    BY DEF HeadTaken
  <2>1. Has(q, ptr[o]) /\ pc[q] \in Doomed \cup {"walk"} /\ LinkHeadOff(op[q].key) = o
    BY <1>1, <1>2 DEF HeadTaken
  <2> QED
    BY <2>1 DEF Drops, Untouched
<1>6. ChainsApart' /\ FreeApart'
  BY <1>2 DEF ChainsApart, FreeApart
<1> QED
  BY <1>3, <1>4, <1>5, <1>6

\* A step by which p takes one record in hand that nobody has.
Takes(p, a) ==
  /\ \A b : Has(p, b)' => b = a
  /\ \A q \in Procs \ {p} : ~Has(q, a)

LEMMA TakeStep ==
  ASSUME RecordInv, NEW p \in Procs, Untouched(p), NEW a, Takes(p, a), pc[p] # "unlink",
         ptr' = ptr, Has(p, a)' /\ ptr[FREE_OFF] = a => pc'[p] \in Taking,
         \A o \in ChainOffs : Has(p, a)' /\ ptr[o] = a =>
            Moving(o) \/ (pc'[p] \in Doomed \cup {"walk"} /\ LinkHeadOff(op'[p].key) = o)
  PROVE  RecordInv'
<1> USE DEF RecordInv
<1>1. \A q \in Procs \ {p} : \A b : Has(q, b)' <=> Has(q, b)
  BY OthersHave
<1>2. \A o : Moving(o) => Moving(o)'
  BY StillMoving
<1>3. OneHand'
  BY <1>1 DEF OneHand, Takes
<1>4. FreeTaken'
  BY <1>1 DEF FreeTaken, Takes, Untouched
<1>5. HeadTaken'
  <2> SUFFICES ASSUME NEW q \in Procs, NEW o \in ChainOffs, Has(q, ptr[o])', ~Moving(o)'
               PROVE  pc'[q] \in Doomed \cup {"walk"} /\ LinkHeadOff(op'[q].key) = o
    BY DEF HeadTaken
  <2>1. CASE q = p
    BY <1>2, <2>1 DEF Takes
  <2>2. CASE q # p
    BY <1>1, <1>2, <2>2 DEF HeadTaken, Untouched
  <2> QED
    BY <2>1, <2>2
<1>6. ChainsApart' /\ FreeApart'
  BY <1>2 DEF ChainsApart, FreeApart
<1> QED
  BY <1>3, <1>4, <1>5, <1>6

-----------------------------------------------------------------------------
(* The head of a chain is read.  Nobody else is on this chain, for the      *)
(* reader was not refused it.                                               *)

\* On a chain that p has to itself no record is being moved, and nobody else
\* has the head in hand.
LEMMA ChainAlone ==
  ASSUME Known, ListInv, RecordInv, NEW p \in Procs, InChain(p), Whole(p), pc[p] # "unlink"
  PROVE  LET o == LinkHeadOff(op[p].key)
         IN  ~Moving(o) /\ \A q \in Procs \ {p} : ~Has(q, ptr[o])
<1> DEFINE o == LinkHeadOff(op[p].key)
<1>0. op[p].key \in Keys
  BY DEF Known, LockInv, TypeOK, InChain, ChainSection, LockStages, FreeSection, DataSection,
         TailSection, Resting
<1>1. ASSUME NEW q \in Procs \ {p}, InChain(q), Whole(q), LinkHeadOff(op[q].key) = o
      PROVE  FALSE
  BY <1>1, LockInvExcludes DEF Known, ChainExclusion, SameChain, Whole
<1>2. ~Moving(o)
  <2> SUFFICES ASSUME NEW q \in Procs, pc[q] = "unlink", LinkHeadOff(op[q].key) = o
               PROVE  FALSE
    BY DEF Moving
  <2>1. HandleSafe(q)
    BY DEF ListInv
  <2>2. InChain(q) /\ Whole(q)
    BY <2>1 DEF HandleSafe, HandleReady, InChain, ChainSection
  <2> QED
    BY <1>1, <2>2
<1>3. ASSUME NEW q \in Procs \ {p}, Has(q, ptr[o]) PROVE FALSE
  <2>1. o \in ChainOffs
    BY <1>0 DEF ChainOffs
  <2>2. pc[q] \in Doomed \cup {"walk"} /\ LinkHeadOff(op[q].key) = o
    BY <1>2, <1>3, <2>1 DEF RecordInv, HeadTaken
  <2>3. HandleSafe(q)
    BY DEF ListInv
  <2>4. InChain(q) /\ Whole(q)
    BY <1>3, <2>2, <2>3 DEF HandleSafe, HandleReady, Has, InChain, ChainSection, LockStages,
                            Doomed, Reusing, Placing
  <2> QED
    BY <1>1, <2>2, <2>4
<1> QED
  BY <1>2, <1>3

LEMMA HeadRead ==
  ASSUME Known, ListInv, RecordInv, NEW p \in Procs, ReadHead(p)
  PROVE  RecordInv'
<1> DEFINE o == LinkHeadOff(op[p].key)
           a == ptr[o]
<1>0. TypeOK /\ Untouched(p) /\ o \in ChainOffs
  <2>1. TypeOK
    BY DEF Known, LockInv
  <2>2. op[p].key \in Keys
    BY <2>1 DEF ReadHead, TypeOK, Resting
  <2> QED
    BY <2>1, <2>2, OthersUntouched DEF Work, ChainOffs
<1>1. /\ pc[p] = "readHead" /\ ptr' = ptr /\ UNCHANGED <<op, refused>>
      /\ h'[p].walk = a
      /\ pc'[p] = IF a = 0 THEN AfterMissed(p) ELSE "walk"
  BY <1>0 DEF ReadHead, Goto, TypeOK, Handles, fileVars
<1>2. \A b : Has(p, b)' => b = a /\ a # 0 /\ Whole(p)
  BY <1>1 DEF Has, AfterMissed, Whole, Doomed, Reusing, Placing
<1>3. InChain(p)
  BY <1>1 DEF InChain, ChainSection
<1>4. CASE Whole(p) /\ a # 0
  <2>1. ~Moving(o) /\ \A q \in Procs \ {p} : ~Has(q, a)
    BY <1>1, <1>3, <1>4, ChainAlone
  <2>2. Takes(p, a)
    BY <1>2, <2>1 DEF Takes
  <2>3. ptr[FREE_OFF] # a
    BY <1>0, <1>4, <2>1 DEF RecordInv, FreeApart
  <2>4. ASSUME NEW u \in ChainOffs, ptr[u] = a
        PROVE  Moving(u) \/ (pc'[p] = "walk" /\ LinkHeadOff(op'[p].key) = u)
    BY <1>0, <1>1, <1>4, <2>1, <2>4 DEF RecordInv, ChainsApart
  <2> QED
    BY <1>0, <1>1, <2>2, <2>3, <2>4, TakeStep
<1>5. CASE ~(Whole(p) /\ a # 0)
  <2>1. Drops(p)
    BY <1>2, <1>5 DEF Drops
  <2> QED
    BY <1>0, <1>1, <2>1, DropStep
<1> QED
  BY <1>4, <1>5

\* The head of the free list is read, by one process at a time.
LEMMA FreeRead ==
  ASSUME Known, ListInv, RecordInv, NEW p \in Procs, FreeHead(p)
  PROVE  RecordInv'
<1> DEFINE a == ptr[FREE_OFF]
<1>0. TypeOK /\ Untouched(p)
  BY OthersUntouched DEF Work, Known, LockInv
<1>1. /\ pc[p] = "freeHead" /\ ptr' = ptr /\ h'[p].walk = a
      /\ pc'[p] = IF a = 0 THEN "unlockFree" ELSE "walkFree"
  BY <1>0 DEF FreeHead, Goto, TypeOK, Handles, fileVars
<1>2. \A b : Has(p, b)' => b = a /\ a # 0
  BY <1>1 DEF Has, Doomed, Reusing, Placing
<1>3. ASSUME NEW q \in Procs \ {p}, Has(q, a) PROVE FALSE
  <2>1. pc[q] \in FreeSection /\ pc[p] \in FreeSection
    BY <1>1, <1>3 DEF RecordInv, FreeTaken, Taking, FreeSection
  <2> QED
    BY <2>1, LockInvExcludes DEF Known, SectionExclusion, FreeListExclusion
<1>4. Takes(p, a)
  BY <1>2, <1>3 DEF Takes
<1>5. Has(p, a)' => pc'[p] \in Taking
  BY <1>1, <1>2 DEF Taking
<1>6. \A o \in ChainOffs : Has(p, a)' /\ ptr[o] = a => Moving(o)
  BY <1>2 DEF RecordInv, FreeApart
<1> QED
  BY <1>0, <1>1, <1>4, <1>5, <1>6, TakeStep

\* The end of the index file is nobody's yet.
LEMMA EndRead ==
  ASSUME Known, ListInv, RecordInv, NEW p \in Procs, SeekIndex(p)
  PROVE  RecordInv'
<1> DEFINE a == idxEnd
<1>0. TypeOK /\ Untouched(p) /\ PointerInv /\ FileGrows
  BY OthersUntouched DEF Work, Known, LockInv, ListInv
<1>1. pc[p] = "seekIndex" /\ ptr' = ptr /\ h'[p].indexOff = a /\ pc'[p] = "appendIndex"
  BY <1>0 DEF SeekIndex, Goto, TypeOK, Handles, fileVars
<1>2. \A b : Has(p, b)' => b = a
  BY <1>1 DEF Has, Doomed, Reusing, Placing
<1>3. a \notin DOMAIN idx /\ a # 0
  <2>1. a \in Nat /\ RecLen \in Nat /\ RecLen > 0 /\ 0 < a
    BY <1>0, Parameters DEF TypeOK, FileGrows
  <2>2. \A b \in DOMAIN idx : b \in Nat /\ b + RecLen <= a
    BY <1>0 DEF TypeOK, FileGrows
  <2> QED
    BY <2>1, <2>2
<1>4. ASSUME NEW q \in Procs \ {p}, Has(q, a) PROVE FALSE
  <2>1. pc[q] # "appendIndex"
    BY <1>1, LockInvExcludes DEF Known, SectionExclusion, TailExclusion, TailSection
  <2>2. HandleSafe(q)
    BY DEF ListInv
  <2> QED
    BY <1>0, <1>3, <1>4, <2>1, <2>2, InHand
<1>5. Takes(p, a)
  BY <1>2, <1>4 DEF Takes
<1>6. ptr[FREE_OFF] # a /\ \A o \in ChainOffs : ptr[o] # a
  BY <1>0, <1>3 DEF PointerInv, PointersResolve, ChainOffs, HeadOffs
<1> QED
  BY <1>0, <1>1, <1>5, <1>6, TakeStep


-----------------------------------------------------------------------------
(* The pointers are written.                                                *)

LEMMA HeadsApart ==
  ASSUME NEW o \in ChainOffs
  PROVE  o # FREE_OFF /\ o \in HeadOffs /\ FREE_OFF \in HeadOffs
BY HeadOff DEF ChainOffs, HeadOffs

\* The deleted record becomes the head of the free list; its chain leads to it
\* for one more step.
LEMMA FreePushed ==
  ASSUME Known, ListInv, RecordInv, NEW p \in Procs, PushFree(p)
  PROVE  RecordInv'
<1> DEFINE a == h[p].indexOff
           o == LinkHeadOff(op[p].key)
<1> USE DEF RecordInv
<1>0. TypeOK /\ Untouched(p) /\ HandleSafe(p)
  BY OthersUntouched DEF Work, Known, LockInv, ListInv
<1>1. /\ pc[p] = "pushFree" /\ pc'[p] = "unlink" /\ UNCHANGED <<op, h, refused>>
      /\ ptr'[FREE_OFF] = a /\ \A u \in ChainOffs : ptr'[u] = ptr[u]
  BY <1>0, HeadsApart DEF PushFree, WritePtr, Goto, TypeOK, HeadOffs
<1>2. Has(p, a) /\ \A b : ~Has(p, b)'
  BY <1>1 DEF Has, Doomed, Reusing, Placing
<1>3. \A q \in Procs \ {p} : \A b : Has(q, b)' <=> Has(q, b)
  BY <1>0, OthersHave
<1>4. (\A u : Moving(u) => Moving(u)') /\ Moving(o)'
  <2>1. \A u : Moving(u) => Moving(u)'
    BY <1>0, <1>1, StillMoving
  <2>2. Moving(o)'
    BY <1>1 DEF Moving
  <2> QED
    BY <2>1, <2>2
<1>5. OneHand'
  BY <1>2, <1>3 DEF OneHand
<1>6. FreeTaken'
  BY <1>1, <1>2, <1>3 DEF FreeTaken, OneHand
<1>7. HeadTaken'
  <2> SUFFICES ASSUME NEW q \in Procs, NEW u \in ChainOffs, Has(q, ptr[u])', ~Moving(u)'
               PROVE  pc'[q] \in Doomed \cup {"walk"} /\ LinkHeadOff(op'[q].key) = u
    BY DEF HeadTaken
  <2>1. q # p /\ Has(q, ptr[u])
    BY <1>1, <1>2, <1>3
  <2> QED
    BY <1>0, <1>4, <2>1 DEF HeadTaken, Untouched
<1>8. ChainsApart'
  BY <1>1, <1>4 DEF ChainsApart
<1>9. FreeApart'
  <2> SUFFICES ASSUME NEW u \in ChainOffs, ptr'[u] = ptr'[FREE_OFF], ptr'[u] # 0
               PROVE  Moving(u)'
    BY DEF FreeApart
  <2>1. Has(p, ptr[u])
    BY <1>1, <1>2
  <2>2. Moving(u) \/ o = u
    BY <2>1 DEF HeadTaken
  <2>3. CASE o = u
    BY <1>1, <2>3 DEF Moving
  <2> QED
    BY <1>4, <2>2, <2>3
<1> QED
  BY <1>5, <1>6, <1>7, <1>8, <1>9

\* The chain of a deleted record is made to lead nowhere.
LEMMA ChainCut ==
  ASSUME Known, ListInv, RecordInv, NEW p \in Procs, Unlink(p)
  PROVE  RecordInv'
<1> DEFINE o == LinkHeadOff(op[p].key)
<1> USE DEF RecordInv
<1>0. TypeOK /\ Untouched(p) /\ HandleSafe(p) /\ o \in ChainOffs /\ PointerInv
  <2>1. TypeOK /\ HandleSafe(p) /\ PointerInv
    BY DEF Known, LockInv, ListInv
  <2>2. op[p].key \in Keys
    BY <2>1 DEF Unlink, TypeOK, Resting
  <2> QED
    BY <2>1, <2>2, OthersUntouched DEF Work, ChainOffs
<1>1. /\ pc[p] = "unlink" /\ pc'[p] \in {"unlockChain", "rereadHead"}
      /\ UNCHANGED <<op, h, refused>>
      /\ ptr'[o] = 0 /\ ptr'[FREE_OFF] = ptr[FREE_OFF]
      /\ \A u \in ChainOffs \ {o} : ptr'[u] = ptr[u]
  <2>1. h[p].save = 0 /\ pc[p] = "unlink"
    BY <1>0 DEF Unlink, HandleSafe, HandleReady
  <2> QED
    BY <1>0, <2>1, HeadsApart DEF Unlink, WritePtr, Goto, TypeOK
<1>2. \A b : ~Has(p, b)'
  BY <1>1 DEF Has, Doomed, Reusing, Placing
<1>3. \A q \in Procs \ {p} : \A b : Has(q, b)' => Has(q, b) /\ b # 0
  <2>1. \A q \in Procs : HandleSafe(q)
    BY DEF ListInv
  <2> QED
    BY <1>0, <2>1, OthersHave, InHand
<1>4. \A u : u # o /\ Moving(u) => Moving(u)'
  BY <1>0, StillMoving
<1>5. OneHand'
  BY <1>2, <1>3 DEF OneHand
<1>6. FreeTaken'
  <2> SUFFICES ASSUME NEW q \in Procs, Has(q, ptr[FREE_OFF])' PROVE pc'[q] \in Taking
    BY DEF FreeTaken
  <2>1. q # p /\ Has(q, ptr[FREE_OFF])
    BY <1>1, <1>2, <1>3
  <2> QED
    BY <1>0, <2>1 DEF FreeTaken, Untouched
<1>7. HeadTaken'
  <2> SUFFICES ASSUME NEW q \in Procs, NEW u \in ChainOffs, Has(q, ptr[u])', ~Moving(u)'
               PROVE  pc'[q] \in Doomed \cup {"walk"} /\ LinkHeadOff(op'[q].key) = u
    BY DEF HeadTaken
  <2>1. q # p /\ u # o
    BY <1>1, <1>2, <1>3
  <2>2. Has(q, ptr[u])
    BY <1>1, <1>3, <2>1
  <2> QED
    BY <1>0, <1>4, <2>1, <2>2 DEF HeadTaken, Untouched
<1>8. ChainsApart' /\ FreeApart'
  BY <1>1, <1>4 DEF ChainsApart, FreeApart
<1> QED
  BY <1>5, <1>6, <1>7, <1>8

\* The head of the free list is taken off it: the record after it is none, for
\* the parse of the head left lNextNodePtr at 0.
LEMMA FreePopped ==
  ASSUME Known, ListInv, RecordInv, NEW p \in Procs, PopFree(p)
  PROVE  RecordInv'
<1> USE DEF RecordInv
<1>0. TypeOK /\ Untouched(p) /\ HandleSafe(p) /\ PointerInv
  BY OthersUntouched DEF Work, Known, LockInv, ListInv
<1>1. /\ pc[p] = "popFree" /\ pc'[p] = "unlockFree" /\ UNCHANGED <<op, h, refused>>
      /\ ptr'[FREE_OFF] = 0 /\ \A u \in ChainOffs : ptr'[u] = ptr[u]
  <2>1. h[p].next = 0 /\ pc[p] = "popFree"
    BY <1>0 DEF PopFree, HandleSafe, HandleReady
  <2> QED
    BY <1>0, <2>1, HeadsApart DEF PopFree, WritePtr, Goto, TypeOK, HeadOffs
<1>2. \A b : Has(p, b)' => Has(p, b)
  BY <1>1 DEF Has, Doomed, Reusing, Placing
<1>3. \A q \in Procs : \A b : Has(q, b)' => Has(q, b) /\ b # 0
  <2>1. \A q \in Procs : HandleSafe(q)
    BY DEF ListInv
  <2>2. \A q \in Procs : \A b : Has(q, b) => b # 0
    BY <1>0, <2>1, InHand
  <2> QED
    BY <1>0, <1>2, <2>2, OthersHave
<1>4. \A u : Moving(u) => Moving(u)'
  BY <1>0, <1>1, StillMoving
<1>5. OneHand'
  BY <1>3 DEF OneHand
<1>6. FreeTaken'
  BY <1>1, <1>3 DEF FreeTaken
<1>7. HeadTaken'
  <2> SUFFICES ASSUME NEW q \in Procs, NEW u \in ChainOffs, Has(q, ptr[u])', ~Moving(u)'
               PROVE  pc'[q] \in Doomed \cup {"walk"} /\ LinkHeadOff(op'[q].key) = u
    BY DEF HeadTaken
  <2>1. Has(q, ptr[u])
    BY <1>1, <1>3
  <2>2. pc[q] \in Doomed \cup {"walk"} /\ LinkHeadOff(op[q].key) = u
    BY <1>4, <2>1 DEF HeadTaken
  <2>3. q # p
    BY <1>1, <2>2 DEF Doomed
  <2> QED
    BY <1>0, <2>2, <2>3 DEF Untouched
<1>8. ChainsApart' /\ FreeApart'
  BY <1>1, <1>4 DEF ChainsApart, FreeApart
<1> QED
  BY <1>5, <1>6, <1>7, <1>8

\* A new or reused record becomes the head of its chain, and nobody has it in
\* hand any more.
LEMMA HeadWritten ==
  ASSUME Known, ListInv, RecordInv, NEW p \in Procs, WriteHead(p)
  PROVE  RecordInv'
<1> DEFINE a == h[p].indexOff
           o == LinkHeadOff(op[p].key)
<1> USE DEF RecordInv
<1>0. TypeOK /\ Untouched(p) /\ o \in ChainOffs
  <2>1. TypeOK
    BY DEF Known, LockInv
  <2>2. op[p].key \in Keys
    BY <2>1 DEF WriteHead, TypeOK, Resting
  <2> QED
    BY <2>1, <2>2, OthersUntouched DEF Work, ChainOffs
<1>1. /\ pc[p] = "writeHead" /\ pc'[p] = "unlockChain" /\ UNCHANGED <<op, h, refused>>
      /\ ptr'[o] = a /\ ptr'[FREE_OFF] = ptr[FREE_OFF]
      /\ \A u \in ChainOffs \ {o} : ptr'[u] = ptr[u]
  BY <1>0, HeadsApart DEF WriteHead, WritePtr, Goto, TypeOK
<1>2. Has(p, a) /\ \A b : ~Has(p, b)'
  BY <1>1 DEF Has, Doomed, Reusing, Placing
<1>3. \A q \in Procs \ {p} : \A b : Has(q, b)' => Has(q, b) /\ b # a
  BY <1>0, <1>2, OthersHave DEF OneHand
<1>4. \A u : Moving(u) => Moving(u)'
  BY <1>0, <1>1, StillMoving
<1>5. OneHand'
  BY <1>2, <1>3 DEF OneHand
<1>6. FreeTaken'
  <2> SUFFICES ASSUME NEW q \in Procs, Has(q, ptr[FREE_OFF])' PROVE pc'[q] \in Taking
    BY DEF FreeTaken
  <2>1. q # p /\ Has(q, ptr[FREE_OFF])
    BY <1>1, <1>2, <1>3
  <2> QED
    BY <1>0, <2>1 DEF FreeTaken, Untouched
<1>7. HeadTaken'
  <2> SUFFICES ASSUME NEW q \in Procs, NEW u \in ChainOffs, Has(q, ptr[u])', ~Moving(u)'
               PROVE  pc'[q] \in Doomed \cup {"walk"} /\ LinkHeadOff(op'[q].key) = u
    BY DEF HeadTaken
  <2>1. q # p /\ u # o
    BY <1>1, <1>2, <1>3
  <2>2. Has(q, ptr[u])
    BY <1>1, <1>3, <2>1
  <2> QED
    BY <1>0, <1>4, <2>1, <2>2 DEF HeadTaken, Untouched
<1>8. ASSUME NEW u \in ChainOffs, u # o, ptr[u] = a PROVE Moving(u)'
  <2>1. Moving(u)
    BY <1>1, <1>2, <1>8 DEF HeadTaken, Doomed
  <2> QED
    BY <1>4, <2>1
<1>9. ChainsApart'
  BY <1>1, <1>4, <1>8 DEF ChainsApart
<1>10. FreeApart'
  <2>1. ptr[FREE_OFF] # a
    BY <1>1, <1>2 DEF FreeTaken, Taking
  <2> QED
    BY <1>1, <1>4, <2>1 DEF FreeApart
<1> QED
  BY <1>5, <1>6, <1>7, <1>9, <1>10

-----------------------------------------------------------------------------
(* The other steps drop what they have in hand, or keep it.                 *)

LEMMA DyingDrops ==
  ASSUME TypeOK, NEW p \in Procs, Dies(p)
  PROVE  Drops(p) /\ ptr' = ptr
<1>1. pc'[p] = "dead" /\ ptr' = ptr
  BY DEF Dies, TypeOK, fileVars
<1> QED
  BY <1>1 DEF Drops, Has, Doomed, Reusing, Placing

LEMMA CallDrops ==
  ASSUME TypeOK, NEW p \in Procs, Call(p)
  PROVE  Drops(p) /\ ptr' = ptr /\ (Killed(p) \/ pc[p] # "unlink")
<1>1. CASE BeginFetch(p) \/ BeginDelete(p) \/ BeginStore(p) \/ Close(p)
  <2>1. pc[p] = "rest" /\ pc'[p] \in {"lockChain", "closed"} /\ ptr' = ptr
    BY <1>1 DEF BeginFetch, BeginDelete, BeginStore, Begin, Close, Goto, TypeOK, fileVars
  <2> QED
    BY <2>1 DEF Drops, Has, Doomed, Reusing, Placing
<1> QED
  BY <1>1, DyingDrops DEF Call, NextRec, Exit, Killed

LEMMA LockingDrops ==
  ASSUME LockInv, NEW p \in Procs, HandleSafe(p), Locking(p)
  PROVE  Drops(p) /\ ptr' = ptr /\ pc[p] # "unlink"
<1>0. TypeOK
  BY DEF LockInv
<1>1. CASE Await(p)
  BY <1>1 DEF Await, procVars, fileVars, Drops, Has, Whole, LockStages
<1>2. CASE Acquire(p) \/ GoWithout(p)
  <2>1. /\ pc[p] \in LockStages /\ pc'[p] = AfterLock[pc[p]]
        /\ UNCHANGED <<op, h, ptr>>
    BY <1>0, <1>2 DEF Acquire, GoWithout, Goto, TypeOK, fileVars
  <2>2. /\ pc[p] = "lockBlank" => pc'[p] = "readFree"
        /\ pc[p] = "lockChain" => pc'[p] = "readHead"
        /\ pc[p] = "lockFree" => pc'[p] = "freeHead"
        /\ pc[p] = "lockData" => pc'[p] = "seekData"
        /\ pc[p] = "lockTail" => pc'[p] = "seekIndex"
    BY <2>1 DEF AfterLock, LockStages
  <2> QED
    BY <2>1, <2>2 DEF Drops, Has, Doomed, Reusing, Placing, LockStages, Taking
<1> QED
  BY <1>1, <1>2 DEF Locking

LEMMA ParseDrops ==
  ASSUME TypeOK, NEW p \in Procs, HandleSafe(p), HandleSafe(p)', Walk(p) \/ WalkFree(p)
  PROVE  Drops(p) /\ ptr' = ptr /\ pc[p] # "unlink"
<1>1. PICK hit : /\ ParseBuffer(p, hit)
                 /\ Walk(p) => hit = (buf[p].key = op[p].key)
                 /\ WalkFree(p) => hit = Fits(p)
  BY DEF Walk, WalkFree
<1>2. /\ h'[p].walk = IF hit THEN h[p].walk ELSE 0
      /\ h'[p].indexOff = h[p].walk
  BY <1>1 DEF ParseBuffer, TypeOK, Handles
<1>3. UNCHANGED <<op, refused, ptr>>
  BY DEF Walk, WalkFree, fileVars
<1>4. CASE Walk(p)
  <2>1. /\ pc[p] = "walk"
        /\ pc'[p] \in {"readData", "unlockChain", "overwrite", "lockBlank", "readHead2"}
    BY <1>4 DEF Walk, Goto, TypeOK, AfterFound, AfterMissed
  <2>2. pc'[p] = "lockBlank" => Whole(p)
    BY <1>3 DEF HandleSafe, HandleReady, Doomed, Whole
  <2> QED
    BY <1>2, <1>3, <2>1, <2>2 DEF Drops, Has, Doomed, Reusing, Placing, Taking
<1>5. CASE WalkFree(p)
  <2>1. /\ pc[p] = "walkFree" /\ pc'[p] = IF hit THEN "popFree" ELSE "unlockFree"
    BY <1>1, <1>5 DEF WalkFree, Goto, TypeOK
  <2> QED
    BY <1>2, <1>3, <2>1 DEF Drops, Has, Doomed, Reusing, Placing, Taking
<1> QED
  BY <1>4, <1>5

LEMMA WorkDrops ==
  ASSUME TypeOK, NEW p \in Procs, HandleSafe(p), HandleSafe(p)', Work(p),
         ~ReadHead(p), ~FreeHead(p), ~SeekIndex(p), ~PushFree(p), ~Unlink(p), ~PopFree(p),
         ~WriteHead(p)
  PROVE  Drops(p) /\ ptr' = ptr /\ pc[p] # "unlink"
<1> USE DEF Drops, Has, Doomed, Reusing, Placing, Taking
<1>1. CASE Segv(p)
  BY <1>1, DyingDrops DEF Segv
<1>2. CASE Walk(p) \/ WalkFree(p)
  BY <1>2, ParseDrops
<1>3. CASE ReadFree(p) \/ BlankIndex(p)
  <2>1. /\ pc[p] \in {"readFree", "blankIndex"} /\ pc'[p] \in {"blankIndex", "pushFree"}
        /\ UNCHANGED <<ptr, op, refused>>
    BY <1>3 DEF ReadFree, BlankIndex, PutRecord, Goto, TypeOK, fileVars
  <2>2. h \in [Procs -> Handles]
    BY DEF TypeOK
  <2>3. CASE ReadFree(p)
    <3>1. h'[p].indexOff = h[p].indexOff
      BY <2>2, <2>3 DEF ReadFree, Handles
    <3> QED
      BY <2>1, <3>1
  <2>4. CASE BlankIndex(p)
    <3>1. h'[p].indexOff = h[p].indexOff
      BY <2>2, <2>4 DEF BlankIndex, Handles
    <3> QED
      BY <2>1, <3>1
  <2> QED
    BY <1>3, <2>3, <2>4
<1>4. CASE ReuseData(p) \/ ReuseIndex(p) \/ AppendIndex(p)
  <2>1. /\ <<pc[p], pc'[p]>> \in {<<"reuseData", "reuseIndex">>, <<"reuseIndex", "writeHead">>,
                                  <<"appendIndex", "unlockTail">>}
        /\ ptr' = ptr /\ h'[p].indexOff = h[p].indexOff
    BY <1>4 DEF ReuseData, ReuseIndex, AppendIndex, PutRecord, Goto, TypeOK, Handles, fileVars
  <2> QED
    BY <2>1
<1>5. CASE UnlockFree(p) \/ UnlockTail(p)
  <2>1. /\ \/ pc[p] = "unlockFree" /\ pc'[p] = IF h[p].walk = 0 THEN "lockData" ELSE "reuseData"
           \/ pc[p] = "unlockTail" /\ pc'[p] = "writeHead"
        /\ ptr' = ptr /\ h' = h
    BY <1>5 DEF UnlockFree, UnlockTail, Unlock, Goto, TypeOK, fileVars
  <2> QED
    BY <2>1
<1>6. CASE \/ ReadData(p) \/ UnlockChain(p) \/ RereadHead(p) \/ ReadHead2(p) \/ Overwrite(p)
           \/ SeekData(p) \/ AppendData(p) \/ UnlockData(p)
  <2>1. /\ pc'[p] \in {"unlockChain", "rest", "lockData", "lockFree", "appendData",
                       "unlockData", "lockTail"}
        /\ pc[p] # "unlink" /\ ptr' = ptr
    BY <1>6 DEF ReadData, UnlockChain, RereadHead, ReadHead2, KeepHead, Overwrite, SeekData,
                AppendData, UnlockData, Unlock, Goto, TypeOK, fileVars
  <2> QED
    BY <2>1
<1> QED
  BY <1>1, <1>2, <1>3, <1>4, <1>5, <1>6 DEF Work

LEMMA RecordNext ==
  ASSUME Known, ListInv, NEW p \in Procs, Call(p) \/ Work(p) \/ Locking(p)
  PROVE  (Wounded \/ RecordInv)'
<1>0. TypeOK /\ LockInv /\ Untouched(p) /\ HandleSafe(p) /\ HandleSafe(p)'
  BY OthersUntouched, SafeNext DEF Known, LockInv, ListInv
<1>1. Wounded => Wounded'
  <2> SUFFICES ASSUME NEW q \in Mortal, pc[q] = "dead" PROVE pc'[q] = "dead"
    BY DEF Wounded
  <2>1. q \in Procs
    BY Parameters
  <2>2. q # p
    BY <1>0 DEF Call, BeginFetch, BeginDelete, BeginStore, Begin, NextRec, Close, Exit, Killed,
                Locking, Acquire, Await, GoWithout, LockStages, Work, ReadHead, Walk, Segv,
                ReadData, UnlockChain, ReadFree, BlankIndex, PushFree, Unlink, RereadHead,
                ReadHead2, Overwrite, FreeHead, WalkFree, PopFree, UnlockFree, ReuseData,
                ReuseIndex, SeekData, AppendData, UnlockData, SeekIndex, AppendIndex,
                UnlockTail, WriteHead
  <2> QED
    BY <1>0, <2>1, <2>2 DEF Untouched
<1>2. CASE Killed(p)
  BY <1>0, <1>2 DEF Killed, Dies, TypeOK, Wounded
<1>3. CASE RecordInv /\ ~Killed(p)
  <2>1. CASE Call(p)
    BY <1>0, <1>3, <2>1, CallDrops, DropStep
  <2>2. CASE Locking(p)
    BY <1>0, <1>3, <2>2, LockingDrops, DropStep
  <2>3. CASE \/ ReadHead(p) \/ FreeHead(p) \/ SeekIndex(p) \/ PushFree(p) \/ Unlink(p)
             \/ PopFree(p) \/ WriteHead(p)
    BY <1>3, <2>3, HeadRead, FreeRead, EndRead, FreePushed, ChainCut, FreePopped, HeadWritten
  <2>4. CASE /\ Work(p) /\ ~ReadHead(p) /\ ~FreeHead(p) /\ ~SeekIndex(p) /\ ~PushFree(p)
             /\ ~Unlink(p) /\ ~PopFree(p) /\ ~WriteHead(p)
    BY <1>0, <1>3, <2>4, WorkDrops, DropStep
  <2> QED
    BY <2>1, <2>2, <2>3, <2>4
<1> QED
  BY <1>1, <1>2, <1>3 DEF ListInv

-----------------------------------------------------------------------------
LEMMA ListInvNext == Known /\ ListInv /\ [Next]_vars => ListInv'
<1> SUFFICES ASSUME Known, ListInv, [Next]_vars PROVE ListInv'
  OBVIOUS
<1>1. ASSUME NEW p \in Procs, Call(p) \/ Work(p) \/ Locking(p) PROVE ListInv'
  <2>1. (\A q \in Procs : HandleSafe(q)') /\ FileGrows' /\ (Wounded \/ RecordInv)'
    BY <1>1, SafeNext, GrowsNext, RecordNext
  <2> QED
    BY <2>1 DEF ListInv
<1>2. CASE UNCHANGED vars
  <2> USE <1>2 DEF vars
  <2>1. \A q \in Procs : HandleSafe(q)'
    BY DEF ListInv, HandleSafe, SpentText, FindsNothing, HandleReady, HoldsData, Whole
  <2>2. FileGrows'
    BY DEF ListInv, FileGrows
  <2>3. \A q \in Procs : \A a : Has(q, a)' <=> Has(q, a)
    BY DEF Has, Whole
  <2>4. \A o : Moving(o)' <=> Moving(o)
    BY DEF Moving
  <2>5. (Wounded \/ RecordInv)'
    BY <2>3, <2>4
    DEF ListInv, Wounded, RecordInv, OneHand, FreeTaken, HeadTaken, ChainsApart, FreeApart
  <2> QED
    BY <2>1, <2>2, <2>5 DEF ListInv
<1> QED
  BY <1>1, <1>2 DEF Next, Terminated

LEMMA ListInvSays == ListInv => FreeHeadNotLive
<1> SUFFICES ASSUME ListInv, NEW k \in Keys, ptr[FREE_OFF] # 0,
                    ptr[LinkHeadOff(k)] = ptr[FREE_OFF], ~Wounded
             PROVE  Moving(LinkHeadOff(k))
  BY Parameters DEF FreeHeadNotLive, Moving, Wounded
<1>1. LinkHeadOff(k) \in ChainOffs
  BY DEF ChainOffs
<1> QED
  BY <1>1 DEF ListInv, RecordInv, FreeApart

\* No record is at once the head of the free list and of a chain, but while a
\* delete moves it from the one to the other or after a process was killed
\* (hmdb.c:343-345, 462-503): for any number of processes, keys and records,
\* whichever locks the kernel refuses.
THEOREM FreeListApart == Spec => []FreeHeadNotLive
<1>1. Init => ListInv
  BY ListInvInit
<1>2. Known /\ ListInv /\ [Next]_vars => ListInv'
  BY ListInvNext
<1>3. ListInv => FreeHeadNotLive
  BY ListInvSays
<1>4. Init => Known
  BY LockInvInit, WaitInvInit, PointerInvInit DEF Known
<1>5. Known /\ [Next]_vars => Known'
  BY LockInvNext, WaitInvNext, PointerInvNext DEF Known
<1> QED
  BY <1>1, <1>2, <1>3, <1>4, <1>5, PTL DEF Spec

=============================================================================
