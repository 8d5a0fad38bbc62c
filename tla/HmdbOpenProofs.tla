--------------------------- MODULE HmdbOpenProofs ---------------------------
(***************************************************************************)
(* HMDB_Open for any number of processes, chains and descriptors: the      *)
(* table is written into an empty file only, and it stands once an open    *)
(* has come to its end that no store ran beside.                           *)
(***************************************************************************)
EXTENDS HmdbOpen, DataProofs

-----------------------------------------------------------------------------
(* The invariant about the locks: whoever works on the file under the lock  *)
(* of all of it has that lock, a store has the lock of its chain, and no    *)
(* byte has two owners.                                                     *)

TableStages == {"stat", "table", "unlockFile"}
ChainStages == StoreStages \ {"lockChain"}
AllStages == {"closed", "rest"} \cup OpenStages \cup StoreStages

Cells == {Table, Hole, Pointer} \cup {Rec(n) : n \in Nat}

Locs == [chain : Chains \cup {"none"}, data : Nat, off : Nat]

StateTypes ==
  /\ pc \in [Procs -> AllStages]
  /\ loc \in [Procs -> Locs]
  /\ wlock \in [Procs -> SUBSET Bytes]
  /\ rlock \in [Procs -> SUBSET Bytes]
  /\ idx \in Seq(Cells)
  /\ dat \in Nat

StoresAreOnChains ==
  \A p \in Procs :
    /\ pc[p] \in StoreStages => loc[p].chain \in Chains
    /\ pc[p] = "append" => loc[p].off > 0

OneOwner == \A p, q \in Procs : p # q => wlock[p] \cap wlock[q] = {}

LocksHeld ==
  \A p \in Procs :
    /\ pc[p] \in TableStages => wlock[p] = Bytes
    /\ pc[p] \in ChainStages => loc[p].chain \in wlock[p]

OwnerInv == StateTypes /\ StoresAreOnChains /\ OneOwner /\ LocksHeld /\ TableOnEmptyFile

\* A step of a process as Next composes them.
Step(p) ==
  Open(p) \/ BeginStore(p) \/ Close(p) \/ Killed(p) \/ Acquire(p) \/ Work(p)

LEMMA WrittenType ==
  ASSUME NEW f \in Seq(Cells), NEW n \in Nat \ {0}, NEW c \in Cells
  PROVE  /\ Written(f, n, c) \in Seq(Cells)
         /\ Len(Written(f, n, c)) = IF n > Len(f) THEN n ELSE Len(f)
         /\ Written(f, n, c)[n] = c
         /\ \A i \in 1..Len(f) : i # n => Written(f, n, c)[i] = f[i]
         /\ \A i \in 1..n : i # n /\ i > Len(f) => Written(f, n, c)[i] = Hole
<1> DEFINE m == IF n > Len(f) THEN n ELSE Len(f)
<1>1. m \in Nat /\ Hole \in Cells
  BY DEF Cells
<1>2. Written(f, n, c) \in [1..m -> Cells]
  BY <1>1 DEF Written
<1> QED
  BY <1>1, <1>2 DEF Written

LEMMA RequestIs ==
  ASSUME NEW p \in Procs
  PROVE  /\ pc[p] = "lockFile" => Request(p) = Bytes
         /\ pc[p] = "lockChain" => Request(p) = {loc[p].chain}
         /\ pc[p] = "lockTail" => Request(p) = {"tail"}
BY DEF Request

LEMMA RequestType ==
  ASSUME StateTypes, StoresAreOnChains, NEW p \in Procs, pc[p] \in LockStages
  PROVE  Request(p) \in SUBSET Bytes
BY RequestIs DEF StateTypes, StoresAreOnChains, LockStages, StoreStages, Bytes

\* A step leaves the locks of the others alone, and takes bytes only when nobody
\* else holds them.
LEMMA LockSteps ==
  ASSUME StateTypes, NEW p \in Procs, Step(p)
  PROVE  /\ \A q \in Procs \ {p} : wlock'[q] = wlock[q]
         /\ \/ wlock'[p] \subseteq wlock[p]
            \/ /\ Acquire(p)
               /\ wlock'[p] = wlock[p] \cup Request(p)
               /\ \A q \in Procs \ {p} : wlock[q] \cap Request(p) = {}
<1> USE DEF StateTypes
<1>1. CASE Acquire(p)
  BY <1>1 DEF Acquire, LockGranted, Holders
<1>2. CASE Killed(p)
  BY <1>2 DEF Killed, Vanish
<1>3. CASE Close(p) \/ UnlockFile(p) \/ UnlockTail(p) \/ UnlockChain(p)
  BY <1>3 DEF Close, UnlockFile, UnlockTail, UnlockChain, Unlock, Release
<1>4. CASE Await(p)
  BY <1>4 DEF Await, LockWaits
<1>5. CASE Open(p) \/ BeginStore(p) \/ OpenIndex(p) \/ OpenData(p) \/ OpenDataFails(p)
           \/ OpenDataOnly(p) \/ Stat(p) \/ WriteTable(p) \/ Data(p) \/ Seek(p)
           \/ Append1(p) \/ WriteHead(p)
  BY <1>5 DEF Open, BeginStore, OpenIndex, OpenData, OpenDataFails, OpenDataOnly,
       Stat, WriteTable, Data, Seek, Append1, WriteHead, lockVars
<1> QED
  BY <1>1, <1>2, <1>3, <1>4, <1>5 DEF Step, Work

LEMMA OwnersStep ==
  ASSUME OwnerInv, NEW p \in Procs, Step(p)
  PROVE  OneOwner'
<1>1. \A q \in Procs \ {p} : wlock'[q] = wlock[q]
  BY LockSteps DEF OwnerInv
<1>2. \A q \in Procs \ {p} : wlock'[p] \cap wlock[q] = {}
  BY LockSteps DEF OwnerInv, OneOwner
<1> QED
  BY <1>1, <1>2 DEF OwnerInv, OneOwner

LEMMA CellTypes ==
  /\ Table \in Cells /\ Hole \in Cells /\ Pointer \in Cells
  /\ \A n \in Nat : Rec(n) \in Cells
BY DEF Cells

LEMMA LocTypes ==
  /\ NoLoc \in Locs
  /\ \A c \in Chains : [NoLoc EXCEPT !.chain = c] \in Locs
  /\ \A l \in Locs, n \in Nat : /\ [l EXCEPT !.data = n] \in Locs
                               /\ [l EXCEPT !.off = n] \in Locs
BY DEF NoLoc, Locs

LEMMA OwnerInvInit == Init => OwnerInv
<1> SUFFICES ASSUME Init PROVE OwnerInv
  OBVIOUS
<1>1. idx \in Seq(Cells)
  BY DEF Init
<1>2. StateTypes
  BY <1>1, LocTypes DEF Init, LocksInit, StateTypes, AllStages
<1> QED
  BY <1>2 DEF Init, LocksInit, OwnerInv, StoresAreOnChains, OneOwner, LocksHeld,
       TableOnEmptyFile, StoreStages, ChainStages, TableStages

LEMMA ReleaseTypes ==
  ASSUME StateTypes, NEW p \in Procs, NEW B, Release(p, B)
  PROVE  wlock' \in [Procs -> SUBSET Bytes] /\ rlock' \in [Procs -> SUBSET Bytes]
BY DEF StateTypes, Release

LEMMA LockTypes ==
  ASSUME StateTypes, StoresAreOnChains, NEW p \in Procs, Step(p)
  PROVE  wlock' \in [Procs -> SUBSET Bytes] /\ rlock' \in [Procs -> SUBSET Bytes]
<1> USE DEF StateTypes
<1>1. CASE Acquire(p)
  BY <1>1, RequestType DEF Acquire, LockGranted
<1>2. CASE Killed(p)
  BY <1>2 DEF Killed, Vanish
<1>3. CASE Close(p) \/ UnlockFile(p) \/ UnlockTail(p) \/ UnlockChain(p)
  BY <1>3, ReleaseTypes DEF Close, UnlockFile, UnlockTail, UnlockChain, Unlock
<1>4. CASE Await(p)
  BY <1>4 DEF Await, LockWaits
<1>5. CASE Open(p) \/ BeginStore(p) \/ OpenIndex(p) \/ OpenData(p) \/ OpenDataFails(p)
           \/ OpenDataOnly(p) \/ Stat(p) \/ WriteTable(p) \/ Data(p) \/ Seek(p)
           \/ Append1(p) \/ WriteHead(p)
  BY <1>5 DEF Open, BeginStore, OpenIndex, OpenData, OpenDataFails, OpenDataOnly,
       Stat, WriteTable, Data, Seek, Append1, WriteHead, lockVars
<1> QED
  BY <1>1, <1>2, <1>3, <1>4, <1>5 DEF Step, Work

LEMMA FileTypes ==
  ASSUME StateTypes, StoresAreOnChains, NEW p \in Procs, Step(p)
  PROVE  idx' \in Seq(Cells) /\ dat' \in Nat
<1> USE DEF StateTypes
<1>1. CASE WriteTable(p)
  BY <1>1, WrittenType, CellTypes DEF WriteTable
<1>2. CASE Append1(p)
  <2>1. loc[p].off \in Nat \ {0} /\ Rec(loc[p].data) \in Cells
    BY <1>2, CellTypes DEF Append1, StoresAreOnChains, Locs
  <2> QED
    BY <1>2, <2>1, WrittenType DEF Append1
<1>3. CASE WriteHead(p)
  BY <1>3, WrittenType, CellTypes DEF WriteHead
<1>4. CASE OpenIndex(p)
  <2>1. <<>> \in Seq(Cells)
    OBVIOUS
  <2> QED
    BY <1>4, <2>1 DEF OpenIndex
<1>5. CASE OpenData(p) \/ OpenDataFails(p) \/ OpenDataOnly(p) \/ Data(p)
  BY <1>5 DEF OpenData, OpenDataFails, OpenDataOnly, Data
<1>6. CASE Open(p) \/ BeginStore(p) \/ Close(p) \/ Killed(p) \/ Acquire(p) \/ Await(p)
           \/ Stat(p) \/ UnlockFile(p) \/ Seek(p) \/ UnlockTail(p) \/ UnlockChain(p)
  BY <1>6 DEF Open, BeginStore, Close, Killed, Acquire, Await, openVars, Stat, UnlockFile,
       Unlock, Seek, UnlockTail, UnlockChain
<1> QED
  BY <1>1, <1>2, <1>3, <1>4, <1>5, <1>6 DEF Step, Work

LEMMA ControlTypes ==
  ASSUME StateTypes, StoresAreOnChains, NEW p \in Procs, Step(p)
  PROVE  /\ pc' \in [Procs -> AllStages]
         /\ loc' \in [Procs -> Locs]
         /\ StoresAreOnChains'
<1> USE DEF StateTypes, StoresAreOnChains, AllStages, OpenStages, WindowStages, StoreStages, Goto
<1>1. CASE Open(p) \/ OpenIndex(p)
  BY <1>1 DEF Open, OpenIndex
<1>2. CASE OpenData(p) \/ OpenDataFails(p) \/ OpenDataOnly(p)
  BY <1>2 DEF OpenData, OpenDataFails, OpenDataOnly, Fails
<1>3. CASE Stat(p) \/ WriteTable(p) \/ UnlockFile(p)
  BY <1>3 DEF Stat, WriteTable, UnlockFile, Unlock
<1>4. CASE Close(p) \/ Killed(p)
  BY <1>4, LocTypes DEF Close, Killed, Fails
<1>5. CASE BeginStore(p)
  <2>1. PICK c \in Chains : loc' = [loc EXCEPT ![p] = [NoLoc EXCEPT !.chain = c]]
    BY <1>5 DEF BeginStore
  <2>2. [NoLoc EXCEPT !.chain = c].chain = c
    BY DEF NoLoc
  <2> QED
    BY <1>5, <2>1, <2>2, LocTypes DEF BeginStore
<1>6. CASE Acquire(p)
  BY <1>6 DEF Acquire, AfterLock, LockStages
<1>7. CASE Await(p)
  BY <1>7 DEF Await, openVars
<1>8. CASE Data(p) \/ Seek(p)
  <2>1. PICK l \in Locs : /\ loc' = [loc EXCEPT ![p] = l]
                          /\ l.chain = loc[p].chain
                          /\ pc'[p] = "append" => l.off > 0
    <3>1. Len(idx) + 1 \in Nat /\ Len(idx) + 1 > 0 /\ dat + 1 \in Nat /\ loc[p] \in Locs
      OBVIOUS
    <3>2. [loc[p] EXCEPT !.data = dat + 1] \in Locs /\ [loc[p] EXCEPT !.off = Len(idx) + 1] \in Locs
      BY <3>1, LocTypes
    <3>3. /\ [loc[p] EXCEPT !.data = dat + 1].chain = loc[p].chain
          /\ [loc[p] EXCEPT !.off = Len(idx) + 1].chain = loc[p].chain
          /\ [loc[p] EXCEPT !.off = Len(idx) + 1].off = Len(idx) + 1
      BY <3>1 DEF Locs
    <3> QED
      BY <1>8, <3>1, <3>2, <3>3 DEF Data, Seek
  <2> QED
    BY <1>8, <2>1 DEF Data, Seek
<1>9. CASE Append1(p) \/ UnlockTail(p)
  BY <1>9 DEF Append1, UnlockTail, Unlock
<1>10. CASE WriteHead(p) \/ UnlockChain(p)
  BY <1>10, LocTypes DEF WriteHead, UnlockChain
<1> QED
  BY <1>1, <1>2, <1>3, <1>4, <1>5, <1>6, <1>7, <1>8, <1>9, <1>10 DEF Step, Work

\* Only the process that steps moves, and nothing of it that the invariant is about
\* comes about but by its own calls.
LEMMA OthersStay ==
  ASSUME StateTypes, NEW p \in Procs, Step(p), NEW q \in Procs \ {p}
  PROVE  pc'[q] = pc[q] /\ loc'[q] = loc[q]
<1> USE DEF StateTypes, Goto
<1>1. CASE Open(p) \/ OpenIndex(p) \/ OpenData(p) \/ OpenDataFails(p) \/ OpenDataOnly(p)
           \/ Stat(p) \/ WriteTable(p) \/ UnlockFile(p) \/ Close(p) \/ Killed(p)
  BY <1>1 DEF Open, OpenIndex, OpenData, OpenDataFails, OpenDataOnly, Fails, Stat,
       WriteTable, UnlockFile, Unlock, Close, Killed
<1>2. CASE BeginStore(p) \/ Acquire(p) \/ Await(p)
  BY <1>2 DEF BeginStore, Acquire, Await, openVars
<1>3. CASE Data(p) \/ Seek(p) \/ Append1(p) \/ UnlockTail(p) \/ WriteHead(p) \/ UnlockChain(p)
  BY <1>3 DEF Data, Seek, Append1, UnlockTail, Unlock, WriteHead, UnlockChain
<1> QED
  BY <1>1, <1>2, <1>3 DEF Step, Work

LEMMA LocksHeldStep ==
  ASSUME OwnerInv, NEW p \in Procs, Step(p)
  PROVE  LocksHeld'
<1> USE DEF OwnerInv, StateTypes, LocksHeld, Goto, TableStages, ChainStages, StoreStages
<1>1. \A q \in Procs \ {p} : pc'[q] = pc[q] /\ loc'[q] = loc[q] /\ wlock'[q] = wlock[q]
  BY OthersStay, LockSteps
<1>2. /\ pc'[p] \in TableStages => wlock'[p] = Bytes
      /\ pc'[p] \in ChainStages => loc'[p].chain \in wlock'[p]
  <2>1. CASE Open(p) \/ OpenIndex(p)
    BY <2>1 DEF Open, OpenIndex
  <2>2. CASE OpenData(p) \/ OpenDataFails(p) \/ OpenDataOnly(p)
    BY <2>2 DEF OpenData, OpenDataFails, OpenDataOnly, Fails
  <2>3. CASE Stat(p) \/ WriteTable(p) \/ UnlockFile(p)
    BY <2>3 DEF Stat, WriteTable, UnlockFile, Unlock, lockVars
  <2>4. CASE Close(p) \/ Killed(p)
    BY <2>4 DEF Close, Killed, Fails
  <2>5. CASE BeginStore(p)
    BY <2>5 DEF BeginStore
  <2>6. CASE Acquire(p)
    <3>1. wlock'[p] = wlock[p] \cup Request(p) /\ pc'[p] = AfterLock[pc[p]] /\ loc' = loc
      BY <2>6 DEF Acquire, LockGranted
    <3>2. CASE pc[p] = "lockFile"
      BY <3>1, <3>2, RequestIs DEF AfterLock
    <3>3. CASE pc[p] = "lockChain"
      BY <3>1, <3>3, RequestIs DEF AfterLock
    <3>4. CASE pc[p] = "lockTail"
      BY <3>1, <3>4, RequestIs DEF AfterLock
    <3> QED
      BY <2>6, <3>2, <3>3, <3>4 DEF Acquire, LockStages
  <2>7. CASE Await(p)
    BY <2>7 DEF Await, LockWaits, openVars, lockVars
  <2>8. CASE Data(p) \/ Seek(p)
    <3>1. UNCHANGED lockVars /\ pc'[p] \in {"lockTail", "append"} /\ loc'[p].chain = loc[p].chain
      BY <2>8 DEF Data, Seek, Locs
    <3> QED
      BY <2>8, <3>1 DEF Data, Seek, lockVars
  <2>9. CASE Append1(p) \/ WriteHead(p)
    BY <2>9 DEF Append1, WriteHead, lockVars
  <2>10. CASE UnlockTail(p)
    <3>1. loc[p].chain # "tail"
      BY <2>10, OpenParameters DEF UnlockTail, StoresAreOnChains
    <3> QED
      BY <2>10, <3>1 DEF UnlockTail, Unlock, Release
  <2>11. CASE UnlockChain(p)
    BY <2>11 DEF UnlockChain
  <2> QED
    BY <2>1, <2>2, <2>3, <2>4, <2>5, <2>6, <2>7, <2>8, <2>9, <2>10, <2>11 DEF Step, Work
<1> QED
  BY <1>1, <1>2

LEMMA TableOnEmptyFileStep ==
  ASSUME OwnerInv, NEW p \in Procs, Step(p)
  PROVE  TableOnEmptyFile'
<1> USE DEF OwnerInv, StateTypes, TableOnEmptyFile, Goto
<1>1. ASSUME pc'[p] = "table" PROVE idx' = <<>>
  <2>1. CASE Open(p) \/ OpenIndex(p) \/ OpenData(p) \/ OpenDataFails(p) \/ OpenDataOnly(p)
    BY <1>1, <2>1 DEF Open, OpenIndex, OpenData, OpenDataFails, OpenDataOnly, Fails
  <2>2. CASE Stat(p)
    BY <1>1, <2>2 DEF Stat
  <2>3. CASE WriteTable(p) \/ UnlockFile(p) \/ Close(p) \/ Killed(p)
    BY <1>1, <2>3 DEF WriteTable, UnlockFile, Unlock, Close, Killed, Fails
  <2>4. CASE BeginStore(p)
    BY <1>1, <2>4 DEF BeginStore
  <2>5. CASE Acquire(p)
    BY <1>1, <2>5 DEF Acquire, AfterLock, LockStages
  <2>6. CASE Await(p)
    BY <1>1, <2>6 DEF Await, openVars, LockStages
  <2>7. CASE Data(p) \/ Seek(p) \/ Append1(p) \/ UnlockTail(p) \/ WriteHead(p) \/ UnlockChain(p)
    BY <1>1, <2>7 DEF Data, Seek, Append1, UnlockTail, Unlock, WriteHead, UnlockChain
  <2> QED
    BY <2>1, <2>2, <2>3, <2>4, <2>5, <2>6, <2>7 DEF Step, Work
<1>2. ASSUME NEW q \in Procs \ {p}, pc'[q] = "table" PROVE idx' = <<>>
  <2>1. pc[q] = "table" /\ idx = <<>>
    BY <1>2, OthersStay
  <2>2. wlock[q] = Bytes
    BY <2>1 DEF LocksHeld, TableStages
  <2>3. pc[p] \notin TableStages \cup ChainStages
    <3>1. wlock[p] = {}
      BY <2>2 DEF OneOwner
    <3> QED
      BY <3>1 DEF LocksHeld, Bytes
  <2>4. CASE OpenIndex(p)
    BY <2>1, <2>4 DEF OpenIndex
  <2>5. CASE WriteTable(p) \/ Append1(p) \/ WriteHead(p)
    BY <2>3, <2>5 DEF WriteTable, Append1, WriteHead, TableStages, ChainStages, StoreStages
  <2>6. CASE Open(p) \/ OpenData(p) \/ OpenDataFails(p) \/ OpenDataOnly(p) \/ Stat(p)
             \/ UnlockFile(p) \/ Close(p) \/ Killed(p)
    BY <2>1, <2>6 DEF Open, OpenData, OpenDataFails, OpenDataOnly, Stat, UnlockFile, Unlock,
         Close, Killed
  <2>7. CASE BeginStore(p) \/ Acquire(p) \/ Await(p) \/ Data(p) \/ Seek(p) \/ UnlockTail(p)
             \/ UnlockChain(p)
    BY <2>1, <2>7 DEF BeginStore, Acquire, Await, openVars, Data, Seek, UnlockTail, Unlock,
         UnlockChain
  <2> QED
    BY <2>4, <2>5, <2>6, <2>7 DEF Step, Work
<1> QED
  BY <1>1, <1>2

LEMMA OwnerInvStep == OwnerInv /\ [Next]_vars => OwnerInv'
<1>1. ASSUME OwnerInv, NEW p \in Procs, Step(p) PROVE OwnerInv'
  <2>1. StateTypes' /\ StoresAreOnChains'
    BY <1>1, LockTypes, FileTypes, ControlTypes DEF OwnerInv, StateTypes
  <2> QED
    BY <1>1, <2>1, OwnersStep, LocksHeldStep, TableOnEmptyFileStep DEF OwnerInv
<1>2. ASSUME OwnerInv, UNCHANGED vars PROVE OwnerInv'
  BY <1>2 DEF OwnerInv, StateTypes, StoresAreOnChains, OneOwner, LocksHeld, TableOnEmptyFile,
       vars, openVars, lockVars
<1> QED
  BY <1>1, <1>2 DEF Next, Step

\* The table is written into a file that was found empty and still is, for any
\* number of processes that open, store, close and are killed (hmdb.c:569-590).
THEOREM TableIsWrittenOnce == Spec => []TableOnEmptyFile
<1>1. Init => OwnerInv
  BY OwnerInvInit
<1>2. OwnerInv /\ [Next]_vars => OwnerInv'
  BY OwnerInvStep
<1>3. OwnerInv => TableOnEmptyFile
  BY DEF OwnerInv
<1> QED
  BY <1>1, <1>2, <1>3, PTL DEF Spec

-----------------------------------------------------------------------------
(* The table is whole: the pointers and the newline fit the buffer that     *)
(* HMDB_Open puts them together in.                                         *)

LEMMA EntryIsText ==
  /\ IsText(szAscii, PTR_SIZE + 1, PTR_SIZE)
  /\ szAscii \in [0..((PTR_SIZE + 1) - 1) -> {" ", "0", NUL}]
  /\ NUL \in {" ", "0", NUL}
<1>1. PTR_SIZE \in Nat \ {0} /\ (PTR_SIZE + 1) - 1 = PTR_SIZE
  BY OpenParameters
<1>2. \A i \in 0..PTR_SIZE :
        szAscii[i] = IF i = PTR_SIZE THEN NUL ELSE IF i = PTR_SIZE - 1 THEN "0" ELSE " "
  BY DEF szAscii
<1>3. DOMAIN szAscii = 0..PTR_SIZE /\ szAscii = [i \in DOMAIN szAscii |-> szAscii[i]]
  BY DEF szAscii
<1>4. szAscii \in [0..((PTR_SIZE + 1) - 1) -> {" ", "0", NUL}]
  BY <1>1 DEF szAscii
<1>5. ASSUME NEW i \in 0..(PTR_SIZE - 1) PROVE szAscii[i] # NUL
  <2>1. i \in 0..PTR_SIZE /\ i # PTR_SIZE
    BY OpenParameters
  <2> QED
    BY <1>2, <2>1 DEF NUL
<1>6. szAscii[PTR_SIZE] = NUL /\ PTR_SIZE < PTR_SIZE + 1
  <2>1. PTR_SIZE \in 0..PTR_SIZE /\ PTR_SIZE < PTR_SIZE + 1
    BY OpenParameters
  <2> QED
    BY <1>2, <2>1
<1> QED
  BY <1>1, <1>3, <1>4, <1>5, <1>6 DEF IsText

\* The buffer, entry by entry.
entries == [i \in 1..(HASH_SIZE + 1) |-> szAscii]

Entries(it) ==
  it = [s \in SUBSET DOMAIN entries |->
          IF s = {} THEN Zeroed(szHashSize)
          ELSE Strlcat(it[s \ {Max(s)}], entries[Max(s)], szHashSize)]

LEMMA EntriesAre ==
  /\ DOMAIN entries = 1..(HASH_SIZE + 1)
  /\ \A s \in SUBSET (1..(HASH_SIZE + 1)) :
       s # {} => Max(s) \in s /\ entries[Max(s)] = szAscii
<1>1. HASH_SIZE + 1 \in Nat
  BY OpenParameters
<1>2. ASSUME NEW s \in SUBSET (1..(HASH_SIZE + 1)), s # {} PROVE Max(s) \in s
  <2>1. s \in SUBSET (0..(HASH_SIZE + 1))
    OBVIOUS
  <2> QED
    BY <1>1, <1>2, <2>1, MaxIsGreatest
<1> QED
  BY <1>2 DEF entries

LEMMA TableSizes ==
  /\ HASH_SIZE + 1 \in Nat /\ PTR_SIZE \in Nat \ {0}
  /\ szHashSize \in Nat \ {0}
  /\ \A n \in Nat : n < HASH_SIZE + 1 => /\ n * PTR_SIZE \in Nat
                                         /\ n * PTR_SIZE + PTR_SIZE = (n + 1) * PTR_SIZE
                                         /\ n * PTR_SIZE + PTR_SIZE < szHashSize
  /\ (HASH_SIZE + 1) * PTR_SIZE \in Nat
  /\ (HASH_SIZE + 1) * PTR_SIZE + 1 < szHashSize
  /\ szHashSize - 1 = (HASH_SIZE + 1) * PTR_SIZE + 1
BY OpenParameters DEF szHashSize

LEMMA EntriesExist == \E it : Entries(it)
<1> DEFINE K == HASH_SIZE + 1
           S == 1..K
           V == [0..(szHashSize - 1) -> {" ", "0", NUL}]
           pick == [s \in SUBSET S |-> Max(s)]
           h == [p \in S \X V |-> Strlcat(p[2], szAscii, szHashSize)]
<1>1. IsFiniteSet(S)
  BY TableSizes, FS_Interval
<1>2. Zeroed(szHashSize) \in V
  BY TableSizes DEF Zeroed
<1>3. ASSUME NEW s \in SUBSET S, s # {} PROVE pick[s] \in s
  BY <1>3, EntriesAre
<1>4. \A x \in S, v \in V : h[<<x, v>>] = Strlcat(v, szAscii, szHashSize)
  OBVIOUS
<1>5. ASSUME NEW v \in V PROVE Strlcat(v, szAscii, szHashSize) \in V
  <2>1. szHashSize \in Nat \ {0} /\ PTR_SIZE + 1 \in Nat /\ PTR_SIZE \in Nat
    <3> HIDE DEF V
    <3> QED
      BY TableSizes
  <2> QED
    BY <2>1, EntryIsText, StrlcatType
<1>6. FoldSteps(S, V, Zeroed(szHashSize), pick, h)
  <2> HIDE DEF V, pick, h
  <2> QED
    BY <1>1, <1>2, <1>3, <1>4, <1>5 DEF FoldSteps
<1>7. PICK it : IsFold(it, S, V, Zeroed(szHashSize), pick, h)
  <2> HIDE DEF S, V, pick, h
  <2> QED
    BY <1>6, FoldExists
<1>8. ASSUME NEW s \in SUBSET S, s # {}
      PROVE  h[<<pick[s], it[s \ {pick[s]}]>>]
             = Strlcat(it[s \ {Max(s)}], entries[Max(s)], szHashSize)
  <2>1. pick[s] = Max(s)
    OBVIOUS
  <2>2. pick[s] \in S /\ it[s \ {pick[s]}] \in V
    <3>1. it \in [SUBSET S -> V]
      BY <1>7 DEF IsFold
    <3> HIDE DEF pick, V
    <3> QED
      BY <1>3, <1>8, <3>1
  <2>3. entries[Max(s)] = szAscii
    BY <1>8, EntriesAre
  <2> HIDE DEF V, pick, h
  <2> QED
    BY <1>4, <2>1, <2>2, <2>3
<1>9. Entries(it)
  <2> HIDE DEF h, pick, V
  <2>1. it \in [SUBSET S -> V]
    BY <1>7 DEF IsFold
  <2> QED
    BY <1>7, <1>8, <2>1, EntriesAre DEF IsFold, Entries
<1> QED
  BY <1>9

LEMMA EntriesFill ==
  ASSUME NEW it, Entries(it)
  PROVE  LET b == it[1..(HASH_SIZE + 1)]
         IN  /\ IsText(b, szHashSize, (HASH_SIZE + 1) * PTR_SIZE)
             /\ b[szHashSize - 1] = NUL
<1> DEFINE K == HASH_SIZE + 1
           Filled(n) == /\ IsText(it[1..n], szHashSize, n * PTR_SIZE)
                        /\ it[1..n][szHashSize - 1] = NUL
           N == {n \in Nat : n <= K => Filled(n)}
<1>1. 0 \in N
  <2>1. it[1..0] = Zeroed(szHashSize) /\ 0 * PTR_SIZE = 0
    BY TableSizes, EntriesAre DEF Entries
  <2>2. IsText(Zeroed(szHashSize), szHashSize, 0) /\ Zeroed(szHashSize)[szHashSize - 1] = NUL
    BY TableSizes DEF IsText, Zeroed
  <2> QED
    BY <2>1, <2>2
<1>2. ASSUME NEW n \in Nat, n \in N PROVE n + 1 \in N
  <2> SUFFICES ASSUME n + 1 <= K PROVE Filled(n + 1)
    OBVIOUS
  <2>1. Filled(n)
    BY <1>2, TableSizes
  <2>2. 1..(n + 1) \in SUBSET (1..K) /\ 1..(n + 1) # {}
    BY TableSizes
  <2>3. Max(1..(n + 1)) = n + 1
    <3>1. /\ Max(1..(n + 1)) \in 1..(n + 1)
          /\ n + 1 <= Max(1..(n + 1))
      <4>1. n + 1 \in Nat /\ 1..(n + 1) \in SUBSET (0..(n + 1)) /\ n + 1 \in 1..(n + 1)
        OBVIOUS
      <4> QED
        BY <4>1, MaxIsGreatest
    <3> QED
      BY <3>1
  <2>4. (1..(n + 1)) \ {n + 1} = 1..n
    OBVIOUS
  <2>5. it[1..(n + 1)] = Strlcat(it[1..n], szAscii, szHashSize)
    <3>1. it[1..(n + 1)] = Strlcat(it[(1..(n + 1)) \ {Max(1..(n + 1))}], szAscii, szHashSize)
      BY <2>2, EntriesAre DEF Entries
    <3> QED
      BY <2>3, <2>4, <3>1
  <2>6. /\ n * PTR_SIZE \in Nat
        /\ n * PTR_SIZE + PTR_SIZE = (n + 1) * PTR_SIZE
        /\ n * PTR_SIZE + PTR_SIZE < szHashSize
    BY TableSizes
  <2>7. /\ IsText(Strlcat(it[1..n], szAscii, szHashSize), szHashSize, n * PTR_SIZE + PTR_SIZE)
        /\ Strlcat(it[1..n], szAscii, szHashSize)[szHashSize - 1] = NUL
    <3>1. szHashSize \in Nat /\ PTR_SIZE \in Nat /\ PTR_SIZE + 1 \in Nat
      BY TableSizes
    <3> QED
      BY <2>1, <2>6, <3>1, EntryIsText, StrlcatAppends
  <2> QED
    BY <2>5, <2>6, <2>7
<1>3. Nat \subseteq N
  <2> HIDE DEF N
  <2> QED
    BY <1>1, <1>2, NatSetInduction
<1>4. K \in Nat /\ K <= K
  BY TableSizes
<1>5. Filled(K)
  <2> HIDE DEF Filled, K
  <2> QED
    BY <1>3, <1>4
<1> QED
  BY <1>5

LEMMA TableIsWhole == Table = WholeTable
<1> DEFINE it == CHOOSE jt : Entries(jt)
           b == it[DOMAIN entries]
<1>1. Entries(it)
  BY EntriesExist
<1>2. szHash = Strlcat(b, Newline, szHashSize)
  BY DEF szHash, FoldLeft, MapThenFoldSet, Entries, entries
<1>3. IsText(b, szHashSize, (HASH_SIZE + 1) * PTR_SIZE) /\ b[szHashSize - 1] = NUL
  <2> HIDE DEF it
  <2> QED
    BY <1>1, EntriesFill, EntriesAre
<1>4. IsText(Newline, 2, 1)
  BY DEF IsText, Newline, NUL
<1>5. IsText(szHash, szHashSize, (HASH_SIZE + 1) * PTR_SIZE + 1)
  <2> HIDE DEF b
  <2> QED
    BY <1>2, <1>3, <1>4, TableSizes, StrlcatAppends
<1>6. StrLen(szHash) = (HASH_SIZE + 1) * PTR_SIZE + 1
  BY <1>5, TableSizes, LengthOfText
<1> QED
  BY <1>6 DEF Table, WholeTable

-----------------------------------------------------------------------------
(* The invariant about the header.  A process that empties the index file   *)
(* without getting as far as a handle, or that had opened only the data     *)
(* file, takes "intact" with it when it ends.  As long as no such process   *)
(* is under way: while somebody is opening there are no stores, and the     *)
(* file is empty only if somebody is still to look at it; afterwards it     *)
(* begins with the table, and records go behind it and lead to data.        *)

Truncating(p) == pc[p] \in WindowStages /\ "trunc" \in flag[p]

Doomed == \E p \in Procs : pc[p] = "openDataOnly" /\ "trunc" \in flag[p]

FlagInv ==
  /\ flag \in [Procs -> SUBSET {"creat", "trunc"}]
  /\ \A p \in Procs :
       pc[p] \in {"lockFile", "stat", "table", "unlockFile"} => "trunc" \in flag[p]

Stands ==
  /\ idx # <<>> /\ idx[1] = Table
  /\ \A i \in 1..Len(idx) : idx[i][1] = "rec" => idx[i][2] <= dat
  /\ \A p \in Procs : /\ pc[p] \in StoreStages => loc[p].data <= dat
                      /\ pc[p] = "append" => loc[p].off > 1

Emptied ==
  /\ \A p \in Procs : pc[p] \notin StoreStages
  /\ \/ idx = <<Table>>
     \/ idx = <<>> /\ \E q \in Procs : Truncating(q) /\ pc[q] # "unlockFile"

HeaderInv ==
  intact /\ ~Doomed =>
    /\ (\A p \in Procs : ~Truncating(p)) => Stands
    /\ (\E p \in Procs : Truncating(p)) => Emptied

LEMMA FlagInvStep ==
  ASSUME OwnerInv, FlagInv, NEW p \in Procs, Step(p)
  PROVE  /\ FlagInv'
         /\ \A q \in Procs \ {p} : flag'[q] = flag[q]
<1> USE DEF OwnerInv, StateTypes, FlagInv, Goto
<1>1. \A q \in Procs \ {p} : pc'[q] = pc[q]
  BY OthersStay
<1>2. CASE Open(p)
  <2>1. PICK f \in Flags : flag' = [flag EXCEPT ![p] = f]
    BY <1>2 DEF Open
  <2> QED
    BY <1>1, <1>2, <2>1, OpenParameters DEF Open
<1>3. CASE OpenData(p)
  BY <1>1, <1>3 DEF OpenData, Fails
<1>4. CASE OpenDataFails(p) \/ OpenDataOnly(p) \/ Killed(p) \/ Close(p)
  BY <1>1, <1>4 DEF OpenDataFails, OpenDataOnly, Killed, Close, Fails
<1>5. CASE OpenIndex(p) \/ Stat(p) \/ WriteTable(p) \/ UnlockFile(p)
  BY <1>1, <1>5 DEF OpenIndex, Stat, WriteTable, UnlockFile, Unlock
<1>6. CASE Acquire(p)
  BY <1>1, <1>6 DEF Acquire, AfterLock, LockStages
<1>7. CASE Await(p)
  BY <1>1, <1>7 DEF Await, openVars
<1>8. CASE BeginStore(p) \/ Data(p) \/ Seek(p) \/ Append1(p) \/ UnlockTail(p) \/ WriteHead(p)
           \/ UnlockChain(p)
  BY <1>1, <1>8 DEF BeginStore, Data, Seek, Append1, UnlockTail, Unlock, WriteHead, UnlockChain
<1> QED
  BY <1>2, <1>3, <1>4, <1>5, <1>6, <1>7, <1>8 DEF Step, Work

\* The index is not intact after a step unless it was before and the step ended no
\* opening without a handle, or the step emptied the file while nobody stored.
LEMMA IntactSteps ==
  ASSUME OwnerInv, FlagInv, NEW p \in Procs, Step(p), intact', ~Doomed'
  PROVE  \/ OpenIndex(p) /\ pc'[p] = "openData" /\ idx' = <<>> /\ "trunc" \in flag[p]
            /\ \A q \in Procs : pc[q] \notin StoreStages
         \/ /\ intact /\ ~Doomed
            /\ Truncating(p) /\ ~Truncating(p)' => pc[p] = "unlockFile"
            /\ pc[p] \notin StoreStages /\ pc'[p] \in StoreStages
                 => \A q \in Procs : ~Truncating(q)
            /\ pc[p] = "openIndex" => ~Truncating(p)' /\ UNCHANGED idx
<1> USE DEF OwnerInv, StateTypes, FlagInv, Goto, Truncating, Doomed, WindowStages, StoreStages
<1>1. \A q \in Procs \ {p} : pc'[q] = pc[q] /\ flag'[q] = flag[q]
  BY OthersStay, FlagInvStep
<1>2. CASE OpenIndex(p)
  <2>1. flag' = flag
    BY <1>2 DEF OpenIndex
  <2>2. CASE pc'[p] = "openDataOnly"
    BY <1>1, <1>2, <2>1, <2>2 DEF OpenIndex
  <2>3. CASE pc'[p] # "openDataOnly" /\ "trunc" \in flag[p]
    BY <1>2, <2>3 DEF OpenIndex, Storing
  <2>4. CASE pc'[p] # "openDataOnly" /\ "trunc" \notin flag[p]
    BY <1>1, <1>2, <2>1, <2>4 DEF OpenIndex
  <2> QED
    BY <2>2, <2>3, <2>4
<1>3. CASE OpenData(p) /\ flag[p] = {"creat", "trunc"}
  <2>1. pc[p] = "openData" /\ pc'[p] = "lockFile" /\ UNCHANGED <<flag, intact, idx>>
    BY <1>3 DEF OpenData
  <2> QED
    BY <1>1, <2>1
<1>4. CASE \/ OpenData(p) /\ flag[p] # {"creat", "trunc"}
           \/ OpenDataFails(p)
           \/ OpenDataOnly(p) \/ Killed(p)
  <2>1. Fails(p) /\ idx' = idx
    BY <1>4 DEF OpenData, OpenDataFails, OpenDataOnly, Killed
  <2>2. pc'[p] = "closed" /\ intact /\ ~Truncating(p)
    BY <2>1 DEF Fails, Window
  <2>3. ~Doomed
    BY <1>1, <2>2
  <2> QED
    BY <2>1, <2>2, <2>3
<1>6. CASE BeginStore(p)
  BY <1>1, <1>6 DEF BeginStore, Window
<1>7. CASE Open(p) \/ Close(p)
  BY <1>1, <1>7 DEF Open, Close
<1>8. CASE Stat(p) \/ WriteTable(p) \/ UnlockFile(p)
  <2>1. CASE Stat(p)
    BY <1>1, <2>1 DEF Stat
  <2>2. CASE WriteTable(p)
    BY <1>1, <2>2 DEF WriteTable
  <2>3. CASE UnlockFile(p)
    BY <1>1, <2>3 DEF UnlockFile, Unlock
  <2> QED
    BY <1>8, <2>1, <2>2, <2>3
<1>10. CASE Acquire(p)
  BY <1>1, <1>10 DEF Acquire, LockStages, AfterLock
<1>11. CASE Await(p)
  BY <1>1, <1>11 DEF Await, openVars, LockStages
<1>9. CASE Data(p) \/ Seek(p) \/ Append1(p) \/ UnlockTail(p) \/ WriteHead(p) \/ UnlockChain(p)
  BY <1>1, <1>9 DEF Data, Seek, Append1, UnlockTail, Unlock, WriteHead, UnlockChain
<1> QED
  BY <1>2, <1>3, <1>4, <1>6, <1>7, <1>8, <1>9, <1>10, <1>11 DEF Step, Work

LEMMA TruncatingSteps ==
  ASSUME OwnerInv, FlagInv, NEW p \in Procs, Step(p)
  PROVE  /\ Truncating(p)' => Truncating(p) \/ pc[p] = "openIndex"
         /\ pc'[p] = "unlockFile" /\ pc[p] # "unlockFile" =>
              idx # <<>> \/ idx' = Written(idx, 1, Table)
<1> USE DEF OwnerInv, StateTypes, FlagInv, Goto, Truncating, WindowStages
<1>1. CASE Open(p) \/ OpenIndex(p) \/ OpenDataFails(p) \/ OpenDataOnly(p) \/ Killed(p)
  BY <1>1 DEF Open, OpenIndex, OpenDataFails, OpenDataOnly, Killed, Fails
<1>2. CASE OpenData(p)
  BY <1>2 DEF OpenData, Fails
<1>3. CASE Stat(p) \/ WriteTable(p) \/ UnlockFile(p) \/ Close(p)
  BY <1>3 DEF Stat, WriteTable, UnlockFile, Unlock, Close
<1>4. CASE Acquire(p)
  BY <1>4 DEF Acquire, LockStages, AfterLock
<1>5. CASE Await(p)
  BY <1>5 DEF Await, openVars
<1>6. CASE BeginStore(p) \/ Data(p) \/ Seek(p) \/ Append1(p) \/ UnlockTail(p) \/ WriteHead(p)
           \/ UnlockChain(p)
  BY <1>6 DEF BeginStore, Data, Seek, Append1, UnlockTail, Unlock, WriteHead, UnlockChain
<1> QED
  BY <1>1, <1>2, <1>3, <1>4, <1>5, <1>6 DEF Step, Work

\* The files are written by four system calls and emptied by two.
LEMMA FileSteps ==
  ASSUME OwnerInv, NEW p \in Procs, Step(p)
  PROVE  /\ \/ idx' = idx
            \/ pc[p] = "openIndex"
            \/ pc[p] = "table" /\ idx' = Written(idx, 1, Table)
            \/ pc[p] = "append" /\ idx' = Written(idx, loc[p].off, Rec(loc[p].data))
            \/ pc[p] = "head" /\ (idx # <<>> /\ idx[1][1] # "hole" => idx' = idx)
         /\ \/ dat' = dat
            \/ Truncating(p)
            \/ pc[p] = "data" /\ dat' = dat + 1
         /\ pc'[p] \in StoreStages =>
              \/ loc'[p].data = 0
              \/ loc'[p].data = dat'
              \/ pc[p] \in StoreStages /\ loc'[p].data = loc[p].data
         /\ pc'[p] = "append" => loc'[p].off = Len(idx) + 1 /\ idx' = idx
<1> USE DEF OwnerInv, StateTypes, Goto, Truncating, WindowStages, StoreStages
<1>1. CASE Open(p) \/ OpenIndex(p)
  BY <1>1 DEF Open, OpenIndex
<1>2. CASE OpenData(p) \/ OpenDataFails(p) \/ OpenDataOnly(p)
  BY <1>2 DEF OpenData, OpenDataFails, OpenDataOnly, Fails
<1>3. CASE Stat(p) \/ WriteTable(p) \/ UnlockFile(p)
  BY <1>3 DEF Stat, WriteTable, UnlockFile, Unlock
<1>4. CASE Close(p) \/ Killed(p)
  BY <1>4 DEF Close, Killed, Fails
<1>5. CASE BeginStore(p)
  <2>1. \A c : [NoLoc EXCEPT !.chain = c].data = 0
    BY DEF NoLoc
  <2> QED
    BY <1>5, <2>1 DEF BeginStore
<1>6. CASE Acquire(p)
  BY <1>6 DEF Acquire, LockStages, AfterLock
<1>7. CASE Await(p)
  BY <1>7 DEF Await, openVars, LockStages
<1>8. CASE Data(p)
  <2>1. [loc[p] EXCEPT !.data = dat + 1].data = dat + 1
    BY DEF Locs
  <2> QED
    BY <1>8, <2>1 DEF Data
<1>9. CASE Seek(p)
  <2>1. /\ [loc[p] EXCEPT !.off = Len(idx) + 1].off = Len(idx) + 1
        /\ [loc[p] EXCEPT !.off = Len(idx) + 1].data = loc[p].data
    BY DEF Locs
  <2> QED
    BY <1>9, <2>1 DEF Seek
<1>10. CASE Append1(p) \/ UnlockTail(p)
  BY <1>10 DEF Append1, UnlockTail, Unlock
<1>11. CASE WriteHead(p) \/ UnlockChain(p)
  BY <1>11 DEF WriteHead, UnlockChain
<1> QED
  BY <1>1, <1>2, <1>3, <1>4, <1>5, <1>6, <1>7, <1>8, <1>9, <1>10, <1>11 DEF Step, Work

LEMMA CellShapes ==
  /\ Table[1] = "table" /\ Hole[1] = "hole"
  /\ \A n \in Nat : Rec(n)[1] = "rec" /\ Rec(n)[2] = n
  /\ \A c \in Cells : c[1] = "rec" => c[2] \in Nat
BY DEF Table, Hole, Pointer, Rec, Cells

LEMMA TableAlone == Written(<<>>, 1, Table) = <<Table>>
<1>1. Written(<<>>, 1, Table) = [i \in 1..1 |-> Table]
  BY DEF Written
<1> QED
  BY <1>1

LEMMA StandsStep ==
  ASSUME OwnerInv, FlagInv, NEW p \in Procs, Step(p), Stands,
         \A q \in Procs : ~Truncating(q),
         pc[p] = "openIndex" => UNCHANGED idx
  PROVE  Stands'
<1>0. /\ idx \in Seq(Cells) /\ dat \in Nat
      /\ \A q \in Procs : loc[q] \in Locs
  BY DEF OwnerInv, StateTypes
<1>1. pc[p] # "table"
  BY DEF FlagInv, Truncating, WindowStages
<1>2. dat' = dat \/ dat' = dat + 1
  BY FileSteps
<1>3. /\ idx' # <<>> /\ idx'[1] = Table
      /\ \A i \in 1..Len(idx') : idx'[i][1] = "rec" => idx'[i][2] <= dat'
  <2>1. CASE idx' = idx
    <3>1. \A i \in 1..Len(idx) : idx[i][1] = "rec" => idx[i][2] \in Nat
      BY <1>0, CellShapes
    <3> QED
      BY <1>0, <1>2, <2>1, <3>1 DEF Stands
  <2>2. CASE pc[p] = "append" /\ idx' = Written(idx, loc[p].off, Rec(loc[p].data))
    <3> DEFINE n == loc[p].off
               c == Rec(loc[p].data)
    <3>1. n \in Nat \ {0, 1} /\ loc[p].data \in Nat /\ loc[p].data <= dat
      BY <1>0, <2>2 DEF Stands, Locs, StoreStages
    <3>2. c \in Cells /\ c[1] = "rec" /\ c[2] = loc[p].data
      BY <3>1, CellTypes, CellShapes
    <3> HIDE DEF n, c
    <3>3. /\ idx' \in Seq(Cells) /\ Len(idx') = IF n > Len(idx) THEN n ELSE Len(idx)
          /\ idx'[n] = c
          /\ \A i \in 1..Len(idx) : i # n => idx'[i] = idx[i]
          /\ \A i \in 1..n : i # n /\ i > Len(idx) => idx'[i] = Hole
      <4>1. idx' = Written(idx, n, c)
        BY <2>2 DEF n, c
      <4>2. n \in Nat \ {0}
        BY <3>1
      <4> USE <1>0, <3>2, <4>2, WrittenType
      <4>3. Written(idx, n, c) \in Seq(Cells)
        OBVIOUS
      <4>4. Len(Written(idx, n, c)) = IF n > Len(idx) THEN n ELSE Len(idx)
        OBVIOUS
      <4>5. Written(idx, n, c)[n] = c
        OBVIOUS
      <4>6. \A i \in 1..Len(idx) : i # n => Written(idx, n, c)[i] = idx[i]
        OBVIOUS
      <4>7. \A i \in 1..n : i # n /\ i > Len(idx) => Written(idx, n, c)[i] = Hole
        OBVIOUS
      <4> QED
        BY <4>1, <4>3, <4>4, <4>5, <4>6, <4>7
    <3>4. idx' # <<>> /\ idx'[1] = Table
      BY <1>0, <3>1, <3>3 DEF Stands
    <3>5. ASSUME NEW i \in 1..Len(idx'), idx'[i][1] = "rec" PROVE idx'[i][2] <= dat'
      <4>2. CASE i = n
        BY <1>0, <1>2, <3>1, <3>2, <3>3, <4>2
      <4>3. CASE i # n /\ i <= Len(idx)
        <5>1. idx[i][1] = "rec" /\ idx'[i] = idx[i] /\ i \in 1..Len(idx)
          BY <3>3, <3>5, <4>3
        <5>2. idx[i][2] \in Nat /\ idx[i][2] <= dat
          BY <1>0, <5>1, CellShapes DEF Stands
        <5> QED
          BY <1>0, <1>2, <5>1, <5>2
      <4>4. CASE i # n /\ i > Len(idx)
        BY <1>0, <3>1, <3>3, <3>5, <4>4, CellShapes
      <4> QED
        BY <1>0, <4>2, <4>3, <4>4, <3>1, <3>3
    <3> QED
      BY <3>4, <3>5
  <2>3. \/ idx' = idx
        \/ pc[p] = "append" /\ idx' = Written(idx, loc[p].off, Rec(loc[p].data))
    <3>1. idx # <<>> /\ idx[1][1] # "hole"
      BY <1>0, CellShapes DEF Stands
    <3> QED
      BY <1>1, <3>1, FileSteps
  <2> QED
    BY <2>1, <2>2, <2>3
<1>4. \A q \in Procs : /\ pc'[q] \in StoreStages => loc'[q].data <= dat'
                       /\ pc'[q] = "append" => loc'[q].off > 1
  <2>1. \A q \in Procs \ {p} : pc'[q] = pc[q] /\ loc'[q] = loc[q]
    BY OthersStay DEF OwnerInv
  <2>2. \A q \in Procs : loc[q].data \in Nat
    BY <1>0 DEF Locs
  <2>3. dat' \in Nat /\ dat <= dat'
    BY <1>0, <1>2
  <2>4. pc'[p] \in StoreStages => loc'[p].data <= dat'
    BY <1>0, <2>2, <2>3, FileSteps DEF Stands
  <2>5. pc'[p] = "append" => loc'[p].off > 1
    BY <1>0, FileSteps DEF Stands
  <2> QED
    BY <1>0, <2>1, <2>2, <2>3, <2>4, <2>5 DEF Stands
<1> QED
  BY <1>3, <1>4 DEF Stands

LEMMA EmptiedStep ==
  ASSUME OwnerInv, FlagInv, NEW p \in Procs, Step(p), Emptied,
         Truncating(p) /\ ~Truncating(p)' => pc[p] = "unlockFile",
         pc'[p] \notin StoreStages,
         pc[p] = "openIndex" => UNCHANGED idx
  PROVE  Emptied' /\ ((\A q \in Procs : ~Truncating(q)') => Stands')
<1> USE DEF OwnerInv, StateTypes
<1>1. \A q \in Procs \ {p} : pc'[q] = pc[q] /\ loc'[q] = loc[q] /\ flag'[q] = flag[q]
  BY OthersStay, FlagInvStep
<1>2. \A q \in Procs : pc'[q] \notin StoreStages
  BY <1>1 DEF Emptied
<1>3. \/ idx' = <<Table>>
      \/ idx' = <<>> /\ \E q \in Procs : Truncating(q)' /\ pc'[q] # "unlockFile"
  <2>1. CASE pc[p] = "table" /\ idx' = Written(idx, 1, Table)
    BY <2>1, TableAlone DEF TableOnEmptyFile
  <2>2. CASE idx' = idx /\ idx = <<Table>>
    BY <2>2
  <2>3. CASE idx' = idx /\ idx = <<>>
    <3>1. PICK q \in Procs : Truncating(q) /\ pc[q] # "unlockFile"
      BY <2>3 DEF Emptied
    <3>2. CASE q = p
      BY <2>3, <3>1, <3>2, TruncatingSteps, TableAlone
    <3>3. CASE q # p
      BY <1>1, <2>3, <3>1, <3>3 DEF Truncating
    <3> QED
      BY <3>2, <3>3
  <2>4. pc[p] # "append" /\ pc[p] # "head"
    BY DEF Emptied, StoreStages
  <2>5. \/ idx' = idx
        \/ pc[p] = "table" /\ idx' = Written(idx, 1, Table)
    BY <2>4, FileSteps
  <2> QED
    BY <2>1, <2>2, <2>3, <2>5 DEF Emptied
<1>4. Emptied'
  BY <1>2, <1>3 DEF Emptied
<1>5. ASSUME \A q \in Procs : ~Truncating(q)' PROVE Stands'
  <2>1. idx' = <<Table>>
    BY <1>3, <1>5
  <2>2. \A i \in 1..Len(idx') : idx'[i] = Table
    BY <2>1
  <2> QED
    BY <1>2, <2>1, <2>2, CellShapes DEF Stands, StoreStages
<1> QED
  BY <1>4, <1>5
LEMMA HeaderInvStep ==
  ASSUME OwnerInv, FlagInv, HeaderInv, NEW p \in Procs, Step(p)
  PROVE  HeaderInv'
<1> SUFFICES ASSUME intact', ~Doomed'
             PROVE  /\ (\A q \in Procs : ~Truncating(q)') => Stands'
                    /\ (\E q \in Procs : Truncating(q)') => Emptied'
  BY DEF HeaderInv
<1>1. \A q \in Procs \ {p} : pc'[q] = pc[q] /\ flag'[q] = flag[q]
  BY OthersStay, FlagInvStep DEF OwnerInv
<1>2. CASE /\ OpenIndex(p) /\ pc'[p] = "openData" /\ idx' = <<>> /\ "trunc" \in flag[p]
           /\ \A q \in Procs : pc[q] \notin StoreStages
  <2>1. Truncating(p)'
    BY <1>2 DEF OpenIndex, Truncating, WindowStages
  <2>2. \A q \in Procs : pc'[q] \notin StoreStages
    BY <1>1, <1>2 DEF StoreStages
  <2> QED
    BY <1>2, <2>1, <2>2 DEF Emptied
<1>3. CASE /\ intact /\ ~Doomed
           /\ Truncating(p) /\ ~Truncating(p)' => pc[p] = "unlockFile"
           /\ pc[p] \notin StoreStages /\ pc'[p] \in StoreStages
                => \A q \in Procs : ~Truncating(q)
           /\ pc[p] = "openIndex" => ~Truncating(p)' /\ UNCHANGED idx
  <2>1. CASE \A q \in Procs : ~Truncating(q)
    <3>1. Stands'
      BY <1>3, <2>1, StandsStep DEF HeaderInv
    <3>2. \A q \in Procs : ~Truncating(q)'
      <4>1. \A q \in Procs \ {p} : ~Truncating(q)'
        BY <1>1, <2>1 DEF Truncating
      <4>2. ~Truncating(p)'
        BY <1>3, <2>1, TruncatingSteps
      <4> QED
        BY <4>1, <4>2
    <3> QED
      BY <3>1, <3>2
  <2>2. CASE \E q \in Procs : Truncating(q)
    <3>1. Emptied
      BY <1>3, <2>2 DEF HeaderInv
    <3>2. pc'[p] \notin StoreStages
      BY <1>3, <2>2, <3>1 DEF Emptied
    <3> QED
      BY <1>3, <3>1, <3>2, EmptiedStep
  <2> QED
    BY <2>1, <2>2
<1> QED
  BY <1>2, <1>3, IntactSteps

\* Once an open has come to its end that no store ran beside, the index begins
\* with a whole table and its records lead to data that is there, for any number
\* of processes, chains and descriptors (hmdb.c:569-590).
THEOREM HeaderStandsOnceMade == Spec => []HeaderStands
<1>1. Init => OwnerInv /\ FlagInv /\ HeaderInv
  BY OwnerInvInit DEF Init, FlagInv, HeaderInv
<1>2. OwnerInv /\ FlagInv /\ HeaderInv /\ [Next]_vars => OwnerInv' /\ FlagInv' /\ HeaderInv'
  <2>1. ASSUME OwnerInv, FlagInv, HeaderInv, NEW p \in Procs, Step(p)
        PROVE  OwnerInv' /\ FlagInv' /\ HeaderInv'
    <3>1. OwnerInv'
      BY <2>1, OwnerInvStep DEF Next, Step
    <3> QED
      BY <2>1, <3>1, FlagInvStep, HeaderInvStep
  <2>2. ASSUME OwnerInv, FlagInv, HeaderInv, UNCHANGED vars
        PROVE  OwnerInv' /\ FlagInv' /\ HeaderInv'
    <3>1. OwnerInv'
      BY <2>2, OwnerInvStep
    <3>2. FlagInv'
      BY <2>2 DEF FlagInv, vars, openVars
    <3>3. HeaderInv'
      BY <2>2 DEF HeaderInv, Doomed, Truncating, Stands, Emptied, vars, openVars
    <3> QED
      BY <3>1, <3>2, <3>3
  <2> QED
    BY <2>1, <2>2 DEF Next, Step
<1>3. OwnerInv /\ HeaderInv => HeaderStands
  <2> SUFFICES ASSUME OwnerInv, HeaderInv, intact, Window = {}
               PROVE  /\ idx # <<>> /\ idx[1] = WholeTable
                      /\ \A i \in Recs : idx[i][2] <= dat
    BY DEF HeaderStands
  <2>1. \A p \in Procs : ~Truncating(p)
    BY DEF Window, Truncating
  <2>2. ~Doomed
    BY <2>1 DEF Doomed, Truncating, WindowStages
  <2>3. Stands
    BY <2>1, <2>2 DEF HeaderInv
  <2>4. DOMAIN idx = 1..Len(idx)
    BY DEF OwnerInv, StateTypes
  <2> QED
    BY <2>3, <2>4, TableIsWhole DEF Stands, Recs
<1> QED
  BY <1>1, <1>2, <1>3, PTL DEF Spec

=============================================================================
