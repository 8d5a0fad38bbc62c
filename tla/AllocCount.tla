----------------------------- MODULE AllocCount -----------------------------
(***************************************************************************)
(* alloc.c: every block has a length field in front, and two counters      *)
(* follow what is allocated.  Each counter is changed atomically, one      *)
(* after the other, by any thread.  malloc, calloc and free of the C       *)
(* library are external: they hand out any address that is free, or none.  *)
(***************************************************************************)
EXTENDS Naturals, FiniteSetsExt

CONSTANTS
  Threads,
  Addresses,     \* where a block may lie
  Sizes,         \* the sizes asked for
  StructSize,    \* the sizeof of the type H_Free_struct is used with
  WordMod        \* counters are unsigned words: they count modulo this

Null == "NULL"

ASSUME AllocParameters ==
  /\ WordMod \in Nat \ {0} /\ Sizes \subseteq Nat /\ StructSize \in Sizes
  /\ Null \notin Addresses

VARIABLES
  live,                 \* the addresses of the blocks that are allocated
  length,               \* the length fields; they stay when a block is freed
  ulAllocSumByte, ulHasUsedByte,
  pc,                   \* pc[t]: where t is in a function of alloc.c
  block                 \* block[t]: the block this is about, afterwards the
                        \* result of H_Malloc and H_Calloc

allocVars == <<live, length, ulAllocSumByte, ulHasUsedByte, pc, block>>

AllocInit ==
  /\ live = {}
  /\ length = [a \in Addresses |-> 0]
  /\ ulAllocSumByte = 0 /\ ulHasUsedByte = 0
  /\ pc = [t \in Threads |-> "out"]
  /\ block = [t \in Threads |-> Null]

At(t, s, r) == pc[t] = s /\ pc' = [pc EXCEPT ![t] = r]

\* ATOMIC_ADD and ATOMIC_SUB.
Plus(c, n) == (c + n) % WordMod
Minus(c, n) == (c + (WordMod - (n % WordMod))) % WordMod

\* H_Malloc and H_Calloc: the block and its length field.  H_Calloc stores and
\* counts the size of one of its elements.
Malloc(t, n) ==
  /\ \/ \E a \in Addresses \ live :
          /\ At(t, "out", "add1")
          /\ live' = live \cup {a}
          /\ length' = [length EXCEPT ![a] = n]
          /\ block' = [block EXCEPT ![t] = a]
     \/ /\ At(t, "out", "out")
        /\ block' = [block EXCEPT ![t] = Null]
        /\ UNCHANGED <<live, length>>
  /\ UNCHANGED <<ulAllocSumByte, ulHasUsedByte>>

MallocAdd1(t) ==
  /\ At(t, "add1", "add2")
  /\ ulAllocSumByte' = Plus(ulAllocSumByte, length[block[t]])
  /\ UNCHANGED <<live, length, ulHasUsedByte, block>>

MallocAdd2(t) ==
  /\ At(t, "add2", "out")
  /\ ulHasUsedByte' = Plus(ulHasUsedByte, length[block[t]])
  /\ UNCHANGED <<live, length, ulAllocSumByte, block>>

\* H_Free, which frees last and reads the length field twice before.
Free(t, a) ==
  /\ a # Null
  /\ At(t, "out", "sub1")
  /\ block' = [block EXCEPT ![t] = a]
  /\ UNCHANGED <<live, length, ulAllocSumByte, ulHasUsedByte>>

FreeSub1(t) ==
  /\ At(t, "sub1", "sub2")
  /\ ulAllocSumByte' = Minus(ulAllocSumByte, length[block[t]])
  /\ UNCHANGED <<live, length, ulHasUsedByte, block>>

FreeSub2(t) ==
  /\ At(t, "sub2", "free")
  /\ ulHasUsedByte' = Minus(ulHasUsedByte, length[block[t]])
  /\ UNCHANGED <<live, length, ulAllocSumByte, block>>

FreeBlock(t) ==
  /\ At(t, "free", "out")
  /\ live' = live \ {block[t]}
  /\ block' = [block EXCEPT ![t] = Null]
  /\ UNCHANGED <<length, ulAllocSumByte, ulHasUsedByte>>

\* H_Free_struct, which frees first and takes the length from the type.
FreeStruct(t, a) ==
  /\ length[a] = StructSize
  /\ At(t, "out", "struct1")
  /\ live' = live \ {a}
  /\ block' = [block EXCEPT ![t] = a]
  /\ UNCHANGED <<length, ulAllocSumByte, ulHasUsedByte>>

\* Faulty variant: the length comes from the block that is free by now.
StructSub1Late(t) ==
  /\ At(t, "struct1", "struct2")
  /\ ulAllocSumByte' = Minus(ulAllocSumByte, length[block[t]])
  /\ UNCHANGED <<live, length, ulHasUsedByte, block>>

StructSub1(t) ==
  /\ At(t, "struct1", "struct2")
  /\ ulAllocSumByte' = Minus(ulAllocSumByte, StructSize)
  /\ UNCHANGED <<live, length, ulHasUsedByte, block>>

StructSub2(t) ==
  /\ At(t, "struct2", "out")
  /\ ulHasUsedByte' = Minus(ulHasUsedByte, StructSize)
  /\ block' = [block EXCEPT ![t] = Null]
  /\ UNCHANGED <<live, length, ulAllocSumByte>>

AllocWork(t) ==
  \/ MallocAdd1(t) \/ MallocAdd2(t)
  \/ FreeSub1(t) \/ FreeSub2(t) \/ FreeBlock(t)
  \/ StructSub1(t) \/ StructSub2(t)

-----------------------------------------------------------------------------
\* Whenever no thread is inside the allocator both counters are the bytes that
\* are allocated, modulo a word: no addition is lost, and none is undone with
\* the length of a block that another thread has got at the same address
\* (alloc.c:20-21, 50-52, 57-60).
Accounted ==
  (\A t \in Threads : pc[t] = "out") =>
     LET bytes == MapThenSumSet(LAMBDA a : length[a], live) % WordMod
     IN  ulAllocSumByte = bytes /\ ulHasUsedByte = bytes

=============================================================================
