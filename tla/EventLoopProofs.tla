-------------------------- MODULE EventLoopProofs --------------------------
(***************************************************************************)
(* The event loop and the allocator for any number of threads,             *)
(* descriptors and addresses, any sizes of blocks and any width of the     *)
(* counters: the node of a registered descriptor is an allocated block and *)
(* nobody else's, and the counters are the bytes that are allocated.       *)
(***************************************************************************)
EXTENDS EventLoop, DataProofs

-----------------------------------------------------------------------------
(* The invariant about the blocks.  A block is in use by the thread that is *)
(* making it, freeing it or about to register it: it is allocated, it is no *)
(* node yet, and no other thread uses it.  A node stays allocated.          *)

Stages == {"out", "add1", "add2", "sub1", "sub2", "free", "struct1", "struct2"}
BlockStages == {"add1", "add2", "sub1", "sub2", "free"}

Uses(t) ==
  \/ pc[t] \in BlockStages
  \/ at[t] = "ctl" /\ pc[t] = "out" /\ block[t] # Null

BlockTypes ==
  /\ live \in SUBSET Addresses
  /\ length \in [Addresses -> Nat]
  /\ pc \in [Threads -> Stages]
  /\ block \in [Threads -> Addresses \cup {Null}]

LoopTypes ==
  /\ reg \in [Threads -> [Fds -> Addresses \cup {Null}]]
  /\ node \in [Addresses -> Fds \cup {NoFd}]
  /\ at \in [Threads -> {"code", "wait", "ctl", "exit", "abort"}]
  /\ adding \in [Threads -> (Threads \X Fds) \cup {NotAdding}]
  /\ \A t \in Threads : at[t] = "ctl" => adding[t] # NotAdding

BlocksInUse ==
  \A t \in Threads : Uses(t) =>
    /\ block[t] \in live /\ node[block[t]] = NoFd
    /\ \A u \in Threads : u # t /\ Uses(u) => block[u] # block[t]

NodesAlive == \A a \in Addresses : node[a] # NoFd => a \in live

LoopInv == BlockTypes /\ LoopTypes /\ BlocksInUse /\ NodesAlive /\ RegisteredAlive

LEMMA LoopInvInit == EventInit => LoopInv
<1> SUFFICES ASSUME EventInit PROVE LoopInv
  OBVIOUS
<1>1. BlockTypes /\ LoopTypes
  BY EventParameters DEF EventInit, AllocInit, BlockTypes, LoopTypes, Stages
<1> QED
  BY <1>1 DEF EventInit, AllocInit, LoopInv, BlocksInUse, NodesAlive, RegisteredAlive, Uses,
       BlockStages, Registered

\* Steps that leave the blocks, the nodes and the calls of epoll_add alone.
LEMMA QuietSteps ==
  ASSUME LoopInv, UNCHANGED <<live, length, pc, reg, node, adding>>,
         at' \in [Threads -> {"code", "wait", "ctl", "exit", "abort"}],
         \A t \in Threads : at'[t] = "ctl" <=> at[t] = "ctl",
         block' \in [Threads -> Addresses \cup {Null}],
         \A t \in Threads : Uses(t) => block'[t] = block[t],
         \A t \in Threads : block'[t] \in {block[t], Null}
  PROVE  LoopInv'
<1> USE DEF LoopInv
<1>1. BlockTypes' /\ LoopTypes'
  BY DEF BlockTypes, LoopTypes
<1>2. \A t \in Threads : Uses(t)' => Uses(t)
  BY DEF Uses
<1>3. BlocksInUse'
  BY <1>2 DEF BlocksInUse
<1>4. NodesAlive' /\ RegisteredAlive'
  BY DEF NodesAlive, RegisteredAlive, Registered
<1> QED
  BY <1>1, <1>3, <1>4

LEMMA LoopSteps ==
  ASSUME LoopInv, NEW t \in Threads,
         \/ Wait(t) \/ Returns(t) \/ MainFails
         \/ \E fd \in Fds, v \in {"in", "hup"} : Arrives(fd, v)
         \/ \E fd \in Fds : Opens(t, fd) \/ Reads(t, fd)
  PROVE  LoopInv'
<1> USE DEF LoopInv, BlockTypes, LoopTypes, Goto
<1>1. CASE Wait(t)
  <2>1. at' \in [Threads -> {"code", "wait", "ctl", "exit", "abort"}]
        /\ \A u \in Threads : at'[u] = "ctl" <=> at[u] = "ctl"
    BY <1>1 DEF Wait
  <2> QED
    BY <1>1, <2>1, QuietSteps DEF Wait, allocVars
<1>2. CASE Returns(t)
  <2>1. at' \in [Threads -> {"code", "wait", "ctl", "exit", "abort"}]
        /\ \A u \in Threads : at'[u] = "ctl" <=> at[u] = "ctl"
    BY <1>2 DEF Returns
  <2>2. /\ block' \in [Threads -> Addresses \cup {Null}]
        /\ \A u \in Threads : Uses(u) => block'[u] = block[u]
        /\ \A u \in Threads : block'[u] \in {block[u], Null}
    BY <1>2 DEF Returns, Uses, BlockStages
  <2> QED
    BY <1>2, <2>1, <2>2, QuietSteps DEF Returns
<1>3. CASE MainFails
  <2>1. at' \in [Threads -> {"code", "wait", "ctl", "exit", "abort"}]
        /\ \A u \in Threads : at'[u] = "ctl" <=> at[u] = "ctl"
    BY <1>3, EventParameters DEF MainFails
  <2> QED
    BY <1>3, <2>1, QuietSteps DEF MainFails, allocVars
<1>4. CASE \E fd \in Fds, v \in {"in", "hup"} : Arrives(fd, v)
  BY <1>4, QuietSteps DEF Arrives, allocVars
<1>5. CASE \E fd \in Fds : Opens(t, fd) \/ Reads(t, fd)
  BY <1>5, QuietSteps DEF Opens, Reads, allocVars
<1> QED
  BY <1>1, <1>2, <1>3, <1>4, <1>5

LEMMA ClosesStep ==
  ASSUME LoopInv, NEW t \in Threads, NEW fd \in Fds, Closes(t, fd)
  PROVE  LoopInv'
<1> USE DEF LoopInv, Closes, allocVars
<1>1. \A e \in Threads, f \in Fds : reg'[e][f] = IF f = fd THEN Null ELSE reg[e][f]
  BY DEF LoopTypes
<1>2. reg' \in [Threads -> [Fds -> Addresses \cup {Null}]]
  BY DEF LoopTypes
<1>3. BlockTypes' /\ LoopTypes'
  BY <1>2 DEF BlockTypes, LoopTypes
<1>4. BlocksInUse' /\ NodesAlive'
  BY DEF BlocksInUse, NodesAlive, Uses
<1>5. RegisteredAlive'
  BY <1>1 DEF RegisteredAlive, Registered
<1> QED
  BY <1>3, <1>4, <1>5

\* epoll_ctl makes a node of the block that its thread has in use.
LEMMA CtlAddStep ==
  ASSUME LoopInv, NEW t \in Threads, CtlAdd(t)
  PROVE  LoopInv'
<1> DEFINE e == adding[t][1]
           fd == adding[t][2]
           b == block[t]
<1> USE DEF LoopInv
<1>1. e \in Threads /\ fd \in Fds
  BY DEF CtlAdd, LoopTypes
<1>2. /\ adding' \in [Threads -> (Threads \X Fds) \cup {NotAdding}]
      /\ UNCHANGED allocVars /\ at[t] = "ctl" /\ pc[t] = "out"
      /\ at' \in [Threads -> {"code", "wait", "ctl", "exit", "abort"}]
      /\ at'[t] # "ctl"
      /\ \A u \in Threads \ {t} : at'[u] = at[u] /\ adding'[u] = adding[u]
  BY DEF CtlAdd, LoopTypes, Goto
<1>3. \A u \in Threads : Uses(u)' => u # t /\ Uses(u)
  BY <1>2 DEF Uses, allocVars, BlockTypes, BlockStages
<1>4. BlockTypes'
  BY <1>2 DEF BlockTypes, allocVars
<1>5. CASE UNCHANGED <<reg, node>>
  <2>1. LoopTypes'
    BY <1>2, <1>5 DEF LoopTypes
  <2>2. BlocksInUse' /\ NodesAlive' /\ RegisteredAlive'
    BY <1>2, <1>3, <1>5 DEF BlocksInUse, NodesAlive, RegisteredAlive, Registered, allocVars
  <2> QED
    BY <1>4, <2>1, <2>2
<1>6. CASE /\ b # Null /\ ~Registered(e, fd)
           /\ reg' = [reg EXCEPT ![e][fd] = b]
           /\ node' = [node EXCEPT ![b] = fd]
  <2>1. b \in Addresses /\ b \in live /\ node[b] = NoFd
        /\ \A u \in Threads : u # t /\ Uses(u) => block[u] # b
    BY <1>2, <1>6 DEF BlocksInUse, Uses, BlockTypes
  <2> HIDE DEF e, fd, b
  <2>2. /\ reg' \in [Threads -> [Fds -> Addresses \cup {Null}]]
        /\ \A f \in Threads, g \in Fds :
             reg'[f][g] = IF f = e /\ g = fd THEN b ELSE reg[f][g]
    BY <1>1, <1>6, <2>1 DEF LoopTypes
  <2>3. /\ node' \in [Addresses -> Fds \cup {NoFd}]
        /\ \A a \in Addresses : node'[a] = IF a = b THEN fd ELSE node[a]
    BY <1>1, <1>6, <2>1 DEF LoopTypes
  <2>4. LoopTypes'
    BY <1>2, <2>2, <2>3 DEF LoopTypes
  <2>5. BlocksInUse'
    <3>1. \A u \in Threads : Uses(u) => block[u] \in Addresses
      BY DEF BlocksInUse, BlockTypes
    <3>2. block' = block /\ live' = live
      BY <1>2 DEF allocVars
    <3> QED
      BY <1>3, <2>1, <2>3, <3>1, <3>2 DEF BlocksInUse
  <2>6. NodesAlive'
    BY <1>2, <2>1, <2>3 DEF NodesAlive, allocVars
  <2>7. RegisteredAlive'
    <3>1. \A f \in Threads, g \in Fds : Registered(f, g) =>
            /\ reg[f][g] \in Addresses /\ reg[f][g] \in live /\ node[reg[f][g]] = g
            /\ reg[f][g] # b
      BY <2>1, EventParameters DEF RegisteredAlive, LoopTypes, Registered
    <3>2. live' = live
      BY <1>2 DEF allocVars
    <3>3. \A f \in Threads, g \in Fds : reg'[f][g] # Null =>
            /\ reg'[f][g] \in live' /\ node'[reg'[f][g]] = g
      BY <2>1, <2>2, <2>3, <3>1, <3>2 DEF Registered
    <3>4. ASSUME NEW f \in Threads, NEW g \in Fds, reg'[f][g] # Null,
                 NEW k \in Threads, NEW l \in Fds, reg'[k][l] = reg'[f][g]
          PROVE  k = f /\ l = g
      BY <2>2, <3>1, <3>4 DEF RegisteredAlive, Registered
    <3> QED
      BY <3>3, <3>4 DEF RegisteredAlive, Registered
  <2> QED
    BY <1>4, <2>4, <2>5, <2>6, <2>7
<1> QED
  BY <1>5, <1>6 DEF CtlAdd

\* H_Malloc, called by the application or by epoll_add: a block that is not
\* allocated is nobody's, and no node.
LEMMA MallocStep ==
  ASSUME LoopInv, NEW t \in Threads, NEW n \in Sizes, Malloc(t, n), at[t] = "code",
         UNCHANGED <<reg, node>>, LoopTypes',
         \A u \in Threads \ {t} : at'[u] = at[u]
  PROVE  LoopInv'
<1> USE DEF LoopInv
<1>1. n \in Nat
  BY AllocParameters
<1>2. CASE /\ At(t, "out", "out") /\ block' = [block EXCEPT ![t] = Null]
           /\ UNCHANGED <<live, length>>
  <2>1. BlockTypes'
    BY <1>2 DEF BlockTypes, At, Stages
  <2>2. \A u \in Threads : Uses(u)' => Uses(u) /\ block'[u] = block[u]
    BY <1>2 DEF Uses, BlockTypes, At, BlockStages
  <2>3. BlocksInUse'
    BY <1>2, <2>2 DEF BlocksInUse
  <2>4. NodesAlive' /\ RegisteredAlive'
    BY <1>2 DEF NodesAlive, RegisteredAlive, Registered
  <2> QED
    BY <2>1, <2>3, <2>4
<1>3. ASSUME NEW a \in Addresses \ live, At(t, "out", "add1"), live' = live \cup {a},
             length' = [length EXCEPT ![a] = n], block' = [block EXCEPT ![t] = a]
      PROVE  LoopInv'
  <2>1. BlockTypes'
    BY <1>1, <1>3 DEF BlockTypes, At, Stages
  <2>2. \A u \in Threads : Uses(u)' => IF u = t THEN block'[u] = a
                                      ELSE Uses(u) /\ block'[u] = block[u]
    BY <1>3 DEF Uses, BlockTypes, At
  <2>3. node[a] = NoFd
    BY <1>3 DEF NodesAlive
  <2>4. \A u \in Threads : Uses(u) => block[u] # a
    BY <1>3 DEF BlocksInUse
  <2>5. BlocksInUse'
    BY <1>3, <2>2, <2>3, <2>4 DEF BlocksInUse
  <2>6. NodesAlive' /\ RegisteredAlive'
    BY <1>3 DEF NodesAlive, RegisteredAlive, Registered
  <2> QED
    BY <2>1, <2>5, <2>6
<1> QED
  BY <1>2, <1>3 DEF Malloc

LEMMA AddsStep ==
  ASSUME LoopInv, NEW t \in Threads, NEW e \in {t, Main}, NEW fd \in Fds, Adds(t, e, fd)
  PROVE  LoopInv'
<1>1. LoopTypes' /\ \A u \in Threads \ {t} : at'[u] = at[u]
  BY EventParameters DEF LoopInv, LoopTypes, Adds, Goto, NotAdding
<1> QED
  BY <1>1, MallocStep, AllocParameters DEF Adds, InCode

LEMMA AllocatesStep ==
  ASSUME LoopInv, NEW t \in Threads, Allocates(t)
  PROVE  LoopInv'
<1>1. LoopTypes'
  BY DEF LoopInv, LoopTypes, Allocates
<1>2. CASE \E n \in Sizes : Malloc(t, n)
  BY <1>1, <1>2, MallocStep DEF Allocates, InCode
<1>3. ASSUME NEW a \in Own, Free(t, a) PROVE LoopInv'
  <2> USE DEF LoopInv
  <2>1. a \in live /\ a \in Addresses /\ node[a] = NoFd /\ pc[t] = "out" /\ at[t] = "code"
    BY <1>3 DEF Own, BlockTypes, Allocates, InCode
  <2>2. BlockTypes'
    BY <1>3, <2>1 DEF Free, At, BlockTypes, Stages
  <2>3. \A u \in Threads : Uses(u) => block[u] # a
    BY <1>3 DEF Own, Uses, BlockStages
  <2>4. \A u \in Threads : Uses(u)' => IF u = t THEN block'[u] = a
                                      ELSE Uses(u) /\ block'[u] = block[u]
    BY <1>3 DEF Uses, BlockTypes, Free, At, Allocates
  <2>5. BlocksInUse'
    BY <1>3, <2>1, <2>3, <2>4 DEF BlocksInUse, Free, Allocates
  <2>6. NodesAlive' /\ RegisteredAlive'
    BY <1>3 DEF NodesAlive, RegisteredAlive, Registered, Free, Allocates
  <2> QED
    BY <1>1, <2>2, <2>5, <2>6
<1>4. ASSUME NEW a \in Own, FreeStruct(t, a) PROVE LoopInv'
  <2> USE DEF LoopInv
  <2>1. a \in live /\ a \in Addresses /\ node[a] = NoFd
    BY <1>4 DEF Own, BlockTypes
  <2>2. BlockTypes'
    BY <1>4, <2>1 DEF FreeStruct, At, BlockTypes, Stages
  <2>3. \A u \in Threads : Uses(u) => block[u] # a
    BY <1>4 DEF Own, Uses, BlockStages
  <2>4. \A u \in Threads : Uses(u)' => u # t /\ Uses(u) /\ block'[u] = block[u]
    BY <1>4 DEF Uses, BlockTypes, FreeStruct, At, Allocates, BlockStages
  <2>5. BlocksInUse'
    BY <1>4, <2>1, <2>3, <2>4 DEF BlocksInUse, FreeStruct, Allocates
  <2>6. NodesAlive'
    BY <1>4, <2>1 DEF NodesAlive, FreeStruct, Allocates
  <2>7. RegisteredAlive'
    <3>1. \A e \in Threads, fd \in Fds : Registered(e, fd) => reg[e][fd] # a
      BY <2>1, EventParameters DEF RegisteredAlive
    <3> QED
      BY <1>4, <3>1 DEF RegisteredAlive, Registered, FreeStruct, Allocates
  <2> QED
    BY <1>1, <2>2, <2>5, <2>6, <2>7
<1> QED
  BY <1>2, <1>3, <1>4 DEF Allocates

LEMMA AllocatorStep ==
  ASSUME LoopInv, NEW t \in Threads, AllocWork(t), UNCHANGED loopVars
  PROVE  LoopInv'
<1> USE DEF LoopInv, loopVars
<1>1. LoopTypes'
  BY DEF LoopTypes
<1>2. CASE FreeBlock(t)
  <2>1. /\ pc[t] = "free" /\ pc' = [pc EXCEPT ![t] = "out"]
        /\ block' = [block EXCEPT ![t] = Null] /\ live' = live \ {block[t]} /\ length' = length
    BY <1>2 DEF FreeBlock, At
  <2>2. Uses(t) /\ node[block[t]] = NoFd
    BY <2>1 DEF Uses, BlockStages, BlocksInUse
  <2>3. BlockTypes'
    BY <2>1 DEF BlockTypes, Stages
  <2>4. \A u \in Threads : Uses(u)' => u # t /\ Uses(u) /\ block'[u] = block[u]
    BY <2>1 DEF Uses, BlockTypes, BlockStages
  <2>5. BlocksInUse'
    BY <2>1, <2>2, <2>4 DEF BlocksInUse
  <2>6. NodesAlive'
    BY <2>1, <2>2 DEF NodesAlive
  <2>7. RegisteredAlive'
    <3>1. \A e \in Threads, fd \in Fds : Registered(e, fd) => reg[e][fd] # block[t]
      BY <2>2, EventParameters DEF RegisteredAlive
    <3> QED
      BY <2>1, <3>1 DEF RegisteredAlive, Registered
  <2> QED
    BY <1>1, <2>3, <2>5, <2>6, <2>7
<1>3. CASE \/ MallocAdd1(t) \/ MallocAdd2(t) \/ FreeSub1(t) \/ FreeSub2(t)
           \/ StructSub1(t) \/ StructSub2(t)
  <2>1. /\ UNCHANGED <<live, length>>
        /\ BlockTypes'
    BY <1>3 DEF BlockTypes, MallocAdd1, MallocAdd2, FreeSub1, FreeSub2, StructSub1, StructSub2,
         At, Stages
  <2>2. \A u \in Threads : Uses(u)' => Uses(u) /\ block'[u] = block[u]
    BY <1>3 DEF Uses, BlockTypes, BlockStages, MallocAdd1, MallocAdd2, FreeSub1, FreeSub2,
         StructSub1, StructSub2, At
  <2>3. BlocksInUse'
    BY <2>1, <2>2 DEF BlocksInUse
  <2>4. NodesAlive' /\ RegisteredAlive'
    BY <2>1 DEF NodesAlive, RegisteredAlive, Registered
  <2> QED
    BY <1>1, <2>1, <2>3, <2>4
<1> QED
  BY <1>2, <1>3 DEF AllocWork

LEMMA LoopInvStep == LoopInv /\ [EventNext]_vars => LoopInv'
<1>1. ASSUME LoopInv, EventNext PROVE LoopInv'
  <2>1. CASE \E fd \in Fds, v \in {"in", "hup"} : Arrives(fd, v)
    BY <1>1, <2>1, EventParameters, LoopSteps
  <2>2. CASE MainFails
    BY <1>1, <2>2, EventParameters, LoopSteps
  <2>3. ASSUME NEW t \in Threads, Allocates(t) \/ EventWork(t) PROVE LoopInv'
    BY <1>1, <2>3, AllocatesStep, AllocatorStep, CtlAddStep, LoopSteps DEF EventWork, Allocator
  <2>4. ASSUME NEW t \in Threads, NEW fd \in Fds, Opens(t, fd) \/ Closes(t, fd) \/ Reads(t, fd)
        PROVE  LoopInv'
    BY <1>1, <2>4, LoopSteps, ClosesStep
  <2>5. ASSUME NEW t \in Threads, NEW e \in {t, Main}, NEW fd \in Fds, Adds(t, e, fd)
        PROVE  LoopInv'
    BY <1>1, <2>5, AddsStep
  <2> QED
    BY <1>1, <2>1, <2>2, <2>3, <2>4, <2>5 DEF EventNext
<1>2. ASSUME LoopInv, UNCHANGED vars PROVE LoopInv'
  BY <1>2, QuietSteps DEF vars, allocVars, loopVars, LoopInv, BlockTypes, LoopTypes
<1> QED
  BY <1>1, <1>2

\* The node of a registered descriptor is an allocated block, that descriptor's and
\* nobody else's, for any number of threads, descriptors and addresses
\* (main.c:51-60).
THEOREM NodesStayAlive == Spec => []RegisteredAlive
<1>1. EventInit => LoopInv
  BY LoopInvInit
<1>2. LoopInv /\ [EventNext]_vars => LoopInv'
  BY LoopInvStep
<1>3. LoopInv => RegisteredAlive
  BY DEF LoopInv
<1> QED
  BY <1>1, <1>2, <1>3, PTL DEF Spec

-----------------------------------------------------------------------------
(* The invariant about the counters.  A counter leaves out the blocks whose *)
(* thread is at the stages P, before it adds or behind where it subtracted, *)
(* and still has those of the threads at the stages Q of H_Free_struct,     *)
(* which are free by now.                                                   *)

Held(P) == {a \in live : \A t \in Threads : pc[t] \in P => block[t] # a}
Given(Q) == {t \in Threads : pc[t] \in Q}

Total(P, Q) == SumOver(length, Held(P)) + StructSize * Cardinality(Given(Q))

SumOut == {"add1", "sub2", "free"}
SumStill == {"struct1"}
UsedOut == {"add1", "add2", "free"}
UsedStill == {"struct1", "struct2"}

Finite == IsFiniteSet(live) /\ IsFiniteSet(Given(UsedStill))

CountInv ==
  /\ Finite
  /\ ulAllocSumByte = Total(SumOut, SumStill) % WordMod
  /\ ulHasUsedByte = Total(UsedOut, UsedStill) % WordMod

LEMMA PartsFinite ==
  ASSUME LoopInv, Finite, NEW P, NEW Q \in SUBSET UsedStill
  PROVE  /\ IsFiniteSet(Held(P)) /\ IsFiniteSet(Given(Q))
         /\ \A a \in Held(P) : length[a] \in Nat
         /\ SumOver(length, Held(P)) \in Nat
         /\ Cardinality(Given(Q)) \in Nat
         /\ StructSize \in Nat
         /\ Total(P, Q) \in Nat
<1>1. Held(P) \in SUBSET live /\ Given(Q) \in SUBSET Given(UsedStill)
  BY DEF Held, Given
<1>2. IsFiniteSet(Held(P)) /\ IsFiniteSet(Given(Q))
  BY <1>1, FS_Subset DEF Finite
<1>3. \A a \in Held(P) : length[a] \in Nat
  BY <1>1 DEF LoopInv, BlockTypes
<1>4. SumOver(length, Held(P)) \in Nat
  BY <1>2, <1>3, SumOverNatural
<1>5. Cardinality(Given(Q)) \in Nat
  BY <1>2, FS_CardinalityType
<1>6. StructSize \in Nat
  BY AllocParameters
<1> QED
  BY <1>2, <1>3, <1>4, <1>5, <1>6 DEF Total

LEMMA TotalSame ==
  ASSUME LoopInv, Finite, NEW P, NEW Q \in SUBSET UsedStill,
         Held(P)' = Held(P), \A a \in Held(P) : length'[a] = length[a],
         Given(Q)' = Given(Q)
  PROVE  Total(P, Q)' = Total(P, Q)
<1>1. SumOver(length', Held(P)) = SumOver(length, Held(P))
  BY PartsFinite, SumOverSame
<1> QED
  BY <1>1 DEF Total

\* A block begins to count: its thread leaves the stages P.
LEMMA TotalAdds ==
  ASSUME LoopInv, Finite, NEW P \in SUBSET BlockStages, NEW Q \in SUBSET UsedStill,
         NEW t \in Threads, NEW r, pc[t] \in P, r \notin P, r \notin Q,
         pc' = [pc EXCEPT ![t] = r], UNCHANGED <<live, length, block>>
  PROVE  Total(P, Q)' = Total(P, Q) + length[block[t]]
<1> DEFINE b == block[t]
<1>1. Uses(t) /\ b \in live
  BY DEF LoopInv, Uses, BlocksInUse
<1>2. \A u \in Threads : pc'[u] = IF u = t THEN r ELSE pc[u]
  BY DEF LoopInv, BlockTypes
<1>3. Held(P)' = Held(P) \cup {b} /\ b \notin Held(P)
  BY <1>1, <1>2 DEF Held, LoopInv, BlocksInUse, Uses
<1>4. Given(Q)' = Given(Q)
  BY <1>2 DEF Given, BlockStages, UsedStill
<1>5. length[b] \in Nat
  BY <1>1 DEF LoopInv, BlockTypes
<1>6. SumOver(length, Held(P) \cup {b}) = SumOver(length, Held(P)) + length[b]
  <2> HIDE DEF b
  <2>1. length[b] \in Int /\ \A a \in Held(P) : length[a] \in Int
    BY <1>5, PartsFinite
  <2> QED
    BY <1>3, <2>1, PartsFinite, SumOverAdd
<1>7. Total(P, Q)' = (SumOver(length, Held(P)) + length[b]) + StructSize * Cardinality(Given(Q))
  BY <1>3, <1>4, <1>6 DEF Total
<1>8. \A i, j, k \in Nat : (i + j) + k = (i + k) + j
  OBVIOUS
<1>9. StructSize * Cardinality(Given(Q)) \in Nat /\ SumOver(length, Held(P)) \in Nat
  <2>1. Cardinality(Given(Q)) \in Nat /\ StructSize \in Nat /\ SumOver(length, Held(P)) \in Nat
    BY PartsFinite
  <2> QED
    BY <2>1
<1> QED
  BY <1>5, <1>7, <1>8, <1>9 DEF Total

\* It ceases to: its thread comes to the stages P.
LEMMA TotalSubtracts ==
  ASSUME LoopInv, Finite, NEW P \in SUBSET BlockStages, NEW Q \in SUBSET UsedStill,
         NEW t \in Threads, NEW r \in P, pc[t] \in BlockStages \ P,
         pc' = [pc EXCEPT ![t] = r], UNCHANGED <<live, length, block>>
  PROVE  Total(P, Q) = Total(P, Q)' + length[block[t]] /\ Total(P, Q)' \in Nat
<1> DEFINE b == block[t]
<1>1. Uses(t) /\ b \in live
  BY DEF LoopInv, Uses, BlocksInUse
<1>2. \A u \in Threads : pc'[u] = IF u = t THEN r ELSE pc[u]
  BY DEF LoopInv, BlockTypes
<1>3. Held(P)' = Held(P) \ {b} /\ b \in Held(P)
  BY <1>1, <1>2 DEF Held, LoopInv, BlocksInUse, Uses
<1>4. Given(Q)' = Given(Q)
  BY <1>2 DEF Given, BlockStages, UsedStill
<1>5. length[b] \in Nat
  BY <1>1 DEF LoopInv, BlockTypes
<1>6. SumOver(length, Held(P)) = length[b] + SumOver(length, Held(P) \ {b})
  <2> HIDE DEF b
  <2>1. \A a \in Held(P) : length[a] \in Int
    BY PartsFinite
  <2> QED
    BY <1>3, <2>1, PartsFinite, SumOverRemove
<1>7. SumOver(length, Held(P) \ {b}) \in Nat
  <2>1. IsFiniteSet(Held(P) \ {b})
    BY PartsFinite, FS_RemoveElement
  <2> QED
    BY <2>1, PartsFinite, SumOverNatural
<1>8. \A i, j, k \in Nat : (j + i) + k = (i + k) + j /\ i + k \in Nat
  OBVIOUS
<1>11. Total(P, Q) = (length[b] + SumOver(length, Held(P) \ {b}))
                       + StructSize * Cardinality(Given(Q))
  BY <1>6 DEF Total
<1>9. StructSize * Cardinality(Given(Q)) \in Nat
  BY PartsFinite
<1>10. Total(P, Q)' = SumOver(length, Held(P) \ {b}) + StructSize * Cardinality(Given(Q))
  BY <1>3, <1>4 DEF Total
<1> QED
  BY <1>5, <1>7, <1>8, <1>9, <1>10, <1>11

\* The steps behind which both counters stand for the same blocks.
LEMMA CountSame ==
  ASSUME LoopInv, CountInv, UNCHANGED <<ulAllocSumByte, ulHasUsedByte>>, IsFiniteSet(live'),
         Held(SumOut)' = Held(SumOut), Held(UsedOut)' = Held(UsedOut),
         Given(SumStill)' = Given(SumStill), Given(UsedStill)' = Given(UsedStill),
         \A a \in live : length'[a] = length[a]
  PROVE  CountInv'
<1>1. \A P : \A a \in Held(P) : a \in live
  BY DEF Held
<1>2. SumStill \in SUBSET UsedStill /\ UsedStill \in SUBSET UsedStill
  BY DEF SumStill, UsedStill
<1>3. Total(SumOut, SumStill)' = Total(SumOut, SumStill)
  BY <1>1, <1>2, TotalSame DEF CountInv
<1>4. Total(UsedOut, UsedStill)' = Total(UsedOut, UsedStill)
  BY <1>1, <1>2, TotalSame DEF CountInv
<1>5. Finite'
  BY DEF CountInv, Finite
<1> QED
  BY <1>3, <1>4, <1>5 DEF CountInv

\* Steps outside of the allocator, and the H_Malloc that gets no block.
LEMMA QuietCount ==
  ASSUME LoopInv, CountInv, UNCHANGED <<live, length, pc, ulAllocSumByte, ulHasUsedByte>>,
         \A t \in Threads : pc[t] # "out" => block'[t] = block[t]
  PROVE  CountInv'
<1>1. \A P \in SUBSET BlockStages : Held(P)' = Held(P)
  BY DEF Held, BlockStages
<1>2. \A Q : Given(Q)' = Given(Q)
  BY DEF Given
<1>3. SumOut \in SUBSET BlockStages /\ UsedOut \in SUBSET BlockStages
  BY DEF SumOut, UsedOut, BlockStages
<1> QED
  BY <1>1, <1>2, <1>3, CountSame DEF CountInv, Finite

LEMMA MallocCount ==
  ASSUME LoopInv, CountInv, NEW t \in Threads, NEW n \in Sizes, Malloc(t, n)
  PROVE  CountInv'
<1>1. CASE /\ At(t, "out", "out") /\ block' = [block EXCEPT ![t] = Null]
           /\ UNCHANGED <<live, length>>
  <2>1. pc' = pc /\ \A u \in Threads : pc[u] # "out" => block'[u] = block[u]
    BY <1>1 DEF LoopInv, BlockTypes, At
  <2> QED
    BY <1>1, <2>1, QuietCount DEF Malloc
<1>2. ASSUME NEW a \in Addresses \ live, At(t, "out", "add1"), live' = live \cup {a},
             length' = [length EXCEPT ![a] = n], block' = [block EXCEPT ![t] = a]
      PROVE  CountInv'
  <2>1. \A u \in Threads : /\ pc'[u] = IF u = t THEN "add1" ELSE pc[u]
                           /\ block'[u] = IF u = t THEN a ELSE block[u]
    BY <1>2 DEF LoopInv, BlockTypes, At
  <2>2. pc[t] = "out"
    BY <1>2 DEF At
  <2>3. ASSUME NEW P \in SUBSET BlockStages, "add1" \in P
        PROVE  Held(P)' = Held(P)
    <3>1. "out" \notin P
      BY DEF BlockStages
    <3> QED
      BY <1>2, <2>1, <2>2, <2>3, <3>1 DEF Held
  <2>4. \A Q \in SUBSET UsedStill : Given(Q)' = Given(Q)
    BY <2>1, <2>2 DEF Given, UsedStill
  <2>5. \A b \in live : length'[b] = length[b]
    BY <1>2 DEF LoopInv, BlockTypes
  <2>6. IsFiniteSet(live')
    BY <1>2, FS_AddElement DEF CountInv, Finite
  <2>7. /\ SumOut \in SUBSET BlockStages /\ UsedOut \in SUBSET BlockStages
        /\ "add1" \in SumOut /\ "add1" \in UsedOut
        /\ SumStill \in SUBSET UsedStill /\ UsedStill \in SUBSET UsedStill
    BY DEF SumOut, UsedOut, BlockStages, SumStill, UsedStill
  <2>8. Held(SumOut)' = Held(SumOut) /\ Held(UsedOut)' = Held(UsedOut)
    BY <2>3, <2>7
  <2> QED
    BY <2>4, <2>5, <2>6, <2>7, <2>8, CountSame DEF Malloc
<1> QED
  BY <1>1, <1>2 DEF Malloc

\* H_Free begins: the block still counts.
LEMMA FreeCount ==
  ASSUME LoopInv, CountInv, NEW t \in Threads, NEW a \in Addresses, Free(t, a)
  PROVE  CountInv'
<1>1. \A u \in Threads : /\ pc'[u] = IF u = t THEN "sub1" ELSE pc[u]
                         /\ block'[u] = IF u = t THEN a ELSE block[u]
  BY DEF LoopInv, BlockTypes, At, Free
<1>2. pc[t] = "out" /\ live' = live
  BY DEF Free, At
<1>3. Held(SumOut)' = Held(SumOut) /\ Held(UsedOut)' = Held(UsedOut)
  BY <1>1, <1>2 DEF Held, SumOut, UsedOut
<1>4. Given(SumStill)' = Given(SumStill) /\ Given(UsedStill)' = Given(UsedStill)
  BY <1>1, <1>2 DEF Given, SumStill, UsedStill
<1> QED
  BY <1>3, <1>4, CountSame DEF Free, CountInv, Finite

\* H_Free_struct begins: the block is free, and its thread still has to
\* subtract what it had.
LEMMA GivenTotal ==
  ASSUME LoopInv, CountInv, NEW P \in SUBSET BlockStages, NEW Q \in SUBSET UsedStill,
         NEW t \in Threads, NEW a \in Held(P), length[a] = StructSize, t \notin Given(Q),
         Held(P)' = Held(P) \ {a}, Given(Q)' = Given(Q) \cup {t}, length' = length
  PROVE  Total(P, Q)' = Total(P, Q)
<1>1. /\ IsFiniteSet(Held(P)) /\ \A b \in Held(P) : length[b] \in Nat
      /\ StructSize \in Nat /\ IsFiniteSet(Given(Q)) /\ Cardinality(Given(Q)) \in Nat
  BY PartsFinite DEF CountInv
<1>2. SumOver(length, Held(P)) = StructSize + SumOver(length, Held(P) \ {a})
  BY <1>1, SumOverRemove
<1>3. SumOver(length, Held(P) \ {a}) \in Nat
  <2>1. IsFiniteSet(Held(P) \ {a})
    BY <1>1, FS_RemoveElement
  <2> QED
    BY <1>1, <2>1, SumOverNatural
<1>4. Cardinality(Given(Q) \cup {t}) = Cardinality(Given(Q)) + 1
  BY <1>1, FS_AddElement
<1>5. \A i, j, k \in Nat : i + k * (j + 1) = (k + i) + k * j
  OBVIOUS
<1> QED
  BY <1>1, <1>2, <1>3, <1>4, <1>5 DEF Total

LEMMA FreeStructCount ==
  ASSUME LoopInv, CountInv, NEW t \in Threads, NEW a \in Own, FreeStruct(t, a)
  PROVE  CountInv'
<1>1. \A u \in Threads : /\ pc'[u] = IF u = t THEN "struct1" ELSE pc[u]
                         /\ block'[u] = IF u = t THEN a ELSE block[u]
  BY DEF LoopInv, BlockTypes, At, FreeStruct, Own
<1>2. /\ pc[t] = "out" /\ length[a] = StructSize
      /\ live' = live \ {a} /\ length' = length
      /\ UNCHANGED <<ulAllocSumByte, ulHasUsedByte>>
  BY DEF FreeStruct, At
<1>3. ASSUME NEW P \in SUBSET BlockStages
      PROVE  a \in Held(P) /\ Held(P)' = Held(P) \ {a}
  BY <1>1, <1>2 DEF Held, Own, BlockStages
<1>4. ASSUME NEW Q \in SUBSET UsedStill, "struct1" \in Q
      PROVE  t \notin Given(Q) /\ Given(Q)' = Given(Q) \cup {t}
  BY <1>1, <1>2, <1>4 DEF Given, UsedStill
<1>5. /\ SumOut \in SUBSET BlockStages /\ UsedOut \in SUBSET BlockStages
      /\ "struct1" \in SumStill /\ "struct1" \in UsedStill
      /\ SumStill \in SUBSET UsedStill /\ UsedStill \in SUBSET UsedStill
  BY DEF SumOut, UsedOut, BlockStages, SumStill, UsedStill
<1>6. Total(SumOut, SumStill)' = Total(SumOut, SumStill)
  BY <1>2, <1>3, <1>4, <1>5, GivenTotal
<1>7. Total(UsedOut, UsedStill)' = Total(UsedOut, UsedStill)
  BY <1>2, <1>3, <1>4, <1>5, GivenTotal
<1>8. Finite'
  <2>1. Given(UsedStill)' = Given(UsedStill) \cup {t}
    BY <1>4, <1>5
  <2> QED
    BY <1>2, <2>1, FS_AddElement, FS_RemoveElement DEF CountInv, Finite
<1> QED
  BY <1>2, <1>6, <1>7, <1>8 DEF CountInv

\* H_Free_struct subtracts what its block had.
LEMMA TakenTotal ==
  ASSUME LoopInv, Finite, NEW P, NEW Q \in SUBSET UsedStill, NEW t \in Given(Q),
         Held(P)' = Held(P), length' = length, Given(Q)' = Given(Q) \ {t}
  PROVE  Total(P, Q) = Total(P, Q)' + StructSize /\ Total(P, Q)' \in Nat
<1>1. /\ SumOver(length, Held(P)) \in Nat
      /\ StructSize \in Nat /\ IsFiniteSet(Given(Q)) /\ Cardinality(Given(Q)) \in Nat
  BY PartsFinite
<1>2. /\ Cardinality(Given(Q)) = Cardinality(Given(Q) \ {t}) + 1
      /\ Cardinality(Given(Q) \ {t}) \in Nat
  <2>1. IsFiniteSet(Given(Q) \ {t}) /\ Cardinality(Given(Q) \ {t}) = Cardinality(Given(Q)) - 1
    BY <1>1, FS_RemoveElement
  <2> QED
    BY <1>1, <2>1, FS_CardinalityType
<1>3. \A i, j, k \in Nat : i + k * (j + 1) = (i + k * j) + k /\ i + k * j \in Nat
  OBVIOUS
<1> QED
  BY <1>1, <1>2, <1>3 DEF Total

LEMMA CounterAdds ==
  ASSUME NEW c, NEW T \in Nat, NEW n \in Nat, c = T % WordMod
  PROVE  Plus(c, n) = (T + n) % WordMod
BY AllocParameters, ModAdd DEF Plus

LEMMA CounterSubtracts ==
  ASSUME NEW c, NEW T \in Nat, NEW n \in Nat, c = (T + n) % WordMod
  PROVE  Minus(c, n) = T % WordMod
BY AllocParameters, ModSubtract DEF Minus

LEMMA MallocAdds ==
  ASSUME LoopInv, CountInv, NEW t \in Threads, MallocAdd1(t) \/ MallocAdd2(t)
  PROVE  CountInv'
<1>1. /\ UNCHANGED <<live, length, block>> /\ Uses(t) /\ length[block[t]] \in Nat
  BY DEF MallocAdd1, MallocAdd2, At, Uses, BlockStages, LoopInv, BlocksInUse, BlockTypes
<1>2. /\ SumOut \in SUBSET BlockStages /\ UsedOut \in SUBSET BlockStages
      /\ SumStill \in SUBSET UsedStill /\ UsedStill \in SUBSET UsedStill
  BY DEF SumOut, UsedOut, BlockStages, SumStill, UsedStill
<1>3. Total(SumOut, SumStill) \in Nat /\ Total(UsedOut, UsedStill) \in Nat
  BY <1>2, PartsFinite DEF CountInv
<1>4. CASE MallocAdd1(t)
  <2>1. pc[t] = "add1" /\ pc' = [pc EXCEPT ![t] = "add2"] /\ ulHasUsedByte' = ulHasUsedByte
        /\ ulAllocSumByte' = Plus(ulAllocSumByte, length[block[t]])
    BY <1>4 DEF MallocAdd1, At
  <2>2. \A u \in Threads : pc'[u] = IF u = t THEN "add2" ELSE pc[u]
    BY <2>1 DEF LoopInv, BlockTypes
  <2>3. Total(SumOut, SumStill)' = Total(SumOut, SumStill) + length[block[t]]
    <3>1. "add1" \in SumOut /\ "add2" \notin SumOut /\ "add2" \notin SumStill
      BY DEF SumOut, SumStill
    <3> QED
      BY <1>1, <1>2, <2>1, <3>1, TotalAdds DEF CountInv
  <2>4. Held(UsedOut)' = Held(UsedOut) /\ \A Q \in SUBSET UsedStill : Given(Q)' = Given(Q)
    BY <1>1, <2>1, <2>2 DEF Held, Given, UsedOut, UsedStill
  <2>5. Total(UsedOut, UsedStill)' = Total(UsedOut, UsedStill)
    BY <1>1, <1>2, <2>4, TotalSame DEF CountInv
  <2>6. Finite'
    BY <1>1, <1>2, <2>4 DEF CountInv, Finite
  <2> QED
    BY <1>1, <1>3, <2>1, <2>3, <2>5, <2>6, CounterAdds DEF CountInv
<1>5. CASE MallocAdd2(t)
  <2>1. pc[t] = "add2" /\ pc' = [pc EXCEPT ![t] = "out"] /\ ulAllocSumByte' = ulAllocSumByte
        /\ ulHasUsedByte' = Plus(ulHasUsedByte, length[block[t]])
    BY <1>5 DEF MallocAdd2, At
  <2>2. \A u \in Threads : pc'[u] = IF u = t THEN "out" ELSE pc[u]
    BY <2>1 DEF LoopInv, BlockTypes
  <2>3. Total(UsedOut, UsedStill)' = Total(UsedOut, UsedStill) + length[block[t]]
    <3>1. "add2" \in UsedOut /\ "out" \notin UsedOut /\ "out" \notin UsedStill
      BY DEF UsedOut, UsedStill
    <3> QED
      BY <1>1, <1>2, <2>1, <3>1, TotalAdds DEF CountInv
  <2>4. Held(SumOut)' = Held(SumOut) /\ \A Q \in SUBSET UsedStill : Given(Q)' = Given(Q)
    BY <1>1, <2>1, <2>2 DEF Held, Given, SumOut, UsedStill
  <2>5. Total(SumOut, SumStill)' = Total(SumOut, SumStill)
    BY <1>1, <1>2, <2>4, TotalSame DEF CountInv
  <2>6. Finite'
    BY <1>1, <1>2, <2>4 DEF CountInv, Finite
  <2> QED
    BY <1>1, <1>3, <2>1, <2>3, <2>5, <2>6, CounterAdds DEF CountInv
<1> QED
  BY <1>4, <1>5

LEMMA FreeSubtracts ==
  ASSUME LoopInv, CountInv, NEW t \in Threads, FreeSub1(t) \/ FreeSub2(t)
  PROVE  CountInv'
<1>1. /\ UNCHANGED <<live, length, block>> /\ Uses(t) /\ length[block[t]] \in Nat
  BY DEF FreeSub1, FreeSub2, At, Uses, BlockStages, LoopInv, BlocksInUse, BlockTypes
<1>2. /\ SumOut \in SUBSET BlockStages /\ UsedOut \in SUBSET BlockStages
      /\ SumStill \in SUBSET UsedStill /\ UsedStill \in SUBSET UsedStill
  BY DEF SumOut, UsedOut, BlockStages, SumStill, UsedStill
<1>3. CASE FreeSub1(t)
  <2>1. pc[t] = "sub1" /\ pc' = [pc EXCEPT ![t] = "sub2"] /\ ulHasUsedByte' = ulHasUsedByte
        /\ ulAllocSumByte' = Minus(ulAllocSumByte, length[block[t]])
    BY <1>3 DEF FreeSub1, At
  <2>2. \A u \in Threads : pc'[u] = IF u = t THEN "sub2" ELSE pc[u]
    BY <2>1 DEF LoopInv, BlockTypes
  <2>3. /\ Total(SumOut, SumStill) = Total(SumOut, SumStill)' + length[block[t]]
        /\ Total(SumOut, SumStill)' \in Nat
    <3>1. "sub1" \in BlockStages \ SumOut /\ "sub2" \in SumOut
      BY DEF SumOut, BlockStages
    <3> QED
      BY <1>1, <1>2, <2>1, <3>1, TotalSubtracts DEF CountInv
  <2>4. Held(UsedOut)' = Held(UsedOut) /\ \A Q \in SUBSET UsedStill : Given(Q)' = Given(Q)
    BY <1>1, <2>1, <2>2 DEF Held, Given, UsedOut, UsedStill
  <2>5. Total(UsedOut, UsedStill)' = Total(UsedOut, UsedStill)
    BY <1>1, <1>2, <2>4, TotalSame DEF CountInv
  <2>6. Finite'
    BY <1>1, <1>2, <2>4 DEF CountInv, Finite
  <2> QED
    BY <1>1, <2>1, <2>3, <2>5, <2>6, CounterSubtracts DEF CountInv
<1>4. CASE FreeSub2(t)
  <2>1. pc[t] = "sub2" /\ pc' = [pc EXCEPT ![t] = "free"] /\ ulAllocSumByte' = ulAllocSumByte
        /\ ulHasUsedByte' = Minus(ulHasUsedByte, length[block[t]])
    BY <1>4 DEF FreeSub2, At
  <2>2. \A u \in Threads : pc'[u] = IF u = t THEN "free" ELSE pc[u]
    BY <2>1 DEF LoopInv, BlockTypes
  <2>3. /\ Total(UsedOut, UsedStill) = Total(UsedOut, UsedStill)' + length[block[t]]
        /\ Total(UsedOut, UsedStill)' \in Nat
    <3>1. "sub2" \in BlockStages \ UsedOut /\ "free" \in UsedOut
      BY DEF UsedOut, BlockStages
    <3> QED
      BY <1>1, <1>2, <2>1, <3>1, TotalSubtracts DEF CountInv
  <2>4. Held(SumOut)' = Held(SumOut) /\ \A Q \in SUBSET UsedStill : Given(Q)' = Given(Q)
    BY <1>1, <2>1, <2>2 DEF Held, Given, SumOut, UsedStill
  <2>5. Total(SumOut, SumStill)' = Total(SumOut, SumStill)
    BY <1>1, <1>2, <2>4, TotalSame DEF CountInv
  <2>6. Finite'
    BY <1>1, <1>2, <2>4 DEF CountInv, Finite
  <2> QED
    BY <1>1, <2>1, <2>3, <2>5, <2>6, CounterSubtracts DEF CountInv
<1> QED
  BY <1>3, <1>4

LEMMA FreeBlockCount ==
  ASSUME LoopInv, CountInv, NEW t \in Threads, FreeBlock(t)
  PROVE  CountInv'
<1>1. /\ pc[t] = "free" /\ Uses(t) /\ live' = live \ {block[t]}
      /\ UNCHANGED <<length, ulAllocSumByte, ulHasUsedByte>>
  BY DEF FreeBlock, At, Uses, BlockStages
<1>2. \A u \in Threads : /\ pc'[u] = IF u = t THEN "out" ELSE pc[u]
                         /\ block'[u] = IF u = t THEN Null ELSE block[u]
  BY DEF LoopInv, BlockTypes, At, FreeBlock
<1>3. \A u \in Threads : u # t /\ pc[u] \in BlockStages => block[u] # block[t]
  BY <1>1 DEF LoopInv, BlocksInUse, Uses
<1>4. Held(SumOut)' = Held(SumOut) /\ Held(UsedOut)' = Held(UsedOut)
  BY <1>1, <1>2, <1>3 DEF Held, SumOut, UsedOut, BlockStages
<1>5. Given(SumStill)' = Given(SumStill) /\ Given(UsedStill)' = Given(UsedStill)
  BY <1>1, <1>2 DEF Given, SumStill, UsedStill
<1>6. IsFiniteSet(live')
  BY <1>1, FS_RemoveElement DEF CountInv, Finite
<1> QED
  BY <1>1, <1>4, <1>5, <1>6, CountSame

LEMMA StructSubtracts ==
  ASSUME LoopInv, CountInv, NEW t \in Threads, StructSub1(t) \/ StructSub2(t)
  PROVE  CountInv'
<1>1. UNCHANGED <<live, length>> /\ StructSize \in Nat
  BY AllocParameters DEF StructSub1, StructSub2
<1>2. SumStill \in SUBSET UsedStill /\ UsedStill \in SUBSET UsedStill
  BY DEF SumStill, UsedStill
<1>3. CASE StructSub1(t)
  <2>1. /\ pc[t] = "struct1" /\ block' = block /\ ulHasUsedByte' = ulHasUsedByte
        /\ ulAllocSumByte' = Minus(ulAllocSumByte, StructSize)
        /\ \A u \in Threads : pc'[u] = IF u = t THEN "struct2" ELSE pc[u]
    BY <1>3 DEF StructSub1, At, LoopInv, BlockTypes
  <2>2. Held(SumOut)' = Held(SumOut) /\ Held(UsedOut)' = Held(UsedOut)
    BY <1>1, <2>1 DEF Held, SumOut, UsedOut
  <2>3. t \in Given(SumStill) /\ Given(SumStill)' = Given(SumStill) \ {t}
        /\ Given(UsedStill)' = Given(UsedStill)
    BY <2>1 DEF Given, SumStill, UsedStill
  <2>4. /\ Total(SumOut, SumStill) = Total(SumOut, SumStill)' + StructSize
        /\ Total(SumOut, SumStill)' \in Nat
    BY <1>1, <1>2, <2>2, <2>3, TakenTotal DEF CountInv
  <2>5. Total(UsedOut, UsedStill)' = Total(UsedOut, UsedStill)
    BY <1>1, <1>2, <2>2, <2>3, TotalSame DEF CountInv
  <2>6. Finite'
    BY <1>1, <2>3 DEF CountInv, Finite
  <2> QED
    BY <1>1, <2>1, <2>4, <2>5, <2>6, CounterSubtracts DEF CountInv
<1>4. CASE StructSub2(t)
  <2>1. /\ pc[t] = "struct2" /\ ulAllocSumByte' = ulAllocSumByte
        /\ ulHasUsedByte' = Minus(ulHasUsedByte, StructSize)
        /\ \A u \in Threads : /\ pc'[u] = IF u = t THEN "out" ELSE pc[u]
                              /\ block'[u] = IF u = t THEN Null ELSE block[u]
    BY <1>4 DEF StructSub2, At, LoopInv, BlockTypes
  <2>2. Held(SumOut)' = Held(SumOut) /\ Held(UsedOut)' = Held(UsedOut)
    BY <1>1, <2>1 DEF Held, SumOut, UsedOut
  <2>3. t \in Given(UsedStill) /\ Given(UsedStill)' = Given(UsedStill) \ {t}
        /\ Given(SumStill)' = Given(SumStill)
    BY <2>1 DEF Given, SumStill, UsedStill
  <2>4. /\ Total(UsedOut, UsedStill) = Total(UsedOut, UsedStill)' + StructSize
        /\ Total(UsedOut, UsedStill)' \in Nat
    BY <1>1, <1>2, <2>2, <2>3, TakenTotal DEF CountInv
  <2>5. Total(SumOut, SumStill)' = Total(SumOut, SumStill)
    BY <1>1, <1>2, <2>2, <2>3, TotalSame DEF CountInv
  <2>6. Finite'
    BY <1>1, <2>3, FS_RemoveElement DEF CountInv, Finite
  <2> QED
    BY <1>1, <2>1, <2>4, <2>5, <2>6, CounterSubtracts DEF CountInv
<1> QED
  BY <1>3, <1>4

LEMMA CountInvInit == EventInit => CountInv
<1> SUFFICES ASSUME EventInit PROVE CountInv
  OBVIOUS
<1>1. Held(SumOut) = {} /\ Held(UsedOut) = {} /\ Given(SumStill) = {} /\ Given(UsedStill) = {}
  BY DEF EventInit, AllocInit, Held, Given, SumStill, UsedStill
<1>2. SumOver(length, {}) = 0 /\ Cardinality({}) = 0 /\ IsFiniteSet({})
  BY SumOverEmpty, FS_EmptySet
<1>3. StructSize \in Nat /\ WordMod \in Nat \ {0}
  BY AllocParameters
<1>4. \A i \in Nat, w \in Nat \ {0} : 0 + i * 0 = 0 /\ 0 % w = 0
  OBVIOUS
<1>5. Total(SumOut, SumStill) = 0 /\ Total(UsedOut, UsedStill) = 0
  BY <1>1, <1>2, <1>3, <1>4 DEF Total
<1>6. ulAllocSumByte = 0 /\ ulHasUsedByte = 0 /\ live = {}
  BY DEF EventInit, AllocInit
<1> QED
  BY <1>1, <1>2, <1>3, <1>4, <1>5, <1>6 DEF CountInv, Finite

LEMMA CountInvStep == LoopInv /\ CountInv /\ [EventNext]_vars => CountInv'
<1>1. ASSUME LoopInv, CountInv, NEW t \in Threads, Allocates(t) PROVE CountInv'
  <2>1. Own \subseteq Addresses
    BY <1>1 DEF Own, LoopInv, BlockTypes
  <2> QED
    BY <1>1, <2>1, MallocCount, FreeCount, FreeStructCount DEF Allocates
<1>2. ASSUME LoopInv, CountInv, NEW t \in Threads, NEW e, NEW fd, Adds(t, e, fd) PROVE CountInv'
  BY <1>2, MallocCount, AllocParameters DEF Adds
<1>3. ASSUME LoopInv, CountInv, NEW t \in Threads, Allocator(t) PROVE CountInv'
  BY <1>3, MallocAdds, FreeSubtracts, FreeBlockCount, StructSubtracts DEF Allocator, AllocWork
<1>4. ASSUME LoopInv, CountInv, UNCHANGED allocVars PROVE CountInv'
  BY <1>4, QuietCount DEF allocVars
<1>5. ASSUME LoopInv, CountInv, NEW t \in Threads, Returns(t) PROVE CountInv'
  <2>1. \A u \in Threads : pc[u] # "out" => block'[u] = block[u]
    BY <1>5 DEF Returns, LoopInv, BlockTypes
  <2> QED
    BY <1>5, <2>1, QuietCount DEF Returns
<1>6. ASSUME NEW t \in Threads, NEW fd,
             \/ CtlAdd(t) \/ Wait(t) \/ MainFails \/ Opens(t, fd) \/ Closes(t, fd) \/ Reads(t, fd)
             \/ \E v \in {"in", "hup"} : Arrives(fd, v)
      PROVE  UNCHANGED allocVars
  BY <1>6 DEF CtlAdd, Wait, MainFails, Opens, Closes, Reads, Arrives
<1>7. ASSUME LoopInv, CountInv, EventNext PROVE CountInv'
  <2>1. CASE \E fd \in Fds, v \in {"in", "hup"} : Arrives(fd, v)
    BY <1>4, <1>6, <1>7, <2>1, EventParameters
  <2>2. CASE MainFails
    BY <1>4, <1>6, <1>7, <2>2, EventParameters
  <2>3. ASSUME NEW t \in Threads, Allocates(t) \/ EventWork(t) PROVE CountInv'
    BY <1>1, <1>3, <1>4, <1>5, <1>6, <1>7, <2>3 DEF EventWork
  <2>4. ASSUME NEW t \in Threads, NEW fd \in Fds, Opens(t, fd) \/ Closes(t, fd) \/ Reads(t, fd)
        PROVE  CountInv'
    BY <1>4, <1>6, <1>7, <2>4
  <2>5. ASSUME NEW t \in Threads, NEW e \in {t, Main}, NEW fd \in Fds, Adds(t, e, fd)
        PROVE  CountInv'
    BY <1>2, <1>7, <2>5
  <2> QED
    BY <1>7, <2>1, <2>2, <2>3, <2>4, <2>5 DEF EventNext
<1> QED
  BY <1>4, <1>7 DEF vars

\* When no thread is inside the allocator the counters are the bytes that are
\* allocated, modulo a word of any width and for any number of threads
\* (alloc.c:20-21, 50-52, 57-60).
THEOREM CountersAccount == Spec => []Accounted
<1>1. EventInit => LoopInv /\ CountInv
  BY LoopInvInit, CountInvInit
<1>2. LoopInv /\ CountInv /\ [EventNext]_vars => LoopInv' /\ CountInv'
  BY LoopInvStep, CountInvStep
<1>3. LoopInv /\ CountInv => Accounted
  <2> SUFFICES ASSUME LoopInv, CountInv, \A t \in Threads : pc[t] = "out"
               PROVE  /\ ulAllocSumByte = SumOver(length, live) % WordMod
                      /\ ulHasUsedByte = SumOver(length, live) % WordMod
    BY DEF Accounted, SumOver
  <2>1. \A P \in SUBSET BlockStages : Held(P) = live
    BY DEF Held, BlockStages
  <2>2. Given(SumStill) = {} /\ Given(UsedStill) = {}
    BY DEF Given, SumStill, UsedStill
  <2>3. SumOut \in SUBSET BlockStages /\ UsedOut \in SUBSET BlockStages
    BY DEF SumOut, UsedOut, BlockStages
  <2>4. SumOver(length, live) \in Nat
    <3>1. SumStill \in SUBSET UsedStill
      BY DEF SumStill, UsedStill
    <3> QED
      BY <2>1, <2>3, <3>1, PartsFinite DEF CountInv
  <2>5. StructSize \in Nat /\ Cardinality({}) = 0
    BY AllocParameters, FS_EmptySet
  <2>6. \A i, k \in Nat : i + k * 0 = i
    OBVIOUS
  <2>7. Held(SumOut) = live /\ Held(UsedOut) = live
    BY <2>1, <2>3
  <2>8. Total(SumOut, SumStill) = SumOver(length, live)
        /\ Total(UsedOut, UsedStill) = SumOver(length, live)
    BY <2>2, <2>4, <2>5, <2>6, <2>7 DEF Total
  <2> QED
    BY <2>8 DEF CountInv
<1> QED
  BY <1>1, <1>2, <1>3, PTL DEF Spec

=============================================================================
