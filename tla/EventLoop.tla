----------------------------- MODULE EventLoop ------------------------------
(***************************************************************************)
(* The event loop of main.c and of the macro EPOLL_WAIT (head.h): a thread *)
(* registers descriptors in its epoll set with a node from H_Malloc and    *)
(* calls the callback of one ready descriptor at a time.  Before its loop  *)
(* the main thread runs main_ and another thread what it was started for.  *)
(* All share the allocator, whose steps interleave (AllocCount).           *)
(*                                                                         *)
(* main_, the code before EPOLL_WAIT and the callbacks belong to the       *)
(* application (external): they may allocate and free blocks of their own, *)
(* open and close descriptors, read them, and register them in their own   *)
(* set or in that of the main thread (EPOLL_MAIN_ADD).                     *)
(*                                                                         *)
(* epoll_add, when epoll_ctl fails, and the loop, after an error or a      *)
(* hang-up, give the node to free().  H_Malloc returned an address behind  *)
(* the length field, so free() finds no block there and ends the process.  *)
(*                                                                         *)
(* The kernel's part: a set keeps its ready descriptors in a list.         *)
(* epoll_wait with room for one event takes the first; while its data is   *)
(* not read it goes to the end.  Closing a descriptor takes it from every  *)
(* set.                                                                    *)
(***************************************************************************)
EXTENDS AllocCount, Sequences, SequencesExt

CONSTANTS
  Main,          \* the main thread
  Fds,           \* the descriptors
  MaxOps         \* bound: the operations of main_ or of one callback

NoFd == "none"

ASSUME EventParameters == Main \in Threads /\ NoFd \notin Fds /\ MaxOps \in Nat

VARIABLES
  reg,           \* reg[e][fd]: the node of fd in the set of thread e
  rdy,           \* rdy[e]: the ready list of that set
  open,          \* the descriptors that are open
  cond,          \* cond[fd]: the events pending on it, "in" and "hup"
  node,          \* the nodes: iFd by address; NoFd what is none
  at,            \* at[t]: where t is in main, the loop or epoll_add
  cur,           \* cur[t]: pstNode of the loop, Null before it
  freeing,       \* freeing[t]: pstFreeNode is set
  adding,        \* adding[t]: the set and descriptor epoll_add is called with
  ops            \* ops[t]: operations the application's code has left

loopVars == <<reg, rdy, open, cond, node, at, cur, freeing, adding, ops>>
vars == <<allocVars, loopVars>>

NotAdding == <<>>

EventInit ==
  /\ AllocInit
  /\ reg = [e \in Threads |-> [fd \in Fds |-> Null]]
  /\ rdy = [e \in Threads |-> <<>>]
  /\ open = Fds
  /\ cond = [fd \in Fds |-> {}]
  /\ node = [a \in Addresses |-> NoFd]
  /\ at = [t \in Threads |-> "code"]
  /\ cur = [t \in Threads |-> Null]
  /\ freeing = [t \in Threads |-> FALSE]
  /\ adding = [t \in Threads |-> NotAdding]
  /\ ops = [t \in Threads |-> MaxOps]

Goto(t, s) == at' = [at EXCEPT ![t] = s]

\* The process is over: main_ failed, or free() found an invalid pointer.
Over == \E t \in Threads : at[t] \in {"exit", "abort"}

Registered(e, fd) == reg[e][fd] # Null

\* The ready lists once the descriptors S have events.
Woken(S) ==
  [e \in Threads |->
     rdy[e] \o SetToSeq({fd \in S : Registered(e, fd) /\ fd \notin Range(rdy[e])})]

-----------------------------------------------------------------------------
\* The world outside.  What came before a descriptor was registered comes right
\* after in the model.

Arrives(fd, event) ==
  /\ ~Over /\ event \notin cond[fd]
  /\ \E e \in Threads : Registered(e, fd)
  /\ cond' = [cond EXCEPT ![fd] = @ \cup {event}]
  /\ rdy' = Woken({fd})
  /\ UNCHANGED <<allocVars, reg, open, node, at, cur, freeing, adding, ops>>

-----------------------------------------------------------------------------
\* epoll_add

\* Faulty variant: no event is asked for.
EventsNone == {"hup"}
\* event.events = EPOLLIN; errors and hang-ups are always reported.
Events == {"in", "hup"}

\* epoll_ctl, which fails for a descriptor that is closed or in the set.
CtlAdd(t) ==
  /\ ~Over /\ at[t] = "ctl" /\ pc[t] = "out"
  /\ LET e == adding[t][1]
         fd == adding[t][2]
     IN  \/ /\ block[t] # Null /\ fd \in open /\ ~Registered(e, fd)
            /\ reg' = [reg EXCEPT ![e][fd] = block[t]]
            /\ node' = [node EXCEPT ![block[t]] = fd]
            /\ rdy' = [rdy EXCEPT ![e] = IF cond[fd] \cap Events # {}
                                         THEN Append(@, fd) ELSE @]
            /\ Goto(t, "code")
         \/ /\ block[t] # Null /\ (fd \notin open \/ Registered(e, fd))
            /\ Goto(t, "abort")
            /\ UNCHANGED <<reg, node, rdy>>
         \/ /\ block[t] = Null
            /\ Goto(t, "code")
            /\ UNCHANGED <<reg, node, rdy>>
  /\ adding' = [adding EXCEPT ![t] = NotAdding]
  /\ UNCHANGED <<allocVars, open, cond, cur, freeing, ops>>

-----------------------------------------------------------------------------
\* The application: main_ and the callbacks.

InCode(t) == ~Over /\ at[t] = "code" /\ pc[t] = "out" /\ ops[t] > 0
OneOp(t) == ops' = [ops EXCEPT ![t] = @ - 1]

\* The application's own blocks that nobody is freeing.
Own == {a \in live : /\ node[a] = NoFd
                     /\ \A t \in Threads : pc[t] # "out" => block[t] # a
                     /\ \A t \in Threads : at[t] = "ctl" => block[t] # a}

Allocates(t) ==
  /\ InCode(t) /\ OneOp(t)
  /\ \/ \E n \in Sizes : Malloc(t, n)
     \/ \E a \in Own : Free(t, a) \/ FreeStruct(t, a)
  /\ UNCHANGED <<reg, rdy, open, cond, node, at, cur, freeing, adding>>

Opens(t, fd) ==
  /\ InCode(t) /\ OneOp(t)
  /\ fd \notin open
  /\ open' = open \cup {fd}
  /\ UNCHANGED <<allocVars, reg, rdy, cond, node, at, cur, freeing, adding>>

Closes(t, fd) ==
  /\ InCode(t) /\ OneOp(t)
  /\ fd \in open
  /\ open' = open \ {fd}
  /\ cond' = [cond EXCEPT ![fd] = {}]
  /\ reg' = [e \in Threads |-> [reg[e] EXCEPT ![fd] = Null]]
  /\ rdy' = [e \in Threads |-> SelectSeq(rdy[e], LAMBDA f : f # fd)]
  /\ UNCHANGED <<allocVars, node, at, cur, freeing, adding>>

\* A callback reads its descriptor; a hang-up stays.
Reads(t, fd) ==
  /\ InCode(t) /\ OneOp(t)
  /\ cur[t] # Null /\ node[cur[t]] = fd
  /\ fd \in open /\ "in" \in cond[fd]
  /\ cond' = [cond EXCEPT ![fd] = @ \ {"in"}]
  /\ UNCHANGED <<allocVars, reg, rdy, open, node, at, cur, freeing, adding>>

\* epoll_add, as far as its H_Malloc.
Adds(t, e, fd) ==
  /\ InCode(t) /\ OneOp(t)
  /\ Malloc(t, StructSize)
  /\ adding' = [adding EXCEPT ![t] = <<e, fd>>]
  /\ Goto(t, "ctl")
  /\ UNCHANGED <<reg, rdy, open, cond, node, cur, freeing>>

\* Faulty variant: the node is freed for good although it stays registered.
ReturnsFreeing(t) ==
  /\ ~Over /\ at[t] = "code" /\ pc[t] = "out"
  /\ IF freeing[t] THEN Free(t, cur[t]) ELSE UNCHANGED allocVars
  /\ Goto(t, "wait")
  /\ ops' = [ops EXCEPT ![t] = 0]
  /\ cur' = [cur EXCEPT ![t] = Null]
  /\ freeing' = [freeing EXCEPT ![t] = FALSE]
  /\ UNCHANGED <<reg, rdy, open, cond, node, adding>>

\* main_ returns 0, or a callback returns; behind a callback that was called
\* with an error or a hang-up comes free().
Returns(t) ==
  /\ ~Over /\ at[t] = "code" /\ pc[t] = "out"
  /\ Goto(t, IF freeing[t] THEN "abort" ELSE "wait")
  /\ ops' = [ops EXCEPT ![t] = 0]
  /\ cur' = [cur EXCEPT ![t] = Null]
  /\ block' = [block EXCEPT ![t] = Null]
  /\ freeing' = [freeing EXCEPT ![t] = FALSE]
  /\ UNCHANGED <<live, length, ulAllocSumByte, ulHasUsedByte, pc, reg, rdy, open, cond, node, adding>>

\* main_ returns anything else.
MainFails ==
  /\ ~Over /\ at[Main] = "code" /\ pc[Main] = "out" /\ cur[Main] = Null
  /\ Goto(Main, "exit")
  /\ UNCHANGED <<allocVars, reg, rdy, open, cond, node, cur, freeing, adding, ops>>

-----------------------------------------------------------------------------
\* The loop: epoll_wait and the call of the callback.  What it returns nothing
\* for (a descriptor read meanwhile) leaves the list.
Wait(t) ==
  /\ ~Over /\ at[t] = "wait" /\ pc[t] = "out" /\ rdy[t] # <<>>
  /\ LET fd == Head(rdy[t])
     IN  IF cond[fd] \cap Events = {}
         THEN /\ rdy' = [rdy EXCEPT ![t] = Tail(@)]
              /\ UNCHANGED <<at, cur, freeing, ops>>
         ELSE /\ rdy' = [rdy EXCEPT ![t] = Append(Tail(@), fd)]
              /\ cur' = [cur EXCEPT ![t] = reg[t][fd]]
              /\ freeing' = [freeing EXCEPT ![t] = "hup" \in cond[fd]]
              /\ ops' = [ops EXCEPT ![t] = MaxOps]
              /\ Goto(t, "code")
  /\ UNCHANGED <<allocVars, reg, open, cond, node, adding>>

\* A step of alloc.c.
Allocator(t) == ~Over /\ AllocWork(t) /\ UNCHANGED loopVars

-----------------------------------------------------------------------------
EventWork(t) == Allocator(t) \/ CtlAdd(t) \/ Wait(t) \/ Returns(t)

EventNext ==
  \/ \E fd \in Fds, v \in {"in", "hup"} : Arrives(fd, v)
  \/ MainFails
  \/ \E t \in Threads :
        \/ Allocates(t) \/ EventWork(t)
        \/ \E fd \in Fds : Opens(t, fd) \/ Closes(t, fd) \/ Reads(t, fd)
        \/ \E e \in {t, Main}, fd \in Fds : Adds(t, e, fd)

\* The threads run on, and main_ and the callbacks return.
EventFairness == \A t \in Threads : WF_vars(EventWork(t))

Spec == EventInit /\ [][EventNext]_vars /\ EventFairness

-----------------------------------------------------------------------------
\* The loop follows the pointer the kernel gives back without a check: the node
\* of every registered descriptor is an allocated block, is that descriptor's,
\* and is nobody else's, whatever other threads allocate and free meanwhile
\* (main.c:51-60).
RegisteredAlive ==
  \A e \in Threads, fd \in Fds :
     Registered(e, fd) =>
       /\ reg[e][fd] \in live
       /\ node[reg[e][fd]] = fd
       /\ \A f \in Threads, g \in Fds : reg[f][g] = reg[e][fd] => f = e /\ g = fd

\* Data that came for a registered descriptor is not forgotten: the callback is
\* called for it, or somebody reads it or closes the descriptor, or the
\* process ends.  One event at a time is taken and the same thread runs all
\* callbacks (main.c:45-60).
EventServed ==
  \A t \in Threads, fd \in Fds :
     Registered(t, fd) /\ "in" \in cond[fd]
       ~> \/ at[t] = "code" /\ cur[t] \in Addresses /\ node[cur[t]] = fd
          \/ "in" \notin cond[fd]
          \/ ~Registered(t, fd)
          \/ Over

=============================================================================
