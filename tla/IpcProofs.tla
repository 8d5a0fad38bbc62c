----------------------------- MODULE IpcProofs ------------------------------
(***************************************************************************)
(* The demonstrations of process.c for any number of terminals, any        *)
(* characters, texts and sizes, and any processes that are killed: a wait  *)
(* is ended by a continue that came for it, a received text is the one     *)
(* that was sent, and a read that no write overlaps shows the last text.   *)
(***************************************************************************)
EXTENDS Ipc, DataProofs, Sequences

-----------------------------------------------------------------------------
(* Semaphores.  A process that has created the set at the key keeps it to   *)
(* itself until it removes it; whatever the value is while it waits, it is  *)
(* 0 only behind a continue.                                                *)

Holder(p) == semPc[p] \in {"setval", "wait", "delete"} /\ iSemId[p] # Sem!NoSet

SemInv ==
  /\ Sem!SemTypeOK
  /\ \A p \in Procs : Holder(p) =>
       /\ iSemId[p] = semId
       /\ \A q \in Procs : Holder(q) => q = p
       /\ semPc[p] = "wait" => semVal = Sem!PROCESS_SEM_MAX \/ semId \in continued
       /\ semPc[p] = "delete" => semId \in continued

LEMMA SemInvInit == Sem!SemInit => SemInv
BY IpcParameters DEF Sem!SemInit, SemInv, Holder, Sem!SemTypeOK, Sem!NoSet, Sem!PROCESS_SEM_MAX

LEMMA SemTypeStep ==
  ASSUME Sem!SemTypeOK, Sem!SemNext
  PROVE  Sem!SemTypeOK'
<1> USE IpcParameters DEF Sem!SemTypeOK, Sem!Goto, Sem!Valid, Sem!NoSet, Sem!PROCESS_SEM_MAX
<1>1. ASSUME NEW p \in Procs, Sem!Create(p) PROVE Sem!SemTypeOK'
  <2>1. 0..made \subseteq 0..(made + 1) /\ 1..made \subseteq 1..(made + 1)
    OBVIOUS
  <2>2. CASE semId = Sem!NoSet
    <3>1. made' = made + 1 /\ made + 1 \in 0..MaxSets /\ made + 1 \in 0..(made + 1)
      BY <1>1, <2>2 DEF Sem!Create
    <3>2. iSemId' \in [Procs -> 0..(made + 1)]
      BY <1>1, <2>1, <2>2, <3>1 DEF Sem!Create
    <3> QED
      BY <1>1, <2>1, <2>2, <3>1, <3>2 DEF Sem!Create
  <2>3. CASE semId # Sem!NoSet
    BY <1>1, <2>3 DEF Sem!Create
  <2> QED
    BY <2>2, <2>3
<1>2. ASSUME NEW p \in Procs, Sem!Open(p) PROVE Sem!SemTypeOK'
  BY <1>2 DEF Sem!Open
<1>0. ASSUME NEW p \in Procs, Sem!Killed(p) PROVE Sem!SemTypeOK'
  <2>1. orphaned' \subseteq 1..made
    <3>1. iSemId[p] \in 0..made
      OBVIOUS
    <3>2. iSemId[p] # Sem!NoSet => iSemId[p] \in 1..made
      BY <3>1
    <3>3. \/ orphaned' = orphaned
          \/ iSemId[p] # Sem!NoSet /\ orphaned' = orphaned \cup {iSemId[p]}
      BY <1>0 DEF Sem!Killed
    <3> QED
      BY <3>2, <3>3
  <2> QED
    BY <1>0, <2>1 DEF Sem!Killed
<1>3. ASSUME NEW p \in Procs, Sem!SetVal(p) PROVE Sem!SemTypeOK'
  BY <1>3 DEF Sem!SetVal
<1>6. ASSUME NEW p \in Procs, Sem!Wait(p) PROVE Sem!SemTypeOK'
  BY <1>6 DEF Sem!Wait
<1>5. ASSUME NEW p \in Procs, Sem!Delete(p) PROVE Sem!SemTypeOK'
  BY <1>5 DEF Sem!Delete
<1>4. ASSUME NEW p \in Procs, Sem!Continue(p) PROVE Sem!SemTypeOK'
  <2>1. UNCHANGED <<semId, made, orphaned>> /\ iSemId' = [iSemId EXCEPT ![p] = Sem!NoSet]
    BY <1>4 DEF Sem!Continue
  <2>2. semPc' = [semPc EXCEPT ![p] = "idle"]
    BY <1>4 DEF Sem!Continue
  <2>3. semVal' \in 0..Sem!PROCESS_SEM_MAX /\ continued' \subseteq 1..made
    <3>1. CASE Sem!Valid(p)
      <4>1. semVal > 0 /\ semVal' = semVal - 1 /\ continued' = continued \cup {semId}
        BY <1>4, <3>1 DEF Sem!Continue
      <4>2. semId \in 1..made
        BY <3>1
      <4> QED
        BY <4>1, <4>2
    <3>2. CASE ~Sem!Valid(p)
      BY <1>4, <3>2 DEF Sem!Continue
    <3> QED
      BY <3>1, <3>2
  <2> QED
    BY <2>1, <2>2, <2>3
<1> QED
  BY <1>0, <1>1, <1>2, <1>3, <1>4, <1>5, <1>6 DEF Sem!SemNext, Sem!SemWork

LEMMA SemInvStep ==
  ASSUME SemInv, Sem!SemNext
  PROVE  SemInv'
<1>1. Sem!SemTypeOK'
  BY SemTypeStep DEF SemInv
<1> USE DEF SemInv, Sem!SemTypeOK, Sem!Goto, Sem!Valid, Sem!NoSet, Sem!PROCESS_SEM_MAX, Holder
<1>2. ASSUME NEW p \in Procs, Sem!Create(p) PROVE SemInv'
  <2>1. \A q \in Procs : /\ q # p => semPc'[q] = semPc[q] /\ iSemId'[q] = iSemId[q]
                         /\ semPc'[p] = "setval" \/ iSemId'[p] = Sem!NoSet
    BY <1>2 DEF Sem!Create
  <2>2. CASE semId = Sem!NoSet
    BY <1>1, <1>2, <2>1, <2>2 DEF Sem!Create
  <2>3. CASE semId # Sem!NoSet
    BY <1>1, <1>2, <2>1, <2>3 DEF Sem!Create
  <2> QED
    BY <2>2, <2>3
<1>3. ASSUME NEW p \in Procs, Sem!Open(p) \/ Sem!Killed(p) PROVE SemInv'
  BY <1>1, <1>3 DEF Sem!Open, Sem!Killed
<1>4. ASSUME NEW p \in Procs, Sem!SetVal(p) PROVE SemInv'
  BY <1>1, <1>4 DEF Sem!SetVal
<1>5. ASSUME NEW p \in Procs, Sem!Wait(p) PROVE SemInv'
  BY <1>1, <1>5 DEF Sem!Wait
<1>6. ASSUME NEW p \in Procs, Sem!Delete(p) PROVE SemInv'
  BY <1>1, <1>6 DEF Sem!Delete
<1>7. ASSUME NEW p \in Procs, Sem!Continue(p) PROVE SemInv'
  BY <1>1, <1>7 DEF Sem!Continue
<1> QED
  BY <1>2, <1>3, <1>4, <1>5, <1>6, <1>7 DEF Sem!SemNext, Sem!SemWork

LEMMA SemInvStays == SemInv /\ [Next]_vars => SemInv'
<1>1. SemInv /\ UNCHANGED semVars => SemInv'
  BY DEF SemInv, Holder, Sem!SemTypeOK, semVars
<1> QED
  BY <1>1, SemInvStep DEF Next, vars

\* A process that waits for its semaphore passes only behind a continue that came for
\* that very set, for any number of terminals and sets (process.c:98-101, 128).
THEOREM WaitEndsByContinue == Spec => []ReleasedByContinue
<1>1. Init => SemInv
  BY SemInvInit DEF Init
<1>2. SemInv => ReleasedByContinue
  BY DEF SemInv, ReleasedByContinue, Sem!ReleasedByContinue, Holder
<1> QED
  BY <1>1, <1>2, SemInvStays, PTL DEF Spec

-----------------------------------------------------------------------------
(* Messages.  What a buffer carries of a text is as much of it as fits, and *)
(* a NUL.  A message carries what its sender was given, and so do the       *)
(* buffers it is copied from and to.                                        *)

LEMMA SameSizes == \A S : Msg!Cardinality(S) = Cardinality(S) /\ Shm!Cardinality(S) = Cardinality(S)
<1>1. \A S : Msg!Cardinality(S) = Cardinality(S)
  BY DEF Msg!Cardinality, Cardinality
<1>2. \A S : Shm!Cardinality(S) = Cardinality(S)
  BY DEF Shm!Cardinality, Cardinality
<1> QED
  BY <1>1, <1>2

LEMMA SameBuffers ==
  /\ Msg!NoBuffer = NoBuffer /\ Shm!NoBuffer = NoBuffer
  /\ \A n : Msg!Zeroed(n) = Zeroed(n) /\ Shm!Zeroed(n) = Zeroed(n)
  /\ \A b : Msg!StrLen(b) = StrLen(b) /\ Shm!StrLen(b) = StrLen(b)
  /\ \A b : Msg!TextOf(b) = TextOf(b) /\ Shm!TextOf(b) = TextOf(b)
<1>1. Msg!NUL = NUL /\ Shm!NUL = NUL
  BY DEF NUL, Msg!NUL, Shm!NUL
<1>2. \A S : Msg!Min(S) = Min(S) /\ Shm!Min(S) = Min(S)
  BY DEF Min, Msg!Min, Shm!Min
<1>3. \A b : Msg!StrLen(b) = StrLen(b) /\ Shm!StrLen(b) = StrLen(b)
  BY <1>1, <1>2, SameSizes DEF StrLen, Msg!StrLen, Shm!StrLen
<1> QED
  BY <1>1, <1>3 DEF NoBuffer, Msg!NoBuffer, Shm!NoBuffer, Zeroed, Msg!Zeroed, Shm!Zeroed,
       TextOf, Msg!TextOf, Shm!TextOf

LEMMA SameCopies ==
  /\ \A d, t, n : Msg!Strlcpy(d, t, n) = Strlcpy(d, t, n)
  /\ \A t : Msg!Cut(t) = [i \in 0..(CutTo(MaxSend, t) - 1) |-> t[i]]
<1>1. Msg!NUL = NUL
  BY DEF NUL, Msg!NUL
<1>2. \A S : Msg!Min(S) = Min(S)
  BY DEF Min, Msg!Min
<1>3. \A d, i, t, n : Msg!Put(d, i, t, n) = Put(d, i, t, n)
  BY <1>1 DEF Put, Msg!Put
<1>4. \A m, n : Msg!OneLess(m, n) = OneLess(m, n)
  BY DEF OneLess, Msg!OneLess
<1> QED
  BY <1>2, <1>3, <1>4, SameBuffers DEF Strlcpy, Msg!Strlcpy, Msg!Cut, CutTo

\* The texts a terminal gives, and NoBuffer for none.
Given == TextsUpTo(MaxSend) \cup {NoBuffer}
Bytes == Chars \cup {NUL}

LEMMA TextsAre ==
  ASSUME NEW n \in Nat, NEW t \in TextsUpTo(n)
  PROVE  \E l \in 0..n : t \in [0..l -> Bytes] /\ IsText(t, l + 1, StrLen(t)) /\ StrLen(t) \in 0..l
<1>1. PICK l \in 0..n, c \in [0..(n - 1) -> Chars] :
        t = [i \in 0..l |-> IF i = l THEN "nul" ELSE c[i]]
  BY DEF TextsUpTo
<1>2. t \in [0..l -> Bytes] /\ t[l] = NUL
  BY <1>1 DEF Bytes, NUL
<1>3. DOMAIN t = 0..((l + 1) - 1) /\ t = [i \in DOMAIN t |-> t[i]] /\ l \in 0..((l + 1) - 1)
      /\ l + 1 \in Nat
  BY <1>1, <1>2
<1> QED
  BY <1>2, <1>3, TextFits

LEMMA GivenAre ==
  ASSUME NEW t \in Given
  PROVE  CutTo(MaxSend, t) \in 0..(MaxSend - 1) /\ StrLen(t) \in Nat
<1>1. StrLen(t) \in Nat
  <2>1. CASE t = NoBuffer
    BY <2>1, EmptyBuffers
  <2>2. CASE t \in TextsUpTo(MaxSend)
    BY <2>2, TextsAre, IpcParameters
  <2> QED
    BY <2>1, <2>2 DEF Given
<1> QED
  BY <1>1, CutToType, IpcParameters

Carries(b, size, t) ==
  /\ IsText(b, size, CutTo(MaxSend, t))
  /\ \A i \in 0..(CutTo(MaxSend, t) - 1) : b[i] = t[i]

LEMMA CarriesCut ==
  ASSUME NEW t \in Given, NEW size \in Nat, NEW b, Carries(b, size, t)
  PROVE  StrLen(b) = CutTo(MaxSend, t) /\ TextOf(b) = Msg!Cut(t)
<1>1. StrLen(b) = CutTo(MaxSend, t)
  BY GivenAre, LengthOfText DEF Carries
<1> QED
  BY <1>1, SameCopies DEF Carries, TextOf

LEMMA BeginCarries ==
  ASSUME NEW t \in Given
  PROVE  Carries(Strlcpy(Zeroed(MaxSend), t, MaxSend), MaxSend, t)
<1>1. MaxSend \in Nat \ {0}
  BY IpcParameters
<1>2. CASE t = NoBuffer
  <2>1. Strlcpy(Zeroed(MaxSend), t, MaxSend) = Zeroed(MaxSend)
    BY <1>2 DEF Strlcpy
  <2>2. IsText(Zeroed(MaxSend), MaxSend, 0) /\ StrLen(t) = 0
    BY <1>1, <1>2, EmptyBuffers
  <2>3. CutTo(MaxSend, t) = 0
    BY <1>1, <2>2, CutToType
  <2> QED
    BY <2>1, <2>2, <2>3 DEF Carries
<1>3. CASE t \in TextsUpTo(MaxSend)
  <2>1. PICK l \in 0..MaxSend : t \in [0..l -> Bytes] /\ IsText(t, l + 1, StrLen(t))
                                /\ StrLen(t) \in 0..l
    BY <1>1, <1>3, TextsAre
  <2> QED
    BY <1>1, <2>1, StrlcpyCuts DEF Carries
<1> QED
  BY <1>2, <1>3 DEF Given

LEMMA GivenBytes ==
  ASSUME NEW t \in Given, NEW i \in 0..(CutTo(MaxSend, t) - 1)
  PROVE  t[i] \in Bytes
<1>1. MaxSend \in Nat \ {0}
  BY IpcParameters
<1>2. CutTo(MaxSend, t) <= StrLen(t) /\ CutTo(MaxSend, t) \in Nat
  BY <1>1, GivenAre, CutToType
<1>3. t # NoBuffer
  BY <1>2, EmptyBuffers
<1>4. PICK l \in 0..MaxSend : t \in [0..l -> Bytes] /\ StrLen(t) \in 0..l
  BY <1>1, <1>3, TextsAre DEF Given
<1> QED
  BY <1>2, <1>4

Packets == UNION {[0..n -> Bytes] : n \in 0..(MaxSend - 1)}

MsgInv ==
  /\ msgPc \in [Procs -> {"idle", "msgsnd", "msgrcv", "print"}]
  /\ arg \in [Procs -> Given]
  /\ DOMAIN szText = Procs
  /\ queue \in Seq(Packets) /\ sent \in Seq(Given) /\ Len(queue) = Len(sent)
  /\ \A i \in 1..Len(queue) : Carries(queue[i], CutTo(MaxSend, sent[i]) + 1, sent[i])
  /\ \A p \in Procs : Carries(szText[p], MaxSend, arg[p])
  /\ \A p \in Procs : msgPc[p] \in {"idle", "msgrcv"} => szText[p] = Zeroed(MaxSend)

LEMMA NothingCarried ==
  NoBuffer \in Given /\ Carries(Zeroed(MaxSend), MaxSend, NoBuffer)
<1>1. NoBuffer \in Given /\ MaxSend \in Nat \ {0}
  BY IpcParameters DEF Given
<1>2. CutTo(MaxSend, NoBuffer) = 0
  BY <1>1, EmptyBuffers, CutToType
<1> QED
  BY <1>1, <1>2, EmptyBuffers DEF Carries

LEMMA MsgInvInit == Msg!MsgInit => MsgInv
<1> SUFFICES ASSUME Msg!MsgInit PROVE MsgInv
  OBVIOUS
<1>1. queue = <<>> /\ sent = <<>>
  BY DEF Msg!MsgInit
<1>2. queue \in Seq(Packets) /\ sent \in Seq(Given) /\ Len(queue) = 0 /\ Len(sent) = 0
  BY <1>1
<1> QED
  BY <1>2, NothingCarried, SameBuffers DEF Msg!MsgInit, MsgInv

\* A program that ends leaves nothing in its buffer.
LEMMA EndsStep ==
  ASSUME MsgInv, NEW p \in Procs, Msg!Ends(p),
         queue' \in Seq(Packets) /\ sent' \in Seq(Given) /\ Len(queue') = Len(sent'),
         \A i \in 1..Len(queue') : Carries(queue'[i], CutTo(MaxSend, sent'[i]) + 1, sent'[i])
  PROVE  MsgInv'
<1>1. /\ msgPc' = [msgPc EXCEPT ![p] = "idle"]
      /\ szText' = [szText EXCEPT ![p] = Zeroed(MaxSend)]
      /\ arg' = [arg EXCEPT ![p] = NoBuffer]
  BY SameBuffers DEF Msg!Ends, Msg!Goto
<1> QED
  BY <1>1, NothingCarried DEF MsgInv

LEMMA BeginStep ==
  ASSUME MsgInv, NEW p \in Procs, Msg!BeginSend(p) \/ Msg!BeginReceive(p)
  PROVE  MsgInv'
<1>1. CASE Msg!BeginSend(p)
  <2>1. PICK t \in Given :
          /\ arg' = [arg EXCEPT ![p] = t]
          /\ szText' = [szText EXCEPT ![p] = Strlcpy(Zeroed(MaxSend), t, MaxSend)]
    BY <1>1, SameBuffers, SameCopies DEF Msg!BeginSend, Given
  <2>2. msgPc' = [msgPc EXCEPT ![p] = "msgsnd"] /\ UNCHANGED <<queue, sent>>
    BY <1>1 DEF Msg!BeginSend, Msg!Goto
  <2> QED
    BY <2>1, <2>2, BeginCarries DEF MsgInv
<1>2. CASE Msg!BeginReceive(p)
  BY <1>2 DEF Msg!BeginReceive, Msg!Goto, MsgInv
<1> QED
  BY <1>1, <1>2

LEMMA MessageCarries ==
  ASSUME NEW t \in Given, NEW b, Carries(b, MaxSend, t)
  PROVE  /\ Msg!Message(b) \in [0..CutTo(MaxSend, t) -> Bytes]
         /\ Carries(Msg!Message(b), CutTo(MaxSend, t) + 1, t)
<1> DEFINE n == CutTo(MaxSend, t)
           m == Msg!Message(b)
<1>1. n \in 0..(MaxSend - 1) /\ StrLen(b) = n /\ MaxSend \in Nat
  BY GivenAre, CarriesCut, IpcParameters
<1>2. m = [i \in 0..n |-> b[i]]
  BY <1>1, SameBuffers DEF Msg!Message
<1>3. b[n] = NUL /\ \A i \in 0..(n - 1) : b[i] # NUL /\ b[i] = t[i] /\ b[i] \in Bytes
  BY GivenBytes DEF Carries, IsText
<1> HIDE DEF m, n
<1>4. \A i \in 0..n : b[i] \in Bytes
  <2>1. \A i \in 0..n : i = n \/ i \in 0..(n - 1)
    BY <1>1
  <2> QED
    BY <1>3, <2>1 DEF Bytes
<1>5. m \in [0..n -> Bytes]
  BY <1>2, <1>4
<1>6. IsText(m, n + 1, n) /\ \A i \in 0..(n - 1) : m[i] = t[i]
  <2>1. 0..((n + 1) - 1) = 0..n /\ n < n + 1
    BY <1>1
  <2> QED
    BY <1>1, <1>2, <1>3, <2>1 DEF IsText
<1> QED
  BY <1>5, <1>6 DEF Carries, m, n

LEMMA SendStep ==
  ASSUME MsgInv, NEW p \in Procs, Msg!Send(p)
  PROVE  MsgInv'
<1> DEFINE m == Msg!Message(szText[p])
           t == arg[p]
<1>1. /\ queue' = Append(queue, m) /\ sent' = Append(sent, t) /\ Msg!Ends(p)
  BY DEF Msg!Send
<1>2. t \in Given /\ Carries(szText[p], MaxSend, t)
  BY DEF MsgInv
<1>3. m \in Packets /\ Carries(m, CutTo(MaxSend, t) + 1, t)
  BY <1>2, GivenAre, MessageCarries DEF Packets
<1>4. /\ queue \in Seq(Packets) /\ sent \in Seq(Given) /\ Len(queue) = Len(sent)
      /\ \A i \in 1..Len(queue) : Carries(queue[i], CutTo(MaxSend, sent[i]) + 1, sent[i])
  BY DEF MsgInv
<1> HIDE DEF m, t
<1>5. queue' \in Seq(Packets) /\ sent' \in Seq(Given) /\ Len(queue') = Len(sent')
      /\ Len(queue') = Len(queue) + 1
  BY <1>1, <1>2, <1>3, <1>4
<1>6. ASSUME NEW i \in 1..Len(queue')
      PROVE  Carries(queue'[i], CutTo(MaxSend, sent'[i]) + 1, sent'[i])
  <2>1. CASE i = Len(queue) + 1
    <3>1. queue'[i] = m /\ sent'[i] = t
      BY <1>1, <1>2, <1>3, <1>4, <2>1
    <3> QED
      BY <1>3, <3>1
  <2>2. CASE i \in 1..Len(queue)
    <3>1. queue'[i] = queue[i] /\ sent'[i] = sent[i]
      BY <1>1, <1>2, <1>3, <1>4, <2>2
    <3> QED
      BY <1>4, <2>2, <3>1
  <2> QED
    BY <1>4, <1>5, <2>1, <2>2
<1> QED
  BY <1>1, <1>5, <1>6, EndsStep

LEMMA ReceiveStep ==
  ASSUME MsgInv, NEW p \in Procs, Msg!Receive(p)
  PROVE  MsgInv'
<1> DEFINE m == Head(queue)
           t == Head(sent)
           n == CutTo(MaxSend, t)
           b == [i \in 0..(MaxSend - 1) |-> IF i \in DOMAIN m THEN m[i] ELSE NUL]
<1>1. /\ queue \in Seq(Packets) /\ sent \in Seq(Given) /\ Len(queue) = Len(sent)
      /\ \A i \in 1..Len(queue) : Carries(queue[i], CutTo(MaxSend, sent[i]) + 1, sent[i])
      /\ queue # <<>> /\ msgPc[p] = "msgrcv" /\ msgPc' = [msgPc EXCEPT ![p] = "print"]
      /\ szText[p] = Zeroed(MaxSend)
  BY DEF MsgInv, Msg!Receive, Msg!Goto
<1>2. /\ m = queue[1] /\ t = sent[1] /\ t \in Given /\ 1 \in 1..Len(queue)
      /\ Tail(queue) \in Seq(Packets) /\ Tail(sent) \in Seq(Given)
      /\ Len(Tail(queue)) = Len(queue) - 1 /\ Len(Tail(sent)) = Len(sent) - 1
      /\ \A i \in 1..(Len(queue) - 1) :
           /\ i + 1 \in 1..Len(queue)
           /\ Tail(queue)[i] = queue[i + 1] /\ Tail(sent)[i] = sent[i + 1]
  <2>1. sent # <<>> /\ Len(queue) \in Nat \ {0}
    BY <1>1
  <2> QED
    BY <1>1, <2>1
<1>3. Carries(m, n + 1, t) /\ n \in 0..(MaxSend - 1) /\ MaxSend \in Nat
  BY <1>1, <1>2, GivenAre, IpcParameters
<1>4. DOMAIN m = 0..n /\ Cardinality(DOMAIN m) <= MaxSend
  <2>1. DOMAIN m = 0..((n + 1) - 1)
    BY <1>3 DEF Carries, IsText
  <2>2. (n + 1) - 1 = n
    BY <1>3
  <2>3. DOMAIN m = 0..n
    BY <2>1, <2>2
  <2> HIDE DEF m, n
  <2>4. Cardinality(0..n) = n + 1
    BY <1>3, FS_Interval
  <2> QED
    BY <1>3, <2>3, <2>4
<1>5. /\ szText' = [szText EXCEPT ![p] = b]
      /\ arg' = [arg EXCEPT ![p] = t]
      /\ queue' = Tail(queue) /\ sent' = Tail(sent)
  <2>1. [i \in DOMAIN szText[p] |-> IF i \in DOMAIN m THEN m[i] ELSE szText[p][i]] = b
    BY <1>1 DEF Zeroed
  <2>2. Msg!Cardinality(DOMAIN m) = Cardinality(DOMAIN m)
    BY SameSizes
  <2> QED
    BY <1>4, <2>1, <2>2 DEF Msg!Receive
<1>6. Carries(b, MaxSend, t)
  <2>1. DOMAIN b = 0..(MaxSend - 1) /\ b = [i \in DOMAIN b |-> b[i]]
    OBVIOUS
  <2>2. \A i \in 0..n : i \in 0..(MaxSend - 1) /\ b[i] = m[i]
    BY <1>3, <1>4
  <2>3. n \in 0..n /\ \A i \in 0..(n - 1) : i \in 0..n
    BY <1>3
  <2> HIDE DEF b, m, n
  <2>4. m[n] = NUL /\ \A i \in 0..(n - 1) : m[i] # NUL /\ m[i] = t[i]
    BY <1>3 DEF Carries, IsText, n
  <2>5. IsText(b, MaxSend, n)
    BY <1>3, <2>1, <2>2, <2>3, <2>4 DEF IsText
  <2> QED
    BY <2>2, <2>3, <2>4, <2>5 DEF Carries, n
<1> HIDE DEF b, m, n
<1>7. \A i \in 1..Len(queue') : Carries(queue'[i], CutTo(MaxSend, sent'[i]) + 1, sent'[i])
  BY <1>1, <1>2, <1>5
<1>8. queue' \in Seq(Packets) /\ sent' \in Seq(Given) /\ Len(queue') = Len(sent')
  BY <1>1, <1>2, <1>5
<1> QED
  BY <1>1, <1>2, <1>5, <1>6, <1>7, <1>8 DEF MsgInv

LEMMA MsgInvStays == MsgInv /\ [Next]_vars => MsgInv'
<1>1. ASSUME MsgInv, Msg!MsgNext PROVE MsgInv'
  <2>1. ASSUME NEW p \in Procs, Msg!PrintText(p) \/ Msg!Killed(p) PROVE MsgInv'
    <3>1. Msg!Ends(p) /\ UNCHANGED <<queue, sent>>
      BY <2>1 DEF Msg!PrintText, Msg!Killed
    <3> QED
      BY <1>1, <3>1, EndsStep DEF MsgInv
  <2> QED
    BY <1>1, <2>1, BeginStep, SendStep, ReceiveStep DEF Msg!MsgNext, Msg!MsgWork
<1>2. MsgInv /\ UNCHANGED msgVars => MsgInv'
  BY DEF MsgInv, msgVars
<1> QED
  BY <1>1, <1>2 DEF Next, vars

\* What a process receives is what another sent, cut to what fits, for any texts
\* and sizes and any number of terminals (process.c:21-43).
THEOREM MessagesArriveAsSent == Spec => []ReceivedAsSent
<1>1. Init => MsgInv
  BY MsgInvInit DEF Init
<1>2. MsgInv => ReceivedAsSent
  <2> SUFFICES ASSUME MsgInv PROVE Msg!ReceivedAsSent
    BY DEF ReceivedAsSent
  <2>1. DOMAIN queue = 1..Len(queue) /\ Len(queue) = Len(sent)
    BY DEF MsgInv
  <2>2. ASSUME NEW i \in 1..Len(queue) PROVE TextOf(queue[i]) = Msg!Cut(sent[i])
    <3>1. sent[i] \in Given /\ Carries(queue[i], CutTo(MaxSend, sent[i]) + 1, sent[i])
      BY <2>1 DEF MsgInv
    <3>2. CutTo(MaxSend, sent[i]) + 1 \in Nat
      BY <3>1, GivenAre
    <3> QED
      BY <3>1, <3>2, CarriesCut
  <2>3. ASSUME NEW p \in Procs PROVE TextOf(szText[p]) = Msg!Cut(arg[p])
    <3>1. arg[p] \in Given /\ Carries(szText[p], MaxSend, arg[p]) /\ MaxSend \in Nat
      BY IpcParameters DEF MsgInv
    <3> QED
      BY <3>1, CarriesCut
  <2> QED
    BY <2>1, <2>2, <2>3, SameBuffers DEF Msg!ReceivedAsSent
<1> QED
  BY <1>1, <1>2, MsgInvStays, PTL DEF Spec

-----------------------------------------------------------------------------
(* The bytes that wait in the queue are the sum of its messages' sizes: one *)
(* message at the end adds to it, the one taken from the front subtracts.   *)

SizesOf(q) == [i \in 1..Len(q) |-> Cardinality(DOMAIN q[i])]
BytesIn(q) == SumOver(SizesOf(q), 1..Len(q))

LEMMA PacketSizes ==
  ASSUME NEW m \in Packets
  PROVE  Cardinality(DOMAIN m) \in Nat
<1>1. PICK n \in 0..(MaxSend - 1) : m \in [0..n -> Bytes]
  BY DEF Packets
<1>2. n \in Int /\ DOMAIN m = 0..n
  BY <1>1, IpcParameters
<1> QED
  BY <1>2, FS_Interval, FS_CardinalityType

Tally(it, q) ==
  it = [s \in SUBSET DOMAIN q |->
          IF s = {} THEN 0 ELSE Cardinality(DOMAIN q[Pick(s)]) + it[s \ {Pick(s)}]]

LEMMA WaitingUnfolds == Msg!Waiting = (CHOOSE it : Tally(it, queue))[DOMAIN queue]
BY SameSizes DEF Msg!Waiting, Msg!FoldSeq, Msg!FoldFunction, Msg!FoldFunctionOnSet,
     Msg!MapThenFoldSet, Tally, Pick

LEMMA WaitingIs ==
  ASSUME queue \in Seq(Packets)
  PROVE  Msg!Waiting = BytesIn(queue)
<1> DEFINE S == 1..Len(queue)
           f == SizesOf(queue)
<1>1. IsFiniteSet(S) /\ S = DOMAIN queue
  BY FS_Interval
<1>2. \A i \in S : f[i] = Cardinality(DOMAIN queue[i]) /\ f[i] \in Int
  BY PacketSizes DEF SizesOf
<1> HIDE DEF S, f
<1>3. PICK it : Sums(it, f, S)
  BY <1>1, <1>2, SumsExist
<1>4. \A s \in SUBSET S : s # {} => f[Pick(s)] = Cardinality(DOMAIN queue[Pick(s)])
  BY <1>2, PickIn
<1>5. \A jt : Sums(jt, f, S) <=> Tally(jt, queue)
  BY <1>1, <1>4 DEF Sums, Tally
<1> DEFINE w == CHOOSE jt : Tally(jt, queue)
<1>6. Sums(w, f, S)
  <2>1. Tally(w, queue)
    BY <1>3, <1>5
  <2> QED
    BY <1>5, <2>1
<1>7. SumOver(f, S) = w[S]
  <2> HIDE DEF w
  <2>1. S \in SUBSET S /\ \A i \in S : f[i] \in Int
    BY <1>2
  <2>2. \A jt : Sums(jt, f, S) => SumOver(f, S) = jt[S]
    BY <1>1, <2>1, SumOverSums
  <2> QED
    BY <1>6, <2>2
<1> QED
  BY <1>1, <1>7, WaitingUnfolds DEF BytesIn, S, f

LEMMA BytesAppend ==
  ASSUME NEW q \in Seq(Packets), NEW m \in Packets
  PROVE  BytesIn(Append(q, m)) = BytesIn(q) + Cardinality(DOMAIN m)
<1> DEFINE n == Len(q)
           S == 1..n
           f == SizesOf(q)
           r == Append(q, m)
           g == SizesOf(r)
           x == n + 1
<1>1. /\ n \in Nat /\ Len(r) = x /\ 1..Len(r) = S \cup {x} /\ x \notin S
      /\ \A i \in S : r[i] = q[i] /\ q[i] \in Packets
      /\ r[x] = m
  OBVIOUS
<1>2. IsFiniteSet(S)
  BY <1>1, FS_Interval
<1>3. \A i \in S : f[i] = Cardinality(DOMAIN q[i])
  BY DEF SizesOf
<1>4. \A i \in S \cup {x} : g[i] = Cardinality(DOMAIN r[i])
  BY <1>1 DEF SizesOf
<1>7. BytesIn(q) = SumOver(f, S) /\ BytesIn(r) = SumOver(g, 1..Len(r))
  BY DEF BytesIn
<1> HIDE DEF n, S, f, r, g, x
<1>5. /\ \A i \in S : f[i] \in Nat /\ f[i] = g[i] /\ g[i] \in Nat
      /\ g[x] = Cardinality(DOMAIN m) /\ g[x] \in Nat
  BY <1>1, <1>3, <1>4, PacketSizes
<1>6. SumOver(g, S \cup {x}) = SumOver(g, S) + g[x]
  BY <1>1, <1>2, <1>5, SumOverAdd
<1>8. SumOver(f, S) = SumOver(g, S)
  BY <1>2, <1>5, SumOverSame
<1> QED
  BY <1>1, <1>5, <1>6, <1>7, <1>8 DEF r

LEMMA BytesTail ==
  ASSUME NEW q \in Seq(Packets), q # <<>>
  PROVE  /\ BytesIn(q) = Cardinality(DOMAIN Head(q)) + BytesIn(Tail(q))
         /\ BytesIn(Tail(q)) \in Nat /\ Cardinality(DOMAIN Head(q)) \in Nat
<1> DEFINE n == Len(q) - 1
           f == SizesOf(q)
           r == Tail(q)
           g == SizesOf(r)
<1>1. /\ n \in Nat /\ Len(q) = n + 1 /\ Len(r) = n /\ Head(q) = q[1]
      /\ \A i \in 1..n : r[i] = q[i + 1]
      /\ \A i \in 1..(n + 1) : q[i] \in Packets
  OBVIOUS
<1>2. /\ \A i \in 1..(n + 1) : f[i] = Cardinality(DOMAIN q[i])
      /\ \A i \in 1..n : g[i] = Cardinality(DOMAIN r[i])
  BY <1>1 DEF SizesOf
<1>3. BytesIn(q) = SumOver(f, 1..(n + 1)) /\ BytesIn(r) = SumOver(g, 1..n)
  BY <1>1 DEF BytesIn
<1> HIDE DEF n, f, r, g
<1>4. \A i \in 1..(n + 1) : f[i] \in Nat
  BY <1>1, <1>2, PacketSizes
<1>5. \A i \in 1..n : g[i] = f[i + 1] /\ i + 1 \in 1..(n + 1)
  BY <1>1, <1>2
<1>6. SumOver(f, 1..(n + 1)) = f[1] + SumOver(g, 1..n)
  BY <1>1, <1>4, <1>5, SumOverShift
<1>7. SumOver(g, 1..n) \in Nat
  <2>1. \A i \in 1..n : g[i] \in Nat
    BY <1>4, <1>5
  <2>2. IsFiniteSet(1..n)
    BY <1>1, FS_Interval
  <2> QED
    BY <2>1, <2>2, SumOverNatural
<1> QED
  BY <1>1, <1>2, <1>3, <1>4, <1>6, <1>7 DEF r

QueueInv == MsgInv /\ BytesIn(queue) <= QueueBytes

LEMMA QueueInvInit == Msg!MsgInit => QueueInv
<1> SUFFICES ASSUME Msg!MsgInit PROVE QueueInv
  OBVIOUS
<1>1. queue = <<>> /\ 1..Len(<<>>) = {}
  BY DEF Msg!MsgInit
<1>2. BytesIn(queue) = 0
  BY <1>1, SumOverEmpty DEF BytesIn
<1> QED
  BY <1>2, MsgInvInit, IpcParameters DEF QueueInv

LEMMA QueueInvStays == QueueInv /\ [Next]_vars => QueueInv'
<1> SUFFICES ASSUME QueueInv, [Next]_vars PROVE QueueInv'
  OBVIOUS
<1>1. MsgInv'
  BY MsgInvStays DEF QueueInv
<1>2. queue \in Seq(Packets)
  BY DEF QueueInv, MsgInv
<1>3. CASE queue' = queue
  BY <1>1, <1>3 DEF QueueInv
<1>4. ASSUME NEW p \in Procs, Msg!Send(p) PROVE QueueInv'
  <2> DEFINE m == Msg!Message(szText[p])
             n == CutTo(MaxSend, arg[p])
  <2>1. queue' = Append(queue, m) /\ Msg!Waiting + StrLen(szText[p]) + 1 <= QueueBytes
    BY <1>4, SameBuffers DEF Msg!Send
  <2>2. arg[p] \in Given /\ Carries(szText[p], MaxSend, arg[p])
    BY DEF QueueInv, MsgInv
  <2>3. m \in [0..n -> Bytes] /\ n \in 0..(MaxSend - 1) /\ StrLen(szText[p]) = n
        /\ MaxSend \in Nat /\ QueueBytes \in Nat
    BY <2>2, GivenAre, MessageCarries, CarriesCut, IpcParameters
  <2> HIDE DEF m, n
  <2>4. m \in Packets /\ Cardinality(DOMAIN m) = n + 1
    <3>1. DOMAIN m = 0..n /\ n \in Nat
      BY <2>3
    <3>2. Cardinality(0..n) = n + 1
      BY <3>1, FS_Interval
    <3> QED
      BY <2>3, <3>1, <3>2 DEF Packets
  <2>5. BytesIn(queue') = BytesIn(queue) + Cardinality(DOMAIN m)
    BY <1>2, <2>1, <2>4, BytesAppend
  <2>6. BytesIn(queue) = Msg!Waiting
    BY <1>2, WaitingIs
  <2>7. BytesIn(queue) \in Nat
    <3>1. \A i \in 1..Len(queue) : SizesOf(queue)[i] \in Nat
      BY <1>2, PacketSizes DEF SizesOf
    <3>2. IsFiniteSet(1..Len(queue))
      BY <1>2, FS_Interval
    <3> QED
      BY <3>1, <3>2, SumOverNatural DEF BytesIn
  <2>8. BytesIn(queue') <= QueueBytes
    BY <2>1, <2>3, <2>4, <2>5, <2>6, <2>7
  <2> QED
    BY <1>1, <2>8 DEF QueueInv
<1>5. CASE queue # <<>> /\ queue' = Tail(queue)
  <2>1. /\ BytesIn(queue) = Cardinality(DOMAIN Head(queue)) + BytesIn(Tail(queue))
        /\ BytesIn(Tail(queue)) \in Nat /\ Cardinality(DOMAIN Head(queue)) \in Nat
    BY <1>2, <1>5, BytesTail
  <2>2. QueueBytes \in Nat /\ BytesIn(queue) <= QueueBytes
    BY IpcParameters DEF QueueInv
  <2>3. \A i, j, k \in Nat : i + j <= k => j <= k
    OBVIOUS
  <2>4. BytesIn(queue') <= QueueBytes
    BY <1>5, <2>1, <2>2, <2>3
  <2> QED
    BY <1>1, <2>4 DEF QueueInv
<1>6. ASSUME NEW p \in Procs, Msg!Receive(p) PROVE QueueInv'
  <2>1. \/ queue' = queue
        \/ queue # <<>> /\ queue' = Tail(queue)
    BY <1>6 DEF Msg!Receive
  <2> QED
    BY <1>3, <1>5, <2>1
<1>7. ASSUME NEW p \in Procs,
             Msg!BeginSend(p) \/ Msg!BeginReceive(p) \/ Msg!Killed(p) \/ Msg!PrintText(p)
      PROVE  queue' = queue
  BY <1>7 DEF Msg!BeginSend, Msg!BeginReceive, Msg!Killed, Msg!PrintText
<1> QED
  BY <1>3, <1>4, <1>6, <1>7 DEF Next, vars, Msg!MsgNext, Msg!MsgWork, msgVars

-----------------------------------------------------------------------------
(* The shared text.  While a writer is alone, what it has copied stands in  *)
(* the memory; the text shown stands there whole and nobody is writing; and *)
(* whoever reads with no writer in between has read the front of it.        *)

Written == TextsUpTo(ShmSize - 1)

Whole(t) == StrLen(t) \in 0..(ShmSize - 1) /\ \E l \in Nat : IsText(t, l + 1, StrLen(t))

LEMMA WrittenAreWhole ==
  ASSUME NEW t \in Written
  PROVE  Whole(t) /\ t # Shm!Mixed /\ t # NoBuffer
<1>1. ShmSize - 1 \in Nat
  BY IpcParameters
<1>2. PICK l \in 0..(ShmSize - 1) :
        t \in [0..l -> Bytes] /\ IsText(t, l + 1, StrLen(t)) /\ StrLen(t) \in 0..l
  BY <1>1, TextsAre DEF Written
<1>3. 0 \in DOMAIN t
  BY <1>2
<1>4. 0 \notin DOMAIN Shm!Mixed /\ 0 \notin DOMAIN NoBuffer
  BY DEF Shm!Mixed, NoBuffer
<1> QED
  BY <1>1, <1>2, <1>3, <1>4 DEF Whole

ReadSoFar(p, k) ==
  /\ got[p] = [i \in 0..(k - 1) |-> shown[i]]
  /\ \/ shmPc[p] = "read" /\ k <= StrLen(shown)
     \/ shmPc[p] = "print" /\ k = StrLen(shown) + 1

ShmTypes ==
  /\ exists \in BOOLEAN
  /\ DOMAIN shm = 0..(ShmSize - 1)
  /\ shmPc \in [ShmProcs -> {"idle", "create", "get", "map", "write", "read", "print"}]
  /\ alone \in [ShmProcs -> BOOLEAN]
  /\ job \in [ShmProcs -> Written \cup {NoBuffer}]
  /\ todo \in [ShmProcs -> SUBSET (0..(ShmSize - 1))]
  /\ DOMAIN got = ShmProcs /\ DOMAIN expected = ShmProcs
  /\ \A p \in ShmProcs : /\ shmPc[p] = "write" => job[p] \in Written
                         /\ shmPc[p] # "write" => todo[p] = {}

WriterInv ==
  \A p \in ShmProcs : alone[p] =>
    /\ shmPc[p] = "write"
    /\ \A q \in ShmProcs : shmPc[q] = "write" => q = p
    /\ \A i \in 0..StrLen(job[p]) : i \notin todo[p] => shm[i] = job[p][i]

ShownInv ==
  shown # Shm!Mixed =>
    /\ Whole(shown)
    /\ \A q \in ShmProcs : shmPc[q] # "write"
    /\ \A i \in 0..StrLen(shown) : shm[i] = shown[i]

ReaderInv ==
  \A p \in ShmProcs :
    /\ expected[p] \in {Shm!Mixed, shown}
    /\ shmPc[p] \notin {"read", "print"} => got[p] = NoBuffer
    /\ expected[p] # Shm!Mixed => \E k \in Nat : ReadSoFar(p, k)

ShmInv == ShmTypes /\ WriterInv /\ ShownInv /\ ReaderInv

LEMMA ShmInvInit == Shm!ShmInit => ShmInv
<1> SUFFICES ASSUME Shm!ShmInit PROVE ShmInv
  OBVIOUS
<1>1. ShmSize \in Nat \ {0}
  BY IpcParameters
<1>2. Shm!NUL = NUL
  BY DEF Shm!NUL, NUL
<1>3. ShmTypes
  BY SameBuffers DEF Shm!ShmInit, ShmTypes, Zeroed
<1>4. WriterInv /\ ReaderInv
  BY SameBuffers DEF Shm!ShmInit, WriterInv, ReaderInv
<1>5. ShownInv
  <2>1. shown = [i \in {0} |-> NUL] /\ shm = Zeroed(ShmSize)
    BY <1>2, SameBuffers DEF Shm!ShmInit, Shm!Empty
  <2>2. IsText(shown, 1, 0)
    BY <2>1 DEF IsText
  <2>3. StrLen(shown) = 0
    BY <2>2, LengthOfText
  <2>4. Whole(shown)
    BY <1>1, <2>2, <2>3 DEF Whole
  <2>5. shm[0] = shown[0]
    BY <1>1, <2>1 DEF Zeroed
  <2>6. \A q \in ShmProcs : shmPc[q] # "write"
    BY DEF Shm!ShmInit
  <2> QED
    BY <2>3, <2>4, <2>5, <2>6 DEF ShownInv
<1> QED
  BY <1>3, <1>4, <1>5 DEF ShmInv

\* The steps before p is mapped.
LEMMA AttachStep ==
  ASSUME ShmInv, NEW p \in ShmProcs, Shm!ShmStart(p) \/ Shm!Create(p) \/ Shm!Get(p)
  PROVE  ShmInv'
<1>1. /\ UNCHANGED <<shm, todo, got, alone, shown, expected>>
      /\ shmPc[p] \in {"idle", "create", "get"}
      /\ \A q \in ShmProcs : q # p => shmPc'[q] = shmPc[q] /\ job'[q] = job[q]
      /\ shmPc' \in [ShmProcs -> {"idle", "create", "get", "map", "write", "read", "print"}]
      /\ shmPc'[p] \in {"create", "get", "map"}
      /\ job' \in [ShmProcs -> Written \cup {NoBuffer}]
      /\ exists' \in BOOLEAN
  <2>1. CASE Shm!ShmStart(p)
    BY <2>1, SameBuffers DEF ShmInv, ShmTypes, Shm!ShmStart, Shm!Goto, Written
  <2>2. CASE Shm!Create(p)
    BY <2>2, SameBuffers DEF ShmInv, ShmTypes, Shm!Create, Shm!Goto, Written
  <2>3. CASE Shm!Get(p)
    BY <2>3, SameBuffers DEF ShmInv, ShmTypes, Shm!Get, Shm!Goto, Written
  <2> QED
    BY <2>1, <2>2, <2>3
<1>2. ShmTypes'
  BY <1>1 DEF ShmInv, ShmTypes
<1>3. WriterInv'
  BY <1>1 DEF ShmInv, WriterInv
<1>4. ShownInv'
  BY <1>1 DEF ShmInv, ShownInv
<1>5. ReaderInv'
  <2>1. \A q \in ShmProcs, k \in Nat : ReadSoFar(q, k) => ReadSoFar(q, k)'
    BY <1>1 DEF ReadSoFar
  <2>2. \A q \in ShmProcs : shmPc'[q] \notin {"read", "print"} => got'[q] = NoBuffer
    BY <1>1 DEF ShmInv, ReaderInv
  <2> QED
    BY <1>1, <2>1, <2>2 DEF ShmInv, ReaderInv
<1> QED
  BY <1>2, <1>3, <1>4, <1>5 DEF ShmInv

LEMMA BeginWriteStep ==
  ASSUME ShmInv, NEW p \in ShmProcs, Shm!BeginWrite(p)
  PROVE  ShmInv'
<1>1. /\ UNCHANGED <<exists, shm, job, got>>
      /\ shmPc[p] = "map" /\ shmPc' = [shmPc EXCEPT ![p] = "write"]
      /\ job[p] \in Written
      /\ todo' = [todo EXCEPT ![p] = 0..StrLen(job[p])]
      /\ alone' = [q \in ShmProcs |-> q = p /\ Shm!Writers = {}]
      /\ shown' = Shm!Mixed /\ expected' = [q \in ShmProcs |-> Shm!Mixed]
  BY SameBuffers DEF ShmInv, ShmTypes, Shm!BeginWrite, Shm!Goto
<1>2. StrLen(job[p]) \in 0..(ShmSize - 1) /\ ShmSize \in Nat
  BY <1>1, WrittenAreWhole, IpcParameters DEF Whole
<1>3. ShmTypes'
  BY <1>1, <1>2 DEF ShmInv, ShmTypes
<1>4. WriterInv'
  <2> SUFFICES ASSUME Shm!Writers = {}
               PROVE  /\ \A q \in ShmProcs : shmPc'[q] = "write" => q = p
                      /\ todo'[p] = 0..StrLen(job'[p]) /\ shmPc'[p] = "write"
    BY <1>1 DEF WriterInv
  <2> QED
    BY <1>1 DEF Shm!Writers, ShmInv, ShmTypes
<1>5. ShownInv' /\ ReaderInv'
  BY <1>1 DEF ShmInv, ShownInv, ReaderInv, ShmTypes
<1> QED
  BY <1>3, <1>4, <1>5 DEF ShmInv

LEMMA BeginReadStep ==
  ASSUME ShmInv, NEW p \in ShmProcs, Shm!BeginRead(p)
  PROVE  ShmInv'
<1>1. /\ UNCHANGED <<exists, shm, job, todo, got, alone, shown>>
      /\ shmPc[p] = "map" /\ shmPc' = [shmPc EXCEPT ![p] = "read"]
      /\ expected' = [expected EXCEPT ![p] = shown]
  BY DEF Shm!BeginRead, Shm!Goto
<1>2. ShmTypes' /\ WriterInv' /\ ShownInv'
  BY <1>1 DEF ShmInv, ShmTypes, WriterInv, ShownInv
<1>3. ReaderInv'
  <2>1. \A q \in ShmProcs : q # p => shmPc'[q] = shmPc[q] /\ expected'[q] = expected[q]
    BY <1>1 DEF ShmInv, ShmTypes
  <2>2. expected'[p] = shown /\ shmPc'[p] = "read"
    BY <1>1 DEF ShmInv, ShmTypes
  <2>3. shown # Shm!Mixed => ReadSoFar(p, 0)'
    <3>1. got[p] = NoBuffer
      BY <1>1 DEF ShmInv, ReaderInv
    <3>2. NoBuffer = [i \in 0..(0 - 1) |-> shown[i]]
      BY DEF NoBuffer
    <3>3. shown # Shm!Mixed => 0 <= StrLen(shown)
      BY DEF ShmInv, ShownInv, Whole
    <3> QED
      BY <1>1, <2>2, <3>1, <3>2, <3>3 DEF ReadSoFar
  <2> QED
    BY <1>1, <2>1, <2>2, <2>3, SMTT(30) DEF ShmInv, ReaderInv, ReadSoFar
<1> QED
  BY <1>2, <1>3 DEF ShmInv

LEMMA WriteStep ==
  ASSUME ShmInv, NEW p \in ShmProcs, NEW i \in todo[p], Shm!Write(p, i)
  PROVE  ShmInv'
<1>1. /\ UNCHANGED <<exists, shmPc, job, got, alone, shown, expected>>
      /\ shmPc[p] = "write" /\ shm' = [shm EXCEPT ![i] = job[p][i]]
      /\ todo' = [todo EXCEPT ![p] = @ \ {i}]
  BY DEF Shm!Write
<1>2. i \in 0..(ShmSize - 1)
  BY DEF ShmInv, ShmTypes
<1>3. ShmTypes'
  BY <1>1 DEF ShmInv, ShmTypes
<1>4. WriterInv'
  <2> SUFFICES ASSUME NEW q \in ShmProcs, alone[q]
               PROVE  \A j \in 0..StrLen(job[q]) : j \notin todo'[q] => shm'[j] = job[q][j]
    BY <1>1 DEF ShmInv, WriterInv
  <2>1. q = p /\ job[p] \in Written
    BY <1>1 DEF ShmInv, WriterInv, ShmTypes
  <2>2. ShmSize \in Nat /\ StrLen(job[p]) \in 0..(ShmSize - 1)
    BY <2>1, WrittenAreWhole, IpcParameters DEF Whole
  <2>3. \A j \in 0..StrLen(job[p]) : j \in DOMAIN shm
    BY <2>2 DEF ShmInv, ShmTypes
  <2>4. todo'[p] = todo[p] \ {i}
    BY <1>1 DEF ShmInv, ShmTypes
  <2> QED
    BY <1>1, <1>2, <2>1, <2>3, <2>4 DEF ShmInv, WriterInv
<1>5. ShownInv' /\ ReaderInv'
  <2>1. shown = Shm!Mixed
    BY <1>1 DEF ShmInv, ShownInv
  <2> QED
    BY <1>1, <2>1 DEF ShmInv, ShownInv, ReaderInv
<1> QED
  BY <1>3, <1>4, <1>5 DEF ShmInv

LEMMA EndWriteStep ==
  ASSUME ShmInv, NEW p \in ShmProcs, Shm!EndWrite(p)
  PROVE  ShmInv'
<1>1. /\ UNCHANGED <<exists, shm, todo, got, expected>>
      /\ shmPc[p] = "write" /\ todo[p] = {} /\ shmPc' = [shmPc EXCEPT ![p] = "idle"]
      /\ shown' = IF alone[p] THEN job[p] ELSE shown
      /\ job' = [job EXCEPT ![p] = NoBuffer]
      /\ alone' = [alone EXCEPT ![p] = FALSE]
  BY SameBuffers DEF Shm!EndWrite, Shm!Goto
<1>2. shown = Shm!Mixed /\ \A q \in ShmProcs : expected[q] = Shm!Mixed
  BY <1>1 DEF ShmInv, ShownInv, ReaderInv
<1>3. ShmTypes'
  BY <1>1 DEF ShmInv, ShmTypes
<1>4. WriterInv'
  BY <1>1 DEF ShmInv, ShmTypes, WriterInv
<1>5. ShownInv'
  <2> SUFFICES ASSUME alone[p]
               PROVE  /\ Whole(job[p])
                      /\ \A q \in ShmProcs : shmPc'[q] # "write"
                      /\ \A i \in 0..StrLen(job[p]) : shm[i] = job[p][i]
    BY <1>1, <1>2 DEF ShownInv
  <2>1. job[p] \in Written
    BY <1>1 DEF ShmInv, ShmTypes
  <2> QED
    BY <1>1, <2>1, WrittenAreWhole DEF ShmInv, ShmTypes, WriterInv
<1>6. ReaderInv'
  BY <1>1, <1>2 DEF ShmInv, ShmTypes, ReaderInv
<1> QED
  BY <1>3, <1>4, <1>5, <1>6 DEF ShmInv

\* Reading on, the NUL of the text comes where the text ends.
LEMMA ReadStep ==
  ASSUME ShmInv, NEW p \in ShmProcs, Shm!Read(p)
  PROVE  ShmInv'
<1> DEFINE n == Cardinality(DOMAIN got[p])
<1>1. /\ UNCHANGED <<exists, shm, job, todo, alone, shown, expected>>
      /\ shmPc[p] = "read"
      /\ shmPc' = [shmPc EXCEPT ![p] =
                     IF shm[n] = NUL \/ n = ShmSize - 1 THEN "print" ELSE "read"]
      /\ got' = [got EXCEPT ![p] = [j \in 0..n |-> IF j = n THEN shm[n] ELSE got[p][j]]]
  <2>1. Shm!NUL = NUL
    BY DEF Shm!NUL, NUL
  <2> QED
    BY <2>1, SameSizes DEF Shm!Read, Shm!Goto
<1>2. ShmTypes' /\ WriterInv' /\ ShownInv'
  BY <1>1 DEF ShmInv, ShmTypes, WriterInv, ShownInv
<1>3. \A q \in ShmProcs : q # p => shmPc'[q] = shmPc[q] /\ got'[q] = got[q]
  BY <1>1 DEF ShmInv, ShmTypes
<1>4. shmPc'[p] \in {"read", "print"}
  BY <1>1 DEF ShmInv, ShmTypes
<1>5. ASSUME expected[p] # Shm!Mixed PROVE \E k \in Nat : ReadSoFar(p, k)'
  <2>1. PICK k \in Nat : ReadSoFar(p, k)
    BY <1>5 DEF ShmInv, ReaderInv
  <2>2. shown # Shm!Mixed
    BY <1>5 DEF ShmInv, ReaderInv
  <2>3. /\ Whole(shown) /\ ShmSize \in Nat
        /\ \A i \in 0..StrLen(shown) : shm[i] = shown[i]
    BY <2>2, IpcParameters DEF ShmInv, ShownInv
  <2>4. PICK l \in Nat : IsText(shown, l + 1, StrLen(shown))
    BY <2>3 DEF Whole
  <2>5. k <= StrLen(shown) /\ StrLen(shown) \in 0..(ShmSize - 1)
    BY <1>1, <2>1, <2>3 DEF ReadSoFar, Whole
  <2>6. got[p] = [i \in 0..(k - 1) |-> shown[i]] /\ DOMAIN got[p] = 0..(k - 1)
    BY <2>1 DEF ReadSoFar
  <2>7. n = k
    <3>1. Cardinality(0..(k - 1)) = k
      <4>1. k - 1 \in Int
        OBVIOUS
      <4>2. Cardinality(0..(k - 1)) = IF 0 > k - 1 THEN 0 ELSE (k - 1) - 0 + 1
        BY <4>1, FS_Interval
      <4> QED
        BY <4>2
    <3> QED
      BY <2>6, <3>1
  <2> HIDE DEF n
  <2>8. shm[n] = shown[n] /\ (shm[n] = NUL <=> n = StrLen(shown))
    BY <2>3, <2>4, <2>5, <2>7 DEF IsText
  <2>9. got'[p] = [j \in 0..((n + 1) - 1) |-> shown[j]]
    <3>1. got'[p] = [j \in 0..n |-> IF j = n THEN shm[n] ELSE got[p][j]]
      BY <1>1 DEF ShmInv, ShmTypes
    <3>2. \A j \in 0..n : (IF j = n THEN shm[n] ELSE got[p][j]) = shown[j]
      BY <2>6, <2>7, <2>8
    <3>3. (n + 1) - 1 = n
      BY <2>7
    <3> QED
      BY <3>1, <3>2, <3>3
  <2>10. shmPc'[p] = IF n = StrLen(shown) THEN "print" ELSE "read"
    <3>1. shmPc'[p] = IF shm[n] = NUL \/ n = ShmSize - 1 THEN "print" ELSE "read"
      BY <1>1 DEF ShmInv, ShmTypes
    <3>2. n = ShmSize - 1 => n = StrLen(shown)
      BY <2>3, <2>5, <2>7
    <3> QED
      BY <2>8, <3>1, <3>2
  <2>11. ReadSoFar(p, k + 1)'
    <3>1. got'[p] = [j \in 0..((k + 1) - 1) |-> shown'[j]]
      BY <1>1, <2>7, <2>9
    <3>2. \/ shmPc'[p] = "read" /\ k + 1 <= StrLen(shown')
          \/ shmPc'[p] = "print" /\ k + 1 = StrLen(shown') + 1
      BY <1>1, <2>5, <2>7, <2>10
    <3> QED
      BY <3>1, <3>2 DEF ReadSoFar
  <2> QED
    BY <2>11
<1> HIDE DEF n
<1>6. ReaderInv'
  <2>1. ASSUME NEW q \in ShmProcs, expected'[q] # Shm!Mixed
        PROVE  \E k \in Nat : ReadSoFar(q, k)'
    <3>1. CASE q = p
      BY <1>1, <1>5, <2>1, <3>1
    <3>2. CASE q # p
      BY <1>1, <1>3, <2>1, <3>2 DEF ShmInv, ReaderInv, ReadSoFar
    <3> QED
      BY <3>1, <3>2
  <2> QED
    BY <1>1, <1>3, <1>4, <2>1 DEF ShmInv, ReaderInv
<1> QED
  BY <1>2, <1>6 DEF ShmInv

LEMMA LeaveStep ==
  ASSUME ShmInv, NEW p \in ShmProcs, Shm!Leave(p)
  PROVE  ShmInv'
<1>1. /\ UNCHANGED <<exists, shm, shown>>
      /\ shmPc' = [shmPc EXCEPT ![p] = "idle"]
      /\ job' = [job EXCEPT ![p] = NoBuffer]
      /\ todo' = [todo EXCEPT ![p] = {}]
      /\ got' = [got EXCEPT ![p] = NoBuffer]
      /\ alone' = [alone EXCEPT ![p] = FALSE]
      /\ expected' = [expected EXCEPT ![p] = Shm!Mixed]
  BY SameBuffers DEF Shm!Leave, Shm!Goto
<1>2. ShmTypes'
  BY <1>1 DEF ShmInv, ShmTypes
<1>3. WriterInv'
  BY <1>1 DEF ShmInv, ShmTypes, WriterInv
<1>4. ShownInv'
  BY <1>1 DEF ShmInv, ShmTypes, ShownInv
<1>5. ReaderInv'
  BY <1>1 DEF ShmInv, ShmTypes, ReaderInv, ReadSoFar
<1> QED
  BY <1>2, <1>3, <1>4, <1>5 DEF ShmInv

LEMMA ShmInvStays == ShmInv /\ [Next]_vars => ShmInv'
<1>1. ASSUME ShmInv, Shm!ShmNext PROVE ShmInv'
  <2>1. ASSUME NEW p \in ShmProcs, Shm!PrintText(p) \/ Shm!Killed(p) PROVE ShmInv'
    BY <1>1, <2>1, LeaveStep DEF Shm!PrintText, Shm!Killed
  <2> QED
    BY <1>1, <2>1, AttachStep, BeginWriteStep, BeginReadStep, WriteStep, EndWriteStep, ReadStep
    DEF Shm!ShmNext
<1>2. ASSUME ShmInv, UNCHANGED shmVars PROVE ShmInv'
  BY <1>2 DEF ShmInv, ShmTypes, WriterInv, ShownInv, ReaderInv, ReadSoFar, shmVars
<1> QED
  BY <1>1, <1>2 DEF Next, vars

\* A read that no write overlaps prints the last text whole, for any texts and
\* any number of terminals (process.c:238-252).
THEOREM ReadsAreWhole == Spec => []WholeRead
<1>1. Init => ShmInv
  BY ShmInvInit DEF Init
<1>2. ShmInv => WholeRead
  <2> SUFFICES ASSUME ShmInv, NEW p \in ShmProcs, shmPc[p] = "print", expected[p] # Shm!Mixed
               PROVE  TextOf(got[p]) = TextOf(expected[p])
    BY SameBuffers DEF WholeRead, Shm!WholeRead
  <2> DEFINE n == StrLen(shown)
  <2>1. expected[p] = shown /\ shown # Shm!Mixed
    BY DEF ShmInv, ReaderInv
  <2>2. n \in Nat
    BY <2>1, IpcParameters DEF ShmInv, ShownInv, Whole
  <2>8. PICK l \in Nat : IsText(shown, l + 1, n)
    BY <2>1 DEF ShmInv, ShownInv, Whole
  <2>3. got[p] = [i \in 0..((n + 1) - 1) |-> shown[i]]
    BY DEF ShmInv, ReaderInv, ReadSoFar
  <2> HIDE DEF n
  <2>4. /\ DOMAIN got[p] = 0..((n + 1) - 1)
        /\ \A i \in 0..n : i \in DOMAIN got[p] /\ got[p][i] = shown[i]
    BY <2>2, <2>3
  <2>5. IsText(got[p], n + 1, n)
    BY <2>2, <2>3, <2>4, <2>8 DEF IsText
  <2>6. StrLen(got[p]) = n
    BY <2>2, <2>5, LengthOfText
  <2>7. TextOf(got[p]) = [i \in 0..(n - 1) |-> shown[i]]
    BY <2>2, <2>4, <2>6 DEF TextOf
  <2> QED
    BY <2>1, <2>7 DEF TextOf, n
<1> QED
  BY <1>1, <1>2, ShmInvStays, PTL DEF Spec

\* The kernel objects and the processes keep their types: in particular the queue
\* never holds more bytes than it has room for, and every text has its NUL
\* (process.c:21-43, 98-157, 238-252).
THEOREM TypesStay == Spec => []TypesOK
<1>1. Init => SemInv /\ QueueInv /\ ShmInv
  BY SemInvInit, QueueInvInit, ShmInvInit DEF Init
<1>2. SemInv /\ QueueInv /\ ShmInv => TypesOK
  <2>1. QueueInv => Msg!MsgTypeOK
    <3> SUFFICES ASSUME QueueInv PROVE Msg!MsgTypeOK
      OBVIOUS
    <3>1. MsgInv /\ MaxSend \in Nat
      BY IpcParameters DEF QueueInv
    <3>2. \A t \in Given : \A b : \A size \in Nat : Carries(b, size, t) => StrLen(b) < MaxSend
      BY <3>1, GivenAre, CarriesCut
    <3>3. ASSUME NEW i \in 1..Len(queue) PROVE StrLen(queue[i]) < MaxSend
      <4>1. sent[i] \in Given /\ Carries(queue[i], CutTo(MaxSend, sent[i]) + 1, sent[i])
        BY <3>1 DEF MsgInv
      <4>2. CutTo(MaxSend, sent[i]) + 1 \in Nat
        BY <4>1, GivenAre
      <4> QED
        BY <3>2, <4>1, <4>2
    <3>4. ASSUME NEW p \in Procs
          PROVE  DOMAIN szText[p] = 0..(MaxSend - 1) /\ StrLen(szText[p]) < MaxSend
      <4>1. arg[p] \in Given /\ Carries(szText[p], MaxSend, arg[p])
        BY <3>1 DEF MsgInv
      <4> QED
        BY <3>1, <3>2, <4>1 DEF Carries, IsText
    <3>5. Msg!Waiting <= QueueBytes /\ DOMAIN queue = 1..Len(queue)
      BY <3>1, WaitingIs DEF QueueInv, MsgInv
    <3> QED
      BY <3>1, <3>3, <3>4, <3>5, SameBuffers DEF Msg!MsgTypeOK, MsgInv
  <2>2. ShmInv => Shm!ShmTypeOK
    BY SameBuffers DEF ShmInv, ShmTypes, Shm!ShmTypeOK, Written
  <2>3. SemInv => Sem!SemTypeOK
    BY DEF SemInv
  <2> QED
    BY <2>1, <2>2, <2>3 DEF TypesOK
<1>3. SemInv /\ [Next]_vars => SemInv'
  BY SemInvStays
<1>4. QueueInv /\ [Next]_vars => QueueInv'
  BY QueueInvStays
<1>5. ShmInv /\ [Next]_vars => ShmInv'
  BY ShmInvStays
<1> QED
  BY <1>1, <1>2, <1>3, <1>4, <1>5, PTL DEF Spec

=============================================================================
