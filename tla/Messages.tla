------------------------------ MODULE Messages ------------------------------
(***************************************************************************)
(* PROCESS_MsgMain of process.c: a process started with -s puts a text     *)
(* into the message queue at the key, one started with -c takes one out    *)
(* and prints it.  A text that is too long is cut by strlcpy.  The queue   *)
(* stays in the kernel when a process ends; nothing ever removes it.       *)
(*                                                                         *)
(* The kernel's part: msgsnd waits while the queue holds too many bytes,   *)
(* msgrcv while it is empty; a message longer than the receiver's buffer   *)
(* stays in the queue and fails the msgrcv.                                *)
(***************************************************************************)
EXTENDS StringEx, Sequences, SequencesExt

CONSTANTS
  Procs,         \* terminals, in each of which one process runs after another
  Mortal,        \* the terminals whose process may be killed at any moment
  Texts,         \* the texts that are sent, as buffers that end in NUL
  MaxSend,       \* PROCESS_MAX_SEND, the size of szText
  QueueBytes     \* how many bytes the kernel lets wait in the queue

VARIABLES
  queue,         \* the messages in the queue, oldest first: the bytes sent
  pc,            \* pc[p]: the system call p makes next
  szText,        \* szText[p]: the text of p's stBuf
  arg,           \* history: arg[p] is the text p was given, or that the sender
                 \* of the message p received was given
  sent           \* history: the texts given to the senders of the messages

vars == <<queue, pc, szText, arg, sent>>

MsgInit ==
  /\ queue = <<>> /\ sent = <<>>
  /\ pc = [p \in Procs |-> "idle"]
  /\ szText = [p \in Procs |-> Zeroed(MaxSend)]
  /\ arg = [p \in Procs |-> NoBuffer]

Goto(p, s) == pc' = [pc EXCEPT ![p] = s]

\* The program ends.
Ends(p) ==
  /\ Goto(p, "idle")
  /\ szText' = [szText EXCEPT ![p] = Zeroed(MaxSend)]
  /\ arg' = [arg EXCEPT ![p] = NoBuffer]

-----------------------------------------------------------------------------
\* -s: without a text szArgv[2] is NULL and strlcpy leaves the buffer empty.
BeginSend(p) ==
  /\ pc[p] = "idle"
  /\ \E t \in Texts \cup {NoBuffer} :
        /\ arg' = [arg EXCEPT ![p] = t]
        /\ szText' = [szText EXCEPT ![p] = Strlcpy(Zeroed(MaxSend), t, MaxSend)]
  /\ Goto(p, "msgsnd")
  /\ UNCHANGED <<queue, sent>>

\* Faulty variant: one byte is subtracted where one has to be added.
MessageShort(b) == [i \in 0..(StrLen(b) - 2) |-> b[i]]

\* The bytes of the text and its NUL.
Message(b) == [i \in 0..StrLen(b) |-> b[i]]
Waiting == FoldSeq(LAMBDA m, n : Cardinality(DOMAIN m) + n, 0, queue)

Send(p) ==
  /\ pc[p] = "msgsnd"
  /\ Waiting + StrLen(szText[p]) + 1 <= QueueBytes
  /\ queue' = Append(queue, Message(szText[p]))
  /\ sent' = Append(sent, arg[p])
  /\ Ends(p)

-----------------------------------------------------------------------------
\* -c

BeginReceive(p) ==
  /\ pc[p] = "idle"
  /\ Goto(p, "msgrcv")
  /\ UNCHANGED <<queue, szText, arg, sent>>

\* A message that is too long makes p print the empty text of its zeroed buffer.
Receive(p) ==
  /\ pc[p] = "msgrcv" /\ queue # <<>>
  /\ LET m == Head(queue)
     IN  IF Cardinality(DOMAIN m) <= MaxSend
         THEN /\ szText' = [szText EXCEPT ![p] =
                              [i \in DOMAIN @ |-> IF i \in DOMAIN m THEN m[i] ELSE @[i]]]
              /\ arg' = [arg EXCEPT ![p] = Head(sent)]
              /\ queue' = Tail(queue) /\ sent' = Tail(sent)
         ELSE UNCHANGED <<szText, arg, queue, sent>>
  /\ Goto(p, "print")

PrintText(p) ==
  /\ pc[p] = "print"
  /\ Ends(p)
  /\ UNCHANGED <<queue, sent>>

\* The process is killed: what it had taken out of the queue is lost.
Killed(p) ==
  /\ p \in Mortal /\ pc[p] # "idle"
  /\ Ends(p)
  /\ UNCHANGED <<queue, sent>>

-----------------------------------------------------------------------------
MsgWork(p) == Send(p) \/ Receive(p) \/ PrintText(p)

MsgNext == \E p \in Procs : BeginSend(p) \/ BeginReceive(p) \/ Killed(p) \/ MsgWork(p)

MsgTypeOK ==
  /\ \A i \in DOMAIN queue : StrLen(queue[i]) < MaxSend
  /\ Waiting <= QueueBytes
  /\ pc \in [Procs -> {"idle", "msgsnd", "msgrcv", "print"}]
  /\ \A p \in Procs : /\ DOMAIN szText[p] = 0..(MaxSend - 1)
                      /\ StrLen(szText[p]) < MaxSend

\* The text t with what does not fit left out.
Cut(t) == [i \in 0..(Min({StrLen(t), MaxSend - 1}) - 1) |-> t[i]]

\* A receiver prints what the sender of its message was given, cut to what fits
\* between the buffers: nothing of another message, no character too many for
\* want of a NUL, and the messages that still wait are those sent, in order
\* (process.c:21-43).
ReceivedAsSent ==
  /\ Len(queue) = Len(sent)
  /\ \A i \in DOMAIN queue : TextOf(queue[i]) = Cut(sent[i])
  /\ \A p \in Procs : pc[p] = "print" => TextOf(szText[p]) = Cut(arg[p])

=============================================================================
