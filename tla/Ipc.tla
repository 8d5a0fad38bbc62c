-------------------------------- MODULE Ipc ---------------------------------
(***************************************************************************)
(* The three demonstrations of process.c.  Each has a kernel object of its *)
(* own at a key of its own (ftok with 's', 'm' and 'S'), so that processes *)
(* of different ones share nothing: in a behaviour the terminals run one   *)
(* of them, whichever it is.                                               *)
(***************************************************************************)
EXTENDS Naturals

CONSTANTS
  Procs,         \* the terminals
  ShmProcs,      \* those of them that run PROCESS_ShmMain
  Mortal,        \* those whose process may be killed
  MaxSets,       \* bound: semaphore sets that are created
  Chars,         \* the characters of the texts
  MaxSend,       \* PROCESS_MAX_SEND; texts of this length do not fit
  QueueBytes,    \* the size of the message queue
  ShmSize        \* PROCESS_SHM_SIZE; texts are shorter

ASSUME IpcParameters ==
  /\ ShmProcs \subseteq Procs /\ Mortal \subseteq Procs
  /\ {MaxSets, MaxSend, QueueBytes, ShmSize} \subseteq Nat
  /\ MaxSend > 0 /\ QueueBytes >= MaxSend /\ ShmSize > 0

VARIABLES
  demo,                                                      \* which one runs
  semId, semVal, made, semPc, iSemId, continued, orphaned,   \* Semaphores
  queue, msgPc, szText, arg, sent,                           \* Messages
  exists, shm, shmPc, job, todo, got, alone, shown, expected \* SharedText

semVars == <<semId, semVal, made, semPc, iSemId, continued, orphaned>>
msgVars == <<queue, msgPc, szText, arg, sent>>
shmVars == <<exists, shm, shmPc, job, todo, got, alone, shown, expected>>
vars == <<demo, semVars, msgVars, shmVars>>

\* The texts of up to n characters, with their NUL.
TextsUpTo(n) ==
  {[i \in 0..l |-> IF i = l THEN "nul" ELSE c[i]] :
      l \in 0..n, c \in [0..(n - 1) -> Chars]}

Sem == INSTANCE Semaphores WITH pc <- semPc
Msg == INSTANCE Messages WITH pc <- msgPc, Texts <- TextsUpTo(MaxSend)
Shm == INSTANCE SharedText WITH pc <- shmPc, Procs <- ShmProcs,
         Mortal <- Mortal \cap ShmProcs, Texts <- TextsUpTo(ShmSize - 1)

Init ==
  /\ demo \in {"semaphore", "message", "shared"}
  /\ Sem!SemInit /\ Msg!MsgInit /\ Shm!ShmInit

Next ==
  /\ UNCHANGED demo
  /\ \/ demo = "semaphore" /\ Sem!SemNext /\ UNCHANGED <<msgVars, shmVars>>
     \/ demo = "message" /\ Msg!MsgNext /\ UNCHANGED <<semVars, shmVars>>
     \/ demo = "shared" /\ Shm!ShmNext /\ UNCHANGED <<semVars, msgVars>>

Spec == Init /\ [][Next]_vars /\ Sem!SemFairness

-----------------------------------------------------------------------------
\* The kernel objects and the processes keep their types.
TypesOK == Sem!SemTypeOK /\ Msg!MsgTypeOK /\ Shm!ShmTypeOK

\* A process that waits for its semaphore passes only when a continue came for
\* it (process.c:98-101, 128).
ReleasedByContinue == Sem!ReleasedByContinue

\* One continue lets the waiting process get on (process.c:84, 152).
ContinueReleases == Sem!ContinueReleases

\* A continue returns unless the process that would set up or remove the
\* semaphore was killed (process.c:115, 157).
ContinueReturns == Sem!ContinueReturns

\* What a process receives is what another sent, cut to what fits
\* (process.c:21-43).
ReceivedAsSent == Msg!ReceivedAsSent

\* A read that no write overlaps prints the last text whole, and a shorter text
\* hides the rest of a longer one (process.c:238-252).
WholeRead == Shm!WholeRead

=============================================================================
