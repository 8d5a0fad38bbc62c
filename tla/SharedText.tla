----------------------------- MODULE SharedText -----------------------------
(***************************************************************************)
(* PROCESS_ShmMain of process.c: a process started with -w copies a text   *)
(* into the shared memory at the key, one started with -r prints the text  *)
(* there.  Nothing orders them.  strcpy may store its characters in any    *)
(* order; the reader goes from the first to the NUL.  The segment is zero  *)
(* at first and is never removed.                                          *)
(*                                                                         *)
(* Assumed: the texts fit (strcpy knows no bound, process.c:240).          *)
(***************************************************************************)
EXTENDS StringEx

CONSTANTS
  Procs,         \* terminals, in each of which one process runs after another
  Mortal,        \* the terminals whose process may be killed at any moment
  Texts,         \* the texts that are written, as buffers that end in NUL
  ShmSize        \* PROCESS_SHM_SIZE

VARIABLES
  exists,        \* somebody has created the segment
  shm,           \* its bytes
  pc,            \* pc[p]: what p does next
  job,           \* job[p]: the text p writes, NoBuffer if it reads
  todo,          \* todo[p]: the places p has not yet copied to
  got,           \* got[p]: the characters p has read, as a buffer
  alone,         \* history: no other has written since p began to
  shown,         \* history: the text somebody wrote last without another
                 \* writing meanwhile; Mixed if there is none
  expected       \* history: expected[p] is shown when p began to read; Mixed
                 \* once anybody has written since

vars == <<exists, shm, pc, job, todo, got, alone, shown, expected>>

Mixed == [i \in {-1} |-> "mixed"]
Empty == [i \in {0} |-> NUL]

ShmInit ==
  /\ exists = FALSE
  /\ shm = Zeroed(ShmSize)
  /\ pc = [p \in Procs |-> "idle"]
  /\ job = [p \in Procs |-> NoBuffer]
  /\ todo = [p \in Procs |-> {}]
  /\ got = [p \in Procs |-> NoBuffer]
  /\ alone = [p \in Procs |-> FALSE]
  /\ shown = Empty
  /\ expected = [p \in Procs |-> Mixed]

Goto(p, s) == pc' = [pc EXCEPT ![p] = s]
Writers == {p \in Procs : pc[p] = "write"}

-----------------------------------------------------------------------------
\* Process_ShmOpen and Process_ShmMap: the first shmget wants to create the
\* segment, the second finds one that is there.

ShmStart(p) ==
  /\ pc[p] = "idle"
  /\ \E j \in Texts \cup {NoBuffer} : job' = [job EXCEPT ![p] = j]
  /\ Goto(p, "create")
  /\ UNCHANGED <<exists, shm, todo, got, alone, shown, expected>>

Create(p) ==
  /\ pc[p] = "create"
  /\ exists' = TRUE
  /\ Goto(p, IF exists THEN "get" ELSE "map")
  /\ UNCHANGED <<shm, job, todo, got, alone, shown, expected>>

Get(p) ==
  /\ pc[p] = "get" /\ exists
  /\ Goto(p, "map")
  /\ UNCHANGED <<exists, shm, job, todo, got, alone, shown, expected>>

\* Mapped, p begins to copy or to read.
BeginWrite(p) ==
  /\ pc[p] = "map" /\ job[p] # NoBuffer
  /\ todo' = [todo EXCEPT ![p] = 0..StrLen(job[p])]
  /\ alone' = [q \in Procs |-> q = p /\ Writers = {}]
  /\ shown' = Mixed
  /\ expected' = [q \in Procs |-> Mixed]
  /\ Goto(p, "write")
  /\ UNCHANGED <<exists, shm, job, got>>

BeginRead(p) ==
  /\ pc[p] = "map" /\ job[p] = NoBuffer
  /\ expected' = [expected EXCEPT ![p] = shown]
  /\ Goto(p, "read")
  /\ UNCHANGED <<exists, shm, job, todo, got, alone, shown>>

-----------------------------------------------------------------------------
\* Faulty variant: the NUL is not copied.
WriteNoNul(p, i) ==
  /\ pc[p] = "write" /\ i \in todo[p]
  /\ shm' = IF job[p][i] = NUL THEN shm ELSE [shm EXCEPT ![i] = job[p][i]]
  /\ todo' = [todo EXCEPT ![p] = @ \ {i}]
  /\ UNCHANGED <<exists, pc, job, got, alone, shown, expected>>

\* Process_ShmWrite: strcpy stores one character.
Write(p, i) ==
  /\ pc[p] = "write" /\ i \in todo[p]
  /\ shm' = [shm EXCEPT ![i] = job[p][i]]
  /\ todo' = [todo EXCEPT ![p] = @ \ {i}]
  /\ UNCHANGED <<exists, pc, job, got, alone, shown, expected>>

EndWrite(p) ==
  /\ pc[p] = "write" /\ todo[p] = {}
  /\ shown' = IF alone[p] THEN job[p] ELSE shown
  /\ job' = [job EXCEPT ![p] = NoBuffer]
  /\ alone' = [alone EXCEPT ![p] = FALSE]
  /\ Goto(p, "idle")
  /\ UNCHANGED <<exists, shm, todo, got, expected>>

\* Process_ShmRead: one character after the other, up to the NUL.
Read(p) ==
  LET i == Cardinality(DOMAIN got[p])
  IN  /\ pc[p] = "read"
      /\ got' = [got EXCEPT ![p] = [j \in 0..i |-> IF j = i THEN shm[i] ELSE @[j]]]
      /\ Goto(p, IF shm[i] = NUL \/ i = ShmSize - 1 THEN "print" ELSE "read")
      /\ UNCHANGED <<exists, shm, job, todo, alone, shown, expected>>

\* The program ends, and forgets what it had.
Leave(p) ==
  /\ job' = [job EXCEPT ![p] = NoBuffer]
  /\ todo' = [todo EXCEPT ![p] = {}]
  /\ got' = [got EXCEPT ![p] = NoBuffer]
  /\ alone' = [alone EXCEPT ![p] = FALSE]
  /\ expected' = [expected EXCEPT ![p] = Mixed]
  /\ Goto(p, "idle")
  /\ UNCHANGED <<exists, shm, shown>>

PrintText(p) == pc[p] = "print" /\ Leave(p)

\* The process is killed; what it wrote stays.
Killed(p) == p \in Mortal /\ pc[p] # "idle" /\ Leave(p)

-----------------------------------------------------------------------------
ShmNext ==
  \E p \in Procs :
     \/ ShmStart(p) \/ Create(p) \/ Get(p)
     \/ BeginWrite(p) \/ (\E i \in todo[p] : Write(p, i)) \/ EndWrite(p)
     \/ BeginRead(p) \/ Read(p) \/ PrintText(p) \/ Killed(p)

ShmTypeOK ==
  /\ exists \in BOOLEAN
  /\ DOMAIN shm = 0..(ShmSize - 1)
  /\ pc \in [Procs -> {"idle", "create", "get", "map", "write", "read", "print"}]
  /\ alone \in [Procs -> BOOLEAN]
  /\ \A p \in Procs : /\ job[p] \in Texts \cup {NoBuffer}
                      /\ todo[p] \subseteq 0..(ShmSize - 1)
                      /\ todo[p] # {} => pc[p] = "write"

\* Without synchronisation a reader may print half of a text.  What it prints
\* is whole when nobody writes meanwhile and the last text there was written
\* with nobody else at it: the text before, which may be longer, does not show
\* behind it (process.c:238-252).
WholeRead ==
  \A p \in Procs :
     pc[p] = "print" /\ expected[p] # Mixed => TextOf(got[p]) = TextOf(expected[p])

=============================================================================
