----------------------------- MODULE Semaphores -----------------------------
(***************************************************************************)
(* PROCESS_SemMain of process.c: a process started with -w creates the     *)
(* semaphore at the key, waits until its value is 0 and removes it; one    *)
(* started with -c opens the semaphore and lowers its value by one.  Each  *)
(* step is one system call.  No result is looked at: a call that failed    *)
(* prints its error, and the functions behind it run on with the           *)
(* identifier -1, with which every one of them fails in turn.              *)
(*                                                                         *)
(* The kernel's part: there is at most one set at the key; a new one has   *)
(* the value 0; identifiers are not given out again, so that a process     *)
(* may hold one that leads nowhere; removing a set fails every operation   *)
(* that is blocked on it.                                                  *)
(***************************************************************************)
EXTENDS Naturals

CONSTANTS
  Procs,         \* terminals, in each of which one process runs after another
  MaxSets,       \* bound: how many sets are created
  Mortal         \* the terminals whose process may be killed at any moment

VARIABLES
  semId,         \* the identifier of the set at the key, NoSet if there is none
  semVal,        \* its value
  made,          \* the identifiers given out so far are 1..made
  pc,            \* pc[p]: the system call p makes next
  iSemId,        \* iSemId[p]: the identifier p works with, NoSet for -1
  continued,     \* history: the sets whose value a continue has lowered
  orphaned       \* history: the sets whose creator was killed

vars == <<semId, semVal, made, pc, iSemId, continued, orphaned>>

NoSet == 0

\* Faulty variant: more continues are needed than one.
SemMaxTwo == 2
PROCESS_SEM_MAX == 1

SemInit ==
  /\ semId = NoSet /\ semVal = 0 /\ made = 0
  /\ pc = [p \in Procs |-> "idle"]
  /\ iSemId = [p \in Procs |-> NoSet]
  /\ continued = {} /\ orphaned = {}

Goto(p, s) == pc' = [pc EXCEPT ![p] = s]

\* p's identifier leads to a set.
Valid(p) == iSemId[p] # NoSet /\ iSemId[p] = semId

-----------------------------------------------------------------------------
\* -w

\* Process_SemCreate: semget with IPC_CREAT | IPC_EXCL.
Create(p) ==
  /\ pc[p] = "idle" /\ made < MaxSets
  /\ IF semId = NoSet
     THEN /\ made' = made + 1
          /\ semId' = made + 1 /\ semVal' = 0
          /\ iSemId' = [iSemId EXCEPT ![p] = made + 1]
          /\ Goto(p, "setval")
     ELSE /\ iSemId' = [iSemId EXCEPT ![p] = NoSet]
          /\ Goto(p, "wait")
          /\ UNCHANGED <<semId, semVal, made>>
  /\ UNCHANGED <<continued, orphaned>>

\* Faulty variant: the value is left as the kernel initialised it.
SetValForgotten(p) ==
  /\ pc[p] = "setval"
  /\ Goto(p, "wait")
  /\ UNCHANGED <<semId, semVal, made, iSemId, continued, orphaned>>

\* Process_SemCreate: semctl with SETVAL.
SetVal(p) ==
  /\ pc[p] = "setval"
  /\ semVal' = IF Valid(p) THEN PROCESS_SEM_MAX ELSE semVal
  /\ Goto(p, "wait")
  /\ UNCHANGED <<semId, made, iSemId, continued, orphaned>>

\* Process_SemWait: the operation 0 blocks until the value is 0.
Wait(p) ==
  /\ pc[p] = "wait"
  /\ Valid(p) => semVal = 0
  /\ Goto(p, "delete")
  /\ UNCHANGED <<semId, semVal, made, iSemId, continued, orphaned>>

\* Faulty variant: the set stays.
DeleteForgotten(p) ==
  /\ pc[p] = "delete"
  /\ iSemId' = [iSemId EXCEPT ![p] = NoSet]
  /\ Goto(p, "idle")
  /\ UNCHANGED <<semId, semVal, made, continued, orphaned>>

\* Process_SemDelete.
Delete(p) ==
  /\ pc[p] = "delete"
  /\ semId' = IF Valid(p) THEN NoSet ELSE semId
  /\ semVal' = IF Valid(p) THEN 0 ELSE semVal
  /\ iSemId' = [iSemId EXCEPT ![p] = NoSet]
  /\ Goto(p, "idle")
  /\ UNCHANGED <<made, continued, orphaned>>

-----------------------------------------------------------------------------
\* -c

\* Process_SemOpen.
Open(p) ==
  /\ pc[p] = "idle"
  /\ iSemId' = [iSemId EXCEPT ![p] = semId]
  /\ Goto(p, "continue")
  /\ UNCHANGED <<semId, semVal, made, continued, orphaned>>

\* Process_SemContinue: the operation -1 blocks while the value is 0.
Continue(p) ==
  /\ pc[p] = "continue"
  /\ IF Valid(p)
     THEN /\ semVal > 0
          /\ semVal' = semVal - 1
          /\ continued' = continued \cup {semId}
     ELSE UNCHANGED <<semVal, continued>>
  /\ iSemId' = [iSemId EXCEPT ![p] = NoSet]
  /\ Goto(p, "idle")
  /\ UNCHANGED <<semId, made, orphaned>>

\* The process is killed; the set stays in the kernel.
Killed(p) ==
  /\ p \in Mortal
  /\ pc[p] # "idle"
  /\ orphaned' = IF pc[p] = "continue" \/ iSemId[p] = NoSet
                 THEN orphaned ELSE orphaned \cup {iSemId[p]}
  /\ iSemId' = [iSemId EXCEPT ![p] = NoSet]
  /\ Goto(p, "idle")
  /\ UNCHANGED <<semId, semVal, made, continued>>

-----------------------------------------------------------------------------
SemWork(p) == SetVal(p) \/ Wait(p) \/ Delete(p) \/ Continue(p)

SemNext == \E p \in Procs : Create(p) \/ Open(p) \/ Killed(p) \/ SemWork(p)

\* Programs that were started run on; nobody has to start one or kill it.
SemFairness == \A p \in Procs : WF_vars(SemWork(p))

-----------------------------------------------------------------------------
SemTypeOK ==
  /\ made \in 0..MaxSets /\ semId \in 0..made
  /\ semVal \in 0..PROCESS_SEM_MAX
  /\ pc \in [Procs -> {"idle", "setval", "wait", "delete", "continue"}]
  /\ iSemId \in [Procs -> 0..made]
  /\ continued \subseteq 1..made /\ orphaned \subseteq 1..made

\* A process that created its semaphore passes its wait only when a continue
\* has come for that very set: it does not slip through between the creation of
\* the set, whose value is 0 then, and the SETVAL (process.c:98-101, 128), and
\* no continue that was meant for an earlier set lets it go.
ReleasedByContinue ==
  \A p \in Procs : pc[p] = "delete" /\ iSemId[p] # NoSet => iSemId[p] \in continued

\* One continue is enough: the process it came for gets on, whatever others are
\* started or killed meanwhile (process.c:84, 152).
ContinueReleases ==
  \A p \in Procs :
     pc[p] = "wait" /\ iSemId[p] \in continued ~> pc[p] # "wait"

\* A continue returns, also one that came too early, too late or second: what
\* it blocks on is initialised or removed in the end, unless the one who would
\* do that was killed (process.c:115, 157).
ContinueReturns ==
  \A p \in Procs : pc[p] = "continue" ~> pc[p] = "idle" \/ semId \in orphaned

=============================================================================
