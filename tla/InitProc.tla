---- MODULE InitProc ----
(***************************************************************************)
(* The beginning and the end of the user processes: test() of              *)
(* Fase_3/initProc.c creates them and waits on Master_Sem for each;        *)
(* SIGKILL() of vmSupport.c, through which they all end, makes the V.      *)
(*                                                                         *)
(* SYS1 to SYS4 are those of Nucleus.  test() runs with interrupts enabled *)
(* and the processes run from their creation on.                           *)
(*                                                                         *)
(* An operator whose name ends in _slip is not part of the model: it is    *)
(* the operator after it with a plausible bug, against which a property is *)
(* tried.                                                                  *)
(***************************************************************************)
EXTENDS Integers, FiniteSets

CONSTANTS
  UPROCMAX, \* the user processes that test() creates
  MAXPROC   \* the PCBs of the nucleus, at most

ASSUME UprocAssumption == UPROCMAX \in Nat
ASSUME MaxprocAssumption == MAXPROC \in Nat \ {0}

UProc == 1 .. UPROCMAX

VARIABLES
  test,       \* what test() does, see Phase
  id,         \* the variable of its loops: the next process, or P, to come
  Master_Sem,
  uproc,      \* of every user process: how far it has come
  failed,     \* a SYS1 of InstantiateProc has failed
  free,       \* the PCBs in the list pcbFree_h
  lost        \* history: the V's that line 101 has undone

vars == <<test, id, Master_Sem, uproc, failed, free, lost>>

\* test() creates, is about to clear Master_Sem, does the next P, is blocked by
\* it, is about to terminate, or has.
Phase == {"create", "clear", "wait", "blocked", "end", "dead"}

\* Not created; in its program or in SIGKILL before the V; after the V.
Stage == {"none", "runs", "signalled", "dead"}

TypeOK ==
  /\ test \in Phase
  /\ id \in 1 .. UPROCMAX + 1
  /\ Master_Sem \in Int
  /\ uproc \in [UProc -> Stage]
  /\ failed \in BOOLEAN
  /\ free \in Nat
  /\ lost \in 0 .. UPROCMAX

\* The loader has cleared Master_Sem and test() has one of the PCBs.  Any number
\* of others up to MAXPROC - 1 stands for every size of the table.
Init ==
  /\ test = "create"
  /\ id = 1
  /\ Master_Sem = 0
  /\ uproc = [u \in UProc |-> "none"]
  /\ failed = FALSE
  /\ free \in 0 .. MAXPROC - 1
  /\ lost = 0

----------------------------------------------------------------------------
\* InstantiateProc(), when SYS1 finds a PCB.
InstantiateProc ==
  /\ test = "create"
  /\ id <= UPROCMAX
  /\ free > 0
  /\ uproc' = [uproc EXCEPT ![id] = "runs"]
  /\ free' = free - 1
  /\ id' = id + 1
  /\ UNCHANGED <<test, Master_Sem, failed, lost>>

\* InstantiateProc(), when it does not: SYS2 of test().
InstantiateFails ==
  /\ test = "create"
  /\ id <= UPROCMAX
  /\ free = 0
  /\ failed' = TRUE
  /\ test' = "end"
  /\ UNCHANGED <<id, Master_Sem, uproc, free, lost>>

\* All are created.
Created ==
  /\ test = "create"
  /\ id = UPROCMAX + 1
  /\ test' = "clear"
  /\ UNCHANGED <<id, Master_Sem, uproc, failed, free, lost>>

\* Line 101, and the start of the loop of P's.
ClearMaster_Sem ==
  /\ test = "clear"
  /\ lost' = Master_Sem
  /\ Master_Sem' = 0
  /\ id' = 1
  /\ test' = "wait"
  /\ UNCHANGED <<uproc, failed, free>>

\* Slip: the loop ends one P early.
LastP_slip == id = UPROCMAX

\* Slip: the loop makes one P too many.
LastP_late_slip == id = UPROCMAX + 2

\* The test of the loop of P's fails.
LastP == id = UPROCMAX + 1

\* One P on Master_Sem, which blocks test() when the value becomes negative.
Passeren ==
  /\ test = "wait"
  /\ ~LastP
  /\ Master_Sem' = Master_Sem - 1
  /\ id' = id + 1
  /\ test' = IF Master_Sem' < 0 THEN "blocked" ELSE "wait"
  /\ UNCHANGED <<uproc, failed, free, lost>>

Waited ==
  /\ test = "wait"
  /\ LastP
  /\ test' = "end"
  /\ UNCHANGED <<id, Master_Sem, uproc, failed, free, lost>>

\* Slip: the children of test() are left alone.
Orphans_slip == {}

\* Those that die with test().
Orphans == {u \in UProc : uproc[u] \in {"runs", "signalled"}}

\* SYS2 of test(): it and its children are killed.
Terminate ==
  /\ test = "end"
  /\ test' = "dead"
  /\ uproc' = [u \in UProc |-> IF u \in Orphans THEN "dead" ELSE uproc[u]]
  /\ free' = free + Cardinality(Orphans)
  /\ UNCHANGED <<id, Master_Sem, failed, lost>>

----------------------------------------------------------------------------
\* Slip: a V that finds test() blocked does not wake it.
Woken_slip == test

\* test() after a V on Master_Sem.
Woken == IF test = "blocked" THEN "wait" ELSE test

\* SIGKILL(): the V on Master_Sem.
Verhogen(u) ==
  /\ uproc[u] = "runs"
  /\ test # "dead"
  /\ Master_Sem' = Master_Sem + 1
  /\ uproc' = [uproc EXCEPT ![u] = "signalled"]
  /\ test' = Woken
  /\ UNCHANGED <<id, failed, free, lost>>

\* SIGKILL(): SYS2.
Termprocess(u) ==
  /\ uproc[u] = "signalled"
  /\ uproc' = [uproc EXCEPT ![u] = "dead"]
  /\ free' = free + 1
  /\ UNCHANGED <<test, id, Master_Sem, failed, lost>>

SIGKILL(u) == Verhogen(u) \/ Termprocess(u)

Test ==
  \/ InstantiateProc \/ InstantiateFails \/ Created \/ ClearMaster_Sem
  \/ Passeren \/ Waited \/ Terminate

AllGone == test = "dead" /\ \A u \in UProc : uproc[u] \in {"none", "dead"}

\* The nucleus executes HALT.
Halted == AllGone /\ UNCHANGED vars

\* A V that line 101 undid is missing: test() is blocked, and nobody is left to
\* wake it.
Forsaken == test = "blocked" /\ \A u \in UProc : uproc[u] = "dead"

Next == Test \/ (\E u \in UProc : SIGKILL(u)) \/ Halted \/ (Forsaken /\ UNCHANGED vars)

Spec == Init /\ [][Next]_vars

\* The nucleus runs every process that is ready (ReadyRuns of Nucleus); that
\* every user process ends is an assumption on its program.
FairSpec == Spec /\ WF_vars(Test) /\ \A u \in UProc : WF_vars(SIGKILL(u))
----------------------------------------------------------------------------
Signalled == {u \in UProc : uproc[u] \in {"signalled", "dead"}}

\* test() waits for all: unless a creation failed, it terminates, and takes its
\* children with it, only when every process has made its V.
TestLast == test = "end" /\ ~failed => Signalled = UProc

\* The V's and the P's on Master_Sem agree, and test() is blocked exactly while
\* there is one V too few.  A V before line 101 is worth nothing.
MasterLaw ==
  test \in {"wait", "blocked", "end"} /\ ~failed =>
    /\ Master_Sem = Cardinality(Signalled) - lost - (id - 1)
    /\ (test = "blocked") <=> (Master_Sem < 0)

\* A process that has not come to its end dies only after a failed creation.
OnlyFinishedDie ==
  [][\A u \in UProc : uproc[u] = "runs" /\ uproc'[u] = "dead" => failed]_vars

\* The end is handled: when all the processes end, test() does too, and the
\* machine halts; only a V that line 101 has undone makes test() wait for ever.
TestEnds == <>(AllGone \/ (lost > 0 /\ Forsaken))
====
