---- MODULE Nucleus ----
(***************************************************************************)
(* The PandOS nucleus: scheduler.c, exceptions.c and interrupts.c of       *)
(* Fase_2, over the PCB lists and the active semaphore list of Fase_1,     *)
(* together with the processes that call it and the devices that interrupt *)
(* it.                                                                     *)
(*                                                                         *)
(* One CPU; the nucleus runs with interrupts masked, so an exception is    *)
(* one action from its entry to the LDST or the WAIT that ends it.  The    *)
(* exception is SYS2: killprocT is a recursion, and each of its calls is   *)
(* an action of its own, on the stack killStack, while mode = "kill".      *)
(*                                                                         *)
(* An operator whose name ends in _slip is not part of the model: it is    *)
(* the operator after it with a plausible bug, against which a property is *)
(* tried.                                                                  *)
(***************************************************************************)
EXTENDS Integers, Sequences, FiniteSets, PcbQueue

CONSTANTS
  Pcb,             \* the MAXPROC process control blocks
  NSemd,           \* free semaphore descriptors that initASL makes
  UserSem,         \* semaphores that processes pass to SYS3 and SYS4
  Dev,             \* sub-devices of interrupt lines 3 to 6
  Term,            \* terminals, line 7: two sub-devices each
  Clock,           \* sem[MAX_SUB_DEV - 1], the pseudo-clock
  NULL,
  AfterSem,        \* the int that the linker placed after sem[MAX_SUB_DEV - 1]
  MaskedIO,        \* do processes mask interrupts from a command to its SYS5?
  SharedTerminals, \* may a terminal receive and transmit at the same time?
  MaxSem,          \* bound: SYS4 up to this value of a semaphore
  MaxSoft          \* bound: SYS7 up to this value of SoftBlocked

SubDev == Dev \cup (Term \X {"recv", "transm"})
DevSem == SubDev \cup {Clock}
Sem    == UserSem \cup DevSem

ASSUME PcbAssumption ==
  IsFiniteSet(Pcb) /\ Pcb # {} /\ NULL \notin Pcb /\ NULL \notin Sem
ASSUME SemAssumption ==
  UserSem \cap DevSem = {} /\ Clock \notin SubDev
\* A sub-device is of a line from 3 to 6 or of a terminal, never of both.
ASSUME DevAssumption == Dev \cap (Term \X {"recv", "transm"}) = {}
\* semd_table has MAXPROC descriptors besides the two sentinels.
ASSUME SemdAssumption == NSemd \in Nat /\ NSemd >= Cardinality(Pcb)
ASSUME LayoutAssumption == AfterSem \in {"other", "SoftBlocked", "ProcCount"}
ASSUME ClientAssumption == MaskedIO \in BOOLEAN /\ SharedTerminals \in BOOLEAN
ASSUME BoundAssumption == MaxSem \in Nat /\ MaxSoft \in Nat

VARIABLES
  mode,        \* what the CPU does, see Mode
  CurrProc,    \* the running process or NULL
  R_Queue,     \* the ready queue
  pcbFree,     \* the PCBs of the list pcbFree_h
  ProcCount,   \* processes started and not terminated
  SoftBlocked, \* of them, those waiting for a device or for the clock
  semVal,      \* the value of every semaphore
  procQ,       \* s_procQ of its descriptor, <<>> when it has none
  p_semAdd,    \* the semaphore a process is blocked on, or NULL
  p_child,     \* the child list of every PCB
  p_prnt,      \* the parent of every PCB
  killStack,   \* the calls of killprocT in progress, the latest last
  devReg,      \* the status of every sub-device
  cmd          \* the sub-device a process has commanded and not yet waited for

kernel == <<ProcCount, SoftBlocked, pcbFree, p_child, p_prnt, killStack>>
queues == <<mode, CurrProc, R_Queue>>
sems   == <<semVal, procQ, p_semAdd>>
io     == <<devReg, cmd>>
vars   == <<kernel, queues, sems, io>>

\* A process runs, killprocT runs, the CPU waits for an interrupt, or HALT or
\* PANIC was executed; or else scheduler() returned to its caller.
Mode    == {"run", "kill", "idle", "halt", "panic", "returned"}
Stopped == mode \in {"halt", "panic", "returned"}

TypeOK ==
  /\ mode \in Mode
  /\ CurrProc \in Pcb \cup {NULL}
  /\ R_Queue \in Seq(Pcb)
  /\ pcbFree \subseteq Pcb
  /\ ProcCount \in Int
  /\ SoftBlocked \in Int
  /\ semVal \in [Sem -> Int]
  /\ procQ \in [Sem -> Seq(Pcb)]
  /\ p_semAdd \in [Pcb -> Sem \cup {NULL}]
  /\ p_child \in [Pcb -> Seq(Pcb)]
  /\ p_prnt \in [Pcb -> Pcb \cup {NULL}]
  /\ killStack \in Seq(Pcb)
  /\ devReg \in [SubDev -> {"ready", "busy", "done"}]
  /\ cmd \in [Pcb -> SubDev \cup {NULL}]

\* main(): the first process, which runs test(), has been dispatched.  The
\* semaphores of the processes start at 0 or 1.
Init ==
  /\ mode = "run"
  /\ CurrProc \in Pcb
  /\ R_Queue = <<>>
  /\ pcbFree = Pcb \ {CurrProc}
  /\ ProcCount = 1
  /\ SoftBlocked = 0
  /\ semVal \in [Sem -> {0, 1}]
  /\ \A s \in DevSem : semVal[s] = 0
  /\ procQ = [s \in Sem |-> <<>>]
  /\ p_semAdd = [p \in Pcb |-> NULL]
  /\ p_child = [p \in Pcb |-> <<>>]
  /\ p_prnt = [p \in Pcb |-> NULL]
  /\ killStack = <<>>
  /\ devReg = [d \in SubDev |-> "ready"]
  /\ cmd = [p \in Pcb |-> NULL]

----------------------------------------------------------------------------
\* Slip: PANIC is tested before the processes that wait for an interrupt.
NothingReady_slip(count, soft) == IF count = 0 THEN "halt" ELSE "panic"

\* What scheduler() does with an empty ready queue: HALT, WAIT for a device or
\* a timer, PANIC, or none of them.
NothingReady(count, soft) ==
  CASE count = 0              -> "halt"
    [] count > 0 /\ soft > 0  -> "idle"
    [] count > 0 /\ soft = 0  -> "panic"
    [] OTHER                  -> "returned"

\* scheduler(), called with this ready queue and these counters.
scheduler(ready, count, soft) ==
  /\ CurrProc' = HeadProcQ(ready, NULL)
  /\ R_Queue' = RemoveProcQ(ready)
  /\ mode' = IF ready # <<>> THEN "run" ELSE NothingReady(count, soft)

\* Slip: the handler forgets to call scheduler() when no process was running.
resume_slip(ready, soft) == R_Queue' = ready /\ UNCHANGED <<CurrProc, mode>>

\* The end of an interrupt handler: back to the interrupted process, if any.
resume(ready, soft) ==
  IF CurrProc = NULL
  THEN scheduler(ready, ProcCount, soft)
  ELSE R_Queue' = ready /\ UNCHANGED <<CurrProc, mode>>

\* The semaphores with a descriptor in the active list.
Active == {s \in Sem : procQ[s] # <<>>}

\* Slip: initASL stops one descriptor early.
HasDescriptor_slip(s) == procQ[s] # <<>> \/ Cardinality(Active) < NSemd - 1

\* s has a descriptor, or the list semdFree_h has one for it.
HasDescriptor(s) == procQ[s] # <<>> \/ Cardinality(Active) < NSemd

\* insertBlocked(): p goes to the queue of s, unless there is no descriptor for
\* s; the callers ignore that result.
insertBlocked(s, p) ==
  IF HasDescriptor(s)
  THEN /\ procQ' = [procQ EXCEPT ![s] = InsertProcQ(@, p)]
       /\ p_semAdd' = [p_semAdd EXCEPT ![p] = s]
  ELSE UNCHANGED <<procQ, p_semAdd>>

\* removeBlocked(): the first process blocked on s, if any, leaves its queue,
\* and a queue that is empty leaves its descriptor.
removeBlocked(s) ==
  /\ procQ' = [procQ EXCEPT ![s] = RemoveProcQ(@)]
  /\ p_semAdd' = [p \in Pcb |-> IF p = HeadProcQ(procQ[s], NULL)
                                THEN NULL ELSE p_semAdd[p]]

\* outBlocked(): p leaves the queue of the semaphore it is blocked on, if any.
outBlocked(p) ==
  /\ procQ' = [s \in Sem |-> IF s = p_semAdd[p] THEN OutProcQ(procQ[s], p)
                             ELSE procQ[s]]
  /\ p_semAdd' = [p_semAdd EXCEPT ![p] = NULL]

\* A V on s.
V(s) == semVal' = [semVal EXCEPT ![s] = @ + 1] /\ removeBlocked(s)

\* Slip: what removeBlocked returns is not compared with NULL.
ReadyAfterV_slip(s) == InsertProcQ(R_Queue, HeadProcQ(procQ[s], NULL))

\* The ready queue with the woken process, if any.
ReadyAfterV(s) ==
  IF procQ[s] = <<>> THEN R_Queue ELSE InsertProcQ(R_Queue, Head(procQ[s]))

----------------------------------------------------------------------------
\* The system calls of the running process.  After a command to a device its
\* next call is the SYS5 for it.
Calls == mode = "run" /\ cmd[CurrProc] = NULL

\* SYS1, when there is a free PCB: without one it returns NOPROC and changes
\* nothing here.  Any free PCB stands for the head of pcbFree_h.
SYS1_CP ==
  /\ Calls
  /\ \E p \in pcbFree :
       /\ pcbFree' = pcbFree \ {p}
       /\ R_Queue' = InsertProcQ(R_Queue, p)
       /\ p_child' = [p_child EXCEPT ![p] = <<>>, ![CurrProc] = InsertChild(@, p)]
       /\ p_prnt' = [p_prnt EXCEPT ![p] = CurrProc]
       /\ p_semAdd' = [p_semAdd EXCEPT ![p] = NULL]
  /\ ProcCount' = ProcCount + 1
  /\ UNCHANGED <<mode, CurrProc, SoftBlocked, semVal, procQ, killStack, io>>

\* SYS2, also the end of a process without support structure at a trap
\* (PassUporDie): outChild, then the first call of killprocT.
SYS2_TP ==
  /\ Calls
  /\ p_child' = [q \in Pcb |-> IF q = p_prnt[CurrProc]
                               THEN Unlink(p_child[q], CurrProc) ELSE p_child[q]]
  /\ killStack' = <<CurrProc>>
  /\ mode' = "kill"
  /\ UNCHANGED <<CurrProc, R_Queue, ProcCount, SoftBlocked, pcbFree, p_prnt,
                 sems, io>>

Victim == killStack[Len(killStack)]

\* killprocT: while it has children, remove the first one and kill it first.
KillChild ==
  /\ mode = "kill"
  /\ p_child[Victim] # <<>>
  /\ killStack' = Append(killStack, Head(p_child[Victim]))
  /\ p_child' = [p_child EXCEPT ![Victim] = RemoveProcQ(@)]
  /\ UNCHANGED <<ProcCount, SoftBlocked, pcbFree, p_prnt, queues, sems, io>>

\* Slip: killprocT takes every blocked process for a soft-blocked one.
IsDevSem_slip(s) == s # NULL

\* Slip: the last semaphore of sem[] is left out.
IsDevSem_range_slip(s) == s \in SubDev

\* The test of killprocT for an address within sem[].
IsDevSem(s) == s \in DevSem

\* killprocT of a process without children, and its return; the outermost one
\* returns to SYS2_TP, which calls scheduler().
KillFree ==
  LET p     == Victim
      s     == p_semAdd[p]
      ready == OutProcQ(R_Queue, p)
      soft  == IF IsDevSem(s) THEN SoftBlocked - 1 ELSE SoftBlocked
  IN  /\ mode = "kill"
      /\ p_child[p] = <<>>
      /\ SoftBlocked' = soft
      /\ semVal' = [x \in Sem |-> IF x = s /\ ~IsDevSem(s)
                                  THEN semVal[x] + 1 ELSE semVal[x]]
      /\ outBlocked(p)
      /\ pcbFree' = pcbFree \cup {p}
      /\ ProcCount' = ProcCount - 1
      /\ killStack' = SubSeq(killStack, 1, Len(killStack) - 1)
      /\ cmd' = [cmd EXCEPT ![p] = NULL]
      /\ IF Len(killStack) = 1
         THEN scheduler(ready, ProcCount - 1, soft)
         ELSE R_Queue' = ready /\ UNCHANGED <<CurrProc, mode>>
      /\ UNCHANGED <<p_child, p_prnt, devReg>>

\* SYS3: the caller blocks when the value has become negative.
SYS3_P(s) ==
  /\ Calls
  /\ semVal' = [semVal EXCEPT ![s] = @ - 1]
  /\ \/ /\ semVal[s] - 1 < 0
        /\ insertBlocked(s, CurrProc)
        /\ scheduler(R_Queue, ProcCount, SoftBlocked)
     \/ /\ semVal[s] - 1 >= 0
        /\ UNCHANGED <<queues, procQ, p_semAdd>>
  /\ UNCHANGED <<kernel, io>>

\* SYS4: the caller goes on.
SYS4_V(s) ==
  /\ Calls
  /\ semVal[s] < MaxSem
  /\ V(s)
  /\ R_Queue' = ReadyAfterV(s)
  /\ UNCHANGED <<mode, CurrProc, kernel, io>>

\* SYS5: the caller blocks whatever the value of the device's semaphore.
SYS5_W_IO(d) ==
  /\ mode = "run"
  /\ cmd[CurrProc] = d
  /\ SoftBlocked' = SoftBlocked + 1
  /\ semVal' = [semVal EXCEPT ![d] = @ - 1]
  /\ insertBlocked(d, CurrProc)
  /\ cmd' = [cmd EXCEPT ![CurrProc] = NULL]
  /\ scheduler(R_Queue, ProcCount, SoftBlocked + 1)
  /\ UNCHANGED <<ProcCount, pcbFree, p_child, p_prnt, killStack, devReg>>

\* Slip: the decrement always reaches ProcCount.
Clobbered_slip(name, value) == IF name = "ProcCount" THEN value - 1 ELSE value

\* Slip: the decrement reaches neither counter.
Clobbered_leak_slip(name, value) == value

\* What is left of a counter after the decrement of sem[MAX_SUB_DEV].
Clobbered(name, value) == IF AfterSem = name THEN value - 1 ELSE value

\* SYS7: SoftBlocked counts twice, the decrement hits the int after sem[], and
\* the caller blocks on the last semaphore of sem[], whose value stays.
SYS7_W_CLK ==
  /\ Calls
  /\ SoftBlocked + 2 <= MaxSoft
  /\ SoftBlocked' = Clobbered("SoftBlocked", SoftBlocked + 2)
  /\ ProcCount' = Clobbered("ProcCount", ProcCount)
  /\ insertBlocked(Clock, CurrProc)
  /\ scheduler(R_Queue, ProcCount', SoftBlocked')
  /\ UNCHANGED <<semVal, pcbFree, p_child, p_prnt, killStack, io>>

----------------------------------------------------------------------------
\* The devices and their users.  A user gives a command to a device that is
\* ready and that nobody else uses, as the mutexes of Fase_3 ensure.
Other(d) == IF d \in Dev THEN d
            ELSE <<d[1], IF d[2] = "recv" THEN "transm" ELSE "recv">>
Free(d)  == devReg[d] = "ready" /\ \A p \in Pcb : cmd[p] # d

Command(d) ==
  /\ Calls
  /\ Free(d)
  /\ SharedTerminals \/ Free(Other(d))
  /\ cmd' = [cmd EXCEPT ![CurrProc] = d]
  /\ devReg' = [devReg EXCEPT ![d] = "busy"]
  /\ UNCHANGED <<kernel, queues, sems>>

\* The operation ends; a completion during an exception is seen after it.
DeviceDone(d) ==
  /\ mode \in {"run", "idle"}
  /\ devReg[d] = "busy"
  /\ devReg' = [devReg EXCEPT ![d] = "done"]
  /\ UNCHANGED <<kernel, queues, sems, cmd>>

----------------------------------------------------------------------------
\* Slip: the mask of the running process is ignored.
Interruptible_slip == mode \in {"run", "idle"}

\* The interrupts.  getInterruptLine serves the lowest pending line only.
Interruptible ==
  \/ mode = "idle"
  \/ mode = "run" /\ ~(MaskedIO /\ cmd[CurrProc] # NULL)

\* Line 1, the processor local timer: the end of a time slice.
PLT ==
  /\ Interruptible
  /\ mode = "run"
  /\ scheduler(InsertProcQ(R_Queue, CurrProc), ProcCount, SoftBlocked)
  /\ UNCHANGED <<kernel, sems, io>>

\* Line 2, the interval timer: everybody who waits for the clock is ready.
IntervalTimer ==
  LET soft == SoftBlocked - Len(procQ[Clock])
  IN  /\ Interruptible
      /\ SoftBlocked' = soft
      /\ procQ' = [procQ EXCEPT ![Clock] = <<>>]
      /\ p_semAdd' = [p \in Pcb |-> IF p \in Range(procQ[Clock])
                                    THEN NULL ELSE p_semAdd[p]]
      /\ semVal' = [semVal EXCEPT ![Clock] = 0]
      /\ resume(R_Queue \o procQ[Clock], soft)
      /\ UNCHANGED <<ProcCount, pcbFree, p_child, p_prnt, killStack, io>>

\* Non_T_Int, once it knows the sub-device: ACK, a V on its semaphore, and one
\* soft-blocked process less if that woke one.  An ACK does not end an
\* operation in progress.
Non_T_Int(d) ==
  LET soft == IF procQ[d] = <<>> THEN SoftBlocked ELSE SoftBlocked - 1
  IN  /\ devReg' = [devReg EXCEPT ![d] = IF @ = "busy" THEN @ ELSE "ready"]
      /\ V(d)
      /\ SoftBlocked' = soft
      /\ resume(ReadyAfterV(d), soft)
      /\ UNCHANGED <<ProcCount, pcbFree, p_child, p_prnt, killStack, cmd>>

\* Slip: the status of the device is read instead of the bit map.
Pending_slip(d) == devReg[d] # "ready"

\* The bit of a sub-device in the map of the interrupting devices.
Pending(d) == devReg[d] = "done"

\* Lines 3 to 6.
DeviceInterrupt(d) ==
  /\ Interruptible
  /\ Pending(d)
  /\ Non_T_Int(d)

\* A receiver that is not READY is taken for the one that interrupts.
Interrupting(t) ==
  <<t, IF devReg[<<t, "recv">>] # "ready" THEN "recv" ELSE "transm">>

\* Line 7.
TerminalInterrupt(t) ==
  /\ Interruptible
  /\ \A d \in Dev : ~Pending(d)
  /\ Pending(<<t, "recv">>) \/ Pending(<<t, "transm">>)
  /\ Non_T_Int(Interrupting(t))

----------------------------------------------------------------------------
\* HALT and PANIC stop the machine.
Stop == Stopped /\ UNCHANGED vars

Next ==
  \/ SYS1_CP
  \/ SYS2_TP
  \/ KillChild
  \/ KillFree
  \/ \E s \in UserSem : SYS3_P(s)
  \/ \E s \in UserSem : SYS4_V(s)
  \/ \E d \in SubDev : SYS5_W_IO(d)
  \/ SYS7_W_CLK
  \/ \E d \in SubDev : Command(d)
  \/ \E d \in SubDev : DeviceDone(d)
  \/ PLT
  \/ IntervalTimer
  \/ \E d \in Dev : DeviceInterrupt(d)
  \/ \E t \in Term : TerminalInterrupt(t)
  \/ Stop

Spec == Init /\ [][Next]_vars

\* The nucleus finishes what it begins, a time slice ends, a process that gave a
\* command goes on to its SYS5 (nothing can interrupt it in between when
\* MaskedIO).  A device ends its operation, and an interrupt line stays raised
\* until it is served, however often the nucleus or a process masks interrupts
\* in between: strong fairness.
Fairness ==
  /\ WF_vars(KillChild) /\ WF_vars(KillFree)
  /\ WF_vars(PLT) /\ SF_vars(IntervalTimer)
  /\ \A d \in SubDev : WF_vars(SYS5_W_IO(d)) /\ SF_vars(DeviceDone(d))
  /\ \A d \in Dev : SF_vars(DeviceInterrupt(d))
  /\ \A t \in Term : SF_vars(TerminalInterrupt(t))

FairSpec == Spec /\ Fairness
----------------------------------------------------------------------------
\* Where the processes are.
Live      == Pcb \ pcbFree
Blocked   == {p \in Pcb : p_semAdd[p] # NULL}
SoftWaits == {p \in Pcb : p_semAdd[p] \in DevSem}

\* Every PCB is in one place: free, running, once in the ready queue or once in
\* the queue of the semaphore that p_semAdd names.  No PCB is lost and none is
\* in two lists, on which the links p_next and p_prev of pcb.c depend.  The
\* nucleus has a current process exactly while it runs one or kills it.
OnePlace ==
  /\ IsListOf(R_Queue, Live)
  /\ \A s \in Sem : IsListOf(procQ[s], Live)
  /\ \A s \in Sem : Range(procQ[s]) = {p \in Pcb : p_semAdd[p] = s}
  /\ Blocked \cap Range(R_Queue) = {}
  /\ CurrProc \notin pcbFree \cup Blocked \cup Range(R_Queue)
  /\ Live = Blocked \cup Range(R_Queue) \cup ({CurrProc} \ {NULL})
  /\ (CurrProc = NULL) <=> (mode \notin {"run", "kill"})

\* The child lists and the calls of killprocT partition the live processes,
\* apart from the first one: a process is in the child list of its parent,
\* which is alive, until killprocT takes it.  Nobody outlives its parent, and
\* nobody is killed twice.
Family ==
  /\ IsListOf(killStack, Live)
  /\ \A p \in Pcb : IsListOf(p_child[p], Live \ Range(killStack))
  /\ \A p \in pcbFree : p_child[p] = <<>>
  /\ \A p \in Pcb : \A c \in Range(p_child[p]) : p_prnt[c] = p
  /\ \A c \in Live \ Range(killStack) :
       p_prnt[c] # NULL => c \in Range(p_child[p_prnt[c]])
  /\ (mode = "kill") <=> (killStack # <<>>)
  /\ mode = "kill" => killStack[1] = CurrProc

\* ProcCount counts the live processes, as its comment in initial.c says, so
\* that HALT comes when all are gone and not before.
ProcCountExact == ProcCount = Cardinality(Live)

\* SoftBlocked is never less than the number of processes that wait for a
\* device or the clock, so that PANIC never hits a system that an interrupt
\* would wake.
SoftBlockedCovers == SoftBlocked >= Cardinality(SoftWaits)

\* SoftBlocked is that number, as its comment in initial.c says.
SoftBlockedExact == SoftBlocked = Cardinality(SoftWaits)

\* A semaphore of the processes is a counting semaphore, over P, V and kills:
\* a negative value is the number of the processes blocked on it, and nobody is
\* blocked on another value.
SemaphoreLaw ==
  \A s \in UserSem :
    Len(procQ[s]) = IF semVal[s] < 0 THEN -semVal[s] ELSE 0

\* A running process that has to block finds a descriptor: insertBlocked, whose
\* result SYS3, SYS5 and SYS7 ignore, never fails.
DescriptorsSuffice == mode = "run" => \A s \in Sem : HasDescriptor(s)

\* Who waits for a sub-device waits alone, and for an operation that has not
\* been acknowledged: an interrupt is still to come for it.
NobodyForgotten ==
  \A d \in SubDev : procQ[d] # <<>> => Len(procQ[d]) = 1 /\ devReg[d] # "ready"

\* SYS5 is a P, as exceptions.h says, and a P blocks its caller only when the
\* value has become negative: whoever waits for a sub-device does so on a
\* negative value.
BlockedByP == \A d \in SubDev : procQ[d] # <<>> => semVal[d] < 0

\* The semaphore of a sub-device is -1 from the SYS5 of an operation to its
\* interrupt, even if the one that waits is killed meanwhile, and 0 otherwise.
DeviceLaw ==
  \A d \in SubDev :
    semVal[d] = IF devReg[d] = "ready" \/ \E p \in Pcb : cmd[p] = d THEN 0 ELSE -1

\* The verdicts of the scheduler: HALT only when nobody is left, PANIC only in a
\* deadlock, in which all the processes left are blocked on semaphores of theirs;
\* and scheduler() never returns to a caller that does not expect it to.
StopsRightly ==
  /\ mode = "halt" => Live = {}
  /\ mode = "panic" => Live # {} /\ \A p \in Live : p_semAdd[p] \in UserSem
  /\ mode # "returned"

\* The other half of the deadlock detection that scheduler.h announces: the CPU
\* waits only when some process waits for a device or the clock.
DeadlockDetected == mode = "idle" => SoftWaits # {}

----------------------------------------------------------------------------
\* x is a, or a child of one that is.
Below(a) ==
  {x \in Pcb : \A S \in SUBSET Pcb :
                 (a \in S /\ \A y \in Pcb : p_prnt[y] \in S => y \in S) => x \in S}

\* A process ends only by its own SYS2 or by that of an ancestor.
KillsOnlySubtree == [][\A x \in pcbFree' \ pcbFree : x \in Below(CurrProc)]_vars

\* r continues the queue q: those that stay keep their order, and the new ones
\* come after them.
Before(q, x, y) == \E i, j \in DOMAIN q : i < j /\ q[i] = x /\ q[j] = y
Continues(q, r) ==
  \A x \in Range(q) \cap Range(r) : \A y \in Range(r) :
    Before(q, x, y) \/ y \notin Range(q) => Before(r, x, y)

\* Every queue is first in, first out: removeProcQ takes "the oldest element"
\* (pcb.h).
OldestFirst ==
  [][Continues(R_Queue, R_Queue') /\ \A s \in Sem : Continues(procQ[s], procQ'[s])]_vars

\* As long as no process is killed, that is so.
OldestFirstUnlessKilled ==
  [][mode = "kill" \/
     (Continues(R_Queue, R_Queue')
      /\ \A s \in Sem : Continues(procQ[s], procQ'[s]))]_vars

\* A process that waits for a sub-device is woken by the end of its operation,
\* and by nothing else.
WokenByCompletion ==
  [][\A d \in SubDev : \A p \in Range(procQ[d]) \ (Range(procQ'[d]) \cup pcbFree') :
       devReg[d] = "done" /\ devReg'[d] = "ready"]_vars

\* Round robin: a ready process gets the CPU, or is killed.
ReadyRuns ==
  \A p \in Pcb : p \in Range(R_Queue) ~> p = CurrProc \/ p \in pcbFree

\* A process that waits for a device or for the clock gets the CPU again, or is
\* killed.
SoftWaitEnds ==
  \A p \in Pcb : p_semAdd[p] \in DevSem ~> p = CurrProc \/ p \in pcbFree

----------------------------------------------------------------------------
\* The life of a process as Processes describes it.
StateOf(p) ==
  IF p \in pcbFree THEN "free"
  ELSE IF p = CurrProc THEN "running"
  ELSE IF p_semAdd[p] = NULL THEN "ready" ELSE "blocked"

Life == INSTANCE Processes
          WITH state <- [p \in Pcb |-> StateOf(p)], waits <- p_semAdd

\* Every run of the nucleus is a life of its processes: the CPU never stays
\* idle while one is ready, nobody leaves a semaphore but by a wake-up or a
\* kill, and a V or an interrupt wakes one at most.
ImplementsLife == Life!Spec
====
