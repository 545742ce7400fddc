# A verification development for PandOS

This directory specifies PandOS, a small teaching kernel for the uMPS3 machine,
in TLA+: what is modelled is model-checked with TLC on small instances, and the
facts that matter most are proved with TLAPS for every instance. Paths below are
relative to the repository.

## The system

PandOS is built in three phases, one on top of the other.

| part | state it keeps | operations | correct when |
|---|---|---|---|
| PCB lists, `Fase_1/pcb.c` | `pcbFree_h`, queues (tail pointers, `p_next`, `p_prev`), child lists (`p_child`, `p_next_sib`, `p_prev_sib`, `p_prnt`) | `allocPcb`, `freePcb`, `insertProcQ`, `removeProcQ`, `outProcQ`, `insertChild`, `removeChild`, `outChild` | a PCB is in one list at a time; queues are first in, first out; a removal removes what it was asked to |
| active semaphores, `Fase_1/asl.c` | `semd_h` (sorted, two sentinels), `semdFree_h`, `s_procQ`, `p_semAdd` | `insertBlocked`, `removeBlocked`, `outBlocked`, `headBlocked` | a descriptor is active exactly while its queue is not empty; `p_semAdd` names the queue a PCB is in; descriptors suffice |
| start, `Fase_2/initial.c` | globals of the nucleus, pass up vector | `main` | one process, counters consistent |
| scheduler, `Fase_2/scheduler.c` | `R_Queue`, `CurrProc`, `ProcCount`, `SoftBlocked`, `initTime` | `scheduler` | round robin; HALT when all are gone, PANIC in a deadlock and only then, WAIT otherwise |
| exceptions, `Fase_2/exceptions.c` | `sem[]`, the above | SYS1 to SYS8, `killprocT`, `PassUporDie` | P and V; a kill takes the subtree, gives back what its processes held in the counters; nobody waits for what has happened |
| interrupts, `Fase_2/interrupts.c` | device registers, timers | PLT, interval timer, devices, terminals | a completion wakes its waiter, once; the CPU goes on with whom it should |
| pager, `Fase_3/vmSupport.c` | swap pool table, page tables, TLB, `SwapPoolSem`, device mutexes | `uTLB_RefillHandler`, `pager`, `RW_device`, `SIGKILL` | a valid page table entry names the frame that holds the page; a frame has one owner |
| user processes, `Fase_3/initProc.c` | `Support_pool`, `Master_Sem` | `test`, `InstantiateProc` | `test()` ends when all the user processes have ended |
| support calls, `Fase_3/sysSupport.c` | saved exception states | `Write_To_Printer`, `Write_To_Terminal`, `Read_From_Terminal`, `Get_TOD`, `Terminate` | the mutex of a device is released; results and program counter are right |

The parts interact by calls inside the nucleus (every handler ends in `LDST` or
in `scheduler()`), by the global variables of `initial.c`, and above the nucleus
by system calls: the support level is a client like any other. Devices interact
through their registers and the interrupt lines.

**What is hard.** One CPU with interrupts masked in the nucleus makes a handler
atomic, so the difficulty is not in data races inside it but in the orders of
handlers: a kill against everything that the killed processes wait for, a device
that completes when its waiter is gone, or before it waits, two counters that
eight functions keep and that one function turns into HALT, WAIT or PANIC, and
lists whose links are shared. Above the nucleus, the support level is preempted
anywhere. `PROJECT.json` lists the hazards with their lines.

## The modules

| module | what it is | lines it stands for |
|---|---|---|
| `PcbQueue` | queues and child lists as sequences, with the order the code gives them | `pcb.c` |
| `Lists` | the contract of the lists of `Fase_1`, in the terms of `PcbQueue` | `pcb.h`, `asl.h` |
| `PcbLists` | the lists as they are linked, an implementation of `Lists` | `pcb.c`, `asl.c` |
| `Processes` | the abstract specification: the life of processes, without queues, counters or values | what `scheduler.h`, `exceptions.h` and `interrupts.h` promise |
| `Nucleus` | the nucleus with its processes and devices | `scheduler.c`, `exceptions.c`, `interrupts.c`, `asl.c`, `main` |
| `CpuTime` | the CPU time of processes | `scheduler.c`, `exceptions.c`, `interrupts.c` |
| `Paging` | swap pool, page tables, TLB, backing stores; the pager against others and against `SIGKILL` | `vmSupport.c`, the start of `test` |
| `SupportCalls` | the calls of a user process and their devices | `sysSupport.c`, with `SysHandler`, `PassUporDie`, `Non_T_Int` |
| `InitProc` | the beginning and the end of the user processes | `initProc.c`, the end of `SIGKILL` |
| `MCNucleus`, `MCPcbLists`, `MCCpuTime`, `MCPaging`, `MCSupportCalls`, `MCInitProc` | the instances for TLC | |
| `PcbQueueProofs` | lemmas on the list operations | |
| `PcbListsProofs` | theorems on `PcbLists`: its links are lists, and it implements `Lists` | |
| `NucleusProofs` | theorems on `Nucleus`: lists, families, descriptors | |
| `NucleusCounts` | theorems on `Nucleus`: counters, semaphores, verdicts of the scheduler, devices and those who wait for them | |
| `NucleusLife` | theorems on the steps of `Nucleus`: it implements `Processes`; who ends whom; order of the queues | |
| `InitProcProofs` | theorems on `InitProc` | |
| `PagingProofs` | theorems on `Paging` | |
| `SupportProofs` | theorems on `SupportCalls` | |

The modules stand on one another as the phases do, each with the one below
replaced by what its own module shows of it. `Nucleus` takes lists for sequences, which
`PcbLists` justifies. `Paging`, `SupportCalls` and `InitProc` take a P for one step
that blocks or does not, a queue of waiters for a queue, a ready process for one that
runs in the end and an operation of a device for one that ends, which `Nucleus`
justifies; and `SupportCalls` shows what `Nucleus` assumes of `Fase_3` with
`MaskedIO`, that nothing comes between a command and its SYS5.

### Nucleus: state

The variables have the names of the code. Differences:

- `pcbFree` is a set: which free PCB is taken next is left open.
- `procQ[s]` is the queue of the descriptor of `s`; `s` has a descriptor in the
  active list exactly when the queue is not empty, so the sorted list need not
  be a variable. `NSemd` descriptors exist; `insertBlocked` does nothing when
  they are used up, which is what the code does.
- `semVal[s]` is the integer at the semaphore's address. `DevSem` are the elements
  of `sem[]`: one for each sub-device and `Clock`, the last one.
- `mode` is what the CPU does: a process (`run`), `killprocT` (`kill`), `WAIT`
  (`idle`), `HALT`, `PANIC`, or `returned`, the path through `scheduler()` that
  none of its tests takes.
- `killStack` holds the calls of the recursive `killprocT`, each of which is an
  action. No other action is enabled meanwhile, since interrupts are masked.
- `devReg[d]` is what the nucleus can tell of a device: ready, busy, or done with
  its interrupt pending. `cmd[p]` is the device that process `p` has
  commanded without having called SYS5 yet.

Processor states, support structures, times and the contents of messages to and
from devices are left out.

### Nucleus: actions

`SYS1_CP`, `SYS2_TP`, `KillChild`, `KillFree`, `SYS3_P`, `SYS4_V`, `SYS5_W_IO`,
`SYS7_W_CLK` are the calls of the running process; `PLT`, `IntervalTimer`,
`DeviceInterrupt`, `TerminalInterrupt` the interrupts, each up to the `LDST` or
the `WAIT` that ends it, so that `scheduler()` is part of them. `Command` and
`DeviceDone` are the environment: a process writes the command register of a
device that nobody uses, and the device completes. `Stop` is the machine after
HALT or PANIC. SYS6, SYS8, a failed SYS1 and a pass-up change none of the
variables. A trap of a process without support structure is `SYS2_TP`.

Two facts of the code that are easy to miss are in the model:

- `outProcQ` of the tail makes the head the new tail (`pcb.c:181`): `OutProcQ`
  turns the queue.
- SYS7 adds 2 to `SoftBlocked` and decrements `sem[MAX_SUB_DEV]`, the int after the
  array (`exceptions.c:279-285`). What is there is the linker's choice: the
  constant `AfterSem` is `"SoftBlocked"`, `"ProcCount"` or `"other"`. (The
  pointers `CurrProc` and `R_Queue` could be there as well: a program that
  decrements them does not work at all, and is not considered.)

Three constants describe the environment. `MaskedIO` says that processes
disable interrupts between the command to a device and its SYS5, as all of
`Fase_3` does (`vmSupport.c:177-185`, `sysSupport.c:124-135`) and `p2test.c` does
not. `SharedTerminals` lets a terminal receive and transmit at the same time, which
the mutex that `Fase_3` has for a terminal excludes. `AfterSem` is above.

### PcbLists and Lists

`PcbLists` has a variable for each field of `pcb_t` and `semd_t` that is a link, by
index of the tables `pcbFree_table` and `semd_table`, and one action for each function
that changes one. The values left in links that nobody should follow are kept as
the code leaves them: `outChild` and `removeChild` leave `p_prnt` and `p_prev_sib` of
the PCB that goes, `removeProcQ` its `p_next`, `freePcb` everything but the queue
links. `insertChild` takes any two PCBs that are not free, in a queue or not: SYS1
puts the new process into the ready queue before it makes it a child
(`exceptions.c:145-147`). The caller keeps to what the nucleus does: it inserts a PCB
that is in no queue, makes it a child at most once between `allocPcb` and `freePcb` (a
second time would meet the stale links), and frees it when it is nowhere. `view` is a history
variable: the lists that the links amount to after each step. `Walk` is what a loop along
a link meets in a number of steps, and `Along` cuts a walk off after more steps than
there are nodes, so that a loop in the links would show as a wrong list and not as a model
that does not end; `Place` is where the loop of `insertBlocked` stops. `Lists` is the
contract, in which a free PCB, a queue, the queue of a semaphore and a child list are
what the headers promise, with the two peculiarities that `PcbQueue` has, and
`ImplementsLists` is the refinement.

`headBlocked` returns the element before the tail, where `asl.h:39` promises the head;
the one caller (`interrupts.c:90`) asks only whether there is one.

### CpuTime

`NOW` advances by `Tick`; every handler reads it once. `scheduler`, `PLT` and the ends
of the other interrupts charge `p_time` as the code does. Who waits for what is
left out: a wake-up takes any process that waits.

### Paging

A process is at a program point (`pc`) of `pager`, `RW_device` or `SIGKILL`, or in its
program. The code between two points touches nothing that another process sees, or
runs with interrupts masked. `SwapPoolSem` is the queue of its users. `sw_asid` and
`sw_pte` are the swap pool table, `pte` the page tables, `tlb` the TLB as a copy of entries,
of which `uTLB_RefillHandler` may throw away any. `fresh` is a history variable: the
places, frames and the backing store, that hold what a page's process wrote last.
Evict reads `sw_asid` and `sw_pte` after the masked section, as lines 111 and 113 do.

`SIGKILL` changes the table without SwapPoolSem, and a process may end at any time. That
makes two races, both in the model:

- SIGKILL clears the entry of a frame that a pager evicts, before the pager reads its
  owner (line 113). The page is then written to device -2, which is disk 6: the
  configuration has none, its interrupt never comes, and the pager waits for ever with
  SwapPoolSem (`Hung`). The run `evict` shows it.
- SIGKILL finds its own process in an entry (line 223), a pager evicts that frame and
  registers it for another process, and SIGKILL clears the entry it no longer owns (line
  226). The frame is then taken for free although a page is in it. The history variable
  `robbed` has the pages whose frame was taken like that.

The second history variable, `spoiled`, has the pages whose content may be wrong: those of
a transfer that failed, the page under which its frame stays registered, robbed pages and
those that get the frame of a robbed page. Properties say what holds of all others, so that
both races are in what they check. Without the two sets TLC refutes `FramesRegistered` and
`NoStalePage`.

### SupportCalls

One process with its printer and its terminal, which no other process uses
(`sup_asid - 1` selects them). The steps are those of `GeneralExHandler`,
`SyscallExHandler` and the loops of the three functions with strings, which differ in the
sub-device, in the condition of the loop and in what they do with a character.
An access to `*str` may fault any number of times: `pager` brings the page in or
ends the process. `masked` is IEc. A character that is printed is its place in the string;
of one that is typed it matters only whether it is a newline. Status 1 stands for
READY and for OKCHARTRANS, 4 for any other.

The nucleus' calls in user mode are as in the code: the Cause of the saved state still says
SYSCALL, so that `GeneralExHandler` takes them for calls of its own and ends the
process because of their numbers.

### InitProc

The loops of `test()` step by step, and of every process the V and the SYS2 of its
`SIGKILL`. `MAXPROC` bounds how many PCBs are free at the start, so that SYS1 can
fail at any point. The processes run from their creation on, so that their V's may come before
`test()` clears `Master_Sem` (line 101), which undoes them. The history variable `lost` counts
these: one is enough to make `test()` wait for ever (`Forsaken`). The processes of
the repository run far longer than the creation of eight processes takes, so that this
stays a hazard of the code and not a finding.

## What the runs show

| run | instance | result |
|---|---|---|
| `core` | 4 PCBs, 1 semaphore, 1 device, 1 terminal (2 sub-devices), `AfterSem = "other"` | all invariants and action properties hold, and `Nucleus` implements `Processes`; about 760,000 states up to symmetry |
| `live` | 3 PCBs, 1 semaphore, 1 terminal, `AfterSem = "SoftBlocked"`, fairness | exact counter, deadlocks detected, waits end, round robin; about 21,000 states |
| `deadlock` | 2 PCBs, 1 semaphore, `AfterSem = "other"` | violation: a deadlock is taken for a wait |
| `fifo` | 4 PCBs | violation: a kill turns the ready queue |
| `early` | 2 PCBs, 1 device, `MaskedIO = FALSE` | violation: SYS5 blocks after the completion |
| `lists` | 4 PCBs, 3 semaphores, five kinds of callers | the links implement the sequences; about 228,000 states |
| `paging` | 2 processes with 2 pages and 1 page, 2 frames, `MaxSpoiled = 1`, fairness | all invariants hold, page faults end or hang; about 482,000 states |
| `evict` | the same, no I/O error | violation: a page is written to device -2 |
| `calls` | strings of up to 3 characters, lines of up to 3, fairness | all properties hold; about 13,000 states |
| `skip` | the same | violation: calls return to the second instruction |
| `start` | 4 processes, up to 4 free PCBs, fairness | all properties hold; about 2,200 states |
| `cputime` | 2 PCBs, 3 ticks | violation: a time slice is charged twice |

Properties of `core`: the lists (`OnePlace`), the families (`Family`), the
counters (`ProcCountExact`, `SoftBlockedCovers`), the semaphores
(`SemaphoreLaw`), the descriptors (`DescriptorsSuffice`), waits for devices
(`NobodyForgotten`), the verdicts (`StopsRightly`), that a process ends only by
an ancestor's SYS2 or its own (`KillsOnlySubtree`), the order of the queues as
long as nobody is killed (`OldestFirstUnlessKilled`), and the implementation of
`Processes` (`ImplementsLife`). Properties of `live`: `SoftBlockedExact`,
`DeadlockDetected`, `DeviceLaw`, `WokenByCompletion` and the two liveness
properties `ReadyRuns` and `SoftWaitEnds`.

`lists`: the links match (`LinksMatch`), the sorted list of descriptors is in order and
loses none (`ActiveListInOrder`), and the refinement (`ImplementsLists`).

`paging`: a frame belongs to one page and the table says which, unless it was robbed
(`FramesRegistered`), the TLB agrees with memory (`TlbCoherent`), an evicted page goes home
or, when nobody needs it or it was robbed, to the device that is not there
(`NeverElsewhere`), nobody reads an old content of a page that is not spoiled
(`NoStalePage`), the P on a flash device's mutex never waits (`FlashNeverContended`), the
dead hold nothing and only a process in `RW_device` has the mutex of a flash device
(`NothingLeaked`), and a page fault ends unless a pager hangs (`FaultServed`).
`WriteBackToOwner`, that an evicted page always goes home, is what `evict` refutes.

`calls`: no wake-up is missed (`InterruptToCome`), the result is what happened and nucleus
calls do not come back (`ResultTruthful`), semaphores and interrupts are given back
(`GivesBack`), and calls end (`CallEnds`). `GivesBack` is about calls that come back or
refuse their arguments; a process that the pager kills in the middle of a string keeps the
mutex of its device, which no other process uses. `start`: `test()` waits for all
(`TestLast`), `Master_Sem` is the difference of V's and P's less the V's undone
(`MasterLaw`), nobody is cut short (`OnlyFinishedDie`), and the machine halts unless a V was
undone (`TestEnds`).

**Findings.** Every violation is a disagreement between the code and its comments or
tests, which `PROJECT.json` quotes:

- `deadlock`: the counter that SYS7 leaves too high, with the deadlock that is never detected;
- `fifo`: the queue that turns when its tail is removed;
- `early`: SYS5, which is documented as a P but blocks on any value;
- `evict`: the owner of a frame, read outside the masked section while SIGKILL clears it.
  The pager then waits for disk 6, which is not there, and keeps SwapPoolSem;
- `skip`: the program counter that is advanced twice, by `SysHandler` and by
  `SyscallExHandler`;
- `cputime`: the time slice that is added twice, by the PLT interrupt and by
  `scheduler()`. Without the action `PLT` the property holds on the same instance.

Two more are not counted as findings. A string of length 0 is accepted, where comments say
it ends the process (`sysSupport.c:92` and 172): the model accepts it as the code does, and
`ResultTruthful` takes no side. And the status of a printer or a flash device is read
after its ACK (`interrupts.c:134-136`), by which an error can be hidden: `hidden` counts
these, and `ResultTruthful` says that the result of a write to the printer is the number of
characters printed and of errors hidden, and that none is hidden on a terminal.

**Bounds.** Four PCBs allow a parent, two children and a grandchild, a queue of three
of which the tail or the middle one is killed, and a running process besides
three that are blocked on three semaphores. Semaphores go up to `MaxSem = 1`:
the code treats all values that are not negative alike, and a second V would only
postpone the next wait. `MaxSoft` bounds the calls of SYS7, which with
`AfterSem = "other"` would let the counter grow for ever; 4 is two waiters
of the clock counted twice, or leaks of up to 4. `NSemd` is the number of PCBs,
as in the code. The initial value of a semaphore is 0 or 1, all that the clients use.

`lists`: four PCBs are a queue with a head, a tail and two in between, or a parent
with three children, the middle one of which goes; three keys are a first, a
middle and a last descriptor between the sentinels. `Caller` bounds what one behaviour
uses at a time, since the lists share only the PCBs: all of them together with two
PCBs, two of them with three, one with three or four. The nucleus takes children from their
parents only in `killprocT`, which frees all of them before it makes a child again; a "loose"
caller does not wait for that, the others do. `paging`: two frames for three pages make every
fault after the second an eviction, of one's own page or of the other's. `MaxSpoiled` is
how many pages may be spoiled when another operation still fails: with 1, one error hits
a read or a write, seen or hidden, and robberies may follow it. (The
invariants also hold with `MaxSpoiled = 2`, about a million states, and in a pool of one
frame with `MaxSpoiled = 3`.) `calls`: the loops
treat all characters but the last alike, so that three are enough to be in the middle of a
string (`MAXSTRLENG` is 3 for 128), and lengths of -1 and 4 are out of range on either side.
`start`: four processes of eight, so that two can end while one is waited for and one
runs. `cputime`: the violation needs one tick.

**Fairness** (`FairSpec`). In `Nucleus`, for `live` and `fifo`: the nucleus finishes a kill
(weak fairness of `KillChild` and `KillFree`: it is sequential code). The time slice
ends (weak fairness of `PLT`: the timer is loaded at every dispatch). A process that
gave a command calls SYS5 (weak fairness: it is the next instruction, with interrupts
masked). A device completes, and a raised interrupt line stays raised until it is
served, whatever is masked in between (strong fairness of `DeviceDone`,
`IntervalTimer`, `DeviceInterrupt`, `TerminalInterrupt`). Nothing is assumed of what
processes do otherwise: they may run for ever without a call.

Strong fairness for each single device is more than the hardware gives when devices
of a lower number interrupt without pause, since one exception serves the lowest
one only; `live` therefore has one terminal and no other device.

Above the nucleus, weak fairness of the handlers of every process is that it runs when it
is ready, which `ReadyRuns` shows, and that devices complete, which `SoftWaitEnds`
shows: the steps of `pager` and `SIGKILL` in `Paging`, of `test()` and of the ends of the
processes in `InitProc` (that a user process ends at all is an assumption about it),
of the handlers and the interrupts in `SupportCalls`. There the access to a string
has strong fairness: a page that others take away again and again is some time still there
when the instruction is tried again; without that the machine may thrash for ever. The blocking P
of `Paging` is fair because its queue is first in, first out as long as nobody is
killed in it, and nobody is, since only a process itself calls `SIGKILL`.

**Deadlock** is checked in every run but `cputime`, where the clock has an end; the models
stop only when the machine has halted or all processes are dead.

## What is proved

`NucleusProofs` and `NucleusCounts` prove, for every finite set of PCBs and every set of semaphores,
devices and terminals, whatever follows `sem[]`, with or without masked
interrupts, shared terminals or bounds on the values:

- `TypeCorrect`, `EveryPcbInOnePlace`, `FamiliesIntact`: `Spec => []TypeOK`,
  `[]OnePlace`, `[]Family`;
- `DescriptorsNeverRunOut`: `Spec => []DescriptorsSuffice`;
- `SemaphoresCorrect`, `SoftBlockedNeverTooSmall`: `Spec => []SemaphoreLaw`,
  `[]SoftBlockedCovers`;
- `ProcCountCorrect`, `VerdictsCorrect`: `Spec => []ProcCountExact`, `[]StopsRightly`,
  if the decrement past `sem[]` does not hit `ProcCount`;
- `SoftBlockedCorrect`, `DeadlocksDetected`: `Spec => []SoftBlockedExact`,
  `[]DeadlockDetected`, if it hits `SoftBlocked`. Then, and only then, the decrement
  undoes one of the two increments of SYS7; the run `deadlock` is the other case.

The assumptions are those of `Nucleus`: NULL is neither a PCB nor a semaphore, the
semaphores of the processes are none of `sem[]`, no sub-device is both of a terminal and
of another line, and there are at least as many descriptors as PCBs.

The inductive invariant is `Structure == TypeOK /\ OnePlace /\ Family`. Its three
parts need each other. That a blocked process gets into its queue at all needs
`insertBlocked` to find a descriptor; that needs `OnePlace`, by counting: each active
semaphore has a first waiter, `p_semAdd` names one semaphore only, so the map from
active semaphores to first waiters is injective, and the running process is none of
them (`DescriptorLemma`). That `KillFree` leaves the places in order needs `Family`:
the process freed last is the running one, and the others are not. That `Family` survives
SYS1 needs `OnePlace`: a free PCB is in nobody's child list.

The proof of the step has one lemma for each action or group of actions
(`StructureCreate` to `StructureKillFree`), on top of lemmas about what
`scheduler()`, the end of an interrupt handler, `insertBlocked` and a V do to the
places, and of the list lemmas in `PcbQueueProofs`: each list operation preserves
"every element once" and adds or removes exactly one element. In particular
`OutProcQLemma` shows that the turning `outProcQ` loses nobody.

The counters come on top: `Counts` is inductive relative to `Structure`. That
`ProcCount` is a cardinality needs that SYS1 takes a free PCB and that `KillFree`
frees a live one; that a tick may subtract the length of a queue from a counter of
processes needs that the queue names nobody twice (`ListCardinality`) and exactly
those whose `p_semAdd` it is; that a kill may do a V without looking at the queue
needs that the victim is in it. `Verdicts` is inductive relative to both: a step
that stops the CPU is a call of `scheduler()` with the counters it leaves
(`WhoSchedules`), and when nobody is ready or running, `OnePlace` says that all the
live processes are blocked (`VerdictLemma`).

`NucleusCounts` also proves, for processes that mask interrupts from a command to its SYS5
and for terminals that do one thing at a time, as in all of `Fase_3`:

- `NobodyIsForgotten`, `DeviceSemaphores`: `Spec => []NobodyForgotten`, `[]DeviceLaw`;
- `WokenRightly`: `Spec => WokenByCompletion`.

`Devices` is inductive relative to `Structure`. It adds that only the running process
has a command to wait for (`OneCommand`), that the operation of that command has not been
acknowledged and nobody waits for its device (`CommandPending`), and that a terminal does
not receive and transmit at once (`HalfDuplex`). Without the last, `TerminalInterrupt`,
which takes a receiver that is not READY for the one that interrupts, could take an
operation in progress for a completed one. Without `MaskedIO` the two about commands fail, which is what the
run `early` shows.

`NucleusLife` proves the refinement, `LifeImplemented`: `Spec => ImplementsLife`, without any
of these conditions. The mapping calls a PCB free, running, blocked or ready from
`pcbFree`, `CurrProc` and `p_semAdd` alone; `Placed`, from `OnePlace`, says that the ready ones are
those of the ready queue. `DispatchLemma` is the core: `scheduler()` with the queue
`ready` is the `PassCPU` of `Processes`. Every action is then one of `Create`, `Kill`,
`Exit`, `Preempt`, `Block`, `Wake` or changes nothing. That an interrupt which wakes nobody
changes nothing needs one more invariant, `NoneReady`: the CPU has no process only when
the ready queue is empty.

It also proves `KillsOnlyBelow` and `FirstInFirstOut`: `Spec => KillsOnlySubtree` and
`Spec => OldestFirstUnlessKilled`. The first rests on `KillsBelow`: the calls of `killprocT` are for
processes below the running one, by induction along the child lists, whose members
name their parent by `Family`. For the second, a queue that gets new elements at its end
and may lose its head keeps its order (`ContinuesLemma`); that nobody is in it twice,
by `OnePlace`, is what makes "order" mean anything.

`InitProcProofs` proves, for every number of processes and of PCBs:
`TypeCorrect`, `WaitsForAll`, `MasterSemCorrect` and `NobodyCutShort`, that is
`TypeOK`, `TestLast`, `MasterLaw` and `OnlyFinishedDie`. The invariant (`AccountInvariant`)
adds to the law of `Master_Sem` what the loops have done so far: the processes
created are those below `id` until the first P, all of them after it, the V's never exceed
the processes, and `lost` is the part of them that came before line 101.

`PagingProofs` proves, for every finite set of processes, every set of pages, every
size of the pool and every bound on I/O errors:

- `PagingTypeCorrect`, `TlbCorrect`, `FlashFree`, `DeathIsClean`: `TypeOK`,
  `TlbCoherent`, `FlashNeverContended`, `NothingLeaked`;
- `FramesStayRegistered`, `EvictsNowhereElse`, `NeverStale`: `FramesRegistered`,
  `NeverElsewhere`, `NoStalePage`.

Processes end at any time in all of them: no theorem assumes that SIGKILL keeps away
from the critical section of a pager.

The first inductive invariant is `Base`: types, `Lock` (whoever is at a program point of
the critical section is the first in SwapPoolSem, which names nobody twice, so that
there is only one) and `Place` (what the local variables of a process hold at each of its
program points). `FlashHeld`, that a mutex is taken only while its user waits for the
device, and the first four theorems rest on it.

Frames need more, since a pager changes the table and the page tables in several steps,
and a SIGKILL may change the table between any two of them. `Pool` adds to `Base` what the
pager has read from the table (`Owned`), `FramesRegistered` itself, and that no page that
somebody needs is in the frame that a pager empties or fills (`MovingApart`): without the
last, `Register` could take a mapped frame away. A page is `Gone` when nobody
needs it where it is: its process is ending, or was robbed of it. What a pager knows of a
frame (`Knows`) is true of the table, or a SIGKILL has come between, and then the page is
gone. The argument is that a SIGKILL clears only entries that name its own process, all of
whose pages are gone from the moment it begins, or entries that a pager has changed
since its test, whose pages the step puts into `robbed`.

`Contents` adds to `Pool` where the latest content of each page is (`Latest`): in its
frame while it is mapped, else in the backing store or on the way to it. For an evicted
page to be on its way, the table must be complete (`Complete`): a frame that is registered
for a page that is not spoiled is mapped, or a pager has it in hand. After an I/O
error it is not for the two pages that `spoiled` gets then (`Told`). And a robbed page,
which stays mapped in a frame that others get, may be written to at any time: `Sharing` says that
only spoiled pages are ever mapped to the same frame, and that the page a pager
writes to its backing store, if it is not spoiled, shares its frame with no robbed one.

`SupportProofs` proves, for every `MAXSTRLENG` and lines of every length:
`SupportTypeCorrect`, `InterruptAlwaysComes`, `EverythingGivenBack` and `ResultsAreTrue`,
that is `TypeOK`, `InterruptToCome`, `GivesBack` and `ResultTruthful`. The invariant
(`SupportInvariant`) says at which program points interrupts are masked, a semaphore is
taken and a device works (`Protocol`): that the SYS5 comes before the interrupt it waits
for follows from this part alone. `Writing` and `Reading` are the loop invariants: what came
out, together with the hidden errors, is as many characters as `read`, in the order of the
string, plus one from the end of the operation to the test of its status, and what came
in is the buffer, plus one until it is stored.

`PcbListsProofs` proves, for every `MAXPROC`, every set of semaphores and every bound on the
caller:

- `ListsTypeCorrect`, `LinksAlwaysMatch`, `ActiveListAlwaysInOrder`: `TypeOK`,
  `LinksMatch`, `ActiveListInOrder`;
- `ListsImplemented`: `Spec => ImplementsLists`, every function does to the links what
  `Lists` says, and nothing to the lists it was not called for.

The assumptions are that NULL is no index and no semaphore, and that the address of a
semaphore is positive and below that of the last sentinel: a search for 0 would end at the first
one. `MAXPROC + 2` descriptors are as the code has them.

The inductive invariant is `Linked == TypeOK /\ Rings /\ Apart /\ Families /\ Semds`, which
says of the links what lists they amount to: the free list is a chain and every queue a
ring in which `p_prev` is the inverse of `p_next` (`Rings`), no PCB is in two of them and
`p_semAdd` names the queue (`Apart`), child lists are chains with links back whose members name
their parent, and a PCB without a parent has no link back (`Families`), the active list is
sorted between the sentinels, and every descriptor is in it or in the free list
(`Semds`). None of these says anything of the values in unused links. Its parts need each other:

- that cutting or extending one list leaves the others alone needs `Apart`, since all queues and
  the free list share `p_next`: a ring is untouched by an assignment to a link of a PCB that is
  not in it (the lemmas on rings and chains);
- that `insertChild` leaves the queues alone, also when the child is in one, needs nothing: it
  writes to links of its own;
- that `insertChild` need not clear `p_prev_sib` needs the last part of `Families`;
- that `insertBlocked` always finds a descriptor, so that its early return with TRUE is
  never taken, needs `Apart` and `Semds` by counting (`SemdFree`): each
  of the descriptors in use has a PCB in its queue, all these are distinct, and the PCB to be
  inserted is none of them;
- that the loop of `insertBlocked`, which stops before the first larger key, finds the descriptor
  of the semaphore if there is one, needs the order of the active list (`PlaceLemma`), and
  keeps it (`ActiveInsert`).

There is one lemma for each function that says what it does to the invariant and to the view
(`InsertBlockedStep` and the others). The lists are read from the links by a recursive function.
That it returns the list there is goes by induction on the number of steps, with the set of the
numbers for which it does so (`InductiveSet`), since the library's induction takes an operator.
TLC finds `ListsInvariant`, that is `Linked` with `view = View`, to hold on three PCBs
and three semaphores as well (about 80,000 states).

**Only model-checked:** liveness: `ReadyRuns`, `SoftWaitEnds`, `FaultServed`, `CallEnds`, `TestEnds`
(fairness and ENABLED are out of the prover's reach). Every invariant and every action
property of the passing runs, and both refinements, are theorems.

## Not modelled

- The machine set-up in `main`: pass up vector, stacks, the values that timers are loaded
  with; the wrap-around of times.
- Addresses: how a page number is computed from EntryHi (a page outside the 31 of the
  program is taken for its stack page), where the stacks of handlers lie, which
  registers a state has.
- Contents of pages and strings, and the value of Get_TOD.
- `mcpy.c`, which copies bytes for the compiler, and the test programs, which are
  clients: what they may do is what the actions of processes allow.

What would come next: a caller of `Lists` with the program points of the handlers of
`Nucleus`, which would show that each of them calls the functions of `Fase_1` as `PcbLists`
assumes, one call after the other.
