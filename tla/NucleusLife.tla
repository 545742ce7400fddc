---- MODULE NucleusLife ----
(***************************************************************************)
(* Proofs about the steps of the nucleus, in three parts.  It implements   *)
(* Processes: every step is one in the life of its processes, or changes   *)
(* nothing of it.  A process ends only those below it.  And the processes  *)
(* of a queue leave it in the order in which they came.                    *)
(***************************************************************************)
EXTENDS NucleusProofs

\* What the state of a process says of the place of its PCB.
Placed ==
  /\ \A p \in Pcb : /\ StateOf(p) \in {"free", "ready", "running", "blocked"}
                    /\ StateOf(p) = "free"    <=> p \in pcbFree
                    /\ StateOf(p) = "running" <=> p = CurrProc
                    /\ StateOf(p) = "ready"   <=> p \in Range(R_Queue)
                    /\ StateOf(p) = "blocked" <=> p_semAdd[p] # NULL
  /\ CurrProc \in Pcb \cup {NULL} /\ NULL \notin Pcb
  /\ p_semAdd \in [Pcb -> Sem \cup {NULL}] /\ NULL \notin Sem

\* The CPU has nothing to do only when nobody is ready.
NoneReady == CurrProc = NULL => R_Queue = <<>>

LEMMA PlacedLemma == Structure => Placed
<1> SUFFICES ASSUME Structure PROVE Placed
  OBVIOUS
<1>1. /\ CurrProc \in Pcb \cup {NULL} /\ NULL \notin Pcb /\ NULL \notin Sem
      /\ p_semAdd \in [Pcb -> Sem \cup {NULL}] /\ pcbFree \subseteq Pcb
      /\ IsListOf(R_Queue, Live)
  BY PcbAssumption DEF Structure, TypeOK, OnePlace
<1>2. /\ Blocked \cap Range(R_Queue) = {}
      /\ CurrProc \notin pcbFree \cup Blocked \cup Range(R_Queue)
      /\ Live = Blocked \cup Range(R_Queue) \cup ({CurrProc} \ {NULL})
      /\ Live = Pcb \ pcbFree /\ Blocked = {p \in Pcb : p_semAdd[p] # NULL}
  BY DEF Structure, OnePlace, Live, Blocked
<1>3. ASSUME NEW p \in Pcb
      PROVE  /\ StateOf(p) \in {"free", "ready", "running", "blocked"}
             /\ StateOf(p) = "free"    <=> p \in pcbFree
             /\ StateOf(p) = "running" <=> p = CurrProc
             /\ StateOf(p) = "ready"   <=> p \in Range(R_Queue)
             /\ StateOf(p) = "blocked" <=> p_semAdd[p] # NULL
  BY <1>1, <1>2 DEF StateOf
<1> QED BY <1>1, <1>3 DEF Placed

\* Before and after a step.
LEMMA PlacedNext == Structure /\ [Next]_vars => Placed /\ Placed' /\ Structure'
BY PlacedLemma, StructureNext, PTL

\* scheduler() passes the CPU on as Processes says, when f has the processes
\* without one.
LEMMA DispatchLemma ==
  ASSUME Placed', NEW ready, IsListOf(ready, Pcb), NEW count, NEW soft,
         scheduler(ready, count, soft),
         NEW f \in [Pcb -> {"free", "ready", "running", "blocked"}],
         \A p \in Pcb : /\ f[p] = "ready" <=> p \in Range(ready)
                        /\ f[p] = "free" <=> p \in pcbFree'
                        /\ f[p] = "blocked" <=> p_semAdd'[p] # NULL
                        /\ f[p] # "running"
  PROVE  Life!PassCPU(f)
<1> DEFINE st == [p \in Pcb |-> StateOf(p)]
<1>1. /\ \A p \in Pcb : /\ StateOf(p)' \in {"free", "ready", "running", "blocked"}
                        /\ StateOf(p)' = "free"    <=> p \in pcbFree'
                        /\ StateOf(p)' = "running" <=> p = CurrProc'
                        /\ StateOf(p)' = "blocked" <=> p_semAdd'[p] # NULL
      /\ NULL \notin Pcb
  BY DEF Placed
<1>2. CurrProc' = HeadProcQ(ready, NULL)
  BY DEF scheduler
<1>3. CASE ready = <<>>
  <2>1. \A p \in Pcb : f[p] # "ready" /\ p # CurrProc'
    BY <1>1, <1>2, <1>3, EmptyList DEF HeadProcQ
  <2>2. \A p \in Pcb : StateOf(p)' = f[p]
    BY <1>1, <2>1
  <2>3. st' = f
    BY <2>2
  <2> QED BY <2>1, <2>3 DEF Life!PassCPU
<1>4. CASE ready # <<>>
  <2> DEFINE h == Head(ready)
  <2>1. h \in Pcb /\ h \in Range(ready) /\ CurrProc' = h
    BY <1>2, <1>4, RemoveProcQLemma DEF HeadProcQ
  <2> HIDE DEF h
  <2>2. f[h] = "ready"
    BY <2>1
  <2>3. \A q \in Pcb : StateOf(q)' = IF q = h THEN "running" ELSE f[q]
    BY <1>1, <2>1
  <2>4. st' = [q \in Pcb |-> IF q = h THEN "running" ELSE f[q]]
    BY <2>3
  <2> QED BY <2>1, <2>2, <2>4 DEF Life!PassCPU
<1> QED BY <1>3, <1>4

\* A step that moves nobody is none in the life of the processes.
LEMMA StutterLemma ==
  ASSUME UNCHANGED <<pcbFree, CurrProc, p_semAdd>>
  PROVE  UNCHANGED Life!vars
BY DEF Life!vars, StateOf

\* The state of every process after a step, when f says what it is.
LEMMA StateLemma ==
  ASSUME Placed', NEW f \in [Pcb -> {"free", "ready", "running", "blocked"}],
         \A p \in Pcb : /\ f[p] = "free"    <=> p \in pcbFree'
                        /\ f[p] = "running" <=> p = CurrProc'
                        /\ f[p] = "blocked" <=> p_semAdd'[p] # NULL
  PROVE  [p \in Pcb |-> StateOf(p)]' = f
<1>1. \A p \in Pcb : StateOf(p)' = f[p]
  BY DEF Placed
<1> QED BY <1>1

\* SYS1 creates a process.
LEMMA LifeCreate ==
  ASSUME Structure, Placed, Placed', SYS1_CP
  PROVE  Life!Create
<1> DEFINE st == [p \in Pcb |-> StateOf(p)]
<1>1. PICK p \in pcbFree : /\ pcbFree' = pcbFree \ {p}
                           /\ p_semAdd' = [p_semAdd EXCEPT ![p] = NULL]
  BY DEF SYS1_CP
<1>2. CurrProc' = CurrProc /\ CurrProc \in Pcb /\ p \in Pcb
  BY DEF SYS1_CP, Calls, Structure, TypeOK, OnePlace
<1> DEFINE f == [st EXCEPT ![p] = "ready"]
<1>3. /\ st \in [Pcb -> {"free", "ready", "running", "blocked"}]
      /\ st[p] = "free" /\ st[CurrProc] = "running" /\ p # CurrProc
      /\ p_semAdd[p] = NULL /\ p_semAdd' = p_semAdd
  <2>1. /\ st \in [Pcb -> {"free", "ready", "running", "blocked"}]
        /\ st[p] = "free" /\ st[CurrProc] = "running" /\ p # CurrProc
        /\ p_semAdd[p] = NULL /\ p_semAdd \in [Pcb -> Sem \cup {NULL}]
    BY <1>2 DEF Placed
  <2> QED BY <1>1, <1>2, <2>1
<1>4. \A q \in Pcb : /\ f[q] = "free"    <=> q \in pcbFree'
                     /\ f[q] = "running" <=> q = CurrProc'
                     /\ f[q] = "blocked" <=> p_semAdd'[q] # NULL
  BY <1>1, <1>2, <1>3 DEF Placed
<1>5. st' = f
  BY <1>3, <1>4, StateLemma
<1> QED BY <1>2, <1>3, <1>5 DEF Life!Create, Life!In

\* A process that calls has a place to go from: it runs, and waits for nothing.
LEMMA RunsLemma ==
  ASSUME Structure, Placed, mode \in {"run", "kill"}
  PROVE  /\ CurrProc \in Pcb /\ StateOf(CurrProc) = "running"
         /\ p_semAdd[CurrProc] = NULL /\ CurrProc \notin Range(R_Queue)
         /\ CurrProc \notin pcbFree /\ CurrProc # NULL
         /\ CurrProc \in Life!In("running")
         /\ IsListOf(R_Queue, Pcb)
<1>1. CurrProc \in Pcb /\ CurrProc # NULL
  BY DEF Structure, TypeOK, OnePlace
<1>2. /\ StateOf(CurrProc) = "running" /\ p_semAdd[CurrProc] = NULL
      /\ CurrProc \notin Range(R_Queue) /\ CurrProc \notin pcbFree
  BY <1>1 DEF Placed
<1>3. CurrProc \in Life!In("running")
  BY <1>1, <1>2 DEF Life!In
<1>4. IsListOf(R_Queue, Live) /\ Live \subseteq Pcb
  BY DEF Structure, OnePlace, Live
<1>5. IsListOf(R_Queue, Pcb)
  <2>1. Range(R_Queue) \subseteq Pcb
    BY <1>4, ListOfRange
  <2> QED BY <1>4, <2>1, ListOfRange
<1> QED BY <1>1, <1>2, <1>3, <1>5

\* Who blocks leaves the CPU to a process that is ready.
LEMMA LifeBlock ==
  ASSUME Structure, Placed, Placed', mode = "run", NEW s \in Sem,
         insertBlocked(s, CurrProc), NEW count, NEW soft,
         scheduler(R_Queue, count, soft), UNCHANGED pcbFree
  PROVE  Life!Block
<1> DEFINE st == [p \in Pcb |-> StateOf(p)]
           f  == [st EXCEPT ![CurrProc] = "blocked"]
<1>1. p_semAdd' = [p_semAdd EXCEPT ![CurrProc] = s]
  BY DescriptorLemma DEF Structure, insertBlocked
<1>2. /\ CurrProc \in Pcb /\ CurrProc \in Life!In("running")
      /\ CurrProc \notin Range(R_Queue) /\ CurrProc \notin pcbFree
      /\ IsListOf(R_Queue, Pcb)
  BY RunsLemma
<1>3. f \in [Pcb -> {"free", "ready", "running", "blocked"}]
  BY <1>2 DEF Placed
<1>4. \A p \in Pcb : /\ f[p] = "ready" <=> p \in Range(R_Queue)
                     /\ f[p] = "free" <=> p \in pcbFree'
                     /\ f[p] = "blocked" <=> p_semAdd'[p] # NULL
                     /\ f[p] # "running"
  BY <1>1, <1>2 DEF Placed
<1>5. Life!PassCPU(f)
  <2> HIDE DEF f
  <2> QED BY <1>2, <1>3, <1>4, DispatchLemma
<1> QED BY <1>1, <1>2, <1>5 DEF Life!Block

\* The end of a time slice.
LEMMA LifePreempt ==
  ASSUME Structure, Placed, Placed', PLT
  PROVE  Life!Preempt
<1> DEFINE st    == [p \in Pcb |-> StateOf(p)]
           f     == [st EXCEPT ![CurrProc] = "ready"]
           ready == InsertProcQ(R_Queue, CurrProc)
<1>1. /\ mode = "run" /\ scheduler(ready, ProcCount, SoftBlocked)
      /\ pcbFree' = pcbFree /\ p_semAdd' = p_semAdd
  BY DEF PLT, kernel, sems
<1>2. /\ CurrProc \in Pcb /\ CurrProc \in Life!In("running")
      /\ CurrProc \notin Range(R_Queue) /\ CurrProc \notin pcbFree
      /\ p_semAdd[CurrProc] = NULL /\ IsListOf(R_Queue, Pcb)
  BY <1>1, RunsLemma
<1>3. IsListOf(ready, Pcb) /\ Range(ready) = Range(R_Queue) \cup {CurrProc}
  BY <1>2, InsertProcQLemma
<1> HIDE DEF ready
<1>4. f \in [Pcb -> {"free", "ready", "running", "blocked"}]
  BY <1>2 DEF Placed
<1>5. \A p \in Pcb : /\ f[p] = "ready" <=> p \in Range(ready)
                     /\ f[p] = "free" <=> p \in pcbFree'
                     /\ f[p] = "blocked" <=> p_semAdd'[p] # NULL
                     /\ f[p] # "running"
  BY <1>1, <1>2, <1>3 DEF Placed
<1>6. Life!PassCPU(f)
  <2> HIDE DEF f
  <2> QED BY <1>1, <1>3, <1>4, <1>5, DispatchLemma
<1> QED BY <1>1, <1>2, <1>6 DEF Life!Preempt

\* killprocT frees a process that is ready or blocked, and in the end its caller.
LEMMA LifeKill ==
  ASSUME Structure, Placed, Placed', KillFree
  PROVE  Life!Kill \/ Life!Exit
<1> DEFINE st == [p \in Pcb |-> StateOf(p)]
           v  == Victim
           f  == [st EXCEPT ![v] = "free"]
<1>1. /\ mode = "kill" /\ pcbFree' = pcbFree \cup {v}
      /\ p_semAdd' = [p_semAdd EXCEPT ![v] = NULL]
  BY DEF KillFree, outBlocked
<1>2. /\ CurrProc \in Pcb /\ CurrProc \in Life!In("running")
      /\ CurrProc \notin Range(R_Queue) /\ p_semAdd[CurrProc] = NULL
      /\ IsListOf(R_Queue, Pcb)
  BY <1>1, RunsLemma
<1>3. /\ v \in Pcb /\ v \notin pcbFree
      /\ IsListOf(killStack, Live) /\ killStack # <<>> /\ killStack[1] = CurrProc
      /\ v = killStack[Len(killStack)]
  BY <1>1, VictimLemma DEF Structure, Family, Live, Victim
<1> HIDE DEF v
<1>4. f \in [Pcb -> {"free", "ready", "running", "blocked"}]
  BY DEF Placed
<1>5. CASE Len(killStack) = 1
  <2> DEFINE ready == OutProcQ(R_Queue, CurrProc)
             soft  == IF IsDevSem(p_semAdd[v]) THEN SoftBlocked - 1 ELSE SoftBlocked
  <2>1. v = CurrProc
    BY <1>3, <1>5
  <2>2. scheduler(ready, ProcCount - 1, soft)
    BY <1>5, <2>1 DEF KillFree, v
  <2>3. ready = R_Queue
    BY <1>2, OutProcQAbsent
  <2> HIDE DEF ready, soft
  <2>4. \A p \in Pcb : /\ f[p] = "ready" <=> p \in Range(R_Queue)
                       /\ f[p] = "free" <=> p \in pcbFree'
                       /\ f[p] = "blocked" <=> p_semAdd'[p] # NULL
                       /\ f[p] # "running"
    BY <1>1, <1>2, <1>3, <2>1 DEF Placed
  <2>5. Life!PassCPU(f)
    <3> HIDE DEF f
    <3> QED BY <1>2, <1>4, <2>2, <2>3, <2>4, DispatchLemma
  <2>6. p_semAdd' = p_semAdd
    BY <1>1, <1>2, <2>1 DEF Placed
  <2> QED BY <1>2, <2>1, <2>5, <2>6 DEF Life!Exit
<1>6. CASE Len(killStack) # 1
  <2>1. CurrProc' = CurrProc
    BY <1>6 DEF KillFree
  <2>2. v # CurrProc
    <3>1. killStack \in Seq(Live) /\ Len(killStack) \in Nat /\ Len(killStack) # 0
      BY <1>3, ListOfRange
    <3>2. 1 \in DOMAIN killStack /\ Len(killStack) \in DOMAIN killStack
      BY <3>1
    <3> QED BY <1>3, <1>6, <3>2 DEF IsListOf, IsInjective
  <2>3. \A p \in Pcb : /\ f[p] = "free"    <=> p \in pcbFree'
                       /\ f[p] = "running" <=> p = CurrProc'
                       /\ f[p] = "blocked" <=> p_semAdd'[p] # NULL
    BY <1>1, <1>2, <1>3, <2>1, <2>2 DEF Placed
  <2>4. st' = f
    <3> HIDE DEF f
    <3> QED BY <1>4, <2>3, StateLemma
  <2>5. v \in Life!In("ready") \cup Life!In("blocked")
    BY <1>3, <2>2 DEF Placed, Life!In
  <2> QED BY <1>1, <1>2, <2>4, <2>5 DEF Life!Kill
<1> QED BY <1>5, <1>6

\* The processes of P become ready, and one of them, or one that was, gets the
\* CPU if nobody has it.
LEMMA LifeWakeAll ==
  ASSUME Structure, Placed, Placed', NoneReady, UNCHANGED pcbFree, NEW P,
         P \subseteq Blocked, NEW ready, IsListOf(ready, Pcb),
         Range(ready) = Range(R_Queue) \cup P,
         NEW soft, resume(ready, soft),
         p_semAdd' = [p \in Pcb |-> IF p \in P THEN NULL ELSE p_semAdd[p]]
  PROVE  Life!WakeAll(P)
<1> DEFINE st == [p \in Pcb |-> StateOf(p)]
           f  == [p \in Pcb |-> IF p \in P THEN "ready" ELSE st[p]]
<1>1. f \in [Pcb -> {"free", "ready", "running", "blocked"}]
  BY DEF Placed
<1>2. \A p \in P : p \in Pcb /\ p_semAdd[p] # NULL /\ st[p] = "blocked"
  BY DEF Placed, Blocked
<1>3. \A p \in Pcb : /\ f[p] = "free"    <=> p \in pcbFree'
                     /\ f[p] = "ready"   <=> p \in Range(ready)
                     /\ f[p] = "running" <=> p = CurrProc
                     /\ f[p] = "blocked" <=> p_semAdd'[p] # NULL
  BY <1>2 DEF Placed
<1>4. CASE CurrProc = NULL
  <2>1. scheduler(ready, ProcCount, soft)
    BY <1>4 DEF resume
  <2>2. \A p \in Pcb : f[p] # "running"
    BY <1>3, <1>4 DEF Placed
  <2>3. Life!PassCPU(f)
    <3> HIDE DEF f
    <3> QED BY <1>1, <1>3, <2>1, <2>2, DispatchLemma
  <2>4. Life!In("running") = {}
    BY <1>4 DEF Life!In, Placed
  <2> QED BY <2>3, <2>4 DEF Life!WakeAll
<1>5. CASE CurrProc # NULL
  <2>1. CurrProc' = CurrProc
    BY <1>5 DEF resume
  <2>2. st' = f
    <3> HIDE DEF f
    <3> QED BY <1>1, <1>3, <2>1, StateLemma
  <2>3. Life!In("running") # {}
    BY <1>5 DEF Life!In, Placed
  <2> QED BY <2>2, <2>3 DEF Life!WakeAll
<1> QED BY <1>4, <1>5

\* A V by a process or by an interrupt wakes one process at most.
LEMMA LifeV ==
  ASSUME Structure, Placed, Placed', NoneReady, UNCHANGED pcbFree,
         NEW s \in Sem \ {Clock}, V(s), NEW soft, resume(ReadyAfterV(s), soft)
  PROVE  Life!Wake \/ UNCHANGED Life!vars
<1>1. /\ procQ \in [Sem -> Seq(Pcb)] /\ p_semAdd \in [Pcb -> Sem \cup {NULL}]
      /\ IsListOf(procQ[s], Live) /\ Range(procQ[s]) = {p \in Pcb : p_semAdd[p] = s}
      /\ IsListOf(R_Queue, Live) /\ Live \subseteq Pcb /\ NULL \notin Pcb
      /\ p_semAdd' = [p \in Pcb |-> IF p = HeadProcQ(procQ[s], NULL)
                                    THEN NULL ELSE p_semAdd[p]]
  BY PcbAssumption DEF Structure, TypeOK, OnePlace, Live, V, removeBlocked
<1>2. CASE procQ[s] = <<>>
  <2>1. p_semAdd' = p_semAdd /\ ReadyAfterV(s) = R_Queue
    BY <1>1, <1>2 DEF HeadProcQ, ReadyAfterV
  <2>2. CurrProc' = CurrProc
    BY <2>1 DEF resume, NoneReady, scheduler, HeadProcQ
  <2> QED BY <2>1, <2>2, StutterLemma
<1>3. CASE procQ[s] # <<>>
  <2> DEFINE h == Head(procQ[s])
  <2>1. h \in Range(procQ[s]) /\ HeadProcQ(procQ[s], NULL) = h
        /\ ReadyAfterV(s) = InsertProcQ(R_Queue, h)
    BY <1>1, <1>3, RemoveProcQLemma DEF HeadProcQ, ReadyAfterV
  <2> HIDE DEF h
  <2>2. h \in Pcb /\ p_semAdd[h] = s /\ s # NULL /\ s # Clock
    BY <1>1, <2>1 DEF Placed
  <2>3. h \in Blocked /\ StateOf(h) = "blocked" /\ h \notin Range(R_Queue)
    BY <2>2 DEF Blocked, Placed
  <2>4. IsListOf(R_Queue, Pcb)
    <3>1. Range(R_Queue) \subseteq Pcb
      BY <1>1, ListOfRange
    <3> QED BY <1>1, <3>1, ListOfRange
  <2>5. /\ IsListOf(ReadyAfterV(s), Pcb)
        /\ Range(ReadyAfterV(s)) = Range(R_Queue) \cup {h}
    BY <2>1, <2>2, <2>3, <2>4, InsertProcQLemma
  <2>6. p_semAdd' = [p \in Pcb |-> IF p \in {h} THEN NULL ELSE p_semAdd[p]]
    BY <1>1, <2>1
  <2>7. Life!WakeAll({h})
    BY <2>3, <2>5, <2>6, LifeWakeAll
  <2>8. h \in Life!In("blocked")
    BY <2>2, <2>3 DEF Life!In
  <2> QED BY <2>2, <2>7, <2>8 DEF Life!Wake
<1> QED BY <1>2, <1>3

\* The interval timer wakes all that wait for the clock.
LEMMA LifeTick ==
  ASSUME Structure, Placed, Placed', NoneReady, IntervalTimer
  PROVE  Life!Wake
<1> DEFINE soft  == SoftBlocked - Len(procQ[Clock])
           P     == {p \in Pcb : p_semAdd[p] = Clock}
           ready == R_Queue \o procQ[Clock]
<1>1. /\ resume(ready, soft) /\ pcbFree' = pcbFree
      /\ p_semAdd' = [p \in Pcb |-> IF p \in Range(procQ[Clock])
                                    THEN NULL ELSE p_semAdd[p]]
  BY DEF IntervalTimer
<1>2. /\ Clock \in Sem /\ Clock # NULL /\ Range(procQ[Clock]) = P
      /\ IsListOf(R_Queue, Live) /\ IsListOf(procQ[Clock], Live) /\ Live \subseteq Pcb
      /\ Blocked \cap Range(R_Queue) = {}
  BY PcbAssumption DEF Structure, OnePlace, Sem, DevSem, Live
<1>3. P \subseteq Blocked
  BY <1>2 DEF Blocked
<1>4. IsListOf(ready, Live) /\ Range(ready) = Range(R_Queue) \cup P
  BY <1>2, <1>3, ConcatLemma
<1> HIDE DEF ready, soft
<1>5. IsListOf(ready, Pcb)
  <2>1. Range(ready) \subseteq Pcb
    BY <1>2, <1>4, ListOfRange
  <2> QED BY <1>4, <2>1, ListOfRange
<1>6. Life!WakeAll(P)
  BY <1>1, <1>2, <1>3, <1>4, <1>5, LifeWakeAll
<1>7. P = {p \in Pcb : p_semAdd[p] = Clock}
  OBVIOUS
<1> QED BY <1>6 DEF Life!Wake

\* The CPU stops running a process only when nobody is ready.
LEMMA NoneReadyNext ==
  ASSUME Structure, Structure', NoneReady, [Next]_vars
  PROVE  NoneReady'
<1>1. ASSUME NEW ready, NEW count, NEW soft, scheduler(ready, count, soft)
      PROVE  NoneReady'
  <2>1. CurrProc' = NULL => mode' # "run"
    BY DEF Structure, OnePlace
  <2> QED BY <1>1, <2>1 DEF scheduler, NoneReady, RemoveProcQ
<1>2. ASSUME NEW ready, NEW soft, resume(ready, soft)
      PROVE  NoneReady'
  <2>1. CASE CurrProc = NULL
    BY <1>1, <1>2, <2>1 DEF resume
  <2>2. CASE CurrProc # NULL
    BY <1>2, <2>2 DEF resume, NoneReady
  <2> QED BY <2>1, <2>2
<1>3. mode \in {"run", "kill"} => CurrProc # NULL
  BY DEF Structure, OnePlace
<1>4. CASE CurrProc' = CurrProc /\ mode \in {"run", "kill"}
  BY <1>3, <1>4 DEF NoneReady
<1>5. CASE UNCHANGED <<CurrProc, R_Queue>>
  BY <1>5 DEF NoneReady
<1>6. CASE SYS1_CP \/ SYS2_TP \/ KillChild \/ KillFree
  <2>1. CASE SYS1_CP \/ SYS2_TP \/ KillChild
    BY <1>4, <2>1 DEF SYS1_CP, SYS2_TP, KillChild, Calls, queues
  <2>2. CASE KillFree
    <3>1. CASE Len(killStack) = 1
      BY <1>1, <2>2, <3>1 DEF KillFree
    <3>2. CASE Len(killStack) # 1
      BY <1>4, <2>2, <3>2 DEF KillFree
    <3> QED BY <3>1, <3>2
  <2> QED BY <1>6, <2>1, <2>2
<1>7. CASE \E s \in UserSem : SYS3_P(s) \/ SYS4_V(s)
  <2>1. PICK s \in UserSem : SYS3_P(s) \/ SYS4_V(s)
    BY <1>7
  <2>2. scheduler(R_Queue, ProcCount, SoftBlocked) \/ UNCHANGED <<CurrProc, R_Queue>>
        \/ (CurrProc' = CurrProc /\ mode \in {"run", "kill"})
    BY <2>1 DEF SYS3_P, SYS4_V, Calls, queues
  <2> QED BY <1>1, <1>4, <1>5, <2>2
<1>8. CASE (\E d \in SubDev : SYS5_W_IO(d)) \/ SYS7_W_CLK \/ PLT
  BY <1>1, <1>8 DEF SYS5_W_IO, SYS7_W_CLK, PLT
<1>9. CASE \E d \in SubDev : Command(d) \/ DeviceDone(d)
  BY <1>5, <1>9 DEF Command, DeviceDone, queues
<1>10. CASE IntervalTimer
  BY <1>2, <1>10 DEF IntervalTimer
<1>11. CASE (\E d \in Dev : DeviceInterrupt(d)) \/ (\E t \in Term : TerminalInterrupt(t))
  <2>1. PICK d : Non_T_Int(d)
    BY <1>11 DEF DeviceInterrupt, TerminalInterrupt
  <2> QED BY <1>2, <2>1 DEF Non_T_Int
<1>12. CASE UNCHANGED vars
  BY <1>5, <1>12 DEF vars, queues
<1> QED BY <1>6, <1>7, <1>8, <1>9, <1>10, <1>11, <1>12 DEF Next, Stop

\* main() starts the life of the first process.
LEMMA LifeInit == Init => Life!Init
<1> SUFFICES ASSUME Init PROVE Life!Init
  OBVIOUS
<1>1. CurrProc \in Pcb /\ pcbFree = Pcb \ {CurrProc} /\ p_semAdd = [p \in Pcb |-> NULL]
  BY DEF Init
<1>2. \A p \in Pcb : StateOf(p) = IF p = CurrProc THEN "running" ELSE "free"
  BY <1>1 DEF StateOf
<1> QED BY <1>1, <1>2 DEF Life!Init

\* Every step of the nucleus is one in the life of its processes, or changes
\* nothing of it.
LEMMA LifeNext ==
  ASSUME Structure, NoneReady, [Next]_vars
  PROVE  [Life!Next]_Life!vars
<1>1. Placed /\ Placed' /\ Structure'
  BY PlacedNext
<1>2. CASE SYS1_CP
  BY <1>1, <1>2, LifeCreate DEF Life!Next
<1>3. CASE SYS2_TP \/ KillChild \/ UNCHANGED vars
            \/ (\E d \in SubDev : Command(d) \/ DeviceDone(d))
  <2>1. UNCHANGED <<pcbFree, CurrProc, p_semAdd>>
    BY <1>3 DEF SYS2_TP, KillChild, Command, DeviceDone, vars, kernel, queues, sems
  <2> QED BY <2>1, StutterLemma
<1>4. CASE KillFree
  BY <1>1, <1>4, LifeKill DEF Life!Next
<1>5. CASE \E s \in UserSem : SYS3_P(s)
  <2>1. PICK s \in UserSem : SYS3_P(s)
    BY <1>5
  <2>2. s \in Sem /\ mode = "run" /\ pcbFree' = pcbFree
    BY <2>1 DEF Sem, SYS3_P, Calls, kernel
  <2>3. CASE insertBlocked(s, CurrProc) /\ scheduler(R_Queue, ProcCount, SoftBlocked)
    <3>1. Life!Block
      BY <1>1, <2>2, <2>3, LifeBlock
    <3> QED BY <3>1 DEF Life!Next
  <2>4. CASE UNCHANGED <<queues, procQ, p_semAdd>>
    BY <2>2, <2>4, StutterLemma DEF queues
  <2> QED BY <2>1, <2>3, <2>4 DEF SYS3_P
<1>6. CASE \E s \in UserSem : SYS4_V(s)
  <2>1. PICK s \in UserSem : SYS4_V(s)
    BY <1>6
  <2>2. s \in Sem \ {Clock} /\ pcbFree' = pcbFree /\ V(s)
    BY <2>1, SemAssumption DEF Sem, DevSem, SYS4_V, kernel
  <2>3. CurrProc # NULL
    BY <1>1, <2>1, RunsLemma DEF SYS4_V, Calls
  <2>4. resume(ReadyAfterV(s), SoftBlocked)
    BY <2>1, <2>3 DEF SYS4_V, resume
  <2>5. Life!Wake \/ UNCHANGED Life!vars
    BY <1>1, <2>2, <2>4, LifeV
  <2> QED BY <2>5 DEF Life!Next
<1>7. CASE \E d \in SubDev : SYS5_W_IO(d)
  <2>1. PICK d \in SubDev : SYS5_W_IO(d)
    BY <1>7
  <2>2. d \in Sem /\ mode = "run" /\ pcbFree' = pcbFree /\ insertBlocked(d, CurrProc)
        /\ scheduler(R_Queue, ProcCount, SoftBlocked + 1)
    BY <2>1 DEF Sem, DevSem, SYS5_W_IO
  <2>3. Life!Block
    BY <1>1, <2>2, LifeBlock
  <2> QED BY <2>3 DEF Life!Next
<1>8. CASE SYS7_W_CLK
  <2>1. Clock \in Sem /\ mode = "run" /\ pcbFree' = pcbFree
        /\ insertBlocked(Clock, CurrProc) /\ scheduler(R_Queue, ProcCount', SoftBlocked')
    BY <1>8 DEF Sem, DevSem, SYS7_W_CLK, Calls
  <2>2. Life!Block
    BY <1>1, <2>1, LifeBlock
  <2> QED BY <2>2 DEF Life!Next
<1>9. CASE PLT
  BY <1>1, <1>9, LifePreempt DEF Life!Next
<1>10. CASE IntervalTimer
  BY <1>1, <1>10, LifeTick DEF Life!Next
<1>11. CASE (\E d \in Dev : DeviceInterrupt(d)) \/ (\E t \in Term : TerminalInterrupt(t))
  <2>1. PICK d \in SubDev : Non_T_Int(d)
    BY <1>11 DEF DeviceInterrupt, TerminalInterrupt, Interrupting, SubDev
  <2> DEFINE soft == IF procQ[d] = <<>> THEN SoftBlocked ELSE SoftBlocked - 1
  <2>2. d \in Sem \ {Clock} /\ pcbFree' = pcbFree /\ V(d) /\ resume(ReadyAfterV(d), soft)
    BY <2>1, SemAssumption DEF Sem, DevSem, Non_T_Int
  <2> HIDE DEF soft
  <2>3. Life!Wake \/ UNCHANGED Life!vars
    BY <1>1, <2>2, LifeV
  <2> QED BY <2>3 DEF Life!Next
<1> QED BY <1>2, <1>3, <1>4, <1>5, <1>6, <1>7, <1>8, <1>9, <1>10, <1>11 DEF Next, Stop

\* The nucleus implements Processes: the CPU never stays idle while a process is
\* ready, nobody leaves a semaphore but by a wake-up or a kill, and a V or an
\* interrupt wakes one process at most.
THEOREM LifeImplemented == Spec => ImplementsLife
<1>1. Init => Structure /\ NoneReady /\ Life!Init
  <2>1. Init => NoneReady
    BY DEF Init, NoneReady
  <2> QED BY <2>1, StructureInit, LifeInit
<1>2. Structure /\ NoneReady /\ [Next]_vars => Structure' /\ NoneReady'
  BY StructureNext, NoneReadyNext
<1>3. Structure /\ NoneReady /\ [Next]_vars => [Life!Next]_Life!vars
  BY LifeNext
<1> QED BY <1>1, <1>2, <1>3, PTL DEF Spec, ImplementsLife, Life!Spec

----------------------------------------------------------------------------
\* killprocT calls itself only for processes below the running one.
KillsBelow == Range(killStack) \subseteq Below(CurrProc)

\* A process is below itself, and the child of a process below a is below a.
LEMMA BelowLemma ==
  ASSUME NEW a \in Pcb
  PROVE  /\ a \in Below(a)
         /\ \A c \in Pcb : p_prnt[c] \in Below(a) => c \in Below(a)
<1>1. a \in Below(a)
  BY DEF Below
<1>2. ASSUME NEW c \in Pcb, p_prnt[c] \in Below(a),
             NEW S \in SUBSET Pcb, a \in S, \A y \in Pcb : p_prnt[y] \in S => y \in S
      PROVE  c \in S
  <2>1. p_prnt[c] \in S
    BY <1>2 DEF Below
  <2> QED BY <1>2, <2>1
<1> QED BY <1>1, <1>2 DEF Below

\* Only the calls of killprocT change what KillsBelow is about while it runs.
LEMMA KillsBelowNext ==
  ASSUME Structure, Structure', KillsBelow, [Next]_vars
  PROVE  KillsBelow'
<1>1. CASE mode' # "kill"
  <2>1. killStack' = <<>>
    BY <1>1 DEF Structure, Family
  <2> QED BY <2>1, EmptyList DEF KillsBelow
<1>2. CASE mode' = "kill" /\ mode # "kill"
  <2>1. SYS2_TP
    <3>1. ASSUME NEW ready, NEW count, NEW soft, scheduler(ready, count, soft)
          PROVE  FALSE
      BY <1>2, <3>1 DEF scheduler, NothingReady
    <3>2. ASSUME NEW ready, NEW soft, resume(ready, soft) PROVE FALSE
      BY <1>2, <3>1, <3>2 DEF resume
    <3> QED BY <1>2, <3>1, <3>2
         DEF Next, Stop, SYS1_CP, KillChild, KillFree, SYS3_P, SYS4_V, SYS5_W_IO,
             SYS7_W_CLK, Command, DeviceDone, PLT, IntervalTimer, DeviceInterrupt,
             TerminalInterrupt, Non_T_Int, vars, queues
  <2>2. /\ killStack' = <<CurrProc>> /\ CurrProc' = CurrProc /\ p_prnt' = p_prnt
        /\ CurrProc \in Pcb
    BY <2>1 DEF SYS2_TP, Calls, Structure, TypeOK, OnePlace
  <2>3. Range(<<CurrProc>>) = {CurrProc} /\ CurrProc \in Below(CurrProc)
    BY <2>2, BelowLemma DEF Range
  <2>4. Below(CurrProc)' = Below(CurrProc)
    BY <2>2 DEF Below
  <2> QED BY <2>2, <2>3, <2>4 DEF KillsBelow
<1>3. CASE mode' = "kill" /\ mode = "kill"
  <2>1. KillChild \/ KillFree \/ UNCHANGED vars
    BY <1>3 DEF Next, Stop, SYS1_CP, SYS2_TP, SYS3_P, SYS4_V, SYS5_W_IO, SYS7_W_CLK,
                Command, DeviceDone, PLT, IntervalTimer, DeviceInterrupt,
                TerminalInterrupt, Interruptible, Calls
  <2>2. killStack \in Seq(Pcb) /\ CurrProc \in Pcb
    BY <1>3 DEF Structure, TypeOK, OnePlace
  <2>3. CASE KillChild
    <3> DEFINE c == Head(p_child[Victim])
    <3>1. /\ CurrProc' = CurrProc /\ p_prnt' = p_prnt /\ killStack' = Append(killStack, c)
          /\ p_child[Victim] # <<>>
      BY <2>3 DEF KillChild, queues
    <3>2. Victim \in Below(CurrProc) /\ Victim \in Pcb
      BY <1>3, VictimLemma DEF KillsBelow
    <3>3. c \in Range(p_child[Victim]) /\ c \in Pcb
      BY <1>3, <3>1, <3>2, VictimLemma, RemoveProcQLemma
    <3>4. p_prnt[c] = Victim
      BY <3>2, <3>3 DEF Structure, Family
    <3> HIDE DEF c
    <3>5. c \in Below(CurrProc)
      BY <2>2, <3>2, <3>3, <3>4, BelowLemma
    <3>6. Range(killStack') = Range(killStack) \cup {c}
      BY <2>2, <3>1, <3>3 DEF Range
    <3>7. Below(CurrProc)' = Below(CurrProc)
      BY <3>1 DEF Below
    <3> QED BY <3>1, <3>5, <3>6, <3>7 DEF KillsBelow
  <2>4. CASE KillFree
    <3>1. CurrProc' = CurrProc /\ p_prnt' = p_prnt
          /\ killStack' = SubSeq(killStack, 1, Len(killStack) - 1)
      <4>1. Len(killStack) # 1
        BY <1>3, <2>4 DEF KillFree, scheduler, NothingReady
      <4> QED BY <2>4, <4>1 DEF KillFree
    <3>2. IsListOf(killStack, Live) /\ killStack # <<>>
      BY <1>3 DEF Structure, Family
    <3>3. Range(killStack') \subseteq Range(killStack)
      BY <3>1, <3>2, FrontLemma
    <3>4. Below(CurrProc)' = Below(CurrProc)
      BY <3>1 DEF Below
    <3> QED BY <3>1, <3>3, <3>4 DEF KillsBelow
  <2>5. CASE UNCHANGED vars
    <3>1. CurrProc' = CurrProc /\ p_prnt' = p_prnt /\ killStack' = killStack
      BY <2>5 DEF vars, kernel, queues
    <3>2. Below(CurrProc)' = Below(CurrProc)
      BY <3>1 DEF Below
    <3> QED BY <3>1, <3>2 DEF KillsBelow
  <2> QED BY <2>1, <2>3, <2>4, <2>5
<1> QED BY <1>1, <1>2, <1>3

\* Whoever is freed was called for.
LEMMA FreedLemma ==
  ASSUME Structure, KillsBelow, [Next]_vars
  PROVE  pcbFree' \ pcbFree \subseteq Below(CurrProc)
<1>1. CASE KillFree
  <2>1. pcbFree' = pcbFree \cup {Victim} /\ Victim \in Range(killStack)
    BY <1>1, VictimLemma DEF KillFree
  <2> QED BY <2>1 DEF KillsBelow
<1>2. CASE ~KillFree
  <2>1. pcbFree' \subseteq pcbFree
    BY <1>2 DEF Next, Stop, SYS1_CP, SYS2_TP, KillChild, SYS3_P, SYS4_V, SYS5_W_IO,
                SYS7_W_CLK, Command, DeviceDone, PLT, IntervalTimer, DeviceInterrupt,
                TerminalInterrupt, Non_T_Int, vars, kernel
  <2> QED BY <2>1
<1> QED BY <1>1, <1>2

\* A process ends only by its own SYS2 or by that of an ancestor.
THEOREM KillsOnlyBelow == Spec => KillsOnlySubtree
<1>1. Init => Structure /\ KillsBelow
  <2>1. Init => KillsBelow
    BY EmptyList DEF Init, KillsBelow
  <2> QED BY <2>1, StructureInit
<1>2. Structure /\ KillsBelow /\ [Next]_vars => Structure' /\ KillsBelow'
  BY StructureNext, KillsBelowNext
<1>3. Structure /\ KillsBelow /\ [Next]_vars =>
        \A x \in pcbFree' \ pcbFree : x \in Below(CurrProc)
  BY FreedLemma
<1> QED BY <1>1, <1>2, <1>3, PTL DEF Spec, KillsOnlySubtree

----------------------------------------------------------------------------
\* Without its head every element of a queue is one place further on.
LEMMA TailLemma ==
  ASSUME NEW S, NEW c, IsListOf(c, S), c # <<>>
  PROVE  LET r == RemoveProcQ(c)
         IN  /\ Len(c) > 0 /\ DOMAIN r = 1..(Len(c) - 1)
             /\ \A i \in 1..(Len(c) - 1) : r[i] = c[i + 1]
<1> DEFINE r == RemoveProcQ(c)
<1>1. /\ Len(c) > 0 /\ r \in Seq(S) /\ Len(r) = Len(c) - 1
      /\ \A i \in 1..Len(r) : r[i] = c[i + 1]
  BY DEF RemoveProcQ, IsListOf
<1> HIDE DEF r
<1>2. DOMAIN r = 1..Len(r)
  BY <1>1
<1> QED BY <1>1, <1>2 DEF r

\* A queue that has got new elements at its end, and may have lost its head,
\* continues the one it was.
LEMMA ContinuesLemma ==
  ASSUME NEW S, NEW q \in Seq(S), NEW t \in Seq(S), IsListOf(q \o t, S),
         NEW r, r \in {q \o t, RemoveProcQ(q \o t)}
  PROVE  Continues(q, r)
<1> DEFINE c == q \o t
           n == Len(q)
<1>1. /\ c \in Seq(S) /\ n \in Nat /\ Len(c) \in Nat /\ n <= Len(c)
      /\ DOMAIN q = 1..n /\ DOMAIN c = 1..Len(c)
      /\ \A i \in 1..n : c[i] = q[i]
  OBVIOUS
<1>2. \A i, j \in 1..Len(c) : c[i] = c[j] => i = j
  <2>1. IsListOf(c, S)
    OBVIOUS
  <2> QED BY <1>1, <2>1 DEF IsListOf, IsInjective
<1>3. r \in {c, RemoveProcQ(c)}
  OBVIOUS
<1> HIDE DEF c, n
<1>4. r = c \/ /\ Len(c) > 0 /\ DOMAIN r = 1..(Len(c) - 1)
               /\ \A i \in 1..(Len(c) - 1) : r[i] = c[i + 1]
  <2>1. CASE c # <<>>
    <3>1. IsListOf(c, S)
      BY DEF c
    <3> QED BY <1>3, <2>1, <3>1, TailLemma
  <2>2. CASE c = <<>>
    BY <1>3, <2>2 DEF RemoveProcQ
  <2> QED BY <2>1, <2>2
<1>5. SUFFICES ASSUME NEW x \in Range(q) \cap Range(r), NEW y \in Range(r),
                      Before(q, x, y) \/ y \notin Range(q)
               PROVE  Before(r, x, y)
  BY DEF Continues
<1>6. y \in Range(c)
  <2>1. CASE r = c
    BY <2>1
  <2>2. CASE r # c
    <3>1. PICK k \in 1..(Len(c) - 1) : y = c[k + 1]
      BY <1>4, <2>2 DEF Range
    <3>2. k + 1 \in DOMAIN c
      BY <1>1, <3>1
    <3> QED BY <3>1, <3>2 DEF Range
  <2> QED BY <2>1, <2>2
<1>7. PICK i, j \in 1..Len(c) : i < j /\ c[i] = x /\ c[j] = y
  <2>1. CASE Before(q, x, y)
    BY <1>1, <2>1 DEF Before
  <2>2. CASE y \notin Range(q)
    <3>1. PICK i \in 1..n : c[i] = x
      BY <1>1 DEF Range
    <3>2. PICK j \in 1..Len(c) : c[j] = y
      BY <1>1, <1>6 DEF Range
    <3>3. j > n
      BY <1>1, <2>2, <3>2 DEF Range
    <3> QED BY <1>1, <3>1, <3>2, <3>3
  <2> QED BY <1>5, <2>1, <2>2
<1>8. CASE r = c
  BY <1>1, <1>7, <1>8 DEF Before
<1>9. CASE /\ Len(c) > 0 /\ DOMAIN r = 1..(Len(c) - 1)
           /\ \A k \in 1..(Len(c) - 1) : r[k] = c[k + 1]
  <2>1. PICK m \in 1..(Len(c) - 1) : c[m + 1] = x
    BY <1>9 DEF Range
  <2>2. i = m + 1
    BY <1>1, <1>2, <1>7, <2>1
  <2>3. /\ i - 1 \in 1..(Len(c) - 1) /\ j - 1 \in 1..(Len(c) - 1) /\ i - 1 < j - 1
        /\ (i - 1) + 1 = i /\ (j - 1) + 1 = j
    BY <1>1, <1>7, <2>2
  <2>4. i - 1 \in DOMAIN r /\ j - 1 \in DOMAIN r /\ r[i - 1] = x /\ r[j - 1] = y
    BY <1>7, <1>9, <2>3
  <2> QED BY <2>3, <2>4 DEF Before
<1> QED BY <1>4, <1>8, <1>9

\* So does the same queue, the one without its head, and one with p at its end.
LEMMA ContinuesCases ==
  ASSUME NEW S, NEW q, IsListOf(q, S)
  PROVE  /\ Continues(q, q) /\ Continues(q, RemoveProcQ(q)) /\ Continues(q, <<>>)
         /\ \A p \in S \ Range(q) : /\ Continues(q, InsertProcQ(q, p))
                                    /\ Continues(q, RemoveProcQ(InsertProcQ(q, p)))
<1>1. q \in Seq(S) /\ <<>> \in Seq(S) /\ q \o <<>> = q
  BY DEF IsListOf
<1>2. Continues(q, q) /\ Continues(q, RemoveProcQ(q))
  <2>1. IsListOf(q \o <<>>, S)
    BY <1>1
  <2> QED BY <1>1, <2>1, ContinuesLemma
<1>3. Continues(q, <<>>)
  BY EmptyList DEF Continues
<1>4. ASSUME NEW p \in S, p \notin Range(q)
      PROVE  /\ Continues(q, InsertProcQ(q, p))
             /\ Continues(q, RemoveProcQ(InsertProcQ(q, p)))
  <2>1. q \o <<p>> = InsertProcQ(q, p) /\ <<p>> \in Seq(S)
    BY <1>1 DEF InsertProcQ
  <2>0. IsListOf(InsertProcQ(q, p), S)
    BY <1>4, InsertProcQLemma
  <2>2. IsListOf(q \o <<p>>, S)
    BY <2>0, <2>1, Zenon
  <2> QED BY <1>1, <2>1, <2>2, ContinuesLemma
<1> QED BY <1>2, <1>3, <1>4

\* What the dispatch and the end of an interrupt leave of a ready queue.
LEMMA ReadyLemma ==
  ASSUME NEW ready, NEW soft, resume(ready, soft)
  PROVE  R_Queue' \in {ready, RemoveProcQ(ready)}
BY DEF resume, scheduler

\* A V takes the first process of one queue to the end of the ready queue.
LEMMA OrderV ==
  ASSUME Structure, NEW s \in Sem, V(s),
         R_Queue' \in {ReadyAfterV(s), RemoveProcQ(ReadyAfterV(s))}
  PROVE  Continues(R_Queue, R_Queue') /\ \A x \in Sem : Continues(procQ[x], procQ'[x])
<1>1. /\ \A x \in Sem : IsListOf(procQ[x], Live)
      /\ IsListOf(R_Queue, Live) /\ IsListOf(ReadyAfterV(s), Live)
      /\ procQ \in [Sem -> Seq(Pcb)] /\ procQ' = [procQ EXCEPT ![s] = RemoveProcQ(@)]
      /\ \A x \in Sem : Range(procQ[x]) \cap Range(R_Queue) = {}
  <2>1. \A x \in Sem : Range(procQ[x]) \subseteq Blocked
    BY PcbAssumption DEF Structure, OnePlace, Blocked
  <2> QED BY <2>1, VLemma DEF Structure, TypeOK, OnePlace, V, removeBlocked
<1>2. \A x \in Sem : Continues(procQ[x], procQ'[x])
  BY <1>1, ContinuesCases
<1>3. CASE procQ[s] = <<>>
  BY <1>1, <1>2, <1>3, ContinuesCases DEF ReadyAfterV
<1>4. CASE procQ[s] # <<>>
  <2>1. Head(procQ[s]) \in Live /\ Head(procQ[s]) \in Range(procQ[s])
    BY <1>1, <1>4, RemoveProcQLemma
  <2>2. Head(procQ[s]) \in Live \ Range(R_Queue)
    BY <1>1, <2>1
  <2> QED BY <1>1, <1>2, <1>4, <2>2, ContinuesCases DEF ReadyAfterV
<1> QED BY <1>3, <1>4

\* Who blocks goes to the end of one queue, and the head of the ready queue runs.
LEMMA OrderBlock ==
  ASSUME Structure, mode = "run", NEW s \in Sem, insertBlocked(s, CurrProc),
         NEW count, NEW soft, scheduler(R_Queue, count, soft)
  PROVE  Continues(R_Queue, R_Queue') /\ \A x \in Sem : Continues(procQ[x], procQ'[x])
<1>1. procQ' = [procQ EXCEPT ![s] = InsertProcQ(@, CurrProc)]
  BY DescriptorLemma DEF Structure, insertBlocked
<1>2. /\ \A x \in Sem : IsListOf(procQ[x], Live) /\ CurrProc \notin Range(procQ[x])
      /\ IsListOf(R_Queue, Live) /\ CurrProc \in Live /\ procQ \in [Sem -> Seq(Pcb)]
  <2>1. \A x \in Sem : Range(procQ[x]) \subseteq Blocked
    BY PcbAssumption DEF Structure, OnePlace, Blocked
  <2> QED BY <2>1 DEF Structure, TypeOK, OnePlace, Live
<1>3. \A x \in Sem : Continues(procQ[x], procQ'[x])
  BY <1>1, <1>2, ContinuesCases
<1> QED BY <1>2, <1>3, ContinuesCases DEF scheduler

\* Every step but those of a kill.
LEMMA OrderNext ==
  ASSUME Structure, [Next]_vars, mode # "kill"
  PROVE  Continues(R_Queue, R_Queue') /\ \A x \in Sem : Continues(procQ[x], procQ'[x])
<1>1. /\ \A x \in Sem : IsListOf(procQ[x], Live)
      /\ IsListOf(R_Queue, Live) /\ procQ \in [Sem -> Seq(Pcb)]
  BY DEF Structure, TypeOK, OnePlace
<1>2. CASE UNCHANGED <<R_Queue, procQ>>
  BY <1>1, <1>2, ContinuesCases
<1>3. CASE UNCHANGED vars \/ SYS2_TP \/ (\E d \in SubDev : Command(d) \/ DeviceDone(d))
  BY <1>2, <1>3 DEF vars, SYS2_TP, Command, DeviceDone, queues, sems
<1>4. CASE SYS1_CP
  <2>1. PICK p \in pcbFree : R_Queue' = InsertProcQ(R_Queue, p) /\ procQ' = procQ
    BY <1>4 DEF SYS1_CP
  <2>2. p \in Pcb /\ p \notin Range(R_Queue)
    BY <1>1, <2>1, ListOfRange DEF Structure, TypeOK, Live
  <2>3. IsListOf(R_Queue, Pcb)
    BY <1>1, ListOfRange DEF Live
  <2>4. Continues(R_Queue, R_Queue')
    BY <2>1, <2>2, <2>3, ContinuesCases
  <2> QED BY <1>1, <2>1, <2>4, ContinuesCases
<1>5. CASE \E s \in UserSem : SYS3_P(s)
  <2>1. PICK s \in UserSem : SYS3_P(s)
    BY <1>5
  <2>2. CASE UNCHANGED <<queues, procQ, p_semAdd>>
    BY <1>2, <2>2 DEF queues
  <2>3. CASE insertBlocked(s, CurrProc) /\ scheduler(R_Queue, ProcCount, SoftBlocked)
    BY <2>1, <2>3, OrderBlock DEF SYS3_P, Calls, Sem
  <2> QED BY <2>1, <2>2, <2>3 DEF SYS3_P
<1>6. CASE \E s \in UserSem : SYS4_V(s)
  BY <1>6, OrderV DEF SYS4_V, Sem
<1>7. CASE \E d \in SubDev : SYS5_W_IO(d)
  BY <1>7, OrderBlock DEF SYS5_W_IO, Sem, DevSem
<1>8. CASE SYS7_W_CLK
  BY <1>8, OrderBlock DEF SYS7_W_CLK, Calls, Sem, DevSem
<1>9. CASE PLT
  <2>1. /\ R_Queue' = RemoveProcQ(InsertProcQ(R_Queue, CurrProc)) /\ procQ' = procQ
        /\ CurrProc \in Live \ Range(R_Queue)
    BY <1>9 DEF PLT, scheduler, sems, Structure, TypeOK, OnePlace, Live
  <2> QED BY <1>1, <2>1, ContinuesCases
<1>10. CASE IntervalTimer
  <2>1. /\ R_Queue' \in {R_Queue \o procQ[Clock], RemoveProcQ(R_Queue \o procQ[Clock])}
        /\ procQ' = [procQ EXCEPT ![Clock] = <<>>]
    BY <1>10, ReadyLemma DEF IntervalTimer
  <2>2. Clock \in Sem
    BY DEF Sem, DevSem
  <2>3. IsListOf(R_Queue \o procQ[Clock], Live)
    <3>1. Range(procQ[Clock]) \subseteq Blocked
      BY <2>2, PcbAssumption DEF Structure, OnePlace, Blocked
    <3>2. Range(R_Queue) \cap Range(procQ[Clock]) = {}
      BY <3>1 DEF Structure, OnePlace
    <3> QED BY <1>1, <2>2, <3>2, ConcatLemma
  <2>4. R_Queue \in Seq(Live) /\ procQ[Clock] \in Seq(Live)
    BY <1>1, <2>2 DEF IsListOf
  <2>5. Continues(R_Queue, R_Queue')
    BY <2>1, <2>3, <2>4, ContinuesLemma
  <2> QED BY <1>1, <2>1, <2>5, ContinuesCases
<1>11. CASE (\E d \in Dev : DeviceInterrupt(d)) \/ (\E t \in Term : TerminalInterrupt(t))
  <2>1. PICK d \in SubDev : Non_T_Int(d)
    BY <1>11 DEF DeviceInterrupt, TerminalInterrupt, Interrupting, SubDev
  <2>2. /\ d \in Sem /\ V(d)
        /\ R_Queue' \in {ReadyAfterV(d), RemoveProcQ(ReadyAfterV(d))}
    BY <2>1, ReadyLemma DEF Non_T_Int, Sem, DevSem
  <2> QED BY <2>2, OrderV
<1> QED BY <1>3, <1>4, <1>5, <1>6, <1>7, <1>8, <1>9, <1>10, <1>11
        DEF Next, Stop, KillChild, KillFree

\* As long as no process is killed every queue is first in, first out.
THEOREM FirstInFirstOut == Spec => OldestFirstUnlessKilled
<1>1. Structure /\ [Next]_vars =>
        mode = "kill" \/ (Continues(R_Queue, R_Queue')
                          /\ \A s \in Sem : Continues(procQ[s], procQ'[s]))
  BY OrderNext
<1> QED BY <1>1, StructureInvariant, PTL DEF Spec, OldestFirstUnlessKilled
====
