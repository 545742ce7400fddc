---- MODULE NucleusProofs ----
(***************************************************************************)
(* Proofs about the nucleus, for every number of processes, semaphores and *)
(* devices.                                                                *)
(***************************************************************************)
EXTENDS Nucleus, PcbQueueProofs, FiniteSetTheorems

\* The inductive invariant of the lists.
Structure == TypeOK /\ OnePlace /\ Family

\* What scheduler() does to the place of the processes.
LEMMA SchedulerLemma ==
  ASSUME NEW S, S \subseteq Pcb, NEW ready, IsListOf(ready, S), NEW count, NEW soft,
         scheduler(ready, count, soft)
  PROVE  /\ mode' \in Mode \ {"kill"}
         /\ CurrProc' \in S \cup {NULL}
         /\ (CurrProc' = NULL) <=> (mode' \notin {"run", "kill"})
         /\ IsListOf(R_Queue', S)
         /\ CurrProc' \notin Range(R_Queue')
         /\ Range(ready) = Range(R_Queue') \cup ({CurrProc'} \ {NULL})
<1>1. NothingReady(count, soft) \in Mode \ {"run", "kill"}
  BY DEF NothingReady, Mode
<1>2. NULL \notin S
  BY PcbAssumption
<1>3. CASE ready = <<>>
  BY <1>1, <1>2, <1>3, EmptyList DEF scheduler, HeadProcQ, RemoveProcQ, Mode
<1>4. CASE ready # <<>>
  <2>1. CurrProc' = Head(ready) /\ R_Queue' = RemoveProcQ(ready) /\ mode' = "run"
    BY <1>4 DEF scheduler, HeadProcQ
  <2> QED BY <1>2, <1>4, <2>1, RemoveProcQLemma DEF Mode
<1> QED BY <1>3, <1>4

\* While a process runs there is a descriptor for whatever it blocks on: the
\* semaphores in use are at most as many as the other processes.
LEMMA DescriptorLemma ==
  ASSUME TypeOK, OnePlace, mode = "run"
  PROVE  \A s \in Sem : HasDescriptor(s)
<1> DEFINE first == [s \in Active |-> procQ[s][1]]
<1>1. \A s \in Active : procQ[s][1] \in Range(procQ[s]) /\ procQ[s][1] \in Pcb
  <2>1. SUFFICES ASSUME NEW s \in Active
                 PROVE procQ[s][1] \in Range(procQ[s]) /\ procQ[s][1] \in Pcb
    OBVIOUS
  <2>2. procQ[s] \in Seq(Pcb) /\ procQ[s] # <<>>
    BY DEF Active, TypeOK
  <2>3. 1 \in DOMAIN procQ[s]
    BY <2>2
  <2> QED BY <2>2, <2>3 DEF Range
<1>2. \A s \in Active : p_semAdd[procQ[s][1]] = s
  BY <1>1 DEF OnePlace, Active
<1>3. CurrProc \in Pcb /\ CurrProc \notin Blocked
  BY DEF OnePlace, TypeOK
<1>4. first \in Injection(Active, Pcb \ {CurrProc})
  <2>1. \A s \in Active : procQ[s][1] \in Blocked
    BY <1>1, <1>2, PcbAssumption DEF Blocked, Active
  <2>2. first \in [Active -> Pcb \ {CurrProc}]
    BY <1>1, <1>3, <2>1
  <2>3. IsInjective(first)
    BY <1>2 DEF IsInjective
  <2> QED BY <2>2, <2>3 DEF Injection
<1>5. IsFiniteSet(Pcb \ {CurrProc}) /\ Cardinality(Pcb \ {CurrProc}) = Cardinality(Pcb) - 1
  BY <1>3, PcbAssumption, FS_RemoveElement
<1>6. IsFiniteSet(Active) /\ Cardinality(Active) <= Cardinality(Pcb) - 1
  BY <1>4, <1>5, FS_Injection
<1>7. Cardinality(Active) \in Nat /\ Cardinality(Pcb) \in Nat
  BY <1>6, PcbAssumption, FS_CardinalityType
<1> QED BY <1>6, <1>7, SemdAssumption DEF HasDescriptor

\* What the end of an interrupt handler does to the place of the processes.
LEMMA ResumeLemma ==
  ASSUME TypeOK, OnePlace, mode \in {"run", "idle"},
         NEW ready, IsListOf(ready, Live), CurrProc \notin Range(ready),
         NEW soft, resume(ready, soft)
  PROVE  /\ mode' \in Mode \ {"kill"}
         /\ CurrProc' \in Live \cup {NULL}
         /\ (CurrProc' = NULL) <=> (mode' \notin {"run", "kill"})
         /\ IsListOf(R_Queue', Live)
         /\ CurrProc' \notin Range(R_Queue')
         /\ Range(ready) \cup ({CurrProc} \ {NULL})
              = Range(R_Queue') \cup ({CurrProc'} \ {NULL})
<1>1. CASE CurrProc = NULL
  <2>1. scheduler(ready, ProcCount, soft)
    BY <1>1 DEF resume
  <2>2. Live \subseteq Pcb
    BY DEF Live
  <2> QED BY <1>1, <2>1, <2>2, SchedulerLemma
<1>2. CASE CurrProc # NULL
  <2>1. UNCHANGED <<CurrProc, mode>> /\ R_Queue' = ready
    BY <1>2 DEF resume
  <2> QED BY <1>2, <2>1 DEF OnePlace, TypeOK, Mode, Live
<1> QED BY <1>1, <1>2

\* A running process that blocks on s is in the queue of s, and nowhere else.
LEMMA BlockLemma ==
  ASSUME Structure, mode = "run", NEW s \in Sem, insertBlocked(s, CurrProc),
         NEW count, NEW soft, scheduler(R_Queue, count, soft), UNCHANGED pcbFree
  PROVE  /\ OnePlace'
         /\ mode' \in Mode \ {"kill"}
         /\ CurrProc' \in Pcb \cup {NULL}
         /\ R_Queue' \in Seq(Pcb)
         /\ procQ' \in [Sem -> Seq(Pcb)]
         /\ p_semAdd' \in [Pcb -> Sem \cup {NULL}]
<1> DEFINE c == CurrProc
<1>1. /\ procQ' = [procQ EXCEPT ![s] = InsertProcQ(@, c)]
      /\ p_semAdd' = [p_semAdd EXCEPT ![c] = s]
  BY DescriptorLemma DEF Structure, insertBlocked
<1>2. c \in Live /\ c \in Pcb /\ c \notin Blocked /\ p_semAdd[c] = NULL
  BY DEF Structure, OnePlace, TypeOK, Live, Blocked
<1>3. Live' = Live /\ Live \subseteq Pcb /\ NULL \notin Pcb /\ NULL \notin Sem
  BY PcbAssumption DEF Live
<1>4. procQ \in [Sem -> Seq(Pcb)] /\ p_semAdd \in [Pcb -> Sem \cup {NULL}]
  BY DEF Structure, TypeOK
<1>5. \A x \in Sem : c \notin Range(procQ[x])
  BY <1>2, <1>3 DEF Structure, OnePlace
<1>6. \A x \in Sem :
        /\ IsListOf(procQ'[x], Live)
        /\ Range(procQ'[x]) = IF x = s THEN Range(procQ[x]) \cup {c} ELSE Range(procQ[x])
  <2>1. \A x \in Sem : IsListOf(procQ[x], Live)
    BY DEF Structure, OnePlace
  <2>2. /\ IsListOf(InsertProcQ(procQ[s], c), Live)
        /\ Range(InsertProcQ(procQ[s], c)) = Range(procQ[s]) \cup {c}
    BY <1>2, <1>5, <2>1, InsertProcQLemma
  <2> QED BY <1>1, <1>4, <2>1, <2>2
<1>7. Blocked' = Blocked \cup {c}
  BY <1>1, <1>2, <1>3, <1>4 DEF Blocked
<1>8. \A x \in Sem : Range(procQ'[x]) = {p \in Pcb : p_semAdd'[p] = x}
  BY <1>1, <1>2, <1>3, <1>4, <1>6 DEF Structure, OnePlace
<1>9. /\ mode' \in Mode \ {"kill"}
      /\ CurrProc' \in Live \cup {NULL}
      /\ (CurrProc' = NULL) <=> (mode' \notin {"run", "kill"})
      /\ IsListOf(R_Queue', Live)
      /\ CurrProc' \notin Range(R_Queue')
      /\ Range(R_Queue) = Range(R_Queue') \cup ({CurrProc'} \ {NULL})
  BY <1>3, SchedulerLemma DEF Structure, OnePlace
<1>10. c \notin Range(R_Queue) /\ NULL \notin Live' /\ NULL \notin Blocked'
  BY <1>3 DEF Structure, OnePlace, Live, Blocked
<1>11. Live = Blocked \cup Range(R_Queue) \cup {c} /\ Blocked \cap Range(R_Queue) = {}
  BY <1>2, <1>3 DEF Structure, OnePlace
<1>12. R_Queue' \in Seq(Pcb) /\ Range(R_Queue') \subseteq Live
  BY <1>3, <1>9, ListOfRange DEF IsListOf
<1>13. procQ' \in [Sem -> Seq(Pcb)] /\ p_semAdd' \in [Pcb -> Sem \cup {NULL}]
  BY <1>1, <1>2, <1>4 DEF InsertProcQ
<1>14. Blocked' \cap Range(R_Queue') = {} /\ CurrProc' \notin Blocked' \cup pcbFree'
  <2>1. Blocked' \cap Range(R_Queue) = {} /\ Blocked' \subseteq Live
    BY <1>2, <1>7, <1>10, <1>11
  <2>2. Blocked' \cap Range(R_Queue') = {} /\ CurrProc' \notin Blocked'
    BY <1>9, <1>10, <2>1
  <2>3. CurrProc' \notin pcbFree'
    <3>1. Live' \cap pcbFree' = {}
      BY DEF Live
    <3>2. NULL \notin pcbFree'
      BY <1>3 DEF Structure, TypeOK
    <3> QED BY <1>3, <1>9, <3>1, <3>2
  <2> QED BY <2>2, <2>3
<1>15. Live' = Blocked' \cup Range(R_Queue') \cup ({CurrProc'} \ {NULL})
  BY <1>3, <1>7, <1>9, <1>11
<1>16. OnePlace'
  <2>1. IsListOf(R_Queue', Live') /\ \A x \in Sem : IsListOf(procQ'[x], Live')
    BY <1>3, <1>6, <1>9
  <2>2. CurrProc' \notin pcbFree' \cup Blocked' \cup Range(R_Queue')
    BY <1>9, <1>14
  <2> QED BY <1>8, <1>9, <1>14, <1>15, <2>1, <2>2 DEF OnePlace
<1> QED BY <1>3, <1>9, <1>12, <1>13, <1>16

\* A step between running and waiting leaves the families alone.
LEMMA FamilyUnchanged ==
  ASSUME Structure, mode # "kill", mode' # "kill",
         UNCHANGED <<pcbFree, p_child, p_prnt, killStack>>
  PROVE  Family'
BY DEF Structure, Family, Live

\* A V on s moves the process at the head of its queue, if any, to the end of
\* the ready queue.
LEMMA VLemma ==
  ASSUME Structure, NEW s \in Sem, V(s)
  PROVE  /\ IsListOf(ReadyAfterV(s), Live)
         /\ CurrProc \notin Range(ReadyAfterV(s))
         /\ \A x \in Sem : IsListOf(procQ'[x], Live)
         /\ \A x \in Sem : Range(procQ'[x]) = {p \in Pcb : p_semAdd'[p] = x}
         /\ Blocked' \subseteq Blocked
         /\ Blocked' \cap Range(ReadyAfterV(s)) = {}
         /\ Blocked \cup Range(R_Queue) = Blocked' \cup Range(ReadyAfterV(s))
         /\ procQ' \in [Sem -> Seq(Pcb)]
         /\ p_semAdd' \in [Pcb -> Sem \cup {NULL}]
<1> DEFINE h == Head(procQ[s])
<1>1. /\ procQ \in [Sem -> Seq(Pcb)]
      /\ p_semAdd \in [Pcb -> Sem \cup {NULL}]
      /\ procQ' = [procQ EXCEPT ![s] = RemoveProcQ(@)]
      /\ p_semAdd' = [p \in Pcb |-> IF p = HeadProcQ(procQ[s], NULL)
                                    THEN NULL ELSE p_semAdd[p]]
  BY DEF Structure, TypeOK, V, removeBlocked
<1>2. Live \subseteq Pcb /\ NULL \notin Pcb /\ NULL \notin Sem
  BY PcbAssumption DEF Live
<1>3. /\ \A x \in Sem : IsListOf(procQ[x], Live)
      /\ \A x \in Sem : Range(procQ[x]) = {p \in Pcb : p_semAdd[p] = x}
      /\ IsListOf(R_Queue, Live)
      /\ Blocked \cap Range(R_Queue) = {}
      /\ CurrProc \notin Blocked \cup Range(R_Queue)
      /\ Blocked = {p \in Pcb : p_semAdd[p] # NULL}
  BY DEF Structure, OnePlace, Blocked
<1>4. Blocked' = {p \in Pcb : p_semAdd'[p] # NULL}
  BY DEF Blocked
<1>5. CASE procQ[s] = <<>>
  <2>1. procQ' = procQ /\ p_semAdd' = p_semAdd
    BY <1>1, <1>2, <1>5 DEF RemoveProcQ, HeadProcQ
  <2>2. ReadyAfterV(s) = R_Queue
    BY <1>5 DEF ReadyAfterV
  <2> QED BY <1>1, <1>3, <1>4, <2>1, <2>2
<1>6. CASE procQ[s] # <<>>
  <2>1. /\ h \in Live /\ h \in Range(procQ[s])
        /\ IsListOf(RemoveProcQ(procQ[s]), Live)
        /\ Range(RemoveProcQ(procQ[s])) = Range(procQ[s]) \ {h}
    BY <1>3, <1>6, RemoveProcQLemma
  <2>2. p_semAdd' = [p \in Pcb |-> IF p = h THEN NULL ELSE p_semAdd[p]]
    BY <1>1, <1>6 DEF HeadProcQ
  <2>3. h \in Pcb /\ p_semAdd[h] = s /\ h \in Blocked /\ h \notin Range(R_Queue)
    BY <1>2, <1>3, <2>1
  <2>4. ReadyAfterV(s) = InsertProcQ(R_Queue, h)
    BY <1>6 DEF ReadyAfterV
  <2> HIDE DEF h
  <2>5. /\ IsListOf(ReadyAfterV(s), Live)
        /\ Range(ReadyAfterV(s)) = Range(R_Queue) \cup {h}
    BY <1>3, <2>1, <2>3, <2>4, InsertProcQLemma
  <2>6. \A x \in Sem : IsListOf(procQ'[x], Live)
    BY <1>1, <1>3, <2>1
  <2>7. Blocked' = Blocked \ {h}
    BY <1>3, <1>4, <2>2
  <2>8. \A x \in Sem : Range(procQ'[x]) = {p \in Pcb : p_semAdd'[p] = x}
    BY <1>1, <1>2, <1>3, <2>1, <2>2, <2>3
  <2>9. procQ' \in [Sem -> Seq(Pcb)] /\ p_semAdd' \in [Pcb -> Sem \cup {NULL}]
    <3>1. RemoveProcQ(procQ[s]) \in Seq(Pcb)
      BY <1>1, <1>6 DEF RemoveProcQ
    <3> QED BY <1>1, <2>2, <3>1
  <2>10. CurrProc \notin Range(ReadyAfterV(s))
    BY <1>3, <2>3, <2>5
  <2> QED BY <1>3, <2>3, <2>5, <2>6, <2>7, <2>8, <2>9, <2>10
<1> QED BY <1>5, <1>6

\* After an interrupt or a V every process is still in one place.
LEMMA WokenLemma ==
  ASSUME Structure, mode \in {"run", "idle"}, UNCHANGED pcbFree,
         NEW ready, IsListOf(ready, Live), CurrProc \notin Range(ready),
         NEW soft, resume(ready, soft),
         \A x \in Sem : IsListOf(procQ'[x], Live),
         \A x \in Sem : Range(procQ'[x]) = {p \in Pcb : p_semAdd'[p] = x},
         Blocked' \subseteq Blocked,
         Blocked' \cap Range(ready) = {},
         Blocked \cup Range(R_Queue) = Blocked' \cup Range(ready)
  PROVE  /\ OnePlace'
         /\ mode' \in Mode \ {"kill"}
         /\ CurrProc' \in Pcb \cup {NULL}
         /\ R_Queue' \in Seq(Pcb)
<1>1. /\ mode' \in Mode \ {"kill"}
      /\ CurrProc' \in Live \cup {NULL}
      /\ (CurrProc' = NULL) <=> (mode' \notin {"run", "kill"})
      /\ IsListOf(R_Queue', Live)
      /\ CurrProc' \notin Range(R_Queue')
      /\ Range(ready) \cup ({CurrProc} \ {NULL})
           = Range(R_Queue') \cup ({CurrProc'} \ {NULL})
  BY ResumeLemma DEF Structure
<1>2. Live' = Live /\ Live \subseteq Pcb /\ NULL \notin Pcb /\ Live \cap pcbFree' = {}
  BY PcbAssumption DEF Live
<1>3. NULL \notin Blocked' /\ NULL \notin pcbFree'
  BY <1>2 DEF Blocked, Structure, TypeOK
<1>4. /\ Live = Blocked \cup Range(R_Queue) \cup ({CurrProc} \ {NULL})
      /\ CurrProc \notin Blocked
  BY DEF Structure, OnePlace
<1>5. Live' = Blocked' \cup Range(R_Queue') \cup ({CurrProc'} \ {NULL})
  BY <1>1, <1>2, <1>4
<1>6. Blocked' \cap (Range(R_Queue') \cup {CurrProc'}) = {}
  BY <1>1, <1>3, <1>4
<1>7. CurrProc' \notin pcbFree' \cup Blocked' \cup Range(R_Queue')
  BY <1>1, <1>2, <1>3, <1>6
<1>8. IsListOf(R_Queue', Live') /\ \A x \in Sem : IsListOf(procQ'[x], Live')
  BY <1>1, <1>2
<1>9. OnePlace'
  BY <1>1, <1>5, <1>6, <1>7, <1>8 DEF OnePlace
<1>10. R_Queue' \in Seq(Pcb)
  BY <1>1, <1>2, ListOfRange DEF IsListOf
<1> QED BY <1>1, <1>2, <1>9, <1>10

----------------------------------------------------------------------------
\* main() leaves the lists consistent; the lemmas below follow the actions.
LEMMA StructureInit == Init => Structure
<1> SUFFICES ASSUME Init PROVE Structure
  OBVIOUS
<1>1. Live = {CurrProc} /\ Blocked = {} /\ NULL \notin Pcb
  BY PcbAssumption DEF Init, Live, Blocked
<1>2. \A S : IsListOf(<<>>, S) /\ Range(<<>>) = {}
  BY EmptyList
<1>3. \A s \in Sem : procQ[s] = <<>> /\ {p \in Pcb : p_semAdd[p] = s} = {}
  BY PcbAssumption DEF Init
<1>4. TypeOK
  <2>1. <<>> \in Seq(Pcb)
    OBVIOUS
  <2>2. semVal \in [Sem -> Int]
    BY DEF Init
  <2> QED BY <2>1, <2>2 DEF Init, TypeOK, Mode
<1>5. OnePlace
  BY <1>1, <1>2, <1>3 DEF Init, OnePlace
<1>6. Family
  BY <1>1, <1>2 DEF Init, Family
<1> QED BY <1>4, <1>5, <1>6 DEF Structure

\* SYS1 moves a PCB from the free list to the ready queue and to the children of
\* its creator.
LEMMA StructureCreate == Structure /\ SYS1_CP => Structure'
<1> SUFFICES ASSUME Structure, SYS1_CP PROVE Structure'
  OBVIOUS
<1>1. PICK p \in pcbFree :
        /\ pcbFree' = pcbFree \ {p}
        /\ R_Queue' = InsertProcQ(R_Queue, p)
        /\ p_child' = [p_child EXCEPT ![p] = <<>>, ![CurrProc] = InsertChild(@, p)]
        /\ p_prnt' = [p_prnt EXCEPT ![p] = CurrProc]
        /\ p_semAdd' = [p_semAdd EXCEPT ![p] = NULL]
  BY DEF SYS1_CP
<1>2. UNCHANGED <<mode, CurrProc, SoftBlocked, semVal, procQ, killStack, devReg, cmd>>
      /\ ProcCount' = ProcCount + 1 /\ mode = "run"
  BY DEF SYS1_CP, Calls, io
<1>3. /\ p \in Pcb /\ p \notin Live /\ Live' = Live \cup {p} /\ Live \subseteq Pcb
      /\ CurrProc \in Live /\ CurrProc # p /\ NULL \notin Pcb
  BY <1>1, <1>2, PcbAssumption DEF Structure, TypeOK, OnePlace, Live
<1>4. TypeOK /\ OnePlace /\ Family
  BY DEF Structure
<1>5. p_semAdd[p] = NULL /\ p \notin Range(R_Queue) /\ p \notin Blocked
  BY <1>3, <1>4, ListOfRange DEF OnePlace, Blocked, Live
<1>6. p_semAdd' = p_semAdd /\ Blocked' = Blocked
  BY <1>1, <1>4, <1>5 DEF TypeOK, Blocked
<1>7. IsListOf(R_Queue', Live') /\ Range(R_Queue') = Range(R_Queue) \cup {p}
  <2>1. IsListOf(R_Queue, Live')
    BY <1>3, <1>4, ListOfRange DEF OnePlace
  <2> QED BY <1>1, <1>3, <1>5, <2>1, InsertProcQLemma
<1>8. OnePlace'
  <2>1. \A s \in Sem : IsListOf(procQ'[s], Live')
    BY <1>2, <1>3, <1>4, ListOfRange DEF OnePlace
  <2>2. \A s \in Sem : Range(procQ'[s]) = {x \in Pcb : p_semAdd'[x] = s}
    BY <1>2, <1>4, <1>6 DEF OnePlace
  <2>3. CurrProc' \notin pcbFree' \cup Blocked' \cup Range(R_Queue')
    BY <1>1, <1>2, <1>3, <1>4, <1>6, <1>7 DEF OnePlace
  <2>4. Blocked' \cap Range(R_Queue') = {}
    BY <1>4, <1>5, <1>6, <1>7 DEF OnePlace
  <2>5. Live' = Blocked' \cup Range(R_Queue') \cup ({CurrProc'} \ {NULL})
    BY <1>2, <1>3, <1>4, <1>6, <1>7 DEF OnePlace
  <2>6. (CurrProc' = NULL) <=> (mode' \notin {"run", "kill"})
    BY <1>2, <1>4 DEF OnePlace
  <2> QED BY <1>7, <2>1, <2>2, <2>3, <2>4, <2>5, <2>6 DEF OnePlace
<1>9. p_child' = [q \in Pcb |-> IF q = p THEN <<>>
                                ELSE IF q = CurrProc THEN InsertChild(p_child[q], p)
                                ELSE p_child[q]]
  BY <1>1, <1>3, <1>4 DEF TypeOK
<1>10. killStack = <<>> /\ killStack' = <<>> /\ Range(killStack) = {} /\ Range(killStack') = {}
  BY <1>2, <1>4, EmptyList DEF Family
<1>11. \A q \in Pcb : IsListOf(p_child[q], Live') /\ p \notin Range(p_child[q])
  <2>1. SUFFICES ASSUME NEW q \in Pcb
                 PROVE  IsListOf(p_child[q], Live') /\ p \notin Range(p_child[q])
    OBVIOUS
  <2>2. IsListOf(p_child[q], Live \ Range(killStack))
    BY <1>4 DEF Family
  <2>3. Range(p_child[q]) \subseteq Live
    BY <2>2, ListOfRange
  <2> QED BY <1>3, <2>2, <2>3, ListOfRange
<1>12. /\ IsListOf(p_child'[CurrProc], Live')
       /\ Range(p_child'[CurrProc]) = Range(p_child[CurrProc]) \cup {p}
  <2>1. p_child'[CurrProc] = InsertChild(p_child[CurrProc], p) /\ p \in Live'
    BY <1>3, <1>9
  <2>2. IsListOf(p_child[CurrProc], Live') /\ p \notin Range(p_child[CurrProc])
    BY <1>3, <1>11
  <2> QED BY <2>1, <2>2, InsertChildLemma
<1>13. \A q \in Pcb : IsListOf(p_child'[q], Live' \ Range(killStack'))
  BY <1>3, <1>9, <1>10, <1>11, <1>12, EmptyList
<1>14. p_child[p] = <<>> /\ p_child'[p] = <<>>
  BY <1>1, <1>3, <1>4, <1>9 DEF Family
<1>15. \A q \in Pcb : Range(p_child'[q]) =
                        IF q = CurrProc THEN Range(p_child[q]) \cup {p} ELSE Range(p_child[q])
  BY <1>3, <1>9, <1>12, <1>14
<1>16. /\ p_prnt'[p] = CurrProc
       /\ \A q \in Pcb \ {p} : p_prnt'[q] = p_prnt[q]
  BY <1>1, <1>3, <1>4 DEF TypeOK
<1>17. Family'
  <2>1. IsListOf(killStack', Live')
    BY <1>10, EmptyList
  <2>2. \A q \in pcbFree' : p_child'[q] = <<>>
    BY <1>1, <1>3, <1>4, <1>9 DEF Family, TypeOK, OnePlace
  <2>3. \A q \in Pcb : \A c \in Range(p_child'[q]) : p_prnt'[c] = q
    <3>1. SUFFICES ASSUME NEW q \in Pcb, NEW c \in Range(p_child'[q]) PROVE p_prnt'[c] = q
      OBVIOUS
    <3>2. CASE c = p
      BY <1>11, <1>15, <1>16, <3>1, <3>2
    <3>3. CASE c # p
      <4>1. c \in Range(p_child[q]) /\ c \in Pcb
        <5>1. c \in Range(p_child[q])
          BY <1>15, <3>1, <3>3
        <5>2. Range(p_child[q]) \subseteq Live'
          BY <1>11, <3>1, ListOfRange
        <5> QED BY <1>3, <5>1, <5>2
      <4> QED BY <1>4, <1>16, <3>3, <4>1 DEF Family
    <3> QED BY <3>2, <3>3
  <2>4. \A c \in Live' \ Range(killStack') :
          p_prnt'[c] # NULL => c \in Range(p_child'[p_prnt'[c]])
    <3>1. SUFFICES ASSUME NEW c \in Live', p_prnt'[c] # NULL
                   PROVE  c \in Range(p_child'[p_prnt'[c]])
      OBVIOUS
    <3>2. CASE c = p
      BY <1>3, <1>15, <1>16, <3>2
    <3>3. CASE c # p
      <4>1. c \in Live /\ p_prnt'[c] = p_prnt[c] /\ p_prnt[c] \in Pcb
        BY <1>3, <1>4, <1>16, <3>1, <3>3 DEF TypeOK
      <4>2. c \in Range(p_child[p_prnt[c]])
        BY <1>4, <1>10, <3>1, <4>1 DEF Family
      <4> QED BY <1>15, <4>1, <4>2
    <3> QED BY <3>2, <3>3
  <2>5. ((mode' = "kill") <=> (killStack' # <<>>)) /\ (mode' = "kill" => killStack'[1] = CurrProc')
    BY <1>2, <1>10
  <2> QED BY <1>13, <2>1, <2>2, <2>3, <2>4, <2>5 DEF Family
<1>18. TypeOK'
  <2>1. R_Queue' \in Seq(Pcb)
    BY <1>1, <1>3, <1>4 DEF TypeOK, InsertProcQ
  <2>2. p_child' \in [Pcb -> Seq(Pcb)]
    <3>1. p_child[CurrProc] \in Seq(Pcb) /\ p_child \in [Pcb -> Seq(Pcb)]
      BY <1>3, <1>4 DEF TypeOK
    <3>2. InsertChild(p_child[CurrProc], p) \in Seq(Pcb)
      BY <1>3, <3>1 DEF InsertChild
    <3> QED BY <1>9, <3>1, <3>2
  <2>3. p_prnt' \in [Pcb -> Pcb \cup {NULL}]
    BY <1>1, <1>3, <1>4 DEF TypeOK
  <2>4. pcbFree' \subseteq Pcb /\ ProcCount' \in Int
    BY <1>1, <1>2, <1>4 DEF TypeOK
  <2> QED BY <1>2, <1>4, <1>6, <2>1, <2>2, <2>3, <2>4 DEF TypeOK
<1> QED BY <1>8, <1>17, <1>18 DEF Structure

\* SYS2 takes the running process from its parent's children to killprocT.
LEMMA StructureTerminate == Structure /\ SYS2_TP => Structure'
<1> SUFFICES ASSUME Structure, SYS2_TP PROVE Structure'
  OBVIOUS
<1> DEFINE c == CurrProc
<1>1. /\ p_child' = [q \in Pcb |-> IF q = p_prnt[c] THEN Unlink(p_child[q], c)
                                   ELSE p_child[q]]
      /\ killStack' = <<c>> /\ mode' = "kill" /\ mode = "run"
      /\ UNCHANGED <<CurrProc, R_Queue, ProcCount, SoftBlocked, pcbFree, p_prnt,
                     semVal, procQ, p_semAdd, devReg, cmd>>
  BY DEF SYS2_TP, Calls, sems, io
<1>2. TypeOK /\ OnePlace /\ Family
  BY DEF Structure
<1>3. c \in Live /\ c \in Pcb /\ Live' = Live /\ Blocked' = Blocked /\ Live \subseteq Pcb
  BY <1>1, <1>2 DEF TypeOK, OnePlace, Live, Blocked
<1>4. OnePlace'
  BY <1>1, <1>2, <1>3 DEF OnePlace
<1>5. IsListOf(killStack', Live) /\ Range(killStack') = {c}
  <2>1. InsertProcQ(<<>>, c) = <<c>>
    BY DEF InsertProcQ
  <2>2. IsListOf(<<>>, Live) /\ Range(<<>>) = {}
    BY EmptyList
  <2>3. /\ IsListOf(InsertProcQ(<<>>, c), Live)
        /\ Range(InsertProcQ(<<>>, c)) = {} \cup {c}
    BY <1>3, <2>2, InsertProcQLemma
  <2> QED BY <1>1, <2>1, <2>3
<1>6. killStack = <<>> /\ Range(killStack) = {}
  BY <1>1, <1>2, EmptyList DEF Family
<1>7. ASSUME NEW q \in Pcb
      PROVE  /\ IsListOf(p_child'[q], Live)
             /\ Range(p_child'[q]) = Range(p_child[q]) \ {c}
             /\ p_child'[q] \in Seq(Pcb)
             /\ p_child[q] = <<>> => p_child'[q] = <<>>
  <2>1. IsListOf(p_child[q], Live) /\ IsListOf(p_child[q], Pcb)
    <3>1. IsListOf(p_child[q], Live \ Range(killStack))
      BY <1>2 DEF Family
    <3>2. Range(p_child[q]) \subseteq Live
      BY <3>1, ListOfRange
    <3> QED BY <1>3, <3>1, <3>2, ListOfRange
  <2>2. CASE q = p_prnt[c] /\ c \in Range(p_child[q])
    <3>1. p_child'[q] = Unlink(p_child[q], c)
      BY <1>1, <2>2
    <3>2. IsListOf(p_child'[q], Live) /\ Range(p_child'[q]) = Range(p_child[q]) \ {c}
      BY <2>1, <2>2, <3>1, UnlinkLemma
    <3>3. IsListOf(p_child'[q], Pcb) /\ p_child[q] # <<>>
      BY <2>1, <2>2, <3>1, UnlinkLemma, EmptyList
    <3> QED BY <3>2, <3>3 DEF IsListOf
  <2>3. CASE ~(q = p_prnt[c] /\ c \in Range(p_child[q]))
    <3>1. c \notin Range(p_child[q])
      BY <1>2, <2>3 DEF Family
    <3>2. p_child'[q] = p_child[q]
      BY <1>1, <3>1 DEF Unlink
    <3> QED BY <2>1, <3>1, <3>2 DEF IsListOf
  <2> QED BY <2>2, <2>3
<1>8. Family'
  <2>1. \A q \in Pcb : IsListOf(p_child'[q], Live' \ Range(killStack'))
    <3>1. SUFFICES ASSUME NEW q \in Pcb PROVE IsListOf(p_child'[q], Live \ {c})
      BY <1>3, <1>5
    <3>2. IsListOf(p_child'[q], Live) /\ c \notin Range(p_child'[q])
      BY <1>7
    <3>3. Range(p_child'[q]) \subseteq Live \ {c}
      BY <3>2, ListOfRange
    <3> QED BY <3>2, <3>3, ListOfRange
  <2>2. \A q \in pcbFree' : p_child'[q] = <<>>
    BY <1>1, <1>2, <1>7 DEF Family, TypeOK
  <2>3. \A q \in Pcb : \A x \in Range(p_child'[q]) : p_prnt'[x] = q
    <3>1. SUFFICES ASSUME NEW q \in Pcb, NEW x \in Range(p_child'[q]) PROVE p_prnt[x] = q
      BY <1>1
    <3>2. x \in Range(p_child[q])
      BY <1>7
    <3> QED BY <1>2, <3>2 DEF Family
  <2>4. \A x \in Live' \ Range(killStack') :
          p_prnt'[x] # NULL => x \in Range(p_child'[p_prnt'[x]])
    <3>1. SUFFICES ASSUME NEW x \in Live \ {c}, p_prnt[x] # NULL
                   PROVE  x \in Range(p_child'[p_prnt[x]])
      BY <1>1, <1>3, <1>5
    <3>2. x \in Live \ Range(killStack) /\ x \in Pcb
      BY <1>3, <1>6
    <3>3. p_prnt[x] \in Pcb /\ x \in Range(p_child[p_prnt[x]])
      BY <1>2, <3>1, <3>2 DEF Family, TypeOK
    <3>4. Range(p_child'[p_prnt[x]]) = Range(p_child[p_prnt[x]]) \ {c}
      BY <1>7, <3>3
    <3> QED BY <3>3, <3>4
  <2>5. killStack' # <<>> /\ killStack'[1] = CurrProc'
    BY <1>1
  <2> QED BY <1>1, <1>3, <1>5, <2>1, <2>2, <2>3, <2>4, <2>5 DEF Family
<1>9. TypeOK'
  <2>1. p_child' \in [Pcb -> Seq(Pcb)] /\ killStack' \in Seq(Pcb)
    <3>1. \A q \in Pcb : p_child'[q] \in Seq(Pcb)
      BY <1>7
    <3> QED BY <1>1, <1>3, <3>1
  <2> QED BY <1>1, <1>2, <2>1 DEF TypeOK, Mode
<1> QED BY <1>4, <1>8, <1>9 DEF Structure

\* The call of killprocT in progress, while there is one.
LEMMA VictimLemma ==
  ASSUME Structure, mode = "kill"
  PROVE  /\ killStack # <<>>
         /\ Victim \in Range(killStack) /\ Victim \in Live /\ Victim \in Pcb
         /\ \A q \in Pcb : Victim \notin Range(p_child[q])
         /\ \A q \in Pcb : IsListOf(p_child[q], Live) /\ IsListOf(p_child[q], Pcb)
         /\ Range(killStack) \subseteq Live
<1>1. killStack # <<>> /\ IsListOf(killStack, Live) /\ Live \subseteq Pcb
  BY DEF Structure, Family, Live
<1>2. Victim \in Live /\ Victim \in Range(killStack)
  BY <1>1, FrontLemma DEF Victim
<1>3. \A q \in Pcb : IsListOf(p_child[q], Live \ Range(killStack))
  BY DEF Structure, Family
<1>4. ASSUME NEW q \in Pcb
      PROVE  /\ Victim \notin Range(p_child[q])
             /\ IsListOf(p_child[q], Live) /\ IsListOf(p_child[q], Pcb)
  <2>1. Range(p_child[q]) \subseteq Live \ Range(killStack)
    BY <1>3, ListOfRange
  <2>2. Range(p_child[q]) \subseteq Live
    BY <2>1
  <2> QED BY <1>1, <1>2, <1>3, <2>1, <2>2, ListOfRange
<1>5. Range(killStack) \subseteq Live
  BY <1>1, ListOfRange
<1> QED BY <1>1, <1>2, <1>4, <1>5

\* killprocT takes a child from its parent's list to its own calls.
LEMMA StructureKillChild == Structure /\ KillChild => Structure'
<1> SUFFICES ASSUME Structure, KillChild PROVE Structure'
  OBVIOUS
<1> DEFINE v == Victim
           h == Head(p_child[v])
<1>1. /\ mode = "kill" /\ p_child[v] # <<>>
      /\ killStack' = Append(killStack, h)
      /\ p_child' = [p_child EXCEPT ![v] = RemoveProcQ(@)]
      /\ UNCHANGED <<mode, CurrProc, R_Queue, ProcCount, SoftBlocked, pcbFree, p_prnt,
                     semVal, procQ, p_semAdd, devReg, cmd>>
  BY DEF KillChild, queues, sems, io
<1>2. TypeOK /\ OnePlace /\ Family
  BY DEF Structure
<1>3. /\ killStack # <<>> /\ v \in Live /\ v \in Pcb /\ v \in Range(killStack)
      /\ \A q \in Pcb : IsListOf(p_child[q], Live) /\ IsListOf(p_child[q], Pcb)
      /\ Range(killStack) \subseteq Live
  BY <1>1, VictimLemma
<1> HIDE DEF v
<1>4. Live' = Live /\ Blocked' = Blocked /\ Live \subseteq Pcb
  BY <1>1 DEF Live, Blocked
<1>5. OnePlace'
  BY <1>1, <1>2, <1>4 DEF OnePlace
<1>6. /\ h \in Live /\ h \in Pcb /\ h \in Range(p_child[v])
      /\ IsListOf(RemoveProcQ(p_child[v]), Live)
      /\ RemoveProcQ(p_child[v]) \in Seq(Pcb)
      /\ Range(RemoveProcQ(p_child[v])) = Range(p_child[v]) \ {h}
  <2>1. IsListOf(RemoveProcQ(p_child[v]), Pcb)
    BY <1>1, <1>3, RemoveProcQLemma
  <2> QED BY <1>1, <1>3, <1>4, <2>1, RemoveProcQLemma DEF IsListOf
<1> HIDE DEF h
<1>7. h \notin Range(killStack)
  <2>1. IsListOf(p_child[v], Live \ Range(killStack))
    BY <1>2, <1>3 DEF Family
  <2>2. Range(p_child[v]) \subseteq Live \ Range(killStack)
    BY <2>1, ListOfRange
  <2> QED BY <1>6, <2>2
<1>8. IsListOf(killStack', Live) /\ Range(killStack') = Range(killStack) \cup {h}
  BY <1>1, <1>2, <1>6, <1>7, InsertProcQLemma DEF InsertProcQ, Family
<1>9. p_prnt[h] = v
  BY <1>2, <1>3, <1>6 DEF Family
<1>10. \A q \in Pcb : Range(p_child'[q]) = Range(p_child[q]) \ {h}
  <2>1. SUFFICES ASSUME NEW q \in Pcb PROVE Range(p_child'[q]) = Range(p_child[q]) \ {h}
    OBVIOUS
  <2>2. CASE q = v
    BY <1>1, <1>2, <1>6, <2>2 DEF TypeOK
  <2>3. CASE q # v
    <3>1. h \notin Range(p_child[q])
      BY <1>2, <1>9, <2>3 DEF Family
    <3> QED BY <1>1, <1>2, <2>3, <3>1 DEF TypeOK
  <2> QED BY <2>2, <2>3
<1>11. Family'
  <2>1. \A q \in Pcb : IsListOf(p_child'[q], Live' \ Range(killStack'))
    <3>1. SUFFICES ASSUME NEW q \in Pcb
                   PROVE  IsListOf(p_child'[q], Live \ Range(killStack'))
      BY <1>4
    <3>2. IsListOf(p_child'[q], Live)
      BY <1>1, <1>2, <1>3, <1>6 DEF TypeOK
    <3>3. IsListOf(p_child[q], Live \ Range(killStack))
      BY <1>2 DEF Family
    <3>4. Range(p_child[q]) \subseteq Live \ Range(killStack)
      BY <3>3, ListOfRange
    <3>5. Range(p_child'[q]) \subseteq Live \ Range(killStack')
      BY <1>8, <1>10, <3>4
    <3> QED BY <3>2, <3>5, ListOfRange
  <2>2. \A q \in pcbFree' : p_child'[q] = <<>>
    <3>1. v \notin pcbFree
      BY <1>3 DEF Live
    <3> QED BY <1>1, <1>2, <3>1 DEF Family, TypeOK
  <2>3. \A q \in Pcb : \A x \in Range(p_child'[q]) : p_prnt'[x] = q
    BY <1>1, <1>2, <1>10 DEF Family
  <2>4. \A x \in Live' \ Range(killStack') :
          p_prnt'[x] # NULL => x \in Range(p_child'[p_prnt'[x]])
    <3>1. SUFFICES ASSUME NEW x \in Live \ Range(killStack'), p_prnt[x] # NULL
                   PROVE  x \in Range(p_child'[p_prnt[x]])
      BY <1>1, <1>4
    <3>2. x \in Live \ Range(killStack) /\ x # h /\ x \in Pcb
      BY <1>4, <1>8, <3>1
    <3>3. p_prnt[x] \in Pcb /\ x \in Range(p_child[p_prnt[x]])
      BY <1>2, <3>1, <3>2 DEF Family, TypeOK
    <3> QED BY <1>10, <3>2, <3>3
  <2>5. killStack' # <<>> /\ killStack'[1] = killStack[1]
    <3>1. killStack \in Seq(Pcb) /\ Len(killStack) \in Nat /\ Len(killStack) > 0
      BY <1>2, <1>3 DEF TypeOK
    <3> QED BY <1>1, <3>1
  <2> QED BY <1>1, <1>2, <1>4, <1>8, <2>1, <2>2, <2>3, <2>4, <2>5 DEF Family
<1>12. TypeOK'
  <2>1. p_child' \in [Pcb -> Seq(Pcb)] /\ killStack' \in Seq(Pcb)
    BY <1>1, <1>2, <1>3, <1>6 DEF TypeOK
  <2> QED BY <1>1, <1>2, <2>1 DEF TypeOK, Mode
<1> QED BY <1>5, <1>11, <1>12 DEF Structure

\* SYS3, SYS5 and SYS7 move at most the running process, to one queue.
LEMMA StructureWait ==
  Structure /\ ((\E s \in UserSem : SYS3_P(s)) \/ (\E d \in SubDev : SYS5_W_IO(d)) \/ SYS7_W_CLK)
    => Structure'
<1>1. ASSUME Structure, NEW s \in UserSem, SYS3_P(s) PROVE Structure'
  <2>1. /\ mode = "run" /\ TypeOK /\ s \in Sem
        /\ semVal' = [semVal EXCEPT ![s] = @ - 1]
        /\ UNCHANGED <<ProcCount, SoftBlocked, pcbFree, p_child, p_prnt, killStack, devReg, cmd>>
    BY <1>1 DEF Structure, SYS3_P, Calls, kernel, io, Sem
  <2>2. semVal' \in [Sem -> Int]
    BY <2>1 DEF TypeOK
  <2>3. CASE insertBlocked(s, CurrProc) /\ scheduler(R_Queue, ProcCount, SoftBlocked)
    <3>1. /\ OnePlace' /\ mode' \in Mode \ {"kill"} /\ CurrProc' \in Pcb \cup {NULL}
          /\ R_Queue' \in Seq(Pcb) /\ procQ' \in [Sem -> Seq(Pcb)]
          /\ p_semAdd' \in [Pcb -> Sem \cup {NULL}]
      BY <1>1, <2>1, <2>3, BlockLemma
    <3>2. Family'
      BY <1>1, <2>1, <3>1, FamilyUnchanged
    <3> QED BY <2>1, <2>2, <3>1, <3>2 DEF Structure, TypeOK
  <2>4. CASE UNCHANGED <<mode, CurrProc, R_Queue, procQ, p_semAdd>>
    <3>1. Live' = Live /\ Blocked' = Blocked
      BY <2>1, <2>4 DEF Live, Blocked
    <3>2. OnePlace'
      BY <1>1, <2>1, <2>4, <3>1 DEF Structure, OnePlace
    <3>3. Family'
      BY <1>1, <2>1, <2>4, FamilyUnchanged
    <3>4. TypeOK'
      BY <2>1, <2>2, <2>4 DEF TypeOK
    <3> QED BY <3>2, <3>3, <3>4 DEF Structure
  <2> QED BY <1>1, <2>3, <2>4 DEF SYS3_P, queues
<1>2. ASSUME Structure, NEW d \in SubDev, SYS5_W_IO(d) PROVE Structure'
  <2>1. /\ mode = "run" /\ TypeOK /\ d \in Sem
        /\ semVal' = [semVal EXCEPT ![d] = @ - 1]
        /\ SoftBlocked' = SoftBlocked + 1
        /\ cmd' = [cmd EXCEPT ![CurrProc] = NULL]
        /\ insertBlocked(d, CurrProc) /\ scheduler(R_Queue, ProcCount, SoftBlocked + 1)
        /\ UNCHANGED <<ProcCount, pcbFree, p_child, p_prnt, killStack, devReg>>
    BY <1>2 DEF Structure, SYS5_W_IO, Sem, DevSem
  <2>2. semVal' \in [Sem -> Int] /\ SoftBlocked' \in Int /\ cmd' \in [Pcb -> SubDev \cup {NULL}]
    <3>1. semVal' \in [Sem -> Int]
      BY <2>1 DEF TypeOK
    <3>2. SoftBlocked' \in Int
      BY <2>1 DEF TypeOK
    <3>3. cmd' \in [Pcb -> SubDev \cup {NULL}]
      BY <2>1 DEF TypeOK
    <3> QED BY <3>1, <3>2, <3>3
  <2>3. /\ OnePlace' /\ mode' \in Mode \ {"kill"} /\ CurrProc' \in Pcb \cup {NULL}
        /\ R_Queue' \in Seq(Pcb) /\ procQ' \in [Sem -> Seq(Pcb)]
        /\ p_semAdd' \in [Pcb -> Sem \cup {NULL}]
    BY <1>2, <2>1, BlockLemma
  <2>4. Family'
    BY <1>2, <2>1, <2>3, FamilyUnchanged
  <2> QED BY <2>1, <2>2, <2>3, <2>4 DEF Structure, TypeOK
<1>3. ASSUME Structure, SYS7_W_CLK PROVE Structure'
  <2>1. /\ mode = "run" /\ TypeOK /\ Clock \in Sem
        /\ SoftBlocked' = Clobbered("SoftBlocked", SoftBlocked + 2)
        /\ ProcCount' = Clobbered("ProcCount", ProcCount)
        /\ insertBlocked(Clock, CurrProc) /\ scheduler(R_Queue, ProcCount', SoftBlocked')
        /\ UNCHANGED <<semVal, pcbFree, p_child, p_prnt, killStack, devReg, cmd>>
    BY <1>3 DEF Structure, SYS7_W_CLK, Calls, io, Sem, DevSem
  <2>2. SoftBlocked' \in Int /\ ProcCount' \in Int
    BY <2>1 DEF TypeOK, Clobbered
  <2>3. /\ OnePlace' /\ mode' \in Mode \ {"kill"} /\ CurrProc' \in Pcb \cup {NULL}
        /\ R_Queue' \in Seq(Pcb) /\ procQ' \in [Sem -> Seq(Pcb)]
        /\ p_semAdd' \in [Pcb -> Sem \cup {NULL}]
    BY <1>3, <2>1, BlockLemma
  <2>4. Family'
    BY <1>3, <2>1, <2>3, FamilyUnchanged
  <2> QED BY <2>1, <2>2, <2>3, <2>4 DEF Structure, TypeOK
<1> QED BY <1>1, <1>2, <1>3

\* SYS4 moves at most one process, from its semaphore to the ready queue.
LEMMA StructureSignal ==
  Structure /\ (\E s \in UserSem : SYS4_V(s)) => Structure'
<1> SUFFICES ASSUME Structure, NEW s \in UserSem, SYS4_V(s) PROVE Structure'
  OBVIOUS
<1>1. /\ mode = "run" /\ TypeOK /\ OnePlace /\ s \in Sem /\ V(s)
      /\ semVal' = [semVal EXCEPT ![s] = @ + 1]
      /\ R_Queue' = ReadyAfterV(s)
      /\ UNCHANGED <<mode, CurrProc, ProcCount, SoftBlocked, pcbFree, p_child, p_prnt,
                     killStack, devReg, cmd>>
  BY DEF Structure, SYS4_V, Calls, V, kernel, io, Sem
<1>2. semVal' \in [Sem -> Int]
  BY <1>1 DEF TypeOK
<1>3. /\ IsListOf(R_Queue', Live)
      /\ CurrProc \notin Range(R_Queue')
      /\ \A x \in Sem : IsListOf(procQ'[x], Live)
      /\ \A x \in Sem : Range(procQ'[x]) = {p \in Pcb : p_semAdd'[p] = x}
      /\ Blocked' \subseteq Blocked
      /\ Blocked' \cap Range(R_Queue') = {}
      /\ Blocked \cup Range(R_Queue) = Blocked' \cup Range(R_Queue')
      /\ procQ' \in [Sem -> Seq(Pcb)]
      /\ p_semAdd' \in [Pcb -> Sem \cup {NULL}]
  BY <1>1, VLemma
<1>4. Live' = Live /\ Live \subseteq Pcb
  BY <1>1 DEF Live
<1>5. OnePlace'
  BY <1>1, <1>3, <1>4 DEF OnePlace
<1>6. R_Queue' \in Seq(Pcb)
  BY <1>3, <1>4, ListOfRange DEF IsListOf
<1>7. Family'
  BY <1>1, FamilyUnchanged
<1> QED BY <1>1, <1>2, <1>3, <1>5, <1>6, <1>7 DEF Structure, TypeOK

\* Devices and their users leave the lists alone.
LEMMA StructureDevices ==
  Structure /\ (\E d \in SubDev : Command(d) \/ DeviceDone(d)) => Structure'
<1> SUFFICES ASSUME Structure, NEW d \in SubDev, Command(d) \/ DeviceDone(d)
             PROVE  Structure'
  OBVIOUS
<1>1. /\ TypeOK /\ OnePlace /\ mode # "kill"
      /\ UNCHANGED <<mode, CurrProc, R_Queue, ProcCount, SoftBlocked, pcbFree, p_child,
                     p_prnt, killStack, semVal, procQ, p_semAdd>>
  BY DEF Structure, Command, Calls, DeviceDone, kernel, queues, sems
<1>2. devReg' \in [SubDev -> {"ready", "busy", "done"}] /\ cmd' \in [Pcb -> SubDev \cup {NULL}]
  <2>1. CASE Command(d)
    <3>1. /\ devReg' = [devReg EXCEPT ![d] = "busy"]
          /\ cmd' = [cmd EXCEPT ![CurrProc] = d]
      BY <2>1 DEF Command
    <3> QED BY <1>1, <3>1 DEF TypeOK
  <2>2. CASE DeviceDone(d)
    <3>1. devReg' = [devReg EXCEPT ![d] = "done"] /\ cmd' = cmd
      BY <2>2 DEF DeviceDone
    <3> QED BY <1>1, <3>1 DEF TypeOK
  <2> QED BY <2>1, <2>2
<1>3. Live' = Live /\ Blocked' = Blocked
  BY <1>1 DEF Live, Blocked
<1>4. OnePlace'
  BY <1>1, <1>3 DEF OnePlace
<1>5. Family'
  BY <1>1, FamilyUnchanged
<1>6. TypeOK'
  BY <1>1, <1>2 DEF TypeOK
<1> QED BY <1>4, <1>5, <1>6 DEF Structure

\* The end of a time slice moves the running process to the ready queue.
LEMMA StructurePLT == Structure /\ PLT => Structure'
<1> SUFFICES ASSUME Structure, PLT PROVE Structure'
  OBVIOUS
<1> DEFINE ready == InsertProcQ(R_Queue, CurrProc)
<1>1. /\ TypeOK /\ OnePlace /\ mode = "run" /\ scheduler(ready, ProcCount, SoftBlocked)
      /\ UNCHANGED <<ProcCount, SoftBlocked, pcbFree, p_child, p_prnt, killStack,
                     semVal, procQ, p_semAdd, devReg, cmd>>
  BY DEF Structure, PLT, kernel, sems, io
<1>2. /\ CurrProc \in Live /\ CurrProc # NULL /\ CurrProc \notin Range(R_Queue)
      /\ CurrProc \notin Blocked /\ Live \subseteq Pcb /\ IsListOf(R_Queue, Live)
  BY <1>1, PcbAssumption DEF OnePlace, TypeOK, Live
<1>3. IsListOf(ready, Live) /\ Range(ready) = Range(R_Queue) \cup {CurrProc}
  BY <1>2, InsertProcQLemma
<1> HIDE DEF ready
<1>4. /\ mode' \in Mode \ {"kill"}
      /\ CurrProc' \in Live \cup {NULL}
      /\ (CurrProc' = NULL) <=> (mode' \notin {"run", "kill"})
      /\ IsListOf(R_Queue', Live)
      /\ CurrProc' \notin Range(R_Queue')
      /\ Range(ready) = Range(R_Queue') \cup ({CurrProc'} \ {NULL})
  BY <1>1, <1>2, <1>3, SchedulerLemma
<1>5. Live' = Live /\ Blocked' = Blocked /\ NULL \notin Live /\ NULL \notin Blocked
  BY <1>1, PcbAssumption DEF Live, Blocked
<1>6. OnePlace'
  <2>1. Blocked \cap Range(ready) = {} /\ Live = Blocked \cup Range(ready)
    BY <1>1, <1>2, <1>3 DEF OnePlace
  <2>2. CurrProc' \notin pcbFree \cup Blocked \cup Range(R_Queue')
    BY <1>4, <1>5, <2>1, PcbAssumption, <1>1 DEF Live, TypeOK
  <2>3. Blocked \cap Range(R_Queue') = {}
    BY <1>4, <2>1
  <2>4. Live = Blocked \cup Range(R_Queue') \cup ({CurrProc'} \ {NULL})
    BY <1>4, <2>1
  <2> QED BY <1>1, <1>4, <1>5, <2>2, <2>3, <2>4 DEF OnePlace
<1>7. Family'
  BY <1>1, <1>4, FamilyUnchanged
<1>8. R_Queue' \in Seq(Pcb) /\ CurrProc' \in Pcb \cup {NULL}
  BY <1>2, <1>4, ListOfRange DEF IsListOf
<1> QED BY <1>1, <1>4, <1>6, <1>7, <1>8 DEF Structure, TypeOK

\* The interval timer moves the queue of the clock to the end of the ready queue.
LEMMA StructureTick == Structure /\ IntervalTimer => Structure'
<1> SUFFICES ASSUME Structure, IntervalTimer PROVE Structure'
  OBVIOUS
<1> DEFINE soft  == SoftBlocked - Len(procQ[Clock])
           ready == R_Queue \o procQ[Clock]
<1>1. /\ TypeOK /\ OnePlace /\ mode \in {"run", "idle"} /\ resume(ready, soft)
      /\ SoftBlocked' = soft
      /\ procQ' = [procQ EXCEPT ![Clock] = <<>>]
      /\ p_semAdd' = [p \in Pcb |-> IF p \in Range(procQ[Clock]) THEN NULL ELSE p_semAdd[p]]
      /\ semVal' = [semVal EXCEPT ![Clock] = 0]
      /\ UNCHANGED <<ProcCount, pcbFree, p_child, p_prnt, killStack, devReg, cmd>>
  BY DEF Structure, IntervalTimer, Interruptible, io
<1>2. /\ Clock \in Sem /\ Live \subseteq Pcb /\ NULL \notin Pcb /\ NULL \notin Sem
      /\ procQ \in [Sem -> Seq(Pcb)] /\ p_semAdd \in [Pcb -> Sem \cup {NULL}]
  BY <1>1, PcbAssumption DEF Sem, DevSem, Live, TypeOK
<1>3. /\ \A x \in Sem : IsListOf(procQ[x], Live)
      /\ \A x \in Sem : Range(procQ[x]) = {p \in Pcb : p_semAdd[p] = x}
      /\ IsListOf(R_Queue, Live)
      /\ Blocked \cap Range(R_Queue) = {}
      /\ CurrProc \notin Blocked \cup Range(R_Queue)
      /\ Blocked = {p \in Pcb : p_semAdd[p] # NULL}
  BY <1>1 DEF OnePlace, Blocked
<1>4. Range(procQ[Clock]) \subseteq Blocked
  BY <1>2, <1>3
<1>5. IsListOf(ready, Live) /\ Range(ready) = Range(R_Queue) \cup Range(procQ[Clock])
  BY <1>2, <1>3, <1>4, ConcatLemma
<1>6. soft \in Int
  <2>1. Len(procQ[Clock]) \in Nat
    BY <1>2
  <2> QED BY <1>1, <2>1 DEF TypeOK
<1> HIDE DEF ready, soft
<1>7. \A x \in Sem : IsListOf(procQ'[x], Live)
  BY <1>1, <1>2, <1>3, EmptyList
<1>8. \A x \in Sem : Range(procQ'[x]) = {p \in Pcb : p_semAdd'[p] = x}
  <2>1. SUFFICES ASSUME NEW x \in Sem
                 PROVE Range(procQ'[x]) = {p \in Pcb : p_semAdd'[p] = x}
    OBVIOUS
  <2>2. CASE x = Clock
    <3>1. procQ'[x] = <<>> /\ Range(procQ'[x]) = {}
      BY <1>1, <1>2, <2>2, EmptyList
    <3>2. \A p \in Pcb : p_semAdd'[p] # x
      BY <1>1, <1>2, <1>3, <2>2
    <3> QED BY <3>1, <3>2
  <2>3. CASE x # Clock
    <3>1. Range(procQ'[x]) = {p \in Pcb : p_semAdd[p] = x}
      BY <1>1, <1>2, <1>3, <2>3
    <3>2. \A p \in Pcb : p_semAdd'[p] = x <=> p_semAdd[p] = x
      BY <1>1, <1>2, <1>3, <2>3
    <3> QED BY <3>1, <3>2
  <2> QED BY <2>2, <2>3
<1>9. Blocked' = Blocked \ Range(procQ[Clock])
  <2>1. Blocked' = {p \in Pcb : p_semAdd'[p] # NULL}
    BY DEF Blocked
  <2> QED BY <1>1, <1>3, <2>1
<1>10. /\ OnePlace' /\ mode' \in Mode \ {"kill"} /\ CurrProc' \in Pcb \cup {NULL}
       /\ R_Queue' \in Seq(Pcb)
  <2>1. /\ Blocked' \subseteq Blocked
        /\ Blocked' \cap Range(ready) = {}
        /\ Blocked \cup Range(R_Queue) = Blocked' \cup Range(ready)
        /\ CurrProc \notin Range(ready)
    BY <1>3, <1>4, <1>5, <1>9
  <2> QED BY <1>1, <1>5, <1>7, <1>8, <2>1, WokenLemma
<1>11. Family'
  BY <1>1, <1>10, FamilyUnchanged
<1>12. /\ procQ' \in [Sem -> Seq(Pcb)] /\ p_semAdd' \in [Pcb -> Sem \cup {NULL}]
       /\ semVal' \in [Sem -> Int]
  BY <1>1, <1>2 DEF TypeOK
<1> QED BY <1>1, <1>6, <1>10, <1>11, <1>12 DEF Structure, TypeOK

\* An interrupt of a sub-device moves at most one process to the ready queue.
LEMMA StructureInterrupt ==
  ASSUME Structure, mode \in {"run", "idle"}, NEW d \in SubDev, Non_T_Int(d)
  PROVE  Structure'
<1> DEFINE soft == IF procQ[d] = <<>> THEN SoftBlocked ELSE SoftBlocked - 1
<1>1. /\ TypeOK /\ d \in Sem /\ V(d) /\ resume(ReadyAfterV(d), soft)
      /\ devReg' = [devReg EXCEPT ![d] = IF @ = "busy" THEN @ ELSE "ready"]
      /\ semVal' = [semVal EXCEPT ![d] = @ + 1]
      /\ SoftBlocked' = soft
      /\ UNCHANGED <<ProcCount, pcbFree, p_child, p_prnt, killStack, cmd>>
  BY DEF Structure, Non_T_Int, V, Sem, DevSem
<1>2. soft \in Int
  BY <1>1 DEF TypeOK
<1> HIDE DEF soft
<1>3. /\ IsListOf(ReadyAfterV(d), Live)
      /\ CurrProc \notin Range(ReadyAfterV(d))
      /\ \A x \in Sem : IsListOf(procQ'[x], Live)
      /\ \A x \in Sem : Range(procQ'[x]) = {p \in Pcb : p_semAdd'[p] = x}
      /\ Blocked' \subseteq Blocked
      /\ Blocked' \cap Range(ReadyAfterV(d)) = {}
      /\ Blocked \cup Range(R_Queue) = Blocked' \cup Range(ReadyAfterV(d))
      /\ procQ' \in [Sem -> Seq(Pcb)]
      /\ p_semAdd' \in [Pcb -> Sem \cup {NULL}]
  BY <1>1, VLemma
<1>4. /\ OnePlace' /\ mode' \in Mode \ {"kill"} /\ CurrProc' \in Pcb \cup {NULL}
      /\ R_Queue' \in Seq(Pcb)
  BY <1>1, <1>3, WokenLemma
<1>5. Family'
  BY <1>1, <1>4, FamilyUnchanged
<1>6. devReg' \in [SubDev -> {"ready", "busy", "done"}] /\ semVal' \in [Sem -> Int]
  BY <1>1 DEF TypeOK
<1> QED BY <1>1, <1>2, <1>3, <1>4, <1>5, <1>6 DEF Structure, TypeOK

\* Without the PCB that killprocT frees, every list is what it was.
LEMMA StructureKillFree == Structure /\ KillFree => Structure'
<1> SUFFICES ASSUME Structure, KillFree PROVE Structure'
  OBVIOUS
<1> DEFINE v     == Victim
           s     == p_semAdd[v]
           ready == OutProcQ(R_Queue, v)
           soft  == IF IsDevSem(s) THEN SoftBlocked - 1 ELSE SoftBlocked
<1>1. /\ mode = "kill" /\ p_child[v] = <<>>
      /\ SoftBlocked' = soft
      /\ semVal' = [x \in Sem |-> IF x = s /\ ~IsDevSem(s)
                                  THEN semVal[x] + 1 ELSE semVal[x]]
      /\ procQ' = [x \in Sem |-> IF x = s THEN OutProcQ(procQ[x], v) ELSE procQ[x]]
      /\ p_semAdd' = [p_semAdd EXCEPT ![v] = NULL]
      /\ pcbFree' = pcbFree \cup {v}
      /\ ProcCount' = ProcCount - 1
      /\ killStack' = SubSeq(killStack, 1, Len(killStack) - 1)
      /\ cmd' = [cmd EXCEPT ![v] = NULL]
      /\ UNCHANGED <<p_child, p_prnt, devReg>>
  BY DEF KillFree, outBlocked
<1>2. IF Len(killStack) = 1
      THEN scheduler(ready, ProcCount - 1, soft)
      ELSE R_Queue' = ready /\ UNCHANGED <<CurrProc, mode>>
  BY DEF KillFree
<1>3. TypeOK /\ OnePlace /\ Family
  BY DEF Structure
<1>4. /\ killStack # <<>> /\ v \in Range(killStack) /\ v \in Live /\ v \in Pcb
      /\ \A q \in Pcb : v \notin Range(p_child[q])
      /\ v = killStack[Len(killStack)]
      /\ IsListOf(killStack, Live) /\ Len(killStack) \in Nat /\ Len(killStack) > 0
  <2>1. IsListOf(killStack, Live)
    BY <1>3 DEF Family
  <2>2. killStack # <<>>
    BY <1>1, VictimLemma
  <2>3. Len(killStack) \in Nat /\ Len(killStack) > 0
    BY <2>1, <2>2, ListOfRange
  <2> QED BY <1>1, <2>1, <2>3, VictimLemma DEF Victim
<1> HIDE DEF v
<1>5. /\ Live' = Live \ {v} /\ Live \subseteq Pcb /\ NULL \notin Pcb /\ NULL \notin Sem
      /\ procQ \in [Sem -> Seq(Pcb)] /\ p_semAdd \in [Pcb -> Sem \cup {NULL}]
  BY <1>1, <1>3, <1>4, PcbAssumption DEF Live, TypeOK
<1>6. /\ IsListOf(R_Queue, Live) /\ CurrProc \in Live
      /\ \A x \in Sem : IsListOf(procQ[x], Live)
      /\ \A x \in Sem : Range(procQ[x]) = {p \in Pcb : p_semAdd[p] = x}
      /\ Blocked \cap Range(R_Queue) = {}
      /\ CurrProc \notin Blocked \cup Range(R_Queue)
      /\ Live = Blocked \cup Range(R_Queue) \cup {CurrProc}
      /\ Blocked = {p \in Pcb : p_semAdd[p] # NULL}
  <2>1. CurrProc # NULL /\ CurrProc \in Pcb
    BY <1>1, <1>3 DEF OnePlace, TypeOK
  <2> QED BY <1>3, <2>1 DEF OnePlace, Blocked, Live
<1>7. \A q, S : IsListOf(q, S) =>
        /\ IsListOf(OutProcQ(q, v), S \ {v})
        /\ Range(OutProcQ(q, v)) = Range(q) \ {v}
  <2>1. SUFFICES ASSUME NEW q, NEW S, IsListOf(q, S)
                 PROVE  /\ IsListOf(OutProcQ(q, v), S \ {v})
                        /\ Range(OutProcQ(q, v)) = Range(q) \ {v}
    OBVIOUS
  <2>2. IsListOf(OutProcQ(q, v), S) /\ Range(OutProcQ(q, v)) = Range(q) \ {v}
    <3>1. CASE v \in Range(q)
      BY <2>1, <3>1, OutProcQLemma
    <3>2. CASE v \notin Range(q)
      BY <2>1, <3>2, OutProcQAbsent
    <3> QED BY <3>1, <3>2
  <2>3. Range(OutProcQ(q, v)) \subseteq S \ {v}
    BY <2>2, ListOfRange
  <2> QED BY <2>2, <2>3, ListOfRange
<1>8. IsListOf(ready, Live') /\ Range(ready) = Range(R_Queue) \ {v}
  BY <1>5, <1>6, <1>7
<1>9. \A x \in Sem : /\ IsListOf(procQ'[x], Live')
                     /\ Range(procQ'[x]) = Range(procQ[x]) \ {v}
  <2>1. SUFFICES ASSUME NEW x \in Sem
                 PROVE  /\ IsListOf(procQ'[x], Live')
                        /\ Range(procQ'[x]) = Range(procQ[x]) \ {v}
    OBVIOUS
  <2>2. CASE x = s
    <3>1. procQ'[x] = OutProcQ(procQ[x], v) /\ IsListOf(procQ[x], Live)
      BY <1>1, <1>6, <2>2
    <3>2. /\ IsListOf(OutProcQ(procQ[x], v), Live \ {v})
          /\ Range(OutProcQ(procQ[x], v)) = Range(procQ[x]) \ {v}
      BY <1>7, <3>1
    <3> QED BY <1>5, <3>1, <3>2
  <2>3. CASE x # s
    <3>1. v \notin Range(procQ[x]) /\ procQ'[x] = procQ[x]
      BY <1>1, <1>6, <2>3
    <3>2. IsListOf(procQ[x], Live)
      BY <1>6
    <3>3. Range(procQ[x]) \subseteq Live'
      BY <1>5, <3>1, <3>2, ListOfRange
    <3>4. IsListOf(procQ[x], Live')
      BY <3>2, <3>3, ListOfRange
    <3>5. Range(procQ[x]) = Range(procQ[x]) \ {v}
      BY <3>1
    <3> QED BY <3>1, <3>4, <3>5
  <2> QED BY <2>2, <2>3
<1> HIDE DEF ready
<1>10. Blocked' = Blocked \ {v}
  <2>1. Blocked' = {p \in Pcb : p_semAdd'[p] # NULL}
    BY DEF Blocked
  <2> QED BY <1>1, <1>4, <1>5, <1>6, <2>1
<1>11. \A x \in Sem : Range(procQ'[x]) = {p \in Pcb : p_semAdd'[p] = x}
  <2>1. SUFFICES ASSUME NEW x \in Sem
                 PROVE  Range(procQ'[x]) = {p \in Pcb : p_semAdd'[p] = x}
    OBVIOUS
  <2>2. Range(procQ'[x]) = {p \in Pcb : p_semAdd[p] = x} \ {v}
    BY <1>6, <1>9
  <2>3. \A p \in Pcb : p_semAdd'[p] = x <=> (p_semAdd[p] = x /\ p # v)
    BY <1>1, <1>4, <1>5
  <2> QED BY <2>2, <2>3
<1>12. /\ IsListOf(killStack', Live')
       /\ Range(killStack') = Range(killStack) \ {v}
       /\ Len(killStack') = Len(killStack) - 1
       /\ Len(killStack) > 1 => killStack'[1] = killStack[1]
  <2>1. /\ IsListOf(killStack', Live)
        /\ Range(killStack') = Range(killStack) \ {v}
        /\ Len(killStack') = Len(killStack) - 1
        /\ Len(killStack) > 1 => killStack'[1] = killStack[1]
    BY <1>1, <1>4, FrontLemma
  <2>2. Range(killStack') \subseteq Live'
    BY <1>5, <2>1, ListOfRange
  <2> QED BY <2>1, <2>2, ListOfRange
<1>13. /\ OnePlace' /\ mode' \in Mode /\ CurrProc' \in Pcb \cup {NULL}
       /\ R_Queue' \in Seq(Pcb)
       /\ (mode' = "kill") <=> (killStack' # <<>>)
       /\ mode' = "kill" => killStack'[1] = CurrProc'
  <2>1. CASE Len(killStack) = 1
    <3>1. v = CurrProc
      BY <1>1, <1>3, <1>4, <2>1 DEF Family
    <3>2. /\ mode' \in Mode \ {"kill"}
          /\ CurrProc' \in Live' \cup {NULL}
          /\ (CurrProc' = NULL) <=> (mode' \notin {"run", "kill"})
          /\ IsListOf(R_Queue', Live')
          /\ CurrProc' \notin Range(R_Queue')
          /\ Range(ready) = Range(R_Queue') \cup ({CurrProc'} \ {NULL})
      <4>1. Live' \subseteq Pcb /\ scheduler(ready, ProcCount - 1, soft)
        BY <1>2, <1>5, <2>1
      <4> QED BY <1>8, <4>1, SchedulerLemma
    <3>3. killStack' = <<>>
      BY <1>12, <2>1, ListOfRange
    <3>4. /\ Blocked' \cap Range(ready) = {}
          /\ Live' = Blocked' \cup Range(ready)
      BY <1>5, <1>6, <1>8, <1>10, <3>1
    <3>5. /\ Blocked' \cap Range(R_Queue') = {}
          /\ Live' = Blocked' \cup Range(R_Queue') \cup ({CurrProc'} \ {NULL})
      BY <3>2, <3>4
    <3>6. NULL \notin Live' /\ NULL \notin pcbFree' /\ NULL \notin Blocked'
          /\ Live' = Pcb \ pcbFree'
      BY <1>1, <1>3, <1>4, <1>5, <1>6, <1>10 DEF TypeOK, Live
    <3>7. CurrProc' \notin pcbFree' \cup Blocked' \cup Range(R_Queue')
      BY <3>2, <3>4, <3>6
    <3>8. OnePlace'
      BY <1>9, <1>11, <3>2, <3>5, <3>7 DEF OnePlace
    <3>9. R_Queue' \in Seq(Pcb) /\ CurrProc' \in Pcb \cup {NULL}
      BY <1>5, <3>2, ListOfRange DEF IsListOf
    <3> QED BY <3>2, <3>3, <3>8, <3>9
  <2>2. CASE Len(killStack) # 1
    <3>1. R_Queue' = ready /\ UNCHANGED <<CurrProc, mode>> /\ Len(killStack) > 1
      <4>1. R_Queue' = ready /\ UNCHANGED <<CurrProc, mode>>
        BY <1>2, <2>2
      <4>2. Len(killStack) > 1
        <5>1. Len(killStack) \in Nat /\ Len(killStack) > 0
          BY <1>4
        <5>2. \A n \in Nat : n > 0 /\ n # 1 => n > 1
          OBVIOUS
        <5> QED BY <2>2, <5>1, <5>2
      <4> QED BY <4>1, <4>2
    <3>2. killStack' # <<>> /\ killStack'[1] = CurrProc'
      <4>1. Len(killStack') # 0
        BY <1>4, <1>12, <3>1
      <4>2. killStack' # <<>>
        BY <1>12, <4>1, ListOfRange
      <4> QED BY <1>1, <1>3, <1>12, <3>1, <4>2 DEF Family
    <3>3. v # CurrProc
      <4>1. v = killStack[Len(killStack)] /\ CurrProc = killStack[1]
        BY <1>1, <1>3, <1>4 DEF Family
      <4>2. IsInjective(killStack) /\ killStack \in Seq(Live)
        BY <1>4 DEF IsListOf
      <4> QED BY <1>4, <3>1, <4>1, <4>2 DEF IsInjective
    <3>4. OnePlace'
      <4>1. /\ Blocked' \cap Range(R_Queue') = {}
            /\ Live' = Blocked' \cup Range(R_Queue') \cup ({CurrProc'} \ {NULL})
        BY <1>5, <1>6, <1>8, <1>10, <3>1, <3>3
      <4>2. CurrProc' \notin pcbFree' \cup Blocked' \cup Range(R_Queue')
        BY <1>1, <1>3, <1>6, <1>8, <1>10, <3>1, <3>3 DEF OnePlace
      <4>3. (CurrProc' = NULL) <=> (mode' \notin {"run", "kill"})
        BY <1>3, <3>1 DEF OnePlace
      <4> QED BY <1>8, <1>9, <1>11, <3>1, <4>1, <4>2, <4>3 DEF OnePlace
    <3>5. R_Queue' \in Seq(Pcb) /\ CurrProc' \in Pcb \cup {NULL} /\ mode' \in Mode
      <4>1. IsListOf(ready, Pcb)
        BY <1>5, <1>8, ListOfRange
      <4> QED BY <1>3, <3>1, <4>1 DEF IsListOf, TypeOK
    <3> QED BY <1>1, <3>1, <3>2, <3>4, <3>5
  <2> QED BY <2>1, <2>2
<1>14. Family'
  <2>1. \A q \in Pcb : IsListOf(p_child'[q], Live' \ Range(killStack'))
    <3>1. SUFFICES ASSUME NEW q \in Pcb
                   PROVE  IsListOf(p_child[q], Live' \ Range(killStack'))
      BY <1>1
    <3>2. IsListOf(p_child[q], Live \ Range(killStack))
      BY <1>3 DEF Family
    <3>3. Range(p_child[q]) \subseteq Live' \ Range(killStack')
      BY <1>4, <1>5, <1>12, <3>2, ListOfRange
    <3> QED BY <3>2, <3>3, ListOfRange
  <2>2. \A q \in pcbFree' : p_child'[q] = <<>>
    BY <1>1, <1>3 DEF Family
  <2>3. \A q \in Pcb : \A x \in Range(p_child'[q]) : p_prnt'[x] = q
    BY <1>1, <1>3 DEF Family
  <2>4. \A x \in Live' \ Range(killStack') :
          p_prnt'[x] # NULL => x \in Range(p_child'[p_prnt'[x]])
    <3>1. Live' \ Range(killStack') = Live \ Range(killStack)
      BY <1>4, <1>5, <1>12
    <3> QED BY <1>1, <1>3, <3>1 DEF Family
  <2> QED BY <1>12, <1>13, <2>1, <2>2, <2>3, <2>4 DEF Family
<1>15. TypeOK'
  <2>1. pcbFree' \subseteq Pcb /\ ProcCount' \in Int /\ SoftBlocked' \in Int
    BY <1>1, <1>3, <1>4 DEF TypeOK
  <2>2. semVal' \in [Sem -> Int]
    BY <1>1, <1>3 DEF TypeOK
  <2>3. p_semAdd' \in [Pcb -> Sem \cup {NULL}]
    BY <1>1, <1>5
  <2>4. cmd' \in [Pcb -> SubDev \cup {NULL}]
    BY <1>1, <1>3 DEF TypeOK
  <2>5. procQ' \in [Sem -> Seq(Pcb)]
    <3>1. \A x \in Sem : procQ'[x] \in Seq(Pcb)
      <4>1. \A x \in Sem : IsListOf(procQ'[x], Pcb)
        BY <1>5, <1>9, ListOfRange
      <4> QED BY <4>1 DEF IsListOf
    <3> QED BY <1>1, <3>1
  <2>6. killStack' \in Seq(Pcb)
    <3>1. IsListOf(killStack', Pcb)
      BY <1>5, <1>12, ListOfRange
    <3> QED BY <3>1 DEF IsListOf
  <2> QED BY <1>1, <1>3, <1>13, <2>1, <2>2, <2>3, <2>4, <2>5, <2>6 DEF TypeOK
<1> QED BY <1>13, <1>14, <1>15 DEF Structure

\* Every step of the nucleus keeps the lists consistent.
LEMMA StructureNext == Structure /\ [Next]_vars => Structure'
<1> SUFFICES ASSUME Structure, [Next]_vars PROVE Structure'
  OBVIOUS
<1>1. CASE SYS1_CP
  BY <1>1, StructureCreate
<1>2. CASE SYS2_TP
  BY <1>2, StructureTerminate
<1>3. CASE KillChild
  BY <1>3, StructureKillChild
<1>4. CASE KillFree
  BY <1>4, StructureKillFree
<1>5. CASE (\E s \in UserSem : SYS3_P(s)) \/ (\E d \in SubDev : SYS5_W_IO(d)) \/ SYS7_W_CLK
  BY <1>5, StructureWait
<1>6. CASE \E s \in UserSem : SYS4_V(s)
  BY <1>6, StructureSignal
<1>7. CASE \E d \in SubDev : Command(d) \/ DeviceDone(d)
  BY <1>7, StructureDevices
<1>8. CASE PLT
  BY <1>8, StructurePLT
<1>9. CASE IntervalTimer
  BY <1>9, StructureTick
<1>10. CASE \E d \in Dev : DeviceInterrupt(d)
  <2>1. PICK d \in Dev : DeviceInterrupt(d)
    BY <1>10
  <2>2. d \in SubDev /\ mode \in {"run", "idle"} /\ Non_T_Int(d)
    BY <2>1 DEF DeviceInterrupt, Interruptible, SubDev
  <2> QED BY <2>2, StructureInterrupt
<1>11. CASE \E t \in Term : TerminalInterrupt(t)
  <2>1. PICK t \in Term : TerminalInterrupt(t)
    BY <1>11
  <2>2. /\ Interrupting(t) \in SubDev /\ mode \in {"run", "idle"}
        /\ Non_T_Int(Interrupting(t))
    BY <2>1 DEF TerminalInterrupt, Interruptible, Interrupting, SubDev
  <2> QED BY <2>2, StructureInterrupt
<1>12. CASE UNCHANGED vars
  <2>1. UNCHANGED <<mode, CurrProc, R_Queue, pcbFree, ProcCount, SoftBlocked, semVal, procQ,
                    p_semAdd, p_child, p_prnt, killStack, devReg, cmd>>
    BY <1>12 DEF vars, kernel, queues, sems, io
  <2>2. Live' = Live /\ Blocked' = Blocked
    BY <2>1 DEF Live, Blocked
  <2>3. TypeOK'
    BY <2>1 DEF Structure, TypeOK
  <2>4. OnePlace'
    BY <2>1, <2>2 DEF Structure, OnePlace
  <2>5. Family'
    BY <2>1, <2>2 DEF Structure, Family
  <2> QED BY <2>3, <2>4, <2>5 DEF Structure
<1> QED BY <1>1, <1>2, <1>3, <1>4, <1>5, <1>6, <1>7, <1>8, <1>9, <1>10, <1>11, <1>12
        DEF Next, Stop

\* Every run keeps the inductive invariant: the PCBs, the semaphores and the
\* families stay consistent through every system call, kill and interrupt.
THEOREM StructureInvariant == Spec => []Structure
<1>1. Init => Structure
  BY StructureInit
<1>2. Structure /\ [Next]_vars => Structure'
  BY StructureNext
<1> QED BY <1>1, <1>2, PTL DEF Spec

\* Every variable of the nucleus keeps its type.
THEOREM TypeCorrect == Spec => []TypeOK
<1>1. Structure => TypeOK
  BY DEF Structure
<1> QED BY <1>1, StructureInvariant, PTL

\* No PCB is ever lost, and none is in two lists.
THEOREM EveryPcbInOnePlace == Spec => []OnePlace
<1>1. Structure => OnePlace
  BY DEF Structure
<1> QED BY <1>1, StructureInvariant, PTL

\* Nobody outlives a parent, and killprocT frees nobody twice.
THEOREM FamiliesIntact == Spec => []Family
<1>1. Structure => Family
  BY DEF Structure
<1> QED BY <1>1, StructureInvariant, PTL

\* insertBlocked never fails for SYS3, SYS5 and SYS7, which ignore its result.
THEOREM DescriptorsNeverRunOut == Spec => []DescriptorsSuffice
<1>1. Structure => DescriptorsSuffice
  BY DescriptorLemma DEF Structure, DescriptorsSuffice
<1> QED BY <1>1, StructureInvariant, PTL
====
