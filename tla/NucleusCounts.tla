---- MODULE NucleusCounts ----
(***************************************************************************)
(* Proofs about the counters, the semaphores, what the scheduler makes of  *)
(* them, and the devices with who waits for them, for every number of      *)
(* processes, semaphores and devices.                                      *)
(***************************************************************************)
EXTENDS NucleusProofs

\* ProcCount is right unless the linker put it after sem[].
ProcCounted == AfterSem # "ProcCount" => ProcCountExact

\* SoftBlocked is right if the linker put it after sem[].
SoftCounted ==
  /\ SoftBlockedCovers
  /\ AfterSem = "SoftBlocked" => SoftBlockedExact

\* What the counters and the values add to Structure.
Counts == ProcCounted /\ SoftCounted /\ SemaphoreLaw

\* The sets that the counters count are finite.
LEMMA FiniteCounts ==
  ASSUME TypeOK
  PROVE  /\ Live \subseteq Pcb /\ IsFiniteSet(Live) /\ Cardinality(Live) \in Nat
         /\ SoftWaits \subseteq Pcb /\ IsFiniteSet(SoftWaits)
         /\ Cardinality(SoftWaits) \in Nat
<1>1. Live \subseteq Pcb /\ SoftWaits \subseteq Pcb
  BY DEF Live, SoftWaits
<1>2. IsFiniteSet(Live) /\ IsFiniteSet(SoftWaits)
  BY <1>1, PcbAssumption, FS_Subset
<1> QED BY <1>1, <1>2, FS_CardinalityType

\* Main() starts with one process, none of them blocked.
LEMMA CountsInit == Init => Counts
<1> SUFFICES ASSUME Init PROVE Counts
  OBVIOUS
<1>1. Live = {CurrProc} /\ CurrProc \in Pcb
  BY DEF Init, Live
<1>2. ProcCounted
  BY <1>1, FS_Singleton DEF Init, ProcCounted, ProcCountExact
<1>3. SoftWaits = {}
  BY PcbAssumption DEF Init, SoftWaits, Sem
<1>4. SoftCounted
  BY <1>3, FS_EmptySet DEF Init, SoftCounted, SoftBlockedCovers, SoftBlockedExact
<1>5. SemaphoreLaw
  <2>1. SUFFICES ASSUME NEW s \in UserSem
                 PROVE  Len(procQ[s]) = IF semVal[s] < 0 THEN -semVal[s] ELSE 0
    BY DEF SemaphoreLaw
  <2>2. procQ[s] = <<>> /\ semVal[s] \in {0, 1}
    BY DEF Init, Sem
  <2> QED BY <2>2
<1> QED BY <1>2, <1>4, <1>5 DEF Counts

\* Steps that neither create nor free a PCB nor call SYS7 keep ProcCount.
LEMMA ProcCountKept ==
  ASSUME ProcCounted, UNCHANGED pcbFree, AfterSem # "ProcCount" => UNCHANGED ProcCount
  PROVE  ProcCounted'
<1>1. Live' = Live
  BY DEF Live
<1> QED BY <1>1 DEF ProcCounted, ProcCountExact

\* Steps that change no device wait keep SoftBlocked.
LEMMA SoftKept ==
  ASSUME SoftCounted, SoftWaits' = SoftWaits, UNCHANGED SoftBlocked
  PROVE  SoftCounted'
BY DEF SoftCounted, SoftBlockedCovers, SoftBlockedExact

\* One more wait for a device or the clock.
LEMMA SoftMore ==
  ASSUME TypeOK, SoftCounted, NEW p \in Pcb, p \notin SoftWaits,
         SoftWaits' = SoftWaits \cup {p},
         \/ SoftBlocked' = SoftBlocked + 1
         \/ AfterSem # "SoftBlocked" /\ SoftBlocked' = SoftBlocked + 2
  PROVE  SoftCounted'
<1>1. IsFiniteSet(SoftWaits) /\ Cardinality(SoftWaits) \in Nat /\ SoftBlocked \in Int
  BY FiniteCounts DEF TypeOK
<1>2. Cardinality(SoftWaits') = Cardinality(SoftWaits) + 1
  BY <1>1, FS_AddElement
<1> DEFINE n == Cardinality(SoftWaits)
           m == Cardinality(SoftWaits')
<1>3. SoftBlocked >= n /\ (AfterSem = "SoftBlocked" => SoftBlocked = n)
  BY DEF SoftCounted, SoftBlockedCovers, SoftBlockedExact
<1>4. n \in Nat /\ m = n + 1
  BY <1>1, <1>2
<1> HIDE DEF n, m
<1>5. SoftBlocked' >= m /\ (AfterSem = "SoftBlocked" => SoftBlocked' = m)
  BY <1>1, <1>3, <1>4
<1> QED BY <1>5 DEF m, SoftCounted, SoftBlockedCovers, SoftBlockedExact

\* Some waits less, and as many counted less.
LEMMA SoftLess ==
  ASSUME TypeOK, SoftCounted, NEW P, P \subseteq SoftWaits,
         SoftWaits' = SoftWaits \ P,
         SoftBlocked' = SoftBlocked - Cardinality(P)
  PROVE  SoftCounted'
<1>1. IsFiniteSet(SoftWaits) /\ Cardinality(SoftWaits) \in Nat /\ SoftBlocked \in Int
  BY FiniteCounts DEF TypeOK
<1>2. /\ IsFiniteSet(P) /\ Cardinality(P) \in Nat
      /\ Cardinality(SoftWaits') = Cardinality(SoftWaits) - Cardinality(P)
  <2>1. IsFiniteSet(P)
    BY <1>1, FS_Subset
  <2>2. SoftWaits \cap P = P
    OBVIOUS
  <2>3. Cardinality(SoftWaits \ P) = Cardinality(SoftWaits) - Cardinality(SoftWaits \cap P)
    BY <1>1, FS_Difference
  <2> QED BY <2>1, <2>2, <2>3, FS_CardinalityType
<1> DEFINE n == Cardinality(SoftWaits)
           m == Cardinality(SoftWaits')
           k == Cardinality(P)
<1>3. SoftBlocked >= n /\ (AfterSem = "SoftBlocked" => SoftBlocked = n)
  BY DEF SoftCounted, SoftBlockedCovers, SoftBlockedExact
<1>4. n \in Nat /\ k \in Nat /\ m = n - k /\ SoftBlocked' = SoftBlocked - k
  BY <1>1, <1>2
<1> HIDE DEF n, m, k
<1>5. SoftBlocked' >= m /\ (AfterSem = "SoftBlocked" => SoftBlocked' = m)
  BY <1>1, <1>3, <1>4
<1> QED BY <1>5 DEF m, SoftCounted, SoftBlockedCovers, SoftBlockedExact

\* Steps that change no semaphore of the processes keep the law.
LEMMA LawKept ==
  ASSUME SemaphoreLaw,
         \A s \in UserSem : semVal'[s] = semVal[s] /\ procQ'[s] = procQ[s]
  PROVE  SemaphoreLaw'
BY DEF SemaphoreLaw

\* Steps that touch neither counters nor semaphores.
LEMMA CountsQuiet ==
  ASSUME Counts, UNCHANGED <<pcbFree, ProcCount, SoftBlocked, semVal, procQ, p_semAdd>>
  PROVE  Counts'
<1>1. SoftWaits' = SoftWaits
  BY DEF SoftWaits
<1>2. ProcCounted'
  BY ProcCountKept DEF Counts
<1>3. SoftCounted'
  BY <1>1, SoftKept DEF Counts
<1>4. SemaphoreLaw'
  BY LawKept DEF Counts
<1> QED BY <1>2, <1>3, <1>4 DEF Counts

\* SYS1 counts the new process, which waits for nothing.
LEMMA CountsCreate == Structure /\ Counts /\ SYS1_CP => Counts'
<1> SUFFICES ASSUME Structure, Counts, SYS1_CP PROVE Counts'
  OBVIOUS
<1>1. PICK p \in pcbFree : /\ pcbFree' = pcbFree \ {p}
                          /\ p_semAdd' = [p_semAdd EXCEPT ![p] = NULL]
  BY DEF SYS1_CP
<1>2. UNCHANGED <<SoftBlocked, semVal, procQ>> /\ ProcCount' = ProcCount + 1
  BY DEF SYS1_CP
<1>3. /\ p \in Pcb /\ p \notin Live /\ Live' = Live \cup {p}
      /\ p \notin Blocked /\ p_semAdd[p] = NULL /\ TypeOK
  BY <1>1 DEF Structure, TypeOK, OnePlace, Live, Blocked
<1>4. p_semAdd' = p_semAdd
  BY <1>1, <1>3 DEF TypeOK
<1>5. SoftWaits' = SoftWaits
  BY <1>4 DEF SoftWaits
<1>6. ProcCounted'
  <2>1. IsFiniteSet(Live) /\ Cardinality(Live) \in Nat
    BY <1>3, FiniteCounts
  <2>2. Cardinality(Live') = Cardinality(Live) + 1
    BY <1>3, <2>1, FS_AddElement
  <2> QED BY <1>2, <2>1, <2>2 DEF Counts, ProcCounted, ProcCountExact
<1>7. SoftCounted'
  BY <1>2, <1>5, SoftKept DEF Counts
<1>8. SemaphoreLaw'
  BY <1>2, LawKept DEF Counts
<1> QED BY <1>6, <1>7, <1>8 DEF Counts

\* What insertBlocked does for the running process.
LEMMA BlockCounts ==
  ASSUME Structure, mode = "run", NEW s \in Sem, insertBlocked(s, CurrProc)
  PROVE  /\ CurrProc \in Pcb /\ CurrProc \notin SoftWaits
         /\ SoftWaits' = IF s \in DevSem THEN SoftWaits \cup {CurrProc} ELSE SoftWaits
         /\ \A x \in Sem : x # s => procQ'[x] = procQ[x]
         /\ Len(procQ'[s]) = Len(procQ[s]) + 1
<1>1. /\ procQ' = [procQ EXCEPT ![s] = InsertProcQ(@, CurrProc)]
      /\ p_semAdd' = [p_semAdd EXCEPT ![CurrProc] = s]
  BY DescriptorLemma DEF Structure, insertBlocked
<1>2. /\ procQ \in [Sem -> Seq(Pcb)] /\ p_semAdd \in [Pcb -> Sem \cup {NULL}]
      /\ CurrProc \in Pcb /\ CurrProc \notin Blocked
  BY DEF Structure, TypeOK, OnePlace
<1>3. p_semAdd[CurrProc] = NULL /\ NULL \notin DevSem
  BY <1>2, PcbAssumption DEF Blocked, Sem
<1>4. SoftWaits = {p \in Pcb : p_semAdd[p] \in DevSem}
      /\ SoftWaits' = {p \in Pcb : p_semAdd'[p] \in DevSem}
  BY DEF SoftWaits
<1>5. SoftWaits' = IF s \in DevSem THEN SoftWaits \cup {CurrProc} ELSE SoftWaits
  BY <1>1, <1>2, <1>3, <1>4
<1>6. \A x \in Sem : x # s => procQ'[x] = procQ[x]
  BY <1>1, <1>2
<1>7. procQ'[s] = Append(procQ[s], CurrProc) /\ procQ[s] \in Seq(Pcb)
  BY <1>1, <1>2 DEF InsertProcQ
<1>8. Len(procQ'[s]) = Len(procQ[s]) + 1
  BY <1>2, <1>7
<1> QED BY <1>2, <1>3, <1>4, <1>5, <1>6, <1>8

\* A P of a process.
LEMMA CountsP ==
  ASSUME Structure, Counts, NEW s \in UserSem, SYS3_P(s)
  PROVE  Counts'
<1>1. /\ mode = "run" /\ TypeOK /\ s \in Sem /\ s \notin DevSem
      /\ semVal' = [semVal EXCEPT ![s] = @ - 1]
      /\ UNCHANGED <<ProcCount, SoftBlocked, pcbFree>>
  BY SemAssumption DEF Structure, SYS3_P, Calls, kernel, Sem
<1>2. ProcCounted'
  BY <1>1, ProcCountKept DEF Counts
<1>3. /\ semVal[s] \in Int /\ semVal'[s] = semVal[s] - 1
      /\ \A x \in UserSem : x # s => semVal'[x] = semVal[x]
      /\ procQ[s] \in Seq(Pcb) /\ Len(procQ[s]) \in Nat
  BY <1>1 DEF TypeOK, Sem
<1>4. \A x \in UserSem : Len(procQ[x]) = IF semVal[x] < 0 THEN -semVal[x] ELSE 0
  BY DEF Counts, SemaphoreLaw
<1>5. CASE semVal[s] - 1 < 0 /\ insertBlocked(s, CurrProc)
  <2>1. /\ SoftWaits' = SoftWaits
        /\ \A x \in Sem : x # s => procQ'[x] = procQ[x]
        /\ Len(procQ'[s]) = Len(procQ[s]) + 1
    BY <1>1, <1>5, BlockCounts
  <2>2. SoftCounted'
    BY <1>1, <2>1, SoftKept DEF Counts
  <2>3. Len(procQ'[s]) = IF semVal'[s] < 0 THEN -semVal'[s] ELSE 0
    BY <1>3, <1>4, <1>5, <2>1
  <2>4. SemaphoreLaw'
    BY <1>3, <1>4, <2>1, <2>3 DEF SemaphoreLaw, Sem
  <2> QED BY <1>2, <2>2, <2>4 DEF Counts
<1>6. CASE semVal[s] - 1 >= 0 /\ UNCHANGED <<procQ, p_semAdd>>
  <2>1. SoftWaits' = SoftWaits
    BY <1>6 DEF SoftWaits
  <2>2. SoftCounted'
    BY <1>1, <2>1, SoftKept DEF Counts
  <2>3. Len(procQ'[s]) = IF semVal'[s] < 0 THEN -semVal'[s] ELSE 0
    BY <1>3, <1>4, <1>6
  <2>4. SemaphoreLaw'
    BY <1>3, <1>4, <1>6, <2>3 DEF SemaphoreLaw
  <2> QED BY <1>2, <2>2, <2>4 DEF Counts
<1> QED BY <1>5, <1>6 DEF SYS3_P

\* A wait for a device: one SoftBlocked more for one wait more.
LEMMA CountsIO ==
  ASSUME Structure, Counts, NEW d \in SubDev, SYS5_W_IO(d)
  PROVE  Counts'
<1>1. /\ mode = "run" /\ TypeOK /\ d \in Sem /\ d \in DevSem
      /\ semVal' = [semVal EXCEPT ![d] = @ - 1]
      /\ SoftBlocked' = SoftBlocked + 1
      /\ insertBlocked(d, CurrProc)
      /\ UNCHANGED <<ProcCount, pcbFree>>
  BY DEF Structure, SYS5_W_IO, Sem, DevSem
<1>2. /\ CurrProc \in Pcb /\ CurrProc \notin SoftWaits
      /\ SoftWaits' = SoftWaits \cup {CurrProc}
      /\ \A x \in Sem : x # d => procQ'[x] = procQ[x]
  BY <1>1, BlockCounts
<1>3. ProcCounted'
  BY <1>1, ProcCountKept DEF Counts
<1>4. SoftCounted'
  BY <1>1, <1>2, SoftMore DEF Counts
<1>5. \A s \in UserSem : s \in Sem /\ s # d
  BY <1>1, SemAssumption DEF Sem
<1>6. SemaphoreLaw'
  <2>1. \A s \in UserSem : semVal'[s] = semVal[s] /\ procQ'[s] = procQ[s]
    BY <1>1, <1>2, <1>5 DEF TypeOK
  <2> QED BY <2>1, LawKept DEF Counts
<1> QED BY <1>3, <1>4, <1>6 DEF Counts

\* A wait for the clock: one or two SoftBlocked more for one wait more.
LEMMA CountsClock ==
  ASSUME Structure, Counts, SYS7_W_CLK
  PROVE  Counts'
<1>1. /\ mode = "run" /\ TypeOK /\ Clock \in Sem /\ Clock \in DevSem
      /\ SoftBlocked' = Clobbered("SoftBlocked", SoftBlocked + 2)
      /\ ProcCount' = Clobbered("ProcCount", ProcCount)
      /\ insertBlocked(Clock, CurrProc)
      /\ UNCHANGED <<semVal, pcbFree>>
  BY DEF Structure, SYS7_W_CLK, Calls, Sem, DevSem
<1>2. /\ CurrProc \in Pcb /\ CurrProc \notin SoftWaits
      /\ SoftWaits' = SoftWaits \cup {CurrProc}
      /\ \A x \in Sem : x # Clock => procQ'[x] = procQ[x]
  BY <1>1, BlockCounts
<1>3. ProcCounted'
  BY <1>1, ProcCountKept DEF Counts, Clobbered
<1>4. SoftCounted'
  <2>1. \/ SoftBlocked' = SoftBlocked + 1
        \/ AfterSem # "SoftBlocked" /\ SoftBlocked' = SoftBlocked + 2
    BY <1>1 DEF Clobbered, TypeOK
  <2> QED BY <1>1, <1>2, <2>1, SoftMore DEF Counts
<1>5. \A s \in UserSem : s \in Sem /\ s # Clock
  BY <1>1, SemAssumption DEF Sem
<1>6. SemaphoreLaw'
  BY <1>1, <1>2, <1>5, LawKept DEF Counts
<1> QED BY <1>3, <1>4, <1>6 DEF Counts

\* What a V does to the waits.
LEMMA VCounts ==
  ASSUME Structure, NEW s \in Sem, V(s)
  PROVE  /\ semVal' = [semVal EXCEPT ![s] = @ + 1]
         /\ \A x \in Sem : x # s => procQ'[x] = procQ[x]
         /\ procQ[s] = <<>> => procQ'[s] = <<>> /\ SoftWaits' = SoftWaits
         /\ procQ[s] # <<>> =>
              /\ Len(procQ'[s]) = Len(procQ[s]) - 1
              /\ Head(procQ[s]) \in Pcb /\ p_semAdd[Head(procQ[s])] = s
              /\ SoftWaits' = SoftWaits \ {Head(procQ[s])}
<1>1. /\ procQ \in [Sem -> Seq(Pcb)] /\ p_semAdd \in [Pcb -> Sem \cup {NULL}]
      /\ semVal' = [semVal EXCEPT ![s] = @ + 1]
      /\ procQ' = [procQ EXCEPT ![s] = RemoveProcQ(@)]
      /\ p_semAdd' = [p \in Pcb |-> IF p = HeadProcQ(procQ[s], NULL)
                                    THEN NULL ELSE p_semAdd[p]]
      /\ NULL \notin Pcb /\ NULL \notin DevSem
  BY PcbAssumption DEF Structure, TypeOK, V, removeBlocked, Sem
<1>2. SoftWaits = {p \in Pcb : p_semAdd[p] \in DevSem}
      /\ SoftWaits' = {p \in Pcb : p_semAdd'[p] \in DevSem}
  BY DEF SoftWaits
<1>3. \A x \in Sem : x # s => procQ'[x] = procQ[x]
  BY <1>1
<1>4. ASSUME procQ[s] = <<>> PROVE procQ'[s] = <<>> /\ SoftWaits' = SoftWaits
  <2>1. procQ'[s] = <<>>
    BY <1>1, <1>4 DEF RemoveProcQ
  <2>2. \A p \in Pcb : p_semAdd'[p] = p_semAdd[p]
    BY <1>1, <1>4 DEF HeadProcQ
  <2> QED BY <1>2, <2>1, <2>2
<1>5. ASSUME procQ[s] # <<>>
      PROVE  /\ Len(procQ'[s]) = Len(procQ[s]) - 1
             /\ Head(procQ[s]) \in Pcb /\ p_semAdd[Head(procQ[s])] = s
             /\ SoftWaits' = SoftWaits \ {Head(procQ[s])}
  <2> DEFINE h == Head(procQ[s])
  <2>1. IsListOf(procQ[s], Live) /\ Range(procQ[s]) = {p \in Pcb : p_semAdd[p] = s}
    BY DEF Structure, OnePlace
  <2>2. h \in Range(procQ[s]) /\ Len(RemoveProcQ(procQ[s])) = Len(procQ[s]) - 1
    BY <1>5, <2>1, RemoveProcQLemma
  <2>3. \A p \in Pcb : p_semAdd'[p] = IF p = h THEN NULL ELSE p_semAdd[p]
    BY <1>1, <1>5 DEF HeadProcQ
  <2>4. procQ'[s] = RemoveProcQ(procQ[s])
    BY <1>1
  <2> HIDE DEF h
  <2>5. SoftWaits' = SoftWaits \ {h}
    BY <1>1, <1>2, <2>3
  <2> QED BY <2>1, <2>2, <2>4, <2>5 DEF h
<1> QED BY <1>1, <1>3, <1>4, <1>5

\* A V of a process: one waiter less for a value that was negative.
LEMMA CountsV ==
  ASSUME Structure, Counts, NEW s \in UserSem, SYS4_V(s)
  PROVE  Counts'
<1>1. /\ TypeOK /\ s \in Sem /\ s \notin DevSem /\ V(s)
      /\ UNCHANGED <<ProcCount, SoftBlocked, pcbFree>>
  BY SemAssumption DEF Structure, SYS4_V, kernel, Sem
<1>2. /\ semVal' = [semVal EXCEPT ![s] = @ + 1]
      /\ \A x \in Sem : x # s => procQ'[x] = procQ[x]
      /\ procQ[s] = <<>> => procQ'[s] = <<>> /\ SoftWaits' = SoftWaits
      /\ procQ[s] # <<>> =>
           /\ Len(procQ'[s]) = Len(procQ[s]) - 1
           /\ Head(procQ[s]) \in Pcb /\ p_semAdd[Head(procQ[s])] = s
           /\ SoftWaits' = SoftWaits \ {Head(procQ[s])}
  BY <1>1, VCounts
<1>3. SoftWaits' = SoftWaits
  BY <1>1, <1>2 DEF SoftWaits
<1>4. /\ semVal[s] \in Int /\ semVal'[s] = semVal[s] + 1
      /\ \A x \in UserSem : x # s => semVal'[x] = semVal[x]
      /\ procQ[s] \in Seq(Pcb) /\ Len(procQ[s]) \in Nat
      /\ (procQ[s] = <<>> <=> Len(procQ[s]) = 0)
  BY <1>1, <1>2 DEF TypeOK, Sem
<1>5. \A x \in UserSem : Len(procQ[x]) = IF semVal[x] < 0 THEN -semVal[x] ELSE 0
  BY DEF Counts, SemaphoreLaw
<1>6. Len(procQ'[s]) = IF semVal'[s] < 0 THEN -semVal'[s] ELSE 0
  <2>1. CASE procQ[s] = <<>>
    <3>1. Len(procQ'[s]) = 0 /\ semVal[s] >= 0
      BY <1>2, <1>4, <1>5, <2>1
    <3> QED BY <1>4, <3>1
  <2>2. CASE procQ[s] # <<>>
    <3>1. Len(procQ[s]) = -semVal[s] /\ semVal[s] < 0
      BY <1>4, <1>5, <2>2
    <3> QED BY <1>2, <1>4, <2>2, <3>1
  <2> QED BY <2>1, <2>2
<1>7. SemaphoreLaw'
  BY <1>2, <1>4, <1>5, <1>6 DEF SemaphoreLaw, Sem
<1>8. ProcCounted'
  BY <1>1, ProcCountKept DEF Counts
<1>9. SoftCounted'
  BY <1>1, <1>3, SoftKept DEF Counts
<1> QED BY <1>7, <1>8, <1>9 DEF Counts

\* An interrupt of a sub-device counts the process it wakes, if any.
LEMMA CountsInterrupt ==
  ASSUME Structure, Counts, NEW d \in SubDev, Non_T_Int(d)
  PROVE  Counts'
<1>1. /\ TypeOK /\ d \in Sem /\ d \in DevSem /\ V(d)
      /\ SoftBlocked' = IF procQ[d] = <<>> THEN SoftBlocked ELSE SoftBlocked - 1
      /\ UNCHANGED <<ProcCount, pcbFree>>
  BY DEF Structure, Non_T_Int, Sem, DevSem
<1>2. /\ semVal' = [semVal EXCEPT ![d] = @ + 1]
      /\ \A x \in Sem : x # d => procQ'[x] = procQ[x]
      /\ procQ[d] = <<>> => procQ'[d] = <<>> /\ SoftWaits' = SoftWaits
      /\ procQ[d] # <<>> =>
           /\ Len(procQ'[d]) = Len(procQ[d]) - 1
           /\ Head(procQ[d]) \in Pcb /\ p_semAdd[Head(procQ[d])] = d
           /\ SoftWaits' = SoftWaits \ {Head(procQ[d])}
  BY <1>1, VCounts
<1>3. SoftCounted'
  <2>1. CASE procQ[d] = <<>>
    BY <1>1, <1>2, <2>1, SoftKept DEF Counts
  <2>2. CASE procQ[d] # <<>>
    <3>1. /\ {Head(procQ[d])} \subseteq SoftWaits
          /\ SoftWaits' = SoftWaits \ {Head(procQ[d])}
      BY <1>1, <1>2, <2>2 DEF SoftWaits
    <3>2. SoftBlocked' = SoftBlocked - Cardinality({Head(procQ[d])})
      BY <1>1, <2>2, FS_Singleton
    <3> QED BY <1>1, <3>1, <3>2, SoftLess DEF Counts
  <2> QED BY <2>1, <2>2
<1>4. \A s \in UserSem : s \in Sem /\ s # d
  BY <1>1, SemAssumption DEF Sem
<1>5. SemaphoreLaw'
  <2>1. \A s \in UserSem : semVal'[s] = semVal[s] /\ procQ'[s] = procQ[s]
    BY <1>1, <1>2, <1>4 DEF TypeOK
  <2> QED BY <2>1, LawKept DEF Counts
<1>6. ProcCounted'
  BY <1>1, ProcCountKept DEF Counts
<1> QED BY <1>3, <1>5, <1>6 DEF Counts

\* The interval timer counts everybody it wakes.
LEMMA CountsTick == Structure /\ Counts /\ IntervalTimer => Counts'
<1> SUFFICES ASSUME Structure, Counts, IntervalTimer PROVE Counts'
  OBVIOUS
<1> DEFINE P == Range(procQ[Clock])
<1>1. /\ TypeOK /\ Clock \in Sem /\ Clock \in DevSem
      /\ SoftBlocked' = SoftBlocked - Len(procQ[Clock])
      /\ procQ' = [procQ EXCEPT ![Clock] = <<>>]
      /\ p_semAdd' = [p \in Pcb |-> IF p \in P THEN NULL ELSE p_semAdd[p]]
      /\ semVal' = [semVal EXCEPT ![Clock] = 0]
      /\ UNCHANGED <<ProcCount, pcbFree>>
  BY DEF Structure, IntervalTimer, Sem, DevSem
<1>2. IsListOf(procQ[Clock], Live) /\ P = {p \in Pcb : p_semAdd[p] = Clock}
  BY <1>1 DEF Structure, OnePlace
<1>3. Cardinality(P) = Len(procQ[Clock])
  BY <1>2, ListCardinality
<1>4. P \subseteq SoftWaits
  BY <1>1, <1>2 DEF SoftWaits
<1> HIDE DEF P
<1>5. SoftWaits' = SoftWaits \ P
  <2>1. SoftWaits' = {p \in Pcb : p_semAdd'[p] \in DevSem}
        /\ SoftWaits = {p \in Pcb : p_semAdd[p] \in DevSem}
    BY DEF SoftWaits
  <2>2. NULL \notin DevSem
    BY PcbAssumption DEF Sem
  <2> QED BY <1>1, <2>1, <2>2
<1>6. SoftCounted'
  BY <1>1, <1>3, <1>4, <1>5, SoftLess DEF Counts
<1>7. \A s \in UserSem : s \in Sem /\ s # Clock
  BY <1>1, SemAssumption DEF Sem
<1>8. SemaphoreLaw'
  <2>1. \A s \in UserSem : semVal'[s] = semVal[s] /\ procQ'[s] = procQ[s]
    BY <1>1, <1>7 DEF TypeOK
  <2> QED BY <2>1, LawKept DEF Counts
<1>9. ProcCounted'
  BY <1>1, ProcCountKept DEF Counts
<1> QED BY <1>6, <1>8, <1>9 DEF Counts

\* killprocT takes a process from all that counts it: a V on a semaphore of the
\* processes, one soft-blocked process less on one of sem[].
LEMMA CountsKillFree == Structure /\ Counts /\ KillFree => Counts'
<1> SUFFICES ASSUME Structure, Counts, KillFree PROVE Counts'
  OBVIOUS
<1> DEFINE v == Victim
           s == p_semAdd[v]
<1>1. /\ mode = "kill"
      /\ SoftBlocked' = IF s \in DevSem THEN SoftBlocked - 1 ELSE SoftBlocked
      /\ semVal' = [x \in Sem |-> IF x = s /\ s \notin DevSem
                                  THEN semVal[x] + 1 ELSE semVal[x]]
      /\ procQ' = [x \in Sem |-> IF x = s THEN OutProcQ(procQ[x], v) ELSE procQ[x]]
      /\ p_semAdd' = [p_semAdd EXCEPT ![v] = NULL]
      /\ pcbFree' = pcbFree \cup {v}
      /\ ProcCount' = ProcCount - 1
  BY DEF KillFree, outBlocked, IsDevSem
<1>2. /\ TypeOK /\ v \in Live /\ v \in Pcb /\ NULL \notin Sem
      /\ p_semAdd \in [Pcb -> Sem \cup {NULL}]
  BY <1>1, VictimLemma, PcbAssumption DEF Structure, TypeOK
<1> HIDE DEF v
<1>3. ProcCounted'
  <2>1. IsFiniteSet(Live) /\ Cardinality(Live) \in Nat
    BY <1>2, FiniteCounts
  <2>2. Live' = Live \ {v}
    BY <1>1 DEF Live
  <2>3. Cardinality(Live') = Cardinality(Live) - 1
    BY <1>2, <2>1, <2>2, FS_RemoveElement
  <2> QED BY <1>1, <2>1, <2>3 DEF Counts, ProcCounted, ProcCountExact
<1>4. SoftCounted'
  <2>1. /\ SoftWaits = {p \in Pcb : p_semAdd[p] \in DevSem}
        /\ SoftWaits' = {p \in Pcb : p_semAdd'[p] \in DevSem}
        /\ NULL \notin DevSem
    BY <1>2 DEF SoftWaits, Sem
  <2>2. CASE s \in DevSem
    <3>1. {v} \subseteq SoftWaits /\ SoftWaits' = SoftWaits \ {v}
      BY <1>1, <1>2, <2>1, <2>2
    <3>2. SoftBlocked' = SoftBlocked - Cardinality({v})
      BY <1>1, <2>2, FS_Singleton
    <3> QED BY <1>2, <3>1, <3>2, SoftLess DEF Counts
  <2>3. CASE s \notin DevSem
    <3>1. SoftWaits' = SoftWaits /\ SoftBlocked' = SoftBlocked
      BY <1>1, <1>2, <2>1, <2>3
    <3> QED BY <3>1, SoftKept DEF Counts
  <2> QED BY <2>2, <2>3
<1>5. SemaphoreLaw'
  <2>1. SUFFICES ASSUME NEW x \in UserSem
                 PROVE  Len(procQ'[x]) = IF semVal'[x] < 0 THEN -semVal'[x] ELSE 0
    BY DEF SemaphoreLaw
  <2>2. x \in Sem /\ x \notin DevSem /\ semVal[x] \in Int
    BY <1>2, SemAssumption DEF TypeOK, Sem
  <2>3. Len(procQ[x]) = IF semVal[x] < 0 THEN -semVal[x] ELSE 0
    BY DEF Counts, SemaphoreLaw
  <2>4. CASE x = s
    <3>1. procQ'[x] = OutProcQ(procQ[x], v) /\ semVal'[x] = semVal[x] + 1
      BY <1>1, <2>2, <2>4
    <3>2. IsListOf(procQ[x], Live) /\ v \in Range(procQ[x])
      BY <1>2, <2>2, <2>4 DEF Structure, OnePlace
    <3>3. Len(procQ'[x]) = Len(procQ[x]) - 1 /\ Len(procQ[x]) # 0
      <4>1. Len(OutProcQ(procQ[x], v)) = Len(procQ[x]) - 1
        BY <3>2, OutProcQLemma
      <4>2. Len(procQ[x]) # 0
        BY <3>2 DEF IsListOf, Range
      <4> QED BY <3>1, <4>1, <4>2
    <3> QED BY <2>2, <2>3, <3>1, <3>3
  <2>5. CASE x # s
    BY <1>1, <2>2, <2>3, <2>5
  <2> QED BY <2>4, <2>5
<1> QED BY <1>3, <1>4, <1>5 DEF Counts

\* Every step keeps the counters and the law of the semaphores.
LEMMA CountsNext == Structure /\ Counts /\ [Next]_vars => Counts'
<1> SUFFICES ASSUME Structure, Counts, [Next]_vars PROVE Counts'
  OBVIOUS
<1>1. CASE SYS1_CP
  BY <1>1, CountsCreate
<1>2. CASE SYS2_TP \/ KillChild \/ PLT \/ \E d \in SubDev : Command(d) \/ DeviceDone(d)
  <2>1. UNCHANGED <<pcbFree, ProcCount, SoftBlocked, semVal, procQ, p_semAdd>>
    BY <1>2 DEF SYS2_TP, KillChild, PLT, Command, DeviceDone, kernel, sems
  <2> QED BY <2>1, CountsQuiet
<1>3. CASE KillFree
  BY <1>3, CountsKillFree
<1>4. CASE \E s \in UserSem : SYS3_P(s)
  BY <1>4, CountsP
<1>5. CASE \E s \in UserSem : SYS4_V(s)
  BY <1>5, CountsV
<1>6. CASE \E d \in SubDev : SYS5_W_IO(d)
  BY <1>6, CountsIO
<1>7. CASE SYS7_W_CLK
  BY <1>7, CountsClock
<1>8. CASE IntervalTimer
  BY <1>8, CountsTick
<1>9. CASE \E d \in Dev : DeviceInterrupt(d)
  <2>1. PICK d \in Dev : DeviceInterrupt(d)
    BY <1>9
  <2>2. d \in SubDev /\ Non_T_Int(d)
    BY <2>1 DEF DeviceInterrupt, SubDev
  <2> QED BY <2>2, CountsInterrupt
<1>10. CASE \E t \in Term : TerminalInterrupt(t)
  <2>1. PICK t \in Term : TerminalInterrupt(t)
    BY <1>10
  <2>2. Interrupting(t) \in SubDev /\ Non_T_Int(Interrupting(t))
    BY <2>1 DEF TerminalInterrupt, Interrupting, SubDev
  <2> QED BY <2>2, CountsInterrupt
<1>11. CASE UNCHANGED vars
  <2>1. UNCHANGED <<pcbFree, ProcCount, SoftBlocked, semVal, procQ, p_semAdd>>
    BY <1>11 DEF vars, kernel, sems
  <2> QED BY <2>1, CountsQuiet
<1> QED BY <1>1, <1>2, <1>3, <1>4, <1>5, <1>6, <1>7, <1>8, <1>9, <1>10, <1>11
        DEF Next, Stop

\* A step calls scheduler() with the counters that it leaves, or lets a process
\* or killprocT go on, or changes nothing that a verdict depends on.
LEMMA WhoSchedules ==
  ASSUME Structure, [Next]_vars
  PROVE  \/ \E ready : scheduler(ready, ProcCount', SoftBlocked')
         \/ mode' \in {"run", "kill"}
         \/ UNCHANGED <<mode, pcbFree, p_semAdd>>
<1>1. CASE SYS1_CP \/ SYS2_TP \/ KillChild
  BY <1>1 DEF SYS1_CP, SYS2_TP, KillChild, Calls, queues
<1>2. CASE KillFree
  <2>1. mode = "kill"
    BY <1>2 DEF KillFree
  <2>2. CASE Len(killStack) = 1
    BY <1>2, <2>2 DEF KillFree
  <2>3. CASE Len(killStack) # 1
    BY <1>2, <2>1, <2>3 DEF KillFree
  <2> QED BY <2>2, <2>3
<1>3. CASE \E s \in UserSem : SYS3_P(s)
  BY <1>3 DEF SYS3_P, Calls, kernel, queues
<1>4. CASE \E s \in UserSem : SYS4_V(s)
  BY <1>4 DEF SYS4_V, Calls
<1>5. CASE \E d \in SubDev : SYS5_W_IO(d)
  BY <1>5 DEF SYS5_W_IO
<1>6. CASE SYS7_W_CLK
  BY <1>6 DEF SYS7_W_CLK
<1>7. CASE \E d \in SubDev : Command(d) \/ DeviceDone(d)
  BY <1>7 DEF Command, DeviceDone, kernel, queues, sems
<1>8. CASE PLT
  BY <1>8 DEF PLT, kernel
<1>9. ASSUME NEW ready, resume(ready, SoftBlocked'), UNCHANGED ProcCount,
             mode \in {"run", "idle"}
      PROVE  \/ scheduler(ready, ProcCount', SoftBlocked')
             \/ mode' \in {"run", "kill"}
  <2>1. CASE CurrProc = NULL
    BY <1>9, <2>1 DEF resume
  <2>2. CASE CurrProc # NULL
    BY <1>9, <2>2 DEF resume, Structure, OnePlace
  <2> QED BY <2>1, <2>2
<1>10. CASE IntervalTimer
  BY <1>9, <1>10 DEF IntervalTimer, Interruptible
<1>11. ASSUME NEW d, Non_T_Int(d), mode \in {"run", "idle"}
       PROVE  \/ scheduler(ReadyAfterV(d), ProcCount', SoftBlocked')
              \/ mode' \in {"run", "kill"}
  BY <1>9, <1>11 DEF Non_T_Int
<1>12. CASE \E d \in Dev : DeviceInterrupt(d)
  BY <1>11, <1>12 DEF DeviceInterrupt, Interruptible
<1>13. CASE \E t \in Term : TerminalInterrupt(t)
  BY <1>11, <1>13 DEF TerminalInterrupt, Interruptible
<1>14. CASE UNCHANGED vars
  BY <1>14 DEF vars, queues, kernel, sems
<1> QED BY <1>1, <1>2, <1>3, <1>4, <1>5, <1>6, <1>7, <1>8, <1>10, <1>12, <1>13, <1>14
        DEF Next, Stop

\* The verdict of a scheduler() that finds nobody ready, in a state with right
\* counters.
LEMMA VerdictLemma ==
  ASSUME Structure', Counts', NEW ready,
         scheduler(ready, ProcCount', SoftBlocked')
  PROVE  /\ AfterSem # "ProcCount" => StopsRightly'
         /\ AfterSem = "SoftBlocked" => DeadlockDetected'
<1>1. CASE ready # <<>>
  BY <1>1 DEF scheduler, StopsRightly, DeadlockDetected
<1>2. CASE ready = <<>>
  <2> DEFINE n == Cardinality(Live')
             m == Cardinality(SoftWaits')
  <2>1. /\ CurrProc' = NULL /\ R_Queue' = <<>>
        /\ mode' = NothingReady(ProcCount', SoftBlocked')
    BY <1>2 DEF scheduler, HeadProcQ, RemoveProcQ
  <2>2. /\ TypeOK' /\ IsFiniteSet(Live') /\ n \in Nat
        /\ IsFiniteSet(SoftWaits') /\ m \in Nat
        /\ SoftWaits' = {p \in Pcb : p_semAdd'[p] \in DevSem}
    <3>1. TypeOK'
      BY DEF Structure
    <3>2. /\ Live' \subseteq Pcb
          /\ SoftWaits' = {p \in Pcb : p_semAdd'[p] \in DevSem}
      BY DEF Live, SoftWaits
    <3>3. IsFiniteSet(Live') /\ IsFiniteSet(SoftWaits')
      BY <3>2, PcbAssumption, FS_Subset
    <3> QED BY <3>1, <3>2, <3>3, FS_CardinalityType
  <2>3. Live' \subseteq Pcb /\ \A p \in Live' : p_semAdd'[p] # NULL
    <3>1. Live' = Blocked' \cup Range(R_Queue') \cup ({CurrProc'} \ {NULL})
      BY DEF Structure, OnePlace
    <3>2. Live' \subseteq Blocked'
      BY <2>1, <3>1, EmptyList
    <3> QED BY <3>2 DEF Live, Blocked
  <2>4. (n = 0 <=> Live' = {}) /\ (m = 0 <=> SoftWaits' = {})
    BY <2>2, FS_EmptySet
  <2>5. /\ AfterSem # "ProcCount" => ProcCount' = n
        /\ SoftBlocked' >= m /\ SoftBlocked' \in Int
        /\ AfterSem = "SoftBlocked" => SoftBlocked' = m
    BY <2>2 DEF TypeOK, Counts, ProcCounted, ProcCountExact, SoftCounted,
                SoftBlockedCovers, SoftBlockedExact
  <2> HIDE DEF n, m
  <2>6. ASSUME AfterSem # "ProcCount" PROVE StopsRightly'
    <3>1. mode' = "halt" => Live' = {}
      BY <2>1, <2>2, <2>4, <2>5, <2>6 DEF NothingReady
    <3>2. mode' = "panic" => n > 0 /\ m = 0
      BY <2>1, <2>2, <2>5, <2>6 DEF NothingReady
    <3>3. ASSUME mode' = "panic", NEW p \in Live' PROVE p_semAdd'[p] \in UserSem
      <4>1. p \in Pcb /\ p_semAdd'[p] \in Sem /\ p_semAdd'[p] \notin DevSem
        BY <2>2, <2>3, <2>4, <3>2, <3>3 DEF TypeOK
      <4> QED BY <4>1 DEF Sem
    <3>4. mode' # "returned"
      BY <2>1, <2>2, <2>5, <2>6 DEF NothingReady
    <3>5. mode' = "panic" => Live' # {}
      BY <2>2, <2>4, <3>2
    <3> QED BY <3>1, <3>3, <3>4, <3>5 DEF StopsRightly
  <2>7. ASSUME AfterSem = "SoftBlocked" PROVE DeadlockDetected'
    BY <2>1, <2>2, <2>4, <2>5, <2>7 DEF NothingReady, DeadlockDetected
  <2> QED BY <2>6, <2>7
<1> QED BY <1>1, <1>2

\* What the scheduler concludes from its counters is right.
Verdicts ==
  /\ AfterSem # "ProcCount" => StopsRightly
  /\ AfterSem = "SoftBlocked" => DeadlockDetected

LEMMA VerdictsNext == Structure /\ Counts /\ Verdicts /\ [Next]_vars => Verdicts'
<1> SUFFICES ASSUME Structure, Counts, Verdicts, [Next]_vars PROVE Verdicts'
  OBVIOUS
<1>1. Structure' /\ Counts'
  BY StructureNext, CountsNext
<1>2. CASE \E ready : scheduler(ready, ProcCount', SoftBlocked')
  BY <1>1, <1>2, VerdictLemma DEF Verdicts
<1>3. CASE mode' \in {"run", "kill"}
  BY <1>3 DEF Verdicts, StopsRightly, DeadlockDetected
<1>4. CASE UNCHANGED <<mode, pcbFree, p_semAdd>>
  <2>1. Live' = Live /\ SoftWaits' = SoftWaits
    BY <1>4 DEF Live, SoftWaits
  <2> QED BY <1>4, <2>1 DEF Verdicts, StopsRightly, DeadlockDetected
<1> QED BY <1>2, <1>3, <1>4, WhoSchedules

\* Every run keeps the counters, the semaphores and the verdicts right, as far
\* as the place of sem[] in memory permits.
THEOREM CountsInvariant == Spec => [](Structure /\ Counts /\ Verdicts)
<1>1. Init => Structure /\ Counts /\ Verdicts
  <2>1. Init => Verdicts
    BY DEF Init, Verdicts, StopsRightly, DeadlockDetected
  <2> QED BY <2>1, StructureInit, CountsInit
<1>2. Structure /\ Counts /\ Verdicts /\ [Next]_vars => (Structure /\ Counts /\ Verdicts)'
  BY StructureNext, CountsNext, VerdictsNext
<1> QED BY <1>1, <1>2, PTL DEF Spec

\* A negative semaphore of the processes counts those blocked on it, through
\* every P, V and kill, wherever sem[] is.
THEOREM SemaphoresCorrect == Spec => []SemaphoreLaw
<1>1. Structure /\ Counts /\ Verdicts => SemaphoreLaw
  BY DEF Counts
<1> QED BY <1>1, CountsInvariant, PTL

\* No process waits for a device or the clock uncounted, wherever sem[] is.
THEOREM SoftBlockedNeverTooSmall == Spec => []SoftBlockedCovers
<1>1. Structure /\ Counts /\ Verdicts => SoftBlockedCovers
  BY DEF Counts, SoftCounted
<1> QED BY <1>1, CountsInvariant, PTL

\* ProcCount is right if the write past sem[] does not hit it.
THEOREM ProcCountCorrect ==
  ASSUME AfterSem # "ProcCount"
  PROVE  Spec => []ProcCountExact
<1>1. Structure /\ Counts /\ Verdicts => ProcCountExact
  BY DEF Counts, ProcCounted
<1> QED BY <1>1, CountsInvariant, PTL

\* SoftBlocked is right if the write past sem[] hits it.
THEOREM SoftBlockedCorrect ==
  ASSUME AfterSem = "SoftBlocked"
  PROVE  Spec => []SoftBlockedExact
<1>1. Structure /\ Counts /\ Verdicts => SoftBlockedExact
  BY DEF Counts, SoftCounted
<1> QED BY <1>1, CountsInvariant, PTL

\* HALT comes when nobody is left and PANIC in a deadlock only, if the write
\* past sem[] does not hit ProcCount.
THEOREM VerdictsCorrect ==
  ASSUME AfterSem # "ProcCount"
  PROVE  Spec => []StopsRightly
<1>1. Structure /\ Counts /\ Verdicts => StopsRightly
  BY DEF Verdicts
<1> QED BY <1>1, CountsInvariant, PTL

\* The CPU never waits in a deadlock, if the write past sem[] hits SoftBlocked.
THEOREM DeadlocksDetected ==
  ASSUME AfterSem = "SoftBlocked"
  PROVE  Spec => []DeadlockDetected
<1>1. Structure /\ Counts /\ Verdicts => DeadlockDetected
  BY DEF Verdicts
<1> QED BY <1>1, CountsInvariant, PTL
----------------------------------------------------------------------------
(***************************************************************************)
(* The devices and the processes that wait for them, for processes that    *)
(* mask interrupts from a command to its SYS5 and terminals that do one    *)
(* thing at a time, as the clients in the code do.                         *)
(***************************************************************************)

\* No process has a command to wait for.
Quiet == \A p \in Pcb : cmd[p] = NULL

\* Only the running process has one.
OneCommand == \A p \in Pcb : cmd[p] # NULL => mode = "run" /\ p = CurrProc

\* It has not been acknowledged, and nobody else waits for that sub-device.
CommandPending ==
  \A p \in Pcb : \A d \in SubDev : cmd[p] = d => devReg[d] # "ready" /\ procQ[d] = <<>>

\* A terminal receives or transmits: this is what lets TerminalInterrupt find
\* the sub-device by the status of the receiver alone.
HalfDuplex ==
  \A t \in Term : devReg[<<t, "recv">>] = "ready" \/ devReg[<<t, "transm">>] = "ready"

\* The inductive invariant of the devices, together with Structure.
Devices == OneCommand /\ CommandPending /\ HalfDuplex /\ NobodyForgotten /\ DeviceLaw

\* The sub-devices, and the two of a terminal among them.
LEMMA SubDevFacts ==
  /\ NULL \notin SubDev /\ SubDev \subseteq Sem /\ SubDev \cap UserSem = {}
  /\ Clock \notin SubDev
  /\ \A t \in Term : <<t, "recv">> \in SubDev /\ <<t, "transm">> \in SubDev
BY PcbAssumption, SemAssumption DEF SubDev, Sem, DevSem

\* Outside a process's own critical section no command is waiting.
LEMMA QuietLemma ==
  ASSUME Structure, Devices, Calls \/ mode # "run"
  PROVE  Quiet
BY DEF Structure, OnePlace, Devices, OneCommand, Quiet, Calls

\* A process that masks interrupts is never interrupted there.
LEMMA InterruptibleLemma ==
  ASSUME MaskedIO = TRUE, Structure, Devices, Interruptible
  PROVE  Quiet /\ mode \in {"run", "idle"}
BY DEF Structure, OnePlace, Devices, OneCommand, Quiet, Interruptible

\* A step that gives no command and acknowledges nothing keeps the invariant
\* when it only takes the one that waits for a sub-device out of its queue.
LEMMA DevicesFrame ==
  ASSUME Devices, Quiet, Quiet', devReg' = devReg,
         \A d \in SubDev : procQ'[d] \in {procQ[d], <<>>} /\ semVal'[d] = semVal[d]
  PROVE  Devices'
<1>1. \A p \in Pcb : \A d \in SubDev : cmd[p] # d /\ cmd'[p] # d
  BY SubDevFacts DEF Quiet
<1>2. OneCommand' /\ CommandPending'
  BY <1>1 DEF Quiet, OneCommand, CommandPending
<1>3. HalfDuplex'
  BY DEF Devices, HalfDuplex
<1>4. NobodyForgotten'
  BY DEF Devices, NobodyForgotten
<1>5. DeviceLaw'
  BY <1>1 DEF Devices, DeviceLaw
<1> QED BY <1>2, <1>3, <1>4, <1>5 DEF Devices

\* At the start all devices are ready and nobody waits.
LEMMA DevicesInit == Init => Devices
<1> SUFFICES ASSUME Init PROVE Devices
  OBVIOUS
<1>1. /\ \A d \in SubDev : procQ[d] = <<>> /\ devReg[d] = "ready" /\ semVal[d] = 0
      /\ \A p \in Pcb : cmd[p] = NULL
  BY SubDevFacts DEF Init, DevSem
<1>2. OneCommand /\ CommandPending
  BY <1>1, SubDevFacts DEF OneCommand, CommandPending
<1>3. HalfDuplex
  BY <1>1, SubDevFacts DEF HalfDuplex
<1>4. NobodyForgotten /\ DeviceLaw
  BY <1>1 DEF NobodyForgotten, DeviceLaw
<1> QED BY <1>2, <1>3, <1>4 DEF Devices

\* The calls about the families leave the devices alone.
LEMMA DevicesFamily ==
  ASSUME Structure, Devices, SYS1_CP \/ SYS2_TP \/ KillChild
  PROVE  Devices'
<1>1. Quiet
  <2>1. Calls \/ mode # "run"
    BY DEF SYS1_CP, SYS2_TP, KillChild
  <2> QED BY <2>1, QuietLemma
<1>2. cmd' = cmd /\ devReg' = devReg /\ semVal' = semVal /\ procQ' = procQ
  BY DEF SYS1_CP, SYS2_TP, KillChild, sems, io
<1> QED BY <1>1, <1>2, DevicesFrame DEF Quiet

\* So do the calls on the semaphores of the processes and on the clock.
LEMMA DevicesCalls ==
  ASSUME Structure, Devices,
         (\E s \in UserSem : SYS3_P(s) \/ SYS4_V(s)) \/ SYS7_W_CLK
  PROVE  Devices'
<1>1. Quiet
  <2>1. Calls
    BY DEF SYS3_P, SYS4_V, SYS7_W_CLK
  <2> QED BY <2>1, QuietLemma
<1>2. cmd' = cmd /\ devReg' = devReg
  BY DEF SYS3_P, SYS4_V, SYS7_W_CLK, io
<1>3. procQ \in [Sem -> Seq(Pcb)] /\ semVal \in [Sem -> Int]
  BY DEF Structure, TypeOK
<1>4. \A d \in SubDev : procQ'[d] = procQ[d] /\ semVal'[d] = semVal[d]
  <2>1. CASE \E s \in UserSem : SYS3_P(s)
    BY <2>1, <1>3, SubDevFacts DEF SYS3_P, insertBlocked
  <2>2. CASE \E s \in UserSem : SYS4_V(s)
    BY <2>2, <1>3, SubDevFacts DEF SYS4_V, V, removeBlocked
  <2>3. CASE SYS7_W_CLK
    BY <2>3, <1>3, SubDevFacts DEF SYS7_W_CLK, insertBlocked
  <2> QED BY <2>1, <2>2, <2>3
<1> QED BY <1>1, <1>2, <1>4, DevicesFrame DEF Quiet

\* And the timers.
LEMMA DevicesTimers ==
  ASSUME MaskedIO = TRUE, Structure, Devices, PLT \/ IntervalTimer
  PROVE  Devices'
<1>1. Quiet
  BY InterruptibleLemma DEF PLT, IntervalTimer
<1>2. cmd' = cmd /\ devReg' = devReg
  BY DEF PLT, IntervalTimer, io
<1>3. procQ \in [Sem -> Seq(Pcb)] /\ semVal \in [Sem -> Int]
  BY DEF Structure, TypeOK
<1>4. \A d \in SubDev : procQ'[d] = procQ[d] /\ semVal'[d] = semVal[d]
  BY <1>3, SubDevFacts DEF PLT, IntervalTimer, sems
<1> QED BY <1>1, <1>2, <1>4, DevicesFrame DEF Quiet

\* A kill takes its victim out of the queue of a sub-device and leaves the
\* semaphore as it is: the operation is still to be acknowledged.
LEMMA KillFreeQueue ==
  ASSUME Structure, Devices, KillFree, NEW d \in SubDev
  PROVE  /\ procQ'[d] \in {procQ[d], <<>>} /\ semVal'[d] = semVal[d]
         /\ procQ'[d] # procQ[d] => Range(procQ[d]) \subseteq pcbFree'
<1> DEFINE p == Victim
<1>1. /\ procQ' = [s \in Sem |-> IF s = p_semAdd[p] THEN OutProcQ(procQ[s], p)
                                 ELSE procQ[s]]
      /\ semVal' = [x \in Sem |-> IF x = p_semAdd[p] /\ ~IsDevSem(p_semAdd[p])
                                  THEN semVal[x] + 1 ELSE semVal[x]]
      /\ pcbFree' = pcbFree \cup {p}
      /\ p \in Pcb
  BY VictimLemma DEF KillFree, outBlocked
<1>2. d \in Sem /\ d \in DevSem
  BY DEF Sem, DevSem
<1>3. semVal'[d] = semVal[d]
  BY <1>1, <1>2 DEF IsDevSem
<1>4. CASE d # p_semAdd[p]
  BY <1>1, <1>2, <1>3, <1>4
<1>5. CASE d = p_semAdd[p]
  <2>1. p \in Range(procQ[d]) /\ IsListOf(procQ[d], Live)
    BY <1>1, <1>2, <1>5 DEF Structure, OnePlace
  <2>2. procQ'[d] = OutProcQ(procQ[d], p)
    BY <1>1, <1>2, <1>5
  <2>3. procQ[d] # <<>>
    BY <2>1, ListOfRange
  <2>4. Len(procQ[d]) = 1
    BY <2>3 DEF Devices, NobodyForgotten
  <2>5. IsListOf(OutProcQ(procQ[d], p), Live) /\ Len(OutProcQ(procQ[d], p)) = 1 - 1
    BY <2>1, <2>4, OutProcQLemma
  <2>6. procQ'[d] = <<>>
    <3>1. Len(OutProcQ(procQ[d], p)) = 0
      BY <2>5
    <3> QED BY <2>2, <2>5, <3>1, ListOfRange
  <2>7. Range(procQ[d]) \ {p} = {}
    BY <2>1, <2>2, <2>6, OutProcQLemma, EmptyList
  <2> QED BY <1>1, <1>3, <2>6, <2>7
<1> QED BY <1>4, <1>5

\* A kill keeps the invariant.
LEMMA DevicesKillFree ==
  ASSUME Structure, Devices, KillFree
  PROVE  Devices'
<1>1. Quiet /\ devReg' = devReg
  BY QuietLemma DEF KillFree
<1>2. Quiet'
  <2>1. cmd \in [Pcb -> SubDev \cup {NULL}] /\ cmd' = [cmd EXCEPT ![Victim] = NULL]
    BY DEF KillFree, Structure, TypeOK
  <2> QED BY <1>1, <2>1 DEF Quiet
<1> QED BY <1>1, <1>2, KillFreeQueue, DevicesFrame

\* A command makes its sub-device busy, and the other one of its terminal is
\* ready.
LEMMA DevicesCommand ==
  ASSUME SharedTerminals = FALSE, Structure, Devices, NEW d \in SubDev, Command(d)
  PROVE  Devices'
<1>1. /\ Calls /\ devReg[d] = "ready" /\ devReg[Other(d)] = "ready"
      /\ cmd' = [cmd EXCEPT ![CurrProc] = d]
      /\ devReg' = [devReg EXCEPT ![d] = "busy"]
      /\ mode' = mode /\ CurrProc' = CurrProc /\ semVal' = semVal /\ procQ' = procQ
  BY DEF Command, Free, queues, sems
<1>2. Quiet
  BY <1>1, QuietLemma
<1>3. /\ mode = "run" /\ CurrProc \in Pcb
      /\ cmd \in [Pcb -> SubDev \cup {NULL}]
      /\ devReg \in [SubDev -> {"ready", "busy", "done"}]
  BY <1>1 DEF Structure, TypeOK, OnePlace, Calls
<1>4. /\ \A p \in Pcb : cmd'[p] = IF p = CurrProc THEN d ELSE NULL
      /\ \A e \in SubDev : devReg'[e] = IF e = d THEN "busy" ELSE devReg[e]
  BY <1>1, <1>2, <1>3 DEF Quiet
<1>5. procQ[d] = <<>>
  BY <1>1 DEF Devices, NobodyForgotten
<1>6. OneCommand'
  BY <1>1, <1>3, <1>4 DEF OneCommand
<1>7. CommandPending'
  BY <1>1, <1>4, <1>5, SubDevFacts DEF CommandPending
<1>8. HalfDuplex'
  <2>1. SUFFICES ASSUME NEW t \in Term
                 PROVE (devReg[<<t, "recv">>] = "ready" /\ <<t, "recv">> # d)
                       \/ (devReg[<<t, "transm">>] = "ready" /\ <<t, "transm">> # d)
    BY <1>4, SubDevFacts DEF HalfDuplex
  <2>2. CASE d = <<t, "recv">>
    <3>1. d \notin Dev
      BY <2>2, DevAssumption
    <3>2. Other(d) = <<t, "transm">>
      BY <2>2, <3>1 DEF Other
    <3> QED BY <1>1, <2>2, <3>2
  <2>3. CASE d = <<t, "transm">>
    <3>1. d \notin Dev
      BY <2>3, DevAssumption
    <3>2. Other(d) = <<t, "recv">>
      BY <2>3, <3>1 DEF Other
    <3> QED BY <1>1, <2>3, <3>2
  <2>4. CASE d # <<t, "recv">> /\ d # <<t, "transm">>
    BY <2>4 DEF Devices, HalfDuplex
  <2> QED BY <2>2, <2>3, <2>4
<1>9. NobodyForgotten'
  BY <1>1, <1>4 DEF Devices, NobodyForgotten
<1>10. DeviceLaw'
  <2>1. \A p \in Pcb : \A e \in SubDev : cmd[p] # e
    BY <1>2, SubDevFacts DEF Quiet
  <2>2. \A e \in SubDev : semVal[e] = IF devReg[e] = "ready" THEN 0 ELSE -1
    BY <2>1 DEF Devices, DeviceLaw
  <2>3. \A e \in SubDev : (\E p \in Pcb : cmd'[p] = e) <=> e = d
    BY <1>3, <1>4, SubDevFacts
  <2>4. \A e \in SubDev : semVal'[e] = IF devReg'[e] = "ready" \/ e = d THEN 0 ELSE -1
    BY <1>1, <1>4, <2>2
  <2> QED BY <2>3, <2>4 DEF DeviceLaw
<1> QED BY <1>6, <1>7, <1>8, <1>9, <1>10 DEF Devices

\* The end of an operation changes nothing for those who wait.
LEMMA DevicesDone ==
  ASSUME Structure, Devices, NEW d \in SubDev, DeviceDone(d)
  PROVE  Devices'
<1>1. /\ mode' = mode /\ CurrProc' = CurrProc /\ semVal' = semVal
      /\ procQ' = procQ /\ cmd' = cmd
      /\ \A e \in SubDev : devReg'[e] = "ready" <=> devReg[e] = "ready"
  <2>1. devReg \in [SubDev -> {"ready", "busy", "done"}]
    BY DEF Structure, TypeOK
  <2> QED BY <2>1 DEF DeviceDone, queues, sems
<1>2. OneCommand' /\ CommandPending'
  BY <1>1 DEF Devices, OneCommand, CommandPending
<1>3. HalfDuplex'
  BY <1>1, SubDevFacts DEF Devices, HalfDuplex
<1>4. NobodyForgotten' /\ DeviceLaw'
  BY <1>1 DEF Devices, NobodyForgotten, DeviceLaw
<1> QED BY <1>2, <1>3, <1>4 DEF Devices

\* SYS5 makes its caller the one that waits for the sub-device it commanded.
LEMMA DevicesWait ==
  ASSUME Structure, Devices, NEW d \in SubDev, SYS5_W_IO(d)
  PROVE  Devices'
<1>1. /\ mode = "run" /\ CurrProc \in Pcb /\ cmd[CurrProc] = d /\ devReg' = devReg
      /\ cmd' = [cmd EXCEPT ![CurrProc] = NULL]
      /\ semVal' = [semVal EXCEPT ![d] = @ - 1]
      /\ insertBlocked(d, CurrProc)
  BY DEF SYS5_W_IO, Structure, TypeOK, OnePlace
<1>2. /\ cmd \in [Pcb -> SubDev \cup {NULL}] /\ procQ \in [Sem -> Seq(Pcb)]
      /\ semVal \in [Sem -> Int] /\ d \in Sem
  BY SubDevFacts DEF Structure, TypeOK
<1>3. procQ' = [procQ EXCEPT ![d] = InsertProcQ(@, CurrProc)]
  BY <1>1, <1>2, DescriptorLemma DEF Structure, insertBlocked
<1>4. Quiet'
  BY <1>1, <1>2 DEF Quiet, Devices, OneCommand
<1>5. devReg[d] # "ready" /\ procQ[d] = <<>>
  BY <1>1 DEF Devices, CommandPending
<1>6. Len(procQ'[d]) = 1
  <2>1. procQ'[d] = Append(<<>>, CurrProc)
    BY <1>2, <1>3, <1>5 DEF InsertProcQ
  <2> QED BY <2>1
<1>7. \A e \in SubDev : e # d => procQ'[e] = procQ[e] /\ semVal'[e] = semVal[e]
  BY <1>1, <1>2, <1>3, SubDevFacts
<1>8. \A e \in SubDev : ~\E p \in Pcb : cmd'[p] = e
  BY <1>4, SubDevFacts DEF Quiet
<1>9. OneCommand' /\ CommandPending'
  BY <1>4, <1>8 DEF Quiet, OneCommand, CommandPending
<1>10. HalfDuplex'
  BY <1>1 DEF Devices, HalfDuplex
<1>11. NobodyForgotten'
  BY <1>1, <1>5, <1>6, <1>7 DEF Devices, NobodyForgotten
<1>12. DeviceLaw'
  <2>1. semVal[d] = 0 /\ semVal'[d] = -1
    BY <1>1, <1>2 DEF Devices, DeviceLaw
  <2>2. \A e \in SubDev : e # d => ~\E p \in Pcb : cmd[p] = e
    BY <1>1, SubDevFacts DEF Devices, OneCommand
  <2>3. \A e \in SubDev : semVal'[e] = IF devReg'[e] = "ready" THEN 0 ELSE -1
    BY <1>1, <1>5, <1>7, <2>1, <2>2 DEF Devices, DeviceLaw
  <2> QED BY <1>8, <2>3 DEF DeviceLaw
<1> QED BY <1>9, <1>10, <1>11, <1>12 DEF Devices

\* An interrupt of a sub-device that is done acknowledges it and wakes the one
\* that waits, if it still does; the others keep waiting.
LEMMA DevicesInterrupt ==
  ASSUME Structure, Devices, Quiet, NEW d \in SubDev, Pending(d), Non_T_Int(d)
  PROVE  /\ Devices'
         /\ devReg[d] = "done" /\ devReg'[d] = "ready"
         /\ \A e \in SubDev \ {d} : procQ'[e] = procQ[e]
<1>1. /\ devReg[d] = "done" /\ cmd' = cmd
      /\ devReg' = [devReg EXCEPT ![d] = IF @ = "busy" THEN @ ELSE "ready"]
      /\ semVal' = [semVal EXCEPT ![d] = @ + 1]
      /\ procQ' = [procQ EXCEPT ![d] = RemoveProcQ(@)]
  BY DEF Pending, Non_T_Int, V, removeBlocked
<1>2. /\ devReg \in [SubDev -> {"ready", "busy", "done"}] /\ d \in Sem
      /\ procQ \in [Sem -> Seq(Pcb)] /\ semVal \in [Sem -> Int]
  BY SubDevFacts DEF Structure, TypeOK
<1>3. devReg'[d] = "ready"
  BY <1>1, <1>2
<1>4. \A e \in SubDev \ {d} : /\ procQ'[e] = procQ[e] /\ semVal'[e] = semVal[e]
                              /\ devReg'[e] = devReg[e]
  BY <1>1, <1>2, SubDevFacts
<1>5. \A p \in Pcb : \A e \in SubDev : cmd[p] # e /\ cmd'[p] # e
  BY <1>1, SubDevFacts DEF Quiet
<1>6. procQ'[d] = <<>>
  <2>1. CASE procQ[d] = <<>>
    BY <1>1, <1>2, <2>1 DEF RemoveProcQ
  <2>2. CASE procQ[d] # <<>>
    <3>1. Len(procQ[d]) = 1
      BY <2>2 DEF Devices, NobodyForgotten
    <3>2. IsListOf(procQ[d], Live) /\ procQ'[d] = RemoveProcQ(procQ[d])
      BY <1>1, <1>2 DEF Structure, OnePlace
    <3>3. IsListOf(RemoveProcQ(procQ[d]), Live) /\ Len(RemoveProcQ(procQ[d])) = 1 - 1
      BY <2>2, <3>1, <3>2, RemoveProcQLemma
    <3>4. Len(RemoveProcQ(procQ[d])) = 0
      BY <3>3
    <3> QED BY <3>2, <3>3, <3>4, ListOfRange
  <2> QED BY <2>1, <2>2
<1>7. OneCommand' /\ CommandPending'
  BY <1>1, <1>5 DEF Quiet, OneCommand, CommandPending
<1>8. HalfDuplex'
  BY <1>3, <1>4, SubDevFacts DEF Devices, HalfDuplex
<1>9. NobodyForgotten'
  BY <1>4, <1>6 DEF Devices, NobodyForgotten
<1>10. DeviceLaw'
  <2>1. \A e \in SubDev : (~\E p \in Pcb : cmd[p] = e) /\ ~\E p \in Pcb : cmd'[p] = e
    BY <1>5
  <2>2. \A e \in SubDev : semVal[e] = IF devReg[e] = "ready" THEN 0 ELSE -1
    BY <2>1 DEF Devices, DeviceLaw
  <2>3. semVal[d] = -1
    BY <1>1, <2>2
  <2>4. semVal'[d] = 0
    BY <1>1, <1>2, <2>3
  <2>5. \A e \in SubDev : semVal'[e] = IF devReg'[e] = "ready" THEN 0 ELSE -1
    BY <1>3, <1>4, <2>2, <2>4
  <2> QED BY <2>1, <2>5 DEF DeviceLaw
<1> QED BY <1>1, <1>3, <1>4, <1>7, <1>8, <1>9, <1>10 DEF Devices

\* The interrupts of the lines 3 to 7 are for sub-devices that are done; on
\* line 7 since a terminal that receives does not transmit.
LEMMA InterruptedLemma ==
  ASSUME MaskedIO = TRUE, Structure, Devices,
         (\E d \in Dev : DeviceInterrupt(d)) \/ (\E t \in Term : TerminalInterrupt(t))
  PROVE  Quiet /\ \E d \in SubDev : Pending(d) /\ Non_T_Int(d)
<1>1. Quiet
  BY InterruptibleLemma DEF DeviceInterrupt, TerminalInterrupt
<1>2. CASE \E d \in Dev : DeviceInterrupt(d)
  BY <1>1, <1>2 DEF DeviceInterrupt, SubDev
<1>3. CASE \E t \in Term : TerminalInterrupt(t)
  <2>1. PICK t \in Term : TerminalInterrupt(t)
    BY <1>3
  <2>2. devReg[<<t, "recv">>] = "ready" \/ devReg[<<t, "transm">>] = "ready"
    BY DEF Devices, HalfDuplex
  <2>3. Pending(Interrupting(t)) /\ Interrupting(t) \in SubDev
    BY <2>1, <2>2, SubDevFacts DEF TerminalInterrupt, Interrupting, Pending
  <2> QED BY <1>1, <2>1, <2>3 DEF TerminalInterrupt
<1> QED BY <1>2, <1>3

\* Every step of the nucleus keeps the invariant of the devices.
LEMMA DevicesNext ==
  ASSUME MaskedIO = TRUE, SharedTerminals = FALSE, Structure, Devices, [Next]_vars
  PROVE  Devices'
<1>1. CASE SYS1_CP \/ SYS2_TP \/ KillChild
  BY <1>1, DevicesFamily
<1>2. CASE KillFree
  BY <1>2, DevicesKillFree
<1>3. CASE (\E s \in UserSem : SYS3_P(s) \/ SYS4_V(s)) \/ SYS7_W_CLK
  BY <1>3, DevicesCalls
<1>4. CASE \E d \in SubDev : SYS5_W_IO(d)
  BY <1>4, DevicesWait
<1>5. CASE \E d \in SubDev : Command(d)
  BY <1>5, DevicesCommand
<1>6. CASE \E d \in SubDev : DeviceDone(d)
  BY <1>6, DevicesDone
<1>7. CASE PLT \/ IntervalTimer
  BY <1>7, DevicesTimers
<1>8. CASE (\E d \in Dev : DeviceInterrupt(d)) \/ (\E t \in Term : TerminalInterrupt(t))
  BY <1>8, InterruptedLemma, DevicesInterrupt
<1>9. CASE UNCHANGED vars
  <2>1. UNCHANGED <<mode, CurrProc, semVal, procQ, devReg, cmd>>
    BY <1>9 DEF vars, queues, sems, io
  <2> QED BY <2>1 DEF Devices, OneCommand, CommandPending, HalfDuplex, NobodyForgotten,
              DeviceLaw
<1> QED BY <1>1, <1>2, <1>3, <1>4, <1>5, <1>6, <1>7, <1>8, <1>9 DEF Next, Stop

\* The step that takes a process out of the queue of a sub-device is a kill of it
\* or an interrupt of that sub-device, which was done.
LEMMA WokenNext ==
  ASSUME MaskedIO = TRUE, Structure, Devices, [Next]_vars,
         NEW d \in SubDev, NEW p \in Range(procQ[d]) \ (Range(procQ'[d]) \cup pcbFree')
  PROVE  devReg[d] = "done" /\ devReg'[d] = "ready"
<1>1. d \in Sem /\ procQ'[d] # procQ[d]
  BY SubDevFacts
<1>2. procQ \in [Sem -> Seq(Pcb)] /\ IsListOf(procQ[d], Live)
  BY <1>1 DEF Structure, TypeOK, OnePlace
<1>3. CASE SYS1_CP \/ SYS2_TP \/ KillChild \/ PLT \/ UNCHANGED vars
            \/ (\E e \in SubDev : Command(e) \/ DeviceDone(e))
  <2>1. procQ' = procQ
    BY <1>3 DEF SYS1_CP, SYS2_TP, KillChild, PLT, Command, DeviceDone, vars, sems
  <2> QED BY <1>1, <2>1
<1>4. CASE KillFree
  BY <1>1, <1>4, KillFreeQueue
<1>5. CASE (\E s \in UserSem : SYS3_P(s) \/ SYS4_V(s)) \/ SYS7_W_CLK \/ IntervalTimer
  <2>1. procQ'[d] = procQ[d]
    BY <1>1, <1>2, <1>5, SubDevFacts
       DEF SYS3_P, SYS4_V, SYS7_W_CLK, IntervalTimer, V, insertBlocked, removeBlocked
  <2> QED BY <1>1, <2>1
<1>6. CASE \E e \in SubDev : SYS5_W_IO(e)
  <2>1. PICK e \in SubDev : SYS5_W_IO(e)
    BY <1>6
  <2>2. CASE e # d
    <3>1. procQ'[d] = procQ[d]
      BY <1>1, <1>2, <2>1, <2>2 DEF SYS5_W_IO, insertBlocked
    <3> QED BY <1>1, <3>1
  <2>3. CASE e = d
    <3>1. mode = "run" /\ CurrProc \in Pcb /\ cmd[CurrProc] = d
      BY <2>1, <2>3 DEF SYS5_W_IO, Structure, TypeOK, OnePlace
    <3>2. Range(procQ[d]) = {}
      BY <3>1, EmptyList DEF Devices, CommandPending
    <3> QED BY <3>2
  <2> QED BY <2>2, <2>3
<1>7. CASE (\E e \in Dev : DeviceInterrupt(e)) \/ (\E t \in Term : TerminalInterrupt(t))
  <2>1. PICK e \in SubDev : Quiet /\ Pending(e) /\ Non_T_Int(e)
    BY <1>7, InterruptedLemma
  <2>2. devReg[e] = "done" /\ devReg'[e] = "ready" /\ (d # e => procQ'[d] = procQ[d])
    BY <2>1, DevicesInterrupt
  <2> QED BY <1>1, <2>2
<1> QED BY <1>3, <1>4, <1>5, <1>6, <1>7 DEF Next, Stop

\* In every run of such processes the invariant of the devices holds.
THEOREM DevicesInvariant ==
  ASSUME MaskedIO = TRUE, SharedTerminals = FALSE
  PROVE  Spec => [](Structure /\ Devices)
<1>1. Init => Structure /\ Devices
  BY StructureInit, DevicesInit
<1>2. Structure /\ Devices /\ [Next]_vars => Structure' /\ Devices'
  BY StructureNext, DevicesNext
<1> QED BY <1>1, <1>2, PTL DEF Spec

\* Who waits for a sub-device waits alone, for an interrupt that is to come.
THEOREM NobodyIsForgotten ==
  ASSUME MaskedIO = TRUE, SharedTerminals = FALSE
  PROVE  Spec => []NobodyForgotten
<1>1. Structure /\ Devices => NobodyForgotten
  BY DEF Devices
<1> QED BY <1>1, DevicesInvariant, PTL

\* The semaphore of a sub-device is -1 from a SYS5 to its interrupt, over kills.
THEOREM DeviceSemaphores ==
  ASSUME MaskedIO = TRUE, SharedTerminals = FALSE
  PROVE  Spec => []DeviceLaw
<1>1. Structure /\ Devices => DeviceLaw
  BY DEF Devices
<1> QED BY <1>1, DevicesInvariant, PTL

\* The end of its operation wakes a process that waits for a sub-device, and
\* nothing else does.
THEOREM WokenRightly ==
  ASSUME MaskedIO = TRUE, SharedTerminals = FALSE
  PROVE  Spec => WokenByCompletion
<1>1. Structure /\ Devices /\ [Next]_vars =>
        \A d \in SubDev : \A p \in Range(procQ[d]) \ (Range(procQ'[d]) \cup pcbFree') :
          devReg[d] = "done" /\ devReg'[d] = "ready"
  BY WokenNext
<1> QED BY <1>1, DevicesInvariant, PTL DEF Spec, WokenByCompletion
====
