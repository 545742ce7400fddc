---- MODULE CpuTime ----
(***************************************************************************)
(* The CPU time of processes: p_time, which scheduler.c, exceptions.c and  *)
(* interrupts.c of Fase_2 keep from readings of the time of day clock, and *)
(* which SYS6 returns.                                                     *)
(*                                                                         *)
(* A handler reads the clock once here; that time passes before it does is *)
(* the action Tick.  How processes come to wait and what wakes them is in  *)
(* Nucleus.                                                                *)
(***************************************************************************)
EXTENDS Integers, Sequences, SequencesExt, PcbQueue

CONSTANTS
  Pcb,
  NULL,
  MaxTime \* bound: the ticks of the clock

VARIABLES
  NOW,          \* the time of day
  CurrProc,     \* the running process or NULL
  R_Queue,      \* the ready queue
  waiting,      \* the processes that are blocked
  p_time,       \* the time of every process
  initTime,     \* when the running process was dispatched or last did a SYS6
  Int_initTime, \* when the last interrupt came
  interrupted,  \* is its handler running?
  born          \* history: when every process was created

clock == <<NOW, born>>
vars  == <<NOW, CurrProc, R_Queue, waiting, p_time, initTime, Int_initTime,
           interrupted, born>>

Live == waiting \cup Range(R_Queue) \cup ({CurrProc} \ {NULL})

\* main() has dispatched the first process.
Init ==
  /\ NOW = 0
  /\ CurrProc \in Pcb
  /\ R_Queue = <<>>
  /\ waiting = {}
  /\ p_time = [p \in Pcb |-> 0]
  /\ initTime = 0
  /\ Int_initTime = 0
  /\ interrupted = FALSE
  /\ born = [p \in Pcb |-> 0]

Tick ==
  /\ NOW < MaxTime
  /\ NOW' = NOW + 1
  /\ UNCHANGED <<CurrProc, R_Queue, waiting, p_time, initTime, Int_initTime,
                 interrupted, born>>

\* The times when those in P are charged for what has passed since then.
Charged(times, P, since) ==
  [p \in Pcb |-> IF p \in P THEN times[p] + (NOW - since) ELSE times[p]]

\* scheduler(), called with this current process, ready queue and these times.
scheduler(current, ready, times) ==
  /\ p_time' = Charged(times, {current} \ {NULL}, initTime)
  /\ CurrProc' = HeadProcQ(ready, NULL)
  /\ R_Queue' = RemoveProcQ(ready)
  /\ initTime' = IF ready # <<>> THEN NOW ELSE initTime

Calls == CurrProc # NULL /\ ~interrupted

SYS1_CP ==
  /\ Calls
  /\ \E p \in Pcb \ Live :
       /\ R_Queue' = InsertProcQ(R_Queue, p)
       /\ p_time' = [p_time EXCEPT ![p] = 0]
       /\ born' = [born EXCEPT ![p] = NOW]
  /\ UNCHANGED <<NOW, CurrProc, waiting, initTime, Int_initTime, interrupted>>

\* SYS2 of a process without children: it is gone when scheduler() is called.
SYS2_TP ==
  /\ Calls
  /\ scheduler(NULL, R_Queue, p_time)
  /\ UNCHANGED <<clock, waiting, Int_initTime, interrupted>>

\* A SYS3 that blocks, SYS5 and SYS7.
Block ==
  /\ Calls
  /\ waiting' = waiting \cup {CurrProc}
  /\ scheduler(CurrProc, R_Queue, p_time)
  /\ UNCHANGED <<clock, Int_initTime, interrupted>>

\* SYS4 wakes one that waits.
SYS4_V ==
  /\ Calls
  /\ \E p \in waiting : R_Queue' = InsertProcQ(R_Queue, p) /\ waiting' = waiting \ {p}
  /\ UNCHANGED <<clock, CurrProc, p_time, initTime, Int_initTime, interrupted>>

SYS6_GCT ==
  /\ Calls
  /\ p_time' = Charged(p_time, {CurrProc}, initTime)
  /\ initTime' = NOW
  /\ UNCHANGED <<clock, CurrProc, R_Queue, waiting, Int_initTime, interrupted>>

\* The processor local timer.
PLT ==
  /\ Calls
  /\ Int_initTime' = NOW
  /\ scheduler(CurrProc, InsertProcQ(R_Queue, CurrProc),
               Charged(p_time, {CurrProc}, initTime))
  /\ UNCHANGED <<clock, waiting, interrupted>>

\* getInterruptLine, for every other line.
getInterruptLine ==
  /\ ~interrupted
  /\ interrupted' = TRUE
  /\ Int_initTime' = NOW
  /\ UNCHANGED <<clock, CurrProc, R_Queue, waiting, p_time, initTime>>

\* What a handler wakes is charged for the handler.
Wake(P, ready) ==
  LET times == Charged(p_time, P, Int_initTime) IN
  /\ waiting' = waiting \ P
  /\ IF CurrProc = NULL THEN scheduler(NULL, ready, times)
     ELSE R_Queue' = ready /\ p_time' = times /\ UNCHANGED <<CurrProc, initTime>>

\* An interrupt of a device wakes one process or none, the interval timer all
\* that wait for it.
EndOfInterrupt ==
  /\ interrupted
  /\ interrupted' = FALSE
  /\ \E P \in SUBSET waiting : \E woken \in SetToSeqs(P) : Wake(P, R_Queue \o woken)
  /\ UNCHANGED <<clock, Int_initTime>>

Next ==
  \/ Tick \/ SYS1_CP \/ SYS2_TP \/ Block \/ SYS4_V \/ SYS6_GCT \/ PLT
  \/ getInterruptLine \/ EndOfInterrupt

Spec == Init /\ [][Next]_vars
----------------------------------------------------------------------------
\* A process gets no more CPU time than has passed since it was created: p2test
\* calls it an error when it sees "more cpu time than real time".
NotMoreThanRealTime == \A p \in Live : p_time[p] <= NOW - born[p]
====
