---- MODULE Processes ----
(***************************************************************************)
(* What the nucleus promises: the life of a process, whatever the queues,  *)
(* the counters and the semaphore values that implement it.                *)
(*                                                                         *)
(* One process runs at a time, and always one if any is ready; a process   *)
(* blocks only by itself; what is blocked leaves its semaphore one process *)
(* at a time, the clock all together, or is killed by the running process. *)
(***************************************************************************)
EXTENDS Integers

CONSTANTS Pcb, Sem, Clock, NULL

VARIABLES
  state, \* of every PCB
  waits  \* the semaphore it is blocked on, or NULL

vars == <<state, waits>>

State == {"free", "ready", "running", "blocked"}

TypeOK == state \in [Pcb -> State] /\ waits \in [Pcb -> Sem \cup {NULL}]

Init ==
  /\ \E r \in Pcb : state = [p \in Pcb |-> IF p = r THEN "running" ELSE "free"]
  /\ waits = [p \in Pcb |-> NULL]

In(x) == {p \in Pcb : state[p] = x}

\* Nobody runs in f: the CPU goes to a process that is ready, if there is one.
PassCPU(f) ==
  \/ /\ \A p \in Pcb : f[p] # "ready"
     /\ state' = f
  \/ \E p \in Pcb :
       /\ f[p] = "ready"
       /\ state' = [q \in Pcb |-> IF q = p THEN "running" ELSE f[q]]

Create ==
  /\ UNCHANGED waits
  /\ In("running") # {}
  /\ \E p \in In("free") : state' = [state EXCEPT ![p] = "ready"]

Kill ==
  /\ In("running") # {}
  /\ \E p \in In("ready") \cup In("blocked") :
       /\ waits' = [waits EXCEPT ![p] = NULL]
       /\ state' = [state EXCEPT ![p] = "free"]

Exit ==
  /\ UNCHANGED waits
  /\ \E r \in In("running") : PassCPU([state EXCEPT ![r] = "free"])

Preempt ==
  /\ UNCHANGED waits
  /\ \E r \in In("running") : PassCPU([state EXCEPT ![r] = "ready"])

Block ==
  \E r \in In("running") :
    /\ \E s \in Sem : waits' = [waits EXCEPT ![r] = s]
    /\ PassCPU([state EXCEPT ![r] = "blocked"])

WakeAll(P) ==
  LET f == [p \in Pcb |-> IF p \in P THEN "ready" ELSE state[p]]
  IN  /\ waits' = [p \in Pcb |-> IF p \in P THEN NULL ELSE waits[p]]
      /\ IF In("running") = {} THEN PassCPU(f) ELSE state' = f

Wake ==
  \/ \E p \in In("blocked") : waits[p] # Clock /\ WakeAll({p})
  \/ WakeAll({p \in Pcb : waits[p] = Clock})

Next == Create \/ Kill \/ Exit \/ Preempt \/ Block \/ Wake

Spec == Init /\ [][Next]_vars
====
