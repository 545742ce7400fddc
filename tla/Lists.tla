---- MODULE Lists ----
(***************************************************************************)
(* What pcb.c and asl.c of Fase_1 promise to the nucleus, in the terms of  *)
(* PcbQueue: queues and child lists are sequences, the free PCBs a set,    *)
(* and every semaphore has a queue, which is empty for most.               *)
(***************************************************************************)
EXTENDS Integers, Sequences, PcbQueue

CONSTANTS
  Pcb, \* the process control blocks
  Key  \* the addresses of semaphores

VARIABLES
  pcbFree, \* the free PCBs
  held,    \* the PCBs in the hands of the caller, in no queue
  R_Queue, \* a queue of the caller
  procQ,   \* the queue of every semaphore
  p_child  \* the child list of every PCB

vars == <<pcbFree, held, R_Queue, procQ, p_child>>

Init ==
  /\ pcbFree = Pcb
  /\ held = {}
  /\ R_Queue = <<>>
  /\ procQ = [k \in Key |-> <<>>]
  /\ p_child = [p \in Pcb |-> <<>>]

Take(p) == held' = held \cup {p}
Give(p) == p \in held /\ held' = held \ {p}

HasParent(p) == \E q \in Pcb : p \in Range(p_child[q])

allocPcb(p) ==
  /\ Take(p)
  /\ p \in pcbFree
  /\ pcbFree' = pcbFree \ {p}
  /\ UNCHANGED <<R_Queue, procQ, p_child>>

freePcb(p) ==
  /\ Give(p)
  /\ p_child[p] = <<>> /\ ~HasParent(p)
  /\ pcbFree' = pcbFree \cup {p}
  /\ UNCHANGED <<R_Queue, procQ, p_child>>

insertProcQ(p) ==
  /\ Give(p)
  /\ R_Queue' = InsertProcQ(R_Queue, p)
  /\ UNCHANGED <<pcbFree, procQ, p_child>>

removeProcQ ==
  /\ R_Queue # <<>>
  /\ Take(Head(R_Queue))
  /\ R_Queue' = RemoveProcQ(R_Queue)
  /\ UNCHANGED <<pcbFree, procQ, p_child>>

outProcQ(p) ==
  /\ Take(p)
  /\ p \in Range(R_Queue)
  /\ R_Queue' = OutProcQ(R_Queue, p)
  /\ UNCHANGED <<pcbFree, procQ, p_child>>

\* Never refused.
insertBlocked(k, p) ==
  /\ Give(p)
  /\ procQ' = [procQ EXCEPT ![k] = InsertProcQ(@, p)]
  /\ UNCHANGED <<pcbFree, R_Queue, p_child>>

removeBlocked(k) ==
  /\ procQ[k] # <<>>
  /\ Take(Head(procQ[k]))
  /\ procQ' = [procQ EXCEPT ![k] = RemoveProcQ(@)]
  /\ UNCHANGED <<pcbFree, R_Queue, p_child>>

outBlocked(k, p) ==
  /\ Take(p)
  /\ p \in Range(procQ[k])
  /\ procQ' = [procQ EXCEPT ![k] = OutProcQ(@, p)]
  /\ UNCHANGED <<pcbFree, R_Queue, p_child>>

insertChild(prnt, p) ==
  /\ UNCHANGED <<pcbFree, held, R_Queue, procQ>>
  /\ {prnt, p} \cap pcbFree = {}
  /\ prnt # p /\ p_child[p] = <<>> /\ ~HasParent(p)
  /\ p_child' = [p_child EXCEPT ![prnt] = InsertChild(@, p)]

removeChild(prnt) ==
  /\ UNCHANGED <<pcbFree, held, R_Queue, procQ>>
  /\ p_child[prnt] # <<>>
  /\ p_child' = [p_child EXCEPT ![prnt] = RemoveProcQ(@)]

outChild(prnt, p) ==
  /\ UNCHANGED <<pcbFree, held, R_Queue, procQ>>
  /\ p \in Range(p_child[prnt])
  /\ p_child' = [p_child EXCEPT ![prnt] = Unlink(@, p)]

Next ==
  \/ removeProcQ
  \/ \E p \in Pcb :
       \/ allocPcb(p) \/ freePcb(p) \/ insertProcQ(p) \/ outProcQ(p)
       \/ removeChild(p)
       \/ \E k \in Key : insertBlocked(k, p) \/ outBlocked(k, p)
       \/ \E prnt \in Pcb : insertChild(prnt, p) \/ outChild(prnt, p)
  \/ \E k \in Key : removeBlocked(k)

Spec == Init /\ [][Next]_vars
====
