---- MODULE PcbLists ----
(***************************************************************************)
(* The lists of Fase_1 as the code links them: pcb.c with its circular     *)
(* doubly linked queues, the trees of processes and the free PCBs, and     *)
(* asl.c with the sorted list of semaphore descriptors between its two     *)
(* sentinels.                                                              *)
(*                                                                         *)
(* Every function is one action, as the nucleus calls it with interrupts   *)
(* masked.  Its caller keeps to what the nucleus does: it puts a PCB that  *)
(* is in no queue into one, makes a child only of a PCB that has not been  *)
(* one since it was allocated, and frees a PCB that is nowhere.            *)
(*                                                                         *)
(* An operator whose name ends in _slip is not part of the model: it is    *)
(* the operator after it with a plausible bug, against which a property is *)
(* tried.                                                                  *)
(***************************************************************************)
EXTENDS Integers, Sequences, FiniteSets, Functions

CONSTANTS
  MAXPROC,
  Key,    \* the addresses of semaphores
  MAXINT, \* the address in the last sentinel
  NULL,
  Caller  \* bound: what a caller uses, see Uses, and how many PCBs at a time

ASSUME SizeAssumption == MAXPROC \in Nat \ {0}
ASSUME KeyAssumption == MAXINT \in Nat \ {0} /\ Key \subseteq 1 .. MAXINT - 1
ASSUME NullAssumption == NULL \notin (0 .. MAXPROC + 1) \cup Key

ASSUME CallerAssumption ==
  Caller \subseteq [uses : SUBSET {"free", "ready", "blocked", "tree", "loose"}, pcbs : Nat]

\* pcbFree_table and semd_table, by index.  The sentinels of the active list
\* are the first and the last descriptor.
Pcb  == 0 .. MAXPROC - 1
Semd == 0 .. MAXPROC + 1
semd_h  == 0
semd_hi == MAXPROC + 1

VARIABLES
  p_next, p_prev,         \* the links of a queue; p_next also that of pcbFree_h
  p_prnt, p_child,        \* the parent and the first child
  p_next_sib, p_prev_sib, \* the links of a child list
  p_semAdd,               \* the semaphore that a process is blocked on, or NULL
  pcbFree_h,              \* the first free PCB
  R_Queue,                \* the tail of the ready queue
  s_next,                 \* the link of descriptors
  s_semAdd,               \* the address of the semaphore
  s_procQ,                \* the tail of its queue
  semdFree_h,             \* the first free descriptor
  held,                   \* the PCBs that the caller has and that are in no queue
  caller,                 \* the bounds of this behaviour
  view                    \* history: the lists that the links amount to, see View

links == <<p_next, p_prev>>
tree  == <<p_prnt, p_child, p_next_sib, p_prev_sib>>
asl   == <<s_next, s_semAdd, s_procQ, semdFree_h>>
vars  == <<links, tree, p_semAdd, pcbFree_h, R_Queue, asl, held, caller, view>>

Maybe(S) == S \cup {NULL}

TypeOK ==
  /\ {p_next, p_prev, p_prnt, p_child, p_next_sib, p_prev_sib}
       \subseteq [Pcb -> Maybe(Pcb)]
  /\ p_semAdd \in [Pcb -> Maybe(Key)]
  /\ {pcbFree_h, R_Queue} \subseteq Maybe(Pcb)
  /\ s_next \in [Semd -> Maybe(Semd)]
  /\ s_semAdd \in [Semd -> 0 .. MAXINT]
  /\ s_procQ \in [Semd -> Maybe(Pcb)]
  /\ semdFree_h \in Maybe(Semd)
  /\ held \subseteq Pcb

Nulls == [p \in Pcb |-> NULL]

\* Slip: the loop runs over the end of the table.
LastFree_slip == MAXPROC + 2

\* The last descriptor that initASL links into the free list.
LastFree == MAXPROC

\* initPcbs(), initASL() and mkEmptyProcQ(); the tables are zero before.
InitLinks ==
  /\ p_next = [p \in Pcb |-> IF p = MAXPROC - 1 THEN NULL ELSE p + 1]
  /\ p_prev = Nulls
  /\ p_prnt = Nulls /\ p_child = Nulls
  /\ p_next_sib = Nulls /\ p_prev_sib = Nulls
  /\ p_semAdd = Nulls
  /\ pcbFree_h = 0
  /\ R_Queue = NULL
  /\ s_next = [d \in Semd |-> IF d = semd_h THEN semd_hi
                              ELSE IF d \in 1 .. LastFree - 1 THEN d + 1 ELSE NULL]
  /\ s_semAdd = [d \in Semd |-> IF d = semd_hi THEN MAXINT ELSE 0]
  /\ s_procQ = [d \in Semd |-> NULL]
  /\ semdFree_h = 1
  /\ held = {}
  /\ caller \in Caller

----------------------------------------------------------------------------
\* What a loop along a link meets in n steps from a node on, up to the node `end`
\* or to NULL.
Walk(link, end) ==
  LET walk[n \in Nat] ==
        [at \in Maybe(DOMAIN link) |->
           IF at = NULL \/ n = 0 THEN <<>>
           ELSE IF at = end THEN <<at>> ELSE <<at>> \o walk[n - 1][link[at]]]
  IN  walk

\* The same, cut off when it does not end.
Along(link, x, end) == Walk(link, end)[MAXPROC + 3][x]

\* The queue with tail tp, from the oldest element.
QueueOf(tp) == IF tp = NULL THEN <<>> ELSE Along(p_next, p_next[tp], tp)

FreePcbs == Range(Along(p_next, pcbFree_h, NULL))

----------------------------------------------------------------------------
\* The functions on a queue, given its tail pointer: the links they leave and
\* the tail that they store.

InsertLinks(tp, p) ==
  IF tp = NULL
  THEN /\ p_next' = [p_next EXCEPT ![p] = p]
       /\ p_prev' = [p_prev EXCEPT ![p] = p]
  ELSE /\ p_next' = [p_next EXCEPT ![p] = p_next[tp], ![tp] = p]
       /\ p_prev' = [p_prev EXCEPT ![p] = tp, ![p_next[tp]] = p]

headProcQ(tp) == IF tp = NULL THEN NULL ELSE p_next[tp]

\* removeProcQ of a queue that is not empty.
RemoveLinks(tp) ==
  IF p_next[tp] = tp THEN UNCHANGED links
  ELSE LET second == p_next[p_next[tp]] IN
       /\ p_next' = [p_next EXCEPT ![tp] = second]
       /\ p_prev' = [p_prev EXCEPT ![second] = tp]

TailAfterRemove(tp) == IF p_next[tp] = tp THEN NULL ELSE tp

\* The search of outProcQ, from the tail along p_prev.
Found(tp, p) == tp # NULL /\ p \in Range(Along(p_prev, p_prev[tp], tp))

\* Slip: p_prev of the next element still leads to p.
OutLinks_slip(tp, p) ==
  /\ p_next' = [p_next EXCEPT ![p_prev[p]] = p_next[p]]
  /\ UNCHANGED p_prev

\* outProcQ of an element that is found.
OutLinks(tp, p) ==
  IF p = tp /\ p_next[tp] = tp THEN UNCHANGED links
  ELSE /\ p_next' = [p_next EXCEPT ![p_prev[p]] = p_next[p]]
       /\ p_prev' = [p_prev EXCEPT ![p_next[p]] = p_prev[p]]

TailAfterOut(tp, p) ==
  IF p # tp THEN tp ELSE IF p_next[tp] = tp THEN NULL ELSE p_next[tp]

----------------------------------------------------------------------------
Take(p) == held' = held \cup {p}
Give(p) == p \in held /\ held' = held \ {p}

allocPcb ==
  LET p == pcbFree_h IN
  /\ p # NULL
  /\ pcbFree_h' = p_next[p]
  /\ p_next' = [p_next EXCEPT ![p] = NULL]
  /\ p_prev' = [p_prev EXCEPT ![p] = NULL]
  /\ p_child' = [p_child EXCEPT ![p] = NULL]
  /\ p_prnt' = [p_prnt EXCEPT ![p] = NULL]
  /\ p_next_sib' = [p_next_sib EXCEPT ![p] = NULL]
  /\ p_prev_sib' = [p_prev_sib EXCEPT ![p] = NULL]
  /\ Take(p)
  /\ UNCHANGED <<p_semAdd, R_Queue, asl>>

emptyChild(p) == p_child[p] = NULL

\* The children of a PCB, from the first one.
ChildrenOf(p) == Along(p_next_sib, p_child[p], NULL)

IsChild(p) == p_prnt[p] # NULL /\ p \in Range(ChildrenOf(p_prnt[p]))

freePcb(p) ==
  /\ Give(p)
  /\ emptyChild(p) /\ ~IsChild(p)
  /\ p_prev' = [p_prev EXCEPT ![p] = NULL]
  /\ p_next' = [p_next EXCEPT ![p] = pcbFree_h]
  /\ pcbFree_h' = p
  /\ UNCHANGED <<tree, p_semAdd, R_Queue, asl>>

insertProcQ(p) ==
  /\ Give(p)
  /\ InsertLinks(R_Queue, p)
  /\ R_Queue' = p
  /\ UNCHANGED <<tree, p_semAdd, pcbFree_h, asl>>

removeProcQ ==
  /\ R_Queue # NULL
  /\ RemoveLinks(R_Queue)
  /\ R_Queue' = TailAfterRemove(R_Queue)
  /\ Take(headProcQ(R_Queue))
  /\ UNCHANGED <<tree, p_semAdd, pcbFree_h, asl>>

\* An element that is not found changes nothing.
outProcQ(p) ==
  /\ Found(R_Queue, p)
  /\ OutLinks(R_Queue, p)
  /\ R_Queue' = TailAfterOut(R_Queue, p)
  /\ Take(p)
  /\ UNCHANGED <<tree, p_semAdd, pcbFree_h, asl>>

----------------------------------------------------------------------------
\* Both may be in a queue: when SYS1 calls it the new PCB is in the ready queue
\* already.  The caller makes a PCB a child once.
insertChild(prnt, p) ==
  /\ {prnt, p} \cap FreePcbs = {}
  /\ prnt # p /\ emptyChild(p) /\ p_prnt[p] = NULL
  /\ p_child' = [p_child EXCEPT ![prnt] = p]
  /\ p_next_sib' = [p_next_sib EXCEPT ![p] = p_child[prnt]]
  /\ p_prnt' = [p_prnt EXCEPT ![p] = prnt]
  /\ p_prev_sib' = IF p_child[prnt] = NULL THEN p_prev_sib
                   ELSE [p_prev_sib EXCEPT ![p_child[prnt]] = p]
  /\ UNCHANGED <<links, p_semAdd, pcbFree_h, R_Queue, asl, held>>

\* The first child leaves; what the links of the child itself say stays.
removeChild(prnt) ==
  LET second == p_next_sib[p_child[prnt]] IN
  /\ ~emptyChild(prnt)
  /\ p_child' = [p_child EXCEPT ![prnt] = second]
  /\ p_prev_sib' = IF second = NULL THEN p_prev_sib
                   ELSE [p_prev_sib EXCEPT ![second] = NULL]
  /\ UNCHANGED <<links, p_prnt, p_next_sib, p_semAdd, pcbFree_h, R_Queue, asl, held>>

\* Slip: the link back to p is left.
PrevAfterOut_slip(p) == p_prev_sib

PrevAfterOut(p) ==
  IF p_next_sib[p] = NULL THEN p_prev_sib
  ELSE [p_prev_sib EXCEPT ![p_next_sib[p]] = p_prev_sib[p]]

\* A PCB without a parent changes nothing, and the first child is left to
\* removeChild.
outChild(p) ==
  /\ IsChild(p)
  /\ \/ p_prev_sib[p] = NULL /\ removeChild(p_prnt[p])
     \/ /\ p_prev_sib[p] # NULL
        /\ p_next_sib' = [p_next_sib EXCEPT ![p_prev_sib[p]] = p_next_sib[p]]
        /\ p_prev_sib' = PrevAfterOut(p)
        /\ UNCHANGED <<links, p_prnt, p_child, p_semAdd, pcbFree_h, R_Queue, asl, held>>

----------------------------------------------------------------------------
\* The active descriptors with the sentinels.
Active == Along(s_next, semd_h, semd_hi)

\* The descriptor of k, where the loops of removeBlocked, outBlocked and
\* headBlocked stop, or NULL, and the one before a descriptor.
SemdOf(k) ==
  LET found == {d \in Range(Active) : s_semAdd[d] = k}
  IN  IF found = {} THEN NULL ELSE CHOOSE d \in found : TRUE
Previous(d) == CHOOSE e \in Range(Active) : s_next[e] = d

\* Slip: the keys are not compared.
Stops_slip(d, k) == s_semAdd[d] = k \/ s_semAdd[s_next[d]] = MAXINT

\* Where the loop of insertBlocked stops, and so the descriptor that it reaches.
Stops(d, k) ==
  s_semAdd[d] = k \/ s_semAdd[s_next[d]] > k \/ s_semAdd[s_next[d]] = MAXINT
Place(k) ==
  Active[CHOOSE i \in 1 .. Len(Active) - 1 :
           Stops(Active[i], k) /\ \A j \in 1 .. i - 1 : ~Stops(Active[j], k)]

\* The callers ignore what insertBlocked returns: when there is no descriptor
\* they too take p for blocked.
insertBlocked(k, p) ==
  LET d   == Place(k)
      new == semdFree_h
  IN  /\ Give(p)
      /\ IF s_semAdd[d] = k
         THEN /\ InsertLinks(s_procQ[d], p)
              /\ s_procQ' = [s_procQ EXCEPT ![d] = p]
              /\ p_semAdd' = [p_semAdd EXCEPT ![p] = k]
              /\ UNCHANGED <<s_next, s_semAdd, semdFree_h>>
         ELSE IF new # NULL
         THEN /\ semdFree_h' = s_next[new]
              /\ s_next' = [s_next EXCEPT ![new] = s_next[d], ![d] = new]
              /\ InsertLinks(NULL, p)
              /\ s_procQ' = [s_procQ EXCEPT ![new] = p]
              /\ p_semAdd' = [p_semAdd EXCEPT ![p] = k]
              /\ s_semAdd' = [s_semAdd EXCEPT ![new] = k]
         ELSE UNCHANGED <<links, p_semAdd, asl>>
      /\ UNCHANGED <<tree, pcbFree_h, R_Queue>>

\* The queue of descriptor d gets the tail tp; without one d is freed.
SetTail(d, tp) ==
  /\ s_procQ' = [s_procQ EXCEPT ![d] = tp]
  /\ IF tp # NULL THEN UNCHANGED <<s_next, semdFree_h>>
     ELSE /\ s_next' = [s_next EXCEPT ![Previous(d)] = s_next[d], ![d] = semdFree_h]
          /\ semdFree_h' = d
  /\ UNCHANGED s_semAdd

\* A semaphore without descriptor changes nothing.
removeBlocked(k) ==
  LET d  == SemdOf(k)
      tp == s_procQ[d] IN
  /\ d # NULL
  /\ RemoveLinks(tp)
  /\ SetTail(d, TailAfterRemove(tp))
  /\ p_semAdd' = [p_semAdd EXCEPT ![headProcQ(tp)] = NULL]
  /\ Take(headProcQ(tp))
  /\ UNCHANGED <<tree, pcbFree_h, R_Queue>>

outBlocked(p) ==
  LET d  == SemdOf(p_semAdd[p])
      tp == s_procQ[d]
  IN  /\ p_semAdd[p] # NULL /\ d # NULL
      /\ Found(tp, p)
      /\ OutLinks(tp, p)
      /\ SetTail(d, TailAfterOut(tp, p))
      /\ p_semAdd' = [p_semAdd EXCEPT ![p] = NULL]
      /\ Take(p)
      /\ UNCHANGED <<tree, pcbFree_h, R_Queue>>

\* The element before the tail.
headBlocked(k) ==
  LET tp == IF SemdOf(k) = NULL THEN NULL ELSE s_procQ[SemdOf(k)]
  IN  IF tp = NULL THEN NULL ELSE p_prev[tp]

----------------------------------------------------------------------------
\* The queue of a semaphore: that of its descriptor, if it has one.
BlockedOn(k) == IF SemdOf(k) = NULL THEN <<>> ELSE QueueOf(s_procQ[SemdOf(k)])

\* The lists in the terms of Lists.  The variable view keeps this for the
\* refinement; no operation looks at it.
View == [pcbFree |-> FreePcbs,
         R_Queue |-> QueueOf(R_Queue),
         procQ   |-> [k \in Key |-> BlockedOn(k)],
         p_child |-> [p \in Pcb |-> ChildrenOf(p)]]

\* Does the caller of this behaviour use such lists?
Uses(x) == x \in caller.uses

\* Taken from its parent and not freed yet.  The nucleus frees all of them before
\* it makes a child again; only a "loose" caller does not wait for that.
Loose(p) == p_prnt[p] # NULL /\ ~IsChild(p) /\ p \notin FreePcbs
MayMakeChild == Uses("tree") /\ (Uses("loose") \/ ~\E p \in Pcb : Loose(p))

Seen == view' = View' /\ UNCHANGED caller

Next ==
  \/ Cardinality(Pcb \ view.pcbFree) < caller.pcbs /\ allocPcb /\ Seen
  \/ removeProcQ /\ Seen
  \/ \E p \in Pcb : Uses("free") /\ freePcb(p) /\ Seen
  \/ \E p \in Pcb : Uses("ready") /\ insertProcQ(p) /\ Seen
  \/ \E p \in Pcb : outProcQ(p) /\ Seen
  \/ \E p \in Pcb : outBlocked(p) /\ Seen
  \/ \E p \in Pcb : removeChild(p) /\ Seen
  \/ \E p \in Pcb : outChild(p) /\ Seen
  \/ \E p, prnt \in Pcb : MayMakeChild /\ insertChild(prnt, p) /\ Seen
  \/ \E p \in Pcb : \E k \in Key : Uses("blocked") /\ insertBlocked(k, p) /\ Seen
  \/ \E k \in Key : removeBlocked(k) /\ Seen

Init == InitLinks /\ view = View

Spec == Init /\ [][Next]_vars
----------------------------------------------------------------------------
Contract ==
  INSTANCE Lists WITH
    pcbFree <- view.pcbFree,
    R_Queue <- view.R_Queue,
    procQ   <- view.procQ,
    p_child <- view.p_child

\* The functions of pcb.c and asl.c do to the lists what Lists says, and nothing
\* else: Nucleus may take them for sequences.
ImplementsLists == Contract!Spec

\* Every link back is the inverse of the link forth, wherever a PCB is: the
\* searches of outProcQ, which go backwards, and outChild rely on it.  Whoever is
\* blocked knows its semaphore.
LinksMatch ==
  /\ \A q \in {view.R_Queue} \cup Range(view.procQ) : \A p \in Range(q) : p_prev[p_next[p]] = p
  /\ \A p \in Pcb : \A c \in Range(ChildrenOf(p)) :
       /\ p_prnt[c] = p
       /\ IF p_child[p] = c THEN p_prev_sib[c] = NULL
          ELSE p_prev_sib[c] # NULL /\ p_next_sib[p_prev_sib[c]] = c
  /\ \A k \in Key : Range(BlockedOn(k)) = {p \in Pcb : p_semAdd[p] = k}

\* The active list is sorted and has no descriptor without a process, no
\* descriptor is lost, and headBlocked tells whether a process is blocked: this
\* is all that the nucleus asks it.
ActiveListInOrder ==
  /\ \A i \in 1 .. Len(Active) - 1 : s_semAdd[Active[i]] < s_semAdd[Active[i + 1]]
  /\ \A d \in Range(Active) \ {semd_h, semd_hi} : s_procQ[d] # NULL
  /\ Len(Active) + Len(Along(s_next, semdFree_h, NULL)) = Cardinality(Semd)
  /\ \A k \in Key : headBlocked(k) = NULL <=> BlockedOn(k) = <<>>
====
