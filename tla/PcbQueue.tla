---- MODULE PcbQueue ----
(***************************************************************************)
(* The queues and the child lists of Fase_1/pcb.c, seen as sequences.      *)
(*                                                                         *)
(* The code keeps a queue as a circular doubly linked list and a pointer   *)
(* to its tail; it is here the sequence from the oldest element            *)
(* (tail->p_next) to the tail.  A child list is the sequence from p_child  *)
(* along p_next_sib.                                                       *)
(*                                                                         *)
(* An operator whose name ends in _slip is not part of the model, see      *)
(* Nucleus.                                                                *)
(***************************************************************************)
EXTENDS Integers, Sequences, Functions

\* Slip: p is linked before the oldest element and the tail pointer stays.
InsertProcQ_slip(q, p) == <<p>> \o q

\* insertProcQ: p becomes the new tail.
InsertProcQ(q, p) == Append(q, p)

\* headProcQ, and the result of removeProcQ: the oldest element, if any.
HeadProcQ(q, null) == IF q = <<>> THEN null ELSE Head(q)

\* removeProcQ, removeChild: what is left without the first element.
RemoveProcQ(q) == IF q = <<>> THEN q ELSE Tail(q)

\* Slip: p is found but its neighbours are not linked.
Unlink_slip(q, p) == q

\* Both neighbours of p linked to each other: what is left without p.
Unlink(q, p) ==
  LET at == CHOOSE i \in 1..Len(q) : q[i] = p
  IN  IF p \notin Range(q) THEN q
      ELSE [i \in 1..(Len(q) - 1) |-> IF i < at THEN q[i] ELSE q[i + 1]]

\* outProcQ.  When p is the tail of a longer queue the tail pointer moves on to
\* p->p_next, which is the oldest element: the queue turns by one place.
OutProcQ(q, p) ==
  IF Len(q) > 1 /\ q[Len(q)] = p
  THEN [i \in 1..(Len(q) - 1) |-> IF i = Len(q) - 1 THEN q[1] ELSE q[i + 1]]
  ELSE Unlink(q, p)

\* insertChild: p becomes the first child.
InsertChild(q, p) == <<p>> \o q

\* Every PCB at most once, as the links of a list require.
IsListOf(q, S) == q \in Seq(S) /\ IsInjective(q)
====
