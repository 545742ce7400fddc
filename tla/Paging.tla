---- MODULE Paging ----
(***************************************************************************)
(* The pager of Fase_3/vmSupport.c: the swap pool, the page tables, the    *)
(* TLB and the backing stores of the user processes.                       *)
(*                                                                         *)
(* pager() and SIGKILL() run in kernel mode with interrupts enabled, so    *)
(* other processes come between any two of their steps.  What lies between *)
(* two steps here touches nothing that others can see; a section with      *)
(* interrupts masked is one step.  SYS3 and SYS4 are those of Nucleus:     *)
(* SwapPoolSem is the queue of its users, the first one holds it and the   *)
(* others are blocked.                                                     *)
(*                                                                         *)
(* An operator whose name ends in _slip is not part of the model: it is    *)
(* the operator after it with a plausible bug, against which a property is *)
(* tried.                                                                  *)
(***************************************************************************)
EXTENDS Integers, Sequences, FiniteSets, PcbQueue

CONSTANTS
  UProc,   \* the user processes, by ASID
  Page,    \* their pages: a process and the number of a page
  NFrames, \* the size of the swap pool
  NOPROC,
  NULL,
  MaxSpoiled \* bound: how many pages may be spoiled when an operation still fails

ASSUME UProcAssumption == IsFiniteSet(UProc) /\ NOPROC \notin UProc /\ NULL \notin UProc
ASSUME PageAssumption == Page \subseteq UProc \X Nat /\ NULL \notin Page
ASSUME NFramesAssumption == NFrames \in Nat \ {0}
ASSUME BoundAssumption == MaxSpoiled \in Nat

Frame == 0 .. NFrames - 1

\* The private page table that a page is in, and its place there.
Process(x) == x[1]
Number(x)  == x[2]

\* In a page table entry: V = 0.  As a place: the backing store.
BACKING == -1
\* In the TLB: no entry.
MISS == -2

VARIABLES
  sw_asid,     \* of every frame: the process that owns it, or NOPROC
  sw_pte,      \* of every frame: the page whose entry sw_pte points to
  last,        \* the static frame_to_return of rimpiazzamento
  pte,         \* of every page: its frame, or BACKING
  tlb,         \* of every page: its entry in the TLB, a copy of a pte
  SwapPoolSem, \* the process in the critical section, then those that wait
  flashSem,    \* the mutex of every flash device
  pc,          \* of every process, see Label
  want,        \* pNum, the page that the process has faulted on
  at,          \* frame_i, or the index of SIGKILL
  block,       \* devnum and devblock of RW_device: the page that is transferred
  result,      \* what RW_device returns
  fresh,       \* history: the places that hold the latest content of a page
  robbed,      \* history: the pages whose frame SIGKILL took from another process
  spoiled      \* history: the pages that an I/O error or a robbery may damage

table  == <<sw_asid, sw_pte, last>>
memory == <<pte, tlb>>
locals == <<want, at, block, result>>
data   == <<fresh, robbed, spoiled>>
vars   == <<table, memory, SwapPoolSem, flashSem, pc, locals, data>>

\* Where a process is.  "user" stands for its program and for the support
\* level, which only reads and writes its pages.
Label == {"user", "enter", "pick", "invalidate", "owner", "write", "writing",
          "written", "read", "reading", "done", "register", "map", "leave",
          "kill", "free", "dead"}
\* What RW_device is asked for.  With NOPROC for the owner, devnum is -2: that
\* is disk 6, which the machine configuration does not have.
Device == UProc \cup {NOPROC}
Block  == Device \X Nat

TypeOK ==
  /\ sw_asid \in [Frame -> UProc \cup {NOPROC}]
  /\ sw_pte \in [Frame -> Page \cup {NULL}]
  /\ last \in Frame
  /\ pte \in [Page -> Frame \cup {BACKING}]
  /\ tlb \in [Page -> Frame \cup {BACKING, MISS}]
  /\ SwapPoolSem \in Seq(UProc)
  /\ flashSem \in [Device -> {0, 1}]
  /\ pc \in [UProc -> Label]
  /\ want \in [UProc -> Page \cup {NULL}]
  /\ at \in [UProc -> 0 .. NFrames]
  /\ block \in [UProc -> Block \cup {NULL}]
  /\ result \in [UProc -> {"ok", "error"}]
  /\ fresh \in [Page -> SUBSET (Frame \cup {BACKING})]
  /\ robbed \subseteq Page
  /\ spoiled \subseteq Page

\* After test() and InstantiateProc().  NULL stands for what a field has before
\* it is set, or a local variable outside its function.
Init ==
  /\ sw_asid = [f \in Frame |-> NOPROC]
  /\ last = 0
  /\ pte = [x \in Page |-> BACKING]
  /\ tlb = [x \in Page |-> MISS]
  /\ SwapPoolSem = <<>>
  /\ flashSem = [d \in Device |-> 1]
  /\ pc = [p \in UProc |-> "user"]
  /\ at = [p \in UProc |-> 0]
  /\ result = [p \in UProc |-> "ok"]
  /\ fresh = [x \in Page |-> {BACKING}]
  /\ robbed = {}
  /\ spoiled = {}
  /\ sw_pte = [f \in Frame |-> NULL]
  /\ want = [p \in UProc |-> NULL]
  /\ block = [p \in UProc |-> NULL]

----------------------------------------------------------------------------
\* p comes to the label `to`.
Goto(p, to) == pc' = [pc EXCEPT ![p] = to]
Step(p, from, to) == pc[p] = from /\ Goto(p, to)

\* Slip: the TLB keeps what it has.
TLBupdate_slip == UNCHANGED tlb

\* TLBupdate(): TLBCLR.
TLBupdate == tlb' = [x \in Page |-> MISS]

\* A process reads or writes a page of its own, x.  uTLB_RefillHandler: the
\* entry of x goes to the TLB, to the place of some other one or to a free one.
uTLB_RefillHandler(x) ==
  /\ pc[Process(x)] = "user"
  /\ tlb[x] = MISS
  /\ \E y \in Page : tlb' = [tlb EXCEPT ![y] = MISS, ![x] = pte[x]]
  /\ UNCHANGED <<table, pte, SwapPoolSem, flashSem, pc, locals, data>>

\* The store itself.  What other pages had in that frame is lost.
Store(x) ==
  /\ pc[Process(x)] = "user"
  /\ tlb[x] \in Frame
  /\ fresh' = [y \in Page |-> IF y = x THEN {tlb[x]} ELSE fresh[y] \ {tlb[x]}]
  /\ UNCHANGED <<table, memory, SwapPoolSem, flashSem, pc, locals, robbed, spoiled>>

----------------------------------------------------------------------------
\* A TLB-invalid exception, passed up to pager(), and SYS8.
Fault(x) ==
  LET p == Process(x) IN
  /\ Step(p, "user", "enter")
  /\ tlb[x] = BACKING
  /\ want' = [want EXCEPT ![p] = x]
  /\ UNCHANGED <<table, memory, SwapPoolSem, flashSem, at, block, result, data>>

\* Slip: the mutual exclusion is left out.
Holds_slip(p) == p \in Range(SwapPoolSem)

\* p is in the critical section of SwapPoolSem.
Holds(p) == HeadProcQ(SwapPoolSem, NULL) = p

\* P(SwapPoolSem).
Enter(p) ==
  /\ Step(p, "enter", "pick")
  /\ SwapPoolSem' = InsertProcQ(SwapPoolSem, p)
  /\ UNCHANGED <<table, memory, flashSem, locals, data>>

\* Slip: the search does not start again at the first frame.
rimpiazzamento_slip == last + 1

\* rimpiazzamento(): the first free frame, or else the one after the last.
rimpiazzamento ==
  LET free == {f \in Frame : sw_asid[f] = NOPROC}
  IN  IF free # {} THEN CHOOSE f \in free : \A g \in free : f <= g
      ELSE (last + 1) % NFrames

Pick(p) ==
  /\ Holds(p)
  /\ Step(p, "pick", "invalidate")
  /\ last' = rimpiazzamento
  /\ at' = [at EXCEPT ![p] = rimpiazzamento]
  /\ UNCHANGED <<sw_asid, sw_pte, memory, SwapPoolSem, flashSem, want, block,
                 result, data>>

\* The call of RW_device for page x.
Call_RW_device(p, x, to) ==
  /\ Goto(p, to)
  /\ block' = [block EXCEPT ![p] = x]

\* The frame is occupied: its page gets V = 0 and the TLB is emptied, with
\* interrupts masked.  A frame that is free is filled at once.
Invalidate(p) ==
  LET f == at[p] IN
  /\ pc[p] = "invalidate"
  /\ \/ /\ sw_asid[f] # NOPROC
        /\ pte' = [pte EXCEPT ![sw_pte[f]] = BACKING]
        /\ TLBupdate
        /\ Goto(p, "owner")
        /\ UNCHANGED block
     \/ /\ sw_asid[f] = NOPROC
        /\ Call_RW_device(p, want[p], "read")
        /\ UNCHANGED memory
  /\ UNCHANGED <<table, SwapPoolSem, flashSem, want, at, result, data>>

\* Slip: the page is written to the store of the pager's own process.
Owner_slip(p, f) == p

\* Line 113: the owner of the frame, read after the masked section.
Owner(p, f) == sw_asid[f]

\* The entry always has D = 1, so that the page is always written back.
Evict(p) ==
  /\ pc[p] = "owner"
  /\ Call_RW_device(p, <<Owner(p, at[p]), Number(sw_pte[at[p]])>>, "write")
  /\ UNCHANGED <<table, memory, SwapPoolSem, flashSem, want, at, result, data>>

----------------------------------------------------------------------------
\* RW_device: the P on the device's mutex and, with interrupts masked, the
\* command and the SYS5 for it.
Command(p, from, to) ==
  LET d == block[p][1] IN
  /\ Step(p, from, to)
  /\ flashSem[d] = 1
  /\ flashSem' = [flashSem EXCEPT ![d] = 0]
  /\ UNCHANGED <<table, memory, SwapPoolSem, locals, data>>

\* A page is copied to a place, and to no other page's: that place has the
\* latest content of x if the place it comes from had.
Copied(x, from, to) ==
  fresh' = [y \in Page |->
              IF y = x /\ from \in fresh[x] THEN fresh[y] \cup {to}
              ELSE IF y = x \/ to # BACKING THEN fresh[y] \ {to} ELSE fresh[y]]

\* The page that the swap pool table has for a frame.
Registered(f) == IF sw_asid[f] = NOPROC THEN {} ELSE {sw_pte[f]}

\* The end of the operation.  One that fails has transferred nothing, and spoils
\* the page and, as the frame stays registered under it, that of the frame; whether
\* its caller is told depends on the order in which the two accesses of
\* interrupts.c:134-136 to the device's registers, which are not volatile,
\* reach the device: its ACK resets the status to READY.
DeviceDone(p, from, to, source, dest) ==
  /\ Step(p, from, to)
  /\ block[p] \in Page
  /\ \/ /\ Copied(block[p], source, dest)
        /\ result' = [result EXCEPT ![p] = "ok"]
        /\ UNCHANGED spoiled
     \/ /\ Cardinality(spoiled) < MaxSpoiled
        /\ \E told \in {"ok", "error"} : result' = [result EXCEPT ![p] = told]
        /\ spoiled' = spoiled \cup {block[p]} \cup Registered(at[p])
        /\ UNCHANGED fresh
  /\ UNCHANGED <<table, memory, SwapPoolSem, flashSem, want, at, block, robbed>>

\* Slip: after an error the mutex is not released.
Return_slip(p, from) ==
  /\ pc[p] = from
  /\ flashSem' = IF result[p] = "error" THEN flashSem
                 ELSE [flashSem EXCEPT ![block[p][1]] = 1]
  /\ result' = [result EXCEPT ![p] = "ok"]

\* The V on the device's mutex; its callers test the result.
Return(p, from) ==
  /\ pc[p] = from
  /\ flashSem' = [flashSem EXCEPT ![block[p][1]] = 1]
  /\ result' = [result EXCEPT ![p] = "ok"]

\* SIGKILL(): the rest of p is the loop over the frames and what follows it.
Kill(p) == Goto(p, "kill") /\ at' = [at EXCEPT ![p] = 0]

Written(p) ==
  /\ Return(p, "written")
  /\ \/ /\ result[p] = "ok"
        /\ Call_RW_device(p, want[p], "read")
        /\ UNCHANGED at
     \/ result[p] = "error" /\ Kill(p) /\ UNCHANGED block
  /\ UNCHANGED <<table, memory, SwapPoolSem, want, data>>

Done(p) ==
  /\ Return(p, "done")
  /\ \/ result[p] = "ok" /\ Goto(p, "register") /\ UNCHANGED at
     \/ result[p] = "error" /\ Kill(p)
  /\ block' = [block EXCEPT ![p] = NULL]
  /\ UNCHANGED <<table, memory, SwapPoolSem, want, data>>

RW_device(p) ==
  \/ Command(p, "write", "writing")
  \/ DeviceDone(p, "writing", "written", at[p], BACKING)
  \/ Written(p)
  \/ Command(p, "read", "reading")
  \/ DeviceDone(p, "reading", "done", BACKING, at[p])
  \/ Done(p)

----------------------------------------------------------------------------
\* The frame gets its entry in the swap pool table.
Register(p) ==
  /\ Step(p, "register", "map")
  /\ sw_asid' = [sw_asid EXCEPT ![at[p]] = p]
  /\ sw_pte' = [sw_pte EXCEPT ![at[p]] = want[p]]
  /\ UNCHANGED <<last, memory, SwapPoolSem, flashSem, locals, data>>

\* The page gets its frame and V = 1, with interrupts masked.  With a robbed page
\* still in that frame, the two processes write over each other.
Map(p) ==
  /\ Step(p, "map", "leave")
  /\ pte' = [pte EXCEPT ![sw_pte[at[p]]] = at[p]]
  /\ TLBupdate
  /\ spoiled' = IF \E y \in robbed : pte[y] = at[p] THEN spoiled \cup {want[p]}
                ELSE spoiled
  /\ UNCHANGED <<table, SwapPoolSem, flashSem, locals, fresh, robbed>>

\* The end of a function: its local variables are gone.
Forget(p) ==
  /\ at' = [at EXCEPT ![p] = 0]
  /\ want' = [want EXCEPT ![p] = NULL]
  /\ block' = [block EXCEPT ![p] = NULL]
  /\ result' = [result EXCEPT ![p] = "ok"]

\* V(SwapPoolSem), and the instruction is tried again.
Leave(p) ==
  /\ Step(p, "leave", "user")
  /\ SwapPoolSem' = RemoveProcQ(SwapPoolSem)
  /\ Forget(p)
  /\ UNCHANGED <<table, memory, flashSem, data>>

----------------------------------------------------------------------------
\* SIGKILL(NULL): a SYS2 or an error of the program, seen by the support level
\* or by pager() before it asks for SwapPoolSem.
Exit(p) ==
  /\ pc[p] = "user"
  /\ Kill(p)
  /\ UNCHANGED <<table, memory, SwapPoolSem, flashSem, want, block, result, data>>

\* Slip: the first frame is left out.
Mine_slip(p, f) == sw_asid[f] = p /\ f # 0

\* The test in the loop of SIGKILL.
Mine(p, f) == sw_asid[f] = p

\* One round of the loop, in two steps when the frame is to be freed.
KillTest(p) ==
  /\ pc[p] = "kill"
  /\ at[p] < NFrames
  /\ \/ Mine(p, at[p]) /\ Goto(p, "free") /\ UNCHANGED at
     \/ ~Mine(p, at[p]) /\ at' = [at EXCEPT ![p] = @ + 1] /\ UNCHANGED pc
  /\ UNCHANGED <<table, memory, SwapPoolSem, flashSem, want, block, result, data>>

\* The page of another process that a pager has brought to frame f since the test.
Robbed(p, f) == IF sw_asid[f] = p THEN {} ELSE Registered(f)

\* Nothing makes the test and the assignment one.
KillFree(p) ==
  /\ Step(p, "free", "kill")
  /\ sw_asid' = [sw_asid EXCEPT ![at[p]] = NOPROC]
  /\ robbed' = robbed \cup Robbed(p, at[p])
  /\ spoiled' = spoiled \cup Robbed(p, at[p])
  /\ at' = [at EXCEPT ![p] = @ + 1]
  /\ UNCHANGED <<sw_pte, last, memory, SwapPoolSem, flashSem, want, block,
                 result, fresh>>

\* Slip: SIGKILL does not release the critical section.
AfterKill_slip(p) == SwapPoolSem

\* V(SwapPoolSem) by who holds it: pager() passes its address to SIGKILL in
\* its critical section, all others pass NULL.
AfterKill(p) == IF Holds(p) THEN RemoveProcQ(SwapPoolSem) ELSE SwapPoolSem

\* The V on Master_Sem, see InitProc, and SYS2.
KillEnd(p) ==
  /\ at[p] = NFrames
  /\ Step(p, "kill", "dead")
  /\ SwapPoolSem' = AfterKill(p)
  /\ Forget(p)
  /\ UNCHANGED <<table, memory, flashSem, data>>

pager(p) ==
  \/ Enter(p) \/ Pick(p) \/ Invalidate(p) \/ Evict(p) \/ RW_device(p)
  \/ Register(p) \/ Map(p) \/ Leave(p)

SIGKILL(p) == KillTest(p) \/ KillFree(p) \/ KillEnd(p)

\* A pager waits for a device that does not exist, and keeps SwapPoolSem for ever.
Hung == \E p \in UProc : pc[p] = "writing" /\ block[p][1] = NOPROC

\* When all are dead nothing is left to do; behind a pager that hangs, nothing that
\* takes a page fault goes on.
Stop == (Hung \/ \A p \in UProc : pc[p] = "dead") /\ UNCHANGED vars

Next ==
  \/ \E x \in Page : uTLB_RefillHandler(x) \/ Store(x) \/ Fault(x)
  \/ \E p \in UProc : pager(p) \/ Exit(p) \/ SIGKILL(p)
  \/ Stop

Spec == Init /\ [][Next]_vars

\* The nucleus runs every process that is ready (ReadyRuns of Nucleus), and an
\* operation of a device that is there ends (SoftWaitEnds).
FairSpec == Spec /\ \A p \in UProc : WF_vars(pager(p)) /\ WF_vars(SIGKILL(p))
----------------------------------------------------------------------------
\* Who may still use its pages.
Killing(p) == pc[p] \in {"kill", "free"}
Alive(p) == ~Killing(p) /\ pc[p] # "dead"

\* A frame that a page of a live process is in is its own: the swap pool table
\* has it under that page, so that nobody takes it for free, and what evicts it
\* finds the page.  No two pages share a frame.  Only a SIGKILL that comes too
\* late, after a pager gave the frame to the page, can change that.
FramesRegistered ==
  \A x \in Page \ robbed :
    Alive(Process(x)) /\ pte[x] # BACKING =>
      sw_asid[pte[x]] = Process(x) /\ sw_pte[pte[x]] = x

\* The TLB never disagrees with the page tables, which is why approach 2 of
\* the comment in TLBupdate is enough.
TlbCoherent == \A x \in Page : tlb[x] # MISS => tlb[x] = pte[x]

\* A page that is evicted goes to its own place in the backing store of its
\* process.
WriteBackToOwner == \A p \in UProc : pc[p] = "write" => block[p] = sw_pte[at[p]]

\* What pager() evicts never goes to the place of another page, whoever is killed
\* between its lines 95 and 118.  It goes to its own, or to the device that does
\* not exist, and that only when its process is dying or was robbed of it: no page
\* that somebody still needs is lost there.
NeverElsewhere ==
  \A p \in UProc : pc[p] \in {"write", "writing"} =>
    LET x == sw_pte[at[p]] IN
    \/ block[p] = x
    \/ block[p][1] = NOPROC /\ (~Alive(Process(x)) \/ x \in robbed)

\* What a process reads is what it has written last, through evictions and page
\* faults of everybody and the ends of others.  An error of a device damages no
\* other page than the one transferred and the one that the frame stays registered
\* under, and a robbery none but the robbed one and those that get its frame.
NoStalePage ==
  \A x \in Page \ spoiled :
    pc[Process(x)] = "user" /\ tlb[x] \in Frame => tlb[x] \in fresh[x]

\* The P of RW_device never blocks: SwapPoolSem already excludes others, and
\* an operation that ends with an error has released the mutex.
FlashNeverContended ==
  \A p \in UProc : pc[p] \in {"write", "read"} => flashSem[block[p][1]] = 1

\* A process takes no frame to its grave, and no mutex: that of a flash device is
\* taken only while its taker is in RW_device.
NothingLeaked ==
  /\ \A p \in UProc : pc[p] = "dead" =>
       /\ \A f \in Frame : sw_asid[f] # p
       /\ p \notin Range(SwapPoolSem)
  /\ \A d \in Device : flashSem[d] = 0 =>
       \E p \in UProc : pc[p] \in {"writing", "written", "reading", "done"} /\ block[p][1] = d

\* A page fault ends: the process gets its page, or is killed, unless a pager waits
\* for the device that does not exist.
FaultServed ==
  \A p \in UProc : pc[p] = "enter" ~> pc[p] \in {"user", "dead"} \/ Hung
====
