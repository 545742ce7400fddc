---- MODULE PagingProofs ----
(***************************************************************************)
(* Proofs about the pager, for every set of processes and of pages and     *)
(* every size of the swap pool.                                            *)
(***************************************************************************)
EXTENDS Paging, PcbQueueProofs, TLAPS

\* p is between P(SwapPoolSem) and V(SwapPoolSem) of pager().
Inside(p) == pc[p] \in {"invalidate", "owner", "write", "writing", "written",
                        "read", "reading", "done", "register", "map", "leave"}

\* The swap pool table does not yet have the new page of p's frame, and the
\* page tables no longer have the old one.
Moving(p) == pc[p] \in {"owner", "write", "writing", "written", "read",
                        "reading", "done", "register", "map"}

\* p is writing a page to its backing store.
Writes(p) == pc[p] \in {"owner", "write", "writing"}

Transfers(p) == pc[p] \in {"write", "writing", "written", "read", "reading", "done"}

\* SwapPoolSem is a mutex, and only who is in its critical section, or was
\* killed in it, holds it.
Lock ==
  /\ IsListOf(SwapPoolSem, UProc)
  /\ \A p \in UProc :
       /\ pc[p] = "pick" => p \in Range(SwapPoolSem)
       /\ Inside(p) => Holds(p)
       /\ p \in Range(SwapPoolSem) =>
            \/ pc[p] = "pick"
            \/ Inside(p)
            \/ Killing(p) /\ Holds(p)

\* What the local variables of pager(), RW_device() and SIGKILL() are.
Place ==
  /\ \A f \in Frame : sw_asid[f] # NOPROC => sw_pte[f] \in Page
  /\ \A p \in UProc :
       /\ Inside(p) \/ pc[p] = "free" => at[p] \in Frame
       /\ Inside(p) \/ pc[p] \in {"enter", "pick"} =>
            want[p] \in Page /\ Process(want[p]) = p
       /\ Writes(p) => sw_pte[at[p]] \in Page
       /\ pc[p] = "map" => sw_pte[at[p]] = want[p]
       /\ Transfers(p) => block[p] \in Block

\* The mutex of a flash device is held by who is inside RW_device for it.
FlashHeld ==
  \A d \in Device : flashSem[d] = 0 =>
    \E p \in UProc : /\ pc[p] \in {"writing", "written", "reading", "done"}
                     /\ block[p][1] = d

\* SIGKILL(p) has freed the frames of p that its loop has passed.
Cleared ==
  \A p \in UProc : \A f \in Frame :
    pc[p] = "dead" \/ (Killing(p) /\ f < at[p]) => sw_asid[f] # p

Base == TypeOK /\ Lock /\ Place

\* rimpiazzamento returns a frame of the pool.
LEMMA VictimInFrame == TypeOK => rimpiazzamento \in Frame
<1> SUFFICES ASSUME TypeOK PROVE rimpiazzamento \in Frame
  OBVIOUS
<1> DEFINE free == {f \in Frame : sw_asid[f] = NOPROC}
<1>1. CASE free # {}
  <2>1. free \subseteq Nat
    BY NFramesAssumption DEF Frame
  <2>2. \E f \in free : \A g \in free : f <= g
    BY <1>1, <2>1, Smallest
  <2> DEFINE v == CHOOSE f \in free : \A g \in free : f <= g
  <2>3. v \in free
    BY <2>2
  <2>4. rimpiazzamento = v
    BY <1>1 DEF rimpiazzamento
  <2> QED BY <2>3, <2>4
<1>2. CASE free = {}
  <2>1. rimpiazzamento = (last + 1) % NFrames
    BY <1>2 DEF rimpiazzamento
  <2>2. last + 1 \in Nat
    BY NFramesAssumption DEF TypeOK, Frame
  <2> QED BY <2>1, <2>2, NFramesAssumption DEF Frame
<1> QED BY <1>1, <1>2

\* Who holds SwapPoolSem is the head of its queue.
LEMMA HoldsHead ==
  ASSUME NEW p \in UProc
  PROVE  Holds(p) <=> SwapPoolSem # <<>> /\ Head(SwapPoolSem) = p
BY UProcAssumption DEF Holds, HeadProcQ

\* One at a time.
LEMMA OneInside ==
  ASSUME Lock, NEW p \in UProc, NEW q \in UProc, Holds(p), Inside(q) \/ Holds(q)
  PROVE  p = q
BY HoldsHead DEF Lock

\* The end of an operation of a flash device leaves the types as they are.
LEMMA DeviceDoneType ==
  ASSUME TypeOK, Place, NEW p \in UProc, at[p] \in Frame, NEW from,
         NEW to \in {"written", "done"}, NEW source, NEW dest \in Frame \cup {BACKING},
         DeviceDone(p, from, to, source, dest), SwapPoolSem' \in Seq(UProc)
  PROVE  TypeOK'
<1>1. pc' \in [UProc -> Label]
  BY DEF DeviceDone, Step, Goto, TypeOK, Label
<1>2. result' \in [UProc -> {"ok", "error"}]
  BY DEF DeviceDone, TypeOK
<1>3. robbed' \subseteq Page /\ spoiled' \subseteq Page
  BY DEF DeviceDone, Registered, TypeOK, Place
<1>4. fresh' \in [Page -> SUBSET (Frame \cup {BACKING})]
  <2>1. CASE Copied(block[p], source, dest)
    <3> DEFINE g(y) == IF y = block[p] /\ source \in fresh[block[p]]
                       THEN fresh[y] \cup {dest}
                       ELSE IF y = block[p] \/ dest # BACKING
                            THEN fresh[y] \ {dest} ELSE fresh[y]
    <3>1. \A y \in Page : g(y) \in SUBSET (Frame \cup {BACKING})
      BY DEF TypeOK
    <3>2. fresh' = [y \in Page |-> g(y)]
      BY <2>1 DEF Copied
    <3> HIDE DEF g
    <3> QED BY <3>1, <3>2
  <2>2. CASE UNCHANGED fresh
    BY <2>2 DEF TypeOK
  <2> QED BY <2>1, <2>2 DEF DeviceDone
<1> QED
  BY <1>1, <1>2, <1>3, <1>4 DEF DeviceDone, table, memory, TypeOK

\* Who is in the critical section is the first in SwapPoolSem, after every step.
LEMMA LockStep ==
  ASSUME Base, [Next]_vars
  PROVE Lock'
<1>0. CASE UNCHANGED vars
  BY <1>0 DEF vars, Base, Lock, Inside, Killing, Holds
<1>1. ASSUME NEW x \in Page, uTLB_RefillHandler(x) PROVE Lock'
  BY <1>1 DEF uTLB_RefillHandler, Base, Lock, Inside, Killing, Holds
<1>2. ASSUME NEW x \in Page, Store(x) PROVE Lock'
  BY <1>2 DEF Store, Base, Lock, Inside, Killing, Holds
<1>3. ASSUME NEW x \in Page, Fault(x) PROVE Lock'
  BY <1>3 DEF Fault, Step, Goto, Base, Lock, Inside, Killing, Holds
<1>4. ASSUME NEW p \in UProc, Enter(p) PROVE Lock'
  <2>1. /\ pc[p] = "enter" /\ pc' = [pc EXCEPT ![p] = "pick"]
        /\ SwapPoolSem' = InsertProcQ(SwapPoolSem, p)
    BY <1>4 DEF Enter, Step, Goto
  <2>2. IsListOf(SwapPoolSem, UProc) /\ p \notin Range(SwapPoolSem)
    BY <2>1 DEF Base, Lock, Inside, Killing
  <2>3. /\ IsListOf(SwapPoolSem', UProc)
        /\ Range(SwapPoolSem') = Range(SwapPoolSem) \cup {p}
    BY <2>1, <2>2, InsertProcQLemma
  <2>4. ASSUME NEW q \in UProc, Holds(q) PROVE Holds(q)'
    <3>1. SwapPoolSem # <<>> /\ Head(SwapPoolSem) = q /\ SwapPoolSem \in Seq(UProc)
      BY <2>2, <2>4, HoldsHead DEF IsListOf
    <3>2. SwapPoolSem' # <<>> /\ Head(SwapPoolSem') = q
      BY <2>1, <3>1 DEF InsertProcQ
    <3> QED BY <3>2 DEF Holds, HeadProcQ
  <2> QED BY <2>1, <2>2, <2>3, <2>4 DEF Base, TypeOK, Lock, Inside, Killing
<1>5. ASSUME NEW p \in UProc, Pick(p) PROVE Lock'
  BY <1>5 DEF Pick, Step, Goto, Base, Lock, Inside, Holds
<1>6. ASSUME NEW p \in UProc, Invalidate(p) PROVE Lock'
  BY <1>6 DEF Invalidate, Call_RW_device, Goto, Base, TypeOK, Lock, Inside, Holds
<1>7. ASSUME NEW p \in UProc, Evict(p) PROVE Lock'
  BY <1>7 DEF Evict, Call_RW_device, Goto, Base, Lock, Inside, Holds
<1>8. ASSUME NEW p \in UProc, Command(p, "write", "writing") PROVE Lock'
  BY <1>8 DEF Command, Step, Goto, Base, Lock, Inside, Holds
<1>9. ASSUME NEW p \in UProc, DeviceDone(p, "writing", "written", at[p], BACKING)
      PROVE Lock'
  BY <1>9 DEF DeviceDone, Step, Goto, Base, Lock, Inside, Holds
<1>10. ASSUME NEW p \in UProc, Written(p) PROVE Lock'
  BY <1>10 DEF Written, Return, Kill, Call_RW_device, Goto, Base, TypeOK, Lock, Inside,
       Killing, Holds
<1>11. ASSUME NEW p \in UProc, Command(p, "read", "reading") PROVE Lock'
  BY <1>11 DEF Command, Step, Goto, Base, Lock, Inside, Holds
<1>12. ASSUME NEW p \in UProc, DeviceDone(p, "reading", "done", BACKING, at[p])
       PROVE Lock'
  BY <1>12 DEF DeviceDone, Step, Goto, Base, Lock, Inside, Holds
<1>13. ASSUME NEW p \in UProc, Done(p) PROVE Lock'
  BY <1>13 DEF Done, Return, Kill, Goto, Base, TypeOK, Lock, Inside, Killing, Holds
<1>14. ASSUME NEW p \in UProc, Register(p) PROVE Lock'
  BY <1>14 DEF Register, Step, Goto, Base, Lock, Inside, Holds
<1>15. ASSUME NEW p \in UProc, Map(p) PROVE Lock'
  BY <1>15 DEF Map, Step, Goto, Base, Lock, Inside, Holds
<1>16. ASSUME NEW p \in UProc, Leave(p) PROVE Lock'
  <2>1. /\ pc[p] = "leave" /\ pc' = [pc EXCEPT ![p] = "user"]
        /\ SwapPoolSem' = RemoveProcQ(SwapPoolSem)
    BY <1>16 DEF Leave, Step, Goto
  <2>2. IsListOf(SwapPoolSem, UProc) /\ Holds(p)
    BY <2>1 DEF Base, Lock, Inside
  <2>3. /\ IsListOf(SwapPoolSem', UProc)
        /\ Range(SwapPoolSem') = Range(SwapPoolSem) \ {p}
    BY <2>1, <2>2, HoldsHead, RemoveProcQLemma
  <2>4. \A q \in UProc : Holds(q) => q = p
    BY <2>2, OneInside DEF Base
  <2> QED BY <2>1, <2>3, <2>4 DEF Base, TypeOK, Lock, Inside, Killing
<1>17. ASSUME NEW p \in UProc, Exit(p) PROVE Lock'
  BY <1>17 DEF Exit, Kill, Goto, Base, Lock, Inside, Killing, Holds
<1>18. ASSUME NEW p \in UProc, KillTest(p) PROVE Lock'
  BY <1>18 DEF KillTest, Goto, Base, TypeOK, Lock, Inside, Killing, Holds
<1>19. ASSUME NEW p \in UProc, KillFree(p) PROVE Lock'
  BY <1>19 DEF KillFree, Step, Goto, Base, Lock, Inside, Killing, Holds
<1>20. ASSUME NEW p \in UProc, KillEnd(p) PROVE Lock'
  <2>1. /\ pc[p] = "kill" /\ pc' = [pc EXCEPT ![p] = "dead"]
        /\ SwapPoolSem' = IF Holds(p) THEN RemoveProcQ(SwapPoolSem) ELSE SwapPoolSem
    BY <1>20 DEF KillEnd, AfterKill, Step, Goto
  <2>2. IsListOf(SwapPoolSem, UProc)
    BY DEF Base, Lock
  <2>3. CASE Holds(p)
    <3>1. /\ IsListOf(SwapPoolSem', UProc)
          /\ Range(SwapPoolSem') = Range(SwapPoolSem) \ {p}
      BY <2>1, <2>2, <2>3, HoldsHead, RemoveProcQLemma
    <3>2. \A q \in UProc : Holds(q) => q = p
      BY <2>3, OneInside DEF Base
    <3> QED BY <2>1, <3>1, <3>2 DEF Base, TypeOK, Lock, Inside, Killing
  <2>4. CASE ~Holds(p)
    <3>1. SwapPoolSem' = SwapPoolSem /\ p \notin Range(SwapPoolSem)
      BY <2>1, <2>4 DEF Base, Lock, Inside
    <3> QED BY <2>1, <3>1 DEF Base, TypeOK, Lock, Inside, Killing, Holds
  <2> QED BY <2>3, <2>4
<1> QED
  BY <1>0, <1>1, <1>2, <1>3, <1>4, <1>5, <1>6, <1>7, <1>8, <1>9, <1>10, <1>11, <1>12,
       <1>13, <1>14, <1>15, <1>16, <1>17, <1>18, <1>19, <1>20
  DEF Next, pager, RW_device, SIGKILL, Stop

\* What the local variables hold at every program point.
LEMMA PlaceStep ==
  ASSUME Base, [Next]_vars
  PROVE Place'
<1>0. CASE UNCHANGED vars
  BY <1>0 DEF vars, table, locals, Base, Place, Inside, Writes, Transfers
<1>1. ASSUME NEW x \in Page, uTLB_RefillHandler(x) PROVE Place'
  BY <1>1 DEF uTLB_RefillHandler, table, locals, Base, Place, Inside, Writes, Transfers
<1>2. ASSUME NEW x \in Page, Store(x) PROVE Place'
  BY <1>2 DEF Store, table, locals, Base, Place, Inside, Writes, Transfers
<1>3. ASSUME NEW x \in Page, Fault(x) PROVE Place'
  BY <1>3 DEF Fault, Step, Goto, table, Base, TypeOK, Place, Inside, Writes, Transfers
<1>4. ASSUME NEW p \in UProc, Enter(p) PROVE Place'
  BY <1>4 DEF Enter, Step, Goto, table, locals, Base, Place, Inside, Writes, Transfers
<1>5. ASSUME NEW p \in UProc, Pick(p) PROVE Place'
  <2>1. at' = [at EXCEPT ![p] = rimpiazzamento] /\ rimpiazzamento \in Frame
    BY <1>5, VictimInFrame DEF Pick, Base
  <2> QED
    BY <1>5, <2>1 DEF Pick, Step, Goto, table, memory, locals, data, Base, TypeOK,
                      Place, Inside, Writes, Transfers
<1>6. ASSUME NEW p \in UProc, Invalidate(p) PROVE Place'
  <2>1. at[p] \in Frame /\ want[p] \in Block
    BY <1>6, PageAssumption DEF Invalidate, Base, Place, Inside, Block, Device
  <2> QED
    BY <1>6, <2>1 DEF Invalidate, Call_RW_device, Goto, table, locals, Base,
                      TypeOK, Place, Inside, Writes, Transfers
<1>7. ASSUME NEW p \in UProc, Evict(p) PROVE Place'
  <2>1. /\ at[p] \in Frame
        /\ sw_pte[at[p]] \in Page
        /\ <<sw_asid[at[p]], sw_pte[at[p]][2]>> \in Block
    BY <1>7, PageAssumption DEF Evict, Base, TypeOK, Place, Inside, Writes, Block, Device
  <2> QED
    BY <1>7, <2>1 DEF Evict, Owner, Number, Call_RW_device, Goto, table, locals,
                      Base, TypeOK, Place, Inside, Writes, Transfers
<1>8. ASSUME NEW p \in UProc, Command(p, "write", "writing") PROVE Place'
  BY <1>8 DEF Command, Step, Goto, table, locals, Base, Place, Inside, Writes, Transfers
<1>9. ASSUME NEW p \in UProc, DeviceDone(p, "writing", "written", at[p], BACKING)
      PROVE Place'
  BY <1>9 DEF DeviceDone, Step, Goto, table, Base, Place, Inside, Writes, Transfers
<1>10. ASSUME NEW p \in UProc, Written(p) PROVE Place'
  <2>1. pc[p] = "written" /\ at[p] \in Frame /\ want[p] \in Block
    BY <1>10, PageAssumption DEF Written, Return, Base, Place, Inside, Block, Device
  <2>2. UNCHANGED <<table, want>>
    BY <1>10 DEF Written
  <2>3. CASE result[p] = "ok" /\ Call_RW_device(p, want[p], "read") /\ UNCHANGED at
    BY <2>1, <2>2, <2>3 DEF Call_RW_device, Goto, table, Base, TypeOK, Place, Inside,
       Writes, Transfers
  <2>4. CASE Kill(p) /\ UNCHANGED block
    BY <2>1, <2>2, <2>4 DEF Kill, Goto, table, Base, TypeOK, Place, Inside, Writes, Transfers
  <2> QED BY <1>10, <2>3, <2>4 DEF Written
<1>11. ASSUME NEW p \in UProc, Command(p, "read", "reading") PROVE Place'
  BY <1>11 DEF Command, Step, Goto, table, locals, Base, Place, Inside, Writes, Transfers
<1>12. ASSUME NEW p \in UProc, DeviceDone(p, "reading", "done", BACKING, at[p])
       PROVE Place'
  BY <1>12 DEF DeviceDone, Step, Goto, table, Base, Place, Inside, Writes, Transfers
<1>13. ASSUME NEW p \in UProc, Done(p) PROVE Place'
  BY <1>13 DEF Done, Return, Kill, Goto, table, Base, TypeOK, Place, Inside, Writes, Transfers
<1>14. ASSUME NEW p \in UProc, Register(p) PROVE Place'
  <2>1. at[p] \in Frame /\ want[p] \in Page /\ Process(want[p]) = p /\ Holds(p)
    BY <1>14 DEF Register, Step, Base, Lock, Place, Inside
  <2>2. \A q \in UProc : q # p => ~Inside(q)
    BY <2>1, OneInside DEF Base
  <2> QED
    BY <1>14, <2>1, <2>2 DEF Register, Step, Goto, locals, Base, TypeOK, Place,
                             Inside, Writes, Transfers
<1>15. ASSUME NEW p \in UProc, Map(p) PROVE Place'
  BY <1>15 DEF Map, Step, Goto, table, locals, Base, Place, Inside, Writes, Transfers
<1>16. ASSUME NEW p \in UProc, Leave(p) PROVE Place'
  BY <1>16 DEF Leave, Forget, Step, Goto, table, Base, TypeOK, Place, Inside, Writes, Transfers
<1>17. ASSUME NEW p \in UProc, Exit(p) PROVE Place'
  BY <1>17 DEF Exit, Kill, Goto, table, Base, Place, Inside, Writes, Transfers
<1>18. ASSUME NEW p \in UProc, KillTest(p) PROVE Place'
  <2>1. at[p] < NFrames /\ at[p] \in Frame
    BY <1>18, NFramesAssumption DEF KillTest, Base, TypeOK, Frame
  <2>2. UNCHANGED <<sw_asid, sw_pte, want, block>> /\ pc[p] = "kill"
    BY <1>18 DEF KillTest, table
  <2>3. CASE pc' = [pc EXCEPT ![p] = "free"] /\ at' = at
    BY <2>1, <2>2, <2>3 DEF Base, TypeOK, Place, Inside, Writes, Transfers
  <2>4. CASE pc' = pc /\ at' = [at EXCEPT ![p] = @ + 1]
    BY <2>2, <2>4 DEF Base, TypeOK, Place, Inside, Writes, Transfers
  <2> QED BY <1>18, <2>3, <2>4 DEF KillTest, Goto
<1>19. ASSUME NEW p \in UProc, KillFree(p) PROVE Place'
  BY <1>19 DEF KillFree, Step, Goto, Base, TypeOK, Place, Inside, Writes, Transfers
<1>20. ASSUME NEW p \in UProc, KillEnd(p) PROVE Place'
  BY <1>20 DEF KillEnd, Forget, Step, Goto, table, Base, Place, Inside, Writes, Transfers
<1> QED
  BY <1>0, <1>1, <1>2, <1>3, <1>4, <1>5, <1>6, <1>7, <1>8, <1>9, <1>10, <1>11, <1>12,
       <1>13, <1>14, <1>15, <1>16, <1>17, <1>18, <1>19, <1>20
  DEF Next, pager, RW_device, SIGKILL, Stop

\* Every step keeps the types.
LEMMA TypeStep ==
  ASSUME Base, Lock', Place', [Next]_vars
  PROVE TypeOK'
<1>q. SwapPoolSem' \in Seq(UProc)
  BY DEF Lock, IsListOf
<1>l. 0 \in 0 .. NFrames /\ Frame \subseteq 0 .. NFrames
  BY NFramesAssumption DEF Frame
<1>0. CASE UNCHANGED vars
  BY <1>0 DEF vars, table, memory, locals, data, Base, TypeOK
<1>1. ASSUME NEW x \in Page, uTLB_RefillHandler(x) PROVE TypeOK'
  <2>1. PICK y \in Page : tlb' = [tlb EXCEPT ![y] = MISS, ![x] = pte[x]]
    BY <1>1 DEF uTLB_RefillHandler
  <2>2. tlb' \in [Page -> Frame \cup {BACKING, MISS}]
    BY <2>1 DEF Base, TypeOK
  <2> QED
    BY <1>1, <1>q, <2>2 DEF uTLB_RefillHandler, table, locals, data, Base, TypeOK
<1>2. ASSUME NEW x \in Page, Store(x) PROVE TypeOK'
  BY <1>2 DEF Store, table, memory, locals, Base, TypeOK
<1>3. ASSUME NEW x \in Page, Fault(x) PROVE TypeOK'
  BY <1>3 DEF Fault, Step, Goto, table, memory, data, Base, TypeOK, Label
<1>4. ASSUME NEW p \in UProc, Enter(p) PROVE TypeOK'
  BY <1>4, <1>q DEF Enter, Step, Goto, table, memory, locals, data, Base, TypeOK, Label
<1>5. ASSUME NEW p \in UProc, Pick(p) PROVE TypeOK'
  <2>1. rimpiazzamento \in Frame
    BY VictimInFrame DEF Base
  <2>2. last' \in Frame /\ at' \in [UProc -> 0 .. NFrames] /\ pc' \in [UProc -> Label]
    BY <1>5, <1>l, <2>1 DEF Pick, Step, Goto, Base, TypeOK, Label
  <2> QED
    BY <1>5, <1>q, <2>2 DEF Pick, memory, data, Base, TypeOK
<1>6. ASSUME NEW p \in UProc, Invalidate(p) PROVE TypeOK'
  <2>1. /\ pte' \in [Page -> Frame \cup {BACKING}]
        /\ tlb' \in [Page -> Frame \cup {BACKING, MISS}]
    BY <1>6 DEF Invalidate, TLBupdate, memory, Base, TypeOK
  <2>2. want[p] \in Block
    BY <1>6, PageAssumption DEF Invalidate, Base, Place, Inside, Writes, Block, Device
  <2>3. pc' \in [UProc -> Label] /\ block' \in [UProc -> Block \cup {NULL}]
    BY <1>6, <2>2 DEF Invalidate, Call_RW_device, Goto, Base, TypeOK, Label
  <2> QED
    BY <1>6, <1>q, <2>1, <2>3 DEF Invalidate, table, data, Base, TypeOK
<1>7. ASSUME NEW p \in UProc, Evict(p) PROVE TypeOK'
  <2>1. <<sw_asid[at[p]], sw_pte[at[p]][2]>> \in Block
    BY <1>7, PageAssumption DEF Evict, Base, TypeOK, Place, Inside, Writes, Block, Device
  <2>2. pc' \in [UProc -> Label] /\ block' \in [UProc -> Block \cup {NULL}]
    BY <1>7, <2>1 DEF Evict, Owner, Number, Call_RW_device, Goto, Base, TypeOK, Label
  <2> QED
    BY <1>7, <1>q, <2>2 DEF Evict, table, memory, data, Base, TypeOK
<1>8. ASSUME NEW p \in UProc, Command(p, "write", "writing") PROVE TypeOK'
  BY <1>8 DEF Command, Step, Goto, table, memory, locals, data, Base, TypeOK, Label
<1>9. ASSUME NEW p \in UProc, DeviceDone(p, "writing", "written", at[p], BACKING)
      PROVE TypeOK'
  <2>1. at[p] \in Frame
    BY <1>9 DEF DeviceDone, Step, Base, Place, Inside
  <2> QED BY <1>9, <1>q, <2>1, DeviceDoneType DEF Base
<1>10. ASSUME NEW p \in UProc, Written(p) PROVE TypeOK'
  <2>1. want[p] \in Block
    BY <1>10, PageAssumption DEF Written, Return, Base, Place, Inside, Writes, Block, Device
  <2>2. flashSem' \in [Device -> {0, 1}] /\ result' \in [UProc -> {"ok", "error"}]
    BY <1>10 DEF Written, Return, Base, TypeOK
  <2>3. /\ pc' \in [UProc -> Label]
        /\ block' \in [UProc -> Block \cup {NULL}]
        /\ at' \in [UProc -> 0 .. NFrames]
    BY <1>10, <1>l, <2>1 DEF Written, Call_RW_device, Kill, Goto, Base, TypeOK, Label
  <2> QED
    BY <1>10, <1>q, <2>2, <2>3 DEF Written, table, memory, data, Base, TypeOK
<1>11. ASSUME NEW p \in UProc, Command(p, "read", "reading") PROVE TypeOK'
  BY <1>11 DEF Command, Step, Goto, table, memory, locals, data, Base, TypeOK, Label
<1>12. ASSUME NEW p \in UProc, DeviceDone(p, "reading", "done", BACKING, at[p])
       PROVE TypeOK'
  <2>1. at[p] \in Frame
    BY <1>12 DEF DeviceDone, Step, Base, Place, Inside
  <2> QED BY <1>12, <1>q, <2>1, DeviceDoneType DEF Base
<1>13. ASSUME NEW p \in UProc, Done(p) PROVE TypeOK'
  <2>2. flashSem' \in [Device -> {0, 1}] /\ result' \in [UProc -> {"ok", "error"}]
    BY <1>13 DEF Done, Return, Base, TypeOK
  <2>3. /\ pc' \in [UProc -> Label]
        /\ block' \in [UProc -> Block \cup {NULL}]
        /\ at' \in [UProc -> 0 .. NFrames]
    BY <1>13, <1>l DEF Done, Kill, Goto, Base, TypeOK, Label
  <2> QED
    BY <1>13, <1>q, <2>2, <2>3 DEF Done, table, memory, data, Base, TypeOK
<1>14. ASSUME NEW p \in UProc, Register(p) PROVE TypeOK'
  BY <1>14 DEF Register, Step, Goto, memory, locals, data, Base, TypeOK, Label
<1>15. ASSUME NEW p \in UProc, Map(p) PROVE TypeOK'
  <2>1. at[p] \in Frame
    BY <1>15 DEF Map, Step, Base, Place, Inside
  <2>2. /\ pte' \in [Page -> Frame \cup {BACKING}]
        /\ tlb' \in [Page -> Frame \cup {BACKING, MISS}]
        /\ pc' \in [UProc -> Label]
    BY <1>15, <2>1 DEF Map, TLBupdate, Step, Goto, Base, TypeOK, Label
  <2>3. robbed' \subseteq Page /\ spoiled' \subseteq Page
    BY <1>15 DEF Map, Step, Base, TypeOK, Place, Inside
  <2> QED
    BY <1>15, <1>q, <2>2, <2>3 DEF Map, table, locals, Base, TypeOK
<1>16. ASSUME NEW p \in UProc, Leave(p) PROVE TypeOK'
  <2>1. /\ pc' \in [UProc -> Label]
        /\ at' \in [UProc -> 0 .. NFrames]
        /\ want' \in [UProc -> Page \cup {NULL}]
        /\ block' \in [UProc -> Block \cup {NULL}]
        /\ result' \in [UProc -> {"ok", "error"}]
    BY <1>16, <1>l DEF Leave, Forget, Step, Goto, Base, TypeOK, Label
  <2> QED
    BY <1>16, <1>q, <2>1 DEF Leave, table, memory, data, Base, TypeOK
<1>17. ASSUME NEW p \in UProc, Exit(p) PROVE TypeOK'
  <2>1. pc' \in [UProc -> Label] /\ at' \in [UProc -> 0 .. NFrames]
    BY <1>17, <1>l DEF Exit, Kill, Goto, Base, TypeOK, Label
  <2> QED
    BY <1>17, <1>q, <2>1 DEF Exit, table, memory, data, Base, TypeOK
<1>18. ASSUME NEW p \in UProc, KillTest(p) PROVE TypeOK'
  <2>1. pc' \in [UProc -> Label]
    BY <1>18 DEF KillTest, Goto, Base, TypeOK, Label
  <2>3. at[p] + 1 \in 0 .. NFrames
    BY <1>18, NFramesAssumption DEF KillTest, Base, TypeOK
  <2>2. at' \in [UProc -> 0 .. NFrames]
    BY <1>18, <2>3 DEF KillTest, Base, TypeOK
  <2> QED
    BY <1>18, <1>q, <2>1, <2>2 DEF KillTest, table, memory, data, Base, TypeOK
<1>19. ASSUME NEW p \in UProc, KillFree(p) PROVE TypeOK'
  <2>1. pc' \in [UProc -> Label] /\ sw_asid' \in [Frame -> UProc \cup {NOPROC}]
    BY <1>19 DEF KillFree, Step, Goto, Base, TypeOK, Label
  <2>2. at[p] \in 0 .. NFrames - 1
    BY <1>19 DEF KillFree, Step, Base, Place, Frame
  <2>3. at' \in [UProc -> 0 .. NFrames]
    BY <1>19, <2>2, NFramesAssumption DEF KillFree, Base, TypeOK
  <2>4. Robbed(p, at[p]) \subseteq Page
    BY <2>2 DEF Robbed, Registered, Base, TypeOK, Place, Frame
  <2>5. robbed' \subseteq Page /\ spoiled' \subseteq Page
    BY <1>19, <2>4 DEF KillFree, Base, TypeOK
  <2> QED
    BY <1>19, <1>q, <2>1, <2>3, <2>5 DEF KillFree, memory, Base, TypeOK
<1>20. ASSUME NEW p \in UProc, KillEnd(p) PROVE TypeOK'
  <2>1. /\ pc' \in [UProc -> Label]
        /\ at' \in [UProc -> 0 .. NFrames]
        /\ want' \in [UProc -> Page \cup {NULL}]
        /\ block' \in [UProc -> Block \cup {NULL}]
        /\ result' \in [UProc -> {"ok", "error"}]
    BY <1>20, <1>l DEF KillEnd, Forget, Step, Goto, Base, TypeOK, Label
  <2> QED
    BY <1>20, <1>q, <2>1 DEF KillEnd, table, memory, data, Base, TypeOK
<1> QED
  BY <1>0, <1>1, <1>2, <1>3, <1>4, <1>5, <1>6, <1>7, <1>8, <1>9, <1>10, <1>11, <1>12,
       <1>13, <1>14, <1>15, <1>16, <1>17, <1>18, <1>19, <1>20
  DEF Next, pager, RW_device, SIGKILL, Stop

\* An entry is changed together with the TLB.
LEMMA TlbStep ==
  ASSUME Base, TlbCoherent, [Next]_vars
  PROVE TlbCoherent'
<1>0. CASE UNCHANGED vars
  BY <1>0 DEF vars, memory, TlbCoherent
<1>1. ASSUME NEW x \in Page, uTLB_RefillHandler(x) PROVE TlbCoherent'
  BY <1>1 DEF uTLB_RefillHandler, Base, TypeOK, TlbCoherent
<1>2. ASSUME NEW x \in Page, Store(x) PROVE TlbCoherent'
  BY <1>2 DEF Store, memory, TlbCoherent
<1>3. ASSUME NEW x \in Page, Fault(x) PROVE TlbCoherent'
  BY <1>3 DEF Fault, memory, TlbCoherent
<1>4. ASSUME NEW p \in UProc, Enter(p) PROVE TlbCoherent'
  BY <1>4 DEF Enter, memory, TlbCoherent
<1>5. ASSUME NEW p \in UProc, Pick(p) PROVE TlbCoherent'
  BY <1>5 DEF Pick, memory, TlbCoherent
<1>6. ASSUME NEW p \in UProc, Invalidate(p) PROVE TlbCoherent'
  BY <1>6 DEF Invalidate, TLBupdate, memory, TlbCoherent
<1>7. ASSUME NEW p \in UProc, Evict(p) PROVE TlbCoherent'
  BY <1>7 DEF Evict, memory, TlbCoherent
<1>8. ASSUME NEW p \in UProc, Command(p, "write", "writing") PROVE TlbCoherent'
  BY <1>8 DEF Command, memory, TlbCoherent
<1>9. ASSUME NEW p \in UProc, DeviceDone(p, "writing", "written", at[p], BACKING)
      PROVE TlbCoherent'
  BY <1>9 DEF DeviceDone, memory, TlbCoherent
<1>10. ASSUME NEW p \in UProc, Written(p) PROVE TlbCoherent'
  BY <1>10 DEF Written, memory, TlbCoherent
<1>11. ASSUME NEW p \in UProc, Command(p, "read", "reading") PROVE TlbCoherent'
  BY <1>11 DEF Command, memory, TlbCoherent
<1>12. ASSUME NEW p \in UProc, DeviceDone(p, "reading", "done", BACKING, at[p])
       PROVE TlbCoherent'
  BY <1>12 DEF DeviceDone, memory, TlbCoherent
<1>13. ASSUME NEW p \in UProc, Done(p) PROVE TlbCoherent'
  BY <1>13 DEF Done, memory, TlbCoherent
<1>14. ASSUME NEW p \in UProc, Register(p) PROVE TlbCoherent'
  BY <1>14 DEF Register, memory, TlbCoherent
<1>15. ASSUME NEW p \in UProc, Map(p) PROVE TlbCoherent'
  BY <1>15 DEF Map, TLBupdate, TlbCoherent
<1>16. ASSUME NEW p \in UProc, Leave(p) PROVE TlbCoherent'
  BY <1>16 DEF Leave, memory, TlbCoherent
<1>17. ASSUME NEW p \in UProc, Exit(p) PROVE TlbCoherent'
  BY <1>17 DEF Exit, memory, TlbCoherent
<1>18. ASSUME NEW p \in UProc, KillTest(p) PROVE TlbCoherent'
  BY <1>18 DEF KillTest, memory, TlbCoherent
<1>19. ASSUME NEW p \in UProc, KillFree(p) PROVE TlbCoherent'
  BY <1>19 DEF KillFree, memory, TlbCoherent
<1>20. ASSUME NEW p \in UProc, KillEnd(p) PROVE TlbCoherent'
  BY <1>20 DEF KillEnd, memory, TlbCoherent
<1> QED
  BY <1>0, <1>1, <1>2, <1>3, <1>4, <1>5, <1>6, <1>7, <1>8, <1>9, <1>10, <1>11, <1>12,
       <1>13, <1>14, <1>15, <1>16, <1>17, <1>18, <1>19, <1>20
  DEF Next, pager, RW_device, SIGKILL, Stop

\* A process that is done with its SIGKILL owns no frame.
LEMMA ClearedStep ==
  ASSUME Base, Cleared, [Next]_vars
  PROVE Cleared'
<1>0. CASE UNCHANGED vars
  BY <1>0 DEF vars, table, locals, Cleared, Killing
<1>1. ASSUME NEW x \in Page, uTLB_RefillHandler(x) PROVE Cleared'
  BY <1>1 DEF uTLB_RefillHandler, table, locals, Cleared, Killing
<1>2. ASSUME NEW x \in Page, Store(x) PROVE Cleared'
  BY <1>2 DEF Store, table, locals, Cleared, Killing
<1>3. ASSUME NEW x \in Page, Fault(x) PROVE Cleared'
  BY <1>3 DEF Fault, Step, Goto, table, Cleared, Killing
<1>4. ASSUME NEW p \in UProc, Enter(p) PROVE Cleared'
  BY <1>4 DEF Enter, Step, Goto, table, locals, Cleared, Killing
<1>5. ASSUME NEW p \in UProc, Pick(p) PROVE Cleared'
  BY <1>5 DEF Pick, Step, Goto, Cleared, Killing
<1>6. ASSUME NEW p \in UProc, Invalidate(p) PROVE Cleared'
  BY <1>6 DEF Invalidate, Call_RW_device, Goto, table, Base, TypeOK, Cleared, Killing
<1>7. ASSUME NEW p \in UProc, Evict(p) PROVE Cleared'
  BY <1>7 DEF Evict, Call_RW_device, Goto, table, Cleared, Killing
<1>8. ASSUME NEW p \in UProc, Command(p, "write", "writing") PROVE Cleared'
  BY <1>8 DEF Command, Step, Goto, table, locals, Cleared, Killing
<1>9. ASSUME NEW p \in UProc, DeviceDone(p, "writing", "written", at[p], BACKING)
      PROVE Cleared'
  BY <1>9 DEF DeviceDone, Step, Goto, table, Cleared, Killing
<1>10. ASSUME NEW p \in UProc, Written(p) PROVE Cleared'
  BY <1>10 DEF Written, Kill, Call_RW_device, Goto, table, Base, TypeOK, Cleared,
       Killing, Frame
<1>11. ASSUME NEW p \in UProc, Command(p, "read", "reading") PROVE Cleared'
  BY <1>11 DEF Command, Step, Goto, table, locals, Cleared, Killing
<1>12. ASSUME NEW p \in UProc, DeviceDone(p, "reading", "done", BACKING, at[p])
       PROVE Cleared'
  BY <1>12 DEF DeviceDone, Step, Goto, table, Cleared, Killing
<1>13. ASSUME NEW p \in UProc, Done(p) PROVE Cleared'
  BY <1>13 DEF Done, Kill, Goto, table, Base, TypeOK, Cleared, Killing, Frame
<1>14. ASSUME NEW p \in UProc, Register(p) PROVE Cleared'
  BY <1>14 DEF Register, Step, Goto, locals, Cleared, Killing
<1>15. ASSUME NEW p \in UProc, Map(p) PROVE Cleared'
  BY <1>15 DEF Map, Step, Goto, table, locals, Cleared, Killing
<1>16. ASSUME NEW p \in UProc, Leave(p) PROVE Cleared'
  BY <1>16 DEF Leave, Forget, Step, Goto, table, Cleared, Killing
<1>17. ASSUME NEW p \in UProc, Exit(p) PROVE Cleared'
  BY <1>17 DEF Exit, Kill, Goto, table, Base, TypeOK, Cleared, Killing, Frame
<1>18. ASSUME NEW p \in UProc, KillTest(p) PROVE Cleared'
  <2>1. /\ pc[p] = "kill" /\ at[p] \in Nat /\ UNCHANGED sw_asid
        /\ \/ pc' = [pc EXCEPT ![p] = "free"] /\ at' = at
           \/ sw_asid[at[p]] # p /\ pc' = pc /\ at' = [at EXCEPT ![p] = @ + 1]
    BY <1>18, NFramesAssumption DEF KillTest, Mine, Goto, table, Base, TypeOK
  <2>2. \A f \in Frame : f < at[p] + 1 => f < at[p] \/ f = at[p]
    BY <2>1, NFramesAssumption DEF Frame
  <2> QED BY <2>1, <2>2 DEF Base, TypeOK, Cleared, Killing
<1>19. ASSUME NEW p \in UProc, KillFree(p) PROVE Cleared'
  BY <1>19, UProcAssumption DEF KillFree, Step, Goto, Base, TypeOK, Cleared, Killing,
       Frame
<1>20. ASSUME NEW p \in UProc, KillEnd(p) PROVE Cleared'
  BY <1>20, NFramesAssumption DEF KillEnd, Forget, Step, Goto, table, Cleared, Killing,
       Frame
<1> QED
  BY <1>0, <1>1, <1>2, <1>3, <1>4, <1>5, <1>6, <1>7, <1>8, <1>9, <1>10, <1>11, <1>12,
       <1>13, <1>14, <1>15, <1>16, <1>17, <1>18, <1>19, <1>20
  DEF Next, pager, RW_device, SIGKILL, Stop

\* The mutex of a device is taken from the start of a transfer to its end.
LEMMA FlashStep ==
  ASSUME Base, FlashHeld, [Next]_vars
  PROVE FlashHeld'
<1>0. CASE UNCHANGED vars
  BY <1>0 DEF vars, locals, FlashHeld
<1>1. ASSUME NEW x \in Page, uTLB_RefillHandler(x) PROVE FlashHeld'
  BY <1>1 DEF uTLB_RefillHandler, locals, FlashHeld
<1>2. ASSUME NEW x \in Page, Store(x) PROVE FlashHeld'
  BY <1>2 DEF Store, locals, FlashHeld
<1>3. ASSUME NEW x \in Page, Fault(x) PROVE FlashHeld'
  BY <1>3 DEF Fault, Step, Goto, FlashHeld
<1>4. ASSUME NEW p \in UProc, Enter(p) PROVE FlashHeld'
  BY <1>4 DEF Enter, Step, Goto, locals, FlashHeld
<1>5. ASSUME NEW p \in UProc, Pick(p) PROVE FlashHeld'
  BY <1>5 DEF Pick, Step, Goto, FlashHeld
<1>6. ASSUME NEW p \in UProc, Invalidate(p) PROVE FlashHeld'
  <2>1. SUFFICES ASSUME NEW d \in Device, flashSem'[d] = 0
                 PROVE  \E q \in UProc :
                          /\ pc'[q] \in {"writing", "written", "reading", "done"}
                          /\ block'[q][1] = d
    BY DEF FlashHeld
  <2>2. /\ pc[p] = "invalidate"
        /\ \A q \in UProc : q # p => pc'[q] = pc[q] /\ block'[q] = block[q]
    BY <1>6 DEF Invalidate, Call_RW_device, Goto, Base, TypeOK
  <2>3. flashSem[d] = 0
    BY <1>6, <2>1 DEF Invalidate, Call_RW_device, Base, TypeOK, Place, Transfers, Block
  <2>4. PICK q \in UProc : /\ pc[q] \in {"writing", "written", "reading", "done"}
                           /\ block[q][1] = d
    BY <2>3 DEF FlashHeld
  <2> QED BY <2>2, <2>3, <2>4
<1>7. ASSUME NEW p \in UProc, Evict(p) PROVE FlashHeld'
  BY <1>7 DEF Evict, Call_RW_device, Goto, FlashHeld
<1>8. ASSUME NEW p \in UProc, Command(p, "write", "writing") PROVE FlashHeld'
  BY <1>8 DEF Command, Step, Goto, locals, Base, TypeOK, FlashHeld
<1>9. ASSUME NEW p \in UProc, DeviceDone(p, "writing", "written", at[p], BACKING)
      PROVE FlashHeld'
  BY <1>9 DEF DeviceDone, Step, Goto, FlashHeld
<1>10. ASSUME NEW p \in UProc, Written(p) PROVE FlashHeld'
  <2>1. SUFFICES ASSUME NEW d \in Device, flashSem'[d] = 0
                 PROVE  \E q \in UProc :
                          /\ pc'[q] \in {"writing", "written", "reading", "done"}
                          /\ block'[q][1] = d
    BY DEF FlashHeld
  <2>2. /\ pc[p] = "written"
        /\ \A q \in UProc : q # p => pc'[q] = pc[q] /\ block'[q] = block[q]
    BY <1>10 DEF Written, Return, Kill, Call_RW_device, Goto, Base, TypeOK
  <2>3. flashSem[d] = 0 /\ block[p][1] # d
    BY <1>10, <2>1 DEF Written, Return, Kill, Call_RW_device, Base, TypeOK, Place,
         Transfers, Block
  <2>4. PICK q \in UProc : /\ pc[q] \in {"writing", "written", "reading", "done"}
                           /\ block[q][1] = d
    BY <2>3 DEF FlashHeld
  <2> QED BY <2>2, <2>3, <2>4
<1>11. ASSUME NEW p \in UProc, Command(p, "read", "reading") PROVE FlashHeld'
  BY <1>11 DEF Command, Step, Goto, locals, Base, TypeOK, FlashHeld
<1>12. ASSUME NEW p \in UProc, DeviceDone(p, "reading", "done", BACKING, at[p])
       PROVE FlashHeld'
  BY <1>12 DEF DeviceDone, Step, Goto, FlashHeld
<1>13. ASSUME NEW p \in UProc, Done(p) PROVE FlashHeld'
  <2>1. SUFFICES ASSUME NEW d \in Device, flashSem'[d] = 0
                 PROVE  \E q \in UProc :
                          /\ pc'[q] \in {"writing", "written", "reading", "done"}
                          /\ block'[q][1] = d
    BY DEF FlashHeld
  <2>2. /\ pc[p] = "done"
        /\ \A q \in UProc : q # p => pc'[q] = pc[q] /\ block'[q] = block[q]
    BY <1>13 DEF Done, Return, Kill, Goto, Base, TypeOK
  <2>3. flashSem[d] = 0 /\ block[p][1] # d
    BY <1>13, <2>1 DEF Done, Return, Kill, Base, TypeOK, Place, Transfers, Block
  <2>4. PICK q \in UProc : /\ pc[q] \in {"writing", "written", "reading", "done"}
                           /\ block[q][1] = d
    BY <2>3 DEF FlashHeld
  <2> QED BY <2>2, <2>3, <2>4
<1>14. ASSUME NEW p \in UProc, Register(p) PROVE FlashHeld'
  BY <1>14 DEF Register, Step, Goto, locals, FlashHeld
<1>15. ASSUME NEW p \in UProc, Map(p) PROVE FlashHeld'
  BY <1>15 DEF Map, Step, Goto, locals, FlashHeld
<1>16. ASSUME NEW p \in UProc, Leave(p) PROVE FlashHeld'
  BY <1>16 DEF Leave, Forget, Step, Goto, FlashHeld
<1>17. ASSUME NEW p \in UProc, Exit(p) PROVE FlashHeld'
  BY <1>17 DEF Exit, Kill, Goto, FlashHeld
<1>18. ASSUME NEW p \in UProc, KillTest(p) PROVE FlashHeld'
  BY <1>18 DEF KillTest, Goto, Base, TypeOK, FlashHeld
<1>19. ASSUME NEW p \in UProc, KillFree(p) PROVE FlashHeld'
  BY <1>19 DEF KillFree, Step, Goto, FlashHeld
<1>20. ASSUME NEW p \in UProc, KillEnd(p) PROVE FlashHeld'
  BY <1>20 DEF KillEnd, Forget, Step, Goto, FlashHeld
<1> QED
  BY <1>0, <1>1, <1>2, <1>3, <1>4, <1>5, <1>6, <1>7, <1>8, <1>9, <1>10, <1>11, <1>12,
       <1>13, <1>14, <1>15, <1>16, <1>17, <1>18, <1>19, <1>20
  DEF Next, pager, RW_device, SIGKILL, Stop

\* At the start no frame is used and nobody is in the pager.
LEMMA InitBase == Init => Base /\ TlbCoherent /\ FlashHeld /\ Cleared
<1> SUFFICES ASSUME Init PROVE Base /\ TlbCoherent /\ FlashHeld /\ Cleared
  OBVIOUS
<1>1. TypeOK
  <2>1. 0 \in Frame /\ 0 \in 0 .. NFrames
    BY NFramesAssumption DEF Frame
  <2>2. <<>> \in Seq(UProc)
    OBVIOUS
  <2> QED BY <2>1, <2>2 DEF Init, TypeOK, Label
<1>2. Lock
  BY EmptyList DEF Init, Lock, Inside
<1>3. Place
  BY DEF Init, Place, Inside, Writes, Transfers
<1>4. TlbCoherent
  BY DEF Init, TlbCoherent
<1>5. FlashHeld
  BY DEF Init, FlashHeld
<1>6. Cleared
  BY DEF Init, Cleared, Killing
<1> QED BY <1>1, <1>2, <1>3, <1>4, <1>5, <1>6 DEF Base

\* The three parts of Base are inductive together.
LEMMA BaseStep ==
  ASSUME Base, [Next]_vars
  PROVE Base'
<1>1. Lock' /\ Place'
  BY LockStep, PlaceStep
<1> QED BY <1>1, TypeStep DEF Base

\* Base holds in every reachable state.
LEMMA BaseInvariant == Spec => []Base
<1>1. Init => Base
  BY InitBase
<1>2. Base /\ [Next]_vars => Base'
  BY BaseStep
<1> QED BY <1>1, <1>2, PTL DEF Spec

----------------------------------------------------------------------------
\* Every variable of the pager has its type: no frame number is out of the swap
\* pool, whatever rimpiazzamento and SIGKILL do.
THEOREM PagingTypeCorrect == Spec => []TypeOK
<1>1. Base => TypeOK
  BY DEF Base
<1> QED BY <1>1, BaseInvariant, PTL

\* The TLB agrees with the page tables in every state, whenever processes end:
\* pager() clears it in the masked section in which it changes an entry.
THEOREM TlbCorrect == Spec => []TlbCoherent
<1>1. Init => TlbCoherent
  BY InitBase
<1>2. Base /\ TlbCoherent /\ [Next]_vars => TlbCoherent'
  BY TlbStep
<1> QED BY <1>1, <1>2, BaseInvariant, PTL DEF Spec

\* The P of RW_device on the mutex of a flash device never blocks, whenever
\* processes end.
THEOREM FlashFree == Spec => []FlashNeverContended
<1>1. Init => FlashHeld
  BY InitBase
<1>2. Base /\ FlashHeld /\ [Next]_vars => FlashHeld'
  BY FlashStep
<1>3. Base /\ FlashHeld => FlashNeverContended
  <2> SUFFICES ASSUME Base, FlashHeld, NEW p \in UProc, pc[p] \in {"write", "read"},
                      flashSem[block[p][1]] # 1
               PROVE  FALSE
    BY DEF FlashNeverContended
  <2>1. block[p][1] \in Device /\ Holds(p)
    BY DEF Base, Place, Lock, Transfers, Inside, Block
  <2>2. flashSem[block[p][1]] = 0
    BY <2>1 DEF Base, TypeOK
  <2>3. PICK q \in UProc : pc[q] \in {"writing", "written", "reading", "done"}
    BY <2>1, <2>2 DEF FlashHeld
  <2>4. p = q
    BY <2>1, <2>3, OneInside DEF Inside, Base
  <2> QED BY <2>3, <2>4
<1> QED BY <1>1, <1>2, <1>3, BaseInvariant, PTL DEF Spec

\* A process that has ended owns no frame and no mutex, whenever it ended and
\* whatever the pagers of others did meanwhile: the mutex of a flash device is
\* taken only while somebody is in RW_device for it.
THEOREM DeathIsClean == Spec => []NothingLeaked
<1>1. Init => Cleared /\ FlashHeld
  BY InitBase
<1>2. Base /\ Cleared /\ FlashHeld /\ [Next]_vars => (Cleared /\ FlashHeld)'
  BY ClearedStep, FlashStep
<1>3. Base /\ Cleared /\ FlashHeld => NothingLeaked
  BY DEF Base, Lock, Cleared, FlashHeld, NothingLeaked, Inside, Killing
<1> QED BY <1>1, <1>2, <1>3, BaseInvariant, PTL DEF Spec

----------------------------------------------------------------------------
\* Nobody needs page x where it is: its process is ending, or was robbed of it.
Gone(x) == ~Alive(Process(x)) \/ x \in robbed

\* What the local variables of p say of the swap pool table: another SIGKILL may
\* have changed the table since p has read it.
Knows(p) ==
  /\ pc[p] = "owner" => sw_asid[at[p]] # NOPROC \/ Gone(sw_pte[at[p]])
  /\ pc[p] \in {"write", "writing"} =>
       \/ block[p] = sw_pte[at[p]]
       \/ block[p][1] = NOPROC /\ Gone(sw_pte[at[p]])
  /\ pc[p] \in {"read", "reading", "done"} => block[p] = want[p]
  /\ pc[p] = "map" => sw_asid[at[p]] = p \/ want[p] \in robbed

Owned ==
  /\ \A f \in Frame : sw_asid[f] # NOPROC => Process(sw_pte[f]) = sw_asid[f]
  /\ \A p \in UProc : Knows(p)

\* No page that somebody needs is in the frame that a pager is emptying or filling.
MovingApart ==
  \A p \in UProc : Moving(p) => \A x \in Page : pte[x] = at[p] => Gone(x)

Pool == Base /\ Owned /\ FramesRegistered /\ MovingApart

\* p is alone between P(SwapPoolSem) and V(SwapPoolSem).
Alone(p) == Inside(p) /\ \A q \in UProc : q # p => ~Inside(q)

\* A step of p leaves what the others know as it is.
OthersSame(p) ==
  \A q \in UProc : q # p =>
    /\ pc'[q] = pc[q] /\ at'[q] = at[q] /\ want'[q] = want[q]
    /\ block'[q] = block[q] /\ result'[q] = result[q]

\* What a step does to q that is of no account to the pages: q asks for a command,
\* or neither was in a transfer nor is now.
Quiet(q) ==
  /\ result'[q] = result[q] \/ result'[q] = "ok"
  /\ \/ /\ at'[q] = at[q] /\ want'[q] = want[q] /\ block'[q] = block[q]
        /\ \/ pc'[q] = pc[q]
           \/ pc[q] = "write" /\ pc'[q] = "writing"
           \/ pc[q] = "read" /\ pc'[q] = "reading"
     \/ /\ ~Moving(q) /\ ~Moving(q)'
        /\ pc'[q] \in {"enter", "pick", "invalidate"} =>
             pc[q] \in {"enter", "pick", "invalidate"} /\ want'[q] = want[q]

\* A step that is quiet for everybody and moves no page.
Still ==
  /\ UNCHANGED <<sw_asid, sw_pte, pte, robbed, spoiled>>
  /\ \A q \in UProc : Quiet(q)

\* A page is a process and a number.
LEMMA PageFacts ==
  \A x \in Page : Process(x) \in UProc /\ x = <<Process(x), Number(x)>>
BY PageAssumption DEF Process, Number

\* The backing store is no frame.
LEMMA BackingFacts == BACKING \notin Frame
BY DEF BACKING, Frame

\* Who is in the critical section is there alone.
LEMMA AloneInside ==
  ASSUME Lock, NEW p \in UProc, Inside(p)
  PROVE  Alone(p)
BY OneInside DEF Lock, Alone

\* Nobody comes back to life.
LEMMA AliveBefore ==
  ASSUME Base, [Next]_vars, NEW q \in UProc, Alive(q)'
  PROVE  Alive(q)
<1>0. CASE UNCHANGED vars
  BY <1>0 DEF vars, Alive, Killing
<1>1. ASSUME NEW x \in Page, uTLB_RefillHandler(x) PROVE Alive(q)
  BY <1>1 DEF uTLB_RefillHandler, Alive, Killing
<1>2. ASSUME NEW x \in Page, Store(x) PROVE Alive(q)
  BY <1>2 DEF Store, Alive, Killing
<1>3. ASSUME NEW x \in Page, Fault(x) PROVE Alive(q)
  BY <1>3 DEF Fault, Step, Goto, Alive, Killing
<1>4. ASSUME NEW p \in UProc, Enter(p) PROVE Alive(q)
  BY <1>4 DEF Enter, Step, Goto, Alive, Killing
<1>5. ASSUME NEW p \in UProc, Pick(p) PROVE Alive(q)
  BY <1>5 DEF Pick, Step, Goto, Alive, Killing
<1>6. ASSUME NEW p \in UProc, Invalidate(p) PROVE Alive(q)
  BY <1>6 DEF Invalidate, Call_RW_device, Goto, Base, TypeOK, Alive, Killing
<1>7. ASSUME NEW p \in UProc, Evict(p) PROVE Alive(q)
  BY <1>7 DEF Evict, Call_RW_device, Goto, Alive, Killing
<1>8. ASSUME NEW p \in UProc, Command(p, "write", "writing") PROVE Alive(q)
  BY <1>8 DEF Command, Step, Goto, Alive, Killing
<1>9. ASSUME NEW p \in UProc, DeviceDone(p, "writing", "written", at[p], BACKING)
      PROVE Alive(q)
  BY <1>9 DEF DeviceDone, Step, Goto, Alive, Killing
<1>10. ASSUME NEW p \in UProc, Written(p) PROVE Alive(q)
  BY <1>10 DEF Written, Return, Kill, Call_RW_device, Goto, Base, TypeOK, Alive, Killing
<1>11. ASSUME NEW p \in UProc, Command(p, "read", "reading") PROVE Alive(q)
  BY <1>11 DEF Command, Step, Goto, Alive, Killing
<1>12. ASSUME NEW p \in UProc, DeviceDone(p, "reading", "done", BACKING, at[p])
       PROVE Alive(q)
  BY <1>12 DEF DeviceDone, Step, Goto, Alive, Killing
<1>13. ASSUME NEW p \in UProc, Done(p) PROVE Alive(q)
  BY <1>13 DEF Done, Return, Kill, Goto, Base, TypeOK, Alive, Killing
<1>14. ASSUME NEW p \in UProc, Register(p) PROVE Alive(q)
  BY <1>14 DEF Register, Step, Goto, Alive, Killing
<1>15. ASSUME NEW p \in UProc, Map(p) PROVE Alive(q)
  BY <1>15 DEF Map, Step, Goto, Alive, Killing
<1>16. ASSUME NEW p \in UProc, Leave(p) PROVE Alive(q)
  BY <1>16 DEF Leave, Step, Goto, Alive, Killing
<1>17. ASSUME NEW p \in UProc, Exit(p) PROVE Alive(q)
  BY <1>17 DEF Exit, Kill, Goto, Alive, Killing
<1>18. ASSUME NEW p \in UProc, KillTest(p) PROVE Alive(q)
  BY <1>18 DEF KillTest, Goto, Base, TypeOK, Alive, Killing
<1>19. ASSUME NEW p \in UProc, KillFree(p) PROVE Alive(q)
  BY <1>19 DEF KillFree, Step, Goto, Alive, Killing
<1>20. ASSUME NEW p \in UProc, KillEnd(p) PROVE Alive(q)
  BY <1>20 DEF KillEnd, Step, Goto, Alive, Killing
<1> QED
  BY <1>0, <1>1, <1>2, <1>3, <1>4, <1>5, <1>6, <1>7, <1>8, <1>9, <1>10, <1>11, <1>12,
       <1>13, <1>14, <1>15, <1>16, <1>17, <1>18, <1>19, <1>20
  DEF Next, pager, RW_device, SIGKILL, Stop

\* Robbed and spoiled pages stay so.
LEMMA HistoryGrows ==
  ASSUME [Next]_vars
  PROVE  robbed \subseteq robbed' /\ spoiled \subseteq spoiled'
BY DEF Next, vars, data, uTLB_RefillHandler, Store, Fault, pager, Enter, Pick, Invalidate,
   Evict, RW_device, Command, DeviceDone, Written, Done, Register, Map, Leave, Exit,
   SIGKILL, KillTest, KillFree, KillEnd, Stop

\* Who needs a page no more does not need it again.
LEMMA GoneStays ==
  ASSUME Base, [Next]_vars, NEW x \in Page, Gone(x)
  PROVE  Gone(x)'
BY AliveBefore, HistoryGrows, PageFacts DEF Gone

\* The steps that do not change where the pages are.
LEMMA StillSteps ==
  ASSUME Base, [Next]_vars
  PROVE  \/ Still /\ UNCHANGED fresh
         \/ \E x \in Page : (Store(x) /\ Still) \/ Fault(x)
         \/ \E p \in UProc :
              \/ Invalidate(p) \/ Evict(p)
              \/ DeviceDone(p, "writing", "written", at[p], BACKING) \/ Written(p)
              \/ DeviceDone(p, "reading", "done", BACKING, at[p]) \/ Done(p)
              \/ Register(p) \/ Map(p) \/ KillFree(p)
<1> DEFINE Goal == Still /\ UNCHANGED fresh
<1>0. CASE UNCHANGED vars
  BY <1>0 DEF vars, table, memory, locals, data, Still, Quiet
<1>1. ASSUME NEW x \in Page, uTLB_RefillHandler(x) PROVE Goal
  BY <1>1 DEF uTLB_RefillHandler, table, locals, data, Still, Quiet
<1>2. ASSUME NEW x \in Page, Store(x) PROVE Still
  BY <1>2 DEF Store, table, memory, locals, Still, Quiet
<1>4. ASSUME NEW p \in UProc, Enter(p) PROVE Goal
  BY <1>4 DEF Enter, Step, Goto, table, memory, locals, data, Base, TypeOK, Still, Quiet,
       Moving
<1>5. ASSUME NEW p \in UProc, Pick(p) PROVE Goal
  <2>1. /\ UNCHANGED <<sw_asid, sw_pte, pte, want, block, result, robbed, spoiled, fresh>>
        /\ pc[p] = "pick" /\ pc' = [pc EXCEPT ![p] = "invalidate"]
        /\ \A q \in UProc : q # p => at'[q] = at[q]
    BY <1>5 DEF Pick, Step, Goto, memory, data, Base, TypeOK
  <2> QED BY <2>1 DEF Base, TypeOK, Still, Quiet, Moving
<1>8. ASSUME NEW p \in UProc, Command(p, "write", "writing") PROVE Goal
  BY <1>8 DEF Command, Step, Goto, table, memory, locals, data, Base, TypeOK, Still, Quiet
<1>11. ASSUME NEW p \in UProc, Command(p, "read", "reading") PROVE Goal
  BY <1>11 DEF Command, Step, Goto, table, memory, locals, data, Base, TypeOK, Still,
       Quiet
<1>16. ASSUME NEW p \in UProc, Leave(p) PROVE Goal
  BY <1>16 DEF Leave, Forget, Step, Goto, table, memory, data, Base, TypeOK, Still, Quiet,
       Moving
<1>17. ASSUME NEW p \in UProc, Exit(p) PROVE Goal
  BY <1>17 DEF Exit, Kill, Goto, table, memory, data, Base, TypeOK, Still, Quiet, Moving
<1>18. ASSUME NEW p \in UProc, KillTest(p) PROVE Goal
  BY <1>18 DEF KillTest, Goto, table, memory, data, Base, TypeOK, Still, Quiet, Moving
<1>20. ASSUME NEW p \in UProc, KillEnd(p) PROVE Goal
  BY <1>20 DEF KillEnd, Forget, Step, Goto, table, memory, data, Base, TypeOK, Still,
       Quiet, Moving
<1> QED
  BY <1>0, <1>1, <1>2, <1>4, <1>5, <1>8, <1>11, <1>16, <1>17, <1>18, <1>20
  DEF Next, pager, RW_device, SIGKILL, Stop

\* What the other steps do, one by one.
LEMMA FaultEffect ==
  ASSUME Base, NEW x \in Page, Fault(x)
  PROVE  \E p \in UProc :
           /\ p = Process(x) /\ OthersSame(p) /\ pc[p] = "user" /\ pc'[p] = "enter"
           /\ tlb[x] = BACKING /\ want'[p] = x /\ result'[p] = result[p]
           /\ UNCHANGED <<sw_asid, sw_pte, pte, fresh, robbed, spoiled>>
BY PageFacts DEF Fault, Step, Goto, table, memory, data, Base, TypeOK, OthersSame

\* The victim's page leaves its frame.
LEMMA InvalidateEffect ==
  ASSUME Base, NEW p \in UProc, Invalidate(p)
  PROVE  /\ Alone(p) /\ OthersSame(p) /\ pc[p] = "invalidate" /\ at[p] \in Frame
         /\ UNCHANGED <<sw_asid, sw_pte, at, want, result, fresh, robbed, spoiled>>
         /\ \/ /\ sw_asid[at[p]] # NOPROC /\ pc'[p] = "owner" /\ sw_pte[at[p]] \in Page
               /\ pte'[sw_pte[at[p]]] = BACKING
               /\ \A x \in Page : x # sw_pte[at[p]] => pte'[x] = pte[x]
            \/ /\ sw_asid[at[p]] = NOPROC /\ pc'[p] = "read"
               /\ block'[p] = want[p] /\ pte' = pte
<1>1. Inside(p) /\ pc[p] = "invalidate"
  BY DEF Invalidate, Inside
<1>2. Alone(p) /\ at[p] \in Frame
  BY <1>1, AloneInside DEF Base, Place
<1>3. OthersSame(p)
  BY DEF Invalidate, Call_RW_device, Goto, OthersSame, Base, TypeOK
<1>4. UNCHANGED <<sw_asid, sw_pte, at, want, result, fresh, robbed, spoiled>>
  BY DEF Invalidate, table, data
<1>5. sw_asid[at[p]] # NOPROC => sw_pte[at[p]] \in Page
  BY <1>2 DEF Base, Place
<1> QED
  BY <1>1, <1>2, <1>3, <1>4, <1>5
  DEF Invalidate, Call_RW_device, Goto, memory, Base, TypeOK

\* The pager reads the owner of the frame.
LEMMA EvictEffect ==
  ASSUME Base, NEW p \in UProc, Evict(p)
  PROVE  /\ Alone(p) /\ OthersSame(p) /\ pc[p] = "owner" /\ at[p] \in Frame
         /\ UNCHANGED <<sw_asid, sw_pte, pte, at, want, result, fresh, robbed, spoiled>>
         /\ sw_pte[at[p]] \in Page /\ pc'[p] = "write"
         /\ block'[p] = <<sw_asid[at[p]], Number(sw_pte[at[p]])>>
<1>1. Inside(p) /\ pc[p] = "owner"
  BY DEF Evict, Inside
<1>2. Alone(p) /\ at[p] \in Frame /\ sw_pte[at[p]] \in Page
  BY <1>1, AloneInside DEF Base, Place, Writes
<1> QED
  BY <1>1, <1>2 DEF Evict, Owner, Call_RW_device, Goto, table, memory, data, OthersSame,
       Base, TypeOK

\* The evicted page comes to its backing store.
LEMMA WriteEffect ==
  ASSUME Base, Owned, NEW p \in UProc,
         DeviceDone(p, "writing", "written", at[p], BACKING)
  PROVE  /\ Alone(p) /\ OthersSame(p) /\ pc[p] = "writing" /\ at[p] \in Frame
         /\ UNCHANGED <<sw_asid, sw_pte, pte, at, want, block, robbed>>
         /\ block[p] = sw_pte[at[p]] /\ block[p] \in Page /\ pc'[p] = "written"
         /\ \/ /\ Copied(block[p], at[p], BACKING)
               /\ result'[p] = "ok" /\ UNCHANGED spoiled
            \/ /\ spoiled' = spoiled \cup {block[p]} \cup Registered(at[p])
               /\ UNCHANGED fresh
<1>1. Inside(p) /\ pc[p] = "writing" /\ block[p] \in Page
  BY DEF DeviceDone, Step, Inside
<1>2. Alone(p) /\ at[p] \in Frame
  BY <1>1, AloneInside DEF Base, Place
<1>3. block[p][1] # NOPROC
  BY <1>1, PageFacts, UProcAssumption DEF Process
<1>4. block[p] = sw_pte[at[p]]
  BY <1>1, <1>3 DEF Owned, Knows
<1>5. OthersSame(p) /\ pc'[p] = "written"
  BY DEF DeviceDone, Step, Goto, OthersSame, Base, TypeOK
<1>6. UNCHANGED <<sw_asid, sw_pte, pte, at, want, block, robbed>>
  BY DEF DeviceDone, table, memory
<1>7. \/ /\ Copied(block[p], at[p], BACKING)
         /\ result'[p] = "ok" /\ UNCHANGED spoiled
      \/ /\ spoiled' = spoiled \cup {block[p]} \cup Registered(at[p])
         /\ UNCHANGED fresh
  BY DEF DeviceDone, Base, TypeOK
<1> QED BY <1>1, <1>2, <1>4, <1>5, <1>6, <1>7

\* The page comes to its frame.
LEMMA ReadEffect ==
  ASSUME Base, Owned, NEW p \in UProc,
         DeviceDone(p, "reading", "done", BACKING, at[p])
  PROVE  /\ Alone(p) /\ OthersSame(p) /\ pc[p] = "reading" /\ at[p] \in Frame
         /\ UNCHANGED <<sw_asid, sw_pte, pte, at, want, block, robbed>>
         /\ block[p] = want[p] /\ want[p] \in Page /\ Process(want[p]) = p
         /\ pc'[p] = "done"
         /\ \/ /\ Copied(want[p], BACKING, at[p])
               /\ result'[p] = "ok" /\ UNCHANGED spoiled
            \/ /\ spoiled' = spoiled \cup {want[p]} \cup Registered(at[p])
               /\ UNCHANGED fresh
<1>1. Inside(p) /\ pc[p] = "reading"
  BY DEF DeviceDone, Step, Inside
<1>2. Alone(p) /\ at[p] \in Frame /\ want[p] \in Page /\ Process(want[p]) = p
  BY <1>1, AloneInside DEF Base, Place
<1>3. block[p] = want[p]
  BY <1>1 DEF Owned, Knows
<1>4. OthersSame(p) /\ pc'[p] = "done"
  BY DEF DeviceDone, Step, Goto, OthersSame, Base, TypeOK
<1>5. UNCHANGED <<sw_asid, sw_pte, pte, at, want, block, robbed>>
  BY DEF DeviceDone, table, memory
<1>6. \/ /\ Copied(want[p], BACKING, at[p])
         /\ result'[p] = "ok" /\ UNCHANGED spoiled
      \/ /\ spoiled' = spoiled \cup {want[p]} \cup Registered(at[p])
         /\ UNCHANGED fresh
  BY <1>3 DEF DeviceDone, Base, TypeOK
<1> QED BY <1>1, <1>2, <1>3, <1>4, <1>5, <1>6

\* After the write: go on, or end.
LEMMA WrittenEffect ==
  ASSUME Base, NEW p \in UProc, Written(p)
  PROVE  /\ Alone(p) /\ OthersSame(p) /\ pc[p] = "written" /\ at[p] \in Frame
         /\ UNCHANGED <<sw_asid, sw_pte, pte, want, fresh, robbed, spoiled>>
         /\ result'[p] = "ok"
         /\ \/ pc'[p] = "read" /\ block'[p] = want[p] /\ at'[p] = at[p]
            \/ pc'[p] = "kill" /\ result[p] = "error"
<1>1. Inside(p) /\ pc[p] = "written"
  BY DEF Written, Return, Inside
<1>2. Alone(p) /\ at[p] \in Frame
  BY <1>1, AloneInside DEF Base, Place
<1>3. OthersSame(p)
  BY DEF Written, Return, Kill, Call_RW_device, Goto, OthersSame, Base, TypeOK
<1>4. UNCHANGED <<sw_asid, sw_pte, pte, want, fresh, robbed, spoiled>> /\ result'[p] = "ok"
  BY DEF Written, Return, table, memory, data, Base, TypeOK
<1>5. \/ pc'[p] = "read" /\ block'[p] = want[p] /\ at'[p] = at[p]
      \/ pc'[p] = "kill" /\ result[p] = "error"
  BY DEF Written, Kill, Call_RW_device, Goto, Base, TypeOK
<1> QED BY <1>1, <1>2, <1>3, <1>4, <1>5

\* After the read: go on, or end.
LEMMA DoneEffect ==
  ASSUME Base, NEW p \in UProc, Done(p)
  PROVE  /\ Alone(p) /\ OthersSame(p) /\ pc[p] = "done" /\ at[p] \in Frame
         /\ UNCHANGED <<sw_asid, sw_pte, pte, want, fresh, robbed, spoiled>>
         /\ result'[p] = "ok"
         /\ \/ pc'[p] = "register" /\ at'[p] = at[p]
            \/ pc'[p] = "kill" /\ result[p] = "error"
<1>1. Inside(p) /\ pc[p] = "done"
  BY DEF Done, Return, Inside
<1>2. Alone(p) /\ at[p] \in Frame
  BY <1>1, AloneInside DEF Base, Place
<1>3. OthersSame(p)
  BY DEF Done, Return, Kill, Goto, OthersSame, Base, TypeOK
<1>4. UNCHANGED <<sw_asid, sw_pte, pte, want, fresh, robbed, spoiled>> /\ result'[p] = "ok"
  BY DEF Done, Return, table, memory, data, Base, TypeOK
<1>5. \/ pc'[p] = "register" /\ at'[p] = at[p]
      \/ pc'[p] = "kill" /\ result[p] = "error"
  BY DEF Done, Kill, Goto, Base, TypeOK
<1> QED BY <1>1, <1>2, <1>3, <1>4, <1>5

\* The table gets the page.
LEMMA RegisterEffect ==
  ASSUME Base, NEW p \in UProc, Register(p)
  PROVE  /\ Alone(p) /\ OthersSame(p) /\ pc[p] = "register" /\ at[p] \in Frame
         /\ UNCHANGED <<pte, at, want, result, fresh, robbed, spoiled>>
         /\ pc'[p] = "map" /\ want[p] \in Page /\ Process(want[p]) = p
         /\ sw_asid'[at[p]] = p /\ sw_pte'[at[p]] = want[p]
         /\ \A f \in Frame : f # at[p] => sw_asid'[f] = sw_asid[f] /\ sw_pte'[f] = sw_pte[f]
<1>1. Inside(p) /\ pc[p] = "register"
  BY DEF Register, Step, Inside
<1>2. Alone(p) /\ at[p] \in Frame /\ want[p] \in Page /\ Process(want[p]) = p
  BY <1>1, AloneInside DEF Base, Place
<1> QED
  BY <1>1, <1>2 DEF Register, Step, Goto, memory, locals, data, OthersSame, Base, TypeOK

\* The page table gets the frame.
LEMMA MapEffect ==
  ASSUME Base, NEW p \in UProc, Map(p)
  PROVE  /\ Alone(p) /\ OthersSame(p) /\ pc[p] = "map" /\ at[p] \in Frame
         /\ UNCHANGED <<sw_asid, sw_pte, at, want, result, fresh, robbed>>
         /\ pc'[p] = "leave" /\ want[p] \in Page /\ Process(want[p]) = p
         /\ sw_pte[at[p]] = want[p]
         /\ pte'[want[p]] = at[p]
         /\ \A x \in Page : x # want[p] => pte'[x] = pte[x]
         /\ \/ want[p] \in spoiled'
            \/ \A y \in robbed : pte[y] # at[p]
<1>1. Inside(p) /\ pc[p] = "map"
  BY DEF Map, Step, Inside
<1>2. /\ Alone(p) /\ at[p] \in Frame /\ want[p] \in Page /\ Process(want[p]) = p
      /\ sw_pte[at[p]] = want[p]
  BY <1>1, AloneInside DEF Base, Place
<1>3. pc'[p] = "leave" /\ OthersSame(p)
  BY DEF Map, Step, Goto, locals, OthersSame, Base, TypeOK
<1>4. UNCHANGED <<sw_asid, sw_pte, at, want, result, fresh, robbed>>
  BY DEF Map, table, locals
<1>5. pte'[want[p]] = at[p] /\ \A x \in Page : x # want[p] => pte'[x] = pte[x]
  BY <1>2 DEF Map, Base, TypeOK
<1>6. want[p] \in spoiled' \/ \A y \in robbed : pte[y] # at[p]
  BY DEF Map
<1> QED BY <1>1, <1>2, <1>3, <1>4, <1>5, <1>6

\* Only here may a frame be taken from another process, whose page then counts as
\* robbed.
LEMMA KillFreeEffect ==
  ASSUME Base, NEW p \in UProc, KillFree(p)
  PROVE  /\ OthersSame(p) /\ pc[p] = "free" /\ at[p] \in Frame
         /\ UNCHANGED <<sw_pte, pte, want, block, result, fresh>>
         /\ pc'[p] = "kill" /\ ~Alive(p) /\ ~Moving(p) /\ ~Moving(p)'
         /\ sw_asid'[at[p]] = NOPROC
         /\ \A f \in Frame : f # at[p] => sw_asid'[f] = sw_asid[f]
         /\ robbed' = robbed \cup Robbed(p, at[p])
         /\ spoiled' = spoiled \cup Robbed(p, at[p])
         /\ \/ sw_asid[at[p]] \in {p, NOPROC} /\ Robbed(p, at[p]) = {}
            \/ /\ sw_asid[at[p]] \notin {p, NOPROC}
               /\ Robbed(p, at[p]) = {sw_pte[at[p]]} /\ sw_pte[at[p]] \in Page
<1>1. pc[p] = "free" /\ at[p] \in Frame /\ pc' = [pc EXCEPT ![p] = "kill"]
  BY DEF KillFree, Step, Goto, Base, Place
<1>2. pc'[p] = "kill" /\ ~Alive(p) /\ ~Moving(p) /\ ~Moving(p)'
  BY <1>1 DEF Alive, Killing, Moving, Base, TypeOK
<1>3. /\ UNCHANGED <<sw_pte, pte, want, block, result, fresh>>
      /\ sw_asid' = [sw_asid EXCEPT ![at[p]] = NOPROC]
      /\ at' = [at EXCEPT ![p] = @ + 1]
      /\ robbed' = robbed \cup Robbed(p, at[p])
      /\ spoiled' = spoiled \cup Robbed(p, at[p])
  BY DEF KillFree, memory
<1>4. OthersSame(p)
  BY <1>1, <1>3 DEF OthersSame, Base, TypeOK
<1>5. \/ sw_asid[at[p]] \in {p, NOPROC} /\ Robbed(p, at[p]) = {}
      \/ /\ sw_asid[at[p]] \notin {p, NOPROC}
         /\ Robbed(p, at[p]) = {sw_pte[at[p]]} /\ sw_pte[at[p]] \in Page
  BY <1>1 DEF Robbed, Registered, Base, Place
<1>6. /\ sw_asid'[at[p]] = NOPROC
      /\ \A f \in Frame : f # at[p] => sw_asid'[f] = sw_asid[f]
  BY <1>1, <1>3 DEF Base, TypeOK
<1> QED BY <1>1, <1>2, <1>3, <1>4, <1>5, <1>6

\* What q knows stays true when neither q nor the table changes.
LEMMA KnowsQuiet ==
  ASSUME Base, Owned, [Next]_vars, UNCHANGED <<sw_asid, sw_pte>>,
         NEW q \in UProc, Quiet(q)
  PROVE  Knows(q)'
<1>1. CASE /\ at'[q] = at[q] /\ want'[q] = want[q] /\ block'[q] = block[q]
           /\ \/ pc'[q] = pc[q]
              \/ pc[q] = "write" /\ pc'[q] = "writing"
              \/ pc[q] = "read" /\ pc'[q] = "reading"
  <2>1. CASE Writes(q)
    <3>1. sw_pte[at[q]] \in Page
      BY <2>1 DEF Base, Place
    <3>2. PICK x \in Page : x = sw_pte[at[q]]
      BY <3>1
    <3>3. Gone(x) => Gone(x)'
      BY GoneStays
    <3>4. Gone(sw_pte[at[q]]) => Gone(sw_pte[at[q]])'
      BY <1>1, <3>2, <3>3 DEF Gone, Alive, Killing, Process
    <3> QED BY <1>1, <2>1, <3>4 DEF Owned, Knows, Writes
  <2>2. CASE ~Writes(q)
    BY <1>1, <2>2, HistoryGrows DEF Owned, Knows, Writes
  <2> QED BY <2>1, <2>2
<1>2. CASE ~Moving(q)'
  BY <1>2 DEF Knows, Moving
<1> QED BY <1>1, <1>2 DEF Quiet

\* A process that a step does not touch is quiet in it.
LEMMA OthersQuiet ==
  ASSUME NEW p \in UProc, OthersSame(p), NEW q \in UProc, q # p
  PROVE  Quiet(q)
BY DEF OthersSame, Quiet

\* What the pager has read from the table is what the table says, or nobody needs
\* the page any more.
LEMMA OwnedStep ==
  ASSUME Base, Owned, [Next]_vars
  PROVE Owned'
<1>0. ASSUME UNCHANGED <<sw_asid, sw_pte>>, \A q \in UProc : Knows(q)' PROVE Owned'
  BY <1>0 DEF Owned
<1>s. ASSUME NEW p \in UProc, OthersSame(p), UNCHANGED <<sw_asid, sw_pte>>, Knows(p)'
      PROVE  Owned'
  BY <1>s, <1>0, OthersQuiet, KnowsQuiet
<1>1. CASE Still
  BY <1>1, <1>0, KnowsQuiet DEF Still
<1>2. ASSUME NEW x \in Page, Fault(x) PROVE Owned'
  <2>1. PICK p \in UProc : /\ OthersSame(p) /\ pc'[p] = "enter"
                           /\ UNCHANGED <<sw_asid, sw_pte>>
    BY <1>2, FaultEffect
  <2> QED BY <2>1, <1>s DEF Knows
<1>3. ASSUME NEW p \in UProc, Invalidate(p) PROVE Owned'
  <2>1. /\ OthersSame(p) /\ UNCHANGED <<sw_asid, sw_pte, at, want>>
        /\ \/ sw_asid[at[p]] # NOPROC /\ pc'[p] = "owner"
           \/ pc'[p] = "read" /\ block'[p] = want[p]
    BY <1>3, InvalidateEffect
  <2> QED BY <2>1, <1>s DEF Knows
<1>4. ASSUME NEW p \in UProc, Evict(p) PROVE Owned'
  <2>1. /\ OthersSame(p) /\ UNCHANGED <<sw_asid, sw_pte, at>> /\ pc[p] = "owner"
        /\ at[p] \in Frame /\ pc'[p] = "write" /\ sw_pte[at[p]] \in Page
        /\ block'[p] = <<sw_asid[at[p]], Number(sw_pte[at[p]])>>
    BY <1>4, EvictEffect
  <2>2. PICK x \in Page : x = sw_pte[at[p]]
    BY <2>1
  <2>3. CASE sw_asid[at[p]] # NOPROC
    <3>1. block'[p] = sw_pte[at[p]]
      BY <2>1, <2>2, <2>3, PageFacts DEF Owned
    <3> QED BY <2>1, <3>1, <1>s DEF Knows
  <2>4. CASE sw_asid[at[p]] = NOPROC
    <3>1. Gone(x)
      BY <2>1, <2>2, <2>4 DEF Owned, Knows
    <3>2. Gone(x)'
      BY <3>1, GoneStays
    <3>3. Gone(sw_pte[at[p]])'
      BY <2>1, <2>2, <3>2 DEF Gone, Alive, Killing, Process
    <3>4. block'[p][1] = NOPROC
      BY <2>1, <2>4
    <3> QED BY <2>1, <3>3, <3>4, <1>s DEF Knows
  <2> QED BY <2>3, <2>4
<1>5. ASSUME NEW p \in UProc, DeviceDone(p, "writing", "written", at[p], BACKING)
      PROVE Owned'
  <2>1. OthersSame(p) /\ UNCHANGED <<sw_asid, sw_pte>> /\ pc'[p] = "written"
    BY <1>5, WriteEffect
  <2> QED BY <2>1, <1>s DEF Knows
<1>6. ASSUME NEW p \in UProc, Written(p) PROVE Owned'
  <2>1. /\ OthersSame(p) /\ UNCHANGED <<sw_asid, sw_pte, want>>
        /\ (pc'[p] = "read" /\ block'[p] = want[p]) \/ pc'[p] = "kill"
    BY <1>6, WrittenEffect
  <2> QED BY <2>1, <1>s DEF Knows
<1>7. ASSUME NEW p \in UProc, DeviceDone(p, "reading", "done", BACKING, at[p])
      PROVE Owned'
  <2>1. /\ OthersSame(p) /\ UNCHANGED <<sw_asid, sw_pte, want, block>> /\ pc'[p] = "done"
        /\ block[p] = want[p]
    BY <1>7, ReadEffect
  <2> QED BY <2>1, <1>s DEF Knows
<1>8. ASSUME NEW p \in UProc, Done(p) PROVE Owned'
  <2>1. /\ OthersSame(p) /\ UNCHANGED <<sw_asid, sw_pte>>
        /\ pc'[p] = "register" \/ pc'[p] = "kill"
    BY <1>8, DoneEffect
  <2> QED BY <2>1, <1>s DEF Knows
<1>9. ASSUME NEW p \in UProc, Register(p) PROVE Owned'
  <2>1. /\ Alone(p) /\ OthersSame(p) /\ UNCHANGED <<at, want>> /\ pc'[p] = "map"
        /\ at[p] \in Frame /\ Process(want[p]) = p
        /\ sw_asid'[at[p]] = p /\ sw_pte'[at[p]] = want[p]
        /\ \A f \in Frame : f # at[p] => sw_asid'[f] = sw_asid[f] /\ sw_pte'[f] = sw_pte[f]
    BY <1>9, RegisterEffect
  <2>2. Knows(p)'
    BY <2>1 DEF Knows
  <2>3. \A q \in UProc : q # p => Knows(q)'
    BY <2>1 DEF Alone, OthersSame, Knows, Inside
  <2>4. \A f \in Frame : sw_asid'[f] # NOPROC => Process(sw_pte'[f]) = sw_asid'[f]
    BY <2>1 DEF Owned
  <2> QED BY <2>2, <2>3, <2>4 DEF Owned, Process
<1>10. ASSUME NEW p \in UProc, Map(p) PROVE Owned'
  <2>1. OthersSame(p) /\ UNCHANGED <<sw_asid, sw_pte>> /\ pc'[p] = "leave"
    BY <1>10, MapEffect
  <2> QED BY <2>1, <1>s DEF Knows
<1>11. ASSUME NEW p \in UProc, KillFree(p) PROVE Owned'
  <2>1. /\ OthersSame(p) /\ UNCHANGED sw_pte /\ at[p] \in Frame
        /\ pc'[p] = "kill" /\ ~Alive(p) /\ sw_asid'[at[p]] = NOPROC
        /\ \A f \in Frame : f # at[p] => sw_asid'[f] = sw_asid[f]
        /\ robbed' = robbed \cup Robbed(p, at[p])
        /\ \/ sw_asid[at[p]] \in {p, NOPROC}
           \/ /\ sw_asid[at[p]] \notin {p, NOPROC}
              /\ Robbed(p, at[p]) = {sw_pte[at[p]]}
    BY <1>11, KillFreeEffect
  <2>2. \A f \in Frame : sw_asid'[f] # NOPROC => Process(sw_pte'[f]) = sw_asid'[f]
    BY <2>1 DEF Owned
  <2>3. Knows(p)'
    BY <2>1 DEF Knows
  <2>4. ASSUME NEW q \in UProc, q # p PROVE Knows(q)'
    <3>1. pc'[q] = pc[q] /\ at'[q] = at[q] /\ want'[q] = want[q] /\ block'[q] = block[q]
      BY <2>1, <2>4 DEF OthersSame
    <3>2. CASE Writes(q)
      <4>1. at[q] \in Frame /\ sw_pte[at[q]] \in Page
        BY <3>2 DEF Base, Place, Inside, Writes
      <4>2. PICK x \in Page : x = sw_pte[at[q]]
        BY <4>1
      <4>3. Gone(x) => Gone(x)'
        BY GoneStays
      <4>4. Gone(x)' => Gone(sw_pte[at[q]])'
        BY <2>1, <3>1, <4>2 DEF Gone, Alive, Killing, Process
      <4>5. CASE pc[q] = "owner" /\ at[q] = at[p]
        <5>1. CASE sw_asid[at[p]] = NOPROC
          <6>1. Gone(x)
            BY <4>2, <4>5, <5>1 DEF Owned, Knows
          <6> QED BY <3>1, <4>3, <4>4, <4>5, <6>1 DEF Knows
        <5>2. CASE sw_asid[at[p]] = p
          <6>1. Process(x) = p
            BY <4>1, <4>2, <4>5, <5>2, UProcAssumption DEF Owned
          <6>2. Gone(x)
            BY <2>1, <6>1 DEF Gone
          <6> QED BY <3>1, <4>3, <4>4, <4>5, <6>2 DEF Knows
        <5>3. CASE sw_asid[at[p]] \notin {p, NOPROC}
          <6>1. x \in robbed'
            BY <2>1, <4>2, <4>5, <5>3
          <6>2. Gone(x)'
            BY <6>1 DEF Gone
          <6> QED BY <3>1, <4>4, <4>5, <6>2 DEF Knows
        <5> QED BY <5>1, <5>2, <5>3
      <4>6. CASE pc[q] = "owner" /\ at[q] # at[p]
        BY <2>1, <3>1, <4>1, <4>2, <4>3, <4>4, <4>6 DEF Owned, Knows
      <4>7. CASE pc[q] # "owner"
        BY <2>1, <3>1, <3>2, <4>2, <4>3, <4>4, <4>7 DEF Owned, Knows, Writes
      <4> QED BY <4>5, <4>6, <4>7
    <3>3. CASE pc[q] = "map"
      <4>1. at[q] \in Frame /\ sw_pte[at[q]] = want[q]
        BY <3>3 DEF Base, Place, Inside
      <4>2. sw_asid[at[q]] = q \/ want[q] \in robbed
        BY <3>3 DEF Owned, Knows
      <4>3. sw_asid'[at[q]] = q \/ want[q] \in robbed'
        BY <2>1, <2>4, <4>1, <4>2, UProcAssumption
      <4> QED BY <3>1, <3>3, <4>3 DEF Knows
    <3>4. CASE ~Writes(q) /\ pc[q] # "map"
      BY <3>1, <3>4 DEF Owned, Knows, Writes
    <3> QED BY <3>2, <3>3, <3>4
  <2> QED BY <2>2, <2>3, <2>4 DEF Owned, Process
<1> QED
  BY <1>1, <1>2, <1>3, <1>4, <1>5, <1>6, <1>7, <1>8, <1>9, <1>10, <1>11, StillSteps

\* A page that is mapped and not robbed has its frame registered, step by step.
LEMMA RegisteredStep ==
  ASSUME Pool, [Next]_vars
  PROVE FramesRegistered'
<1>a. \A x \in Page : Alive(Process(x))' => Alive(Process(x))
  BY AliveBefore, PageFacts DEF Pool
<1>b. \A x \in Page : pte[x] = BACKING \/ pte[x] \in Frame
  BY DEF Pool, Base, TypeOK
<1>s. ASSUME UNCHANGED <<sw_asid, sw_pte>>,
             \A x \in Page : pte'[x] # BACKING => pte'[x] = pte[x]
      PROVE  FramesRegistered'
  BY <1>s, <1>a, HistoryGrows DEF Pool, FramesRegistered
<1> USE DEF Pool
<1>1. CASE Still
  BY <1>1, <1>s DEF Still
<1>2. ASSUME NEW x \in Page, Fault(x) PROVE FramesRegistered'
  BY <1>2, <1>s, FaultEffect
<1>3. ASSUME NEW p \in UProc, Invalidate(p) PROVE FramesRegistered'
  BY <1>3, <1>s, InvalidateEffect
<1>4. ASSUME NEW p \in UProc, Evict(p) PROVE FramesRegistered'
  BY <1>4, <1>s, EvictEffect
<1>5. ASSUME NEW p \in UProc, DeviceDone(p, "writing", "written", at[p], BACKING)
      PROVE FramesRegistered'
  BY <1>5, <1>s, WriteEffect
<1>6. ASSUME NEW p \in UProc, Written(p) PROVE FramesRegistered'
  BY <1>6, <1>s, WrittenEffect
<1>7. ASSUME NEW p \in UProc, DeviceDone(p, "reading", "done", BACKING, at[p])
      PROVE FramesRegistered'
  BY <1>7, <1>s, ReadEffect
<1>8. ASSUME NEW p \in UProc, Done(p) PROVE FramesRegistered'
  BY <1>8, <1>s, DoneEffect
<1>9. ASSUME NEW p \in UProc, Register(p) PROVE FramesRegistered'
  <2>1. /\ UNCHANGED <<pte, robbed>> /\ pc[p] = "register" /\ at[p] \in Frame
        /\ \A f \in Frame : f # at[p] => sw_asid'[f] = sw_asid[f] /\ sw_pte'[f] = sw_pte[f]
    BY <1>9, RegisterEffect
  <2>2. \A x \in Page \ robbed : Alive(Process(x)) => pte[x] # at[p]
    BY <2>1 DEF MovingApart, Moving, Gone
  <2> QED BY <1>a, <1>b, <2>1, <2>2 DEF FramesRegistered
<1>10. ASSUME NEW p \in UProc, Map(p) PROVE FramesRegistered'
  <2>1. /\ pc[p] = "map" /\ at[p] \in Frame /\ want[p] \in Page
        /\ Process(want[p]) = p /\ sw_pte[at[p]] = want[p]
        /\ UNCHANGED <<sw_asid, sw_pte, robbed>> /\ pte'[want[p]] = at[p]
        /\ \A x \in Page : x # want[p] => pte'[x] = pte[x]
    BY <1>10, MapEffect
  <2>2. sw_asid[at[p]] = p \/ want[p] \in robbed
    BY <2>1 DEF Owned, Knows
  <2> QED BY <1>a, <2>1, <2>2 DEF FramesRegistered
<1>11. ASSUME NEW p \in UProc, KillFree(p) PROVE FramesRegistered'
  <2>1. /\ UNCHANGED <<sw_pte, pte>> /\ at[p] \in Frame /\ ~Alive(p)
        /\ \A f \in Frame : f # at[p] => sw_asid'[f] = sw_asid[f]
        /\ robbed' = robbed \cup Robbed(p, at[p])
        /\ \/ sw_asid[at[p]] \in {p, NOPROC}
           \/ Robbed(p, at[p]) = {sw_pte[at[p]]}
    BY <1>11, KillFreeEffect
  <2>2. SUFFICES ASSUME NEW x \in Page, x \notin robbed', Alive(Process(x))',
                        pte'[x] # BACKING
                 PROVE  sw_asid'[pte'[x]] = Process(x) /\ sw_pte'[pte'[x]] = x
    BY DEF FramesRegistered, Process
  <2>3. sw_asid[pte[x]] = Process(x) /\ sw_pte[pte[x]] = x /\ Alive(Process(x))
    BY <1>a, <2>1, <2>2 DEF FramesRegistered
  <2>4. pte[x] # at[p]
    BY <2>1, <2>2, <2>3, PageFacts, UProcAssumption
  <2> QED BY <1>b, <2>1, <2>2, <2>3, <2>4
<1> QED
  BY <1>1, <1>2, <1>3, <1>4, <1>5, <1>6, <1>7, <1>8, <1>9, <1>10, <1>11, StillSteps

\* No page that somebody needs is in the frame that a pager moves.
LEMMA MovingStep ==
  ASSUME Pool, [Next]_vars
  PROVE MovingApart'
<1>g. \A x \in Page : Gone(x) => Gone(x)'
  BY GoneStays DEF Pool
<1>s. ASSUME UNCHANGED pte,
             \A q \in UProc : Moving(q)' => Moving(q) /\ at'[q] = at[q]
      PROVE  MovingApart'
  BY <1>s, <1>g DEF Pool, MovingApart
<1>o. ASSUME UNCHANGED pte, NEW p \in UProc, OthersSame(p),
             Moving(p)' => Moving(p) /\ at'[p] = at[p]
      PROVE  MovingApart'
  BY <1>o, <1>s DEF OthersSame, Moving
<1> USE DEF Pool
<1>1. CASE Still
  BY <1>1, <1>s DEF Still, Quiet, Moving
<1>2. ASSUME NEW x \in Page, Fault(x) PROVE MovingApart'
  <2>1. PICK p \in UProc : OthersSame(p) /\ pc'[p] = "enter" /\ UNCHANGED pte
    BY <1>2, FaultEffect
  <2> QED BY <2>1, <1>o DEF Moving
<1>3. ASSUME NEW p \in UProc, Invalidate(p) PROVE MovingApart'
  <2>1. /\ Alone(p) /\ OthersSame(p) /\ pc[p] = "invalidate" /\ at[p] \in Frame
        /\ UNCHANGED at
        /\ \/ /\ sw_asid[at[p]] # NOPROC /\ pte'[sw_pte[at[p]]] = BACKING
              /\ \A x \in Page : x # sw_pte[at[p]] => pte'[x] = pte[x]
           \/ sw_asid[at[p]] = NOPROC /\ pte' = pte
    BY <1>3, InvalidateEffect
  <2>2. \A q \in UProc : q # p => ~Moving(q)'
    BY <2>1 DEF Alone, OthersSame, Inside, Moving
  <2>3. ASSUME NEW x \in Page, pte'[x] = at[p] PROVE Gone(x)'
    <3>1. pte[x] = at[p] /\ (sw_asid[at[p]] = NOPROC \/ sw_pte[at[p]] # x)
      BY <2>1, <2>3, BackingFacts
    <3>2. Gone(x)
      BY <2>1, <3>1, BackingFacts, PageFacts, UProcAssumption DEF FramesRegistered, Gone
    <3> QED BY <1>g, <3>2
  <2> QED BY <2>1, <2>2, <2>3 DEF MovingApart
<1>4. ASSUME NEW p \in UProc, Evict(p) PROVE MovingApart'
  <2>1. OthersSame(p) /\ pc[p] = "owner" /\ UNCHANGED <<pte, at>>
    BY <1>4, EvictEffect
  <2> QED BY <2>1, <1>o DEF Moving
<1>5. ASSUME NEW p \in UProc, DeviceDone(p, "writing", "written", at[p], BACKING)
      PROVE MovingApart'
  <2>1. OthersSame(p) /\ pc[p] = "writing" /\ UNCHANGED <<pte, at>>
    BY <1>5, WriteEffect
  <2> QED BY <2>1, <1>o DEF Moving
<1>6. ASSUME NEW p \in UProc, Written(p) PROVE MovingApart'
  <2>1. /\ OthersSame(p) /\ pc[p] = "written" /\ UNCHANGED pte
        /\ at'[p] = at[p] \/ pc'[p] = "kill"
    BY <1>6, WrittenEffect
  <2> QED BY <2>1, <1>o DEF Moving
<1>7. ASSUME NEW p \in UProc, DeviceDone(p, "reading", "done", BACKING, at[p])
      PROVE MovingApart'
  <2>1. OthersSame(p) /\ pc[p] = "reading" /\ UNCHANGED <<pte, at>>
    BY <1>7, ReadEffect
  <2> QED BY <2>1, <1>o DEF Moving
<1>8. ASSUME NEW p \in UProc, Done(p) PROVE MovingApart'
  <2>1. /\ OthersSame(p) /\ pc[p] = "done" /\ UNCHANGED pte
        /\ at'[p] = at[p] \/ pc'[p] = "kill"
    BY <1>8, DoneEffect
  <2> QED BY <2>1, <1>o DEF Moving
<1>9. ASSUME NEW p \in UProc, Register(p) PROVE MovingApart'
  <2>1. OthersSame(p) /\ pc[p] = "register" /\ UNCHANGED <<pte, at>>
    BY <1>9, RegisterEffect
  <2> QED BY <2>1, <1>o DEF Moving
<1>10. ASSUME NEW p \in UProc, Map(p) PROVE MovingApart'
  <2>1. Alone(p) /\ OthersSame(p) /\ pc'[p] = "leave"
    BY <1>10, MapEffect
  <2>2. \A q \in UProc : ~Moving(q)'
    BY <2>1 DEF Alone, OthersSame, Inside, Moving
  <2> QED BY <2>2 DEF MovingApart
<1>11. ASSUME NEW p \in UProc, KillFree(p) PROVE MovingApart'
  <2>1. OthersSame(p) /\ UNCHANGED pte /\ ~Moving(p)'
    BY <1>11, KillFreeEffect
  <2> QED BY <2>1, <1>o
<1> QED
  BY <1>1, <1>2, <1>3, <1>4, <1>5, <1>6, <1>7, <1>8, <1>9, <1>10, <1>11, StillSteps

----------------------------------------------------------------------------
\* p has read its page into its frame.
Fills(p) == pc[p] \in {"done", "register", "map"}

\* A page whose content can be told: it is not spoiled, and its process lives.
Sound(x) == x \notin spoiled /\ Alive(Process(x))

\* The page that is asked for and the page that is evicted are in no frame.
Unmapped(p) ==
  /\ pc[p] \in {"enter", "pick", "invalidate"} \/ Moving(p) => pte[want[p]] = BACKING
  /\ Writes(p) => pte[sw_pte[at[p]]] = BACKING

Faulted == \A p \in UProc : Unmapped(p)

\* RW_device returns an error only after one, and then the page that the frame
\* stays registered under is spoiled.
Blames(p) ==
  result[p] = "error" =>
    /\ pc[p] \in {"written", "done"}
    /\ sw_asid[at[p]] = NOPROC \/ sw_pte[at[p]] \in spoiled

Told == \A p \in UProc : Blames(p)

\* A page that was robbed may write over what else is in its frame, but no sound
\* page is there, nor one that is on its way out.
Sharing ==
  /\ robbed \subseteq spoiled
  /\ \A y \in robbed : Alive(Process(y)) =>
       /\ \A x \in Page : Sound(x) /\ pte[x] # BACKING => pte[x] # pte[y]
       /\ \A p \in UProc : Writes(p) /\ Sound(sw_pte[at[p]]) => pte[y] # at[p]

\* The swap pool table is up to date, but for the frame that a pager works on.
Complete ==
  \A f \in Frame : sw_asid[f] # NOPROC /\ Sound(sw_pte[f]) =>
    pte[sw_pte[f]] = f \/ \E p \in UProc : Moving(p) /\ at[p] = f

\* No page that was robbed is in frame f.
Clean(f) == \A y \in robbed : pte[y] # f

\* Where the latest content of a page is: in its frame, or in the backing store or
\* on the way to it.
Kept(x) ==
  IF pte[x] # BACKING THEN pte[x] \in fresh[x]
  ELSE BACKING \in fresh[x] \/ \E p \in UProc : Writes(p) /\ sw_pte[at[p]] = x

\* The frame that pager() has filled or is emptying has the latest content.
Carries(p) ==
  /\ Fills(p) /\ Sound(want[p]) /\ Clean(at[p]) => at[p] \in fresh[want[p]]
  /\ Writes(p) /\ Sound(sw_pte[at[p]]) => at[p] \in fresh[sw_pte[at[p]]]

Latest ==
  /\ \A x \in Page : Sound(x) => Kept(x)
  /\ \A p \in UProc : Carries(p)

Contents == Faulted /\ Told /\ Sharing /\ Complete /\ Latest

\* A page never becomes sound again.
LEMMA SoundBefore ==
  ASSUME Base, [Next]_vars, NEW x \in Page, Sound(x)'
  PROVE  Sound(x)
BY AliveBefore, HistoryGrows, PageFacts DEF Sound

\* Nor does the page that a pager is writing.
LEMMA SoundWrites ==
  ASSUME Base, [Next]_vars, NEW q \in UProc, Writes(q), at'[q] = at[q],
         sw_pte'[at[q]] = sw_pte[at[q]], Sound(sw_pte[at[q]])'
  PROVE  Sound(sw_pte[at[q]])
<1>1. PICK x \in Page : x = sw_pte[at[q]]
  BY DEF Base, Place
<1>2. Sound(x)'
  BY <1>1 DEF Sound, Alive, Killing, Process
<1> QED BY <1>1, <1>2, SoundBefore

\* Nor the one that it has read.
LEMMA SoundWant ==
  ASSUME Base, [Next]_vars, NEW q \in UProc, Fills(q), want'[q] = want[q],
         Sound(want[q])'
  PROVE  Sound(want[q])
<1>1. PICK x \in Page : x = want[q]
  BY DEF Base, Place, Inside, Fills
<1>2. Sound(x)'
  BY <1>1 DEF Sound, Alive, Killing, Process
<1> QED BY <1>1, <1>2, SoundBefore

\* A page that is on its way in or out is not mapped.
LEMMA FaultedStep ==
  ASSUME Pool, TlbCoherent, Faulted, [Next]_vars
  PROVE Faulted'
<1> USE DEF Pool
<1>q. ASSUME NEW q \in UProc, Quiet(q), UNCHANGED sw_pte,
             \A x \in Page : pte[x] = BACKING => pte'[x] = BACKING
      PROVE  Unmapped(q)'
  <2>1. /\ pc[q] \in {"enter", "pick", "invalidate"} \/ Moving(q) =>
             pte'[want[q]] = BACKING
        /\ Writes(q) => pte'[sw_pte[at[q]]] = BACKING
    BY <1>q DEF Faulted, Unmapped, Base, Place, Inside, Moving
  <2>2. CASE /\ at'[q] = at[q] /\ want'[q] = want[q]
             /\ \/ pc'[q] = pc[q]
                \/ pc[q] = "write" /\ pc'[q] = "writing"
                \/ pc[q] = "read" /\ pc'[q] = "reading"
    BY <1>q, <2>1, <2>2 DEF Unmapped, Moving, Writes
  <2>3. CASE /\ ~Moving(q)'
             /\ pc'[q] \in {"enter", "pick", "invalidate"} =>
                  pc[q] \in {"enter", "pick", "invalidate"} /\ want'[q] = want[q]
    BY <1>q, <2>1, <2>3 DEF Unmapped, Moving, Writes
  <2> QED BY <1>q, <2>2, <2>3 DEF Quiet
<1>s. ASSUME NEW p \in UProc, OthersSame(p), UNCHANGED sw_pte, Unmapped(p)',
             \A x \in Page : pte[x] = BACKING => pte'[x] = BACKING
      PROVE  Faulted'
  BY <1>s, <1>q, OthersQuiet DEF Faulted
<1>w. \A p \in UProc : Moving(p) => pte[want[p]] = BACKING
  BY DEF Faulted, Unmapped
<1>1. CASE Still
  BY <1>1, <1>q DEF Still, Faulted
<1>2. ASSUME NEW x \in Page, Fault(x) PROVE Faulted'
  <2>1. PICK p \in UProc : /\ OthersSame(p) /\ pc'[p] = "enter" /\ tlb[x] = BACKING
                           /\ want'[p] = x /\ UNCHANGED <<sw_pte, pte>>
    BY <1>2, FaultEffect
  <2>2. pte[x] = BACKING
    BY <2>1 DEF TlbCoherent, BACKING, MISS
  <2> QED BY <2>1, <2>2, <1>s DEF Unmapped, Moving, Writes
<1>3. ASSUME NEW p \in UProc, Invalidate(p) PROVE Faulted'
  <2>1. /\ OthersSame(p) /\ pc[p] = "invalidate" /\ UNCHANGED <<sw_pte, at, want>>
        /\ \/ /\ pc'[p] = "owner" /\ pte'[sw_pte[at[p]]] = BACKING
              /\ \A x \in Page : x # sw_pte[at[p]] => pte'[x] = pte[x]
           \/ pc'[p] = "read" /\ pte' = pte
    BY <1>3, InvalidateEffect
  <2>2. pte[want[p]] = BACKING /\ want[p] \in Page
    BY <2>1 DEF Faulted, Unmapped, Base, Place, Inside
  <2>3. pte'[want[p]] = BACKING
    BY <2>1, <2>2
  <2>4. \A x \in Page : pte[x] = BACKING => pte'[x] = BACKING
    BY <2>1
  <2>5. Unmapped(p)'
    BY <2>1, <2>3 DEF Unmapped, Moving, Writes
  <2> QED BY <2>1, <2>4, <2>5, <1>s
<1>4. ASSUME NEW p \in UProc, Evict(p) PROVE Faulted'
  <2>1. /\ OthersSame(p) /\ pc[p] = "owner" /\ pc'[p] = "write"
        /\ UNCHANGED <<sw_pte, at, want, pte>>
    BY <1>4, EvictEffect
  <2>2. Unmapped(p)'
    BY <2>1 DEF Faulted, Unmapped, Moving, Writes
  <2> QED BY <2>1, <2>2, <1>s
<1>5. ASSUME NEW p \in UProc, DeviceDone(p, "writing", "written", at[p], BACKING)
      PROVE Faulted'
  <2>1. /\ OthersSame(p) /\ pc[p] = "writing" /\ pc'[p] = "written"
        /\ UNCHANGED <<sw_pte, at, want, pte>>
    BY <1>5, WriteEffect
  <2>2. Unmapped(p)'
    BY <2>1, <1>w DEF Unmapped, Moving, Writes
  <2> QED BY <2>1, <2>2, <1>s
<1>6. ASSUME NEW p \in UProc, Written(p) PROVE Faulted'
  <2>1. /\ OthersSame(p) /\ pc[p] = "written" /\ pc'[p] \in {"read", "kill"}
        /\ UNCHANGED <<sw_pte, want, pte>>
    BY <1>6, WrittenEffect
  <2>2. Unmapped(p)'
    BY <2>1, <1>w DEF Unmapped, Moving, Writes
  <2> QED BY <2>1, <2>2, <1>s
<1>7. ASSUME NEW p \in UProc, DeviceDone(p, "reading", "done", BACKING, at[p])
      PROVE Faulted'
  <2>1. /\ OthersSame(p) /\ pc[p] = "reading" /\ pc'[p] = "done"
        /\ UNCHANGED <<sw_pte, at, want, pte>>
    BY <1>7, ReadEffect
  <2>2. Unmapped(p)'
    BY <2>1, <1>w DEF Unmapped, Moving, Writes
  <2> QED BY <2>1, <2>2, <1>s
<1>8. ASSUME NEW p \in UProc, Done(p) PROVE Faulted'
  <2>1. /\ OthersSame(p) /\ pc[p] = "done" /\ pc'[p] \in {"register", "kill"}
        /\ UNCHANGED <<sw_pte, want, pte>>
    BY <1>8, DoneEffect
  <2>2. Unmapped(p)'
    BY <2>1, <1>w DEF Unmapped, Moving, Writes
  <2> QED BY <2>1, <2>2, <1>s
<1>9. ASSUME NEW p \in UProc, Register(p) PROVE Faulted'
  <2>1. /\ Alone(p) /\ OthersSame(p) /\ pc[p] = "register" /\ pc'[p] = "map"
        /\ UNCHANGED <<want, pte>>
    BY <1>9, RegisterEffect
  <2>2. Unmapped(p)'
    BY <2>1, <1>w DEF Unmapped, Moving, Writes
  <2>3. \A q \in UProc : q # p => Unmapped(q)'
    BY <2>1 DEF Alone, OthersSame, Faulted, Unmapped, Inside, Moving, Writes
  <2> QED BY <2>2, <2>3 DEF Faulted
<1>10. ASSUME NEW p \in UProc, Map(p) PROVE Faulted'
  <2>1. /\ Alone(p) /\ OthersSame(p) /\ pc'[p] = "leave" /\ UNCHANGED want
        /\ want[p] \in Page /\ Process(want[p]) = p
        /\ \A x \in Page : x # want[p] => pte'[x] = pte[x]
    BY <1>10, MapEffect
  <2>2. Unmapped(p)'
    BY <2>1 DEF Unmapped, Moving, Writes
  <2>3. ASSUME NEW q \in UProc, q # p PROVE Unmapped(q)'
    <3>1. ~Inside(q) /\ pc'[q] = pc[q]
      BY <2>1, <2>3 DEF Alone, OthersSame
    <3>2. CASE pc[q] \in {"enter", "pick"}
      <4>1. want[q] \in Page /\ Process(want[q]) = q /\ pte[want[q]] = BACKING
        BY <3>2 DEF Base, Place, Faulted, Unmapped
      <4>2. pte'[want'[q]] = BACKING
        BY <2>1, <2>3, <4>1
      <4> QED BY <3>1, <3>2, <4>2 DEF Unmapped, Inside, Moving, Writes
    <3>3. CASE pc[q] \notin {"enter", "pick"}
      BY <3>1, <3>3 DEF Unmapped, Inside, Moving, Writes
    <3> QED BY <3>2, <3>3
  <2> QED BY <2>2, <2>3 DEF Faulted
<1>11. ASSUME NEW p \in UProc, KillFree(p) PROVE Faulted'
  <2>1. OthersSame(p) /\ pc'[p] = "kill" /\ UNCHANGED <<sw_pte, pte>>
    BY <1>11, KillFreeEffect
  <2> QED BY <2>1, <1>s DEF Unmapped, Moving, Writes
<1> QED
  BY <1>1, <1>2, <1>3, <1>4, <1>5, <1>6, <1>7, <1>8, <1>9, <1>10, <1>11, StillSteps

\* Who gets an error from RW_device leaves no sound page registered.
LEMMA ToldStep ==
  ASSUME Base, Owned, Told, [Next]_vars
  PROVE Told'
<1>q. ASSUME NEW q \in UProc, Quiet(q), UNCHANGED <<sw_asid, sw_pte>> PROVE Blames(q)'
  <2>1. SUFFICES ASSUME result'[q] = "error"
                 PROVE  /\ pc'[q] \in {"written", "done"}
                        /\ \/ sw_asid'[at'[q]] = NOPROC
                           \/ sw_pte'[at'[q]] \in spoiled'
    BY DEF Blames
  <2>2. result[q] = "error"
    BY <1>q, <2>1 DEF Quiet
  <2>3. /\ pc[q] \in {"written", "done"}
        /\ sw_asid[at[q]] = NOPROC \/ sw_pte[at[q]] \in spoiled
    BY <2>2 DEF Told, Blames
  <2>4. pc'[q] = pc[q] /\ at'[q] = at[q]
    BY <1>q, <2>3 DEF Quiet, Moving
  <2> QED BY <1>q, <2>3, <2>4, HistoryGrows
<1>s. ASSUME NEW p \in UProc, OthersSame(p), UNCHANGED <<sw_asid, sw_pte>>, Blames(p)'
      PROVE  Told'
  BY <1>s, <1>q, OthersQuiet DEF Told
<1>e. \A p \in UProc : pc[p] \notin {"written", "done"} => result[p] # "error"
  BY DEF Told, Blames
<1>1. CASE Still
  BY <1>1, <1>q DEF Still, Told
<1>2. ASSUME NEW x \in Page, Fault(x) PROVE Told'
  <2>1. PICK p \in UProc : /\ OthersSame(p) /\ pc[p] = "user" /\ result'[p] = result[p]
                           /\ UNCHANGED <<sw_asid, sw_pte>>
    BY <1>2, FaultEffect
  <2> QED BY <2>1, <1>e, <1>s DEF Blames
<1>3. ASSUME NEW p \in UProc, Invalidate(p) PROVE Told'
  <2>1. /\ OthersSame(p) /\ pc[p] = "invalidate" /\ result'[p] = result[p]
        /\ UNCHANGED <<sw_asid, sw_pte>>
    BY <1>3, InvalidateEffect
  <2> QED BY <2>1, <1>e, <1>s DEF Blames
<1>4. ASSUME NEW p \in UProc, Evict(p) PROVE Told'
  <2>1. /\ OthersSame(p) /\ pc[p] = "owner" /\ result'[p] = result[p]
        /\ UNCHANGED <<sw_asid, sw_pte>>
    BY <1>4, EvictEffect
  <2> QED BY <2>1, <1>e, <1>s DEF Blames
<1>5. ASSUME NEW p \in UProc, DeviceDone(p, "writing", "written", at[p], BACKING)
      PROVE Told'
  <2>1. /\ OthersSame(p) /\ pc'[p] = "written" /\ UNCHANGED <<sw_asid, sw_pte, at>>
        /\ result'[p] = "ok" \/ Registered(at[p]) \subseteq spoiled'
    BY <1>5, WriteEffect
  <2> QED BY <2>1, <1>s DEF Blames, Registered
<1>6. ASSUME NEW p \in UProc, Written(p) PROVE Told'
  <2>1. OthersSame(p) /\ UNCHANGED <<sw_asid, sw_pte>> /\ result'[p] = "ok"
    BY <1>6, WrittenEffect
  <2> QED BY <2>1, <1>s DEF Blames
<1>7. ASSUME NEW p \in UProc, DeviceDone(p, "reading", "done", BACKING, at[p])
      PROVE Told'
  <2>1. /\ OthersSame(p) /\ pc'[p] = "done" /\ UNCHANGED <<sw_asid, sw_pte, at>>
        /\ result'[p] = "ok" \/ Registered(at[p]) \subseteq spoiled'
    BY <1>7, ReadEffect
  <2> QED BY <2>1, <1>s DEF Blames, Registered
<1>8. ASSUME NEW p \in UProc, Done(p) PROVE Told'
  <2>1. OthersSame(p) /\ UNCHANGED <<sw_asid, sw_pte>> /\ result'[p] = "ok"
    BY <1>8, DoneEffect
  <2> QED BY <2>1, <1>s DEF Blames
<1>9. ASSUME NEW p \in UProc, Register(p) PROVE Told'
  <2>1. Alone(p) /\ OthersSame(p) /\ pc[p] = "register" /\ UNCHANGED result
    BY <1>9, RegisterEffect
  <2>2. \A q \in UProc : result'[q] # "error"
    BY <2>1, <1>e DEF Alone, Inside
  <2> QED BY <2>2 DEF Told, Blames
<1>10. ASSUME NEW p \in UProc, Map(p) PROVE Told'
  <2>1. /\ OthersSame(p) /\ pc[p] = "map" /\ result'[p] = result[p]
        /\ UNCHANGED <<sw_asid, sw_pte>>
    BY <1>10, MapEffect
  <2> QED BY <2>1, <1>e, <1>s DEF Blames
<1>11. ASSUME NEW p \in UProc, KillFree(p) PROVE Told'
  <2>1. /\ OthersSame(p) /\ pc[p] = "free" /\ UNCHANGED <<sw_pte, result>>
        /\ at[p] \in Frame /\ sw_asid'[at[p]] = NOPROC
        /\ \A f \in Frame : f # at[p] => sw_asid'[f] = sw_asid[f]
    BY <1>11, KillFreeEffect
  <2>2. \A f \in Frame : sw_asid'[f] # NOPROC => sw_asid[f] = sw_asid'[f]
    BY <2>1
  <2>3. ASSUME NEW q \in UProc, result'[q] = "error"
        PROVE  /\ pc'[q] \in {"written", "done"}
               /\ sw_asid'[at'[q]] = NOPROC \/ sw_pte'[at'[q]] \in spoiled'
    <3>1. /\ q # p /\ pc[q] \in {"written", "done"}
          /\ sw_asid[at[q]] = NOPROC \/ sw_pte[at[q]] \in spoiled
      BY <2>1, <2>3 DEF Told, Blames
    <3>2. pc'[q] = pc[q] /\ at'[q] = at[q] /\ at[q] \in Frame
      BY <2>1, <3>1 DEF OthersSame, Base, Place, Inside
    <3> QED BY <2>1, <2>2, <3>1, <3>2, HistoryGrows
  <2> QED BY <2>3 DEF Told, Blames
<1> QED
  BY <1>1, <1>2, <1>3, <1>4, <1>5, <1>6, <1>7, <1>8, <1>9, <1>10, <1>11, StillSteps

\* A robbed page shares its frame with no sound page.
LEMMA SharingStep ==
  ASSUME Pool, Contents, [Next]_vars
  PROVE Sharing'
<1> USE DEF Pool, Contents
<1>p. robbed \subseteq Page /\ robbed \subseteq spoiled
  BY DEF Base, TypeOK, Sharing
<1>a. \A x \in Page : /\ Alive(Process(x))' => Alive(Process(x))
                      /\ Sound(x)' => Sound(x)
  BY AliveBefore, SoundBefore, PageFacts
<1>u. \A x \in Page : Sound(x) => ~Gone(x)
  BY <1>p DEF Sound, Gone
<1>w. \A q \in UProc : Writes(q) => at[q] \in Frame /\ Moving(q)
  BY DEF Base, Place, Inside, Writes, Moving
<1>s. ASSUME UNCHANGED <<robbed, sw_pte>>,
             \A x \in Page : pte'[x] = pte[x] \/ pte'[x] = BACKING,
             \A q \in UProc : Writes(q)' => Writes(q) /\ at'[q] = at[q]
      PROVE  Sharing'
  <2>1. ASSUME NEW y \in robbed, Alive(Process(y))', NEW x \in Page, Sound(x)',
               pte'[x] # BACKING
        PROVE  pte'[x] # pte'[y]
    <3>1. Sound(x) /\ Alive(Process(y)) /\ pte'[x] = pte[x]
      BY <1>a, <1>p, <1>s, <2>1
    <3>2. pte[x] # pte[y]
      BY <2>1, <3>1 DEF Sharing
    <3> QED BY <1>p, <1>s, <2>1, <3>1, <3>2
  <2>2. ASSUME NEW y \in robbed, Alive(Process(y))', NEW q \in UProc, Writes(q)',
               Sound(sw_pte[at[q]])'
        PROVE  pte'[y] # at[q]
    <3>1. Writes(q) /\ at'[q] = at[q] /\ at[q] \in Frame
      BY <1>s, <1>w, <2>2
    <3>2. Sound(sw_pte[at[q]])
      BY <1>s, <2>2, <3>1, SoundWrites
    <3>3. pte[y] # at[q]
      BY <1>a, <1>p, <2>2, <3>1, <3>2 DEF Sharing
    <3> QED BY <1>p, <1>s, <3>1, <3>3, BackingFacts
  <2>3. robbed' = robbed /\ robbed \subseteq spoiled'
    BY <1>p, <1>s, HistoryGrows
  <2>4. \A q \in UProc : Writes(q)' => at'[q] = at[q]
    BY <1>s
  <2> QED BY <2>1, <2>2, <2>3, <2>4 DEF Sharing, Process
<1>o. ASSUME UNCHANGED <<robbed, sw_pte, pte>>, NEW p \in UProc, OthersSame(p),
             Writes(p)' => Writes(p) /\ at'[p] = at[p]
      PROVE  Sharing'
  BY <1>o, <1>s DEF OthersSame, Writes
<1>1. CASE Still
  BY <1>1, <1>s DEF Still, Quiet, Writes, Moving
<1>2. ASSUME NEW x \in Page, Fault(x) PROVE Sharing'
  <2>1. PICK p \in UProc : /\ OthersSame(p) /\ pc'[p] = "enter"
                           /\ UNCHANGED <<sw_pte, pte, robbed>>
    BY <1>2, FaultEffect
  <2> QED BY <2>1, <1>o DEF Writes
<1>3. ASSUME NEW p \in UProc, Invalidate(p) PROVE Sharing'
  <2>1. /\ Alone(p) /\ OthersSame(p) /\ pc[p] = "invalidate" /\ at[p] \in Frame
        /\ UNCHANGED <<sw_asid, sw_pte, at, robbed, spoiled>>
        /\ \/ /\ sw_asid[at[p]] # NOPROC /\ pc'[p] = "owner" /\ sw_pte[at[p]] \in Page
              /\ pte'[sw_pte[at[p]]] = BACKING
              /\ \A x \in Page : x # sw_pte[at[p]] => pte'[x] = pte[x]
           \/ sw_asid[at[p]] = NOPROC /\ pc'[p] = "read" /\ pte' = pte
    BY <1>3, InvalidateEffect
  <2>2. \A x \in Page : pte'[x] = pte[x] \/ pte'[x] = BACKING
    BY <2>1
  <2>3. CASE pc'[p] = "read"
    <3>1. \A q \in UProc : Writes(q)' => Writes(q)
      BY <2>1, <2>3 DEF OthersSame, Writes
    <3> QED BY <2>1, <2>2, <3>1, <1>s
  <2>4. CASE pc'[p] = "owner"
    <3>1. ASSUME NEW y \in robbed, Alive(Process(y))', NEW x \in Page, Sound(x)',
                 pte'[x] # BACKING
          PROVE  pte'[x] # pte'[y]
      <4>1. Sound(x) /\ Alive(Process(y)) /\ pte'[x] = pte[x]
        BY <1>a, <1>p, <2>2, <3>1
      <4>2. pte[x] # pte[y]
        BY <3>1, <4>1 DEF Sharing
      <4> QED BY <1>p, <2>2, <3>1, <4>1, <4>2
    <3>2. \A q \in UProc : Writes(q)' => q = p
      BY <2>1 DEF Alone, OthersSame, Inside, Writes
    <3>3. PICK z \in Page : z = sw_pte[at[p]]
      BY <2>1, <2>4
    <3>4. ASSUME NEW y \in robbed, Alive(Process(y))', Sound(z)' PROVE pte'[y] # at[p]
      <4>1. Sound(z) /\ Alive(Process(y))
        BY <1>a, <1>p, <3>4
      <4>2. \A q \in UProc : ~Moving(q)
        BY <2>1 DEF Alone, Inside, Moving
      <4>3. pte[z] = at[p]
        BY <2>1, <2>4, <3>3, <4>1, <4>2 DEF Complete
      <4>4. pte[y] # at[p]
        BY <2>1, <3>4, <4>1, <4>3, BackingFacts DEF Sharing
      <4> QED BY <1>p, <2>1, <2>2, <4>4, BackingFacts
    <3>5. Sound(sw_pte[at[p]])' => Sound(z)'
      BY <2>1, <3>3 DEF Sound, Alive, Killing, Process
    <3> QED BY <1>p, <2>1, <3>1, <3>2, <3>4, <3>5 DEF Sharing, Process
  <2> QED BY <2>1, <2>3, <2>4
<1>4. ASSUME NEW p \in UProc, Evict(p) PROVE Sharing'
  <2>1. /\ OthersSame(p) /\ pc[p] = "owner" /\ UNCHANGED <<sw_pte, pte, at, robbed>>
    BY <1>4, EvictEffect
  <2> QED BY <2>1, <1>o DEF Writes
<1>5. ASSUME NEW p \in UProc, DeviceDone(p, "writing", "written", at[p], BACKING)
      PROVE Sharing'
  <2>1. OthersSame(p) /\ pc'[p] = "written" /\ UNCHANGED <<sw_pte, pte, robbed>>
    BY <1>5, WriteEffect
  <2> QED BY <2>1, <1>o DEF Writes
<1>6. ASSUME NEW p \in UProc, Written(p) PROVE Sharing'
  <2>1. /\ OthersSame(p) /\ pc'[p] \in {"read", "kill"}
        /\ UNCHANGED <<sw_pte, pte, robbed>>
    BY <1>6, WrittenEffect
  <2> QED BY <2>1, <1>o DEF Writes
<1>7. ASSUME NEW p \in UProc, DeviceDone(p, "reading", "done", BACKING, at[p])
      PROVE Sharing'
  <2>1. OthersSame(p) /\ pc'[p] = "done" /\ UNCHANGED <<sw_pte, pte, robbed>>
    BY <1>7, ReadEffect
  <2> QED BY <2>1, <1>o DEF Writes
<1>8. ASSUME NEW p \in UProc, Done(p) PROVE Sharing'
  <2>1. /\ OthersSame(p) /\ pc'[p] \in {"register", "kill"}
        /\ UNCHANGED <<sw_pte, pte, robbed>>
    BY <1>8, DoneEffect
  <2> QED BY <2>1, <1>o DEF Writes
<1>9. ASSUME NEW p \in UProc, Register(p) PROVE Sharing'
  <2>1. /\ Alone(p) /\ OthersSame(p) /\ pc'[p] = "map" /\ UNCHANGED <<pte, robbed, spoiled>>
    BY <1>9, RegisterEffect
  <2>2. \A q \in UProc : ~Writes(q)'
    BY <2>1 DEF Alone, OthersSame, Inside, Writes
  <2>3. ASSUME NEW y \in robbed, Alive(Process(y))', NEW x \in Page, Sound(x)',
               pte[x] # BACKING
        PROVE  pte[x] # pte[y]
    BY <1>a, <1>p, <2>3 DEF Sharing
  <2> QED BY <1>p, <2>1, <2>2, <2>3 DEF Sharing, Process
<1>10. ASSUME NEW p \in UProc, Map(p) PROVE Sharing'
  <2>1. /\ Alone(p) /\ OthersSame(p) /\ pc[p] = "map" /\ at[p] \in Frame
        /\ UNCHANGED robbed /\ pc'[p] = "leave" /\ want[p] \in Page
        /\ pte'[want[p]] = at[p]
        /\ \A x \in Page : x # want[p] => pte'[x] = pte[x]
        /\ \/ want[p] \in spoiled'
           \/ \A y \in robbed : pte[y] # at[p]
    BY <1>10, MapEffect
  <2>2. \A q \in UProc : ~Writes(q)'
    BY <2>1 DEF Alone, OthersSame, Inside, Writes
  <2>3. ASSUME NEW y \in robbed, Alive(Process(y))', NEW x \in Page, Sound(x)',
               pte'[x] # BACKING
        PROVE  pte'[x] # pte'[y]
    <3>1. Sound(x) /\ Alive(Process(y)) /\ y \in Page /\ x \notin spoiled'
      BY <1>a, <1>p, <2>3 DEF Sound
    <3>2. CASE x = want[p]
      <4>1. pte[y] # at[p] /\ y # want[p]
        BY <1>p, <2>1, <2>3, <3>1, <3>2 DEF Sound
      <4> QED BY <2>1, <3>1, <3>2, <4>1
    <3>3. CASE x # want[p] /\ y = want[p]
      <4>1. pte[x] # at[p]
        BY <1>u, <2>1, <3>1 DEF MovingApart, Moving
      <4> QED BY <2>1, <3>3, <4>1
    <3>4. CASE x # want[p] /\ y # want[p]
      BY <2>1, <2>3, <3>1, <3>4 DEF Sharing
    <3> QED BY <3>2, <3>3, <3>4
  <2>4. robbed' = robbed /\ robbed \subseteq spoiled'
    BY <1>p, <2>1, HistoryGrows
  <2> QED BY <2>2, <2>3, <2>4 DEF Sharing, Process
<1>11. ASSUME NEW p \in UProc, KillFree(p) PROVE Sharing'
  <2>1. /\ OthersSame(p) /\ UNCHANGED <<sw_pte, pte>> /\ pc'[p] = "kill"
        /\ robbed' = robbed \cup Robbed(p, at[p])
        /\ spoiled' = spoiled \cup Robbed(p, at[p])
        /\ Robbed(p, at[p]) \subseteq Page
    BY <1>11, KillFreeEffect
  <2>2. robbed' \subseteq spoiled' /\ robbed' \subseteq Page
    BY <1>p, <2>1
  <2>3. ASSUME NEW y \in robbed', Alive(Process(y))', NEW x \in Page, Sound(x)',
               pte[x] # BACKING
        PROVE  pte[x] # pte[y]
    <3>1. Sound(x) /\ Alive(Process(y)) /\ y \in Page /\ x # y
      BY <1>a, <2>2, <2>3 DEF Sound
    <3>2. CASE y \in robbed
      BY <2>3, <3>1, <3>2 DEF Sharing
    <3>3. CASE y \notin robbed
      <4>1. sw_pte[pte[x]] = x
        BY <1>u, <2>3, <3>1 DEF FramesRegistered, Gone
      <4>2. pte[y] # BACKING => sw_pte[pte[y]] = y
        BY <3>1, <3>3 DEF FramesRegistered
      <4> QED BY <2>3, <3>1, <4>1, <4>2
    <3> QED BY <3>2, <3>3
  <2>4. ASSUME NEW y \in robbed', Alive(Process(y))', NEW q \in UProc, Writes(q)',
               Sound(sw_pte[at[q]])'
        PROVE  pte[y] # at'[q]
    <3>1. Writes(q) /\ at'[q] = at[q]
      BY <2>1, <2>4 DEF OthersSame, Writes
    <3>2. Sound(sw_pte[at[q]])
      BY <2>1, <2>4, <3>1, SoundWrites
    <3>3. Alive(Process(y)) /\ y \in Page
      BY <1>a, <2>2, <2>4
    <3>4. CASE y \in robbed
      BY <3>1, <3>2, <3>3, <3>4 DEF Sharing
    <3>5. CASE y \notin robbed
      BY <1>w, <3>1, <3>3, <3>5 DEF MovingApart, Gone
    <3> QED BY <3>4, <3>5
  <2> QED BY <2>1, <2>2, <2>3, <2>4 DEF Sharing, Process
<1> QED
  BY <1>1, <1>2, <1>3, <1>4, <1>5, <1>6, <1>7, <1>8, <1>9, <1>10, <1>11, StillSteps

\* A frame under a sound page is mapped or in a pager's hands.
LEMMA CompleteStep ==
  ASSUME Pool, Contents, [Next]_vars
  PROVE Complete'
<1> USE DEF Pool, Contents
<1>t. \A f \in Frame : sw_asid[f] # NOPROC => sw_pte[f] \in Page
  BY DEF Base, Place
<1>c. ASSUME NEW f \in Frame, sw_asid[f] # NOPROC, sw_pte'[f] = sw_pte[f],
             Sound(sw_pte[f])'
      PROVE  /\ Sound(sw_pte[f])
             /\ pte[sw_pte[f]] = f \/ \E q \in UProc : Moving(q) /\ at[q] = f
  <2>1. PICK x \in Page : x = sw_pte[f]
    BY <1>c, <1>t
  <2>2. Sound(x)'
    BY <1>c, <2>1 DEF Sound, Alive, Killing, Process
  <2>3. Sound(x)
    BY <2>2, SoundBefore
  <2> QED BY <1>c, <2>1, <2>3 DEF Complete
<1>s. ASSUME UNCHANGED <<sw_pte, pte>>,
             \A f \in Frame : sw_asid'[f] # NOPROC => sw_asid[f] # NOPROC,
             \A q \in UProc : Moving(q) => Moving(q)' /\ at'[q] = at[q]
      PROVE  Complete'
  BY <1>s, <1>c DEF Complete
<1>o. ASSUME UNCHANGED <<sw_asid, sw_pte, pte>>, NEW p \in UProc, OthersSame(p),
             Moving(p) => Moving(p)' /\ at'[p] = at[p]
      PROVE  Complete'
  BY <1>o, <1>s DEF OthersSame, Moving
<1>e. ASSUME UNCHANGED <<sw_asid, sw_pte, pte>>, NEW p \in UProc, OthersSame(p),
             at[p] \in Frame, result[p] = "error"
      PROVE  Complete'
  <2>1. sw_asid[at[p]] = NOPROC \/ sw_pte[at[p]] \in spoiled
    BY <1>e DEF Told, Blames
  <2>2. ASSUME NEW f \in Frame, sw_asid[f] # NOPROC, Sound(sw_pte[f])'
        PROVE  pte[sw_pte[f]] = f \/ \E q \in UProc : Moving(q)' /\ at'[q] = f
    <3>1. /\ Sound(sw_pte[f])
          /\ pte[sw_pte[f]] = f \/ \E q \in UProc : Moving(q) /\ at[q] = f
      BY <1>e, <1>c, <2>2
    <3>2. f # at[p]
      BY <2>1, <2>2, <3>1 DEF Sound
    <3> QED BY <1>e, <3>1, <3>2 DEF OthersSame, Moving
  <2> QED BY <1>e, <2>2 DEF Complete
<1>1. CASE Still
  BY <1>1, <1>s DEF Still, Quiet, Moving
<1>2. ASSUME NEW x \in Page, Fault(x) PROVE Complete'
  <2>1. PICK p \in UProc : /\ OthersSame(p) /\ pc[p] = "user"
                           /\ UNCHANGED <<sw_asid, sw_pte, pte>>
    BY <1>2, FaultEffect
  <2> QED BY <2>1, <1>o DEF Moving
<1>3. ASSUME NEW p \in UProc, Invalidate(p) PROVE Complete'
  <2>1. /\ Alone(p) /\ OthersSame(p) /\ pc[p] = "invalidate" /\ at[p] \in Frame
        /\ UNCHANGED <<sw_asid, sw_pte, at>>
        /\ \/ /\ sw_asid[at[p]] # NOPROC /\ pc'[p] = "owner" /\ sw_pte[at[p]] \in Page
              /\ pte'[sw_pte[at[p]]] = BACKING
              /\ \A x \in Page : x # sw_pte[at[p]] => pte'[x] = pte[x]
           \/ sw_asid[at[p]] = NOPROC /\ pc'[p] = "read" /\ pte' = pte
    BY <1>3, InvalidateEffect
  <2>2. Moving(p)' /\ \A q \in UProc : ~Moving(q)
    BY <2>1 DEF Alone, Inside, Moving
  <2>3. ASSUME NEW f \in Frame, sw_asid[f] # NOPROC, Sound(sw_pte[f])', f # at[p]
        PROVE  pte'[sw_pte[f]] = f
    <3>1. Sound(sw_pte[f]) /\ pte[sw_pte[f]] = f /\ sw_pte[f] \in Page
      BY <1>c, <1>t, <2>1, <2>2, <2>3
    <3>2. CASE sw_asid[at[p]] # NOPROC /\ sw_pte[at[p]] = sw_pte[f]
      <4>1. pte[sw_pte[at[p]]] = at[p]
        BY <2>1, <2>2, <3>1, <3>2 DEF Complete
      <4> QED BY <2>3, <3>1, <3>2, <4>1
    <3>3. CASE sw_asid[at[p]] = NOPROC \/ sw_pte[at[p]] # sw_pte[f]
      BY <2>1, <3>1, <3>3
    <3> QED BY <3>2, <3>3
  <2> QED BY <2>1, <2>2, <2>3 DEF Complete
<1>4. ASSUME NEW p \in UProc, Evict(p) PROVE Complete'
  <2>1. /\ OthersSame(p) /\ pc'[p] = "write" /\ UNCHANGED <<sw_asid, sw_pte, pte, at>>
    BY <1>4, EvictEffect
  <2> QED BY <2>1, <1>o DEF Moving
<1>5. ASSUME NEW p \in UProc, DeviceDone(p, "writing", "written", at[p], BACKING)
      PROVE Complete'
  <2>1. OthersSame(p) /\ pc'[p] = "written" /\ UNCHANGED <<sw_asid, sw_pte, pte, at>>
    BY <1>5, WriteEffect
  <2> QED BY <2>1, <1>o DEF Moving
<1>6. ASSUME NEW p \in UProc, Written(p) PROVE Complete'
  <2>1. /\ OthersSame(p) /\ at[p] \in Frame /\ UNCHANGED <<sw_asid, sw_pte, pte>>
        /\ (pc'[p] = "read" /\ at'[p] = at[p]) \/ result[p] = "error"
    BY <1>6, WrittenEffect
  <2> QED BY <2>1, <1>o, <1>e DEF Moving
<1>7. ASSUME NEW p \in UProc, DeviceDone(p, "reading", "done", BACKING, at[p])
      PROVE Complete'
  <2>1. OthersSame(p) /\ pc'[p] = "done" /\ UNCHANGED <<sw_asid, sw_pte, pte, at>>
    BY <1>7, ReadEffect
  <2> QED BY <2>1, <1>o DEF Moving
<1>8. ASSUME NEW p \in UProc, Done(p) PROVE Complete'
  <2>1. /\ OthersSame(p) /\ at[p] \in Frame /\ UNCHANGED <<sw_asid, sw_pte, pte>>
        /\ (pc'[p] = "register" /\ at'[p] = at[p]) \/ result[p] = "error"
    BY <1>8, DoneEffect
  <2> QED BY <2>1, <1>o, <1>e DEF Moving
<1>9. ASSUME NEW p \in UProc, Register(p) PROVE Complete'
  <2>1. /\ OthersSame(p) /\ pc[p] = "register" /\ at[p] \in Frame
        /\ UNCHANGED <<pte, at>> /\ pc'[p] = "map"
        /\ \A f \in Frame : f # at[p] => sw_asid'[f] = sw_asid[f] /\ sw_pte'[f] = sw_pte[f]
    BY <1>9, RegisterEffect
  <2>2. \A q \in UProc : Moving(q) => Moving(q)'
    BY <2>1 DEF OthersSame, Moving
  <2>3. ASSUME NEW f \in Frame, sw_asid'[f] # NOPROC, Sound(sw_pte[f])', f # at[p]
        PROVE  pte[sw_pte'[f]] = f \/ \E q \in UProc : Moving(q)' /\ at[q] = f
    BY <1>c, <2>1, <2>2, <2>3
  <2>4. Moving(p)'
    BY <2>1 DEF Moving
  <2> QED BY <2>1, <2>3, <2>4 DEF Complete
<1>10. ASSUME NEW p \in UProc, Map(p) PROVE Complete'
  <2>1. /\ Alone(p) /\ pc[p] = "map" /\ at[p] \in Frame
        /\ UNCHANGED <<sw_asid, sw_pte>> /\ want[p] \in Page
        /\ sw_pte[at[p]] = want[p] /\ pte'[want[p]] = at[p]
        /\ \A x \in Page : x # want[p] => pte'[x] = pte[x]
    BY <1>10, MapEffect
  <2>2. \A q \in UProc : Moving(q) => q = p
    BY <2>1 DEF Alone, Inside, Moving
  <2>3. pte[want[p]] = BACKING
    BY <2>1 DEF Faulted, Unmapped, Moving
  <2>4. ASSUME NEW f \in Frame, sw_asid[f] # NOPROC, Sound(sw_pte[f])', f # at[p]
        PROVE  pte'[sw_pte[f]] = f
    <3>1. pte[sw_pte[f]] = f /\ sw_pte[f] \in Page
      BY <1>c, <1>t, <2>1, <2>2, <2>4
    <3>2. sw_pte[f] # want[p]
      BY <2>3, <3>1, BackingFacts
    <3> QED BY <2>1, <3>1, <3>2
  <2> QED BY <2>1, <2>4 DEF Complete
<1>11. ASSUME NEW p \in UProc, KillFree(p) PROVE Complete'
  <2>1. /\ OthersSame(p) /\ UNCHANGED <<sw_pte, pte>> /\ ~Moving(p) /\ at[p] \in Frame
        /\ sw_asid'[at[p]] = NOPROC
        /\ \A f \in Frame : f # at[p] => sw_asid'[f] = sw_asid[f]
    BY <1>11, KillFreeEffect
  <2>2. \A f \in Frame : sw_asid'[f] # NOPROC => sw_asid[f] # NOPROC
    BY <2>1
  <2>3. \A q \in UProc : Moving(q) => Moving(q)' /\ at'[q] = at[q]
    BY <2>1 DEF OthersSame, Moving
  <2> QED BY <2>1, <2>2, <2>3, <1>s
<1> QED
  BY <1>1, <1>2, <1>3, <1>4, <1>5, <1>6, <1>7, <1>8, <1>9, <1>10, <1>11, StillSteps

\* What q carries does not change when neither q, the pages nor their contents do.
LEMMA CarriesQuiet ==
  ASSUME Base, Latest, [Next]_vars, UNCHANGED <<pte, fresh>>, NEW q \in UProc,
         Writes(q)' => Writes(q) /\ at'[q] = at[q] /\ sw_pte'[at[q]] = sw_pte[at[q]],
         Fills(q)' => Fills(q) /\ at'[q] = at[q] /\ want'[q] = want[q]
  PROVE  Carries(q)'
<1>1. ASSUME Fills(q)', Sound(want[q])', \A y \in robbed' : pte[y] # at[q]
      PROVE  at[q] \in fresh[want[q]]
  <2>1. Fills(q) /\ Sound(want[q])
    BY <1>1, SoundWant
  <2>2. Clean(at[q])
    BY <1>1, HistoryGrows DEF Clean
  <2> QED BY <2>1, <2>2 DEF Latest, Carries
<1>2. ASSUME Writes(q)', Sound(sw_pte[at[q]])' PROVE at[q] \in fresh[sw_pte[at[q]]]
  <2>1. Writes(q) /\ Sound(sw_pte[at[q]])
    BY <1>2, SoundWrites
  <2> QED BY <2>1 DEF Latest, Carries
<1> QED BY <1>1, <1>2 DEF Carries, Clean, Sound, Alive, Killing, Process

\* A step that changes neither the pages, their contents nor who writes them.
LEMMA LatestQuiet ==
  ASSUME Base, Latest, [Next]_vars, UNCHANGED <<sw_pte, pte, fresh>>,
         \A q \in UProc :
           /\ Writes(q)' <=> Writes(q)
           /\ Writes(q) => at'[q] = at[q]
           /\ Fills(q)' => Fills(q) /\ at'[q] = at[q] /\ want'[q] = want[q]
  PROVE  Latest'
<1>1. ASSUME NEW x \in Page, Sound(x)' PROVE Kept(x)'
  <2>1. Kept(x)
    BY <1>1, SoundBefore DEF Latest
  <2> QED BY <2>1 DEF Kept
<1>2. ASSUME NEW q \in UProc PROVE Carries(q)'
  BY <1>2, CarriesQuiet
<1> QED BY <1>1, <1>2 DEF Latest, Sound, Process

\* The latest content of a sound page is where it is looked for.
LEMMA LatestStep ==
  ASSUME Pool, TlbCoherent, Contents, [Next]_vars
  PROVE Latest'
<1> USE DEF Pool, Contents
<1>p. robbed \subseteq Page /\ robbed \subseteq spoiled
  BY DEF Base, TypeOK, Sharing
<1>u. \A x \in Page : Sound(x) => ~Gone(x)
  BY <1>p DEF Sound, Gone
<1>w. /\ \A q \in UProc : Writes(q) \/ Fills(q) => Moving(q) /\ Inside(q) /\ at[q] \in Frame
      /\ \A q \in UProc : Writes(q) =>
           sw_pte[at[q]] \in Page /\ pte[sw_pte[at[q]]] = BACKING
      /\ \A q \in UProc : Fills(q) => want[q] \in Page /\ pte[want[q]] = BACKING
  BY DEF Base, Place, Inside, Writes, Fills, Moving, Faulted, Unmapped
<1>o. ASSUME UNCHANGED <<sw_pte, pte, fresh>>, NEW p \in UProc, OthersSame(p),
             Writes(p)' <=> Writes(p), Writes(p) => at'[p] = at[p],
             Fills(p)' => Fills(p) /\ at'[p] = at[p] /\ want'[p] = want[p]
      PROVE  Latest'
  BY <1>o, LatestQuiet DEF OthersSame, Writes, Fills
<1>1. CASE Still /\ UNCHANGED fresh
  BY <1>1, LatestQuiet DEF Still, Quiet, Writes, Fills, Moving
<1>2. ASSUME NEW y \in Page, Store(y), Still PROVE Latest'
  <2>1. /\ pc[Process(y)] = "user" /\ tlb[y] \in Frame /\ UNCHANGED <<sw_pte, pte, at, want, pc>>
        /\ fresh' = [x \in Page |-> IF x = y THEN {tlb[y]} ELSE fresh[x] \ {tlb[y]}]
    BY <1>2 DEF Store, table, memory, locals
  <2>2. tlb[y] = pte[y] /\ pte[y] \in Frame /\ Alive(Process(y))
    BY <2>1 DEF TlbCoherent, BACKING, MISS, Frame, Alive, Killing
  <2>3. \A q \in UProc : Moving(q) => pte[y] # at[q] \/ y \in robbed
    BY <2>2 DEF MovingApart, Gone
  <2>4. ASSUME NEW x \in Page, Sound(x)' PROVE Kept(x)'
    <3>1. Sound(x) /\ Kept(x)
      BY <2>4, SoundBefore DEF Latest
    <3>2. CASE x = y
      BY <2>1, <2>2, <3>2, BackingFacts DEF Kept
    <3>3. CASE x # y
      <4>1. fresh'[x] = fresh[x] \ {pte[y]}
        BY <2>1, <2>2, <3>3
      <4>2. pte[x] # BACKING => pte[x] # pte[y]
        <5>1. CASE y \in robbed
          BY <2>2, <3>1, <5>1 DEF Sharing
        <5>2. CASE y \notin robbed
          BY <1>u, <2>2, <3>1, <3>3, <5>2, BackingFacts DEF FramesRegistered, Gone
        <5> QED BY <5>1, <5>2
      <4> QED BY <2>1, <2>2, <3>1, <4>1, <4>2, BackingFacts DEF Kept, Writes
    <3> QED BY <3>2, <3>3
  <2>5. ASSUME NEW q \in UProc PROVE Carries(q)'
    <3>1. ASSUME Writes(q), Sound(sw_pte[at[q]])' PROVE at[q] \in fresh'[sw_pte[at[q]]]
      <4>1. /\ Sound(sw_pte[at[q]]) /\ sw_pte[at[q]] \in Page /\ Moving(q)
            /\ sw_pte[at[q]] # y
        BY <1>w, <2>1, <2>2, <3>1, SoundWrites, BackingFacts
      <4>2. at[q] \in fresh[sw_pte[at[q]]]
        BY <3>1, <4>1 DEF Latest, Carries
      <4>3. pte[y] # at[q]
        BY <2>2, <2>3, <3>1, <4>1 DEF Sharing
      <4> QED BY <2>1, <2>2, <4>1, <4>2, <4>3
    <3>2. ASSUME Fills(q), Sound(want[q])', Clean(at[q])' PROVE at[q] \in fresh'[want[q]]
      <4>1. Sound(want[q]) /\ want[q] \in Page /\ Moving(q) /\ want[q] # y
        BY <1>w, <2>1, <2>2, <3>2, SoundWant, BackingFacts
      <4>2. Clean(at[q])
        BY <2>1, <3>2, HistoryGrows DEF Clean
      <4>3. at[q] \in fresh[want[q]]
        BY <3>2, <4>1, <4>2 DEF Latest, Carries
      <4>4. pte[y] # at[q]
        BY <2>3, <4>1, <4>2 DEF Clean
      <4> QED BY <2>1, <2>2, <4>1, <4>3, <4>4
    <3>3. UNCHANGED <<pc, at, want, sw_pte, pte>>
      BY <2>1
    <3> QED BY <3>1, <3>2, <3>3 DEF Carries, Writes, Fills, Clean, Sound, Alive, Killing,
                                    Process
  <2> QED BY <2>4, <2>5 DEF Latest, Sound, Process
<1>3. ASSUME NEW x \in Page, Fault(x) PROVE Latest'
  <2>1. PICK p \in UProc : /\ OthersSame(p) /\ pc[p] = "user" /\ pc'[p] = "enter"
                           /\ UNCHANGED <<sw_pte, pte, fresh>>
    BY <1>3, FaultEffect
  <2> QED BY <2>1, <1>o DEF Writes, Fills
<1>4. ASSUME NEW p \in UProc, Invalidate(p) PROVE Latest'
  <2>1. /\ Alone(p) /\ OthersSame(p) /\ pc[p] = "invalidate" /\ at[p] \in Frame
        /\ UNCHANGED <<sw_asid, sw_pte, at, want, fresh, robbed, spoiled>>
        /\ \/ /\ sw_asid[at[p]] # NOPROC /\ pc'[p] = "owner" /\ sw_pte[at[p]] \in Page
              /\ pte'[sw_pte[at[p]]] = BACKING
              /\ \A x \in Page : x # sw_pte[at[p]] => pte'[x] = pte[x]
           \/ sw_asid[at[p]] = NOPROC /\ pc'[p] = "read" /\ pte' = pte
    BY <1>4, InvalidateEffect
  <2>2. /\ \A q \in UProc : ~Moving(q) /\ ~Writes(q) /\ ~Fills(q)
        /\ \A q \in UProc : ~Fills(q)' /\ (Writes(q)' => q = p)
    BY <2>1 DEF Alone, OthersSame, Inside, Moving, Writes, Fills
  <2>3. CASE pc'[p] = "read"
    BY <2>1, <2>2, <2>3, <1>o DEF Writes, Fills
  <2>4. CASE pc'[p] = "owner"
    <3>1. PICK z \in Page : z = sw_pte[at[p]]
      BY <2>1, <2>4
    <3>2. Writes(p)' /\ sw_pte'[at'[p]] = z
      BY <2>1, <2>4, <3>1 DEF Writes
    <3>3. ASSUME NEW x \in Page, Sound(x)' PROVE Kept(x)'
      <4>1. Sound(x) /\ Kept(x)
        BY <3>3, SoundBefore DEF Latest
      <4>2. CASE x = z
        BY <2>1, <2>4, <3>1, <3>2, <4>2 DEF Kept
      <4>3. CASE x # z
        BY <2>1, <2>2, <2>4, <3>1, <4>1, <4>3 DEF Kept
      <4> QED BY <4>2, <4>3
    <3>4. ASSUME Sound(z)' PROVE at[p] \in fresh[z]
      <4>1. Sound(z) /\ Kept(z)
        BY <3>4, SoundBefore DEF Latest
      <4>2. pte[z] = at[p]
        BY <2>1, <2>2, <2>4, <3>1, <4>1 DEF Complete
      <4> QED BY <2>1, <4>1, <4>2, BackingFacts DEF Kept
    <3>5. Carries(p)'
      BY <2>1, <2>2, <3>1, <3>4 DEF Carries, Sound, Alive, Killing, Process
    <3>6. \A q \in UProc : q # p => Carries(q)'
      BY <2>2 DEF Carries
    <3> QED BY <3>3, <3>5, <3>6 DEF Latest, Sound, Process
  <2> QED BY <2>1, <2>3, <2>4
<1>5. ASSUME NEW p \in UProc, Evict(p) PROVE Latest'
  <2>1. /\ OthersSame(p) /\ pc[p] = "owner" /\ pc'[p] = "write"
        /\ UNCHANGED <<sw_pte, pte, at, fresh>>
    BY <1>5, EvictEffect
  <2> QED BY <2>1, <1>o DEF Writes, Fills
<1>6. ASSUME NEW p \in UProc, DeviceDone(p, "writing", "written", at[p], BACKING)
      PROVE Latest'
  <2>1. /\ Alone(p) /\ OthersSame(p) /\ pc[p] = "writing" /\ pc'[p] = "written"
        /\ at[p] \in Frame /\ UNCHANGED <<sw_pte, pte, at, want>>
        /\ block[p] = sw_pte[at[p]] /\ block[p] \in Page
        /\ \/ Copied(block[p], at[p], BACKING)
           \/ block[p] \in spoiled' /\ UNCHANGED fresh
    BY <1>6, WriteEffect
  <2>2. /\ \A q \in UProc : ~Fills(q) /\ (Writes(q) => q = p)
        /\ \A q \in UProc : ~Fills(q)' /\ ~Writes(q)'
    BY <2>1 DEF Alone, OthersSame, Inside, Writes, Fills
  <2>3. ASSUME NEW x \in Page, Sound(x)' PROVE Kept(x)'
    <3>1. Sound(x) /\ Kept(x) /\ x \notin spoiled'
      BY <2>3, SoundBefore DEF Latest, Sound
    <3>2. CASE x = block[p]
      <4>1. Copied(x, at[p], BACKING)
        BY <2>1, <3>1, <3>2
      <4>2. at[p] \in fresh[x] /\ pte[x] = BACKING
        BY <1>w, <2>1, <3>1, <3>2 DEF Latest, Carries, Writes
      <4>3. BACKING \in fresh'[x]
        BY <4>1, <4>2 DEF Copied
      <4> QED BY <2>1, <4>2, <4>3 DEF Kept
    <3>3. CASE x # block[p]
      <4>1. fresh'[x] = fresh[x]
        BY <2>1, <3>3 DEF Copied
      <4> QED BY <2>1, <2>2, <3>1, <3>3, <4>1 DEF Kept
    <3> QED BY <3>2, <3>3
  <2> QED BY <2>2, <2>3 DEF Latest, Carries, Sound, Process
<1>7. ASSUME NEW p \in UProc, Written(p) PROVE Latest'
  <2>1. /\ OthersSame(p) /\ pc[p] = "written" /\ pc'[p] \in {"read", "kill"}
        /\ UNCHANGED <<sw_pte, pte, fresh>>
    BY <1>7, WrittenEffect
  <2> QED BY <2>1, <1>o DEF Writes, Fills
<1>8. ASSUME NEW p \in UProc, DeviceDone(p, "reading", "done", BACKING, at[p])
      PROVE Latest'
  <2>1. /\ Alone(p) /\ OthersSame(p) /\ pc[p] = "reading" /\ pc'[p] = "done"
        /\ at[p] \in Frame /\ UNCHANGED <<sw_pte, pte, at, want>>
        /\ want[p] \in Page
        /\ \/ Copied(want[p], BACKING, at[p])
           \/ want[p] \in spoiled' /\ UNCHANGED fresh
    BY <1>8, ReadEffect
  <2>2. \A q \in UProc : /\ ~Writes(q) /\ ~Writes(q)'
                         /\ q # p => ~Fills(q)'
    BY <2>1 DEF Alone, OthersSame, Inside, Writes, Fills
  <2>3. pte[want[p]] = BACKING /\ Moving(p)
    BY <2>1 DEF Faulted, Unmapped, Moving
  <2>4. ASSUME NEW x \in Page, Sound(x)' PROVE Kept(x)'
    <3>1. Sound(x) /\ Kept(x)
      BY <2>4, SoundBefore DEF Latest
    <3>2. pte[x] # at[p]
      BY <1>u, <2>3, <3>1 DEF MovingApart
    <3>3. \A f : f \in fresh[x] /\ f # at[p] => f \in fresh'[x]
      BY <2>1 DEF Copied
    <3> QED BY <2>1, <2>2, <3>1, <3>2, <3>3, BackingFacts DEF Kept
  <2>5. ASSUME NEW x \in Page, x = want[p], Sound(x)' PROVE at[p] \in fresh'[x]
    <3>1. Sound(x) /\ Kept(x) /\ x \notin spoiled'
      BY <2>5, SoundBefore DEF Latest, Sound
    <3>2. BACKING \in fresh[x]
      BY <2>2, <2>3, <2>5, <3>1 DEF Kept
    <3> QED BY <2>1, <2>5, <3>1, <3>2 DEF Copied
  <2>6. Carries(p)'
    BY <2>1, <2>2, <2>5 DEF Carries, Sound, Alive, Killing, Process
  <2>7. \A q \in UProc : q # p => Carries(q)'
    BY <2>2 DEF Carries
  <2> QED BY <2>4, <2>6, <2>7 DEF Latest, Sound, Process
<1>9. ASSUME NEW p \in UProc, Done(p) PROVE Latest'
  <2>1. /\ OthersSame(p) /\ pc[p] = "done" /\ UNCHANGED <<sw_pte, pte, want, fresh>>
        /\ (pc'[p] = "register" /\ at'[p] = at[p]) \/ pc'[p] = "kill"
    BY <1>9, DoneEffect
  <2> QED BY <2>1, <1>o DEF Writes, Fills
<1>10. ASSUME NEW p \in UProc, Register(p) PROVE Latest'
  <2>1. /\ Alone(p) /\ OthersSame(p) /\ pc[p] = "register" /\ pc'[p] = "map"
        /\ UNCHANGED <<pte, at, want, fresh>>
    BY <1>10, RegisterEffect
  <2>2. \A q \in UProc : ~Writes(q) /\ ~Writes(q)' /\ (Fills(q)' => Fills(q))
    BY <2>1 DEF Alone, OthersSame, Inside, Writes, Fills
  <2>3. ASSUME NEW x \in Page, Sound(x)' PROVE Kept(x)'
    <3>1. Kept(x)
      BY <2>3, SoundBefore DEF Latest
    <3> QED BY <2>1, <2>2, <3>1 DEF Kept
  <2>4. ASSUME NEW q \in UProc PROVE Carries(q)'
    BY <2>1, <2>2, <2>4, CarriesQuiet
  <2> QED BY <2>3, <2>4 DEF Latest, Sound, Process
<1>11. ASSUME NEW p \in UProc, Map(p) PROVE Latest'
  <2>1. /\ Alone(p) /\ OthersSame(p) /\ pc[p] = "map" /\ pc'[p] = "leave"
        /\ at[p] \in Frame /\ UNCHANGED fresh /\ want[p] \in Page
        /\ pte'[want[p]] = at[p]
        /\ \A x \in Page : x # want[p] => pte'[x] = pte[x]
        /\ \/ want[p] \in spoiled'
           \/ \A y \in robbed : pte[y] # at[p]
    BY <1>11, MapEffect
  <2>2. \A q \in UProc : ~Writes(q) /\ ~Writes(q)' /\ ~Fills(q)'
    BY <2>1 DEF Alone, OthersSame, Inside, Writes, Fills
  <2>3. ASSUME NEW x \in Page, Sound(x)' PROVE Kept(x)'
    <3>1. Sound(x) /\ Kept(x) /\ x \notin spoiled'
      BY <2>3, SoundBefore DEF Latest, Sound
    <3>2. CASE x = want[p]
      <4>1. at[p] \in fresh[x]
        BY <2>1, <3>1, <3>2 DEF Latest, Carries, Fills, Clean
      <4> QED BY <2>1, <3>2, <4>1, BackingFacts DEF Kept
    <3>3. CASE x # want[p]
      BY <2>1, <2>2, <3>1, <3>3 DEF Kept
    <3> QED BY <3>2, <3>3
  <2> QED BY <2>2, <2>3 DEF Latest, Carries, Sound, Process
<1>12. ASSUME NEW p \in UProc, KillFree(p) PROVE Latest'
  <2>1. /\ OthersSame(p) /\ pc[p] = "free" /\ pc'[p] = "kill"
        /\ UNCHANGED <<sw_pte, pte, fresh>>
    BY <1>12, KillFreeEffect
  <2> QED BY <2>1, <1>o DEF Writes, Fills
<1> QED
  BY <1>1, <1>2, <1>3, <1>4, <1>5, <1>6, <1>7, <1>8, <1>9, <1>10, <1>11, <1>12,
     StillSteps

\* At the start every page is in its backing store.
LEMMA InitPool == Init => Pool /\ Contents
<1> SUFFICES ASSUME Init PROVE Pool /\ Contents
  OBVIOUS
<1>1. Base
  BY InitBase
<1>2. \A p \in UProc : ~Moving(p) /\ ~Writes(p) /\ ~Fills(p) /\ pc[p] = "user"
  BY DEF Init, Moving, Writes, Fills
<1>3. Owned /\ MovingApart
  BY <1>2 DEF Init, Owned, Knows, MovingApart
<1>4. FramesRegistered
  BY DEF Init, FramesRegistered
<1>5. Faulted /\ Told /\ Complete
  BY <1>2 DEF Init, Faulted, Unmapped, Told, Blames, Complete
<1>6. Sharing
  BY DEF Init, Sharing
<1>7. Latest
  BY <1>2 DEF Init, Latest, Kept, Carries
<1> QED BY <1>1, <1>3, <1>4, <1>5, <1>6, <1>7 DEF Pool, Contents

\* The parts of Pool are inductive together.
LEMMA PoolStep ==
  ASSUME Pool, [Next]_vars
  PROVE Pool'
BY BaseStep, OwnedStep, RegisteredStep, MovingStep DEF Pool

\* The parts of Contents are inductive together, given Pool.
LEMMA ContentsStep ==
  ASSUME Pool, TlbCoherent, Contents, [Next]_vars
  PROVE  Contents'
<1>1. Base /\ Owned /\ Faulted /\ Told
  BY DEF Pool, Contents
<1>2. Faulted' /\ Told'
  BY <1>1, FaultedStep, ToldStep
<1> QED BY <1>2, SharingStep, CompleteStep, LatestStep DEF Contents

\* Pool holds in every reachable state.
LEMMA PoolInvariant == Spec => []Pool
<1>1. Init => Pool
  BY InitPool
<1>2. Pool /\ [Next]_vars => Pool'
  BY PoolStep
<1> QED BY <1>1, <1>2, PTL DEF Spec

----------------------------------------------------------------------------
\* The frame of every page of a live process stays its own in the swap pool table,
\* through all evictions, page faults, failed operations and ends of processes, but
\* for the pages that a SIGKILL has robbed of their frame at the moment it did.
THEOREM FramesStayRegistered == Spec => []FramesRegistered
<1>1. Pool => FramesRegistered
  BY DEF Pool
<1> QED BY <1>1, PoolInvariant, PTL

\* Whoever is killed while pager() evicts a page, the page goes to its own place in
\* the backing store, or nobody needs it any more and it goes to the device that
\* does not exist: no other page is written over.
THEOREM EvictsNowhereElse == Spec => []NeverElsewhere
<1>1. Pool => NeverElsewhere
  BY DEF Pool, Owned, Knows, Gone, NeverElsewhere
<1> QED BY <1>1, PoolInvariant, PTL

\* A page that is evicted and comes back has what its process wrote last, whatever
\* happens to other pages: an I/O error or a robbery damages no page but those that
\* it spoils.
THEOREM NeverStale == Spec => []NoStalePage
<1>1. Init => Contents
  BY InitPool
<1>2. Pool /\ TlbCoherent /\ Contents /\ [Next]_vars => Contents'
  BY ContentsStep
<1>3. Pool /\ TlbCoherent /\ Contents => NoStalePage
  <2> SUFFICES ASSUME Pool, TlbCoherent, Contents, NEW x \in Page, x \notin spoiled,
                      pc[Process(x)] = "user", tlb[x] \in Frame
               PROVE  tlb[x] \in fresh[x]
    BY DEF NoStalePage
  <2>1. tlb[x] = pte[x] /\ pte[x] # BACKING
    BY DEF TlbCoherent, MISS, BACKING, Frame
  <2>2. Sound(x)
    BY DEF Sound, Alive, Killing
  <2> QED BY <2>1, <2>2 DEF Contents, Latest, Kept
<1> QED BY <1>1, <1>2, <1>3, PoolInvariant, TlbCorrect, PTL DEF Spec
====
