---- MODULE InitProcProofs ----
(***************************************************************************)
(* Proofs about the end of the user processes, for every number of them    *)
(* and of PCBs.                                                            *)
(***************************************************************************)
EXTENDS InitProc, FiniteSetTheorems, TLAPS

\* The P's that test() has made since it cleared Master_Sem.
Waits == id - 1

\* Until Master_Sem is cleared it counts the V's; from then on it counts those
\* that come, less the P's.
Account ==
  /\ test \in {"create", "clear"} => Master_Sem = Cardinality(Signalled)
  /\ test \in {"wait", "blocked", "end"} /\ ~failed =>
       Master_Sem + Waits + lost = Cardinality(Signalled)

\* Where test() is, in terms of Master_Sem and of its loop.
Place ==
  /\ failed => test \in {"end", "dead"}
  /\ test = "wait" => Master_Sem >= 0
  /\ test = "blocked" => Master_Sem = -1
  /\ test = "end" /\ ~failed => Master_Sem >= 0 /\ Waits = UPROCMAX
  /\ test = "create" => \A u \in UProc : u >= id => uproc[u] = "none"

IInv == TypeOK /\ Place /\ Account

\* The processes can be counted.
LEMMA UProcFinite == IsFiniteSet(UProc) /\ Cardinality(UProc) = UPROCMAX
<1>1. IsFiniteSet(1 .. UPROCMAX)
      /\ Cardinality(1 .. UPROCMAX) = IF 1 > UPROCMAX THEN 0 ELSE UPROCMAX - 1 + 1
  BY FS_Interval, UprocAssumption
<1> QED BY <1>1, UprocAssumption DEF UProc

\* So can those that have made their V.
LEMMA SignalledFinite ==
  IsFiniteSet(Signalled) /\ Cardinality(Signalled) \in Nat
    /\ Cardinality(Signalled) <= UPROCMAX
    /\ (Cardinality(Signalled) = UPROCMAX => Signalled = UProc)
<1>1. Signalled \in SUBSET UProc
  BY DEF Signalled
<1> QED BY <1>1, UProcFinite, FS_Subset, FS_CardinalityType

\* And those that SYS2 of test() takes with it.
LEMMA OrphansFinite == IsFiniteSet(Orphans) /\ Cardinality(Orphans) \in Nat
<1>1. Orphans \in SUBSET UProc
  BY DEF Orphans
<1> QED BY <1>1, UProcFinite, FS_Subset, FS_CardinalityType

\* The account holds before the first step.
LEMMA InitIInv == Init => IInv
<1> SUFFICES ASSUME Init PROVE IInv
  OBVIOUS
<1>1. TypeOK
  <2>1. id \in 1 .. UPROCMAX + 1 /\ free \in Nat /\ lost \in 0 .. UPROCMAX
    BY UprocAssumption, MaxprocAssumption DEF Init
  <2>2. uproc \in [UProc -> Stage]
    BY DEF Init, Stage
  <2>3. test \in Phase /\ Master_Sem \in Int
    BY DEF Init, Phase
  <2>4. failed \in BOOLEAN
    BY DEF Init
  <2> QED BY <2>1, <2>2, <2>3, <2>4 DEF TypeOK
<1>2. Signalled = {} /\ Cardinality(Signalled) = 0
  BY FS_EmptySet DEF Init, Signalled
<1> QED BY <1>1, <1>2 DEF Init, IInv, Place, Account

\* The V of a process: one more has signalled.
LEMMA VerhogenIInv ==
  ASSUME IInv, NEW u \in UProc, Verhogen(u) PROVE IInv'
<1> USE DEF IInv
<1>1. TypeOK'
  BY UprocAssumption DEF Verhogen, Woken, TypeOK, Phase, Stage
<1>2. Signalled' = Signalled \cup {u} /\ u \notin Signalled
  BY DEF Verhogen, Signalled, TypeOK
<1>3. Cardinality(Signalled') = Cardinality(Signalled) + 1
  BY <1>2, SignalledFinite, FS_AddElement
<1>4. Place'
  <2>1. test' = "create" => test = "create"
    BY DEF Verhogen, Woken
  <2>2. test' = "create" => \A v \in UProc : v >= id' => uproc'[v] = "none"
    BY <2>1 DEF Place, Verhogen, TypeOK
  <2> QED BY <2>2 DEF Place, Verhogen, Woken, TypeOK, Waits
<1>5. Account'
  <2>1. /\ Master_Sem' = Master_Sem + 1 /\ Waits' = Waits /\ failed' = failed
        /\ lost' = lost
    BY DEF Verhogen, Waits
  <2>2. /\ test' \in {"wait", "blocked", "end"} => test \in {"wait", "blocked", "end"}
        /\ test' \in {"create", "clear"} => test \in {"create", "clear"}
    BY DEF Verhogen, Woken
  <2>3. Master_Sem \in Int /\ Waits \in Int /\ Cardinality(Signalled) \in Int
        /\ lost \in Int
    BY SignalledFinite DEF TypeOK, Waits
  <2> QED BY <1>3, <2>1, <2>2, <2>3 DEF Account
<1> QED BY <1>1, <1>4, <1>5

\* A step of test() itself.
LEMMA TestIInv ==
  ASSUME IInv, Test PROVE IInv'
<1> USE DEF IInv
<1>1. CASE InstantiateProc
  <2>1. TypeOK'
    <3>1. id' \in 1 .. UPROCMAX + 1 /\ free' \in Nat
      BY <1>1, UprocAssumption DEF InstantiateProc, TypeOK
    <3>2. uproc' \in [UProc -> Stage]
      BY <1>1 DEF InstantiateProc, TypeOK, Stage
    <3> QED BY <1>1, <3>1, <3>2 DEF InstantiateProc, TypeOK
  <2>2. Signalled' = Signalled
    BY <1>1 DEF InstantiateProc, Signalled, Place, TypeOK, UProc
  <2>3. \A u \in UProc : u >= id' => uproc'[u] = "none"
    BY <1>1 DEF InstantiateProc, Place, TypeOK, UProc
  <2> QED BY <1>1, <2>1, <2>2, <2>3 DEF InstantiateProc, Place, Account
<1>2. CASE InstantiateFails
  BY <1>2, UprocAssumption DEF InstantiateFails, TypeOK, Phase, Place, Account, Signalled
<1>3. CASE Created
  BY <1>3 DEF Created, TypeOK, Phase, Place, Account, Signalled
<1>4. CASE ClearMaster_Sem
  <2>1. TypeOK'
    BY <1>4, UprocAssumption, SignalledFinite DEF ClearMaster_Sem, TypeOK, Phase, Account
  <2>2. Signalled' = Signalled /\ Waits' = 0 /\ Master_Sem' = 0
    BY <1>4 DEF ClearMaster_Sem, Signalled, Waits
  <2>3. lost' = Cardinality(Signalled)
    BY <1>4 DEF ClearMaster_Sem, Account
  <2> QED BY <1>4, <2>1, <2>2, <2>3, SignalledFinite
          DEF ClearMaster_Sem, Place, Account
<1>5. CASE Passeren
  <2>1. TypeOK'
    BY <1>5, UprocAssumption DEF Passeren, LastP, TypeOK, Phase
  <2>2. /\ Master_Sem' = Master_Sem - 1 /\ Waits' = Waits + 1
        /\ Signalled' = Signalled /\ failed' = failed /\ test = "wait" /\ lost' = lost
        /\ test' = IF Master_Sem - 1 < 0 THEN "blocked" ELSE "wait"
    BY <1>5 DEF Passeren, Signalled, Waits, TypeOK
  <2>3. Place'
    BY <2>2 DEF Place, TypeOK
  <2>4. Account'
    <3>1. /\ Master_Sem \in Int /\ Waits \in Int /\ Cardinality(Signalled) \in Int
          /\ lost \in Int
      BY SignalledFinite DEF TypeOK, Waits
    <3> QED BY <2>2, <3>1 DEF Account
  <2> QED BY <2>1, <2>3, <2>4
<1>6. CASE Waited
  <2>1. Waits = UPROCMAX
    BY <1>6, UprocAssumption DEF Waited, LastP, Waits
  <2> QED BY <1>6, <2>1 DEF Waited, TypeOK, Phase, Place, Account, Signalled, Waits
<1>7. CASE Terminate
  <2>1. TypeOK'
    BY <1>7, OrphansFinite DEF Terminate, TypeOK, Phase, Stage
  <2> QED BY <1>7, <2>1 DEF Terminate, Place, Account
<1> QED BY <1>1, <1>2, <1>3, <1>4, <1>5, <1>6, <1>7 DEF Test

\* Every step of test() and of the processes keeps the account.
LEMMA NextIInv == IInv /\ [Next]_vars => IInv'
<1> SUFFICES ASSUME IInv, [Next]_vars PROVE IInv'
  OBVIOUS
<1>1. CASE Test
  BY <1>1, TestIInv
<1>2. ASSUME NEW u \in UProc, SIGKILL(u) PROVE IInv'
  <2>1. CASE Verhogen(u)
    BY <2>1, VerhogenIInv
  <2>2. CASE Termprocess(u)
    <3>1. TypeOK'
      BY <2>2 DEF Termprocess, TypeOK, Stage, IInv
    <3>2. Signalled' = Signalled
      BY <2>2 DEF Termprocess, Signalled, TypeOK, IInv
    <3> QED BY <2>2, <3>1, <3>2 DEF Termprocess, IInv, Place, Account, Waits
  <2> QED BY <1>2, <2>1, <2>2 DEF SIGKILL
<1>3. CASE UNCHANGED vars
  BY <1>3 DEF vars, IInv, TypeOK, Place, Account, Signalled, Waits
<1> QED BY <1>1, <1>2, <1>3 DEF Next, Halted

\* The account of Master_Sem is an inductive invariant.
THEOREM AccountInvariant == Spec => []IInv
<1> QED BY InitIInv, NextIInv, PTL DEF Spec

\* Every variable keeps its type.
THEOREM TypeCorrect == Spec => []TypeOK
<1>1. IInv => TypeOK
  BY DEF IInv
<1> QED BY <1>1, AccountInvariant, PTL

\* When all P's are done, all V's are.
LEMMA TestLastLemma == IInv => TestLast
<1> SUFFICES ASSUME IInv, test = "end", ~failed PROVE Signalled = UProc
  BY DEF TestLast
<1>1. /\ Master_Sem + Waits + lost = Cardinality(Signalled) /\ Master_Sem >= 0
      /\ Waits = UPROCMAX /\ Master_Sem \in Int /\ lost \in Nat
  BY DEF IInv, Account, Place, TypeOK
<1>2. Cardinality(Signalled) = UPROCMAX
  BY <1>1, SignalledFinite, UprocAssumption
<1> QED BY <1>2, SignalledFinite

\* test() terminates only after every process has made its V, even when some of
\* the V's are lost: it then waits too long, never too short.
THEOREM WaitsForAll == Spec => []TestLast
<1> QED BY AccountInvariant, TestLastLemma, PTL

\* The semaphore and the loop agree: test() is blocked exactly while it has made
\* one P more than there were V's after line 101.
THEOREM MasterSemCorrect == Spec => []MasterLaw
<1>1. IInv => MasterLaw
  <2> SUFFICES ASSUME IInv PROVE MasterLaw
    OBVIOUS
  <2>1. /\ Master_Sem \in Int /\ Waits \in Int /\ Cardinality(Signalled) \in Int
        /\ lost \in Int
    BY SignalledFinite DEF IInv, TypeOK, Waits
  <2> QED BY <2>1 DEF IInv, Account, Place, MasterLaw, Waits
<1> QED BY <1>1, AccountInvariant, PTL

\* No process is killed in the middle of its program, unless a creation failed.
THEOREM NobodyCutShort == Spec => OnlyFinishedDie
<1>1. IInv /\ [Next]_vars =>
        [\A u \in UProc : uproc[u] = "runs" /\ uproc'[u] = "dead" => failed]_vars
  <2> SUFFICES ASSUME IInv, Next, ~failed, NEW u \in UProc,
                      uproc[u] = "runs", uproc'[u] = "dead"
               PROVE FALSE
    OBVIOUS
  <2>1. Terminate
    BY DEF Next, Test, SIGKILL, InstantiateProc, InstantiateFails, Created,
           ClearMaster_Sem, Passeren, Waited, Verhogen, Termprocess, Halted, vars,
           IInv, TypeOK
  <2>2. Signalled = UProc
    BY <2>1, TestLastLemma DEF Terminate, TestLast
  <2> QED BY <2>2 DEF Signalled
<1> QED BY <1>1, AccountInvariant, PTL DEF Spec, OnlyFinishedDie
====
