---- MODULE SupportProofs ----
(***************************************************************************)
(* Proofs about the system calls of a user process, for strings and lines  *)
(* of every length.                                                        *)
(***************************************************************************)
EXTENDS SupportCalls, SequenceTheorems, TLAPS


\* The program points where the process uses its device, and has its semaphore.
Holding == {"loop", "fetch", "fetch fault", "sys5", "waiting", "check", "store",
            "store fault", "V"}
Serving == Holding \cup {"general", "P", "return"}

\* Where interrupts are masked.
Masking == {"fetch", "fetch fault", "sys5", "waiting", "check"}

\* A call that may use a device.
Legal == call.kuseg /\ (Reads \/ (Writes /\ LegalString))

\* Interrupts are masked, a device works and the semaphore is taken exactly at
\* these points; the call that is served there is one that was let through.
Protocol ==
  /\ pc # "dead" =>
       /\ masked = IF pc \in Masking THEN TRUE ELSE FALSE
       /\ \A m \in Mutex : mutex[m] = IF pc \in Holding /\ m = sem THEN 0 ELSE 1
  /\ \A d \in SubDev : devReg[d] # "ready" <=> pc \in {"sys5", "waiting"} /\ d = dev
  /\ pc \in Serving => epc = 4
  /\ pc \in Holding \cup {"P"} => Legal
  /\ pc = "return" => Legal \/ call.n = GET_TOD
  /\ pc = "fetch fault" => Writes
  /\ pc \in {"store", "store fault"} => Reads
  /\ pc \in {"general", "P"} =>
       printed = <<>> /\ typed = <<>> /\ buffer = <<>> /\ hidden = 0
  /\ call.n # WRITEPRINTER => hidden = 0

\* The operation in progress has succeeded, as far as the handler can tell.
Came == IF pc = "check" THEN op_result = READY ELSE devReg[dev] = "done"

\* Of the first k characters all came out, in order, but for the hidden errors.
Sent(k) ==
  /\ Len(printed) + hidden = k
  /\ InOrder
  /\ \A i \in 1 .. Len(printed) : printed[i] <= k

Writing ==
  Writes =>
    /\ pc = "loop" => read \in 0 .. call.len /\ Sent(read)
    /\ pc \in {"fetch", "fetch fault"} => read \in 0 .. (call.len - 1) /\ Sent(read)
    /\ pc \in {"sys5", "waiting"} => char = read + 1
    /\ pc \in {"sys5", "waiting", "check"} =>
         read \in 0 .. (call.len - 1) /\ Sent(IF Came THEN read + 1 ELSE read)
    /\ pc \in {"V", "return"} =>
         \/ read = call.len /\ Sent(call.len)
         \/ read = -ERROR /\ \E k \in 0 .. (call.len - 1) : Sent(k)

\* No newline yet.
Open(s) == Len(s) < MaxLine /\ \A i \in 1 .. Len(s) : ~s[i]

\* A character came that is not stored yet.
Arrived == \E c \in Char : typed = Append(buffer, c) /\ (Len(buffer) = MaxLine - 1 => c)

Reading ==
  Reads =>
    /\ pc \in {"loop", "fetch"} => typed = buffer
    /\ pc \in {"sys5", "waiting", "check"} => IF Came THEN Arrived ELSE typed = buffer
    /\ pc \in {"store", "store fault"} => Arrived
    /\ pc \in Holding \ {"V"} => read = Len(buffer) /\ Open(buffer)
    /\ pc \in {"V", "return"} =>
         /\ typed = buffer
         /\ \/ read = -ERROR
            \/ read = Len(buffer) /\ read \in 1 .. MaxLine
               /\ \A i \in 1 .. read : buffer[i] <=> i = read

Result == pc = "return" => call.n = GET_TOD \/ v0 = read

Inv == TypeOK /\ Protocol /\ Writing /\ Reading /\ Result

----------------------------------------------------------------------------
\* A call is a read or a write or neither, and has one device.
LEMMA CallFacts ==
  ASSUME TypeOK
  PROVE  /\ ~(Reads /\ Writes) /\ dev \in SubDev /\ sem \in Mutex
         /\ (Reads \/ Writes => call.n # GET_TOD)
         /\ (Reads => dev = "recv") /\ (Writes => dev # "recv")
         /\ MAXSTRLENG \in Nat /\ MaxLine \in Nat /\ MaxLine > 0
         /\ call.len \in Int /\ (LegalString => call.len \in 0 .. MAXSTRLENG)
BY StringAssumption, BoundAssumption
   DEF TypeOK, Call, Reads, Writes, dev, sem, SubDev, Mutex, LegalString, GET_TOD,
       WRITEPRINTER, WRITETERMINAL, READTERMINAL

\* One more character came out, or one more error was hidden.
LEMMA SentMore ==
  ASSUME NEW k \in Nat, TypeOK, Sent(k)
  PROVE  /\ printed' = Append(printed, k + 1) /\ hidden' = hidden => Sent(k + 1)'
         /\ printed' = printed /\ hidden' = hidden + 1 => Sent(k + 1)'
         /\ printed' = printed /\ hidden' = hidden => Sent(k)'
         /\ hidden <= k
<1>1. PICK n \in Nat : n = Len(printed)
  BY DEF TypeOK
<1>2. printed \in Seq(Int) /\ hidden \in Nat /\ n + hidden = k
  BY <1>1, StringAssumption DEF TypeOK, Sent
<1>3. /\ \A i, j \in 1 .. n : i < j => printed[i] < printed[j]
      /\ \A i \in 1 .. n : printed[i] <= k
      /\ \A i \in 1 .. n : printed[i] \in Int
  BY <1>1, <1>2 DEF Sent, InOrder
<1>4. ASSUME printed' = Append(printed, k + 1), hidden' = hidden
      PROVE  Sent(k + 1)'
  <2>1. /\ Len(printed') = n + 1 /\ printed'[n + 1] = k + 1
        /\ \A i \in 1 .. n : printed'[i] = printed[i]
    BY <1>1, <1>2, <1>4
  <2>2. \A i \in 1 .. n + 1 : i \in 1 .. n \/ i = n + 1
    OBVIOUS
  <2>3. ASSUME NEW i \in 1 .. n + 1
        PROVE  printed'[i] <= k + 1 /\ (i \in 1 .. n => printed'[i] < k + 1)
    BY <1>3, <2>1, <2>2
  <2>4. ASSUME NEW i \in 1 .. n + 1, NEW j \in 1 .. n + 1, i < j
        PROVE  printed'[i] < printed'[j]
    <3>1. i \in 1 .. n
      BY <2>4
    <3>2. CASE j \in 1 .. n
      BY <1>3, <2>1, <2>4, <3>1, <3>2
    <3>3. CASE j = n + 1
      BY <2>1, <2>3, <3>1, <3>3
    <3> QED BY <2>2, <3>2, <3>3
  <2>5. n + 1 + hidden = k + 1
    BY <1>2
  <2> QED BY <1>4, <2>1, <2>3, <2>4, <2>5 DEF Sent, InOrder
<1>5. ASSUME printed' = printed, hidden' = hidden + 1
      PROVE  Sent(k + 1)'
  <2>1. \A i \in 1 .. n : printed[i] <= k + 1
    BY <1>3
  <2>2. n + (hidden + 1) = k + 1
    BY <1>2
  <2> QED BY <1>1, <1>3, <1>5, <2>1, <2>2 DEF Sent, InOrder
<1>6. printed' = printed /\ hidden' = hidden => Sent(k)'
  BY DEF Sent, InOrder
<1> QED BY <1>2, <1>4, <1>5, <1>6

\* At the start everything is free.
LEMMA InvInit == Init => Inv
<1> SUFFICES ASSUME Init PROVE Inv
  OBVIOUS
<1>1. TypeOK
  <2>1. call \in Call
    BY StringAssumption DEF Init, Call, GET_TOD
  <2>2. 0 \in Count /\ 0 \in 0 .. MAXSTRLENG
    BY StringAssumption, BoundAssumption DEF Count, ERROR
  <2>3. <<>> \in Seq(Char) /\ <<>> \in Seq(1 .. MAXSTRLENG)
    OBVIOUS
  <2> QED BY <2>1, <2>2, <2>3 DEF Init, TypeOK, Label, Mutex, SubDev, READY
<1>2. Protocol
  BY DEF Init, Protocol, Holding, Serving, Masking
<1>3. Writing /\ Reading /\ Result
  BY DEF Init, Writing, Reading, Result, Writes, Reads, WRITEPRINTER, WRITETERMINAL,
         READTERMINAL, GET_TOD, Holding
<1> QED BY <1>1, <1>2, <1>3 DEF Inv

\* The device goes with the call.
LEMMA SameCall ==
  ASSUME call' = call
  PROVE  sem' = sem /\ dev' = dev /\ Legal' = Legal /\ Reads' = Reads /\ Writes' = Writes
BY DEF sem, dev, Legal, LegalString, Reads, Writes

\* An interrupt comes from the device that is waited for.
LEMMA InterruptFacts ==
  ASSUME Inv, NEW d \in SubDev, Interrupt(d)
  PROVE  d = dev /\ pc = "waiting" /\ pc' = "check"
<1>1. d = dev /\ pc \in {"sys5", "waiting"}
  BY DEF Interrupt, Inv, Protocol
<1>2. CASE pc = "sys5"
  <2>1. masked = TRUE
    BY <1>2 DEF Inv, Protocol, Masking
  <2>2. ~masked
    BY <1>2 DEF Interrupt, Interruptible
  <2> QED BY <2>1, <2>2
<1>3. CASE pc = "waiting"
  BY <1>1, <1>3 DEF Interrupt
<1> QED BY <1>1, <1>2, <1>3

\* Who holds what, step by step.
LEMMA ProtocolNext ==
  ASSUME Inv, [Next]_vars
  PROVE  Protocol'
<1>1. CASE Syscall
  BY <1>1 DEF Syscall, Goto, device, result, Inv, Protocol, Holding, Serving, Masking
<1>2. CASE Trap
  BY <1>2, SameCall
     DEF Trap, Goto, device, result, data, Inv, Protocol, Holding, Serving, Masking
<1>16. CASE SIGKILL
  BY <1>16, SameCall
     DEF SIGKILL, Goto, device, result, data, Inv, Protocol, Holding, Serving, Masking
<1>3. CASE SyscallExHandler
  BY <1>3, SameCall, CallFacts
     DEF SyscallExHandler, Goto, device, result, data, Inv, Protocol, Holding, Serving,
         Masking,
         Legal
<1>4. CASE Passeren
  <2>2. \A m \in Mutex : mutex'[m] = IF m = sem THEN 0 ELSE 1
    BY <1>4, CallFacts DEF Passeren, Goto, Inv, TypeOK, Protocol, Holding
  <2> QED BY <1>4, <2>2, SameCall DEF Passeren, Goto, data, Inv, Protocol, Holding,
               Serving, Masking
<1>5. CASE Loop
  <2>1. CASE pc' = "fetch"
    BY <1>5, <2>1, SameCall
       DEF Loop, DisableInterrupts, Goto, device, result, data, Inv, Protocol, Holding,
           Serving, Masking
  <2>2. CASE pc' = "V"
    BY <1>5, <2>2, SameCall
       DEF Loop, DisableInterrupts, Goto, device, result, data, Inv, Protocol, Holding,
           Serving, Masking
  <2> QED BY <1>5, <2>1, <2>2 DEF Loop, Goto
<1>6. CASE Command
  BY <1>6, SameCall, CallFacts
     DEF Command, Goto, result, data, Inv, Protocol, Holding, Serving, Masking, TypeOK
<1>7. CASE IOWait
  BY <1>7, SameCall
     DEF IOWait, Goto, device, result, data, Inv, Protocol, Holding, Serving, Masking
<1>8. CASE Check
  BY <1>8, SameCall
     DEF Check, device, data, Inv, Protocol, Holding, Serving, Masking
<1>9. CASE StoreChar
  BY <1>9, SameCall
     DEF StoreChar, device, Inv, Protocol, Holding, Serving, Masking
<1>10. CASE Verhogen
  <2>2. \A m \in Mutex : mutex'[m] = 1
    BY <1>10, CallFacts DEF Verhogen, Released, Goto, Inv, TypeOK, Protocol, Holding
  <2> QED BY <1>10, <2>2, SameCall DEF Verhogen, Goto, data, Inv, Protocol, Holding,
               Serving, Masking
<1>11. CASE Return
  BY <1>11, SameCall
     DEF Return, Goto, device, result, data, Inv, Protocol, Holding, Serving, Masking
<1>12. CASE PageFault
  BY <1>12, SameCall
     DEF PageFault, Goto, device, result, data, Inv, Protocol, Holding, Serving, Masking
<1>17. CASE pager
  BY <1>17, SameCall
     DEF pager, Goto, device, result, data, Inv, Protocol, Holding, Serving, Masking
<1>13. CASE \E d \in SubDev : DeviceDone(d)
  <2>1. PICK d \in SubDev : DeviceDone(d)
    BY <1>13
  <2>2. \A e \in SubDev : devReg'[e] = "ready" <=> devReg[e] = "ready"
    BY <2>1 DEF DeviceDone, Inv, TypeOK
  <2>3. pc \in {"sys5", "waiting"}
    BY <2>1 DEF DeviceDone, Inv, Protocol
  <2> QED BY <2>1, <2>2, <2>3, SameCall
       DEF DeviceDone, result, Inv, Protocol, Holding, Serving, Masking
<1>14. CASE \E d \in SubDev : Interrupt(d)
  <2>1. PICK d \in SubDev : Interrupt(d)
    BY <1>14
  <2>2. d = dev /\ pc = "waiting"
    BY <2>1, InterruptFacts
  <2>3. /\ pc' = "check" /\ devReg' = [devReg EXCEPT ![d] = "ready"]
        /\ UNCHANGED <<call, epc, masked, mutex, char, read, v0, buffer, printed, typed>>
    BY <2>1, <2>2 DEF Interrupt
  <2>4. \A e \in SubDev : devReg'[e] = "ready"
    BY <2>2, <2>3 DEF Inv, TypeOK, Protocol
  <2>5. call.n # WRITEPRINTER => hidden' = hidden
    BY <2>1, <2>2 DEF Interrupt, dev, READY, ERROR
  <2> QED BY <2>2, <2>3, <2>4, <2>5, SameCall
       DEF Inv, Protocol, Holding, Serving, Masking
<1>15. CASE UNCHANGED vars
  BY <1>15, SameCall DEF vars, device, result, data, Inv, Protocol
<1> QED BY <1>1, <1>2, <1>16, <1>3, <1>4, <1>5, <1>6, <1>7, <1>8, <1>9, <1>10, <1>11,
             <1>12, <1>17,
           <1>13, <1>14, <1>15 DEF Next, Handler, Access, Dead

\* The values that the loop's variable takes.
LEMMA CountFacts ==
  /\ -ERROR \in Count
  /\ \A k \in 0 .. MAXSTRLENG : k \in Count
  /\ \A k \in 0 .. MaxLine : k \in Count
BY StringAssumption, BoundAssumption DEF Count, ERROR

\* What a served write has, while its device works.
LEMMA WriteFacts ==
  ASSUME Inv, pc \in Holding, Writes
  PROVE  /\ call.len \in 0 .. MAXSTRLENG
         /\ pc \in {"loop", "fetch", "check"} => read \in 0 .. MAXSTRLENG
         /\ pc = "fetch" => read + 1 \in 1 .. MAXSTRLENG
         /\ pc = "check" => read + 1 \in 1 .. MAXSTRLENG
         /\ pc \in {"sys5", "waiting"} => char \in 1 .. MAXSTRLENG
<1>1. call.len \in 0 .. MAXSTRLENG /\ MAXSTRLENG \in Nat
  BY CallFacts DEF Inv, Protocol, Legal
<1>2. CASE pc = "loop"
  BY <1>1, <1>2 DEF Inv, Writing
<1>3. CASE pc \in {"fetch", "fetch fault", "check"}
  <2>1. read \in 0 .. (call.len - 1)
    BY <1>3 DEF Inv, Writing
  <2>2. read \in 0 .. MAXSTRLENG /\ read + 1 \in 1 .. MAXSTRLENG
    BY <1>1, <2>1
  <2> QED BY <1>1, <1>3, <2>2
<1>4. CASE pc \in {"sys5", "waiting"}
  <2>1. char = read + 1 /\ read \in 0 .. (call.len - 1)
    BY <1>4 DEF Inv, Writing
  <2> QED BY <1>1, <1>4, <2>1
<1>5. CASE pc \notin {"loop", "fetch", "fetch fault", "check", "sys5", "waiting"}
  BY <1>1, <1>5
<1> QED BY <1>1, <1>2, <1>3, <1>4, <1>5

\* Every step keeps the types.
LEMMA TypeNext ==
  ASSUME Inv, [Next]_vars
  PROVE  TypeOK'
<1> USE DEF Label
<1>1. CASE Syscall
  <2>1. <<>> \in Seq(Char) /\ <<>> \in Seq(1 .. MAXSTRLENG)
    OBVIOUS
  <2> QED BY <1>1, <2>1, StringAssumption
       DEF Syscall, Goto, device, result, Inv, TypeOK
<1>2. CASE Trap \/ SIGKILL
  BY <1>2 DEF Trap, SIGKILL, Goto, device, result, data, Inv, TypeOK
<1>3. CASE SyscallExHandler
  BY <1>3 DEF SyscallExHandler, Goto, device, result, data, Inv, TypeOK
<1>4. CASE Passeren
  <2>1. mutex' \in [Mutex -> {0, 1}]
    BY <1>4 DEF Passeren, Inv, TypeOK
  <2>2. read' \in Count
    BY <1>4, CountFacts, StringAssumption DEF Passeren
  <2> QED BY <1>4, <2>1, <2>2 DEF Passeren, Goto, data, Inv, TypeOK
<1>5. CASE Loop
  <2>1. masked' \in BOOLEAN
    BY <1>5 DEF Loop, DisableInterrupts, Inv, TypeOK
  <2> QED BY <1>5, <2>1 DEF Loop, Goto, device, result, data, Inv, TypeOK
<1>6. CASE Command
  <2>1. devReg' \in [SubDev -> {"ready", "busy", "done", "failed"}]
    BY <1>6 DEF Command, Inv, TypeOK
  <2>2. char' \in 0 .. MAXSTRLENG
    BY <1>6, WriteFacts, StringAssumption DEF Command, Goto, Holding
  <2> QED BY <1>6, <2>1, <2>2 DEF Command, Goto, result, data, Inv, TypeOK
<1>7. CASE IOWait
  BY <1>7 DEF IOWait, Goto, device, result, data, Inv, TypeOK
<1>8. CASE Check
  <2>1. read' \in Count
    <3>1. CASE Writes /\ Succeeded
      <4>1. read' = read + 1
        BY <1>8, <3>1, CallFacts DEF Check, Inv
      <4>2. read + 1 \in 1 .. MAXSTRLENG
        BY <1>8, <3>1, WriteFacts DEF Check, Holding
      <4> QED BY <4>1, <4>2, CountFacts, StringAssumption
    <3>2. CASE Reads /\ Succeeded
      BY <1>8, <3>2, CallFacts DEF Check, Inv, TypeOK
    <3>3. CASE ~Succeeded
      BY <1>8, <3>3, CountFacts DEF Check, Succeeded, Inv, TypeOK
    <3> QED BY <1>8, <3>1, <3>2, <3>3 DEF Check
  <2>2. pc' \in Label /\ masked' \in BOOLEAN
    BY <1>8 DEF Check
  <2> QED BY <1>8, <2>1, <2>2 DEF Check, device, data, Inv, TypeOK
<1>9. CASE StoreChar
  <2>1. Reads
    BY <1>9 DEF StoreChar, Inv, Protocol
  <2>2. Arrived /\ read = Len(buffer) /\ Len(buffer) < MaxLine
    BY <1>9, <2>1 DEF StoreChar, Inv, Reading, Holding, Open
  <2>3. PICK c \in Char : typed = Append(buffer, c)
    BY <2>2 DEF Arrived
  <2>4. buffer \in Seq(Char)
    BY DEF Inv, TypeOK
  <2>5. typed[Len(typed)] = c
    BY <2>3, <2>4
  <2>6. buffer' \in Seq(Char)
    BY <1>9, <2>3, <2>4, <2>5 DEF StoreChar
  <2>7. read' \in Count
    BY <1>9, <2>2, <2>4, CountFacts, BoundAssumption DEF StoreChar
  <2>8. pc' \in Label
    BY <1>9 DEF StoreChar
  <2> QED BY <1>9, <2>6, <2>7, <2>8 DEF StoreChar, device, Inv, TypeOK
<1>10. CASE Verhogen
  <2>1. mutex' \in [Mutex -> {0, 1}]
    BY <1>10 DEF Verhogen, Released, Inv, TypeOK
  <2> QED BY <1>10, <2>1 DEF Verhogen, Goto, data, Inv, TypeOK
<1>11. CASE Return
  <2>1. epc' \in {0, 4, 8}
    BY <1>11 DEF Return, Goto, Inv, Protocol, Serving
  <2> QED BY <1>11, <2>1 DEF Return, Goto, device, result, data, Inv, TypeOK
<1>12. CASE PageFault \/ pager
  BY <1>12 DEF PageFault, pager, Goto, device, result, data, Inv, TypeOK
<1>13. CASE \E d \in SubDev : DeviceDone(d)
  <2>1. PICK d \in SubDev : DeviceDone(d)
    BY <1>13
  <2>2. devReg' \in [SubDev -> {"ready", "busy", "done", "failed"}]
    BY <2>1 DEF DeviceDone, Inv, TypeOK
  <2>3. typed' \in Seq(Char)
    <3>1. typed \in Seq(Char)
      BY DEF Inv, TypeOK
    <3>2. ASSUME NEW c \in Char PROVE Append(typed, c) \in Seq(Char)
      BY <3>1
    <3> QED BY <2>1, <3>1, <3>2 DEF DeviceDone
  <2>4. d # "recv" => char \in 1 .. MAXSTRLENG
    <3>1. pc \in {"sys5", "waiting"} /\ d = dev /\ Legal
      BY <2>1 DEF DeviceDone, Inv, Protocol, Holding
    <3>2. d # "recv" => Writes
      BY <3>1, CallFacts DEF Inv, Legal
    <3> QED BY <3>1, <3>2, WriteFacts DEF Holding
  <2>5. printed' \in Seq(1 .. MAXSTRLENG)
    <3>1. printed \in Seq(1 .. MAXSTRLENG)
      BY DEF Inv, TypeOK
    <3>2. d # "recv" => Append(printed, char) \in Seq(1 .. MAXSTRLENG)
      BY <2>4, <3>1
    <3> QED BY <2>1, <3>1, <3>2 DEF DeviceDone
  <2> QED BY <2>1, <2>2, <2>3, <2>5 DEF DeviceDone, result, Inv, TypeOK
<1>14. CASE \E d \in SubDev : Interrupt(d)
  <2>1. PICK d \in SubDev : Interrupt(d)
    BY <1>14
  <2>2. devReg' \in [SubDev -> {"ready", "busy", "done", "failed"}]
    BY <2>1 DEF Interrupt, Inv, TypeOK
  <2>3. pc' \in Label /\ op_result' \in {READY, ERROR}
    BY <2>1 DEF Interrupt, Inv, TypeOK
  <2>4. hidden' \in 0 .. MAXSTRLENG
    <3>1. d = dev /\ pc = "waiting" /\ Legal /\ hidden \in 0 .. MAXSTRLENG
      BY <2>1, InterruptFacts DEF Inv, TypeOK, Protocol, Holding
    <3>2. CASE hidden' = hidden
      BY <3>1, <3>2
    <3>3. CASE hidden' # hidden
      <4>1. hidden' = hidden + 1 /\ devReg[dev] = "failed" /\ dev = "printer"
        BY <2>1, <3>1, <3>3 DEF Interrupt, READY, ERROR
      <4>2. Writes /\ call.len \in 0 .. MAXSTRLENG /\ MAXSTRLENG \in Nat
        BY <3>1, <4>1, CallFacts DEF Inv, Legal
      <4>3. read \in 0 .. (call.len - 1) /\ Sent(read)
        BY <3>1, <4>1, <4>2 DEF Inv, Writing, Came
      <4>4. hidden <= read
        BY <4>2, <4>3, SentMore DEF Inv
      <4> QED BY <3>1, <4>1, <4>2, <4>3, <4>4
    <3> QED BY <3>2, <3>3
  <2> QED BY <2>1, <2>2, <2>3, <2>4 DEF Interrupt, Inv, TypeOK
<1>15. CASE UNCHANGED vars
  BY <1>15 DEF vars, device, result, data, Inv, TypeOK
<1> QED BY <1>1, <1>2, <1>3, <1>4, <1>5, <1>6, <1>7, <1>8, <1>9, <1>10, <1>11, <1>12,
           <1>13, <1>14, <1>15 DEF Next, Handler, Access, Dead

\* What came out of a write, step by step.
LEMMA WritingNext ==
  ASSUME Inv, [Next]_vars
  PROVE  Writing'
<1> SUFFICES ASSUME Writes' PROVE Writing'
  BY DEF Writing
<1>0. call' = call => Writes /\ ~Reads /\ dev' = dev /\ dev # "recv"
  BY SameCall, CallFacts DEF Inv
<1>1. CASE Syscall
  BY <1>1 DEF Syscall, Goto, Writing
<1>2. CASE Trap \/ SIGKILL
  BY <1>2 DEF Trap, SIGKILL, Goto, Writing
<1>3. CASE SyscallExHandler
  <2>1. pc' = "return" => call.n = GET_TOD
    BY <1>3 DEF SyscallExHandler, Goto
  <2>2. pc' # "return"
    BY <1>0, <1>3, <2>1, CallFacts DEF SyscallExHandler, Inv
  <2> QED BY <1>3, <2>2 DEF SyscallExHandler, Goto, Writing
<1>4. CASE Passeren
  <2>1. /\ call' = call /\ printed' = <<>> /\ hidden' = 0 /\ read' = 0 /\ pc' = "loop"
        /\ Legal
    BY <1>4 DEF Passeren, Goto, data, Inv, Protocol
  <2>2. Sent(0)'
    BY <2>1 DEF Sent, InOrder
  <2>3. call.len \in Nat
    BY <1>0, <2>1, CallFacts DEF Inv, Legal
  <2> QED BY <2>1, <2>2, <2>3 DEF Writing
<1>5. CASE Loop
  <2>1. read \in 0 .. call.len /\ Sent(read) /\ call.len \in Int
    BY <1>0, <1>5, CallFacts DEF Loop, Goto, Inv, Writing
  <2>2. pc' = "fetch" => read < call.len
    BY <1>0, <1>5 DEF Loop, More, Goto
  <2>3. pc' = "V" => ~(read < call.len)
    BY <1>0, <1>5 DEF Loop, More, Goto
  <2>4. pc' \in {"fetch", "V"} /\ UNCHANGED <<call, read, printed, hidden>>
    BY <1>5 DEF Loop, Goto, result, data
  <2>5. CASE pc' = "fetch"
    <3>1. read' \in 0 .. (call'.len - 1) /\ Sent(read)'
      BY <2>1, <2>2, <2>4, <2>5 DEF Sent, InOrder
    <3> QED BY <2>4, <2>5, <3>1 DEF Writing, Sent, InOrder
  <2>6. CASE pc' = "V"
    <3>1. read' = call'.len /\ Sent(call.len)'
      BY <2>1, <2>3, <2>4, <2>6 DEF Sent, InOrder
    <3> QED BY <2>4, <2>6, <3>1 DEF Writing, Sent, InOrder
  <2> QED BY <2>4, <2>5, <2>6
<1>6. CASE Command
  BY <1>0, <1>6, CallFacts
     DEF Command, Goto, result, data, Inv, TypeOK, Writing, Sent, InOrder, Came
<1>7. CASE IOWait
  BY <1>0, <1>7 DEF IOWait, Goto, device, result, data, Inv, Writing, Sent, InOrder, Came
<1>8. CASE Check
  <2>1. /\ pc = "check" /\ UNCHANGED <<call, op_result, printed, hidden>>
        /\ read \in 0 .. (call.len - 1) /\ call.len \in Int
    BY <1>0, <1>8, CallFacts DEF Check, device, data, Inv, Writing
  <2>2. CASE op_result = READY
    <3>1. pc' = "loop" /\ read' = read + 1
      BY <1>0, <1>8, <2>1, <2>2 DEF Check, Succeeded
    <3>2. Sent(read + 1)
      BY <1>0, <2>1, <2>2 DEF Inv, Writing, Came
    <3>3. read + 1 \in 0 .. call.len
      BY <2>1
    <3> QED BY <2>1, <3>1, <3>2, <3>3 DEF Writing, Sent, InOrder
  <2>3. CASE op_result # READY
    <3>1. pc' = "V" /\ read' = -ERROR
      BY <1>0, <1>8, <2>1, <2>3 DEF Check, Succeeded, Inv, TypeOK
    <3>2. Sent(read)
      BY <1>0, <2>1, <2>3 DEF Inv, Writing, Came
    <3> QED BY <2>1, <3>1, <3>2 DEF Writing, Sent, InOrder
  <2> QED BY <2>2, <2>3
<1>9. CASE StoreChar
  BY <1>0, <1>9 DEF StoreChar, Inv, Protocol
<1>10. CASE Verhogen
  BY <1>0, <1>10 DEF Verhogen, Goto, data, Inv, Writing, Sent, InOrder
<1>11. CASE Return
  BY <1>11 DEF Return, Goto, Writing
<1>12. CASE PageFault \/ pager
  BY <1>0, <1>12
     DEF PageFault, pager, Goto, device, result, data, Inv, Protocol, Writing, Sent,
         InOrder
<1>13. CASE \E d \in SubDev : DeviceDone(d)
  <2>1. PICK d \in SubDev : DeviceDone(d)
    BY <1>13
  <2>2. d = dev /\ pc \in {"sys5", "waiting"} /\ devReg[dev] = "busy"
    BY <2>1 DEF DeviceDone, Inv, Protocol
  <2>3. char = read + 1 /\ read \in 0 .. (call.len - 1) /\ Sent(read)
    BY <1>0, <2>1, <2>2 DEF DeviceDone, Inv, Writing, Came
  <2>4. UNCHANGED <<pc, call, char, read, hidden>>
    BY <2>1 DEF DeviceDone, result
  <2>5. CASE devReg' = [devReg EXCEPT ![d] = "done"] /\ printed' = Append(printed, char)
    <3>1. devReg'[dev] = "done"
      BY <2>2, <2>5 DEF Inv, TypeOK
    <3>2. read \in Nat /\ printed' = Append(printed, read + 1) /\ hidden' = hidden
      BY <2>3, <2>4, <2>5, CallFacts DEF Inv
    <3>3. Sent(read + 1)'
      BY <2>3, <2>4, <3>2, SentMore DEF Inv
    <3> QED BY <1>0, <2>2, <2>3, <2>4, <3>1, <3>3 DEF Writing, Came
  <2>6. CASE devReg' = [devReg EXCEPT ![d] = "failed"] /\ UNCHANGED printed
    <3>1. devReg'[dev] = "failed"
      BY <2>2, <2>6 DEF Inv, TypeOK
    <3> QED BY <1>0, <2>2, <2>3, <2>4, <2>6, <3>1 DEF Writing, Sent, InOrder, Came
  <2> QED BY <1>0, <2>1, <2>2, <2>4, <2>5, <2>6 DEF DeviceDone
<1>14. CASE \E d \in SubDev : Interrupt(d)
  <2>1. PICK d \in SubDev : Interrupt(d)
    BY <1>14
  <2>2. d = dev /\ pc = "waiting" /\ pc' = "check"
    BY <2>1, InterruptFacts
  <2>3. /\ read \in 0 .. (call.len - 1)
        /\ Sent(IF devReg[dev] = "done" THEN read + 1 ELSE read)
    BY <1>0, <2>1, <2>2 DEF Interrupt, Inv, Writing, Came
  <2>4. UNCHANGED <<call, read, printed>>
    BY <2>1 DEF Interrupt
  <2>5. read \in Nat
    BY <2>3, CallFacts DEF Inv
  <2>6. CASE op_result' # READY
    <3>1. devReg[dev] # "done" /\ hidden' = hidden
      BY <2>1, <2>2, <2>6 DEF Interrupt
    <3>2. Sent(read)'
      BY <2>3, <2>4, <2>5, <3>1, SentMore DEF Inv
    <3> QED BY <1>0, <2>2, <2>3, <2>4, <2>6, <3>2 DEF Writing, Came
  <2>7. CASE op_result' = READY
    <3>1. CASE devReg[dev] = "done"
      <4>1. hidden' = hidden
        BY <2>1, <2>2, <3>1 DEF Interrupt
      <4>2. Sent(read + 1)'
        BY <2>3, <2>4, <3>1, <4>1 DEF Sent, InOrder
      <4> QED BY <1>0, <2>2, <2>3, <2>4, <2>7, <4>2 DEF Writing, Came
    <3>2. CASE devReg[dev] # "done"
      <4>1. hidden' = hidden + 1
        BY <2>1, <2>2, <2>7, <3>2 DEF Interrupt
      <4>2. Sent(read + 1)'
        BY <2>3, <2>4, <2>5, <3>2, <4>1, SentMore DEF Inv
      <4> QED BY <1>0, <2>2, <2>3, <2>4, <2>7, <4>2 DEF Writing, Came
    <3> QED BY <3>1, <3>2
  <2> QED BY <2>6, <2>7
<1>15. CASE UNCHANGED vars
  BY <1>0, <1>15 DEF vars, device, result, data, Inv, Writing, Sent, InOrder, Came
<1> QED BY <1>1, <1>2, <1>3, <1>4, <1>5, <1>6, <1>7, <1>8, <1>9, <1>10, <1>11, <1>12,
           <1>13, <1>14, <1>15 DEF Next, Handler, Access, Dead

\* What came in of a line, step by step.
LEMMA ReadingNext ==
  ASSUME Inv, [Next]_vars
  PROVE  Reading'
<1> SUFFICES ASSUME Reads' PROVE Reading'
  BY DEF Reading
<1>0. call' = call => Reads /\ ~Writes /\ dev' = dev /\ dev = "recv"
  BY SameCall, CallFacts DEF Inv
<1> USE DEF Holding
<1>1. CASE Syscall
  BY <1>1 DEF Syscall, Goto, Reading
<1>2. CASE Trap \/ SIGKILL
  BY <1>2 DEF Trap, SIGKILL, Goto, Reading
<1>3. CASE SyscallExHandler
  <2>1. pc' # "return"
    BY <1>0, <1>3, CallFacts DEF SyscallExHandler, Goto, Inv
  <2> QED BY <1>3, <2>1 DEF SyscallExHandler, Goto, Reading
<1>4. CASE Passeren
  <2>1. buffer' = <<>> /\ typed' = <<>> /\ read' = 0 /\ pc' = "loop"
    BY <1>4 DEF Passeren, Goto, data, Inv, Protocol
  <2> QED BY <2>1, BoundAssumption DEF Reading, Open
<1>5. CASE Loop
  BY <1>0, <1>5 DEF Loop, More, Goto, result, data, Inv, Reading, Open
<1>6. CASE Command
  <2>1. devReg'[dev] = "busy"
    BY <1>6, CallFacts DEF Command, Inv, TypeOK
  <2> QED BY <1>0, <1>6, <2>1 DEF Command, Goto, result, data, Inv, Reading, Open, Came
<1>7. CASE IOWait
  BY <1>0, <1>7
     DEF IOWait, Goto, device, result, data, Inv, Reading, Open, Came, Arrived
<1>8. CASE Check
  BY <1>0, <1>8
     DEF Check, Succeeded, device, data, Inv, TypeOK, Reading, Open, Came, Arrived
<1>9. CASE StoreChar
  <2>1. Reads /\ Arrived /\ read = Len(buffer) /\ Open(buffer)
    BY <1>9 DEF StoreChar, Inv, Protocol, Reading
  <2>2. PICK c \in Char : typed = Append(buffer, c) /\ (Len(buffer) = MaxLine - 1 => c)
    BY <2>1 DEF Arrived
  <2>3. buffer \in Seq(Char)
    BY DEF Inv, TypeOK
  <2>4. /\ Len(typed) = Len(buffer) + 1 /\ typed[Len(typed)] = c
        /\ \A i \in 1 .. Len(buffer) : typed[i] = buffer[i]
    BY <2>2, <2>3
  <2>5. buffer' = typed /\ typed' = typed /\ read' = Len(typed) /\ call' = call
    BY <1>9, <2>1, <2>2, <2>4 DEF StoreChar
  <2>6. Len(typed) \in 1 .. MaxLine
    BY <2>1, <2>3, <2>4, BoundAssumption DEF Open
  <2>7. CASE c
    <3>1. pc' = "V"
      BY <1>9, <2>4, <2>7 DEF StoreChar
    <3>2. \A i \in 1 .. Len(typed) : typed[i] <=> i = Len(typed)
      <4>1. typed[Len(typed)]
        BY <2>4, <2>7
      <4>2. ASSUME NEW i \in 1 .. Len(buffer) PROVE ~typed[i]
        BY <2>1, <2>4 DEF Open
      <4>3. \A i \in 1 .. Len(typed) : i = Len(typed) \/ i \in 1 .. Len(buffer)
        BY <2>3, <2>4
      <4>4. \A i \in 1 .. Len(buffer) : i # Len(typed)
        BY <2>3, <2>4
      <4> QED BY <4>1, <4>2, <4>3, <4>4
    <3> QED BY <2>5, <2>6, <3>1, <3>2 DEF Reading
  <2>8. CASE ~c
    <3>1. pc' = "loop"
      BY <1>9, <2>4, <2>8 DEF StoreChar
    <3>2. \A i \in 1 .. Len(typed) : ~typed[i]
      BY <2>1, <2>3, <2>4, <2>8 DEF Open
    <3>3. Len(typed) < MaxLine
      BY <2>2, <2>4, <2>6, <2>8, BoundAssumption
    <3> QED BY <2>5, <3>1, <3>2, <3>3 DEF Reading, Open
  <2> QED BY <2>7, <2>8
<1>10. CASE Verhogen
  BY <1>0, <1>10 DEF Verhogen, Goto, data, Inv, Reading
<1>11. CASE Return
  BY <1>11 DEF Return, Goto, Reading
<1>12. CASE PageFault \/ pager
  <2>1. UNCHANGED <<call, read, buffer, typed>>
    BY <1>12 DEF PageFault, pager, result, data
  <2>2. CASE pc \in {"store", "store fault"}
    <3>1. pc' \in {"store", "store fault", "dead"}
      BY <1>12, <2>2 DEF PageFault, pager, Goto
    <3>2. Arrived /\ read = Len(buffer) /\ Open(buffer)
      BY <1>0, <2>1, <2>2 DEF Inv, Reading
    <3> QED BY <2>1, <3>1, <3>2 DEF Reading, Arrived
  <2>3. CASE pc \notin {"store", "store fault"}
    BY <1>0, <1>12, <2>1, <2>3 DEF PageFault, pager, Goto, Inv, Protocol, Reading
  <2> QED BY <2>2, <2>3
<1>13. CASE \E d \in SubDev : DeviceDone(d)
  <2>1. PICK d \in SubDev : DeviceDone(d)
    BY <1>13
  <2>2. d = "recv" /\ d = dev /\ pc \in {"sys5", "waiting"} /\ devReg[dev] = "busy"
    BY <1>0, <2>1 DEF DeviceDone, Inv, Protocol, result
  <2>3. typed = buffer /\ read = Len(buffer) /\ Open(buffer)
    BY <1>0, <2>1, <2>2 DEF DeviceDone, Inv, Reading, Came
  <2>4. UNCHANGED <<pc, call, read, buffer>>
    BY <2>1 DEF DeviceDone, result
  <2>5. CASE devReg' = [devReg EXCEPT ![d] = "done"]
    <3>1. devReg'[dev] = "done"
      BY <2>2, <2>5 DEF Inv, TypeOK
    <3>2. Arrived'
      BY <2>1, <2>2, <2>3, <2>4, <2>5, <3>1 DEF DeviceDone, Inv, TypeOK, Arrived
    <3> QED BY <1>0, <2>2, <2>3, <2>4, <3>1, <3>2 DEF Reading, Open, Came
  <2>6. CASE devReg' = [devReg EXCEPT ![d] = "failed"] /\ UNCHANGED typed
    <3>1. devReg'[dev] = "failed"
      BY <2>2, <2>6 DEF Inv, TypeOK
    <3> QED BY <1>0, <2>2, <2>3, <2>4, <2>6, <3>1 DEF Reading, Open, Came
  <2> QED BY <2>1, <2>5, <2>6 DEF DeviceDone
<1>14. CASE \E d \in SubDev : Interrupt(d)
  <2>1. PICK d \in SubDev : Interrupt(d)
    BY <1>14
  <2>2. d = dev /\ pc = "waiting" /\ pc' = "check"
    BY <2>1, InterruptFacts
  <2>3. UNCHANGED <<call, read, buffer, typed>>
    BY <2>1 DEF Interrupt
  <2>4. d # "printer"
    BY <1>0, <2>2, <2>3
  <2>5. op_result' = READY <=> devReg[dev] = "done"
    BY <2>1, <2>2, <2>4 DEF Interrupt, READY, ERROR
  <2>6. read = Len(buffer) /\ Open(buffer)
    BY <1>0, <2>2, <2>3 DEF Inv, Reading
  <2>7. IF devReg[dev] = "done" THEN Arrived ELSE typed = buffer
    BY <1>0, <2>2, <2>3 DEF Inv, Reading, Came
  <2> QED BY <1>0, <2>2, <2>3, <2>5, <2>6, <2>7 DEF Reading, Open, Came, Arrived
<1>15. CASE UNCHANGED vars
  BY <1>0, <1>15 DEF vars, device, result, data, Inv, Reading, Open, Came, Arrived
<1> QED BY <1>1, <1>2, <1>3, <1>4, <1>5, <1>6, <1>7, <1>8, <1>9, <1>10, <1>11, <1>12,
           <1>13, <1>14, <1>15 DEF Next, Handler, Access, Dead

\* The result of a call.
LEMMA ResultNext ==
  ASSUME Inv, [Next]_vars
  PROVE  Result'
<1>1. CASE pc' = "return" /\ pc # "return"
  <2>1. SyscallExHandler \/ Verhogen
    BY <1>1 DEF Next, Handler, Access, Dead, vars, Syscall, Trap, Passeren, Loop,
         IOWait,
       Check, Return, SIGKILL, pager, Command, StoreChar, PageFault, DeviceDone,
       Interrupt, Goto
  <2> QED BY <1>1, <2>1 DEF Result, SyscallExHandler, Verhogen, Goto
<1>2. CASE pc' = "return" /\ pc = "return"
  <2>1. \/ UNCHANGED vars
        \/ \E d \in SubDev : DeviceDone(d) \/ Interrupt(d)
    BY <1>2 DEF Next, Handler, Access, Dead, vars, Syscall, Trap, Passeren, Loop,
         IOWait,
       Check, Return, SIGKILL, pager, Command, StoreChar, PageFault, Goto,
       SyscallExHandler,
       Verhogen
  <2>2. UNCHANGED <<call, read, v0>>
    BY <2>1 DEF vars, result, DeviceDone, Interrupt
  <2> QED BY <1>2, <2>2 DEF Inv, Result
<1> QED BY <1>1, <1>2 DEF Result

\* The types, the protocol of the devices and the loops hold in every reachable state.
THEOREM SupportInvariant == Spec => []Inv
<1>1. ASSUME Inv, [Next]_vars PROVE Inv'
  BY <1>1, TypeNext, ProtocolNext, WritingNext, ReadingNext, ResultNext DEF Inv
<1> QED BY <1>1, InvInit, PTL DEF Spec

\* SysHandler, GeneralExHandler and the handlers keep the types, whatever the
\* length of strings and lines.
THEOREM SupportTypeCorrect == Spec => []TypeOK
BY SupportInvariant, PTL DEF Inv

\* DO_IO_Device and Read_From_Terminal block only for an interrupt that is still
\* to come.
THEOREM InterruptAlwaysComes == Spec => []InterruptToCome
<1>1. Inv => InterruptToCome
  BY CallFacts DEF Inv, Protocol, InterruptToCome
<1> QED BY <1>1, SupportInvariant, PTL

\* Out of the critical section a process has its semaphores back and can be
\* interrupted, also when SIGKILL is about to end it.
THEOREM EverythingGivenBack == Spec => []GivesBack
<1>1. Inv => GivesBack
  BY DEF Inv, Protocol, GivesBack, Masking, Holding
<1> QED BY <1>1, SupportInvariant, PTL

\* The number in v0 says how much of the string came out, or what line came in,
\* for strings and lines of every length.
THEOREM ResultsAreTrue == Spec => []ResultTruthful
<1>1. ASSUME Inv, pc = "return", call.n # GET_TOD
      PROVE  ResultTruthful
  <2>1. Legal /\ v0 = read
    BY <1>1 DEF Inv, Protocol, Result
  <2>2. ASSUME Writes, call.len # 0
        PROVE  /\ call.len \in 1 .. MAXSTRLENG
               /\ InOrder
               /\ IF v0 < 0 THEN Len(printed) + hidden < call.len
                  ELSE Len(printed) + hidden = v0 /\ v0 = call.len
               /\ call.n # WRITEPRINTER => hidden = 0
    <3>1. call.len \in 1 .. MAXSTRLENG /\ MAXSTRLENG \in Nat
      BY <1>1, <2>1, <2>2, CallFacts DEF Inv, Legal
    <3>2. call.n # WRITEPRINTER => hidden = 0
      BY <1>1 DEF Inv, Protocol
    <3>3. CASE read = call.len /\ Sent(call.len)
      BY <2>1, <3>1, <3>2, <3>3 DEF Sent
    <3>4. CASE read = -ERROR /\ \E k \in 0 .. (call.len - 1) : Sent(k)
      <4>1. PICK k \in 0 .. (call.len - 1) : Sent(k)
        BY <3>4
      <4>2. Len(printed) + hidden = k /\ InOrder
        BY <4>1 DEF Sent
      <4>3. Len(printed) + hidden < call.len
        BY <3>1, <4>1, <4>2
      <4>4. v0 < 0
        BY <2>1, <3>4 DEF ERROR
      <4> QED BY <3>1, <3>2, <4>2, <4>3, <4>4
    <3> QED BY <1>1, <2>2, <3>3, <3>4 DEF Inv, Writing
  <2>3. ASSUME Reads
        PROVE  /\ buffer = typed
               /\ v0 >= 0 => /\ v0 = Len(typed)
                             /\ \A i \in 1 .. v0 : typed[i] <=> i = v0
    BY <1>1, <2>1, <2>3 DEF Inv, Reading, ERROR
  <2> QED BY <1>1, <2>1, <2>2, <2>3 DEF Legal, ResultTruthful
<1>2. Inv => ResultTruthful
  BY <1>1 DEF ResultTruthful
<1> QED BY <1>2, SupportInvariant, PTL
====
