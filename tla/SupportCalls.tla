---- MODULE SupportCalls ----
(***************************************************************************)
(* The system calls of a user process: SysHandler and PassUporDie of       *)
(* Fase_2/exceptions.c pass them up to GeneralExHandler of                 *)
(* Fase_3/sysSupport.c, whose handlers drive the printer and the terminal  *)
(* of the process one character at a time.                                 *)
(*                                                                         *)
(* A device belongs to the process with its number, so one process stands  *)
(* for all.  Other processes and the nucleus appear as what they do to it: *)
(* interrupts come whenever they are not masked.  An access to a string    *)
(* can meet a page fault, see Paging.                                      *)
(*                                                                         *)
(* An operator whose name ends in _slip is not part of the model: it is    *)
(* the operator after it with a plausible bug, against which a property is *)
(* tried.                                                                  *)
(***************************************************************************)
EXTENDS Integers, Sequences

CONSTANTS
  MAXSTRLENG, \* the longest string that a call may write
  MaxLine     \* bound: the characters of a line, with its newline

ASSUME StringAssumption == MAXSTRLENG \in Nat
ASSUME BoundAssumption == MaxLine \in Nat \ {0}

\* Calls of the support level.  9 is TERMINATE, 1 to 8 are those of the nucleus,
\* and every number but these four ends the process.
GET_TOD       == 10
WRITEPRINTER  == 11
WRITETERMINAL == 12
READTERMINAL  == 13

VARIABLES
  pc,        \* where the process is, see Label
  call,      \* a0, whether a1 is in KUSEG, and a2 of the last call
  epc,       \* where it goes on, counted from the SYSCALL instruction
  masked,    \* are interrupts disabled?
  mutex,     \* its semaphores in Sem[], one for the whole terminal
  devReg,    \* its sub-devices
  char,      \* the character in the register of a device that transmits
  read,      \* the loop's variable: the characters so far, or minus the error
  op_result, \* what the last SYS5 returned
  v0,        \* the result of the call
  buffer,    \* what Read_From_Terminal has stored
  printed,   \* history: the characters of the string that came out
  typed,     \* history: the characters that came in
  hidden     \* history: the errors that the handler was not told of

device == <<mutex, devReg, char>>
result == <<read, op_result, v0>>
data   == <<buffer, printed, typed, hidden>>
vars   == <<pc, call, epc, masked, device, result, data>>

\* In its program; in GeneralExHandler; about to do the P, to test the loop's
\* condition, to access the string and give the command, to do the SYS5;
\* blocked by it; after it; about to store a character, to do the V, to return;
\* in SIGKILL; dead.  In pager() because of the access or of the store.
Label == {"user", "general", "P", "loop", "fetch", "sys5", "waiting", "check",
          "store", "V", "return", "kill", "dead", "fetch fault", "store fault"}

SubDev == {"printer", "transm", "recv"}
Mutex  == {"printer", "terminal"}

\* The status of a device: when all went well READY (1) for the printer and
\* OKCHARTRANS (5) for the terminal, here 1; any other is an error.
READY == 1
ERROR == 4

\* A character that is typed: is it a newline?
Char   == BOOLEAN
Call   == [n : 1 .. 14, kuseg : BOOLEAN, len : -1 .. MAXSTRLENG + 1]
Count  == -ERROR .. (IF MAXSTRLENG > MaxLine THEN MAXSTRLENG ELSE MaxLine)

TypeOK ==
  /\ pc \in Label
  /\ call \in Call
  /\ epc \in {0, 4, 8}
  /\ masked \in BOOLEAN
  /\ mutex \in [Mutex -> {0, 1}]
  /\ devReg \in [SubDev -> {"ready", "busy", "done", "failed"}]
  /\ char \in 0 .. MAXSTRLENG
  /\ read \in Count
  /\ op_result \in {READY, ERROR}
  /\ v0 \in Count
  /\ buffer \in Seq(Char)
  /\ printed \in Seq(1 .. MAXSTRLENG)
  /\ typed \in Seq(Char)
  /\ hidden \in 0 .. MAXSTRLENG

Init ==
  /\ pc = "user"
  /\ call = [n |-> GET_TOD, kuseg |-> TRUE, len |-> 0]
  /\ epc = 0
  /\ masked = FALSE
  /\ mutex = [m \in Mutex |-> 1]
  /\ devReg = [d \in SubDev |-> "ready"]
  /\ char = 0
  /\ read = 0
  /\ op_result = READY
  /\ v0 = 0
  /\ buffer = <<>> /\ printed = <<>> /\ typed = <<>>
  /\ hidden = 0

Reads  == call.n = READTERMINAL
Writes == call.n \in {WRITEPRINTER, WRITETERMINAL}

\* The sub-device and the semaphore that the handler of the call uses.
dev == IF call.n = WRITEPRINTER THEN "printer" ELSE IF Reads THEN "recv" ELSE "transm"
sem == IF call.n = WRITEPRINTER THEN "printer" ELSE "terminal"

Goto(from, to) == pc = from /\ pc' = to

----------------------------------------------------------------------------
\* SysHandler in user mode: the program counter moves on, and whatever the
\* number, PassUporDie passes the state up as it was saved: the reserved
\* instruction goes to the Cause register and not to that state.
Syscall ==
  /\ Goto("user", "general")
  /\ call' \in Call
  /\ epc' = 4
  /\ buffer' = <<>> /\ printed' = <<>> /\ typed' = <<>>
  /\ hidden' = 0
  /\ UNCHANGED <<masked, device, result>>

\* GeneralExHandler for an exception that is no system call.
Trap ==
  /\ Goto("user", "kill")
  /\ UNCHANGED <<call, epc, masked, device, result, data>>

\* Slip: an off-by-one in the length.
LegalString_slip == 0 <= call.len /\ call.len <= MAXSTRLENG + 1

\* The length of a string to write.
LegalString == 0 <= call.len /\ call.len <= MAXSTRLENG

\* SyscallExHandler: the choice by number, and the checks of the handlers.
SyscallExHandler ==
  /\ \/ call.n = GET_TOD /\ Goto("general", "return")
     \/ Writes /\ call.kuseg /\ LegalString /\ Goto("general", "P")
     \/ Reads /\ call.kuseg /\ Goto("general", "P")
     \/ Writes /\ ~(call.kuseg /\ LegalString) /\ Goto("general", "kill")
     \/ Reads /\ ~call.kuseg /\ Goto("general", "kill")
     \/ call.n # GET_TOD /\ ~Writes /\ ~Reads /\ Goto("general", "kill")
  /\ UNCHANGED <<call, epc, masked, device, result, data>>

----------------------------------------------------------------------------
\* The P on the semaphore of the device.
Passeren ==
  /\ Goto("P", "loop")
  /\ mutex[sem] = 1
  /\ mutex' = [mutex EXCEPT ![sem] = 0]
  /\ read' = 0
  /\ UNCHANGED <<call, epc, masked, devReg, char, op_result, v0, data>>

\* Slip: interrupts stay enabled.
DisableInterrupts_slip == masked' = FALSE

\* setSTATUS(getSTATUS() & (~IECON)).
DisableInterrupts == masked' = TRUE

\* Slip: an off-by-one.
More_slip == Reads \/ read <= call.len

\* The condition of the loop; that of a read is TRUE.
More == Reads \/ read < call.len

Loop ==
  /\ \/ /\ More
        /\ Goto("loop", "fetch")
        /\ DisableInterrupts
     \/ /\ ~More
        /\ Goto("loop", "V")
        /\ UNCHANGED masked
  /\ UNCHANGED <<call, epc, device, result, data>>

\* The command to the device, with the character *str when it is to transmit.
Command ==
  /\ Goto("fetch", "sys5")
  /\ devReg' = [devReg EXCEPT ![dev] = "busy"]
  /\ char' = IF Writes THEN read + 1 ELSE 0
  /\ UNCHANGED <<call, epc, masked, mutex, result, data>>

\* SYS5 blocks its caller, even if the interrupt has come before.
IOWait ==
  /\ Goto("sys5", "waiting")
  /\ UNCHANGED <<call, epc, masked, device, result, data>>

\* The test of the status that SYS5 returned.
Succeeded == op_result = READY

\* After SYS5: interrupts are enabled again.
Check ==
  /\ pc = "check"
  /\ masked' = FALSE
  /\ \/ Writes /\ Succeeded /\ pc' = "loop" /\ read' = read + 1
     \/ Reads /\ Succeeded /\ pc' = "store" /\ UNCHANGED read
     \/ ~Succeeded /\ pc' = "V" /\ read' = -op_result
  /\ UNCHANGED <<call, epc, device, op_result, v0, data>>

\* *str++ = the character, until it is a newline.
StoreChar ==
  /\ pc = "store"
  /\ buffer' = Append(buffer, typed[Len(typed)])
  /\ read' = read + 1
  /\ pc' = IF typed[Len(typed)] THEN "V" ELSE "loop"
  /\ UNCHANGED <<call, epc, masked, device, op_result, v0, printed, typed, hidden>>

\* Slip: the handler returns without the V.
Released_slip == mutex

\* The semaphores after the V on that of the device.
Released == [mutex EXCEPT ![sem] = 1]

Verhogen ==
  /\ Goto("V", "return")
  /\ mutex' = Released
  /\ v0' = read
  /\ UNCHANGED <<call, epc, masked, devReg, char, read, op_result, data>>

\* The end of SyscallExHandler.
Return ==
  /\ Goto("return", "user")
  /\ epc' = epc + 4
  /\ UNCHANGED <<call, masked, device, result, data>>

\* SIGKILL(NULL).
SIGKILL ==
  /\ Goto("kill", "dead")
  /\ UNCHANGED <<call, epc, masked, device, result, data>>

----------------------------------------------------------------------------
\* The page of *str is not there.  pager() runs with interrupts enabled, brings
\* it in and restores the status, or kills the process after an I/O error.
PageFault ==
  /\ \/ Writes /\ Goto("fetch", "fetch fault")
     \/ Goto("store", "store fault")
  /\ UNCHANGED <<call, epc, masked, device, result, data>>

pager ==
  /\ \/ Goto("fetch fault", "fetch") \/ Goto("store fault", "store")
     \/ Goto("fetch fault", "dead") \/ Goto("store fault", "dead")
  /\ UNCHANGED <<call, epc, masked, device, result, data>>

\* The operation ends.  A line has at most MaxLine characters.
DeviceDone(d) ==
  /\ devReg[d] = "busy"
  /\ \/ /\ devReg' = [devReg EXCEPT ![d] = "done"]
        /\ IF d = "recv"
           THEN /\ \E c \in Char :
                     /\ Len(typed) = MaxLine - 1 => c
                     /\ typed' = Append(typed, c)
                /\ UNCHANGED printed
           ELSE printed' = Append(printed, char) /\ UNCHANGED typed
     \/ devReg' = [devReg EXCEPT ![d] = "failed"] /\ UNCHANGED <<printed, typed>>
  /\ UNCHANGED <<pc, call, epc, masked, mutex, char, result, buffer, hidden>>

\* Interrupts are served unless the process masks them and runs.
Interruptible == ~masked \/ pc \in {"waiting", "fetch fault", "store fault"}

\* Non_T_Int.  The status of the printer is read after the ACK, see Paging, that
\* of the terminal before it.
Interrupt(d) ==
  /\ Interruptible
  /\ devReg[d] \in {"done", "failed"}
  /\ devReg' = [devReg EXCEPT ![d] = "ready"]
  /\ \E status \in {READY, ERROR} :
       /\ devReg[d] = "done" => status = READY
       /\ devReg[d] = "failed" /\ d # "printer" => status = ERROR
       /\ hidden' = IF devReg[d] = "failed" /\ status = READY THEN hidden + 1 ELSE hidden
       /\ IF pc = "waiting" /\ d = dev
          THEN pc' = "check" /\ op_result' = status
          ELSE UNCHANGED <<pc, op_result>>
  /\ UNCHANGED <<call, epc, masked, mutex, char, read, v0, buffer, printed, typed>>

----------------------------------------------------------------------------
Handler ==
  \/ SyscallExHandler \/ Passeren \/ Loop \/ IOWait \/ Check \/ Verhogen
  \/ Return \/ SIGKILL \/ pager
Access == Command \/ StoreChar

\* The process is gone.
Dead == pc = "dead" /\ UNCHANGED vars

Next ==
  \/ Syscall \/ Trap \/ Handler \/ Access \/ PageFault
  \/ \E d \in SubDev : DeviceDone(d) \/ Interrupt(d)
  \/ Dead

Spec == Init /\ [][Next]_vars

\* The process runs when it is ready, an operation ends and its interrupt is
\* served (ReadyRuns and SoftWaitEnds of Nucleus), and a page that is brought in
\* again and again is once still there when the access is tried.
FairSpec ==
  /\ Spec
  /\ WF_vars(Handler) /\ SF_vars(Access)
  /\ \A d \in SubDev : WF_vars(DeviceDone(d)) /\ WF_vars(Interrupt(d))
----------------------------------------------------------------------------
\* A process that SYS5 has blocked is woken by an interrupt that is still to
\* come: none is served between the command and the SYS5, even if the access
\* to the string in between runs the pager.  This is what MaskedIO of Nucleus
\* assumes of Fase_3.
InterruptToCome == pc = "waiting" => devReg[dev] # "ready"

\* The characters that came out are in the order of the string, none twice.
InOrder == \A i, j \in 1 .. Len(printed) : i < j => printed[i] < printed[j]

\* Only the calls of the support level come back, never one of the nucleus.  A
\* write that comes back had its string in KUSEG and no longer than MAXSTRLENG,
\* and when its result is no error every character came out once, in order, but
\* for those whose error the ACK hid, which only the printer's does; an error
\* stopped it before the end.  A read has stored the line that came in, up to
\* its newline, and v0 is its length.  Of the length 0 it says nothing: the
\* comments of the handlers have it end the process, their test lets it through.
ResultTruthful ==
  pc = "return" /\ call.n # GET_TOD =>
    /\ Writes \/ Reads
    /\ call.kuseg
    /\ Writes /\ call.len # 0 =>
         /\ call.len \in 1 .. MAXSTRLENG
         /\ InOrder
         /\ IF v0 < 0 THEN Len(printed) + hidden < call.len
            ELSE Len(printed) + hidden = v0 /\ v0 = call.len
         /\ call.n # WRITEPRINTER => hidden = 0
    /\ Reads => /\ buffer = typed
                /\ v0 >= 0 => /\ v0 = Len(typed)
                              /\ \A i \in 1 .. v0 : typed[i] <=> i = v0

\* Whatever a call did, it leaves the semaphores free and interrupts enabled.
GivesBack ==
  pc \in {"user", "kill", "return"} => ~masked /\ \A m \in Mutex : mutex[m] = 1

\* Every call comes back or ends the process.
CallEnds == pc = "general" ~> pc \in {"user", "dead"}

\* "Il controllo va restituito al processo chiamante all'istruzione
\* immediatamente successiva la syscall" (SyscallExHandler).
ReturnsToNext == pc = "user" => epc \in {0, 4}
====
