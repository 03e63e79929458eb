----------------------------- MODULE Interrupts -----------------------------
(***************************************************************************)
(* How interrupts reach the kernel while it boots and afterwards: the two  *)
(* interrupt controllers, the gates of IDT.cpp, the stubs of interrupts.S, *)
(* interruptHandler, the callback table of InterruptHandler.cpp, and       *)
(* kernel_main with Scheduler::start, which fill those tables while        *)
(* interrupts are already on.                                              *)
(*                                                                         *)
(* A step is one statement of kernel_main or one part of a handler.  Each  *)
(* flow has a stack of interrupt frames.  Which flow a tick switches to is *)
(* left open here (module Scheduler decides it), and so is what a system   *)
(* call answers: the library's wrappers do not look at it.                 *)
(***************************************************************************)
EXTENDS Naturals, Sequences, FiniteSetsExt

CONSTANTS
    mainTask,  \* the flow of kernel_main
    Created,   \* the flows of the tasks that run once tty.open() has started
    NULL,      \* the null pointer; also "no vector"
    Line,      \* the interrupt lines that devices raise
    Fault,     \* the exceptions that code raises
    Callers    \* the tasks whose code executes int $0x80

Flow == Created \cup {mainTask}

Timer    == 32
Keyboard == 33
Syscall  == 128
NotPresent == 11   \* what the CPU raises for a vector that has no gate

Vector(line) == 32 + line

ASSUME FlowAssumption ==
    mainTask \notin Created /\ NULL \notin Flow /\ Callers \subseteq Created

ASSUME VectorAssumption ==
    NULL \notin Nat /\ Line \subseteq 0 .. 15 /\ Fault \subseteq 0 .. 31

VARIABLES
    boot,            \* the next statement of kernel_main
    IDTTable,        \* the number that the stub in each gate pushes
    m_callbackTable, \* the vectors with a registered InterruptHandler
    m_runningTask,   \* the scheduler's current task
    request,         \* the lines that wait in the interrupt controllers
    master, slave,   \* the in-service registers of the two controllers
    intFlag,         \* IF of EFLAGS
    cpu,             \* the flow whose stack the CPU uses
    stack,           \* the interrupt frames on the stack of each flow
    stopped          \* the vector that stopped the kernel for good

picVars   == <<request, master, slave>>
tableVars == <<IDTTable, m_callbackTable>>
vars == <<boot, tableVars, m_runningTask, picVars, intFlag, cpu, stack, stopped>>

Boot == {"tty", "magic", "idt", "memory", "register", "running", "open",
         "up", "returned"}

Frame == [number : Nat, cause : Nat, pc : {"eoi", "call", "return"},
          intFlag : BOOLEAN]

TypeOK ==
    /\ boot \in Boot
    /\ DOMAIN IDTTable \subseteq Nat /\ \A v \in DOMAIN IDTTable : IDTTable[v] \in Nat
    /\ m_callbackTable \subseteq {Timer, Keyboard}
    /\ m_runningTask \in Flow \cup {NULL}
    /\ request \subseteq Line /\ master \subseteq 0 .. 7 /\ slave \subseteq 8 .. 15
    /\ intFlag \in BOOLEAN
    /\ cpu \in Flow
    /\ stack \in [Flow -> Seq(Frame)]
    /\ stopped \in Nat \cup {NULL}

(* The boot loader enters with interrupts off and nothing in service.      *)
Init ==
    /\ boot = "tty"
    /\ IDTTable = <<>>
    /\ m_callbackTable = {}
    /\ m_runningTask = NULL
    /\ request = {} /\ master = {} /\ slave = {}
    /\ intFlag = FALSE
    /\ cpu = mainTask
    /\ stack = [f \in Flow |-> <<>>]
    /\ stopped = NULL

-----------------------------------------------------------------------------
Alive == stopped = NULL /\ boot # "returned"

\* The code of flow f runs, not an interrupt handler.
Running(f) == Alive /\ cpu = f /\ stack[f] = <<>>

BootStep(from, to) == Running(mainTask) /\ boot = from /\ boot' = to

(* The constructor of the TTY's Keyboard registers its interrupt.          *)
BootTTY ==
    /\ BootStep("tty", "magic")
    /\ m_callbackTable' = m_callbackTable \cup {Keyboard}
    /\ UNCHANGED <<IDTTable, m_runningTask, picVars, intFlag, cpu, stack, stopped>>

(* An unknown boot loader: kernel_main returns, and _start halts.          *)
BootMagic ==
    /\ BootStep("magic", "idt") \/ BootStep("magic", "returned")
    /\ UNCHANGED <<tableVars, m_runningTask, picVars, intFlag, cpu, stack, stopped>>

\* configureIdt: gate 2 gets the stub of vector 3; 3, 9, 15, 16 and the
\* interrupt lines above the keyboard's get no gate.
configureIdt == [v \in (0 .. 14 \ {3, 9}) \cup {17, Timer, Keyboard, Syscall} |->
                    IF v = 2 THEN 3 ELSE v]

(* IDT::init: remaps the controllers, unmasks every line, sets the gates   *)
(* and enables interrupts.                                                 *)
BootIdt ==
    /\ BootStep("idt", "memory")
    /\ IDTTable' = configureIdt
    /\ intFlag' = TRUE
    /\ UNCHANGED <<m_callbackTable, m_runningTask, picVars, cpu, stack, stopped>>

\* Mutant: the timer is registered before the memory manager is set up.
BootMemory_Registers ==
    /\ BootStep("memory", "register")
    /\ m_callbackTable' = m_callbackTable \cup {Timer}
    /\ UNCHANGED <<IDTTable, m_runningTask, picVars, intFlag, cpu, stack, stopped>>

(* MemoryManager::init, the global constructors, the flags start() reads.  *)
BootMemory ==
    /\ BootStep("memory", "register")
    /\ UNCHANGED <<tableVars, m_runningTask, picVars, intFlag, cpu, stack, stopped>>

(* Scheduler::start.                                                       *)
StartRegister ==
    /\ BootStep("register", "running")
    /\ m_callbackTable' = m_callbackTable \cup {Timer}
    /\ UNCHANGED <<IDTTable, m_runningTask, picVars, intFlag, cpu, stack, stopped>>

StartRunning ==
    /\ BootStep("running", "open")
    /\ m_runningTask' = mainTask
    /\ UNCHANGED <<tableVars, picVars, intFlag, cpu, stack, stopped>>

(* tty.open() and what follows: the created tasks become schedulable.      *)
BootOpen ==
    /\ BootStep("open", "up")
    /\ UNCHANGED <<tableVars, m_runningTask, picVars, intFlag, cpu, stack, stopped>>

-----------------------------------------------------------------------------
\* Mutant: gates that leave the interrupt flag alone (trap gates, no cli).
Enter_TrapGate(f, vector) ==
    LET gate == IF vector \in DOMAIN IDTTable THEN vector ELSE NotPresent
    IN  /\ stack' = [stack EXCEPT ![f] = Append(@,
              [number |-> IDTTable[gate], cause |-> vector, pc |-> "eoi",
               intFlag |-> intFlag])]
        /\ UNCHANGED intFlag

(* The CPU enters the stub of a vector: it saves the flags on the stack    *)
(* of the running flow, and the interrupt gate and the stub's cli turn     *)
(* interrupts off.  A vector without a gate is reported as not present.    *)
Enter(f, vector) ==
    LET gate == IF vector \in DOMAIN IDTTable THEN vector ELSE NotPresent
    IN  /\ stack' = [stack EXCEPT ![f] = Append(@,
              [number |-> IDTTable[gate], cause |-> vector, pc |-> "eoi",
               intFlag |-> intFlag])]
        /\ intFlag' = FALSE

(* A device raises its line; a line that already waits stays one request.  *)
(* The next tick comes later than the handler of the last one needs.       *)
Raise(line) ==
    /\ Alive /\ line \notin request
    /\ line = 0 => \A i \in DOMAIN stack[cpu] : stack[cpu][i].cause # Timer
    /\ request' = request \cup {line}
    /\ UNCHANGED <<boot, tableVars, m_runningTask, master, slave, intFlag, cpu,
                   stack, stopped>>

\* The slave hangs on line 2 of the master; low numbers come first.
MasterLine(line) == IF line >= 8 THEN 2 ELSE line

Precedes(a, b) == \/ MasterLine(a) < MasterLine(b)
                  \/ MasterLine(a) = MasterLine(b) /\ a < b

(* The controllers present the first line that waits, unless one at least  *)
(* as important is in service, and the CPU accepts it.                     *)
Deliver(line) ==
    /\ Alive /\ intFlag
    /\ line \in request /\ \A l \in request \ {line} : Precedes(line, l)
    /\ \A l \in master : MasterLine(line) < l
    /\ \A l \in slave : line >= 8 => line < l
    /\ request' = request \ {line}
    /\ master' = master \cup {MasterLine(line)}
    /\ slave' = IF line >= 8 THEN slave \cup {line} ELSE slave
    /\ Enter(cpu, Vector(line))
    /\ UNCHANGED <<boot, tableVars, m_runningTask, cpu, stopped>>

(* Code raises an exception, once there are gates for it.                  *)
Raises(f, vector) ==
    /\ Running(f) /\ IDTTable # <<>>
    /\ Enter(f, vector)
    /\ UNCHANGED <<boot, tableVars, m_runningTask, picVars, cpu, stopped>>

-----------------------------------------------------------------------------
Top == stack[cpu][Len(stack[cpu])]

InHandler(at) == Alive /\ stack[cpu] # <<>> /\ Top.pc = at

Handled(at) == stack' = [stack EXCEPT ![cpu][Len(stack[cpu])].pc = at]

\* The end-of-interrupt command clears the first line in service.
Acknowledge(service) == IF service = {} THEN {} ELSE service \ {Min(service)}

\* Mutant: the controllers are swapped.
EndOfInterrupt_Swapped ==
    /\ InHandler("eoi")
    /\ IF Top.number >= 40
       THEN master' = Acknowledge(master) /\ UNCHANGED slave
       ELSE slave' = Acknowledge(slave) /\ UNCHANGED master
    /\ Handled("call")
    /\ UNCHANGED <<boot, tableVars, m_runningTask, request, intFlag, cpu, stopped>>

\* Mutant: no end of interrupt before the callback (it would have to follow).
EndOfInterrupt_Late ==
    /\ InHandler("eoi")
    /\ Handled("call")
    /\ UNCHANGED <<boot, tableVars, m_runningTask, picVars, intFlag, cpu, stopped>>

(* interruptHandler: the end of interrupt goes to one controller only.     *)
EndOfInterrupt ==
    /\ InHandler("eoi")
    /\ IF Top.number >= 40
       THEN slave' = Acknowledge(slave) /\ UNCHANGED master
       ELSE master' = Acknowledge(master) /\ UNCHANGED slave
    /\ Handled("call")
    /\ UNCHANGED <<boot, tableVars, m_runningTask, request, intFlag, cpu, stopped>>

(* An exception is printed, and the kernel loops with interrupts off.      *)
Exception ==
    /\ InHandler("call") /\ Top.number < 32
    /\ stopped' = Top.cause
    /\ UNCHANGED <<boot, tableVars, m_runningTask, picVars, intFlag, cpu, stack>>

(* A number without a callback, the keyboard's callback and a system call  *)
(* leave nothing behind that this module has state for.                    *)
Callback ==
    /\ InHandler("call") /\ Top.number >= 32
    /\ Top.number \in m_callbackTable => Top.number # Timer
    /\ Handled("return")
    /\ UNCHANGED <<boot, tableVars, m_runningTask, picVars, intFlag, cpu, stopped>>

\* The tasks that schedule() may choose.
Schedulable == IF boot = "up" THEN Flow ELSE {mainTask}

\* switchTask restores the flags the task was switched away with: in its
\* handler, or in its own code with interrupts on.
SwitchTo(task) ==
    /\ m_runningTask' = task /\ cpu' = task
    /\ intFlag' = (IF task = cpu THEN intFlag ELSE stack[task] = <<>>)

(* The scheduler's irqCallback.  Without a current task it follows the     *)
(* null pointer, and what the kernel does then is undefined.               *)
Tick(task) ==
    /\ InHandler("call") /\ Top.number = Timer /\ Timer \in m_callbackTable
    /\ IF m_runningTask = NULL
       THEN stopped' = Timer /\ UNCHANGED <<m_runningTask, intFlag, cpu, stack>>
       ELSE Handled("return") /\ SwitchTo(task) /\ UNCHANGED stopped
    /\ UNCHANGED <<boot, tableVars, picVars>>

(* sleep() in the code of a task calls schedule() with interrupts on.      *)
Sleep(task) ==
    /\ Running(cpu) /\ cpu # mainTask
    /\ SwitchTo(task)
    /\ UNCHANGED <<boot, tableVars, picVars, stack, stopped>>

(* The end of isr_common.                                                  *)
Return ==
    /\ InHandler("return")
    /\ stack' = [stack EXCEPT ![cpu] = SubSeq(@, 1, Len(@) - 1)]
    /\ intFlag' = Top.intFlag
    /\ UNCHANGED <<boot, tableVars, m_runningTask, picVars, cpu, stopped>>

BootNext == BootTTY \/ BootMagic \/ BootIdt \/ BootMemory \/ StartRegister
            \/ StartRunning \/ BootOpen

Handler == EndOfInterrupt \/ Exception \/ Callback
           \/ (\E task \in Schedulable : Tick(task)) \/ Return

Next ==
    \/ BootNext
    \/ \E line \in Line : Raise(line) \/ Deliver(line)
    \/ \E f \in Flow, vector \in Fault : Raises(f, vector)
    \/ \E f \in Callers : Raises(f, Syscall)
    \/ Handler
    \/ \E task \in Schedulable : Sleep(task)

Spec == Init /\ [][Next]_vars

(* kernel_main and handlers do not wait for anything; an enabled CPU takes *)
(* a line that is presented to it again and again.                         *)
FairSpec == /\ Spec
            /\ WF_vars(BootNext) /\ WF_vars(Handler)
            /\ \A line \in Line : SF_vars(Deliver(line))

-----------------------------------------------------------------------------
(* interruptHandler, kernel_main and start: the kernel stops only for an   *)
(* exception of its own code, for a line that has no gate, or for a tick   *)
(* between the registration of the timer and the store of m_runningTask    *)
(* in start().                                                             *)
StopsOnlyFor ==
    stopped # NULL =>
        \/ stopped \in Fault
        \/ stopped >= 32 /\ stopped \notin DOMAIN IDTTable
        \/ stopped = Timer /\ boot = "running"

(* interruptHandler sends the end of interrupt before the callback, to the *)
(* right controller: while the kernel runs, a line is in service only      *)
(* until the handler that the CPU is in has sent it, also when a tick      *)
(* leaves its handler through a task switch.                               *)
AcknowledgedInTime ==
    stopped = NULL =>
        \A l \in master : InHandler("eoi") /\ MasterLine(Top.cause - 32) = l

(* The gates and stubs keep interrupts off until iret: no handler is       *)
(* interrupted, so a task's stack holds one interrupt frame at most.       *)
HandlersDoNotNest == \A f \in Flow : Len(stack[f]) <= 1

(* A tick or a key that waits reaches the CPU, whichever tasks the ticks   *)
(* switch between, unless the kernel has stopped.                          *)
RequestsServed ==
    \A line \in Line \cap {0, 1} :
        line \in request ~> (line \notin request \/ ~ Alive)

=============================================================================
