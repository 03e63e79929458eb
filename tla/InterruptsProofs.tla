--------------------------- MODULE InterruptsProofs ---------------------------
(***************************************************************************)
(* Proofs about Interrupts, for any number of tasks, interrupt lines and   *)
(* exceptions.                                                             *)
(***************************************************************************)
EXTENDS Interrupts, TLAPS

\* The vectors that can be entered, and the number the stub behind each pushes.
Cause == Fault \cup {Vector(l) : l \in Line} \cup {Syscall}

NumberOf(v) == configureIdt[IF v \in DOMAIN configureIdt THEN v ELSE NotPresent]

FrameOK(fr) == fr \in Frame /\ fr.cause \in Cause /\ fr.number = NumberOf(fr.cause)

Types ==
    /\ boot \in Boot /\ m_callbackTable \subseteq {Timer, Keyboard}
    /\ m_runningTask \in Flow \cup {NULL}
    /\ request \subseteq Line /\ master \subseteq 0 .. 7 /\ slave \subseteq 8 .. 15
    /\ intFlag \in BOOLEAN /\ cpu \in Flow /\ stack \in [Flow -> Seq(Frame)]
    /\ stopped \in Nat \cup {NULL}

\* Until IDT::init, and if kernel_main has returned, there are no interrupts.
Early == boot \in {"tty", "magic", "idt", "returned"}
Quiet == Early => /\ IDTTable = <<>> /\ intFlag = FALSE /\ cpu = mainTask
                  /\ \A f \in Flow : stack[f] = <<>>
Gated == ~Early => IDTTable = configureIdt

\* A stack holds one frame at most, and that frame is the work of a stub.
Frames == \A f \in Flow : Len(stack[f]) <= 1 /\ (stack[f] # <<>> => FrameOK(stack[f][1]))

\* A flow that is not running was switched away from at the end of its handler.
Away == \A f \in Flow : f # cpu /\ stack[f] # <<>> => stack[f][1].pc = "return"

Masked == intFlag = TRUE => stack[cpu] = <<>>

\* A line is in service only until the handler that runs has acknowledged it.
InService == \A l \in master :
                 /\ stack[cpu] # <<>> /\ stack[cpu][1].pc = "eoi"
                 /\ stack[cpu][1].cause \in 32 .. 47
                 /\ l = MasterLine(stack[cpu][1].cause - 32)

\* Where boot stands when the timer's callback can run.
TimerSet == /\ Timer \in m_callbackTable => boot \in {"running", "open", "up"}
            /\ boot \in {"open", "up"} => m_runningTask # NULL

IInv == /\ Types /\ Quiet /\ Gated /\ Frames /\ Away /\ Masked /\ InService /\ TimerSet
        /\ StopsOnlyFor

-----------------------------------------------------------------------------
\* What configureIdt makes of a vector: the interrupt lines have numbers that
\* go to the master controller, and only exceptions and vectors without a gate
\* have numbers below 32.
LEMMA NumberFacts ==
    ASSUME NEW v \in Cause
    PROVE  /\ NumberOf(v) \in Nat /\ v \in Nat
           /\ v \in 32 .. 47 => NumberOf(v) < 40
           /\ NumberOf(v) < 32 => v \in Fault \/ (v >= 32 /\ v \notin DOMAIN configureIdt)
  BY VectorAssumption, SMT DEF Cause, NumberOf, configureIdt, Vector, Timer, Keyboard, Syscall, NotPresent

\* The vector of a line, and the line of the master it comes through.
LEMMA LineCauses ==
    ASSUME NEW l \in Line
    PROVE  /\ Vector(l) \in Cause /\ Vector(l) \in 32 .. 47 /\ Vector(l) - 32 = l
           /\ MasterLine(l) \in 0 .. 7
  BY VectorAssumption, SMT DEF Cause, Vector, MasterLine

\* Enter pushes one frame on an empty stack.
LEMMA EnterFrame ==
    ASSUME Types, NEW f \in Flow, NEW v \in Cause, stack[f] = <<>>,
           IDTTable = configureIdt, Enter(f, v)
    PROVE  /\ intFlag' = FALSE /\ stack' \in [Flow -> Seq(Frame)]
           /\ \A g \in Flow : g # f => stack'[g] = stack[g]
           /\ Len(stack'[f]) = 1 /\ stack'[f] # <<>>
           /\ FrameOK(stack'[f][1]) /\ stack'[f][1].pc = "eoi" /\ stack'[f][1].cause = v
<1> DEFINE fr == [number |-> NumberOf(v), cause |-> v, pc |-> "eoi", intFlag |-> intFlag]
<1>1. fr \in Frame /\ fr.cause = v /\ fr.number = NumberOf(v) /\ fr.pc = "eoi"
  BY NumberFacts DEF Frame, Types
<1>2. stack' = [stack EXCEPT ![f] = Append(stack[f], fr)] /\ intFlag' = FALSE
  BY DEF Enter, NumberOf
<1> HIDE DEF fr
<1>3. Append(stack[f], fr) = <<fr>>
  OBVIOUS
<1>4. stack' = [stack EXCEPT ![f] = <<fr>>]
  BY <1>2, <1>3
<1>5. stack'[f] = <<fr>> /\ \A g \in Flow : g # f => stack'[g] = stack[g]
  BY <1>4 DEF Types
<1>6. <<fr>> \in Seq(Frame) /\ Len(<<fr>>) = 1 /\ <<fr>> # <<>> /\ <<fr>>[1] = fr
  BY <1>1
<1>7. stack' \in [Flow -> Seq(Frame)]
  BY <1>4, <1>6 DEF Types
<1> QED
  BY <1>1, <1>2, <1>5, <1>6, <1>7 DEF FrameOK

\* A stack that is not empty holds exactly one frame.
LEMMA OneFrame ==
    ASSUME Types, Frames, NEW f \in Flow, stack[f] # <<>>
    PROVE  Len(stack[f]) = 1 /\ FrameOK(stack[f][1])
<1>1. stack[f] \in Seq(Frame) /\ Len(stack[f]) <= 1
  BY Zenon DEF Types, Frames
<1>2. Len(stack[f]) # 0 /\ Len(stack[f]) \in Nat
  BY <1>1
<1>3. Len(stack[f]) = 1
  <2> DEFINE n == Len(stack[f])
  <2>1. n \in Nat /\ n # 0 /\ n <= 1
    BY <1>1, <1>2, Zenon
  <2> HIDE DEF n
  <2>2. n = 1
    BY <2>1, SMT
  <2> QED
    BY <2>2, Zenon DEF n
<1>4. FrameOK(stack[f][1])
  BY Zenon DEF Frames
<1> QED
  BY <1>3, <1>4, Zenon

\* Handled moves the handler of the running flow on and changes nothing else.
LEMMA HandledFrame ==
    ASSUME Types, Frames, stack[cpu] # <<>>, NEW at \in {"call", "return"}, Handled(at)
    PROVE  /\ stack' \in [Flow -> Seq(Frame)]
           /\ \A g \in Flow : g # cpu => stack'[g] = stack[g]
           /\ Len(stack'[cpu]) = 1 /\ stack'[cpu] # <<>>
           /\ FrameOK(stack'[cpu][1]) /\ stack'[cpu][1].pc = at
           /\ stack'[cpu][1].cause = stack[cpu][1].cause
<1>0. stack[cpu] \in Seq(Frame) /\ cpu \in Flow
  BY DEF Types
<1>1. Len(stack[cpu]) = 1 /\ stack[cpu] \in Seq(Frame) /\ FrameOK(stack[cpu][1]) /\ cpu \in Flow
  BY <1>0, OneFrame
<1> DEFINE fr == stack[cpu][1]
           new == [fr EXCEPT !.pc = at]
<1>2. new \in Frame /\ new.cause = fr.cause /\ new.number = fr.number /\ new.pc = at
  BY <1>1 DEF FrameOK, Frame
<1>3. stack' = [stack EXCEPT ![cpu] = [stack[cpu] EXCEPT ![1] = new]]
  BY <1>1 DEF Handled
<1> HIDE DEF new
<1> DEFINE s == [stack[cpu] EXCEPT ![1] = new]
<1>4. s \in Seq(Frame) /\ Len(s) = 1 /\ s # <<>> /\ s[1] = new
  BY <1>1, <1>2
<1> HIDE DEF s
<1>5. stack'[cpu] = s /\ (\A g \in Flow : g # cpu => stack'[g] = stack[g])
      /\ stack' \in [Flow -> Seq(Frame)]
  BY <1>1, <1>3, <1>4 DEF Types, s
<1> QED
  BY <1>1, <1>2, <1>4, <1>5 DEF FrameOK

-----------------------------------------------------------------------------
\* The state at entry to kernel_main.
LEMMA InvInit == Init => IInv
<1> SUFFICES ASSUME Init PROVE IInv
  OBVIOUS
<1>1. Types
  <2>1. <<>> \in Seq(Frame)
    OBVIOUS
  <2>2. stack \in [Flow -> Seq(Frame)]
    BY <2>1, Zenon DEF Init
  <2> QED
    BY <2>2, Zenon DEF Init, Types, Boot, Flow
<1>2. Quiet /\ Gated
  BY DEF Init, Quiet, Gated, Early
<1>3. Frames
  BY DEF Init, Frames
<1>4. Away /\ Masked /\ InService /\ TimerSet /\ StopsOnlyFor
  BY DEF Init, Away, Masked, InService, TimerSet, StopsOnlyFor
<1> QED
  BY <1>1, <1>2, <1>3, <1>4 DEF IInv

\* kernel_main: a statement of it runs outside handlers, sets the gates before
\* it enables interrupts, and is past start() once it leaves the timer's window.
LEMMA InvBoot == IInv /\ BootNext => IInv'
<1> SUFFICES ASSUME IInv, BootNext PROVE IInv'
  OBVIOUS
<1>1. /\ Alive /\ cpu = mainTask /\ stack[mainTask] = <<>>
      /\ UNCHANGED <<picVars, cpu, stack, stopped>>
  BY DEF BootNext, BootTTY, BootMagic, BootIdt, BootMemory, StartRegister,
         StartRunning, BootOpen, BootStep, Running
<1>2. /\ request' = request /\ master' = master /\ slave' = slave /\ cpu' = cpu
      /\ stack' = stack /\ stopped' = stopped /\ stopped = NULL /\ stack[cpu] = <<>>
  BY <1>1 DEF picVars, Alive
<1>3. Types'
  BY <1>2 DEF IInv, Types, BootNext, BootTTY, BootMagic, BootIdt, BootMemory,
       StartRegister, StartRunning, BootOpen, BootStep, tableVars, Boot, Flow
<1>4. Quiet' /\ Gated'
  BY <1>2 DEF IInv, Quiet, Gated, Early, BootNext, BootTTY, BootMagic, BootIdt,
       BootMemory, StartRegister, StartRunning, BootOpen, BootStep, tableVars
<1>5. Frames' /\ Away' /\ Masked' /\ InService' /\ StopsOnlyFor'
  BY <1>2 DEF IInv, Frames, Away, Masked, InService, StopsOnlyFor
<1>6. TimerSet'
  BY FlowAssumption DEF IInv, TimerSet, BootNext, BootTTY, BootMagic, BootIdt, BootMemory,
       StartRegister, StartRunning, BootOpen, BootStep, tableVars, Timer, Keyboard, Flow
<1> QED
  BY <1>3, <1>4, <1>5, <1>6 DEF IInv

\* A line that is raised waits in the controllers and changes nothing else.
LEMMA InvRaise == ASSUME IInv, NEW line \in Line, Raise(line) PROVE IInv'
<1>1. /\ boot' = boot /\ IDTTable' = IDTTable /\ m_callbackTable' = m_callbackTable
      /\ m_runningTask' = m_runningTask /\ master' = master /\ slave' = slave
      /\ intFlag' = intFlag /\ cpu' = cpu /\ stack' = stack /\ stopped' = stopped
      /\ request' = request \cup {line}
  BY DEF Raise, tableVars
<1>2. Types'
  BY <1>1 DEF IInv, Types
<1>3. Quiet' /\ Gated' /\ TimerSet' /\ StopsOnlyFor'
  BY <1>1 DEF IInv, Quiet, Gated, Early, TimerSet, StopsOnlyFor
<1>4. Frames' /\ Away' /\ Masked' /\ InService'
  BY <1>1 DEF IInv, Frames, Away, Masked, InService
<1> QED
  BY <1>2, <1>3, <1>4 DEF IInv

\* What entering a stub leaves true whatever the cause was.
LEMMA InvEnter ==
    ASSUME IInv, NEW v \in Cause, stack[cpu] = <<>>, ~Early, Enter(cpu, v),
           UNCHANGED <<boot, tableVars, m_runningTask, cpu, stopped>>,
           request' \subseteq Line, master' \subseteq 0 .. 7, slave' \subseteq 8 .. 15
    PROVE  /\ Types' /\ Quiet' /\ Gated' /\ Frames' /\ Away' /\ Masked'
           /\ TimerSet' /\ StopsOnlyFor'
           /\ stack'[cpu] # <<>> /\ stack'[cpu][1].pc = "eoi" /\ stack'[cpu][1].cause = v
<1>1. /\ boot' = boot /\ IDTTable' = IDTTable /\ m_callbackTable' = m_callbackTable
      /\ m_runningTask' = m_runningTask /\ cpu' = cpu /\ stopped' = stopped
  BY DEF tableVars
<1>2. Types /\ cpu \in Flow /\ IDTTable = configureIdt
  BY DEF IInv, Types, Gated
<1>3. /\ intFlag' = FALSE /\ stack' \in [Flow -> Seq(Frame)]
      /\ \A g \in Flow : g # cpu => stack'[g] = stack[g]
      /\ Len(stack'[cpu]) = 1 /\ stack'[cpu] # <<>>
      /\ FrameOK(stack'[cpu][1]) /\ stack'[cpu][1].pc = "eoi" /\ stack'[cpu][1].cause = v
  BY <1>2, EnterFrame, Zenon
<1>4. Types'
  BY <1>1, <1>2, <1>3 DEF Types
<1>5. Quiet' /\ Gated' /\ TimerSet' /\ StopsOnlyFor'
  BY <1>1 DEF IInv, Quiet, Gated, Early, TimerSet, StopsOnlyFor
<1>6. Frames'
  <2> SUFFICES ASSUME NEW f \in Flow
               PROVE  Len(stack'[f]) <= 1 /\ (stack'[f] # <<>> => FrameOK(stack'[f][1]))
    BY Zenon DEF Frames, FrameOK
  <2>1. CASE f = cpu
    BY <2>1, <1>3
  <2>2. CASE f # cpu
    BY <2>2, <1>3, Zenon DEF IInv, Frames
  <2> QED
    BY <2>1, <2>2
<1>7. Away' /\ Masked'
  BY <1>1, <1>3 DEF IInv, Away, Masked
<1> QED
  BY <1>3, <1>4, <1>5, <1>6, <1>7

\* A line is accepted with interrupts on, outside every handler.
LEMMA InvDeliver == ASSUME IInv, NEW line \in Line, Deliver(line) PROVE IInv'
<1>1. stack[cpu] = <<>> /\ ~Early
  BY DEF IInv, Masked, Quiet, Types, Deliver
<1>2. master = {}
  BY <1>1 DEF IInv, InService
<1>3. Vector(line) \in Cause /\ Vector(line) \in 32 .. 47 /\ Vector(line) - 32 = line
      /\ MasterLine(line) \in 0 .. 7
  BY LineCauses
<1>4. /\ Enter(cpu, Vector(line)) /\ master' = {MasterLine(line)}
      /\ UNCHANGED <<boot, tableVars, m_runningTask, cpu, stopped>>
  BY <1>2 DEF Deliver
<1>5. request' \subseteq Line /\ master' \subseteq 0 .. 7 /\ slave' \subseteq 8 .. 15
  BY <1>3, <1>4, VectorAssumption DEF IInv, Types, Deliver
<1>6. /\ Types' /\ Quiet' /\ Gated' /\ Frames' /\ Away' /\ Masked' /\ TimerSet' /\ StopsOnlyFor'
      /\ stack'[cpu] # <<>> /\ stack'[cpu][1].pc = "eoi" /\ stack'[cpu][1].cause = Vector(line)
  BY <1>1, <1>3, <1>4, <1>5, InvEnter, Zenon
<1>7. InService'
  BY <1>3, <1>4, <1>6 DEF InService, MasterLine
<1> QED
  BY <1>6, <1>7 DEF IInv

\* Exceptions and system calls enter outside handlers, with no line in service.
LEMMA InvRaises ==
    ASSUME IInv, NEW f \in Flow, NEW v \in Cause, Raises(f, v) PROVE IInv'
<1>1. cpu = f /\ stack[cpu] = <<>> /\ ~Early
  BY DEF IInv, Quiet, Raises, Running
<1>2. master = {} /\ master' = master /\ request' = request /\ slave' = slave
  BY <1>1 DEF IInv, InService, Raises, picVars
<1>3. Enter(cpu, v) /\ UNCHANGED <<boot, tableVars, m_runningTask, cpu, stopped>>
  BY <1>1 DEF Raises
<1>4. request' \subseteq Line /\ master' \subseteq 0 .. 7 /\ slave' \subseteq 8 .. 15
  BY <1>2 DEF IInv, Types
<1>5. /\ Types' /\ Quiet' /\ Gated' /\ Frames' /\ Away' /\ Masked' /\ TimerSet' /\ StopsOnlyFor'
  BY <1>1, <1>3, <1>4, InvEnter, Zenon
<1>6. InService'
  BY <1>2 DEF InService
<1> QED
  BY <1>5, <1>6 DEF IInv

\* The frame of the handler that runs, and what its number says of its cause.
LEMMA TopFacts ==
    ASSUME IInv, NEW at, InHandler(at)
    PROVE  /\ stack[cpu] # <<>> /\ Len(stack[cpu]) = 1 /\ Top = stack[cpu][1]
           /\ FrameOK(Top) /\ Top.pc = at /\ stopped = NULL /\ ~Early /\ intFlag = FALSE
           /\ cpu \in Flow /\ stack[cpu] \in Seq(Frame)
<1>1. stack[cpu] # <<>> /\ stopped = NULL /\ Top.pc = at
  BY DEF InHandler, Alive
<1>2. Types /\ Frames /\ cpu \in Flow /\ stack[cpu] \in Seq(Frame)
  BY DEF IInv, Types
<1>3. Len(stack[cpu]) = 1 /\ FrameOK(stack[cpu][1])
  BY <1>1, <1>2, OneFrame, Zenon
<1>4. Top = stack[cpu][1]
  BY <1>3 DEF Top
<1>5. ~Early /\ intFlag = FALSE
  BY <1>1, <1>2, Zenon DEF IInv, Quiet, Masked, Types
<1> QED
  BY <1>1, <1>2, <1>3, <1>4, <1>5, Zenon

\* What moving the handler on leaves true when no line stays in service.
LEMMA InvHandled ==
    ASSUME IInv, NEW at \in {"call", "return"}, stack[cpu] # <<>>, Handled(at),
           UNCHANGED <<boot, tableVars, stopped>>, intFlag = FALSE,
           request' \subseteq Line, master' = {}, slave' \subseteq 8 .. 15
    PROVE  /\ (cpu' = cpu /\ intFlag' = intFlag /\ m_runningTask' = m_runningTask) => IInv'
           /\ Quiet' /\ Frames' /\ Gated' /\ StopsOnlyFor' /\ InService'
           /\ stack' \in [Flow -> Seq(Frame)] /\ stack'[cpu][1].pc = at
           /\ \A g \in Flow : g # cpu => stack'[g] = stack[g]
<1>1. /\ boot' = boot /\ IDTTable' = IDTTable /\ m_callbackTable' = m_callbackTable
      /\ stopped' = stopped
  BY DEF tableVars
<1>2. Types /\ Frames /\ cpu \in Flow
  BY DEF IInv, Types
<1>3. /\ stack' \in [Flow -> Seq(Frame)]
      /\ \A g \in Flow : g # cpu => stack'[g] = stack[g]
      /\ Len(stack'[cpu]) = 1 /\ stack'[cpu] # <<>>
      /\ FrameOK(stack'[cpu][1]) /\ stack'[cpu][1].pc = at
  BY <1>2, HandledFrame, Zenon
<1>4. ~Early
  BY <1>2, Zenon DEF IInv, Quiet
<1>5. Quiet' /\ Gated' /\ StopsOnlyFor' /\ InService'
  BY <1>1, <1>4 DEF IInv, Quiet, Gated, Early, StopsOnlyFor, InService
<1>6. Frames'
  <2> SUFFICES ASSUME NEW f \in Flow
               PROVE  Len(stack'[f]) <= 1 /\ (stack'[f] # <<>> => FrameOK(stack'[f][1]))
    BY Zenon DEF Frames, FrameOK
  <2>1. CASE f = cpu
    BY <2>1, <1>3
  <2>2. CASE f # cpu
    BY <2>2, <1>2, <1>3, Zenon DEF Frames
  <2> QED
    BY <2>1, <2>2
<1>7. ASSUME cpu' = cpu, intFlag' = intFlag, m_runningTask' = m_runningTask PROVE IInv'
  <2>1. Types'
    BY <1>1, <1>2, <1>3, <1>7 DEF Types
  <2>2. Away' /\ Masked' /\ TimerSet'
    BY <1>1, <1>3, <1>7 DEF IInv, Away, Masked, TimerSet
  <2> QED
    BY <1>5, <1>6, <2>1, <2>2 DEF IInv
<1> QED
  BY <1>3, <1>5, <1>6, <1>7, Zenon

\* The end of interrupt goes to the controller the line came through, so that
\* nothing stays in service on the master.
LEMMA InvEndOfInterrupt == IInv /\ EndOfInterrupt => IInv'
<1> SUFFICES ASSUME IInv, EndOfInterrupt PROVE IInv'
  OBVIOUS
<1>0. InHandler("eoi") /\ Handled("call")
  BY DEF EndOfInterrupt
<1>1. /\ stack[cpu] # <<>> /\ Top = stack[cpu][1] /\ FrameOK(Top) /\ intFlag = FALSE
  BY <1>0, TopFacts, Zenon
<1>2. master' = {}
  <2>1. CASE master = {}
    BY <2>1 DEF EndOfInterrupt, Acknowledge
  <2>2. CASE master # {}
    <3>1. PICK l \in master : TRUE
      BY <2>2
    <3>2. master = {l} /\ Top.cause \in 32 .. 47
      BY <1>1, <3>1 DEF IInv, InService
    <3>3. Top.number < 40 /\ Top.number \in Nat
      BY <1>1, <3>2, NumberFacts DEF FrameOK
    <3>4. master' = Acknowledge(master)
      BY <3>3 DEF EndOfInterrupt
    <3>5. Min({l}) = l
      <4>1. l \in Nat
        BY <3>1 DEF IInv, Types
      <4> QED
        BY <4>1 DEF Min
    <3> QED
      BY <3>2, <3>4, <3>5 DEF Acknowledge
  <2> QED
    BY <2>1, <2>2
<1>3. slave' \subseteq 8 .. 15 /\ request' \subseteq Line
  BY DEF EndOfInterrupt, Acknowledge, IInv, Types
<1>4. UNCHANGED <<boot, tableVars, stopped>> /\ cpu' = cpu /\ intFlag' = intFlag
      /\ m_runningTask' = m_runningTask
  BY DEF EndOfInterrupt
<1> QED
  BY <1>0, <1>1, <1>2, <1>3, <1>4, InvHandled, Zenon

\* At "call" the line has been acknowledged.
LEMMA Acknowledged == ASSUME IInv, NEW at \in {"call", "return"}, InHandler(at) PROVE master = {}
  BY TopFacts DEF IInv, InService

\* An exception stops the kernel for the vector it was raised with.
LEMMA InvException == IInv /\ Exception => IInv'
<1> SUFFICES ASSUME IInv, Exception PROVE IInv'
  OBVIOUS
<1>0. InHandler("call") /\ Top.number < 32 /\ stopped' = Top.cause
  BY DEF Exception
<1>1. FrameOK(Top) /\ ~Early
  BY <1>0, TopFacts, Zenon
<1>2. Top.cause \in Cause /\ Top.number = NumberOf(Top.cause) /\ IDTTable = configureIdt
  BY <1>1 DEF FrameOK, IInv, Gated
<1>3. /\ Top.cause \in Nat
      /\ Top.cause \in Fault \/ (Top.cause >= 32 /\ Top.cause \notin DOMAIN IDTTable)
  BY <1>0, <1>2, NumberFacts
<1>4. /\ boot' = boot /\ IDTTable' = IDTTable /\ m_callbackTable' = m_callbackTable
      /\ m_runningTask' = m_runningTask /\ master' = master /\ slave' = slave
      /\ intFlag' = intFlag /\ cpu' = cpu /\ stack' = stack /\ request' = request
  BY DEF Exception, tableVars, picVars
<1>5. Types'
  BY <1>0, <1>3, <1>4 DEF IInv, Types
<1>6. StopsOnlyFor'
  BY <1>0, <1>3, <1>4, Zenon DEF StopsOnlyFor
<1>7. Quiet' /\ Gated' /\ TimerSet'
  BY <1>4 DEF IInv, Quiet, Gated, Early, TimerSet
<1>8. Frames' /\ Away' /\ Masked' /\ InService'
  BY <1>4 DEF IInv, Frames, Away, Masked, InService
<1> QED
  BY <1>5, <1>6, <1>7, <1>8 DEF IInv

\* A callback that does not switch tasks.
LEMMA InvCallback == IInv /\ Callback => IInv'
<1> SUFFICES ASSUME IInv, Callback PROVE IInv'
  OBVIOUS
<1>1. /\ InHandler("call") /\ Handled("return") /\ UNCHANGED <<boot, tableVars, stopped>>
      /\ cpu' = cpu /\ intFlag' = intFlag /\ m_runningTask' = m_runningTask
      /\ master' = master /\ slave' = slave /\ request' = request
  BY DEF Callback, picVars
<1>2. stack[cpu] # <<>> /\ intFlag = FALSE
  BY <1>1, TopFacts, Zenon
<1>3. master' = {}
  BY <1>1, Acknowledged
<1>4. slave' \subseteq 8 .. 15 /\ request' \subseteq Line
  BY <1>1 DEF IInv, Types
<1> QED
  BY <1>1, <1>2, <1>3, <1>4, InvHandled, Zenon

\* A tick: without a current task the kernel is still in start(); with one, the
\* handler it switches away from has only its return left.
LEMMA InvTick == ASSUME IInv, NEW task \in Schedulable, Tick(task) PROVE IInv'
<1>0. /\ InHandler("call") /\ Timer \in m_callbackTable /\ task \in Flow
      /\ boot' = boot /\ IDTTable' = IDTTable /\ m_callbackTable' = m_callbackTable
      /\ master' = master /\ slave' = slave /\ request' = request
  BY DEF Tick, tableVars, picVars, Schedulable, Flow
<1>1. /\ stack[cpu] # <<>> /\ intFlag = FALSE /\ cpu \in Flow
  BY <1>0, TopFacts, Zenon
<1>2. master' = {}
  BY <1>0, Acknowledged
<1>3. CASE m_runningTask = NULL
  <2>1. /\ stopped' = Timer /\ m_runningTask' = m_runningTask /\ intFlag' = intFlag
        /\ cpu' = cpu /\ stack' = stack
    BY <1>3 DEF Tick
  <2>2. boot = "running"
    BY <1>0, <1>3 DEF IInv, TimerSet
  <2>3. Types'
    BY <1>0, <2>1 DEF IInv, Types, Timer
  <2>4. StopsOnlyFor' /\ TimerSet'
    BY <1>0, <2>1, <2>2 DEF IInv, StopsOnlyFor, TimerSet
  <2>5. Quiet' /\ Gated'
    BY <1>0, <2>1 DEF IInv, Quiet, Gated, Early
  <2>6. Frames' /\ Away' /\ Masked' /\ InService'
    BY <1>0, <2>1 DEF IInv, Frames, Away, Masked, InService
  <2> QED
    BY <2>3, <2>4, <2>5, <2>6 DEF IInv
<1>4. CASE m_runningTask # NULL
  <2>1. Handled("return") /\ SwitchTo(task) /\ stopped' = stopped
    BY <1>4 DEF Tick
  <2>2. cpu' = task /\ m_runningTask' = task
        /\ intFlag' = (IF task = cpu THEN intFlag ELSE stack[task] = <<>>)
    BY <2>1 DEF SwitchTo
  <2>3. slave' \subseteq 8 .. 15 /\ request' \subseteq Line
    BY <1>0 DEF IInv, Types
  <2>4. /\ Quiet' /\ Frames' /\ Gated' /\ StopsOnlyFor' /\ InService'
        /\ stack' \in [Flow -> Seq(Frame)] /\ stack'[cpu][1].pc = "return"
        /\ \A g \in Flow : g # cpu => stack'[g] = stack[g]
    <3>1. UNCHANGED <<boot, tableVars, stopped>>
      BY <1>0, <2>1, Zenon DEF tableVars
    <3> QED
      BY <1>1, <1>2, <2>1, <2>3, <3>1, InvHandled, Zenon
  <2>5. intFlag' \in BOOLEAN
    BY <1>1, <2>2, Zenon
  <2>6. Types'
    BY <1>0, <1>2, <2>1, <2>2, <2>3, <2>4, <2>5 DEF IInv, Types
  <2>7. Away'
    BY <1>0, <1>1, <2>2, <2>4 DEF IInv, Away
  <2>8. Masked'
    BY <1>0, <1>1, <2>2, <2>4, Zenon DEF Masked
  <2>9. TimerSet'
    BY <1>0, <2>2, FlowAssumption DEF IInv, TimerSet
  <2> QED
    BY <2>4, <2>6, <2>7, <2>8, <2>9 DEF IInv
<1> QED
  BY <1>3, <1>4

\* A task that sleeps is switched away from outside handlers.
LEMMA InvSleep == ASSUME IInv, NEW task \in Schedulable, Sleep(task) PROVE IInv'
<1>1. /\ boot' = boot /\ IDTTable' = IDTTable /\ m_callbackTable' = m_callbackTable
      /\ master' = master /\ slave' = slave /\ request' = request /\ stack' = stack
      /\ stopped' = stopped /\ stack[cpu] = <<>> /\ cpu # mainTask /\ task \in Flow
  BY DEF Sleep, Running, tableVars, picVars, Schedulable, Flow
<1>2. cpu' = task /\ m_runningTask' = task
      /\ intFlag' = (IF task = cpu THEN intFlag ELSE stack[task] = <<>>)
  BY DEF Sleep, SwitchTo
<1>3. intFlag' \in BOOLEAN
  BY <1>2, Zenon DEF IInv, Types
<1>4. Types'
  BY <1>1, <1>2, <1>3 DEF IInv, Types
<1>5. ~Early
  BY <1>1 DEF IInv, Quiet
<1>6. Quiet' /\ Gated' /\ StopsOnlyFor'
  BY <1>1, <1>5 DEF IInv, Quiet, Gated, Early, StopsOnlyFor
<1>7. Frames' /\ Away'
  BY <1>1, <1>2 DEF IInv, Frames, Away
<1>8. Masked'
  BY <1>1, <1>2, Zenon DEF Masked
<1>9. InService' /\ TimerSet'
  BY <1>1, <1>2, FlowAssumption DEF IInv, InService, TimerSet
<1> QED
  BY <1>4, <1>6, <1>7, <1>8, <1>9 DEF IInv

\* iret takes the only frame off the stack.
LEMMA InvReturn == IInv /\ Return => IInv'
<1> SUFFICES ASSUME IInv, Return PROVE IInv'
  OBVIOUS
<1>1. /\ InHandler("return")
      /\ boot' = boot /\ IDTTable' = IDTTable /\ m_callbackTable' = m_callbackTable
      /\ master' = master /\ slave' = slave /\ request' = request /\ cpu' = cpu
      /\ stopped' = stopped /\ m_runningTask' = m_runningTask /\ intFlag' = Top.intFlag
      /\ stack' = [stack EXCEPT ![cpu] = SubSeq(stack[cpu], 1, Len(stack[cpu]) - 1)]
  BY DEF Return, tableVars, picVars
<1>2. /\ Len(stack[cpu]) = 1 /\ FrameOK(Top) /\ ~Early /\ cpu \in Flow
      /\ stack[cpu] \in Seq(Frame)
  BY <1>1, TopFacts, Zenon
<1>3. SubSeq(stack[cpu], 1, Len(stack[cpu]) - 1) = <<>>
  BY <1>2
<1>4. stack' = [stack EXCEPT ![cpu] = <<>>]
  BY <1>1, <1>3
<1>5. stack'[cpu] = <<>> /\ \A g \in Flow : g # cpu => stack'[g] = stack[g]
  BY <1>2, <1>4 DEF IInv, Types
<1>6. intFlag' \in BOOLEAN
  BY <1>1, <1>2 DEF FrameOK, Frame
<1>7. stack' \in [Flow -> Seq(Frame)]
  BY <1>4 DEF IInv, Types
<1>8. Types'
  BY <1>1, <1>6, <1>7 DEF IInv, Types
<1>9. Quiet' /\ Gated' /\ StopsOnlyFor' /\ TimerSet'
  BY <1>1, <1>2 DEF IInv, Quiet, Gated, Early, StopsOnlyFor, TimerSet
<1>10. Away' /\ Masked'
  BY <1>1, <1>5 DEF IInv, Away, Masked
<1>11. InService'
  <2>1. master = {}
    BY <1>1, Acknowledged
  <2> QED
    BY <1>1, <2>1 DEF InService
<1>12. Frames'
  <2> SUFFICES ASSUME NEW f \in Flow
               PROVE  Len(stack'[f]) <= 1 /\ (stack'[f] # <<>> => FrameOK(stack'[f][1]))
    BY Zenon DEF Frames, FrameOK
  <2>1. CASE f = cpu
    BY <2>1, <1>5
  <2>2. CASE f # cpu
    BY <2>2, <1>5, Zenon DEF IInv, Frames
  <2> QED
    BY <2>1, <2>2
<1> QED
  BY <1>8, <1>9, <1>10, <1>11, <1>12 DEF IInv

-----------------------------------------------------------------------------
\* The invariant holds in every reachable state.
LEMMA InvAlways == Spec => []IInv
<1>1. IInv /\ [Next]_vars => IInv'
  <2> SUFFICES ASSUME IInv, [Next]_vars PROVE IInv'
    OBVIOUS
  <2>1. CASE BootNext
    BY <2>1, InvBoot
  <2>2. ASSUME NEW line \in Line, Raise(line) \/ Deliver(line) PROVE IInv'
    BY <2>2, InvRaise, InvDeliver
  <2>3. ASSUME NEW f \in Flow, NEW v \in Fault, Raises(f, v) PROVE IInv'
    BY <2>3, InvRaises DEF Cause
  <2>4. ASSUME NEW f \in Callers, Raises(f, Syscall) PROVE IInv'
    BY <2>4, InvRaises, FlowAssumption DEF Cause, Flow
  <2>5. CASE Handler
    BY <2>5, InvEndOfInterrupt, InvException, InvCallback, InvTick, InvReturn DEF Handler
  <2>6. ASSUME NEW task \in Schedulable, Sleep(task) PROVE IInv'
    BY <2>6, InvSleep
  <2>7. CASE UNCHANGED vars
    <3>1. /\ boot' = boot /\ IDTTable' = IDTTable /\ m_callbackTable' = m_callbackTable
          /\ m_runningTask' = m_runningTask /\ master' = master /\ slave' = slave
          /\ intFlag' = intFlag /\ cpu' = cpu /\ stack' = stack /\ request' = request
          /\ stopped' = stopped
      BY <2>7 DEF vars, tableVars, picVars
    <3>2. Types' /\ Quiet' /\ Gated' /\ TimerSet' /\ StopsOnlyFor'
      BY <3>1 DEF IInv, Types, Quiet, Gated, Early, TimerSet, StopsOnlyFor
    <3>3. Frames' /\ Away' /\ Masked' /\ InService'
      BY <3>1 DEF IInv, Frames, Away, Masked, InService
    <3> QED
      BY <3>2, <3>3 DEF IInv
  <2> QED
    BY <2>1, <2>2, <2>3, <2>4, <2>5, <2>6, <2>7, Zenon DEF Next
<1> QED
  BY <1>1, InvInit, PTL DEF Spec

\* The tables, the controllers and the stacks keep their types: what each gate
\* pushes is a number, and frames hold numbers.
THEOREM InterruptTypes == Spec => []TypeOK
<1>1. IInv => TypeOK
  <2> SUFFICES ASSUME IInv PROVE TypeOK
    OBVIOUS
  <2>1. IDTTable = <<>> \/ IDTTable = configureIdt
    BY DEF IInv, Quiet, Gated
  <2>2. DOMAIN configureIdt \subseteq Nat /\ \A v \in DOMAIN configureIdt : configureIdt[v] \in Nat
    BY DEF configureIdt, Timer, Keyboard, Syscall
  <2>3. DOMAIN IDTTable \subseteq Nat /\ \A v \in DOMAIN IDTTable : IDTTable[v] \in Nat
    BY <2>1, <2>2
  <2> QED
    BY <2>3, Zenon DEF IInv, Types, TypeOK
<1> QED
  BY <1>1, InvAlways, PTL

\* Gates, stubs and switchTask together: whatever the order of lines, exceptions,
\* system calls and task switches, no stack ever holds a second frame.
THEOREM NeverNested == Spec => []HandlersDoNotNest
<1>1. IInv => HandlersDoNotNest
  BY Zenon DEF IInv, Frames, HandlersDoNotNest
<1> QED
  BY <1>1, InvAlways, PTL

\* interruptHandler acknowledges a line before anything can keep it in service:
\* no callback, no task switch and no return comes first.
THEOREM LinesAcknowledged == Spec => []AcknowledgedInTime
<1>1. IInv => AcknowledgedInTime
  <2> SUFFICES ASSUME IInv, stopped = NULL, NEW l \in master
               PROVE  InHandler("eoi") /\ MasterLine(Top.cause - 32) = l
    BY Zenon DEF AcknowledgedInTime
  <2>1. /\ stack[cpu] # <<>> /\ stack[cpu][1].pc = "eoi"
        /\ l = MasterLine(stack[cpu][1].cause - 32)
    BY Zenon DEF IInv, InService
  <2>2. cpu \in Flow /\ Types /\ Frames
    BY DEF IInv, Types
  <2>3. Len(stack[cpu]) = 1
    BY <2>1, <2>2, OneFrame, Zenon
  <2>4. Top = stack[cpu][1]
    BY <2>3 DEF Top
  <2>5. boot # "returned"
    BY <2>1, <2>2 DEF IInv, Quiet, Early
  <2> QED
    BY <2>1, <2>4, <2>5, Zenon DEF InHandler, Alive
<1> QED
  BY <1>1, InvAlways, PTL

\* interruptHandler, kernel_main and start(): the vectors that stop the kernel.
THEOREM KernelStops == Spec => []StopsOnlyFor
<1>1. IInv => StopsOnlyFor
  BY Zenon DEF IInv
<1> QED
  BY <1>1, InvAlways, PTL
=============================================================================
