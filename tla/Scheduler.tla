------------------------------ MODULE Scheduler ------------------------------
(***************************************************************************)
(* The preemptive scheduler of the kernel: Scheduler.cpp and the context   *)
(* switch taskswitch.S, on one CPU.  A step is one C++ statement that      *)
(* touches shared state, or half of switchTask.  The timer interrupt may   *)
(* arrive between any two steps while the interrupt flag is set.           *)
(*                                                                         *)
(* Every task has a flow of its own: its stack and the position in its     *)
(* code.  The variable cpu is the flow whose stack the CPU is really       *)
(* using, which is not always the flow of m_runningTask.  Interrupt level  *)
(* is one more flow, irq, that runs on the stack it interrupted.           *)
(***************************************************************************)
EXTENDS Naturals, Sequences

CONSTANTS
    mainTask,   \* the static Task of kernel_main
    Created,    \* the Tasks createTask can return
    NULL,       \* the null pointer
    irq,        \* the flow of an interrupt handler
    Sleepers,   \* the created tasks whose code calls sleep
    LockUsers,  \* the tasks whose code has sections between disable and enable
    SleepMs,    \* the argument of sleep
    LateTicks,  \* may a tick arrive between popf and the load of esp?
    IrqLocks,   \* does an interrupt handler have a disable/enable section?
    MaxTime     \* the bound on m_timeMs, where it saturates

Task == Created \cup {mainTask}
Flow == Task \cup {irq}

\* Only created tasks sleep: kernel_main spins in while(1).
ASSUME TaskAssumption ==
    /\ mainTask \notin Created
    /\ irq \notin Task
    /\ NULL \notin Task \cup {irq}
    /\ Sleepers \subseteq Created
    /\ LockUsers \subseteq Task

ASSUME TimeAssumption == SleepMs \in Nat /\ MaxTime \in Nat \ {0}

ASSUME SwitchAssumption == LateTicks \in BOOLEAN /\ IrqLocks \in BOOLEAN

VARIABLES
    m_timeMs, m_taskTail, m_runningTask, schedulerEnabled,
    next, state, wakeupTime,   \* the fields of each Task
    regs,      \* Task.regs: the flow they continue (NULL: one caught in the
               \* middle of switchTask) and the interrupt flag they restore
    pc,        \* the position of each flow
    last,      \* the local variable last of schedule in each flow
    cand,      \* the local variable nextTask of goToNextTask in each flow
    starting,  \* the parameter task of main's taskStart
    cpu,       \* the flow whose stack the CPU uses
    intFlag,   \* IF of EFLAGS: are interrupts enabled?
    loading,   \* the task switchTask is loading, NULL when it is not
    created,   \* the tasks createTask has returned
    ring,      \* history: the tasks in the order taskStart linked them
    due        \* history: when the last sleep of a task should be over

taskVars == <<next, state, wakeupTime>>
listVars == <<m_taskTail, starting, created, ring>>
cpuVars  == <<cpu, intFlag, loading>>
vars == <<m_timeMs, m_runningTask, schedulerEnabled, taskVars, listVars,
          cpuVars, regs, pc, last, cand, due>>

TaskState == {"None", "Running", "Sleep"}

Position == {"run", "tail", "loop", "ready", "locked", "stamp", "yield",
             "scan", "swap", "save", "woken", "idle"}

TypeOK ==
    /\ m_timeMs \in 0 .. MaxTime
    /\ m_runningTask \in Task /\ m_taskTail \in Task
    /\ schedulerEnabled \in BOOLEAN
    /\ next \in [Task -> Task \cup {NULL}]
    /\ state \in [Task -> TaskState]
    /\ wakeupTime \in [Task -> Nat]
    /\ regs \in [Task -> [flow : Task \cup {NULL}, intFlag : BOOLEAN]]
    /\ pc \in [Flow -> Position]
    /\ last \in [Flow -> Task]
    /\ cand \in [Flow -> Task \cup {NULL}]
    /\ starting \in Task
    /\ cpu \in Task /\ intFlag \in BOOLEAN
    /\ loading \in Task \cup {NULL}
    /\ created \subseteq Created
    /\ ring \in Seq(Task)
    /\ due \in [Task -> Nat]

-----------------------------------------------------------------------------
(* The state start() leaves, once the timer is registered.                 *)
Init ==
    /\ m_timeMs = 0
    /\ m_runningTask = mainTask /\ m_taskTail = mainTask
    /\ schedulerEnabled = TRUE
    /\ next = [t \in Task |-> NULL]
    /\ state = [t \in Task |-> IF t = mainTask THEN "Running" ELSE "None"]
    /\ wakeupTime = [t \in Task |-> 0]
    /\ regs = [t \in Task |-> [flow |-> t, intFlag |-> TRUE]]
    /\ pc = [f \in Flow |-> IF f = irq THEN "idle" ELSE "run"]
    /\ last = [f \in Flow |-> mainTask]
    /\ cand = [f \in Flow |-> NULL]
    /\ starting = mainTask
    /\ cpu = mainTask /\ intFlag = TRUE /\ loading = NULL
    /\ created = {} /\ ring = <<mainTask>>
    /\ due = [t \in Task |-> 0]

-----------------------------------------------------------------------------
\* Saved registers that are not those of their task: what the CPU does once
\* they are loaded is undefined, and no step of the model follows.
Clobbered == \E t \in Task : regs[t].flow # t

(* Task code runs only outside interrupts and outside switchTask.          *)
Executing(f) ==
    /\ ~ Clobbered
    /\ IF pc[irq] # "idle" THEN f = irq ELSE f = cpu /\ loading = NULL

At(f, p) == Executing(f) /\ pc[f] = p

GoTo(f, p) == pc' = [pc EXCEPT ![f] = p]

Cap(time) == IF time < MaxTime THEN time ELSE MaxTime - 1

\* Mutant: a sleeper is looked for at its wakeup time only, not after it.
Eligible_OnTimeOnly(t) ==
    \/ state[t] = "Running"
    \/ state[t] = "Sleep" /\ m_timeMs = wakeupTime[t]

Eligible(t) == \/ state[t] = "Running"
               \/ state[t] = "Sleep" /\ m_timeMs > wakeupTime[t]

-----------------------------------------------------------------------------
\* Mutant: the Task comes from recycled memory that still says Running.
CreateTask_Recycled(t) ==
    /\ At(mainTask, "run")
    /\ t \in Created \ created
    /\ created' = created \cup {t}
    /\ state' = [state EXCEPT ![t] = "Running"]
    /\ UNCHANGED <<m_timeMs, m_runningTask, schedulerEnabled, m_taskTail, next,
                   wakeupTime, starting, ring, cpuVars, regs, pc, last, cand, due>>

(* createTask, called by main only.  It sets next but neither state nor    *)
(* wakeupTime; kmalloc takes the Task from a page that memoryAllocate      *)
(* cleared, and nothing in the kernel frees memory back to the heap.  The  *)
(* eflags are those start() read, with interrupts enabled.                 *)
CreateTask(t) ==
    /\ At(mainTask, "run")
    /\ t \in Created \ created
    /\ created' = created \cup {t}
    /\ next' = [next EXCEPT ![t] = NULL]
    /\ state' = [state EXCEPT ![t] = "None"]
    /\ wakeupTime' = [wakeupTime EXCEPT ![t] = 0]
    /\ regs' = [regs EXCEPT ![t] = [flow |-> t, intFlag |-> TRUE]]
    /\ UNCHANGED <<m_timeMs, m_runningTask, schedulerEnabled, m_taskTail,
                   starting, ring, cpuVars, pc, last, cand, due>>

(* taskStart(t), one action per store.                                     *)
TaskStartLink(t) ==
    /\ At(mainTask, "run")
    /\ t \in created /\ \A i \in 1 .. Len(ring) : ring[i] # t
    /\ starting' = t
    /\ next' = [next EXCEPT ![m_taskTail] = t]
    /\ ring' = Append(ring, t)
    /\ GoTo(mainTask, "tail")
    /\ UNCHANGED <<m_timeMs, m_runningTask, schedulerEnabled, state, wakeupTime,
                   m_taskTail, created, cpuVars, regs, last, cand, due>>

\* Mutant: the tail is not moved.
TaskStartTail_NotMoved ==
    At(mainTask, "tail") /\ GoTo(mainTask, "loop")
    /\ UNCHANGED <<m_timeMs, m_runningTask, schedulerEnabled, taskVars,
                   listVars, cpuVars, regs, last, cand, due>>

TaskStartTail ==
    /\ At(mainTask, "tail")
    /\ m_taskTail' = starting
    /\ GoTo(mainTask, "loop")
    /\ UNCHANGED <<m_timeMs, m_runningTask, schedulerEnabled, taskVars,
                   starting, created, ring, cpuVars, regs, last, cand, due>>

TaskStartLoop ==
    /\ At(mainTask, "loop")
    /\ next' = [next EXCEPT ![starting] = mainTask]
    /\ GoTo(mainTask, "ready")
    /\ UNCHANGED <<m_timeMs, m_runningTask, schedulerEnabled, state, wakeupTime,
                   listVars, cpuVars, regs, last, cand, due>>

\* Mutant: the state is never set.
TaskStartReady_NoState ==
    At(mainTask, "ready") /\ GoTo(mainTask, "run")
    /\ UNCHANGED <<m_timeMs, m_runningTask, schedulerEnabled, taskVars,
                   listVars, cpuVars, regs, last, cand, due>>

TaskStartReady ==
    /\ At(mainTask, "ready")
    /\ state' = [state EXCEPT ![starting] = "Running"]
    /\ GoTo(mainTask, "run")
    /\ UNCHANGED <<m_timeMs, m_runningTask, schedulerEnabled, next, wakeupTime,
                   listVars, cpuVars, regs, last, cand, due>>

-----------------------------------------------------------------------------
(* disable() and enable() around a section of a task's code: kmalloc,      *)
(* kfree and krealloc through liballoc_lock, and RingBuffer::pop.          *)
Disable(f) ==
    /\ f \in LockUsers /\ At(f, "run")
    /\ schedulerEnabled' = FALSE
    /\ GoTo(f, "locked")
    /\ UNCHANGED <<m_timeMs, m_runningTask, taskVars, listVars, cpuVars, regs,
                   last, cand, due>>

Enable(f) ==
    /\ At(f, "locked")
    /\ schedulerEnabled' = TRUE
    /\ GoTo(f, "run")
    /\ UNCHANGED <<m_timeMs, m_runningTask, taskVars, listVars, cpuVars, regs,
                   last, cand, due>>

(* sleep(SleepMs), one action per store; it goes on with schedule().       *)
Sleep(f) ==
    /\ f \in Sleepers /\ At(f, "run")
    /\ m_timeMs + SleepMs < MaxTime
    /\ state' = [state EXCEPT ![m_runningTask] = "Sleep"]
    /\ due' = [due EXCEPT ![f] = m_timeMs + SleepMs]
    /\ GoTo(f, "stamp")
    /\ UNCHANGED <<m_timeMs, m_runningTask, schedulerEnabled, next, wakeupTime,
                   listVars, cpuVars, regs, last, cand>>

SleepStamp(f) ==
    /\ At(f, "stamp")
    /\ wakeupTime' = [wakeupTime EXCEPT ![m_runningTask] = Cap(m_timeMs + SleepMs)]
    /\ GoTo(f, "yield")
    /\ UNCHANGED <<m_timeMs, m_runningTask, schedulerEnabled, next, state,
                   listVars, cpuVars, regs, last, cand, due>>

SleepReturn(f) ==
    /\ At(f, "woken")
    /\ GoTo(f, "run")
    /\ UNCHANGED <<m_timeMs, m_runningTask, schedulerEnabled, taskVars,
                   listVars, cpuVars, regs, last, cand, due>>

-----------------------------------------------------------------------------
\* Mutant: the search starts at the head of the list.
EnterSchedule_FromHead(f) ==
    /\ last' = [last EXCEPT ![f] = m_runningTask]
    /\ cand' = [cand EXCEPT ![f] = mainTask]
    /\ GoTo(f, "scan")

(* schedule(): entered by sleep in task code, where interrupts stay        *)
(* enabled, and by the timer's irqCallback, where they are off.            *)
EnterSchedule(f) ==
    /\ last' = [last EXCEPT ![f] = m_runningTask]
    /\ cand' = [cand EXCEPT ![f] = next[m_runningTask]]
    /\ GoTo(f, "scan")

\* schedule() returns without a switch; from interrupt level the iret
\* restores the interrupt flag, which was set when the interrupt came.
LeaveSchedule(f) ==
    /\ GoTo(f, IF f = irq THEN "idle" ELSE "woken")
    /\ intFlag' = TRUE

Yield(f) ==
    /\ At(f, "yield")
    /\ IF schedulerEnabled
       THEN EnterSchedule(f)
       ELSE GoTo(f, "woken") /\ UNCHANGED <<last, cand>>
    /\ UNCHANGED <<m_timeMs, m_runningTask, schedulerEnabled, taskVars,
                   listVars, cpuVars, regs, due>>

Interruptible ==
    ~ Clobbered /\ intFlag /\ pc[irq] = "idle" /\ (loading # NULL => LateTicks)

\* Mutant: schedule() does not look at schedulerEnabled.
TimerIrq_Always ==
    /\ Interruptible
    /\ m_timeMs' = IF m_timeMs < MaxTime THEN m_timeMs + 1 ELSE m_timeMs
    /\ EnterSchedule(irq) /\ intFlag' = FALSE
    /\ UNCHANGED <<m_runningTask, schedulerEnabled, taskVars, listVars, cpu,
                   loading, regs, due>>

(* The timer interrupt: irqCallback and the start of its schedule().       *)
TimerIrq ==
    /\ Interruptible
    /\ m_timeMs' = IF m_timeMs < MaxTime THEN m_timeMs + 1 ELSE m_timeMs
    /\ IF schedulerEnabled
       THEN EnterSchedule(irq) /\ intFlag' = FALSE
       ELSE UNCHANGED <<last, cand, pc, intFlag>>
    /\ UNCHANGED <<m_runningTask, schedulerEnabled, taskVars, listVars, cpu,
                   loading, regs, due>>

(* The keyboard interrupt: the disable and enable of RingBuffer::push.     *)
KeyboardIrq ==
    /\ IrqLocks /\ Interruptible
    /\ schedulerEnabled' = TRUE
    /\ UNCHANGED <<m_timeMs, m_runningTask, taskVars, listVars, cpuVars, regs,
                   pc, last, cand, due>>

(* The loop of goToNextTask: the end of the list, a task that may run, or  *)
(* the next one.                                                           *)
ScanEnd(f) ==
    /\ At(f, "scan")
    /\ cand[f] = NULL
    /\ LeaveSchedule(f)
    /\ UNCHANGED <<m_timeMs, m_runningTask, schedulerEnabled, taskVars,
                   listVars, cpu, loading, regs, last, cand, due>>

ScanTake(f) ==
    /\ At(f, "scan")
    /\ cand[f] # NULL /\ Eligible(cand[f])
    /\ state' = [state EXCEPT ![cand[f]] = "Running"]
    /\ GoTo(f, "swap")
    /\ UNCHANGED <<m_timeMs, m_runningTask, schedulerEnabled, next, wakeupTime,
                   listVars, cpuVars, regs, last, cand, due>>

ScanSkip(f) ==
    /\ At(f, "scan")
    /\ cand[f] # NULL /\ ~ Eligible(cand[f])
    /\ cand' = [cand EXCEPT ![f] = next[cand[f]]]
    /\ UNCHANGED <<m_timeMs, m_runningTask, schedulerEnabled, taskVars,
                   listVars, cpuVars, regs, pc, last, due>>

\* Mutant: last is read after m_runningTask is assigned.
Swap_LateLast(f) ==
    /\ At(f, "swap")
    /\ m_runningTask' = cand[f]
    /\ last' = [last EXCEPT ![f] = cand[f]]
    /\ GoTo(f, "save")
    /\ UNCHANGED <<m_timeMs, schedulerEnabled, taskVars, listVars, cpuVars,
                   regs, cand, due>>

Swap(f) ==
    /\ At(f, "swap")
    /\ m_runningTask' = cand[f]
    /\ GoTo(f, "save")
    /\ UNCHANGED <<m_timeMs, schedulerEnabled, taskVars, listVars, cpuVars,
                   regs, last, cand, due>>

(* switchTask up to its popf: the registers are saved into last, and the   *)
(* flags of m_runningTask are restored while the stack is still the old    *)
(* one.  What the flow does after switchTask is where it goes on.          *)
SwitchSave(f) ==
    /\ At(f, "save")
    /\ regs' = [regs EXCEPT ![last[f]] =
                   [flow |-> IF loading = NULL THEN cpu ELSE NULL,
                    intFlag |-> intFlag]]
    /\ loading' = m_runningTask
    /\ intFlag' = regs'[m_runningTask].intFlag
    /\ GoTo(f, IF f = irq THEN "idle" ELSE "woken")
    /\ UNCHANGED <<m_timeMs, m_runningTask, schedulerEnabled, taskVars,
                   listVars, cpu, last, cand, due>>

\* Mutant: esp is not loaded.
SwitchLoad_KeepsStack ==
    /\ ~ Clobbered /\ loading # NULL /\ pc[irq] = "idle"
    /\ loading' = NULL
    /\ intFlag' = TRUE
    /\ UNCHANGED <<m_timeMs, m_runningTask, schedulerEnabled, taskVars,
                   listVars, cpu, regs, pc, last, cand, due>>

(* switchTask from the load of esp: the new task's flow goes on, out of    *)
(* its interrupt handler if that is where it was saved.                    *)
SwitchLoad ==
    /\ ~ Clobbered /\ loading # NULL /\ pc[irq] = "idle"
    /\ cpu' = regs[loading].flow
    /\ loading' = NULL
    /\ intFlag' = TRUE
    /\ UNCHANGED <<m_timeMs, m_runningTask, schedulerEnabled, taskVars,
                   listVars, regs, pc, last, cand, due>>

-----------------------------------------------------------------------------
TaskStartStep == TaskStartTail \/ TaskStartLoop \/ TaskStartReady

\* The statements a flow has to go on with.
FlowStep(f) == Enable(f) \/ SleepStamp(f) \/ Yield(f) \/ SleepReturn(f)

SchedStep(f) == ScanEnd(f) \/ ScanTake(f) \/ ScanSkip(f) \/ Swap(f) \/ SwitchSave(f)

Undefined == Clobbered /\ UNCHANGED vars

Next ==
    \/ \E t \in Created : CreateTask(t) \/ TaskStartLink(t)
    \/ TaskStartStep
    \/ \E f \in Task : Disable(f) \/ Sleep(f) \/ FlowStep(f)
    \/ \E f \in Flow : SchedStep(f)
    \/ SwitchLoad
    \/ TimerIrq
    \/ KeyboardIrq
    \/ Undefined

Spec == Init /\ [][Next]_vars

\* What the machine guarantees.  The PIC latches a tick until interrupts are
\* enabled, and ticks are not in lockstep with the sections that disable the
\* scheduler.  A handler runs to its end.  A time slice of a task is long
\* enough for a statement of it.
Fairness ==
    /\ SF_vars(schedulerEnabled /\ TimerIrq)
    /\ WF_vars(SwitchLoad)
    /\ WF_vars(SchedStep(irq))
    /\ SF_vars(TaskStartStep)
    /\ \A f \in Task : SF_vars(FlowStep(f) \/ SchedStep(f))

FairSpec == Spec /\ Fairness

-----------------------------------------------------------------------------
(* Safety.                                                                 *)

\* Between disable() and enable() a task is alone: no other task is inside
\* such a section (kmalloc.cpp and RingBuffer.h use them as their lock).
LockExclusive ==
    \A f, g \in Task : pc[f] = "locked" /\ pc[g] = "locked" => f = g

\* The end of the list is open until the third statement of taskStart.
RingOpen == Len(ring) = 1 \/ pc[mainTask] \in {"tail", "loop"}

RingDistinct == \A i, j \in 1 .. Len(ring) : ring[i] = ring[j] => i = j

RingLinks ==
    /\ \A i \in 1 .. Len(ring) - 1 : next[ring[i]] = ring[i + 1]
    /\ next[ring[Len(ring)]] = IF RingOpen THEN NULL ELSE mainTask

RingTail == m_taskTail = ring[IF pc[mainTask] = "tail" THEN Len(ring) - 1 ELSE Len(ring)]

\* taskStart keeps the list of tasks in the order they were started, each
\* once, with m_taskTail at its end; it is closed to a ring by main except
\* between the statements of taskStart.
RingInOrder == RingDistinct /\ RingLinks /\ RingTail

\* A task that main has linked but not yet marked Running is never chosen,
\* however the timer interrupts taskStart.
NoHalfStartedTask ==
    pc[mainTask] \in {"tail", "loop", "ready"} =>
        /\ m_runningTask # starting /\ cpu # starting
        /\ \A f \in Flow : pc[f] \in {"swap", "save"} => cand[f] # starting

\* The tasks strictly between two tasks of the ring, in ring order.
Between(a, b) ==
    LET i == CHOOSE k \in 1 .. Len(ring) : ring[k] = a
        j == CHOOSE k \in 1 .. Len(ring) : ring[k] = b
    IN  {ring[k] : k \in {k \in 1 .. Len(ring) :
                            IF i < j THEN i < k /\ k < j ELSE k > i \/ k < j}}

\* Round robin: when the timer hands the CPU on, no task that could run is
\* passed over.
NoTaskSkipped ==
    pc[irq] = "swap" =>
        \A t \in Between(last[irq], cand[irq]) : ~ Eligible(t)

\* switchTask saves into a task's registers the context of that task only.
SavesOwnContext == ~ Clobbered

\* Outside the switch itself, the CPU runs the task m_runningTask points to
\* (memoryAllocate and sleep rely on it).
RunningTaskOnCpu ==
    (pc[irq] # "save" /\ loading = NULL /\ pc[cpu] # "save") =>
        cpu = m_runningTask

\* Sleeping takes at least the time that was asked for.
SleepLasts ==
    [][\A f \in Task : (pc[f] = "woken" /\ pc'[f] = "run") => m_timeMs >= due[f]]_vars

-----------------------------------------------------------------------------
(* Liveness.                                                               *)

\* A task that has gone to sleep runs again, unless the list stays open for
\* ever because main does not get to finish taskStart.
SleeperWakes ==
    \A t \in Sleepers :
        <>[](pc[mainTask] \notin {"tail", "loop"}) =>
            ((state[t] = "Sleep") ~> (m_runningTask = t /\ state[t] = "Running") \/ Clobbered)

\* Once no task is being started, every started task that does not sleep gets
\* the CPU again and again.
RoundRobin ==
    \A t \in Task \ Sleepers :
        <>[](pc[mainTask] = "run" /\ \E i \in 1 .. Len(ring) : ring[i] = t)
            => []<>(cpu = t \/ Clobbered)

\* The list loops back to the first task: main always gets its turn again.
LoopsBackToMain == []<>(cpu = mainTask)
====
