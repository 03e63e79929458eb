--------------------------- MODULE SchedulerProofs ---------------------------
(* Theorems about Scheduler, for any set of tasks and any bound on time.   *)
EXTENDS Scheduler, TLAPS

USE TaskAssumption, TimeAssumption, SwitchAssumption DEF Task, Flow

\* schedule() switches to the task its search found, never to the null
\* pointer at the end of the list.
FoundTask == \A f \in Flow : pc[f] = "swap" => cand[f] \in Task

TypeInv == TypeOK /\ FoundTask

\* The state that start() leaves is well typed.
LEMMA TypeInit == Init => TypeInv
<1> SUFFICES ASSUME Init PROVE TypeInv
  BY Zenon
<1>1. TypeOK
  BY DEF Init, TypeOK, TaskState, Position
<1>2. FoundTask
  BY Zenon DEF Init, FoundTask
<1> QED
  BY <1>1, <1>2, Zenon DEF TypeInv

\* No statement of the scheduler and no interrupt breaks the types: a search
\* that goes on to switch has found a task.
LEMMA TypeStep == TypeInv /\ [Next]_vars => TypeInv'
<1> SUFFICES ASSUME TypeInv, [Next]_vars PROVE TypeInv'
  BY Zenon
<1> USE DEF TypeInv, FoundTask, TypeOK, TaskState, Position, At, Executing, GoTo, taskVars, listVars, cpuVars
<1>1. ASSUME NEW t \in Created, CreateTask(t) PROVE TypeInv'
  BY <1>1, Zenon DEF CreateTask
<1>2. ASSUME NEW t \in Created, TaskStartLink(t) PROVE TypeInv'
  <2>1. pc' \in [Flow -> Position] /\ next' \in [Task -> Task \cup {NULL}]
    BY <1>2, Zenon DEF TaskStartLink
  <2>2. ring' \in Seq(Task) /\ starting' \in Task
    BY <1>2 DEF TaskStartLink
  <2>3. FoundTask'
    BY <1>2, Zenon DEF TaskStartLink
  <2> QED
    BY <1>2, <2>1, <2>2, <2>3, Zenon DEF TaskStartLink
<1>3. CASE TaskStartTail
  BY <1>3, Zenon DEF TaskStartTail
<1>4. CASE TaskStartLoop
  BY <1>4, Zenon DEF TaskStartLoop
<1>5. CASE TaskStartReady
  BY <1>5 DEF TaskStartReady
<1>6. ASSUME NEW f \in Task, Disable(f) PROVE TypeInv'
  <2>1. pc' \in [Flow -> Position] /\ FoundTask'
    BY <1>6, Zenon DEF Disable
  <2> QED
    BY <1>6, <2>1, Zenon DEF Disable
<1>7. ASSUME NEW f \in Task, Sleep(f) PROVE TypeInv'
  BY <1>7 DEF Sleep
<1>8. ASSUME NEW f \in Task, Enable(f) PROVE TypeInv'
  BY <1>8, Zenon DEF Enable
<1>9. ASSUME NEW f \in Task, SleepStamp(f) PROVE TypeInv'
  BY <1>9 DEF SleepStamp, Cap
<1>10. ASSUME NEW f \in Task, Yield(f) PROVE TypeInv'
  <2>1. CASE schedulerEnabled
    <3>1. EnterSchedule(f)
      BY <1>10, <2>1, Zenon DEF Yield
    <3> QED
      BY <1>10, <3>1 DEF Yield, EnterSchedule
  <2>2. CASE ~ schedulerEnabled
    <3>1. pc' = [pc EXCEPT ![f] = "woken"] /\ UNCHANGED <<last, cand>>
      BY <1>10, <2>2, Zenon DEF Yield
    <3>2. pc' \in [Flow -> Position] /\ FoundTask'
      BY <3>1, Zenon
    <3> QED
      BY <1>10, <3>1, <3>2, Zenon DEF Yield
  <2> QED
    BY <2>1, <2>2, Zenon
<1>11. ASSUME NEW f \in Task, SleepReturn(f) PROVE TypeInv'
  BY <1>11, Zenon DEF SleepReturn
<1>12. ASSUME NEW f \in Flow, ScanEnd(f) PROVE TypeInv'
  BY <1>12, Zenon DEF ScanEnd, LeaveSchedule
<1>13. ASSUME NEW f \in Flow, ScanTake(f) PROVE TypeInv'
  BY <1>13, Zenon DEF ScanTake
<1>14. ASSUME NEW f \in Flow, ScanSkip(f) PROVE TypeInv'
  BY <1>14 DEF ScanSkip
<1>15. ASSUME NEW f \in Flow, Swap(f) PROVE TypeInv'
  <2>1. pc' \in [Flow -> Position] /\ FoundTask'
    BY <1>15, Zenon DEF Swap
  <2>2. m_runningTask' \in Task
    BY <1>15, Zenon DEF Swap
  <2> QED
    BY <1>15, <2>1, <2>2, Zenon DEF Swap
<1>16. ASSUME NEW f \in Flow, SwitchSave(f) PROVE TypeInv'
  BY <1>16, Zenon DEF SwitchSave
<1>17. CASE SwitchLoad
  <2>1. cpu' \in Task
    BY <1>17, Zenon DEF SwitchLoad, Clobbered
  <2> QED
    BY <1>17, <2>1, Zenon DEF SwitchLoad
<1>18. CASE TimerIrq
  <2>1. CASE schedulerEnabled
    <3>1. EnterSchedule(irq) /\ intFlag' = FALSE
      BY <1>18, <2>1, Zenon DEF TimerIrq
    <3>2. m_timeMs' \in 0 .. MaxTime
      BY <1>18 DEF TimerIrq
    <3>3. UNCHANGED <<m_runningTask, schedulerEnabled, taskVars, listVars, cpu,
                      loading, regs, due>>
      BY <1>18, Zenon DEF TimerIrq
    <3> QED
      BY <3>1, <3>2, <3>3, Zenon DEF EnterSchedule
  <2>2. CASE ~ schedulerEnabled
    <3>1. UNCHANGED <<last, cand, pc, intFlag>>
      BY <1>18, <2>2, Zenon DEF TimerIrq
    <3>2. m_timeMs' \in 0 .. MaxTime
      BY <1>18 DEF TimerIrq
    <3> QED
      BY <1>18, <3>1, <3>2, Zenon DEF TimerIrq
  <2> QED
    BY <2>1, <2>2, Zenon
<1>19. CASE KeyboardIrq
  BY <1>19, Zenon DEF KeyboardIrq
<1>20. CASE UNCHANGED vars
  BY <1>20, Zenon DEF vars
<1> QED
  BY <1>1, <1>2, <1>3, <1>4, <1>5, <1>6, <1>7, <1>8, <1>9, <1>10, <1>11,
     <1>12, <1>13, <1>14, <1>15, <1>16, <1>17, <1>18, <1>19, <1>20, Zenon
     DEF Next, TaskStartStep, FlowStep, SchedStep, Undefined

-----------------------------------------------------------------------------
\* Every state of every execution is well typed, whatever the interrupts do:
\* in particular m_runningTask is never the null pointer.
THEOREM TypeCorrect == Spec => []TypeOK
<1>1. TypeInv => TypeOK
  BY Zenon DEF TypeInv
<1> QED
  BY TypeInit, TypeStep, <1>1, PTL DEF Spec

\* The types, and that a search that goes on to switch has found a task.
THEOREM TypeInvariant == Spec => []TypeInv
  BY TypeInit, TypeStep, PTL DEF Spec

-----------------------------------------------------------------------------
\* Why disable() is a lock: the task that called it is the one on the CPU,
\* no switch is under way, and the flag keeps the next tick from starting one.
LockInv ==
    \A f \in Task : pc[f] = "locked" =>
        /\ cpu = f /\ loading = NULL /\ pc[irq] = "idle"
        /\ schedulerEnabled = FALSE

\* While a task is between disable() and enable() it keeps the CPU: schedule()
\* returns at once, and without handlers that enable nothing ends the section.
LEMMA LockStep ==
    ASSUME IrqLocks = FALSE
    PROVE  TypeInv /\ LockInv /\ [Next]_vars => LockInv'
<1> SUFFICES ASSUME TypeInv, LockInv, [Next]_vars PROVE LockInv'
  BY Zenon
<1> USE DEF TypeInv, TypeOK, LockInv, At, Executing, GoTo, taskVars, listVars, cpuVars
<1>1. ASSUME NEW t \in Created, CreateTask(t) PROVE LockInv'
  BY <1>1, Zenon DEF CreateTask
<1>2. ASSUME NEW t \in Created, TaskStartLink(t) PROVE LockInv'
  BY <1>2, Zenon DEF TaskStartLink
<1>3. CASE TaskStartTail
  BY <1>3, Zenon DEF TaskStartTail
<1>4. CASE TaskStartLoop
  BY <1>4, Zenon DEF TaskStartLoop
<1>5. CASE TaskStartReady
  BY <1>5, Zenon DEF TaskStartReady
<1>6. ASSUME NEW f \in Task, Disable(f) PROVE LockInv'
  BY <1>6, Zenon DEF Disable
<1>7. ASSUME NEW f \in Task, Sleep(f) PROVE LockInv'
  BY <1>7, Zenon DEF Sleep
<1>8. ASSUME NEW f \in Task, Enable(f) PROVE LockInv'
  BY <1>8, Zenon DEF Enable
<1>9. ASSUME NEW f \in Task, SleepStamp(f) PROVE LockInv'
  BY <1>9, Zenon DEF SleepStamp
<1>10. ASSUME NEW f \in Task, Yield(f) PROVE LockInv'
  BY <1>10 DEF Yield, EnterSchedule
<1>11. ASSUME NEW f \in Task, SleepReturn(f) PROVE LockInv'
  BY <1>11, Zenon DEF SleepReturn
<1>12. ASSUME NEW f \in Flow, ScanEnd(f) PROVE LockInv'
  BY <1>12, Zenon DEF ScanEnd, LeaveSchedule
<1>13. ASSUME NEW f \in Flow, ScanTake(f) PROVE LockInv'
  BY <1>13, Zenon DEF ScanTake
<1>14. ASSUME NEW f \in Flow, ScanSkip(f) PROVE LockInv'
  BY <1>14, Zenon DEF ScanSkip
<1>15. ASSUME NEW f \in Flow, Swap(f) PROVE LockInv'
  BY <1>15, Zenon DEF Swap
<1>16. ASSUME NEW f \in Flow, SwitchSave(f) PROVE LockInv'
  BY <1>16, Zenon DEF SwitchSave
<1>17. CASE SwitchLoad
  BY <1>17, Zenon DEF SwitchLoad
<1>18. CASE TimerIrq
  <2>1. CASE schedulerEnabled
    <3>1. EnterSchedule(irq)
      BY <1>18, <2>1, Zenon DEF TimerIrq
    <3>2. \A f \in Task : pc[f] # "locked"
      BY <2>1, Zenon DEF LockInv
    <3> QED
      BY <1>18, <2>1, <3>1, <3>2, Zenon DEF TimerIrq, EnterSchedule
  <2>2. CASE ~ schedulerEnabled
    BY <1>18, <2>2, Zenon DEF TimerIrq
  <2> QED
    BY <2>1, <2>2, Zenon
<1>19. CASE KeyboardIrq
  BY <1>19, Zenon DEF KeyboardIrq, Interruptible
<1>20. CASE UNCHANGED vars
  BY <1>20, Zenon DEF vars
<1> QED
  BY <1>1, <1>2, <1>3, <1>4, <1>5, <1>6, <1>7, <1>8, <1>9, <1>10, <1>11,
     <1>12, <1>13, <1>14, <1>15, <1>16, <1>17, <1>18, <1>19, <1>20, Zenon
     DEF Next, TaskStartStep, FlowStep, SchedStep, Undefined

\* As long as no interrupt handler uses disable() and enable(), at most one
\* task is between the two, for any number of tasks that use them.
THEOREM LockIsExclusive ==
    ASSUME IrqLocks = FALSE
    PROVE  Spec => []LockExclusive
<1>1. Init => LockInv
  BY Zenon DEF Init, LockInv
<1>2. LockInv => LockExclusive
  BY Zenon DEF LockInv, LockExclusive
<1> QED
  BY TypeInvariant, LockStep, <1>1, <1>2, PTL DEF Spec

-----------------------------------------------------------------------------
\* Preemption by the timer alone: no task is inside schedule(), the handler
\* switches away from the task that it interrupted, and that task is the one
\* m_runningTask points to until the switch.
ContextInv ==
    /\ ~ Clobbered
    /\ \A f \in Task : pc[f] \in {"run", "tail", "loop", "ready", "locked"}
    /\ pc[irq] # "idle" => loading = NULL /\ last[irq] = cpu
    /\ loading # NULL => loading = m_runningTask
    /\ (pc[irq] # "save" /\ loading = NULL) => cpu = m_runningTask

\* From schedule() to the load of esp, last is the task whose stack is in use
\* and m_runningTask the one that is loaded.
LEMMA ContextStep ==
    ASSUME Sleepers = {}, LateTicks = FALSE
    PROVE  TypeInv /\ ContextInv /\ [Next]_vars => ContextInv'
<1> SUFFICES ASSUME TypeInv, ContextInv, [Next]_vars PROVE ContextInv'
  BY Zenon
<1> USE DEF TypeInv, TypeOK, ContextInv, Clobbered, At, Executing, GoTo, taskVars, listVars, cpuVars
<1>1. ASSUME NEW t \in Created, CreateTask(t) PROVE ContextInv'
  BY <1>1, Zenon DEF CreateTask
<1>2. ASSUME NEW t \in Created, TaskStartLink(t) PROVE ContextInv'
  BY <1>2, Zenon DEF TaskStartLink
<1>3. CASE TaskStartTail
  BY <1>3, Zenon DEF TaskStartTail
<1>4. CASE TaskStartLoop
  BY <1>4, Zenon DEF TaskStartLoop
<1>5. CASE TaskStartReady
  BY <1>5, Zenon DEF TaskStartReady
<1>6. ASSUME NEW f \in Task, Disable(f) PROVE ContextInv'
  BY <1>6, Zenon DEF Disable
<1>7. ASSUME NEW f \in Task, Sleep(f) PROVE ContextInv'
  BY <1>7, Zenon DEF Sleep
<1>8. ASSUME NEW f \in Task, Enable(f) PROVE ContextInv'
  BY <1>8, Zenon DEF Enable
<1>9. ASSUME NEW f \in Task, SleepStamp(f) PROVE ContextInv'
  BY <1>9, Zenon DEF SleepStamp
<1>10. ASSUME NEW f \in Task, Yield(f) PROVE ContextInv'
  BY <1>10, Zenon DEF Yield, EnterSchedule
<1>11. ASSUME NEW f \in Task, SleepReturn(f) PROVE ContextInv'
  BY <1>11, Zenon DEF SleepReturn
<1>12. ASSUME NEW f \in Flow, ScanEnd(f) PROVE ContextInv'
  BY <1>12, Zenon DEF ScanEnd, LeaveSchedule
<1>13. ASSUME NEW f \in Flow, ScanTake(f) PROVE ContextInv'
  BY <1>13, Zenon DEF ScanTake
<1>14. ASSUME NEW f \in Flow, ScanSkip(f) PROVE ContextInv'
  BY <1>14, Zenon DEF ScanSkip
<1>15. ASSUME NEW f \in Flow, Swap(f) PROVE ContextInv'
  BY <1>15, Zenon DEF Swap
<1>16. ASSUME NEW f \in Flow, SwitchSave(f) PROVE ContextInv'
  BY <1>16, Zenon DEF SwitchSave
<1>17. CASE SwitchLoad
  BY <1>17, Zenon DEF SwitchLoad
<1>18. CASE TimerIrq
  <2>1. CASE schedulerEnabled
    <3>1. EnterSchedule(irq)
      BY <1>18, <2>1, Zenon DEF TimerIrq
    <3> QED
      BY <1>18, <2>1, <3>1, Zenon DEF TimerIrq, EnterSchedule, Interruptible
  <2>2. CASE ~ schedulerEnabled
    BY <1>18, <2>2, Zenon DEF TimerIrq, Interruptible
  <2> QED
    BY <2>1, <2>2, Zenon
<1>19. CASE KeyboardIrq
  BY <1>19, Zenon DEF KeyboardIrq, Interruptible
<1>20. CASE UNCHANGED vars
  BY <1>20, Zenon DEF vars
<1> QED
  BY <1>1, <1>2, <1>3, <1>4, <1>5, <1>6, <1>7, <1>8, <1>9, <1>10, <1>11,
     <1>12, <1>13, <1>14, <1>15, <1>16, <1>17, <1>18, <1>19, <1>20, Zenon
     DEF Next, TaskStartStep, FlowStep, SchedStep, Undefined

\* ContextInv holds in every reachable state of a kernel whose tasks do not call
\* sleep, as long as no tick arrives in the window of switchTask.
LEMMA ContextInvariant ==
    ASSUME Sleepers = {}, LateTicks = FALSE
    PROVE  Spec => [](TypeInv /\ ContextInv)
<1>1. Init => ContextInv
  <2> SUFFICES ASSUME Init PROVE ContextInv
    BY Zenon
  <2>1. ~ Clobbered
    BY Zenon DEF Init, Clobbered
  <2>2. pc[irq] = "idle" /\ \A f \in Task : pc[f] = "run"
    BY Zenon DEF Init
  <2> QED
    BY <2>1, <2>2, Zenon DEF Init, ContextInv
<1> QED
  BY TypeInvariant, ContextStep, <1>1, PTL DEF Spec

\* switchTask: in such a kernel (no sleep, no tick between the popf and the load
\* of esp) a context is only ever saved into the registers of its own task, for
\* any number of tasks.
THEOREM ContextIntegrity ==
    ASSUME Sleepers = {}, LateTicks = FALSE
    PROVE  Spec => []SavesOwnContext
<1>1. TypeInv /\ ContextInv => SavesOwnContext
  BY Zenon DEF ContextInv, SavesOwnContext
<1> QED
  BY ContextInvariant, <1>1, PTL

\* schedule: in such a kernel m_runningTask is the task on the CPU, except
\* inside the switch itself.
THEOREM RunningTaskKnown ==
    ASSUME Sleepers = {}, LateTicks = FALSE
    PROVE  Spec => []RunningTaskOnCpu
<1>1. TypeInv /\ ContextInv => RunningTaskOnCpu
  BY Zenon DEF TypeInv, TypeOK, ContextInv, RunningTaskOnCpu
<1> QED
  BY ContextInvariant, <1>1, PTL

-----------------------------------------------------------------------------
\* The list of tasks with what its order rests on: the ring starts with main,
\* holds created tasks only, ends with the task being started, and a task
\* outside it links to nothing.
RingInv ==
    /\ Len(ring) > 0 /\ ring[1] = mainTask
    /\ \A i \in 2 .. Len(ring) : ring[i] \in created
    /\ pc[mainTask] \in {"tail", "loop", "ready"} =>
           Len(ring) > 1 /\ starting = ring[Len(ring)]
    /\ \A t \in Task : (\A i \in 1 .. Len(ring) : ring[i] # t) => next[t] = NULL
    /\ RingInOrder

\* The elements of the list are tasks.
LEMMA ElementOfTasks ==
    ASSUME NEW s \in Seq(Task)
    PROVE  \A i \in 1 .. Len(s) : s[i] \in Task
  OBVIOUS

\* The stores of taskStart keep the list in order; nothing else writes it.
LEMMA RingStep == TypeInv /\ RingInv /\ [Next]_vars => RingInv'
<1> SUFFICES ASSUME TypeInv, RingInv, [Next]_vars PROVE RingInv'
  BY Zenon
<1>0. /\ pc \in [Flow -> Position] /\ next \in [Task -> Task \cup {NULL}]
      /\ ring \in Seq(Task) /\ m_taskTail \in Task /\ starting \in Task
      /\ created \subseteq Created
  BY Zenon DEF TypeInv, TypeOK
<1> USE <1>0 DEF At, Executing, GoTo, taskVars, listVars, cpuVars
<1>1. ASSUME NEW t \in Created, CreateTask(t) PROVE RingInv'
  <2>1. \A i \in 1 .. Len(ring) : ring[i] # t
    BY <1>1 DEF CreateTask, RingInv
  <2>2. \A u \in Task : u # t => next'[u] = next[u]
    BY <1>1, Zenon DEF CreateTask
  <2>3. next'[t] = NULL /\ ring' = ring /\ pc' = pc /\ created \subseteq created'
    BY <1>1, Zenon DEF CreateTask
  <2>4. starting' = starting /\ m_taskTail' = m_taskTail
    BY <1>1, Zenon DEF CreateTask
  <2>5. \A i \in 1 .. Len(ring) : ring[i] \in Task /\ next'[ring[i]] = next[ring[i]]
    <3>1. \A i \in 1 .. Len(ring) : ring[i] \in Task
      BY ElementOfTasks, Zenon
    <3> QED
      BY <2>1, <2>2, <3>1, Zenon
  <2>6. RingInOrder'
    <3>1. RingDistinct' /\ RingTail'
      BY <2>3, <2>4 DEF RingInv, RingInOrder, RingDistinct, RingTail
    <3>2. RingLinks'
      <4>1. Len(ring) \in 1 .. Len(ring) /\ 1 .. Len(ring) - 1 \subseteq 1 .. Len(ring)
        BY DEF RingInv
      <4>2. RingOpen' = RingOpen
        BY <2>3, Zenon DEF RingOpen
      <4> QED
        BY <4>1, <4>2, <2>3, <2>5 DEF RingInv, RingInOrder, RingLinks
    <3> QED
      BY <3>1, <3>2, Zenon DEF RingInOrder
  <2> QED
    BY <2>2, <2>3, <2>4, <2>6, Zenon DEF RingInv
<1>2. ASSUME NEW t \in Created, TaskStartLink(t) PROVE RingInv'
  <2> DEFINE n == Len(ring)
  <2>1. n \in Nat \ {0} /\ m_taskTail = ring[n] /\ m_taskTail \in Task
    BY <1>2 DEF TaskStartLink, RingInv, RingInOrder, RingTail
  <2>2. /\ Len(ring') = n + 1 /\ ring'[n + 1] = t
        /\ \A i \in 1 .. n : ring'[i] = ring[i] /\ ring[i] \in Task
    BY <1>2 DEF TaskStartLink
  <2>3. /\ pc'[mainTask] = "tail" /\ starting' = t
        /\ m_taskTail' = m_taskTail /\ created' = created /\ t \in created
    BY <1>2, Zenon DEF TaskStartLink
  <2>4. next' = [next EXCEPT ![ring[n]] = t] /\ \A i \in 1 .. n : ring[i] # t
    BY <1>2, <2>1, Zenon DEF TaskStartLink
  <2>5. next'[ring[n]] = t /\ \A u \in Task : u # ring[n] => next'[u] = next[u]
    BY <2>1, <2>4, Zenon
  <2> HIDE DEF n
  <2>6. \A i \in 1 .. n + 1 : i \in 1 .. n \/ i = n + 1
    BY <2>1
  <2>7. ring'[1] = mainTask /\ \A i \in 2 .. n + 1 : ring'[i] \in created'
    <3>1. ring[1] = mainTask /\ \A i \in 2 .. n : ring[i] \in created
      BY Zenon DEF RingInv, n
    <3> QED
      BY <3>1, <2>1, <2>2, <2>3
  <2>8. RingDistinct'
    <3>1. \A i, j \in 1 .. n : ring[i] = ring[j] => i = j
      BY Zenon DEF RingInv, RingInOrder, RingDistinct, n
    <3>2. \A i, j \in 1 .. n + 1 : ring'[i] = ring'[j] => i = j
      BY <3>1, <2>2, <2>4, <2>6, Zenon
    <3> QED
      BY <3>2, <2>2, Zenon DEF RingDistinct
  <2>9. \A i \in 1 .. n : next'[ring'[i]] = ring'[i + 1]
    <3> SUFFICES ASSUME NEW i \in 1 .. n PROVE next'[ring[i]] = ring'[i + 1]
      BY <2>2, Zenon
    <3>1. CASE i = n
      BY <3>1, <2>1, <2>2, <2>5, Zenon
    <3>2. CASE i # n
      <4>1. i \in 1 .. n - 1 /\ i + 1 \in 1 .. n /\ n \in 1 .. n
        BY <3>2, <2>1
      <4>2. ring[i] # ring[n] /\ next[ring[i]] = ring[i + 1]
        BY <4>1, <3>2, Zenon DEF RingInv, RingInOrder, RingDistinct, RingLinks, n
      <4> QED
        BY <4>1, <4>2, <2>2, <2>5, Zenon
    <3> QED
      BY <3>1, <3>2, Zenon
  <2>10. t # ring[n] /\ next[t] = NULL /\ t \in Task
    BY <2>1, <2>4 DEF RingInv, n
  <2>11. RingLinks'
    BY <2>1, <2>2, <2>3, <2>5, <2>9, <2>10 DEF RingLinks, RingOpen
  <2>12. RingTail'
    BY <2>1, <2>2, <2>3 DEF RingTail
  <2>13. ASSUME NEW u \in Task, \A i \in 1 .. n + 1 : ring'[i] # u
         PROVE  next'[u] = NULL
    <3>1. \A i \in 1 .. n : ring[i] # u
      BY <2>13, <2>1, <2>2
    <3>2. next[u] = NULL /\ u # ring[n]
      BY <3>1, <2>1 DEF RingInv, n
    <3> QED
      BY <3>2, <2>5, Zenon
  <2> QED
    BY <2>1, <2>2, <2>3, <2>7, <2>8, <2>11, <2>12, <2>13 DEF RingInv, RingInOrder
<1>3. CASE TaskStartTail
  BY <1>3 DEF TaskStartTail, RingInv, RingInOrder, RingDistinct, RingLinks, RingTail, RingOpen
<1>4. CASE TaskStartLoop
  BY <1>4 DEF TaskStartLoop, RingInv, RingInOrder, RingDistinct, RingLinks, RingTail, RingOpen
<1>5. CASE TaskStartReady
  BY <1>5 DEF TaskStartReady, RingInv, RingInOrder, RingDistinct, RingLinks, RingTail, RingOpen
<1>6. ASSUME NEW f \in Task, Disable(f) PROVE RingInv'
  BY <1>6 DEF Disable,
     RingInv, RingInOrder, RingDistinct, RingLinks, RingTail, RingOpen
<1>7. ASSUME NEW f \in Task, Sleep(f) PROVE RingInv'
  BY <1>7 DEF Sleep,
     RingInv, RingInOrder, RingDistinct, RingLinks, RingTail, RingOpen
<1>8. ASSUME NEW f \in Task, Enable(f) PROVE RingInv'
  BY <1>8 DEF Enable,
     RingInv, RingInOrder, RingDistinct, RingLinks, RingTail, RingOpen
<1>9. ASSUME NEW f \in Task, SleepStamp(f) PROVE RingInv'
  BY <1>9 DEF SleepStamp,
     RingInv, RingInOrder, RingDistinct, RingLinks, RingTail, RingOpen
<1>10. ASSUME NEW f \in Task, Yield(f) PROVE RingInv'
  BY <1>10 DEF Yield, EnterSchedule,
     RingInv, RingInOrder, RingDistinct, RingLinks, RingTail, RingOpen
<1>11. ASSUME NEW f \in Task, SleepReturn(f) PROVE RingInv'
  BY <1>11 DEF SleepReturn,
     RingInv, RingInOrder, RingDistinct, RingLinks, RingTail, RingOpen
<1>12. ASSUME NEW f \in Flow, ScanEnd(f) PROVE RingInv'
  BY <1>12 DEF ScanEnd, LeaveSchedule,
     RingInv, RingInOrder, RingDistinct, RingLinks, RingTail, RingOpen
<1>13. ASSUME NEW f \in Flow, ScanTake(f) PROVE RingInv'
  BY <1>13 DEF ScanTake,
     RingInv, RingInOrder, RingDistinct, RingLinks, RingTail, RingOpen
<1>14. ASSUME NEW f \in Flow, ScanSkip(f) PROVE RingInv'
  BY <1>14 DEF ScanSkip,
     RingInv, RingInOrder, RingDistinct, RingLinks, RingTail, RingOpen
<1>15. ASSUME NEW f \in Flow, Swap(f) PROVE RingInv'
  BY <1>15 DEF Swap,
     RingInv, RingInOrder, RingDistinct, RingLinks, RingTail, RingOpen
<1>16. ASSUME NEW f \in Flow, SwitchSave(f) PROVE RingInv'
  BY <1>16 DEF SwitchSave,
     RingInv, RingInOrder, RingDistinct, RingLinks, RingTail, RingOpen
<1>17. CASE SwitchLoad
  BY <1>17 DEF SwitchLoad,
     RingInv, RingInOrder, RingDistinct, RingLinks, RingTail, RingOpen
<1>18. CASE TimerIrq
  <2>1. CASE schedulerEnabled
    <3>1. EnterSchedule(irq)
      BY <1>18, <2>1, Zenon DEF TimerIrq
    <3> QED
      BY <1>18, <2>1, <3>1 DEF TimerIrq, EnterSchedule,
         RingInv, RingInOrder, RingDistinct, RingLinks, RingTail, RingOpen
  <2>2. CASE ~ schedulerEnabled
    BY <1>18, <2>2 DEF TimerIrq,
       RingInv, RingInOrder, RingDistinct, RingLinks, RingTail, RingOpen
  <2> QED
    BY <2>1, <2>2, Zenon
<1>19. CASE KeyboardIrq
  BY <1>19 DEF KeyboardIrq, Interruptible,
     RingInv, RingInOrder, RingDistinct, RingLinks, RingTail, RingOpen
<1>20. CASE UNCHANGED vars
  BY <1>20 DEF vars,
     RingInv, RingInOrder, RingDistinct, RingLinks, RingTail, RingOpen
<1> QED
  BY <1>1, <1>2, <1>3, <1>4, <1>5, <1>6, <1>7, <1>8, <1>9, <1>10, <1>11,
     <1>12, <1>13, <1>14, <1>15, <1>16, <1>17, <1>18, <1>19, <1>20, Zenon
     DEF Next, TaskStartStep, FlowStep, SchedStep, Undefined

\* Whatever interrupts taskStart, the list holds the started tasks in the
\* order they were started, with m_taskTail at its end, and it is closed to a
\* ring by main except between the statements of taskStart.
THEOREM RingKeepsOrder == Spec => []RingInOrder
<1>1. Init => RingInv
  BY DEF Init, RingInv, RingInOrder, RingDistinct, RingLinks, RingTail, RingOpen
<1>2. RingInv => RingInOrder
  BY Zenon DEF RingInv
<1> QED
  BY TypeInvariant, RingStep, <1>1, <1>2, PTL DEF Spec

\* The list in full: links, tail, and no link of a task that is not in it.
THEOREM RingInvariant == Spec => []RingInv
<1>1. Init => RingInv
  BY DEF Init, RingInv, RingInOrder, RingDistinct, RingLinks, RingTail, RingOpen
<1> QED
  BY TypeInvariant, RingStep, <1>1, PTL DEF Spec

-----------------------------------------------------------------------------
\* Why a half-started task is never chosen: until the last statement of its
\* taskStart its state is None, and whatever a flow holds as the task that
\* runs, is loaded or has been found is in another state.
StartInv ==
    /\ \A t \in Task : (\A i \in 1 .. Len(ring) : ring[i] # t) => state[t] = "None"
    /\ pc[mainTask] \in {"tail", "loop", "ready"} => state[starting] = "None"
    /\ state[m_runningTask] # "None" /\ state[cpu] # "None"
    /\ loading # NULL => state[loading] # "None"
    /\ \A f \in Flow : pc[f] \in {"swap", "save"} =>
           cand[f] # NULL /\ state[cand[f]] # "None"

\* A task whose taskStart is not finished has the state None, and schedule()
\* goes on only with a task that has another.
LEMMA StartStep == TypeInv /\ RingInv /\ StartInv /\ [Next]_vars => StartInv'
<1> SUFFICES ASSUME TypeInv, RingInv, StartInv, [Next]_vars PROVE StartInv'
  BY Zenon
<1>0. /\ pc \in [Flow -> Position] /\ state \in [Task -> TaskState]
      /\ cand \in [Flow -> Task \cup {NULL}] /\ ring \in Seq(Task)
      /\ starting \in Task /\ m_runningTask \in Task /\ cpu \in Task
      /\ loading \in Task \cup {NULL}
  BY Zenon DEF TypeInv, TypeOK
<1> USE <1>0 DEF StartInv, At, Executing, GoTo, taskVars, listVars, cpuVars
<1>1. ASSUME NEW t \in Created, CreateTask(t) PROVE StartInv'
  <2>1. \A i \in 1 .. Len(ring) : ring[i] # t
    BY <1>1 DEF CreateTask, RingInv
  <2>2. state' = state
    <3>1. t \in Task
      BY Zenon
    <3>2. state[t] = "None"
      BY <2>1, <3>1, Zenon
    <3>3. state' = [state EXCEPT ![t] = "None"]
      BY <1>1, Zenon DEF CreateTask
    <3> HIDE DEF StartInv
    <3> QED
      BY <3>1, <3>2, <3>3, Zenon
  <2> QED
    BY <1>1, <2>2, Zenon DEF CreateTask
<1>2. ASSUME NEW t \in Created, TaskStartLink(t) PROVE StartInv'
  <2>1. \A i \in 1 .. Len(ring) : ring[i] \in Task /\ ring'[i] = ring[i]
    BY <1>2 DEF TaskStartLink
  <2>2. Len(ring') = Len(ring) + 1 /\ Len(ring) \in Nat
    BY <1>2 DEF TaskStartLink
  <2>3. /\ state[t] = "None" /\ starting' = t
        /\ UNCHANGED <<state, m_runningTask, cpu, loading, cand>>
        /\ pc' = [pc EXCEPT ![mainTask] = "tail"]
    <3>1. t \in Task /\ \A i \in 1 .. Len(ring) : ring[i] # t
      BY <1>2, Zenon DEF TaskStartLink
    <3>2. state[t] = "None"
      BY <3>1, Zenon
    <3> HIDE DEF StartInv
    <3> QED
      BY <1>2, <3>2, Zenon DEF TaskStartLink
  <2>4. \A u \in Task : (\A i \in 1 .. Len(ring') : ring'[i] # u) => state'[u] = "None"
    <3>1. 1 .. Len(ring) \subseteq 1 .. Len(ring')
      <4> HIDE <1>0 DEF StartInv
      <4> QED
        BY <2>2
    <3>2. \A u \in Task : (\A i \in 1 .. Len(ring) : ring[i] # u) => state[u] = "None"
      BY Zenon DEF StartInv
    <3>3. ASSUME NEW u \in Task, \A i \in 1 .. Len(ring') : ring'[i] # u
          PROVE  state'[u] = "None"
      <4>1. \A i \in 1 .. Len(ring) : ring[i] # u
        BY <3>1, <3>3, <2>1, Zenon
      <4> QED
        BY <4>1, <3>2, <2>3, Zenon
    <3> QED
      BY <3>3, Zenon
  <2> QED
    BY <2>3, <2>4, Zenon
<1>3. CASE TaskStartTail
  BY <1>3, Zenon DEF TaskStartTail
<1>4. CASE TaskStartLoop
  BY <1>4, Zenon DEF TaskStartLoop
<1>5. CASE TaskStartReady
  <2>1. \E i \in 1 .. Len(ring) : ring[i] = starting
    <3>1. pc[mainTask] = "ready"
      BY <1>5, Zenon DEF TaskStartReady
    <3>2. Len(ring) > 1 /\ starting = ring[Len(ring)]
      BY <3>1, Zenon DEF RingInv
    <3>3. Len(ring) \in Nat
      OBVIOUS
    <3> HIDE DEF StartInv
    <3>4. Len(ring) \in 1 .. Len(ring)
      BY <3>2, <3>3
    <3> QED
      BY <3>2, <3>4, Zenon
  <2>2. /\ state' = [state EXCEPT ![starting] = "Running"]
        /\ pc' = [pc EXCEPT ![mainTask] = "run"]
        /\ UNCHANGED <<ring, starting, m_runningTask, cpu, loading, cand>>
    BY <1>5, Zenon DEF TaskStartReady
  <2> QED
    BY <2>1, <2>2
<1>6. ASSUME NEW f \in Task, Disable(f) PROVE StartInv'
  BY <1>6, Zenon DEF Disable
<1>7. ASSUME NEW f \in Task, Sleep(f) PROVE StartInv'
  BY <1>7 DEF Sleep
<1>8. ASSUME NEW f \in Task, Enable(f) PROVE StartInv'
  BY <1>8, Zenon DEF Enable
<1>9. ASSUME NEW f \in Task, SleepStamp(f) PROVE StartInv'
  BY <1>9, Zenon DEF SleepStamp
<1>10. ASSUME NEW f \in Task, Yield(f) PROVE StartInv'
  <2>1. CASE schedulerEnabled
    <3>1. EnterSchedule(f)
      BY <1>10, <2>1, Zenon DEF Yield
    <3> QED
      BY <1>10, <2>1, <3>1, Zenon DEF Yield, EnterSchedule
  <2>2. CASE ~ schedulerEnabled
    BY <1>10, <2>2 DEF Yield
  <2> QED
    BY <2>1, <2>2, Zenon
<1>11. ASSUME NEW f \in Task, SleepReturn(f) PROVE StartInv'
  BY <1>11, Zenon DEF SleepReturn
<1>12. ASSUME NEW f \in Flow, ScanEnd(f) PROVE StartInv'
  BY <1>12, Zenon DEF ScanEnd, LeaveSchedule
<1>13. ASSUME NEW f \in Flow, ScanTake(f) PROVE StartInv'
  <2>1. cand[f] \in Task /\ state[cand[f]] # "None"
    <3>1. cand[f] # NULL /\ Eligible(cand[f])
      BY <1>13, Zenon DEF ScanTake
    <3>2. cand[f] \in Task
      BY <3>1
    <3> QED
      BY <3>1, <3>2, Zenon DEF Eligible
  <2>2. /\ state' = [state EXCEPT ![cand[f]] = "Running"]
        /\ pc' = [pc EXCEPT ![f] = "swap"]
        /\ UNCHANGED <<ring, starting, m_runningTask, cpu, loading, cand>>
    BY <1>13, Zenon DEF ScanTake
  <2>3. \A u \in Task : state[u] # "None" => state'[u] # "None"
    BY <2>2, Zenon
  <2>4. \A u \in Task : state[u] = "None" => state'[u] = "None"
    BY <2>1, <2>2, Zenon
  <2>5. \A g \in Flow : pc'[g] \in {"swap", "save"} => g = f \/ pc[g] = pc'[g]
    BY <2>2, Zenon
  <2>6. pc'[mainTask] \in {"tail", "loop", "ready"} => pc'[mainTask] = pc[mainTask]
    BY <2>2, Zenon
  <2>7. \A g \in Flow : pc'[g] \in {"swap", "save"} =>
            cand'[g] # NULL /\ state'[cand'[g]] # "None"
    BY <2>1, <2>2, <2>3, <2>5
  <2> QED
    BY <2>2, <2>3, <2>4, <2>6, <2>7
<1>14. ASSUME NEW f \in Flow, ScanSkip(f) PROVE StartInv'
  BY <1>14, Zenon DEF ScanSkip
<1>15. ASSUME NEW f \in Flow, Swap(f) PROVE StartInv'
  BY <1>15, Zenon DEF Swap
<1>16. ASSUME NEW f \in Flow, SwitchSave(f) PROVE StartInv'
  BY <1>16, Zenon DEF SwitchSave
<1>17. CASE SwitchLoad
  <2>1. regs[loading].flow = loading
    BY <1>17, Zenon DEF SwitchLoad, Clobbered
  <2> QED
    BY <1>17, <2>1, Zenon DEF SwitchLoad
<1>18. CASE TimerIrq
  <2>1. CASE schedulerEnabled
    <3>1. EnterSchedule(irq)
      BY <1>18, <2>1, Zenon DEF TimerIrq
    <3> QED
      BY <1>18, <2>1, <3>1, Zenon DEF TimerIrq, EnterSchedule
  <2>2. CASE ~ schedulerEnabled
    BY <1>18, <2>2, Zenon DEF TimerIrq
  <2> QED
    BY <2>1, <2>2, Zenon
<1>19. CASE KeyboardIrq
  BY <1>19, Zenon DEF KeyboardIrq, Interruptible
<1>20. CASE UNCHANGED vars
  BY <1>20, Zenon DEF vars
<1> QED
  BY <1>1, <1>2, <1>3, <1>4, <1>5, <1>6, <1>7, <1>8, <1>9, <1>10, <1>11,
     <1>12, <1>13, <1>14, <1>15, <1>16, <1>17, <1>18, <1>19, <1>20, Zenon
     DEF Next, TaskStartStep, FlowStep, SchedStep, Undefined

\* StartInv holds in every reachable state.
LEMMA StartInvariant == Spec => []StartInv
<1>1. Init => StartInv
  <2> SUFFICES ASSUME Init PROVE StartInv
    BY Zenon
  <2>1. ring[1] = mainTask /\ Len(ring) = 1
    BY Zenon DEF Init
  <2>2. pc[irq] = "idle" /\ \A f \in Task : pc[f] = "run"
    BY Zenon DEF Init
  <2>3. state[mainTask] = "Running" /\ \A t \in Created : state[t] = "None"
    BY Zenon DEF Init
  <2>4. \A t \in Task : (\A i \in 1 .. Len(ring) : ring[i] # t) => state[t] = "None"
    <3>1. 1 \in 1 .. Len(ring)
      BY <2>1
    <3> QED
      BY <3>1, <2>1, <2>3, Zenon
  <2>5. m_runningTask = mainTask /\ cpu = mainTask /\ loading = NULL
    BY Zenon DEF Init
  <2> QED
    BY <2>2, <2>3, <2>4, <2>5, Zenon DEF StartInv
<1> QED
  BY TypeInvariant, RingInvariant, StartStep, <1>1, PTL DEF Spec

\* However the timer interrupts taskStart, the task being started does not
\* run, and is not picked to run, before its state is set.
THEOREM HalfStartedNeverRuns == Spec => []NoHalfStartedTask
<1>1. TypeInv /\ StartInv => NoHalfStartedTask
  BY Zenon DEF TypeInv, TypeOK, StartInv, NoHalfStartedTask
<1> QED
  BY TypeInvariant, StartInvariant, <1>1, PTL

-----------------------------------------------------------------------------
\* The places of the ring a search that began after place i has left behind
\* when it has come to place j.
Passed(i, j, k) == IF i < j THEN i < k /\ k < j ELSE k > i \/ k < j

\* What a search at interrupt level knows: it began after a task of the ring,
\* it is at a task of the ring, and none it has left behind could run.
ScanInv ==
    pc[irq] \in {"scan", "swap"} =>
        \E i \in 1 .. Len(ring) :
            /\ last[irq] = ring[i]
            /\ cand[irq] # NULL =>
                   \E j \in 1 .. Len(ring) :
                       /\ cand[irq] = ring[j]
                       /\ \A k \in 1 .. Len(ring) : Passed(i, j, k) => ~ Eligible(ring[k])

\* The link of a task of the ring leads to the next place, from the last place
\* to the first, or nowhere.
LEMMA LinkInRing ==
    ASSUME RingInv, ring \in Seq(Task), NEW j \in 1 .. Len(ring), next[ring[j]] # NULL
    PROVE  \E m \in 1 .. Len(ring) :
               /\ next[ring[j]] = ring[m]
               /\ j < Len(ring) => m = j + 1
               /\ j = Len(ring) => m = 1 /\ Len(ring) > 1
<1>1. Len(ring) \in Nat /\ Len(ring) > 0 /\ ring[1] = mainTask
  BY DEF RingInv
<1>2. CASE j < Len(ring)
  <2>1. j \in 1 .. Len(ring) - 1 /\ j + 1 \in 1 .. Len(ring)
    BY <1>1, <1>2
  <2>2. next[ring[j]] = ring[j + 1]
    BY <2>1, Zenon DEF RingInv, RingInOrder, RingLinks
  <2> QED
    BY <2>1, <2>2, <1>1, <1>2
<1>3. CASE ~ (j < Len(ring))
  <2>1. j = Len(ring) /\ 1 \in 1 .. Len(ring)
    BY <1>1, <1>3
  <2>2. next[ring[j]] = mainTask /\ Len(ring) # 1
    BY <2>1, Zenon DEF RingInv, RingInOrder, RingLinks, RingOpen
  <2>3. next[ring[j]] = ring[1] /\ Len(ring) > 1 /\ ~ (j < Len(ring))
    BY <2>1, <2>2, <1>1
  <2> QED
    BY <2>1, <2>3, Zenon
<1> QED
  BY <1>2, <1>3, Zenon

\* Whatever has a state other than None is in the ring.
LEMMA StartedInRing ==
    ASSUME StartInv, NEW t \in Task, state[t] # "None"
    PROVE  \E i \in 1 .. Len(ring) : ring[i] = t
  BY Zenon DEF StartInv

\* The search leaves only tasks that cannot run behind: between its steps no
\* other flow runs, and each step follows one link of the ring.
LEMMA ScanStep ==
    TypeInv /\ RingInv /\ StartInv /\ ScanInv /\ [Next]_vars => ScanInv'
<1> SUFFICES ASSUME TypeInv, RingInv, StartInv, ScanInv, [Next]_vars PROVE ScanInv'
  BY Zenon
<1>0. /\ pc \in [Flow -> Position] /\ state \in [Task -> TaskState]
      /\ cand \in [Flow -> Task \cup {NULL}] /\ last \in [Flow -> Task]
      /\ ring \in Seq(Task) /\ m_runningTask \in Task
      /\ next \in [Task -> Task \cup {NULL}]
  BY Zenon DEF TypeInv, TypeOK
<1>a. \A f \in Task : f # irq
  BY Zenon
<1>b. \A i \in 1 .. Len(ring) : ring[i] \in Task
  BY <1>0, ElementOfTasks, Zenon
<1>q. pc'[irq] = "idle" \/ pc'[irq] = "save" => ScanInv'
  BY Zenon DEF ScanInv
<1>1. ASSUME NEW t \in Created, CreateTask(t) \/ TaskStartLink(t) PROVE ScanInv'
  <2>1. pc[irq] = "idle"
    BY <1>1, <1>a, Zenon DEF CreateTask, TaskStartLink, At, Executing
  <2>2. pc'[irq] = "idle"
    BY <1>0, <1>1, <1>a, <2>1, Zenon DEF CreateTask, TaskStartLink, GoTo
  <2> QED
    BY <2>2, <1>q, Zenon
<1>2. CASE TaskStartStep
  <2>1. pc[irq] = "idle"
    BY <1>2, <1>a, Zenon DEF TaskStartStep, TaskStartTail, TaskStartLoop, TaskStartReady, At, Executing
  <2>2. pc'[irq] = "idle"
    BY <1>0, <1>2, <1>a, <2>1, Zenon DEF TaskStartStep, TaskStartTail, TaskStartLoop, TaskStartReady, GoTo
  <2> QED
    BY <2>2, <1>q, Zenon
<1>3. ASSUME NEW f \in Task, Disable(f) \/ Sleep(f) \/ FlowStep(f) PROVE ScanInv'
  <2>1. pc[irq] = "idle"
    BY <1>3, <1>a, Zenon DEF Disable, Sleep, FlowStep, Enable, SleepStamp, Yield, SleepReturn, At, Executing
  <2>2. \E p \in Position : pc' = [pc EXCEPT ![f] = p]
    BY <1>3, Zenon DEF Disable, Sleep, FlowStep, Enable, SleepStamp, Yield, SleepReturn, GoTo, EnterSchedule, Position
  <2>3. pc'[irq] = "idle"
    BY <1>0, <1>a, <2>1, <2>2, Zenon
  <2> QED
    BY <2>3, <1>q, Zenon
<1>4. ASSUME NEW f \in Task, SchedStep(f) PROVE ScanInv'
  <2>1. pc[irq] = "idle"
    BY <1>4, <1>a, Zenon DEF SchedStep, ScanEnd, ScanTake, ScanSkip, Swap, SwitchSave, At, Executing
  <2>2. pc'[irq] = pc[irq]
    BY <1>0, <1>4, <1>a, Zenon DEF SchedStep, ScanEnd, ScanTake, ScanSkip, Swap, SwitchSave, GoTo, LeaveSchedule
  <2> QED
    BY <2>1, <2>2, <1>q, Zenon
<1>5. CASE ScanEnd(irq) \/ Swap(irq) \/ SwitchSave(irq)
  <2>1. pc'[irq] = "idle" \/ pc'[irq] = "save"
    BY <1>0, <1>5, Zenon DEF ScanEnd, Swap, SwitchSave, GoTo, LeaveSchedule
  <2> QED
    BY <2>1, <1>q, Zenon
<1>6. CASE ScanTake(irq)
  <2>1. /\ pc[irq] = "scan" /\ cand[irq] # NULL /\ Eligible(cand[irq])
        /\ state' = [state EXCEPT ![cand[irq]] = "Running"]
        /\ ring' = ring /\ last' = last /\ cand' = cand
        /\ m_timeMs' = m_timeMs /\ wakeupTime' = wakeupTime
    BY <1>6, Zenon DEF ScanTake, At, listVars
  <2>2. PICK i \in 1 .. Len(ring), j \in 1 .. Len(ring) :
            /\ last[irq] = ring[i] /\ cand[irq] = ring[j]
            /\ \A k \in 1 .. Len(ring) : Passed(i, j, k) => ~ Eligible(ring[k])
    BY <2>1, Zenon DEF ScanInv
  <2>3. \A k \in 1 .. Len(ring) : k # j => state'[ring[k]] = state[ring[k]]
    <3>1. \A k \in 1 .. Len(ring) : k # j => ring[k] # ring[j]
      BY Zenon DEF RingInv, RingInOrder, RingDistinct
    <3> QED
      BY <1>0, <1>b, <2>1, <2>2, <3>1, Zenon
  <2>4. \A k \in 1 .. Len(ring) : Passed(i, j, k) => ~ Eligible(ring[k])'
    <3> SUFFICES ASSUME NEW k \in 1 .. Len(ring), Passed(i, j, k) PROVE ~ Eligible(ring[k])'
      BY Zenon
    <3>1. k # j
      BY <2>1, <2>2, Zenon
    <3>2. state'[ring[k]] = state[ring[k]] /\ ~ Eligible(ring[k])
      BY <3>1, <2>2, <2>3, Zenon
    <3> QED
      BY <3>2, <2>1, Zenon DEF Eligible
  <2> QED
    BY <2>1, <2>2, <2>4, Zenon DEF ScanInv
<1>7. CASE ScanSkip(irq)
  <2>1. /\ pc[irq] = "scan" /\ cand[irq] # NULL /\ ~ Eligible(cand[irq])
        /\ cand'[irq] = next[cand[irq]]
        /\ ring' = ring /\ last' = last /\ pc' = pc /\ state' = state
        /\ m_timeMs' = m_timeMs /\ wakeupTime' = wakeupTime
    BY <1>0, <1>7, Zenon DEF ScanSkip, At, listVars, taskVars
  <2>2. PICK i \in 1 .. Len(ring), j \in 1 .. Len(ring) :
            /\ last[irq] = ring[i] /\ cand[irq] = ring[j]
            /\ \A k \in 1 .. Len(ring) : Passed(i, j, k) => ~ Eligible(ring[k])
    BY <2>1, Zenon DEF ScanInv
  <2>3. CASE cand'[irq] = NULL
    BY <2>1, <2>2, <2>3, Zenon DEF ScanInv
  <2>4. CASE cand'[irq] # NULL
    <3>1. next[ring[j]] # NULL
      BY <2>1, <2>2, <2>4, Zenon
    <3>2. PICK m \in 1 .. Len(ring) :
              /\ next[ring[j]] = ring[m]
              /\ j < Len(ring) => m = j + 1
              /\ j = Len(ring) => m = 1 /\ Len(ring) > 1
      BY <1>0, <3>1, LinkInRing, Zenon
    <3>3. \A k \in 1 .. Len(ring) : Passed(i, m, k) => Passed(i, j, k) \/ k = j
      <4>1. Len(ring) \in Nat
        BY <1>0
      <4> QED
        BY <4>1, <3>2 DEF Passed
    <3>4. \A k \in 1 .. Len(ring) : Passed(i, m, k) => ~ Eligible(ring[k])
      BY <3>3, <2>1, <2>2, Zenon
    <3>5. \A k \in 1 .. Len(ring) : Passed(i, m, k) => ~ Eligible(ring[k])'
      BY <3>4, <2>1, Zenon DEF Eligible
    <3> QED
      BY <2>1, <2>2, <3>2, <3>5 DEF ScanInv
  <2> QED
    BY <2>3, <2>4, Zenon
<1>8. CASE SwitchLoad
  <2>1. pc'[irq] = "idle"
    BY <1>8, Zenon DEF SwitchLoad
  <2> QED
    BY <2>1, <1>q, Zenon
<1>9. CASE TimerIrq
  <2>1. pc[irq] = "idle"
    BY <1>9, Zenon DEF TimerIrq, Interruptible
  <2>2. CASE schedulerEnabled
    <3>1. EnterSchedule(irq)
      BY <1>9, <2>2, Zenon DEF TimerIrq
    <3>2. /\ last'[irq] = m_runningTask /\ cand'[irq] = next[m_runningTask]
          /\ ring' = ring
      BY <1>0, <1>9, <3>1, Zenon DEF TimerIrq, EnterSchedule, listVars
    <3>3. state[m_runningTask] # "None"
      BY Zenon DEF StartInv
    <3>4. PICK i \in 1 .. Len(ring) : ring[i] = m_runningTask
      BY <1>0, <3>3, StartedInRing, Zenon
    <3>5. CASE cand'[irq] = NULL
      BY <3>2, <3>4, <3>5, Zenon DEF ScanInv
    <3>6. CASE cand'[irq] # NULL
      <4>1. next[ring[i]] # NULL
        BY <3>2, <3>4, <3>6, Zenon
      <4>2. PICK m \in 1 .. Len(ring) :
                /\ next[ring[i]] = ring[m]
                /\ i < Len(ring) => m = i + 1
                /\ i = Len(ring) => m = 1 /\ Len(ring) > 1
        BY <1>0, <4>1, LinkInRing, Zenon
      <4>3. \A k \in 1 .. Len(ring) : ~ Passed(i, m, k)
        <5>1. Len(ring) \in Nat
          BY <1>0
        <5> QED
          BY <5>1, <4>2 DEF Passed
      <4> QED
        BY <3>2, <3>4, <4>2, <4>3, Zenon DEF ScanInv
    <3> QED
      BY <3>5, <3>6, Zenon
  <2>3. CASE ~ schedulerEnabled
    <3>1. pc' = pc
      BY <1>9, <2>3, Zenon DEF TimerIrq
    <3> QED
      BY <3>1, <2>1, <1>q, Zenon
  <2> QED
    BY <2>2, <2>3, Zenon
<1>10. CASE KeyboardIrq
  <2>1. pc'[irq] = "idle"
    BY <1>10, Zenon DEF KeyboardIrq, Interruptible
  <2> QED
    BY <2>1, <1>q, Zenon
<1>11. CASE UNCHANGED vars
  <2>1. /\ pc' = pc /\ ring' = ring /\ last' = last /\ cand' = cand
        /\ state' = state /\ m_timeMs' = m_timeMs /\ wakeupTime' = wakeupTime
    BY <1>11, Zenon DEF vars, taskVars, listVars
  <2> QED
    BY <2>1 DEF ScanInv, Eligible
<1> QED
  BY <1>1, <1>2, <1>3, <1>4, <1>5, <1>6, <1>7, <1>8, <1>9, <1>10, <1>11, Zenon
     DEF Next, SchedStep, Undefined

\* The tasks between two of the ring, by their places.
LEMMA BetweenPlaces ==
    ASSUME RingDistinct, ring \in Seq(Task),
           NEW i \in 1 .. Len(ring), NEW j \in 1 .. Len(ring)
    PROVE  Between(ring[i], ring[j]) = {ring[k] : k \in {k \in 1 .. Len(ring) : Passed(i, j, k)}}
<1>1. (CHOOSE k \in 1 .. Len(ring) : ring[k] = ring[i]) = i
  BY Zenon DEF RingDistinct
<1>2. (CHOOSE k \in 1 .. Len(ring) : ring[k] = ring[j]) = j
  BY Zenon DEF RingDistinct
<1> QED
  BY <1>1, <1>2, Zenon DEF Between, Passed

\* Round robin: when the timer's schedule() hands the CPU on, no task between
\* the one that ran and the one that runs next could have run, for any number
\* of tasks, and whatever other tasks sleep or lock.
THEOREM NobodySkipped == Spec => []NoTaskSkipped
<1>1. Init => ScanInv
  BY Zenon DEF Init, ScanInv
<1>2. TypeInv /\ RingInv /\ ScanInv /\ StartInv => NoTaskSkipped
  <2> SUFFICES ASSUME TypeInv, RingInv, ScanInv, StartInv, pc[irq] = "swap"
               PROVE  \A t \in Between(last[irq], cand[irq]) : ~ Eligible(t)
    BY Zenon DEF NoTaskSkipped
  <2>1. cand[irq] # NULL
    BY Zenon DEF StartInv
  <2>2. PICK i \in 1 .. Len(ring), j \in 1 .. Len(ring) :
            /\ last[irq] = ring[i] /\ cand[irq] = ring[j]
            /\ \A k \in 1 .. Len(ring) : Passed(i, j, k) => ~ Eligible(ring[k])
    BY <2>1, Zenon DEF ScanInv
  <2>3. RingDistinct /\ ring \in Seq(Task)
    BY Zenon DEF RingInv, RingInOrder, TypeInv, TypeOK
  <2>4. Between(ring[i], ring[j]) = {ring[k] : k \in {k \in 1 .. Len(ring) : Passed(i, j, k)}}
    BY <2>3, BetweenPlaces, Zenon
  <2> QED
    BY <2>2, <2>4
<1> QED
  BY TypeInvariant, RingInvariant, StartInvariant, ScanStep, <1>1, <1>2, PTL DEF Spec
====
