----------------------- MODULE TaskSchedulerProofs -----------------------
(***************************************************************************)
(* Theorems about TaskScheduler, for any number of tasks, any priorities,  *)
(* any timeslice and any bound on the stack.                               *)
(***************************************************************************)
EXTENDS TaskScheduler, TaskStateProofs, SequenceTheorems

---------------------------------------------------------------------------
(* The stack *)

\* The running context is one of the stack, and the root only if it is alone.
LEMMA TopType ==
  ASSUME SchedTypeOK
  PROVE  /\ Top \in Contexts
         /\ Len(stack) \in Nat \ {0}
         /\ Top.task \in Tasks \cup {NoObj}
         /\ Top.kind = "root" <=> Len(stack) = 1
         /\ Top.kind = "task" <=> Top.task # NoObj
<1>1. Len(stack) \in 1 .. Len(stack)
  BY SchedulerAssumption DEF SchedTypeOK, StackOK
<1>2. Top \in Contexts
  BY <1>1, ElementOfSeq DEF SchedTypeOK, StackOK, Top
<1>3. /\ Top.kind = "root" <=> Len(stack) = 1
      /\ Top.kind = "task" <=> Top.task # NoObj
  BY <1>1 DEF SchedTypeOK, StackOK, Top
<1>4. Top.task \in Tasks \cup {NoObj}
  BY <1>2 DEF Contexts
<1>5. Len(stack) \in Nat \ {0}
  BY <1>1, SchedulerAssumption DEF SchedTypeOK, StackOK
<1> QED  BY <1>2, <1>3, <1>4, <1>5

\* Leaving the running context leaves a stack, if that context is not the root.
LEMMA PopOK ==
  ASSUME SchedTypeOK, Top.kind # "root"
  PROVE  StackOK(Below)
<1>1. Len(stack) \in 2 .. MaxDepth /\ stack \in Seq(Contexts)
  <2>1. Len(stack) # 1 /\ Len(stack) \in 1 .. MaxDepth /\ stack \in Seq(Contexts)
    BY TopType DEF SchedTypeOK, StackOK
  <2>2. \A n \in 1 .. MaxDepth : n # 1 => n \in 2 .. MaxDepth
    BY SchedulerAssumption
  <2> QED  BY <2>1, <2>2
<1>2. \A i \in 1 .. Len(stack) - 1 : stack[i] \in Contexts
  BY <1>1, ElementOfSeq, SchedulerAssumption
<1>3. /\ Below \in Seq(Contexts)
      /\ Len(Below) = Len(stack) - 1
      /\ \A i \in 1 .. Len(stack) - 1 : Below[i] = stack[i]
  BY <1>1, <1>2, SubSeqProperties, SchedulerAssumption DEF Below
<1> QED  BY <1>1, <1>3, SchedulerAssumption DEF SchedTypeOK, StackOK

\* Entering a task or a fiber leaves a stack, if there is room for it.
LEMMA PushOK ==
  ASSUME SchedTypeOK, Len(stack) < MaxDepth, NEW c \in Contexts,
         c.kind # "root", c.kind = "task" <=> c.task # NoObj
  PROVE  StackOK(Append(stack, c))
<1>1. stack \in Seq(Contexts) /\ Len(stack) \in Nat
  BY TopType DEF SchedTypeOK, StackOK
<1>2. /\ Append(stack, c) \in Seq(Contexts)
      /\ Len(Append(stack, c)) = Len(stack) + 1
      /\ \A i \in 1 .. Len(stack) : Append(stack, c)[i] = stack[i]
      /\ Append(stack, c)[Len(stack) + 1] = c
  BY <1>1, AppendProperties
<1> QED  BY <1>1, <1>2, TopType, SchedulerAssumption DEF SchedTypeOK, StackOK

\* Marking a native or a Task.run on the running context leaves a stack.
LEMMA MarkOK ==
  ASSUME SchedTypeOK, NEW b \in BOOLEAN
  PROVE  /\ StackOK([stack EXCEPT ![Len(stack)].native = b])
         /\ StackOK([stack EXCEPT ![Len(stack)].loop = b])
<1>1. stack \in Seq(Contexts) /\ Len(stack) \in 1 .. Len(stack) /\ Len(stack) \in Nat
  BY TopType DEF SchedTypeOK, StackOK
<1>2. ASSUME NEW c \in Contexts, c.kind = Top.kind, c.task = Top.task
      PROVE  StackOK([stack EXCEPT ![Len(stack)] = c])
  <2> DEFINE marked == [stack EXCEPT ![Len(stack)] = c]
  <2>1. /\ marked \in Seq(Contexts)
        /\ Len(marked) = Len(stack)
        /\ \A j \in 1 .. Len(stack) : marked[j] = IF j = Len(stack) THEN c ELSE stack[j]
    BY <1>1, ExceptSeq
  <2> HIDE DEF marked
  <2>2. ASSUME NEW j \in 1 .. Len(stack)
        PROVE  marked[j].kind = stack[j].kind /\ marked[j].task = stack[j].task
    BY <1>2, <2>1 DEF Top
  <2>3. StackOK(marked)
    BY <2>1, <2>2 DEF SchedTypeOK, StackOK
  <2> QED  BY <2>3 DEF marked
<1>3. [Top EXCEPT !.native = b] \in Contexts /\ [Top EXCEPT !.loop = b] \in Contexts
  <2>1. Top \in Contexts
    BY TopType
  <2> HIDE DEF Top
  <2> QED  BY <2>1 DEF Contexts
<1>4. /\ [Top EXCEPT !.native = b].kind = Top.kind /\ [Top EXCEPT !.native = b].task = Top.task
      /\ [Top EXCEPT !.loop = b].kind = Top.kind /\ [Top EXCEPT !.loop = b].task = Top.task
  BY TopType DEF Contexts
<1>5. /\ StackOK([stack EXCEPT ![Len(stack)] = [Top EXCEPT !.native = b]])
      /\ StackOK([stack EXCEPT ![Len(stack)] = [Top EXCEPT !.loop = b]])
  BY <1>2, <1>3, <1>4
<1> QED  BY <1>5 DEF Top

\* What is pushed for a task or for a fiber is a context.
LEMMA NewContexts ==
  /\ \A t \in Tasks : /\ TaskContext(t) \in Contexts
                      /\ TaskContext(t).kind = "task" /\ TaskContext(t).task = t
  /\ \A b \in BOOLEAN : /\ FiberContext(b) \in Contexts
                        /\ FiberContext(b).kind = "fiber" /\ FiberContext(b).task = NoObj
BY DEF TaskContext, FiberContext, Root, Contexts

\* The current task is a task or nothing.
LEMMA CurrentTaskType ==
  ASSUME SchedTypeOK
  PROVE  CurrentTask \in Tasks \cup {NoObj}
BY TopType DEF CurrentTask, OnCpu

---------------------------------------------------------------------------
(* Steps keep the types: what an action makes of the scheduler state *)

\* Setting one field of one task.
LEMMA TaskSetType ==
  ASSUME NEW st \in States, NEW t \in Tasks, NEW d \in TaskData
  PROVE  [st EXCEPT !.task = [st.task EXCEPT ![t] = d]] \in States
<1>1. [st.task EXCEPT ![t] = d] \in TaskTable
  BY StateFields DEF TaskTable
<1> QED  BY <1>1 DEF States, TaskTable

\* Handing the CPU to a task.
LEMMA EnteredType ==
  ASSUME NEW st \in States, NEW t \in Tasks
  PROVE  Entered(st, t) \in States
<1> DEFINE d == [st.task[t] EXCEPT !.timeslice = TIMESLICE, !.status = "RUNNING",
                                   !.ctx = "live"]
<1>1. d \in TaskData
  <2>1. TIMESLICE \in 0 .. TIMESLICE
    BY ConstantsAssumption
  <2>2. st.task[t] \in TaskData
    BY StateFields DEF TaskTable
  <2> QED  BY <2>1, <2>2 DEF TaskData, Statuses
<1>2. [st EXCEPT !.task = [st.task EXCEPT ![t] = d], !.running = t,
                 !.switching = FALSE] \in States
  <2> HIDE DEF d
  <2>1. [st.task EXCEPT ![t] = d] \in TaskTable
    BY <1>1, StateFields DEF TaskTable
  <2> QED  BY <2>1 DEF States, TaskTable
<1>3. Entered(st, t) = [st EXCEPT !.task = [st.task EXCEPT ![t] = d], !.running = t,
                                  !.switching = FALSE]
  BY ZenonT(60) DEF Entered, States, TaskData
<1> QED  BY <1>2, <1>3

\* Taking it back.
LEMMA LeftType ==
  ASSUME NEW st \in States, NEW t \in Tasks, NEW cur
  PROVE  Left(st, t, cur) \in States
<1> DEFINE back == [st EXCEPT !.running = NoObj, !.switching = FALSE]
<1>1. back \in States
  BY DEF States
<1>2. StopTask(back, t, cur) \in States /\ SetStatus(back, t, "READY") \in States
  <2> HIDE DEF back
  <2> QED  BY <1>1, StopTaskType, SetStatusType DEF Statuses
<1> HIDE DEF back
<1> QED  BY <1>1, <1>2 DEF Left, back

\* A tick.
LEMMA TickedType ==
  ASSUME NEW st \in States
  PROVE  Ticked(st) \in States
<1> DEFINE r == st.running
           counts == /\ r # NoObj
                     /\ st.task[r].status = "RUNNING"
                     /\ st.task[r].timeslice > 0
           sliced == IF counts
                     THEN [st EXCEPT !.task[r].timeslice = @ - 1,
                                     !.switching = @ \/ st.task[r].timeslice = 1]
                     ELSE st
<1>1. sliced \in States
  <2>1. CASE ~counts
    BY <2>1
  <2>2. CASE counts
    <3>1. r \in Tasks /\ st.task[r] \in TaskData
      BY <2>2, StateFields DEF TaskTable
    <3>2. st.task[r].timeslice - 1 \in 0 .. TIMESLICE
      BY <2>2, <3>1, TaskFields, ConstantsAssumption
    <3>3. [st.task EXCEPT ![r].timeslice = st.task[r].timeslice - 1] \in TaskTable
      BY <3>1, <3>2, StateFields DEF TaskTable, TaskData
    <3>4. [st EXCEPT !.task = [st.task EXCEPT ![r].timeslice = st.task[r].timeslice - 1],
                     !.switching = st.switching \/ st.task[r].timeslice = 1] \in States
      BY <3>3 DEF States, TaskTable
    <3> QED  BY <2>2, <3>4
  <2> QED  BY <2>1, <2>2
<1>2. AdvanceTicks(sliced, 1) \in States
  <2> HIDE DEF sliced
  <2> QED  BY <1>1, AdvanceTicksType
<1> HIDE DEF r, counts, sliced
<1> QED  BY <1>1, <1>2 DEF Ticked, r, counts, sliced

\* Asking for a switch.
LEMMA ParkType ==
  ASSUME NEW st \in States
  PROVE  Park(st) \in States
BY DEF Park, States

---------------------------------------------------------------------------
(* Every action keeps the types *)

\* One turn of the scheduler.
LEMMA RunsHeadType ==
  ASSUME SchedTypeOK, RunsHead
  PROVE  SchedTypeOK'
<1>1. PICK t \in Tasks : /\ Len(stack) < MaxDepth
                         /\ sched' = Entered(sched, t)
                         /\ stack' = Append(stack, TaskContext(t))
  BY DEF RunsHead
<1>2. StackOK(Append(stack, TaskContext(t)))
  BY <1>1, NewContexts, PushOK, ConstantsAssumption
<1> QED  BY <1>1, <1>2, EnteredType DEF SchedTypeOK

\* A switch.
LEMMA SwitchedOutType ==
  ASSUME SchedTypeOK, NEW st \in States, Top.kind # "root", SwitchedOut(st)
  PROVE  SchedTypeOK'
<1>1. StackOK(Below)
  BY PopOK
<1>2. [st EXCEPT !.switching = FALSE] \in States
  BY DEF States
<1>3. Top.kind = "task" => Top.task \in Tasks
  BY TopType
<1> QED  BY <1>1, <1>2, <1>3, LeftType DEF SwitchedOut, SchedTypeOK

\* The interpreter and the scheduler loop.
LEMMA MachineStepType ==
  ASSUME SchedTypeOK, MachineStep
  PROVE  SchedTypeOK'
<1>0. sched \in States
  BY DEF SchedTypeOK
<1>1. CASE Tick
  <2>1. Ticked(sched) \in States
    BY <1>0, TickedType
  <2> QED  BY <1>1, <2>1, SwitchedOutType DEF Tick, Switchable, SchedTypeOK
<1>2. CASE Switch
  BY <1>0, <1>2, SwitchedOutType DEF Switch, Switchable
<1>3. CASE RunTurn
  BY <1>3, RunsHeadType DEF RunTurn
<1>4. CASE RunIdle
  <2>1. sched.wakeup_tick \in Nat
    BY <1>0, StateFields, TicksAreNat
  <2> QED  BY <1>0, <1>4, <2>1, AdvanceTicksType DEF RunIdle, Idle, SchedTypeOK
<1>5. CASE RunEnd
  <2>1. [sched EXCEPT !.loop_running = FALSE] \in States
    BY <1>0 DEF States
  <2> QED  BY <1>5, <2>1, MarkOK DEF RunEnd, SchedTypeOK
<1> QED  BY <1>1, <1>2, <1>3, <1>4, <1>5 DEF MachineStep

\* Native frames and fibers.
LEMMA FrameStepType ==
  ASSUME SchedTypeOK, EnterNative \/ LeaveNative \/ EnterFiber \/ LeaveFiber
  PROVE  SchedTypeOK'
<1>1. CASE EnterNative
  BY <1>1, MarkOK DEF EnterNative, SchedTypeOK
<1>2. CASE LeaveNative
  BY <1>2, MarkOK DEF LeaveNative, SchedTypeOK
<1>3. CASE EnterFiber
  <2>1. PICK nested \in BOOLEAN : /\ Len(stack) < MaxDepth
                                  /\ stack' = Append(stack, FiberContext(nested))
                                  /\ UNCHANGED sched
    BY <1>3 DEF EnterFiber
  <2>2. StackOK(Append(stack, FiberContext(nested)))
    BY <2>1, NewContexts, PushOK
  <2> QED  BY <2>1, <2>2 DEF SchedTypeOK
<1>4. CASE LeaveFiber
  BY <1>4, PopOK DEF LeaveFiber, SchedTypeOK
<1> QED  BY <1>1, <1>2, <1>3, <1>4

\* The fields the methods of Task and Kernel#sleep write.
LEMMA FieldsWritten ==
  ASSUME NEW f \in TaskTable, NEW t \in Tasks, NEW o \in Tasks, NEW n \in Ticks,
         NEW p \in Priorities
  PROVE  /\ [f EXCEPT ![t].status = "WAITING", ![t].reason = "SLEEP",
                       ![t].wakeup_tick = n] \in TaskTable
         /\ [f EXCEPT ![t].status = "WAITING", ![t].reason = "JOIN",
                       ![t].join = o] \in TaskTable
         /\ [f EXCEPT ![t].status = "READY", ![t].reason = "NONE",
                       ![t].wakeup_tick = Never] \in TaskTable
         /\ [f EXCEPT ![t].ctx = "created", ![t].priority = p,
                       ![t].status = "READY"] \in TaskTable
         /\ [f EXCEPT ![t].priority = p] \in TaskTable
         /\ [f EXCEPT ![t].ctx = "dead"] \in TaskTable
<1>0. f[t] \in TaskData
  BY DEF TaskTable
<1>1. ASSUME NEW d \in TaskData
      PROVE  [f EXCEPT ![t] = d] \in TaskTable
  BY DEF TaskTable
<1>2. /\ [f[t] EXCEPT !.status = "WAITING", !.reason = "SLEEP", !.wakeup_tick = n] \in TaskData
      /\ [f[t] EXCEPT !.status = "WAITING", !.reason = "JOIN", !.join = o] \in TaskData
      /\ [f[t] EXCEPT !.status = "READY", !.reason = "NONE", !.wakeup_tick = Never] \in TaskData
      /\ [f[t] EXCEPT !.ctx = "created", !.priority = p, !.status = "READY"] \in TaskData
      /\ [f[t] EXCEPT !.priority = p] \in TaskData
      /\ [f[t] EXCEPT !.ctx = "dead"] \in TaskData
  BY <1>0, TicksAreNat DEF TaskData, Statuses, Reasons
<1>3. [f EXCEPT ![t].status = "WAITING", ![t].reason = "SLEEP", ![t].wakeup_tick = n]
        = [f EXCEPT ![t] = [f[t] EXCEPT !.status = "WAITING", !.reason = "SLEEP",
                                        !.wakeup_tick = n]]
  BY <1>0 DEF TaskTable
<1>4. [f EXCEPT ![t].status = "WAITING", ![t].reason = "JOIN", ![t].join = o]
        = [f EXCEPT ![t] = [f[t] EXCEPT !.status = "WAITING", !.reason = "JOIN",
                                        !.join = o]]
  BY <1>0 DEF TaskTable
<1>5. [f EXCEPT ![t].status = "READY", ![t].reason = "NONE", ![t].wakeup_tick = Never]
        = [f EXCEPT ![t] = [f[t] EXCEPT !.status = "READY", !.reason = "NONE",
                                        !.wakeup_tick = Never]]
  BY <1>0 DEF TaskTable
<1>6. [f EXCEPT ![t].ctx = "created", ![t].priority = p, ![t].status = "READY"]
        = [f EXCEPT ![t] = [f[t] EXCEPT !.ctx = "created", !.priority = p,
                                        !.status = "READY"]]
  BY <1>0 DEF TaskTable
<1> QED  BY <1>1, <1>2, <1>3, <1>4, <1>5, <1>6

\* The running task parks itself, or is over.
LEMMA OwnStepType ==
  ASSUME SchedTypeOK,
         \/ Pass \/ SleepForever \/ TerminateSelf \/ Finish
         \/ \E n \in 0 .. MaxWait : Sleep(n)
  PROVE  SchedTypeOK'
<1>0. /\ sched \in States
      /\ CurrentTask \in Tasks \cup {NoObj}
      /\ sched.task \in TaskTable
      /\ \A t \in Tasks : sched.task[t] \in TaskData
  BY CurrentTaskType, StateFields DEF SchedTypeOK, TaskTable
<1>1. CASE Pass
  <2>1. SetStatus(sched, CurrentTask, "READY") \in States
    BY <1>0, <1>1, SetStatusType DEF Pass, Statuses
  <2> QED  BY <1>1, <2>1, ParkType DEF Pass, SchedTypeOK
<1>2. CASE SleepForever
  <2>1. SetStatus(sched, CurrentTask, "SUSPENDED") \in States
    BY <1>0, <1>2, SetStatusType DEF SleepForever, Statuses
  <2> QED  BY <1>2, <2>1, ParkType DEF SleepForever, SchedTypeOK
<1>3. CASE TerminateSelf
  <2> DEFINE me == CurrentTask
             stopped == StopTask(sched, me, me)
  <2>1. me \in Tasks /\ Top.kind # "root"
    BY <1>0, <1>3, TopType DEF TerminateSelf, CurrentTask, OnCpu
  <2>2. stopped \in States
    BY <1>0, <2>1, StopTaskType
  <2> HIDE DEF stopped, me
  <2>3. [stopped.task EXCEPT ![me].ctx = "dead"] \in TaskTable
    BY <2>1, <2>2, StateFields DEF TaskTable, TaskData
  <2>4. [stopped EXCEPT !.task = [stopped.task EXCEPT ![me].ctx = "dead"]] \in States
    BY <2>2, <2>3 DEF States, TaskTable
  <2>5. sched' = Left([stopped EXCEPT !.task = [stopped.task EXCEPT ![me].ctx = "dead"]],
                      me, stack[Len(stack) - 1].task)
    BY <1>3 DEF TerminateSelf, stopped, me
  <2>6. sched' \in States
    BY <2>1, <2>4, <2>5, LeftType
  <2> QED  BY <1>3, <2>1, <2>6, PopOK DEF TerminateSelf, SchedTypeOK
<1>4. CASE Finish
  <2>1. Top.task \in Tasks /\ Top.kind # "root"
    BY <1>4, TopType DEF Finish
  <2>2. [sched.task EXCEPT ![Top.task].ctx = "dead"] \in TaskTable
    BY <1>0, <2>1, StateFields DEF TaskTable, TaskData
  <2>3. [sched EXCEPT !.task = [sched.task EXCEPT ![Top.task].ctx = "dead"]] \in States
    BY <1>0, <2>2 DEF States, TaskTable
  <2>4. sched' \in States
    BY <1>4, <2>1, <2>3, LeftType DEF Finish
  <2> QED  BY <1>4, <2>1, <2>4, PopOK DEF Finish, SchedTypeOK
<1>5. ASSUME NEW n \in 0 .. MaxWait, Sleep(n)
      PROVE  SchedTypeOK'
  <2> DEFINE me == CurrentTask
             data == [sched.task EXCEPT ![me].status = "WAITING", ![me].reason = "SLEEP",
                                        ![me].wakeup_tick = n]
  <2>1. n \in Ticks
    BY ConstantsAssumption DEF Ticks, Never
  <2>2. me \in Tasks
    BY <1>0, <1>5 DEF Sleep
  <2>3. data \in TaskTable
    <3> HIDE DEF me
    <3> QED  BY <1>0, <2>1, <2>2, FieldsWritten, ConstantsAssumption
  <2>4. Park(NoteWakeup(Requeued(sched, {me}, data), n)) \in States
    <3> HIDE DEF me, data
    <3>1. Requeued(sched, {me}, data) \in States
      BY <1>0, <2>2, <2>3, RequeuedType
    <3> QED  BY <2>1, <3>1, NoteWakeupType, ParkType
  <2> QED  BY <1>5, <2>4 DEF Sleep, SchedTypeOK
<1> QED  BY <1>1, <1>2, <1>3, <1>4, <1>5

\* What is done to a named task.
LEMMA TaskStepType ==
  ASSUME SchedTypeOK, NEW o \in Tasks,
         \/ New(o) \/ Join(o) \/ Suspend(o) \/ Resume(o)
         \/ Terminate(o) \/ Close(o)
         \/ \E p \in Priorities : SetPriority(o, p)
  PROVE  SchedTypeOK'
<1>0. /\ sched \in States
      /\ CurrentTask \in Tasks \cup {NoObj}
      /\ sched.task \in TaskTable
      /\ \A t \in Tasks : sched.task[t] \in TaskData
  BY CurrentTaskType, StateFields DEF SchedTypeOK, TaskTable
<1>1. CASE New(o)
  <2>1. PICK p \in Priorities :
          sched' = Requeued(sched, {o},
                     [sched.task EXCEPT ![o].ctx = "created", ![o].priority = p,
                                        ![o].status = "READY"])
    BY <1>1 DEF New
  <2>2. [sched.task EXCEPT ![o].ctx = "created", ![o].priority = p,
                           ![o].status = "READY"] \in TaskTable
    BY <1>0, <2>1, FieldsWritten, TicksAreNat
  <2>3. sched' \in States
    BY <1>0, <2>1, <2>2, RequeuedType
  <2> QED  BY <1>1, <2>3 DEF New, SchedTypeOK
<1>2. CASE Join(o)
  <2> DEFINE me == CurrentTask
             data == [sched.task EXCEPT ![me].status = "WAITING", ![me].reason = "JOIN",
                                        ![me].join = o]
  <2>1. me \in Tasks
    BY <1>0, <1>2 DEF Join
  <2>2. Requeued(sched, {me}, data) \in States
    <3> HIDE DEF me
    <3>1. data \in TaskTable
      BY <1>0, <2>1, FieldsWritten, TicksAreNat, ConstantsAssumption
    <3> HIDE DEF data
    <3> QED  BY <1>0, <2>1, <3>1, RequeuedType
  <2> QED  BY <1>2, <2>2, ParkType DEF Join, SchedTypeOK
<1>3. CASE Suspend(o)
  <2>1. SetStatus(sched, o, "SUSPENDED") \in States
    BY <1>0, SetStatusType DEF Statuses
  <2>2. Park(SetStatus(sched, o, "SUSPENDED")) \in States
    BY <2>1, ParkType
  <2> QED  BY <1>3, <2>1, <2>2 DEF Suspend, SchedTypeOK
<1>4. CASE Resume(o)
  <2>1. [sched.task EXCEPT ![o].status = "READY", ![o].reason = "NONE",
                           ![o].wakeup_tick = Never] \in TaskTable
    BY <1>0, FieldsWritten, TicksAreNat, ConstantsAssumption
  <2> QED  BY <1>0, <1>4, <2>1, RequeuedType DEF Resume, SchedTypeOK
<1>5. CASE Terminate(o)
  BY <1>0, <1>5, StopTaskType DEF Terminate, SchedTypeOK
<1>6. CASE Close(o)
  <2> DEFINE out == QDelete(sched, o)
             d == [out.task[o] EXCEPT !.status = "DORMANT",
                                      !.ctx = IF o = OnCpu THEN @ ELSE "dead"]
  <2>1. out \in States /\ out.task \in TaskTable
    BY <1>0, QDeleteType, StateFields
  <2>2. sched' = [out EXCEPT !.task[o].status = "DORMANT",
                             !.task[o].ctx = IF o = OnCpu THEN @ ELSE "dead"]
    BY <1>6 DEF Close
  <2> HIDE DEF out
  <2>3. d \in TaskData
    BY <2>1, ZenonT(60) DEF TaskTable, TaskData, Statuses
  <2>4. sched' = [out EXCEPT !.task = [out.task EXCEPT ![o] = d]]
    BY <2>1, <2>2 DEF TaskTable, TaskData, States
  <2> HIDE DEF d
  <2>5. sched' \in States
    BY <2>1, <2>3, <2>4, TaskSetType
  <2> QED  BY <1>6, <2>5 DEF Close, SchedTypeOK
<1>7. ASSUME NEW p \in Priorities, SetPriority(o, p)
      PROVE  SchedTypeOK'
  <2> DEFINE out == QDelete(sched, o)
  <2>1. out \in States /\ out.task \in TaskTable
    BY <1>0, QDeleteType, StateFields
  <2>2. sched' = Requeued(out, {o}, [out.task EXCEPT ![o].priority = p])
    BY <1>7 DEF SetPriority
  <2> HIDE DEF out
  <2>3. [out.task EXCEPT ![o].priority = p] \in TaskTable
    BY <2>1 DEF TaskTable, TaskData
  <2>4. sched' \in States
    BY <2>1, <2>2, <2>3, RequeuedType
  <2> QED  BY <1>7, <2>4 DEF SetPriority, SchedTypeOK
<1> QED  BY <1>1, <1>2, <1>3, <1>4, <1>5, <1>6, <1>7

\* Who drives the scheduler, and the clock a host owns.
LEMMA DriverStepType ==
  ASSUME SchedTypeOK,
         \/ RootPass \/ RunBegin \/ HostStep
         \/ \E n \in 0 .. MaxWait : SleepOutside(n) \/ HostAdvance(n)
         \/ \E n \in IndexFroms : HostIndexFrom(n)
  PROVE  SchedTypeOK'
<1>0. sched \in States
  BY DEF SchedTypeOK
<1>1. CASE RootPass
  BY <1>1, RunsHeadType DEF RootPass
<1>2. CASE RunBegin
  <2>1. [sched EXCEPT !.loop_running = TRUE] \in States
    BY <1>0 DEF States
  <2> QED  BY <1>2, <2>1, MarkOK DEF RunBegin, SchedTypeOK
<1>3. CASE HostStep
  <2>1. CASE RunsHead
    BY <2>1, RunsHeadType
  <2>2. CASE sched' = Idle(sched) /\ UNCHANGED stack
    <3>1. sched.wakeup_tick \in Nat
      BY <1>0, StateFields, TicksAreNat
    <3> QED  BY <1>0, <2>2, <3>1, AdvanceTicksType DEF Idle, SchedTypeOK
  <2> QED  BY <1>3, <2>1, <2>2 DEF HostStep
<1>4. ASSUME NEW n \in 0 .. MaxWait, SleepOutside(n) \/ HostAdvance(n)
      PROVE  SchedTypeOK'
  <2>1. n \in Nat
    BY ConstantsAssumption
  <2> QED  BY <1>0, <1>4, <2>1, AdvanceTicksType DEF SleepOutside, HostAdvance, SchedTypeOK
<1>5. ASSUME NEW n \in IndexFroms, HostIndexFrom(n)
      PROVE  SchedTypeOK'
  BY <1>0, <1>5, SetIndexFromType DEF HostIndexFrom, SchedTypeOK
<1> QED  BY <1>1, <1>2, <1>3, <1>4, <1>5

---------------------------------------------------------------------------
(* Type correctness *)

\* The scheduler starts with every task unmade and every queue empty.
LEMMA SchedInitType == SchedInit => SchedTypeOK
<1> SUFFICES ASSUME NEW from \in IndexFroms, sched = InitialState(from), stack = <<Root>>
             PROVE  SchedTypeOK
  BY DEF SchedInit
<1>1. InitialTask \in TaskData
  <2>1. NONE \in Places
    BY TicksAreNat DEF NONE, Places
  <2>2. (CHOOSE p \in Priorities : TRUE) \in Priorities
    BY ConstantsAssumption
  <2>3. TIMESLICE \in 0 .. TIMESLICE
    BY ConstantsAssumption
  <2> QED  BY <2>1, <2>2, <2>3, TicksAreNat DEF InitialTask, TaskData, Statuses, Reasons
<1>2. InitialState(from) \in States
  BY <1>1, TicksAreNat DEF InitialState, States
<1>3. StackOK(<<Root>>)
  <2>1. Root \in Contexts /\ Root.kind = "root" /\ Root.task = NoObj
    BY DEF Root, Contexts
  <2> HIDE DEF Root
  <2>2. <<Root>> \in Seq(Contexts) /\ Len(<<Root>>) = 1 /\ <<Root>>[1] = Root
    BY <2>1
  <2> HIDE DEF Root
  <2> QED  BY <2>1, <2>2, SchedulerAssumption DEF StackOK
<1> QED  BY <1>2, <1>3 DEF SchedTypeOK

\* Every step of a program, a host or the interpreter keeps it.
LEMMA SchedNextType == SchedTypeOK /\ [SchedNext]_svars => SchedTypeOK'
<1> SUFFICES ASSUME SchedTypeOK, [SchedNext]_svars
             PROVE  SchedTypeOK'
  OBVIOUS
<1>1. CASE CallStep
  <2>1. CASE EnterNative \/ LeaveNative \/ EnterFiber \/ LeaveFiber
    BY <2>1, FrameStepType
  <2>2. CASE \/ Pass \/ SleepForever \/ TerminateSelf \/ Finish
             \/ \E n \in 0 .. MaxWait : Sleep(n)
    BY <2>2, OwnStepType
  <2>3. CASE \/ RootPass \/ RunBegin \/ HostStep
             \/ \E n \in 0 .. MaxWait : SleepOutside(n) \/ HostAdvance(n)
             \/ \E n \in IndexFroms : HostIndexFrom(n)
    BY <2>3, DriverStepType
  <2>4. ASSUME NEW t \in Tasks,
               \/ New(t) \/ Join(t) \/ Suspend(t) \/ Resume(t)
               \/ Terminate(t) \/ Close(t)
               \/ \E p \in Priorities : SetPriority(t, p)
        PROVE  SchedTypeOK'
    BY <2>4, TaskStepType
  <2> QED  BY <1>1, <2>1, <2>2, <2>3, <2>4 DEF CallStep
<1>2. CASE MachineStep
  BY <1>2, MachineStepType
<1>3. CASE UNCHANGED svars
  BY <1>3 DEF SchedTypeOK, svars
<1> QED  BY <1>1, <1>2, <1>3 DEF SchedNext

\* Type correctness: whatever tasks, a host and the interpreter do, and in
\* whatever order, the scheduler's records stay records of its types (a slice
\* between 0 and TIMESLICE, an index key within the longest wait), and the
\* stack one of contexts with the root, and only the root, at its bottom.
THEOREM SchedTypeCorrect == SchedSpec => []SchedTypeOK
<1>1. SchedInit => SchedTypeOK
  BY SchedInitType
<1>2. SchedTypeOK /\ [SchedNext]_svars => SchedTypeOK'
  BY SchedNextType
<1> QED  BY <1>1, <1>2, PTL DEF SchedSpec

---------------------------------------------------------------------------
(* Every action keeps every task in its place *)

\* Handing the CPU over, taking it back, a tick and a request to switch.
LEMMA SliceStepsPlaced ==
  ASSUME NEW st \in States, NEW t \in Tasks, NEW cur, Consistent(st)
  PROVE  /\ Consistent(Entered(st, t))
         /\ Consistent(Left(st, t, cur))
         /\ Consistent(Ticked(st))
         /\ Consistent(Park(st))
<1>1. Consistent(Entered(st, t))
  <2> DEFINE nx == Entered(st, t)
  <2>1. /\ nx.queues = st.queues /\ nx.sleepers = st.sleepers /\ nx.waiters = st.waiters
        /\ nx.indexed = st.indexed
    BY DEF Entered, States
  <2>2. \A u \in Tasks : nx.task[u].place = st.task[u].place
    <3>1. st.task[t] \in TaskData
      BY StateFields DEF TaskTable
    <3>2. nx.task = [st.task EXCEPT ![t] =
             [@ EXCEPT !.timeslice = TIMESLICE, !.status = "RUNNING", !.ctx = "live"]]
      BY <3>1 DEF Entered, States, TaskData
    <3> HIDE DEF nx
    <3> QED  BY <3>1, <3>2, StateFields DEF TaskTable, TaskData
  <2> HIDE DEF nx
  <2>3. Consistent(nx)
    BY <2>1, <2>2, NothingMoved
  <2> QED  BY <2>3 DEF nx
<1>2. Consistent(Left(st, t, cur))
  <2> DEFINE back == [st EXCEPT !.running = NoObj, !.switching = FALSE]
  <2>1. /\ back \in States
        /\ back.queues = st.queues /\ back.sleepers = st.sleepers
        /\ back.waiters = st.waiters /\ back.indexed = st.indexed /\ back.task = st.task
    BY DEF States
  <2> HIDE DEF back
  <2>2. Consistent(back)
    BY <2>1, NothingMoved
  <2>3. Consistent(StopTask(back, t, cur)) /\ Consistent(SetStatus(back, t, "READY"))
    BY <2>1, <2>2, StopTaskPlaced, SetStatusPlaced DEF Statuses
  <2>4. Left(st, t, cur) \in {StopTask(back, t, cur), SetStatus(back, t, "READY"), back}
    BY DEF Left, back
  <2> QED  BY <2>2, <2>3, <2>4
<1>3. Consistent(Ticked(st))
  <2> DEFINE r == st.running
             d == [st.task[r] EXCEPT !.timeslice = @ - 1]
             less == [st EXCEPT !.task = [st.task EXCEPT ![r] = d],
                                !.switching = @ \/ st.task[r].timeslice = 1]
             counts == /\ r # NoObj
                       /\ st.task[r].status = "RUNNING"
                       /\ st.task[r].timeslice > 0
             sliced == IF counts THEN less ELSE st
  <2>1. counts => less \in States /\ Consistent(less)
    <3> SUFFICES ASSUME counts PROVE less \in States /\ Consistent(less)
      OBVIOUS
    <3>1. r \in Tasks /\ st.task[r] \in TaskData
      BY StateFields DEF TaskTable
    <3>2. st.task[r].timeslice - 1 \in 0 .. TIMESLICE
      BY <3>1, TaskFields, ConstantsAssumption
    <3>3. d \in TaskData /\ d.place = st.task[r].place
      BY <3>1, <3>2 DEF TaskData
    <3> HIDE DEF d, r
    <3>4. [st.task EXCEPT ![r] = d] \in TaskTable
      BY <3>3, StateFields DEF TaskTable
    <3>5. less \in States
      BY <3>4 DEF States, TaskTable
    <3>6. /\ less.queues = st.queues /\ less.sleepers = st.sleepers
          /\ less.waiters = st.waiters /\ less.indexed = st.indexed
          /\ less.task = [st.task EXCEPT ![r] = d]
      BY DEF States
    <3>7. \A u \in Tasks : less.task[u].place = st.task[u].place
      <4> HIDE DEF less
      <4> QED  BY <3>1, <3>3, <3>6, StateFields DEF TaskTable
    <3> HIDE DEF less
    <3> QED  BY <3>5, <3>6, <3>7, NothingMoved
  <2>2. Ticked(st) = IF ClockFromInstructions THEN AdvanceTicks(sliced, 1) ELSE sliced
    BY DEF Ticked
  <2> HIDE DEF r, d, less, counts
  <2>3. sliced \in States /\ Consistent(sliced)
    BY <2>1
  <2> HIDE DEF sliced
  <2>4. Consistent(AdvanceTicks(sliced, 1))
    BY <2>3, AdvanceTicksPlaced
  <2> QED  BY <2>2, <2>3, <2>4
<1>4. Consistent(Park(st))
  <2> DEFINE nx == Park(st)
  <2>1. /\ nx.queues = st.queues /\ nx.sleepers = st.sleepers /\ nx.waiters = st.waiters
        /\ nx.indexed = st.indexed /\ nx.task = st.task
    BY DEF Park, States
  <2> HIDE DEF nx
  <2>2. Consistent(nx)
    BY <2>1, NothingMoved
  <2> QED  BY <2>2 DEF nx
<1> QED  BY <1>1, <1>2, <1>3, <1>4

\* Flags of the scheduler are no part of a place.
LEMMA FlagsPlaced ==
  ASSUME NEW st \in States, NEW b \in BOOLEAN, Consistent(st)
  PROVE  /\ Consistent([st EXCEPT !.switching = b])
         /\ Consistent([st EXCEPT !.loop_running = b])
<1>1. /\ [st EXCEPT !.switching = b].queues = st.queues
      /\ [st EXCEPT !.switching = b].sleepers = st.sleepers
      /\ [st EXCEPT !.switching = b].waiters = st.waiters
      /\ [st EXCEPT !.switching = b].indexed = st.indexed
      /\ [st EXCEPT !.switching = b].task = st.task
  BY DEF States
<1>2. /\ [st EXCEPT !.loop_running = b].queues = st.queues
      /\ [st EXCEPT !.loop_running = b].sleepers = st.sleepers
      /\ [st EXCEPT !.loop_running = b].waiters = st.waiters
      /\ [st EXCEPT !.loop_running = b].indexed = st.indexed
      /\ [st EXCEPT !.loop_running = b].task = st.task
  BY DEF States
<1> QED  BY <1>1, <1>2, NothingMoved

\* One turn of the scheduler, and a switch.
LEMMA TurnPlaced ==
  ASSUME SchedTypeOK, Consistent(sched),
         \/ RunsHead
         \/ \E st \in States : Consistent(st) /\ Top.kind # "root" /\ SwitchedOut(st)
  PROVE  Consistent(sched')
<1>0. sched \in States
  BY DEF SchedTypeOK
<1>1. CASE RunsHead
  BY <1>0, <1>1, SliceStepsPlaced DEF RunsHead
<1>2. ASSUME NEW st \in States, Consistent(st), Top.kind # "root", SwitchedOut(st)
      PROVE  Consistent(sched')
  <2>1. Consistent([st EXCEPT !.switching = FALSE])
    BY <1>2, FlagsPlaced
  <2>2. Top.kind = "task" => Top.task \in Tasks
    BY TopType
  <2> QED  BY <1>2, <2>1, <2>2, SliceStepsPlaced DEF SwitchedOut
<1> QED  BY <1>1, <1>2

\* A step of the interpreter or of the scheduler loop keeps every task in its
\* place.
LEMMA MachineStepPlaced ==
  ASSUME SchedTypeOK, Consistent(sched), MachineStep
  PROVE  Consistent(sched')
<1>0. sched \in States /\ sched.wakeup_tick \in Nat
  BY StateFields, TicksAreNat DEF SchedTypeOK
<1>1. CASE Tick
  <2>1. sched.running \in Tasks
    BY <1>0, <1>1, StateFields DEF Tick
  <2>2. Ticked(sched) \in States /\ Consistent(Ticked(sched))
    BY <1>0, <2>1, TickedType, SliceStepsPlaced
  <2> QED  BY <1>1, <2>2, TurnPlaced DEF Tick, Switchable
<1>2. CASE Switch
  BY <1>0, <1>2, TurnPlaced DEF Switch, Switchable
<1>3. CASE RunTurn
  BY <1>3, TurnPlaced DEF RunTurn
<1>4. CASE RunIdle
  BY <1>0, <1>4, AdvanceTicksPlaced DEF RunIdle, Idle
<1>5. CASE RunEnd
  BY <1>0, <1>5, FlagsPlaced DEF RunEnd
<1> QED  BY <1>1, <1>2, <1>3, <1>4, <1>5 DEF MachineStep

\* A step of the running code that names no other task keeps every task in its
\* place.
LEMMA OwnStepPlaced ==
  ASSUME SchedTypeOK, Consistent(sched),
         \/ Pass \/ SleepForever \/ TerminateSelf \/ Finish
         \/ \E n \in 0 .. MaxWait : Sleep(n)
  PROVE  Consistent(sched')
<1>0. /\ sched \in States /\ sched.task \in TaskTable
      /\ CurrentTask \in Tasks \cup {NoObj}
  BY CurrentTaskType, StateFields DEF SchedTypeOK
<1>1. ASSUME NEW status \in {"READY", "SUSPENDED"}, CurrentTask # NoObj
      PROVE  Consistent(Park(SetStatus(sched, CurrentTask, status)))
  <2>1. CurrentTask \in Tasks /\ status \in Statuses
    BY <1>0, <1>1 DEF Statuses
  <2>2. /\ SetStatus(sched, CurrentTask, status) \in States
        /\ Consistent(SetStatus(sched, CurrentTask, status))
    BY <1>0, <2>1, SetStatusType, SetStatusPlaced
  <2> QED  BY <2>1, <2>2, SliceStepsPlaced
<1>2. ASSUME NEW st \in States, NEW t \in Tasks, NEW cur, Consistent(st)
      PROVE  Consistent(Left([st EXCEPT !.task[t].ctx = "dead"], t, cur))
  <2> DEFINE d == [st.task[t] EXCEPT !.ctx = "dead"]
             nx == [st EXCEPT !.task = [st.task EXCEPT ![t] = d]]
  <2>1. d \in TaskData /\ d.place = st.task[t].place
    BY StateFields DEF TaskTable, TaskData
  <2> HIDE DEF d
  <2>2. nx \in States /\ Consistent(nx)
    BY <1>2, <2>1, TaskSetType, TaskSetPlaced
  <2> HIDE DEF nx
  <2>3. Consistent(Left(nx, t, cur))
    BY <2>2, SliceStepsPlaced
  <2> QED  BY <2>3 DEF nx, d
<1>3. CASE Pass
  BY <1>1, <1>3 DEF Pass
<1>4. CASE SleepForever
  BY <1>1, <1>4 DEF SleepForever
<1>5. CASE TerminateSelf
  <2> DEFINE me == CurrentTask
             stopped == StopTask(sched, me, me)
  <2>1. me \in Tasks
    BY <1>0, <1>5 DEF TerminateSelf
  <2>2. stopped \in States /\ Consistent(stopped)
    BY <1>0, <2>1, StopTaskType, StopTaskPlaced
  <2>3. sched' = Left([stopped EXCEPT !.task[me].ctx = "dead"], me,
                      stack[Len(stack) - 1].task)
    BY <1>5 DEF TerminateSelf
  <2> HIDE DEF me, stopped
  <2> QED  BY <1>2, <2>1, <2>2, <2>3
<1>6. CASE Finish
  <2>1. Top.task \in Tasks
    BY <1>6, TopType DEF Finish
  <2> QED  BY <1>0, <1>2, <1>6, <2>1 DEF Finish
<1>7. ASSUME NEW n \in 0 .. MaxWait, Sleep(n)
      PROVE  Consistent(sched')
  <2> DEFINE me == CurrentTask
             data == [sched.task EXCEPT ![me].status = "WAITING", ![me].reason = "SLEEP",
                                        ![me].wakeup_tick = n]
  <2>1. n \in Ticks
    BY ConstantsAssumption DEF Ticks, Never
  <2>2. me \in Tasks
    BY <1>0, <1>7 DEF Sleep
  <2>3. data \in TaskTable
    <3> HIDE DEF me
    <3> QED  BY <1>0, <2>1, <2>2, FieldsWritten, ConstantsAssumption
  <2>4. sched' = Park(NoteWakeup(Requeued(sched, {me}, data), n))
    BY <1>7 DEF Sleep
  <2> HIDE DEF me, data
  <2>5. Requeued(sched, {me}, data) \in States /\ Consistent(Requeued(sched, {me}, data))
    BY <1>0, <2>2, <2>3, RequeuedType, RequeuedPlaced
  <2>6. /\ NoteWakeup(Requeued(sched, {me}, data), n) \in States
        /\ Consistent(NoteWakeup(Requeued(sched, {me}, data), n))
    BY <2>1, <2>5, NoteWakeupType, NoteWakeupPlaced
  <2> QED  BY <2>2, <2>4, <2>6, SliceStepsPlaced
<1> QED  BY <1>3, <1>4, <1>5, <1>6, <1>7

\* A method called on some task keeps every task in its place.
LEMMA TaskStepPlaced ==
  ASSUME SchedTypeOK, Consistent(sched), NEW o \in Tasks,
         \/ New(o) \/ Join(o) \/ Suspend(o) \/ Resume(o)
         \/ Terminate(o) \/ Close(o)
         \/ \E p \in Priorities : SetPriority(o, p)
  PROVE  Consistent(sched')
<1>0. /\ sched \in States /\ sched.task \in TaskTable
      /\ CurrentTask \in Tasks \cup {NoObj}
      /\ 0 \in Ticks /\ Priorities # {}
  BY CurrentTaskType, StateFields, TicksAreNat, ConstantsAssumption DEF SchedTypeOK
<1>1. CASE New(o)
  <2>1. PICK p \in Priorities :
          sched' = Requeued(sched, {o},
                     [sched.task EXCEPT ![o].ctx = "created", ![o].priority = p,
                                        ![o].status = "READY"])
    BY <1>1 DEF New
  <2>2. [sched.task EXCEPT ![o].ctx = "created", ![o].priority = p,
                           ![o].status = "READY"] \in TaskTable
    BY <1>0, FieldsWritten
  <2> QED  BY <1>0, <2>1, <2>2, RequeuedPlaced
<1>2. CASE Join(o)
  <2> DEFINE me == CurrentTask
             data == [sched.task EXCEPT ![me].status = "WAITING", ![me].reason = "JOIN",
                                        ![me].join = o]
  <2>1. me \in Tasks
    BY <1>0, <1>2 DEF Join
  <2>2. data \in TaskTable
    <3> HIDE DEF me
    <3> QED  BY <1>0, <2>1, FieldsWritten
  <2>3. sched' = Park(Requeued(sched, {me}, data))
    BY <1>2 DEF Join
  <2> HIDE DEF me, data
  <2>4. Requeued(sched, {me}, data) \in States /\ Consistent(Requeued(sched, {me}, data))
    BY <1>0, <2>1, <2>2, RequeuedType, RequeuedPlaced
  <2> QED  BY <2>1, <2>3, <2>4, SliceStepsPlaced
<1>3. CASE Suspend(o)
  <2>1. SetStatus(sched, o, "SUSPENDED") \in States
        /\ Consistent(SetStatus(sched, o, "SUSPENDED"))
    BY <1>0, SetStatusType, SetStatusPlaced DEF Statuses
  <2>2. Consistent(Park(SetStatus(sched, o, "SUSPENDED")))
    BY <2>1, SliceStepsPlaced
  <2> QED  BY <1>3, <2>1, <2>2 DEF Suspend
<1>4. CASE Resume(o)
  <2>1. [sched.task EXCEPT ![o].status = "READY", ![o].reason = "NONE",
                           ![o].wakeup_tick = Never] \in TaskTable
    BY <1>0, FieldsWritten
  <2> QED  BY <1>0, <1>4, <2>1, RequeuedPlaced DEF Resume
<1>5. CASE Terminate(o)
  BY <1>0, <1>5, StopTaskPlaced DEF Terminate
<1>6. CASE Close(o)
  <2> DEFINE out == QDelete(sched, o)
             d == [out.task[o] EXCEPT !.status = "DORMANT",
                                      !.ctx = IF o = OnCpu THEN @ ELSE "dead"]
  <2>1. out \in States /\ out.task \in TaskTable /\ Consistent(out)
    BY <1>0, QDeleteType, QDeletePlaced, StateFields
  <2>2. sched' = [out EXCEPT !.task[o].status = "DORMANT",
                             !.task[o].ctx = IF o = OnCpu THEN @ ELSE "dead"]
    BY <1>6 DEF Close
  <2> HIDE DEF out
  <2>3. d.place = out.task[o].place
    BY <2>1 DEF TaskTable, TaskData
  <2>4. sched' = [out EXCEPT !.task = [out.task EXCEPT ![o] = d]]
    BY <2>1, <2>2 DEF TaskTable, TaskData, States
  <2> HIDE DEF d
  <2> QED  BY <2>1, <2>3, <2>4, TaskSetPlaced
<1>7. ASSUME NEW p \in Priorities, SetPriority(o, p)
      PROVE  Consistent(sched')
  <2> DEFINE out == QDelete(sched, o)
  <2>1. out \in States /\ out.task \in TaskTable /\ Consistent(out)
    BY <1>0, QDeleteType, QDeletePlaced, StateFields
  <2>2. sched' = Requeued(out, {o}, [out.task EXCEPT ![o].priority = p])
    BY <1>7 DEF SetPriority
  <2> HIDE DEF out
  <2>3. [out.task EXCEPT ![o].priority = p] \in TaskTable
    BY <1>0, <2>1, FieldsWritten
  <2> QED  BY <2>1, <2>2, <2>3, RequeuedPlaced
<1> QED  BY <1>1, <1>2, <1>3, <1>4, <1>5, <1>6, <1>7

\* A step of whoever drives the scheduler keeps every task in its place.
LEMMA DriverStepPlaced ==
  ASSUME SchedTypeOK, Consistent(sched),
         \/ RootPass \/ RunBegin \/ HostStep
         \/ \E n \in 0 .. MaxWait : SleepOutside(n) \/ HostAdvance(n)
         \/ \E n \in IndexFroms : HostIndexFrom(n)
  PROVE  Consistent(sched')
<1>0. sched \in States /\ sched.wakeup_tick \in Nat
  BY StateFields, TicksAreNat DEF SchedTypeOK
<1>1. CASE RootPass
  BY <1>1, TurnPlaced DEF RootPass
<1>2. CASE RunBegin
  BY <1>0, <1>2, FlagsPlaced DEF RunBegin
<1>3. CASE HostStep
  BY <1>0, <1>3, TurnPlaced, AdvanceTicksPlaced DEF HostStep, Idle
<1>4. ASSUME NEW n \in 0 .. MaxWait, SleepOutside(n) \/ HostAdvance(n)
      PROVE  Consistent(sched')
  <2>1. n \in Nat
    BY ConstantsAssumption
  <2> QED  BY <1>0, <1>4, <2>1, AdvanceTicksPlaced DEF SleepOutside, HostAdvance
<1>5. ASSUME NEW n \in IndexFroms, HostIndexFrom(n)
      PROVE  Consistent(sched')
  BY <1>0, <1>5, SetIndexFromPlaced DEF HostIndexFrom
<1> QED  BY <1>1, <1>2, <1>3, <1>4, <1>5

---------------------------------------------------------------------------
(* Every task is in its place *)

\* The strengthening of Placed that every step keeps.
PlacedInv == SchedTypeOK /\ Consistent(sched)

\* At the start no task is anywhere and no index holds anything.
LEMMA SchedInitPlaced == SchedInit => PlacedInv
<1> SUFFICES ASSUME SchedInit, NEW from \in IndexFroms, sched = InitialState(from)
             PROVE  Consistent(sched)
  BY SchedInitType DEF SchedInit, PlacedInv
<1>1. /\ \A q \in QueueNames : sched.queues[q] = {}
      /\ sched.sleepers = {} /\ sched.waiters = {}
      /\ \A t \in Tasks : sched.task[t].place = NONE
  BY DEF InitialState, InitialTask
<1> QED  BY <1>1 DEF Consistent, WellPlaced, NONE

\* Every step keeps every task in its place.
LEMMA SchedNextPlaced == PlacedInv /\ [SchedNext]_svars => PlacedInv'
<1> SUFFICES ASSUME SchedTypeOK, Consistent(sched), [SchedNext]_svars
             PROVE  Consistent(sched')
  BY SchedNextType DEF PlacedInv
<1>1. CASE CallStep
  <2>1. CASE EnterNative \/ LeaveNative \/ EnterFiber \/ LeaveFiber
    BY <2>1 DEF EnterNative, LeaveNative, EnterFiber, LeaveFiber
  <2>2. CASE \/ Pass \/ SleepForever \/ TerminateSelf \/ Finish
             \/ \E n \in 0 .. MaxWait : Sleep(n)
    BY <2>2, OwnStepPlaced
  <2>3. CASE \/ RootPass \/ RunBegin \/ HostStep
             \/ \E n \in 0 .. MaxWait : SleepOutside(n) \/ HostAdvance(n)
             \/ \E n \in IndexFroms : HostIndexFrom(n)
    BY <2>3, DriverStepPlaced
  <2>4. ASSUME NEW t \in Tasks,
               \/ New(t) \/ Join(t) \/ Suspend(t) \/ Resume(t)
               \/ Terminate(t) \/ Close(t)
               \/ \E p \in Priorities : SetPriority(t, p)
        PROVE  Consistent(sched')
    BY <2>4, TaskStepPlaced
  <2> QED  BY <1>1, <2>1, <2>2, <2>3, <2>4 DEF CallStep
<1>2. CASE MachineStep
  BY <1>2, MachineStepPlaced
<1>3. CASE UNCHANGED svars
  BY <1>3 DEF svars
<1> QED  BY <1>1, <1>2, <1>3 DEF SchedNext

\* Placed: through every sleep, wake-up, join, change of priority and change of
\* the index threshold, each queue and each index holds exactly the entries the
\* tasks remember; so requeue and q_delete, which trust TaskPlace and search
\* nothing, never leave a task behind or in two queues.
THEOREM PlacedAlways == SchedSpec => []Placed
<1>1. SchedInit => PlacedInv
  BY SchedInitPlaced
<1>2. PlacedInv /\ [SchedNext]_svars => PlacedInv'
  BY SchedNextPlaced
<1>3. PlacedInv => Placed
  BY DEF PlacedInv, Consistent, Placed
<1> QED  BY <1>1, <1>2, <1>3, PTL DEF SchedSpec

---------------------------------------------------------------------------
(* What a slice and a tick keep, and what they change *)

\* What holds of the scheduler between any two steps.
Sound(st) == Orderly(st) /\ Timely(st) /\ Joined(st)

\* The same tasks, and the same order among them.
SameTasks(st, nx) ==
  /\ \A t \in Tasks : /\ SameFields(nx.task[t], st.task[t])
                      /\ IsQueued(nx, t) <=> IsQueued(st, t)
  /\ nx.arrived = st.arrived

\* Two states whose tasks, places and deadlines agree are both sound.
LEMMA FlagsKeep ==
  ASSUME NEW st \in States, NEW nx \in States, Sound(st),
         nx.task = st.task, nx.queues = st.queues, nx.sleepers = st.sleepers,
         nx.waiters = st.waiters, nx.indexed = st.indexed,
         nx.wakeup_tick = st.wakeup_tick, nx.arrived = st.arrived
  PROVE  Sound(nx) /\ SameTasks(st, nx)
<1>1. Orderly(nx)
  BY NothingRefiled DEF Sound, Orderly
<1>2. \A t \in Tasks : IsQueued(nx, t) <=> IsQueued(st, t)
  BY DEF IsQueued
<1>3. Timely(nx) /\ Joined(nx)
  BY <1>2 DEF Sound, Timely, Joined
<1> QED  BY <1>1, <1>2, <1>3 DEF Sound, SameTasks, SameFields

\* The flags a step may set.
LEMMA SetFlagsKeep ==
  ASSUME NEW st \in States, NEW b \in BOOLEAN, Sound(st)
  PROVE  /\ LET nx == [st EXCEPT !.switching = b]
            IN nx \in States /\ Sound(nx) /\ nx.task = st.task
               /\ SameTasks(st, nx) /\ nx.running = st.running
               /\ nx.loop_running = st.loop_running /\ nx.switching = b
         /\ LET nx == [st EXCEPT !.loop_running = b]
            IN nx \in States /\ Sound(nx) /\ nx.task = st.task
               /\ SameTasks(st, nx) /\ nx.running = st.running
               /\ nx.loop_running = b /\ nx.switching = st.switching
         /\ LET nx == [st EXCEPT !.running = NoObj, !.switching = FALSE]
            IN nx \in States /\ Sound(nx) /\ nx.task = st.task
               /\ SameTasks(st, nx) /\ nx.running = NoObj
               /\ nx.loop_running = st.loop_running /\ nx.switching = FALSE
<1>1. ASSUME NEW nx \in States,
             nx.task = st.task, nx.queues = st.queues, nx.sleepers = st.sleepers,
             nx.waiters = st.waiters, nx.indexed = st.indexed,
             nx.wakeup_tick = st.wakeup_tick, nx.arrived = st.arrived
      PROVE  Sound(nx) /\ SameTasks(st, nx)
  BY <1>1, FlagsKeep
<1>2. LET nx == [st EXCEPT !.switching = b]
      IN nx \in States /\ Sound(nx) /\ nx.task = st.task
         /\ SameTasks(st, nx) /\ nx.running = st.running
         /\ nx.loop_running = st.loop_running /\ nx.switching = b
  <2> DEFINE nx == [st EXCEPT !.switching = b]
  <2>1. /\ nx \in States
        /\ nx.task = st.task /\ nx.queues = st.queues /\ nx.sleepers = st.sleepers
        /\ nx.waiters = st.waiters /\ nx.indexed = st.indexed
        /\ nx.wakeup_tick = st.wakeup_tick /\ nx.arrived = st.arrived
        /\ nx.running = st.running /\ nx.loop_running = st.loop_running
        /\ nx.switching = b
    BY DEF States
  <2> HIDE DEF nx
  <2>2. Sound(nx) /\ SameTasks(st, nx)
    BY <1>1, <2>1
  <2> QED  BY <2>1, <2>2 DEF nx
<1>3. LET nx == [st EXCEPT !.loop_running = b]
      IN nx \in States /\ Sound(nx) /\ nx.task = st.task
         /\ SameTasks(st, nx) /\ nx.running = st.running
         /\ nx.loop_running = b /\ nx.switching = st.switching
  <2> DEFINE nx == [st EXCEPT !.loop_running = b]
  <2>1. /\ nx \in States
        /\ nx.task = st.task /\ nx.queues = st.queues /\ nx.sleepers = st.sleepers
        /\ nx.waiters = st.waiters /\ nx.indexed = st.indexed
        /\ nx.wakeup_tick = st.wakeup_tick /\ nx.arrived = st.arrived
        /\ nx.running = st.running /\ nx.loop_running = b
        /\ nx.switching = st.switching
    BY DEF States
  <2> HIDE DEF nx
  <2>2. Sound(nx) /\ SameTasks(st, nx)
    BY <1>1, <2>1
  <2> QED  BY <2>1, <2>2 DEF nx
<1>4. LET nx == [st EXCEPT !.running = NoObj, !.switching = FALSE]
      IN nx \in States /\ Sound(nx) /\ nx.task = st.task
         /\ SameTasks(st, nx) /\ nx.running = NoObj
         /\ nx.loop_running = st.loop_running /\ nx.switching = FALSE
  <2> DEFINE nx == [st EXCEPT !.running = NoObj, !.switching = FALSE]
  <2>1. /\ nx \in States
        /\ nx.task = st.task /\ nx.queues = st.queues /\ nx.sleepers = st.sleepers
        /\ nx.waiters = st.waiters /\ nx.indexed = st.indexed
        /\ nx.wakeup_tick = st.wakeup_tick /\ nx.arrived = st.arrived
        /\ nx.running = NoObj /\ nx.loop_running = st.loop_running
        /\ nx.switching = FALSE
    BY DEF States
  <2> HIDE DEF nx
  <2>2. Sound(nx) /\ SameTasks(st, nx)
    BY <1>1, <2>1
  <2> QED  BY <2>1, <2>2 DEF nx
<1> QED  BY <1>2, <1>3, <1>4

\* A task that gets the CPU keeps its place, and the others everything.
LEMMA EnteredKeeps ==
  ASSUME NEW st \in States, NEW t \in Tasks, Sound(st),
         st.task[t].place.q = "ready"
  PROVE  LET nx == Entered(st, t)
         IN /\ nx \in States /\ Sound(nx)
            /\ nx.task[t].status = "RUNNING" /\ nx.task[t].ctx = "live"
            /\ \A u \in Tasks \ {t} : nx.task[u] = st.task[u]
            /\ \A u \in Tasks : IsQueued(nx, u) <=> IsQueued(st, u)
            /\ nx.arrived = st.arrived
            /\ nx.running = t /\ ~nx.switching
            /\ nx.loop_running = st.loop_running
<1> DEFINE d == [st.task[t] EXCEPT !.timeslice = TIMESLICE, !.status = "RUNNING",
                                   !.ctx = "live"]
           set == [st EXCEPT !.task = [st.task EXCEPT ![t] = d]]
           nx == Entered(st, t)
<1>0. st.task[t] \in TaskData /\ TIMESLICE \in 0 .. TIMESLICE
  BY StateFields, ConstantsAssumption DEF TaskTable
<1>1. /\ d \in TaskData /\ d.place = st.task[t].place /\ d.reason = st.task[t].reason
      /\ d.wakeup_tick = st.task[t].wakeup_tick /\ d.join = st.task[t].join
      /\ d.queue = st.task[t].queue /\ d.status = "RUNNING" /\ d.ctx = "live"
      /\ d.priority = st.task[t].priority
  BY <1>0 DEF TaskData, Statuses
<1>2. nx = [set EXCEPT !.running = t, !.switching = FALSE]
  <2>1. nx = [st EXCEPT !.task = [st.task EXCEPT ![t] = d], !.running = t,
                        !.switching = FALSE]
    BY ZenonT(60) DEF Entered, States, TaskData
  <2> HIDE DEF d, nx
  <2> QED  BY <2>1 DEF States
<1> HIDE DEF d
<1>3. Filed(d)
  <2>1. Filed(st.task[t])
    BY DEF Sound, Orderly
  <2>2. QOf(d.status) = "ready"
    BY <1>1 DEF QOf
  <2> QED  BY <1>1, <2>1, <2>2 DEF Filed
<1>4. /\ set \in States /\ Orderly(set) /\ set.task[t] = d
      /\ \A u \in Tasks \ {t} : set.task[u] = st.task[u]
      /\ \A u \in Tasks : IsQueued(set, u) <=> IsQueued(st, u)
      /\ SameFlags(st, set) /\ set.arrived = st.arrived
  BY <1>1, <1>3, TaskSetKeeps DEF Sound
<1> HIDE DEF set, nx
<1>5. Timely(set)
  BY <1>1, <1>4 DEF Sound, Timely, SameFlags
<1>6. Joined(set)
  <2>1. \A u \in Tasks : set.task[u].status \in {"WAITING", "DORMANT"} => set.task[u] = st.task[u]
    BY <1>1, <1>4
  <2>2. Joined(st)
    BY DEF Sound
  <2>3. \A u \in Tasks : IsQueued(set, u) <=> IsQueued(st, u)
    BY <1>4
  <2> QED  BY <2>1, <2>2, <2>3, JoinedKept
<1>7. /\ nx.task = set.task /\ nx.queues = set.queues /\ nx.sleepers = set.sleepers
      /\ nx.waiters = set.waiters /\ nx.indexed = set.indexed
      /\ nx.wakeup_tick = set.wakeup_tick /\ nx.arrived = set.arrived
      /\ nx.running = t /\ nx.loop_running = set.loop_running /\ ~nx.switching
  BY <1>2, <1>4 DEF States
<1>8. nx \in States
  BY EnteredType DEF nx
<1>9. Sound(nx) /\ SameTasks(set, nx)
  BY <1>4, <1>5, <1>6, <1>7, <1>8, FlagsKeep DEF Sound
<1> QED  BY <1>1, <1>4, <1>7, <1>8, <1>9 DEF nx, SameFlags, SameTasks

\* A task that leaves the CPU stops, gives it back, or waits where it is.
LEMMA LeftKeeps ==
  ASSUME NEW st \in States, NEW t \in Tasks, NEW cur, Sound(st)
  PROVE  LET nx == Left(st, t, cur)
         IN /\ nx \in States /\ Sound(nx)
            /\ nx.running = NoObj /\ ~nx.switching
            /\ nx.loop_running = st.loop_running
            /\ \E back \in States :
                 /\ back.task = st.task /\ SameTasks(st, back)
                 /\ \/ st.task[t].ctx = "dead" /\ Stops(back, nx, t, cur)
                    \/ /\ st.task[t].ctx # "dead" /\ st.task[t].status = "RUNNING"
                       /\ Sets(back, nx, t, "READY")
                    \/ /\ st.task[t].ctx # "dead" /\ st.task[t].status # "RUNNING"
                       /\ nx = back
<1> DEFINE back == [st EXCEPT !.running = NoObj, !.switching = FALSE]
           nx == Left(st, t, cur)
<1>1. /\ back \in States /\ Sound(back) /\ back.task = st.task
      /\ SameTasks(st, back) /\ back.running = NoObj
      /\ back.loop_running = st.loop_running /\ ~back.switching
  BY SetFlagsKeep
<1>2. nx = IF st.task[t].ctx = "dead" THEN StopTask(back, t, cur)
           ELSE IF st.task[t].status = "RUNNING" THEN SetStatus(back, t, "READY")
           ELSE back
  BY DEF Left
<1> HIDE DEF back, nx
<1>3. CASE st.task[t].ctx = "dead"
  <2>1. nx \in States /\ Sound(nx) /\ Stops(back, nx, t, cur)
    BY <1>1, <1>2, <1>3, StopTaskKeeps DEF Sound
  <2> QED  BY <1>1, <1>3, <2>1 DEF Stops, SameFlags, nx
<1>4. CASE st.task[t].ctx # "dead" /\ st.task[t].status = "RUNNING"
  <2>1. nx \in States /\ Orderly(nx) /\ Timely(nx) /\ Sets(back, nx, t, "READY")
    BY <1>1, <1>2, <1>4, SetStatusKeeps DEF Sound, Statuses
  <2>2. Joined(nx)
    <3>1. \A u \in Tasks : nx.task[u].status \in {"WAITING", "DORMANT"} =>
            SameFields(nx.task[u], back.task[u]) /\ (IsQueued(nx, u) <=> IsQueued(back, u))
      BY <2>1 DEF Sets
    <3> QED  BY <1>1, <3>1, JoinedKept DEF Sound, SameFields
  <2> QED  BY <1>1, <1>4, <2>1, <2>2 DEF Sets, SameFlags, Sound, nx
<1>5. CASE st.task[t].ctx # "dead" /\ st.task[t].status # "RUNNING"
  BY <1>1, <1>2, <1>5 DEF nx
<1> QED  BY <1>3, <1>4, <1>5

\* Time passes.
LEMMA AdvanceTicksSound ==
  ASSUME NEW st \in States, NEW n \in Nat, Sound(st)
  PROVE  LET nx == AdvanceTicks(st, n)
         IN /\ nx \in States /\ Sound(nx) /\ Prompt(nx)
            /\ \E D \in SUBSET Tasks : Passes(st, nx, n, D)
<1> DEFINE nx == AdvanceTicks(st, n)
<1>1. /\ nx \in States /\ Orderly(nx) /\ Timely(nx) /\ Prompt(nx)
      /\ \E D \in SUBSET Tasks : Passes(st, nx, n, D)
  BY AdvanceTicksKeeps DEF Sound
<1> HIDE DEF nx
<1>2. Joined(nx)
  BY <1>1, WakesJoined DEF Sound
<1> QED  BY <1>1, <1>2 DEF Sound, nx

\* No time passing is time passing too.
LEMMA NoTimePasses ==
  ASSUME NEW st \in States
  PROVE  Passes(st, st, 0, {})
<1>1. \A d \in Ticks : Later(d, 0) = d
  BY ConstantsAssumption DEF Later, Ticks, Never
<1>2. \A t \in Tasks : st.task[t].wakeup_tick \in Ticks /\ st.task[t].by \in Ticks
  BY StateFields, TaskFields DEF TaskTable
<1>3. MovedBack(st.arrived, {t \in Tasks : IsQueued(st, t)}, {}) = st.arrived
  BY DEF MovedBack
<1> QED  BY <1>1, <1>2, <1>3 DEF Passes

\* The instruction tick shortens a slice, which nothing else depends on, and
\* lets at most one tick pass.
LEMMA TickedKeeps ==
  ASSUME NEW st \in States, Sound(st)
  PROVE  LET nx == Ticked(st)
         IN /\ nx \in States /\ Sound(nx)
            /\ \E n \in 0 .. 1 : \E D \in SUBSET Tasks : Passes(st, nx, n, D)
            /\ Prompt(nx) \/ \E D \in SUBSET Tasks : Passes(st, nx, 0, D)
<1> DEFINE r == st.running
           d == [st.task[r] EXCEPT !.timeslice = @ - 1]
           set == [st EXCEPT !.task = [st.task EXCEPT ![r] = d]]
           less == [set EXCEPT !.switching = @ \/ st.task[r].timeslice = 1]
           counts == /\ r # NoObj
                     /\ st.task[r].status = "RUNNING"
                     /\ st.task[r].timeslice > 0
           sliced == IF counts
                     THEN [st EXCEPT !.task[r].timeslice = @ - 1,
                                     !.switching = @ \/ st.task[r].timeslice = 1]
                     ELSE st
           nx == Ticked(st)
           Like(sx) == /\ \A t \in Tasks :
                            LET x == sx.task[t]
                                y == st.task[t]
                            IN /\ x.ctx = y.ctx /\ x.priority = y.priority
                               /\ x.status = y.status /\ x.reason = y.reason
                               /\ x.join = y.join /\ x.queue = y.queue
                               /\ x.wakeup_tick = y.wakeup_tick /\ x.by = y.by
                       /\ \A t \in Tasks : IsQueued(sx, t) <=> IsQueued(st, t)
                       /\ sx.arrived = st.arrived /\ sx.running = st.running
                       /\ sx.loop_running = st.loop_running
                       /\ (st.switching => sx.switching)
<1>1. sliced \in States /\ Sound(sliced) /\ Like(sliced)
  <2>1. CASE ~counts
    BY <2>1
  <2>2. CASE counts
    <3>1. r \in Tasks /\ st.task[r] \in TaskData
      BY <2>2, StateFields DEF TaskTable
    <3>2. st.task[r].timeslice - 1 \in 0 .. TIMESLICE
      BY <2>2, <3>1, TaskFields, ConstantsAssumption
    <3>3. /\ d \in TaskData /\ d.place = st.task[r].place /\ d.reason = st.task[r].reason
          /\ d.wakeup_tick = st.task[r].wakeup_tick /\ d.join = st.task[r].join
          /\ d.queue = st.task[r].queue /\ d.status = st.task[r].status
          /\ d.ctx = st.task[r].ctx /\ d.priority = st.task[r].priority
          /\ d.by = st.task[r].by
      BY <3>1, <3>2 DEF TaskData
    <3>4. sliced = less
      BY <2>2, <3>1 DEF States, TaskTable
    <3> HIDE DEF d, sliced
    <3>5. Filed(d)
      BY <3>1, <3>3, SameFiled DEF Sound, Orderly
    <3>6. /\ set \in States /\ Orderly(set) /\ set.task[r] = d
          /\ \A u \in Tasks \ {r} : set.task[u] = st.task[u]
          /\ \A u \in Tasks : IsQueued(set, u) <=> IsQueued(st, u)
          /\ SameFlags(st, set) /\ set.arrived = st.arrived
      BY <3>1, <3>3, <3>5, TaskSetKeeps DEF Sound
    <3> HIDE DEF set
    <3>7. \A u \in Tasks :
            LET x == set.task[u]
                y == st.task[u]
            IN /\ x.ctx = y.ctx /\ x.priority = y.priority
               /\ x.status = y.status /\ x.reason = y.reason
               /\ x.join = y.join /\ x.queue = y.queue
               /\ x.wakeup_tick = y.wakeup_tick /\ x.by = y.by
      BY <3>3, <3>6
    <3>8. Timely(set)
      BY <3>6, <3>7 DEF Sound, Timely, SameFlags, HasDeadline
    <3>9. Joined(set)
      BY <3>6, <3>7, JoinedKept DEF Sound
    <3>10. /\ less.task = set.task /\ less.queues = set.queues
           /\ less.sleepers = set.sleepers /\ less.waiters = set.waiters
           /\ less.indexed = set.indexed /\ less.wakeup_tick = set.wakeup_tick
           /\ less.arrived = set.arrived /\ less.running = set.running
           /\ less.loop_running = set.loop_running
           /\ (set.switching => less.switching)
           /\ less \in States
      BY <3>6 DEF States
    <3> HIDE DEF less
    <3>11. Sound(less) /\ SameTasks(set, less)
      BY <3>6, <3>8, <3>9, <3>10, FlagsKeep DEF Sound
    <3>12. Like(less)
      BY <3>6, <3>7, <3>10, <3>11 DEF SameFlags, SameTasks
    <3> QED  BY <3>4, <3>10, <3>11, <3>12
  <2> QED  BY <2>1, <2>2
<1>2. nx = IF ClockFromInstructions THEN AdvanceTicks(sliced, 1) ELSE sliced
  BY DEF Ticked
<1> HIDE DEF sliced, nx
<1>3. /\ nx \in States /\ Sound(nx)
      /\ \E n \in 0 .. 1 : \E D \in SUBSET Tasks : Passes(sliced, nx, n, D)
      /\ Prompt(nx) \/ \E D \in SUBSET Tasks : Passes(sliced, nx, 0, D)
  <2>1. CASE ClockFromInstructions
    BY <1>1, <1>2, <2>1, AdvanceTicksSound
  <2>2. CASE ~ClockFromInstructions
    BY <1>1, <1>2, <2>2, NoTimePasses
  <2> QED  BY <2>1, <2>2
<1>4. ASSUME NEW n \in 0 .. 1, NEW D \in SUBSET Tasks, Passes(sliced, nx, n, D)
      PROVE  Passes(st, nx, n, D)
  <2>1. ASSUME NEW t \in D
        PROVE  /\ st.task[t].status = "WAITING"
               /\ HasDeadline(st.task[t]) /\ st.task[t].wakeup_tick <= n
               /\ nx.task[t].status = "READY" /\ nx.task[t].reason = "NONE"
               /\ nx.task[t].ctx = st.task[t].ctx
    BY <1>1, <1>4 DEF Passes, HasDeadline
  <2>2. ASSUME NEW t \in Tasks \ D
        PROVE  LET x == st.task[t]
                   e == nx.task[t]
               IN /\ e.ctx = x.ctx /\ e.priority = x.priority /\ e.status = x.status
                  /\ e.reason = x.reason
                  /\ e.join = x.join /\ e.queue = x.queue
                  /\ e.wakeup_tick = Later(x.wakeup_tick, n)
                  /\ e.by = Later(x.by, n)
    BY <1>1, <1>4 DEF Passes
  <2>3. {t \in Tasks : IsQueued(sliced, t)} = {t \in Tasks : IsQueued(st, t)}
    BY <1>1
  <2> QED  BY <1>1, <1>4, <2>1, <2>2, <2>3 DEF Passes
<1> QED  BY <1>3, <1>4 DEF nx

---------------------------------------------------------------------------
(* Every action keeps the scheduler sound *)

\* One task goes behind a queue. A join it begins must be of a task that is not
\* over, and a task that comes back ended must have no joiners.
LEMMA RequeuedOneKeeps ==
  ASSUME NEW st \in States, NEW t \in Tasks, NEW data \in TaskTable,
         Consistent(st), Keyed(st), \A u \in Tasks \ {t} : Filed(st.task[u]),
         Joined(st),
         data[t].status = "WAITING" /\ data[t].reason = "JOIN" =>
           /\ data[t].join \in Tasks
           /\ \/ data[t].join = t
              \/ st.task[data[t].join].status # "DORMANT"
              \/ ~IsQueued(st, data[t].join),
         data[t].status = "DORMANT" =>
           \A u \in Tasks : ~(/\ st.task[u].status = "WAITING"
                              /\ st.task[u].reason = "JOIN" /\ st.task[u].join = t)
  PROVE  LET nx == Requeued(st, {t}, data)
         IN /\ nx \in States /\ Orderly(nx) /\ Joined(nx)
            /\ Requeues(st, nx, {t}, data)
<1> DEFINE nx == Requeued(st, {t}, data)
<1>1. nx \in States /\ Orderly(nx) /\ Requeues(st, nx, {t}, data)
  BY RequeuedOrderly
<1> HIDE DEF nx
<1>2. /\ SameFields(nx.task[t], data[t])
      /\ \A u \in Tasks \ {t} : /\ SameFields(nx.task[u], st.task[u])
                                /\ IsQueued(nx, u) <=> IsQueued(st, u)
  BY <1>1 DEF Requeues, IsQueued
<1>3. ASSUME NEW u \in Tasks, nx.task[u].status = "WAITING", nx.task[u].reason = "JOIN"
      PROVE  /\ nx.task[u].join \in Tasks
             /\ \/ nx.task[nx.task[u].join].status # "DORMANT"
                \/ ~IsQueued(nx, nx.task[u].join)
  <2>1. CASE u = t
    <3>1. /\ data[t].status = "WAITING" /\ data[t].reason = "JOIN"
          /\ nx.task[u].join = data[t].join /\ nx.task[t].status = "WAITING"
      BY <1>2, <1>3, <2>1 DEF SameFields
    <3> QED  BY <1>2, <3>1 DEF SameFields
  <2>2. CASE u # t
    <3>1. /\ st.task[u].status = "WAITING" /\ st.task[u].reason = "JOIN"
          /\ st.task[u].join = nx.task[u].join
      BY <1>2, <1>3, <2>2 DEF SameFields
    <3>2. /\ nx.task[u].join \in Tasks
          /\ \/ st.task[nx.task[u].join].status # "DORMANT"
             \/ ~IsQueued(st, nx.task[u].join)
      BY <3>1 DEF Joined
    <3>3. CASE nx.task[u].join = t
      <4>1. data[t].status # "DORMANT"
        BY <3>1, <3>3
      <4> QED  BY <1>2, <3>2, <3>3, <4>1 DEF SameFields
    <3>4. CASE nx.task[u].join # t
      BY <1>2, <3>2, <3>4 DEF SameFields
    <3> QED  BY <3>3, <3>4
  <2> QED  BY <2>1, <2>2
<1> QED  BY <1>1, <1>3 DEF Joined, nx

\* Its deadline is one the scheduler looks in time for, if that was noted.
LEMMA RequeuedTimely ==
  ASSUME NEW st \in States, NEW t \in Tasks, NEW data, NEW nx, NEW noted \in States,
         Requeues(st, nx, {t}, data), Timely(st),
         noted.task = nx.task, noted.wakeup_tick <= st.wakeup_tick,
         data[t].status = "WAITING" /\ HasDeadline(data[t])
           => noted.wakeup_tick <= data[t].wakeup_tick
  PROVE  Timely(noted)
<1>1. ASSUME NEW u \in Tasks
      PROVE  /\ u = t => SameFields(noted.task[u], data[u])
             /\ u # t => SameFields(noted.task[u], st.task[u])
  BY DEF Requeues
<1>2. /\ noted.wakeup_tick \in Nat /\ st.wakeup_tick \in Nat
      /\ \A u \in Tasks : st.task[u].wakeup_tick \in Nat
  BY StateFields, TaskFields, TicksAreNat DEF TaskTable
<1>3. ASSUME NEW u \in Tasks, noted.task[u].status = "WAITING", HasDeadline(noted.task[u])
      PROVE  noted.wakeup_tick <= noted.task[u].wakeup_tick
  <2>1. CASE u = t
    BY <1>1, <1>3, <2>1 DEF SameFields, HasDeadline
  <2>2. CASE u # t
    <3>1. /\ st.task[u].status = "WAITING" /\ HasDeadline(st.task[u])
          /\ noted.task[u].wakeup_tick = st.task[u].wakeup_tick
      BY <1>1, <1>3, <2>2 DEF SameFields, HasDeadline
    <3> QED  BY <1>2, <3>1 DEF Timely
  <2> QED  BY <2>1, <2>2
<1> QED  BY <1>3 DEF Timely

\* Asking for a switch changes nothing else.
LEMMA ParkKeeps ==
  ASSUME NEW st \in States, Sound(st)
  PROVE  LET nx == Park(st)
         IN /\ nx \in States /\ Sound(nx) /\ nx.task = st.task /\ SameTasks(st, nx)
            /\ nx.running = st.running /\ nx.loop_running = st.loop_running
            /\ nx.switching
BY SetFlagsKeep DEF Park

\* A task that is given a status other than WAITING keeps its joiners, if it is
\* not over.
LEMMA SetStatusSound ==
  ASSUME NEW st \in States, NEW t \in Tasks, NEW status \in Statuses,
         status \notin {"WAITING", "DORMANT"}, Sound(st)
  PROVE  LET nx == SetStatus(st, t, status)
         IN nx \in States /\ Sound(nx) /\ Sets(st, nx, t, status)
<1> DEFINE nx == SetStatus(st, t, status)
<1>1. nx \in States /\ Orderly(nx) /\ Timely(nx) /\ Sets(st, nx, t, status)
  BY SetStatusKeeps DEF Sound
<1> HIDE DEF nx
<1>2. \A u \in Tasks : nx.task[u].status \in {"WAITING", "DORMANT"} =>
        SameFields(nx.task[u], st.task[u]) /\ (IsQueued(nx, u) <=> IsQueued(st, u))
  BY <1>1 DEF Sets
<1>3. Joined(nx)
  BY <1>2, JoinedKept DEF Sound, SameFields
<1> QED  BY <1>1, <1>3 DEF Sound, nx

\* The first of the ready queue is in it.
LEMMA HeadIsReady ==
  ASSUME NEW st \in States, WellPlaced(st), NEW t \in Tasks, IsFirst(st, "ready", t)
  PROVE  st.task[t].place.q = "ready"
BY DEF IsFirst, WellPlaced, QueueNames

\* One turn of the scheduler, and a switch.
LEMMA TurnSound ==
  ASSUME SchedTypeOK, Sound(sched),
         \/ RunsHead
         \/ \E st \in States : Sound(st) /\ Top.kind # "root" /\ SwitchedOut(st)
  PROVE  Sound(sched')
<1>0. sched \in States
  BY DEF SchedTypeOK
<1>1. CASE RunsHead
  <2>1. PICK t \in Tasks : IsFirst(sched, "ready", t) /\ sched' = Entered(sched, t)
    BY <1>1 DEF RunsHead
  <2>2. sched.task[t].place.q = "ready"
    BY <1>0, <2>1, HeadIsReady DEF Sound, Orderly, Consistent
  <2> QED  BY <1>0, <2>1, <2>2, EnteredKeeps
<1>2. ASSUME NEW st \in States, Sound(st), Top.kind # "root", SwitchedOut(st)
      PROVE  Sound(sched')
  <2>1. Sound([st EXCEPT !.switching = FALSE])
    BY <1>2, SetFlagsKeep
  <2>2. Top.kind = "task" => Top.task \in Tasks
    BY TopType
  <2> QED  BY <1>2, <2>1, <2>2, LeftKeeps DEF SwitchedOut
<1> QED  BY <1>1, <1>2

\* A step of the interpreter or of the scheduler loop.
LEMMA MachineStepSound ==
  ASSUME SchedTypeOK, Sound(sched), MachineStep
  PROVE  Sound(sched')
<1>0. sched \in States /\ sched.wakeup_tick \in Nat
  BY StateFields, TicksAreNat DEF SchedTypeOK
<1>1. CASE Tick
  <2>1. Ticked(sched) \in States /\ Sound(Ticked(sched))
    BY <1>0, TickedKeeps
  <2> QED  BY <1>1, <2>1, TurnSound DEF Tick, Switchable
<1>2. CASE Switch
  BY <1>0, <1>2, TurnSound DEF Switch, Switchable
<1>3. CASE RunTurn
  BY <1>3, TurnSound DEF RunTurn
<1>4. CASE RunIdle
  BY <1>0, <1>4, AdvanceTicksSound DEF RunIdle, Idle
<1>5. CASE RunEnd
  BY <1>0, <1>5, SetFlagsKeep DEF RunEnd
<1> QED  BY <1>1, <1>2, <1>3, <1>4, <1>5 DEF MachineStep

\* A step of whoever drives the scheduler.
LEMMA DriverStepSound ==
  ASSUME SchedTypeOK, Sound(sched),
         \/ RootPass \/ RunBegin \/ HostStep
         \/ \E n \in 0 .. MaxWait : SleepOutside(n) \/ HostAdvance(n)
         \/ \E n \in IndexFroms : HostIndexFrom(n)
  PROVE  Sound(sched')
<1>0. sched \in States /\ sched.wakeup_tick \in Nat
  BY StateFields, TicksAreNat DEF SchedTypeOK
<1>1. CASE RootPass
  BY <1>1, TurnSound DEF RootPass
<1>2. CASE RunBegin
  BY <1>0, <1>2, SetFlagsKeep DEF RunBegin
<1>3. CASE HostStep
  BY <1>0, <1>3, TurnSound, AdvanceTicksSound DEF HostStep, Idle
<1>4. ASSUME NEW n \in 0 .. MaxWait, SleepOutside(n) \/ HostAdvance(n)
      PROVE  Sound(sched')
  <2>1. n \in Nat
    BY ConstantsAssumption
  <2> QED  BY <1>0, <1>4, <2>1, AdvanceTicksSound DEF SleepOutside, HostAdvance
<1>5. ASSUME NEW n \in IndexFroms, HostIndexFrom(n)
      PROVE  Sound(sched')
  <2> DEFINE nx == SetIndexFrom(sched, n)
  <2>1. /\ Orderly(nx)
        /\ \A t \in Tasks : /\ SameFields(nx.task[t], sched.task[t])
                            /\ IsQueued(nx, t) <=> IsQueued(sched, t)
        /\ nx.wakeup_tick = sched.wakeup_tick
    BY <1>0, SetIndexFromKeeps DEF Sound
  <2>2. sched' = nx
    BY <1>5 DEF HostIndexFrom
  <2> HIDE DEF nx
  <2>3. Timely(nx)
    BY <2>1 DEF Sound, Timely, SameFields, HasDeadline
  <2>4. Joined(nx)
    BY <2>1, JoinedKept DEF Sound, SameFields
  <2> QED  BY <2>1, <2>2, <2>3, <2>4 DEF Sound
<1> QED  BY <1>1, <1>2, <1>3, <1>4, <1>5

\* Setting the context of a task to "dead" moves nothing.
LEMMA DeadKeeps ==
  ASSUME NEW st \in States, NEW t \in Tasks, Sound(st)
  PROVE  LET nx == [st EXCEPT !.task[t].ctx = "dead"]
         IN /\ nx \in States /\ Sound(nx)
            /\ nx.task[t].ctx = "dead" /\ nx.task[t].status = st.task[t].status
            /\ nx.task[t].reason = st.task[t].reason /\ nx.task[t].join = st.task[t].join
            /\ \A u \in Tasks \ {t} : nx.task[u] = st.task[u]
            /\ \A u \in Tasks : IsQueued(nx, u) <=> IsQueued(st, u)
            /\ nx.arrived = st.arrived /\ SameFlags(st, nx)
<1> DEFINE d == [st.task[t] EXCEPT !.ctx = "dead"]
           set == [st EXCEPT !.task = [st.task EXCEPT ![t] = d]]
<1>1. st.task[t] \in TaskData
  BY StateFields DEF TaskTable
<1>2. /\ d \in TaskData /\ d.place = st.task[t].place /\ d.reason = st.task[t].reason
      /\ d.wakeup_tick = st.task[t].wakeup_tick /\ d.join = st.task[t].join
      /\ d.queue = st.task[t].queue /\ d.status = st.task[t].status
      /\ d.ctx = "dead" /\ d.priority = st.task[t].priority
  BY <1>1 DEF TaskData
<1>3. [st EXCEPT !.task[t].ctx = "dead"] = set
  OBVIOUS
<1> HIDE DEF d
<1>4. Filed(d)
  BY <1>2, SameFiled DEF Sound, Orderly
<1>5. /\ set \in States /\ Orderly(set) /\ set.task[t] = d
      /\ \A u \in Tasks \ {t} : set.task[u] = st.task[u]
      /\ \A u \in Tasks : IsQueued(set, u) <=> IsQueued(st, u)
      /\ SameFlags(st, set) /\ set.arrived = st.arrived
  BY <1>2, <1>4, TaskSetKeeps DEF Sound
<1> HIDE DEF set
<1>6. \A u \in Tasks : /\ set.task[u].status = st.task[u].status
                       /\ set.task[u].reason = st.task[u].reason
                       /\ set.task[u].join = st.task[u].join
                       /\ set.task[u].wakeup_tick = st.task[u].wakeup_tick
  BY <1>2, <1>5
<1>7. Timely(set)
  BY <1>5, <1>6 DEF Sound, Timely, SameFlags, HasDeadline
<1>8. Joined(set)
  BY <1>5, <1>6, JoinedKept DEF Sound
<1> QED  BY <1>2, <1>3, <1>5, <1>7, <1>8 DEF Sound

\* The running task parks itself, or is over.
LEMMA OwnStepSound ==
  ASSUME SchedTypeOK, Sound(sched),
         \/ Pass \/ SleepForever \/ TerminateSelf \/ Finish
         \/ \E n \in 0 .. MaxWait : Sleep(n)
  PROVE  Sound(sched')
<1>0. /\ sched \in States /\ sched.task \in TaskTable
      /\ CurrentTask \in Tasks \cup {NoObj}
      /\ \A t \in Tasks : sched.task[t] \in TaskData
  BY CurrentTaskType, StateFields DEF SchedTypeOK, TaskTable
<1>1. ASSUME NEW status \in {"READY", "SUSPENDED"}, CurrentTask # NoObj
      PROVE  Sound(Park(SetStatus(sched, CurrentTask, status)))
  <2>1. CurrentTask \in Tasks /\ status \in Statuses /\ status \notin {"WAITING", "DORMANT"}
    BY <1>0, <1>1 DEF Statuses
  <2>2. /\ SetStatus(sched, CurrentTask, status) \in States
        /\ Sound(SetStatus(sched, CurrentTask, status))
    BY <1>0, <2>1, SetStatusSound
  <2> QED  BY <2>2, ParkKeeps
<1>2. ASSUME NEW st \in States, NEW t \in Tasks, NEW cur, Sound(st)
      PROVE  Sound(Left([st EXCEPT !.task[t].ctx = "dead"], t, cur))
  <2> DEFINE nx == [st EXCEPT !.task[t].ctx = "dead"]
  <2>1. nx \in States /\ Sound(nx)
    BY <1>2, DeadKeeps
  <2> HIDE DEF nx
  <2>2. Sound(Left(nx, t, cur))
    BY <2>1, LeftKeeps
  <2> QED  BY <2>2 DEF nx
<1>3. CASE Pass
  BY <1>1, <1>3 DEF Pass
<1>4. CASE SleepForever
  BY <1>1, <1>4 DEF SleepForever
<1>5. CASE TerminateSelf
  <2> DEFINE me == CurrentTask
             stopped == StopTask(sched, me, me)
  <2>1. me \in Tasks
    BY <1>0, <1>5 DEF TerminateSelf
  <2>2. stopped \in States /\ Sound(stopped)
    BY <1>0, <2>1, StopTaskKeeps DEF Sound
  <2>3. sched' = Left([stopped EXCEPT !.task[me].ctx = "dead"], me,
                      stack[Len(stack) - 1].task)
    BY <1>5 DEF TerminateSelf
  <2> HIDE DEF me, stopped
  <2> QED  BY <1>2, <2>1, <2>2, <2>3
<1>6. CASE Finish
  <2>1. Top.task \in Tasks
    BY <1>6, TopType DEF Finish
  <2> QED  BY <1>0, <1>2, <1>6, <2>1 DEF Finish
<1>7. ASSUME NEW n \in 0 .. MaxWait, Sleep(n)
      PROVE  Sound(sched')
  <2> DEFINE me == CurrentTask
             data == [sched.task EXCEPT ![me].status = "WAITING", ![me].reason = "SLEEP",
                                        ![me].wakeup_tick = n]
             asleep == Requeued(sched, {me}, data)
             noted == NoteWakeup(asleep, n)
  <2>1. n \in Ticks
    BY ConstantsAssumption DEF Ticks, Never
  <2>2. me \in Tasks
    BY <1>0, <1>7 DEF Sleep
  <2>3. sched' = Park(noted)
    BY <1>7 DEF Sleep
  <2> HIDE DEF me
  <2>4. data \in TaskTable
    BY <1>0, <2>1, <2>2, FieldsWritten, ConstantsAssumption
  <2>5. /\ data[me].status = "WAITING" /\ data[me].reason = "SLEEP"
        /\ data[me].wakeup_tick = n
    BY <1>0, <2>2 DEF TaskTable, TaskData
  <2> HIDE DEF data
  <2>6. /\ asleep \in States /\ Orderly(asleep) /\ Joined(asleep)
        /\ Requeues(sched, asleep, {me}, data)
    BY <1>0, <2>2, <2>4, <2>5, RequeuedOneKeeps DEF Sound, Orderly
  <2> HIDE DEF asleep
  <2>7. /\ noted \in States /\ Orderly(noted) /\ noted.task = asleep.task
        /\ noted.wakeup_tick <= n /\ noted.wakeup_tick <= asleep.wakeup_tick
    BY <2>1, <2>6, NoteWakeupKeeps
  <2> HIDE DEF noted
  <2>8. Timely(noted)
    <3>1. asleep.wakeup_tick = sched.wakeup_tick
      BY <2>6 DEF Requeues, SameFlags
    <3> QED  BY <1>0, <2>2, <2>5, <2>6, <2>7, <3>1, RequeuedTimely DEF Sound
  <2>9. Joined(noted)
    BY <2>6, <2>7 DEF Joined, IsQueued
  <2> QED  BY <2>3, <2>7, <2>8, <2>9, ParkKeeps DEF Sound
<1> QED  BY <1>3, <1>4, <1>5, <1>6, <1>7

\* Task#close takes a task out for good.
LEMMA CloseKeeps ==
  ASSUME SchedTypeOK, Sound(sched), NEW o \in Tasks, Close(o)
  PROVE  /\ Sound(sched')
         /\ sched'.task[o].status = "DORMANT" /\ ~IsQueued(sched', o)
         /\ sched'.task[o].ctx = IF o = OnCpu THEN sched.task[o].ctx ELSE "dead"
         /\ \A u \in Tasks \ {o} : sched'.task[u] = sched.task[u]
         /\ SameFlags(sched, sched')
<1> DEFINE out == QDelete(sched, o)
           d == [out.task[o] EXCEPT !.status = "DORMANT",
                                    !.ctx = IF o = OnCpu THEN @ ELSE "dead"]
           nx == [out EXCEPT !.task = [out.task EXCEPT ![o] = d]]
<1>0. sched \in States
  BY DEF SchedTypeOK
<1>1. /\ out \in States /\ Consistent(out) /\ Keyed(out)
      /\ \A u \in Tasks \ {o} : out.task[u] = sched.task[u]
      /\ SameFields(out.task[o], sched.task[o]) /\ ~IsQueued(out, o)
      /\ SameFlags(sched, out)
  BY <1>0, QDeleteKeeps DEF Sound
<1>2. sched' = [out EXCEPT !.task[o].status = "DORMANT",
                           !.task[o].ctx = IF o = OnCpu THEN @ ELSE "dead"]
  BY DEF Close
<1> HIDE DEF out
<1>3. out.task \in TaskTable /\ out.task[o] \in TaskData
  BY <1>1, StateFields DEF TaskTable
<1>4. /\ d \in TaskData /\ d.place = out.task[o].place /\ d.status = "DORMANT"
      /\ d.ctx = IF o = OnCpu THEN out.task[o].ctx ELSE "dead"
  BY <1>3 DEF TaskData, Statuses
<1>5. sched' = nx
  BY <1>2, <1>3 DEF TaskTable, TaskData, States
<1> HIDE DEF d
<1>6. Consistent(nx)
  BY <1>1, <1>4, TaskSetPlaced
<1>7. /\ nx.task = [out.task EXCEPT ![o] = d] /\ SameFlags(out, nx)
      /\ nx.indexed = out.indexed
  BY <1>1 DEF States, SameFlags
<1> HIDE DEF nx
<1>8. nx.task[o] = d /\ \A u \in Tasks \ {o} : nx.task[u] = sched.task[u]
  BY <1>1, <1>3, <1>7 DEF TaskTable
<1>9. ~IsQueued(nx, o) /\ \A u \in Tasks \ {o} : IsQueued(nx, u) <=> IsQueued(sched, u)
  BY <1>1, <1>4, <1>8 DEF IsQueued
<1>10. Filed(d)
  BY <1>1, <1>4 DEF Filed, IsQueued
<1>11. Keyed(nx)
  <2>1. nx.task[o].place.q # "waiting"
    BY <1>9 DEF IsQueued
  <2>2. \A u \in Tasks \ {o} : nx.task[u] = out.task[u]
    BY <1>1, <1>8
  <2> QED  BY <1>1, <1>7, <2>1, <2>2 DEF Keyed
<1>12. Orderly(nx)
  BY <1>6, <1>8, <1>10, <1>11 DEF Orderly, Sound
<1>13. SameFlags(sched, nx)
  BY <1>1, <1>7 DEF SameFlags
<1>14. Timely(nx)
  <2>1. \A u \in Tasks : nx.task[u].status = "WAITING" => nx.task[u] = sched.task[u]
    BY <1>4, <1>8
  <2> QED  BY <1>13, <2>1 DEF Sound, Timely, SameFlags
<1>15. Joined(nx)
  <2>1. \A u \in Tasks : nx.task[u].status = "WAITING" => nx.task[u] = sched.task[u]
    BY <1>4, <1>8
  <2>2. \A u \in Tasks : nx.task[u].status = "DORMANT" /\ IsQueued(nx, u) =>
          sched.task[u].status = "DORMANT" /\ IsQueued(sched, u)
    BY <1>8, <1>9
  <2> QED  BY <2>1, <2>2, JoinedKept DEF Sound
<1> QED  BY <1>1, <1>4, <1>5, <1>8, <1>9, <1>12, <1>13, <1>14, <1>15
         DEF Sound, SameFields

\* What is done to a named task.
LEMMA TaskStepSound ==
  ASSUME SchedTypeOK, Sound(sched), NEW o \in Tasks,
         \/ New(o) \/ Join(o) \/ Suspend(o) \/ Resume(o)
         \/ Terminate(o) \/ Close(o)
         \/ \E p \in Priorities : SetPriority(o, p)
  PROVE  Sound(sched')
<1>0. /\ sched \in States /\ sched.task \in TaskTable
      /\ CurrentTask \in Tasks \cup {NoObj}
      /\ 0 \in Ticks /\ Priorities # {}
      /\ Consistent(sched) /\ Keyed(sched) /\ Joined(sched) /\ Timely(sched)
      /\ \A u \in Tasks : Filed(sched.task[u])
  BY CurrentTaskType, StateFields, TicksAreNat, ConstantsAssumption
     DEF SchedTypeOK, Sound, Orderly
<1>a. ASSUME NEW st \in States, NEW t \in Tasks, NEW data, NEW nx \in States,
             Requeues(st, nx, {t}, data), Timely(st),
             data[t].status = "WAITING" /\ HasDeadline(data[t])
               => st.wakeup_tick <= data[t].wakeup_tick
      PROVE  Timely(nx)
  <2>1. nx.wakeup_tick = st.wakeup_tick /\ st.wakeup_tick \in Nat
    BY <1>a, StateFields, TicksAreNat DEF Requeues, SameFlags
  <2> QED  BY <1>a, <2>1, RequeuedTimely
<1>1. CASE New(o)
  <2>1. PICK p \in Priorities :
          sched' = Requeued(sched, {o},
                     [sched.task EXCEPT ![o].ctx = "created", ![o].priority = p,
                                        ![o].status = "READY"])
    BY <1>1 DEF New
  <2> DEFINE data == [sched.task EXCEPT ![o].ctx = "created", ![o].priority = p,
                                        ![o].status = "READY"]
  <2>2. data \in TaskTable /\ data[o].status = "READY"
    <3>1. data \in TaskTable
      BY <1>0, FieldsWritten
    <3>2. data[o].status = "READY"
      BY <1>0 DEF TaskTable, TaskData
    <3> QED  BY <3>1, <3>2
  <2> HIDE DEF data
  <2>3. /\ sched' \in States /\ Orderly(sched') /\ Joined(sched')
        /\ Requeues(sched, sched', {o}, data)
    BY <1>0, <2>1, <2>2, RequeuedOneKeeps DEF data
  <2> QED  BY <1>0, <1>a, <2>2, <2>3 DEF Sound
<1>2. CASE Join(o)
  <2> DEFINE me == CurrentTask
             data == [sched.task EXCEPT ![me].status = "WAITING", ![me].reason = "JOIN",
                                        ![me].join = o]
             nx == Requeued(sched, {me}, data)
  <2>1. me \in Tasks /\ sched.task[o].status # "DORMANT"
    BY <1>0, <1>2 DEF Join
  <2>2. sched' = Park(nx)
    BY <1>2 DEF Join
  <2> HIDE DEF me
  <2>3. data \in TaskTable
    BY <1>0, <2>1, FieldsWritten
  <2>4. data[me].status = "WAITING" /\ data[me].reason = "JOIN" /\ data[me].join = o
    BY <1>0, <2>1 DEF TaskTable, TaskData
  <2> HIDE DEF data
  <2>5. nx \in States /\ Orderly(nx) /\ Joined(nx) /\ Requeues(sched, nx, {me}, data)
    BY <1>0, <2>1, <2>3, <2>4, RequeuedOneKeeps
  <2> HIDE DEF nx
  <2>6. Timely(nx)
    BY <1>0, <1>a, <2>1, <2>4, <2>5 DEF HasDeadline
  <2> QED  BY <2>2, <2>5, <2>6, ParkKeeps DEF Sound
<1>3. CASE Suspend(o)
  <2>1. SetStatus(sched, o, "SUSPENDED") \in States
        /\ Sound(SetStatus(sched, o, "SUSPENDED"))
    BY <1>0, SetStatusSound DEF Statuses
  <2>2. Sound(Park(SetStatus(sched, o, "SUSPENDED")))
    BY <2>1, ParkKeeps
  <2> QED  BY <1>3, <2>1, <2>2 DEF Suspend
<1>4. CASE Resume(o)
  <2> DEFINE data == [sched.task EXCEPT ![o].status = "READY", ![o].reason = "NONE",
                                        ![o].wakeup_tick = Never]
  <2>1. data \in TaskTable /\ data[o].status = "READY"
    <3>1. data \in TaskTable
      BY <1>0, FieldsWritten
    <3>2. data[o].status = "READY"
      BY <1>0 DEF TaskTable, TaskData
    <3> QED  BY <3>1, <3>2
  <2>2. sched' = Requeued(sched, {o}, data)
    BY <1>4 DEF Resume
  <2> HIDE DEF data
  <2>3. /\ sched' \in States /\ Orderly(sched') /\ Joined(sched')
        /\ Requeues(sched, sched', {o}, data)
    BY <1>0, <2>1, <2>2, RequeuedOneKeeps
  <2> QED  BY <1>0, <1>a, <2>1, <2>3 DEF Sound
<1>5. CASE Terminate(o)
  <2>1. sched' = StopTask(sched, o, OnCpu)
    BY <1>5 DEF Terminate
  <2> QED  BY <1>0, <2>1, StopTaskKeeps DEF Sound
<1>6. CASE Close(o)
  BY <1>6, CloseKeeps
<1>7. ASSUME NEW p \in Priorities, SetPriority(o, p)
      PROVE  Sound(sched')
  <2> DEFINE out == QDelete(sched, o)
             data == [out.task EXCEPT ![o].priority = p]
  <2>1. /\ out \in States /\ Consistent(out) /\ Keyed(out)
        /\ \A u \in Tasks \ {o} : out.task[u] = sched.task[u]
        /\ SameFields(out.task[o], sched.task[o]) /\ ~IsQueued(out, o)
        /\ SameFlags(sched, out)
    BY <1>0, QDeleteKeeps DEF Sound
  <2>2. sched' = Requeued(out, {o}, data) /\ IsQueued(sched, o)
    BY <1>7 DEF SetPriority, Known
  <2> HIDE DEF out
  <2>3. out.task \in TaskTable
    BY <2>1, StateFields
  <2>4. /\ data \in TaskTable
        /\ data[o].status = sched.task[o].status /\ data[o].reason = sched.task[o].reason
        /\ data[o].join = sched.task[o].join
        /\ data[o].wakeup_tick = sched.task[o].wakeup_tick
    <3>1. /\ data[o].status = out.task[o].status /\ data[o].reason = out.task[o].reason
          /\ data[o].join = out.task[o].join
          /\ data[o].wakeup_tick = out.task[o].wakeup_tick
      BY <2>3 DEF TaskTable, TaskData
    <3> QED  BY <1>0, <2>1, <2>3, <3>1, FieldsWritten DEF SameFields
  <2> HIDE DEF data
  <2>5. \A u \in Tasks : /\ out.task[u].status = sched.task[u].status
                         /\ out.task[u].reason = sched.task[u].reason
                         /\ out.task[u].join = sched.task[u].join
                         /\ out.task[u].wakeup_tick = sched.task[u].wakeup_tick
                         /\ IsQueued(out, u) => IsQueued(sched, u)
    BY <2>1 DEF SameFields, IsQueued
  <2>6. Joined(out)
    BY <1>0, <2>5 DEF Joined
  <2>7. Timely(out)
    BY <1>0, <2>1, <2>5 DEF Timely, HasDeadline, SameFlags
  <2>8. data[o].status = "DORMANT" =>
          \A u \in Tasks : ~(/\ out.task[u].status = "WAITING"
                             /\ out.task[u].reason = "JOIN" /\ out.task[u].join = o)
    <3> SUFFICES ASSUME sched.task[o].status = "DORMANT", NEW u \in Tasks,
                        sched.task[u].status = "WAITING", sched.task[u].reason = "JOIN",
                        sched.task[u].join = o
                 PROVE  FALSE
      BY <2>4, <2>5
    <3> QED  BY <1>0, <2>2 DEF Joined
  <2>9. data[o].status = "WAITING" /\ data[o].reason = "JOIN" =>
          /\ data[o].join \in Tasks
          /\ out.task[data[o].join].status # "DORMANT" \/ ~IsQueued(out, data[o].join)
    BY <1>0, <2>4, <2>5 DEF Joined
  <2>10. /\ sched' \in States /\ Orderly(sched') /\ Joined(sched')
         /\ Requeues(out, sched', {o}, data)
    BY <1>0, <2>1, <2>2, <2>4, <2>6, <2>8, <2>9, RequeuedOneKeeps
  <2>11. data[o].status = "WAITING" /\ HasDeadline(data[o])
           => out.wakeup_tick <= data[o].wakeup_tick
    BY <1>0, <2>1, <2>4 DEF Timely, HasDeadline, SameFlags
  <2>12. Timely(sched')
    BY <1>a, <2>1, <2>7, <2>10, <2>11
  <2> QED  BY <2>10, <2>12 DEF Sound
<1> QED  BY <1>1, <1>2, <1>3, <1>4, <1>5, <1>6, <1>7

---------------------------------------------------------------------------
(* Sound between any two steps *)

\* What every step keeps: types, places, keys, deadlines and joins.
SoundInv == SchedTypeOK /\ Sound(sched)

\* Nothing waits at the start.
LEMMA SchedInitSound == SchedInit => SoundInv
<1> SUFFICES ASSUME SchedInit, NEW from \in IndexFroms, sched = InitialState(from)
             PROVE  Sound(sched)
  BY SchedInitType DEF SchedInit, SoundInv
<1>1. Consistent(sched)
  BY SchedInitPlaced DEF PlacedInv
<1>2. /\ \A t \in Tasks : sched.task[t].place = NONE /\ sched.task[t].status = "DORMANT"
      /\ ~sched.indexed
  BY DEF InitialState, InitialTask
<1> QED  BY <1>1, <1>2 DEF Sound, Orderly, Keyed, Filed, Timely, Joined, NONE

\* Every step keeps it.
LEMMA SchedNextSound == SoundInv /\ [SchedNext]_svars => SoundInv'
<1> SUFFICES ASSUME SchedTypeOK, Sound(sched), [SchedNext]_svars
             PROVE  Sound(sched')
  BY SchedNextType DEF SoundInv
<1>1. CASE CallStep
  <2>1. CASE EnterNative \/ LeaveNative \/ EnterFiber \/ LeaveFiber
    BY <2>1 DEF EnterNative, LeaveNative, EnterFiber, LeaveFiber
  <2>2. CASE \/ Pass \/ SleepForever \/ TerminateSelf \/ Finish
             \/ \E n \in 0 .. MaxWait : Sleep(n)
    BY <2>2, OwnStepSound
  <2>3. CASE \/ RootPass \/ RunBegin \/ HostStep
             \/ \E n \in 0 .. MaxWait : SleepOutside(n) \/ HostAdvance(n)
             \/ \E n \in IndexFroms : HostIndexFrom(n)
    BY <2>3, DriverStepSound
  <2>4. ASSUME NEW t \in Tasks,
               \/ New(t) \/ Join(t) \/ Suspend(t) \/ Resume(t)
               \/ Terminate(t) \/ Close(t)
               \/ \E p \in Priorities : SetPriority(t, p)
        PROVE  Sound(sched')
    BY <2>4, TaskStepSound
  <2> QED  BY <1>1, <2>1, <2>2, <2>3, <2>4 DEF CallStep
<1>2. CASE MachineStep
  BY <1>2, MachineStepSound
<1>3. CASE UNCHANGED svars
  BY <1>3 DEF svars
<1> QED  BY <1>1, <1>2, <1>3 DEF SchedNext

\* The scheduler is sound between any two steps.
LEMMA SoundAlways == SchedSpec => []SoundInv
BY SchedInitSound, SchedNextSound, PTL DEF SchedSpec

\* IndexFindsWhatAWalkFinds: an index built or dropped in the middle of a
\* program, by the count of waiting tasks or by the host, never changes which
\* tasks a wake-up finds, nor whether a host is told that something can still
\* run (index_one, build_index, unindex_waiting, pending).
THEOREM IndexesAreExact == SchedSpec => []IndexFindsWhatAWalkFinds
<1>1. SoundInv => IndexFindsWhatAWalkFinds
  BY WalkFindsTheSame DEF SoundInv, Sound, SchedTypeOK, IndexFindsWhatAWalkFinds
<1> QED  BY <1>1, SoundAlways, PTL

\* NoDeadlineMissed: the scheduler's next look at the sleepers never comes after
\* a waiting task's deadline, whoever sets `wakeup_tick` (note_wakeup,
\* wake_sleepers) and however the task came to wait.
THEOREM DeadlinesAreNeverMissed == SchedSpec => []NoDeadlineMissed
<1>1. SoundInv => NoDeadlineMissed
  BY DEF SoundInv, Sound, Timely, NoDeadlineMissed
<1> QED  BY <1>1, SoundAlways, PTL

\* JoinsHaveAnEnd: no task joins one that is over, whether the target ended,
\* was terminated twice or changed its queue meanwhile; only Task#close leaves
\* joiners behind (stop_task, wake_join_waiters).
THEOREM JoinsAlwaysHaveAnEnd == SchedSpec => []JoinsHaveAnEnd
<1>1. SoundInv => JoinsHaveAnEnd
  BY DEF SoundInv, Sound, Joined, JoinsHaveAnEnd
<1> QED  BY <1>1, SoundAlways, PTL
===========================================================================
