-------------------------- MODULE TaskScheduler --------------------------
(***************************************************************************)
(* The cooperative task scheduler (src/builtins/ext_task.rs): what a       *)
(* program, a host and the scheduler itself do to the state of TaskState,  *)
(* and where on the host stack they do it.                                 *)
(*                                                                         *)
(* `stack` is the chain of contexts the VM would return through, the root  *)
(* first and the running one last (Vm::cur and Context::prev). An entry    *)
(* says what kind of context it is, which task's it is, whether a native   *)
(* frame of it is on the host stack (fiber_check_native), whether a        *)
(* Task.run of it is, and whether a nested run loop serves it (`vmexec`).  *)
(***************************************************************************)
EXTENDS TaskState, Sequences

CONSTANTS Calls,            \* what this program and this host call
          MaxDepth,         \* bound on the contexts on the stack
          ClockFromInstructions   \* the instruction tick moves the clock

ASSUME SchedulerAssumption ==
  /\ MaxDepth \in Nat \ {0}
  /\ ClockFromInstructions \in BOOLEAN

VARIABLES sched,    \* the scheduler state (TaskState.States)
          stack     \* the contexts on the host stack

svars == <<sched, stack>>

Contexts == [kind : {"root", "task", "fiber"}, task : Tasks \cup {NoObj},
             native : BOOLEAN, loop : BOOLEAN, vmexec : BOOLEAN]

Root == [kind |-> "root", task |-> NoObj,
         native |-> FALSE, loop |-> FALSE, vmexec |-> FALSE]

TaskContext(t) == [Root EXCEPT !.kind = "task", !.task = t, !.vmexec = TRUE]

FiberContext(nested) == [Root EXCEPT !.kind = "fiber", !.vmexec = nested]

StackOK(s) ==
  /\ s \in Seq(Contexts)
  /\ Len(s) \in 1 .. MaxDepth
  /\ \A i \in 1 .. Len(s) :
       /\ s[i].kind = "root" <=> i = 1
       /\ s[i].kind = "task" <=> s[i].task # NoObj

SchedTypeOK == sched \in States /\ StackOK(stack)

SchedInit ==
  /\ \E from \in IndexFroms : sched = InitialState(from)
  /\ stack = <<Root>>

---------------------------------------------------------------------------
(* Where the running code stands *)

Top == stack[Len(stack)]

Below == SubSeq(stack, 1, Len(stack) - 1)

\* The task whose context is the running one; nothing inside a fiber.
OnCpu == Top.task

\* current_task: the task the scheduler handed the CPU to, if it is in its own
\* context.
CurrentTask == IF OnCpu = sched.running THEN OnCpu ELSE NoObj

\* Anywhere a nested run loop serves; or anywhere no native is in the way.
Switchable_native_slip == Top.kind # "root" /\ Top.vmexec

\* A switch can be taken here: never in the root, never under a native frame,
\* and only from a context a nested run loop serves.
Switchable == Top.kind # "root" /\ ~Top.native /\ Top.vmexec

\* Ruby code (or, at the root, the host) is what goes on: no Task.run of this
\* context is in the way, and its frames are there.
Runs == ~Top.loop /\ (Top.kind = "task" => sched.task[OnCpu].ctx = "live")

\* It gets to its next instruction: no switch is taken first.
Executes == Runs /\ ~(sched.switching /\ Switchable)

Does(call) == call \in Calls /\ Executes

Made(t) == sched.task[t].ctx # "none"

\* live: a task Task#close took out answers nothing.
Known(t) == Made(t) /\ IsQueued(sched, t)

---------------------------------------------------------------------------
(* Slices *)

\* execute_task up to the nested run loop.
Entered(st, t) ==
  [st EXCEPT !.task[t].timeslice = TIMESLICE, !.task[t].status = "RUNNING",
             !.task[t].ctx = "live", !.running = t, !.switching = FALSE]

\* A preempted task keeps its turn.
Left_turn_slip(st, t, cur) ==
  LET back == [st EXCEPT !.running = NoObj, !.switching = FALSE]
  IN IF st.task[t].ctx = "dead" THEN StopTask(back, t, cur)
     ELSE IF st.task[t].status = "RUNNING" THEN [back EXCEPT !.task[t].status = "READY"]
     ELSE back

\* execute_task after it: a task that is over stops, one that only gave the
\* CPU back goes to the back of its priority.
Left(st, t, cur) ==
  LET back == [st EXCEPT !.running = NoObj, !.switching = FALSE]
  IN IF st.task[t].ctx = "dead" THEN StopTask(back, t, cur)
     ELSE IF st.task[t].status = "RUNNING" THEN SetStatus(back, t, "READY")
     ELSE back

\* scheduler_step with a task ready: the head of the ready queue gets the CPU,
\* unless it is the task the caller stands in.
RunsHead ==
  \E t \in Tasks :
    /\ IsFirst(sched, "ready", t)
    /\ t # OnCpu
    /\ Len(stack) < MaxDepth
    /\ sched' = Entered(sched, t)
    /\ stack' = Append(stack, TaskContext(t))

\* A slice that is over shrinks on.
Ticked_slip(st) ==
  LET r == st.running
      sliced == IF r # NoObj /\ st.task[r].status = "RUNNING"
                THEN [st EXCEPT !.task[r].timeslice = @ - 1,
                                !.switching = @ \/ st.task[r].timeslice = 1]
                ELSE st
  IN IF ClockFromInstructions THEN AdvanceTicks(sliced, 1) ELSE sliced

\* The instruction tick: the slice shrinks, and the clock moves unless the
\* host moves it.
Ticked(st) ==
  LET r == st.running
      counts == /\ r # NoObj
                /\ st.task[r].status = "RUNNING"
                /\ st.task[r].timeslice > 0
      sliced == IF counts
                THEN [st EXCEPT !.task[r].timeslice = @ - 1,
                                !.switching = @ \/ st.task[r].timeslice = 1]
                ELSE st
  IN IF ClockFromInstructions THEN AdvanceTicks(sliced, 1) ELSE sliced

\* exec_frames takes the switch: a task goes back to its scheduler; a fiber
\* served by a nested run loop goes back to whoever resumed it, as if it had
\* yielded nil.
SwitchedOut(st) ==
  /\ stack' = Below
  /\ sched' = IF Top.kind = "task"
              THEN Left(st, Top.task, stack[Len(stack) - 1].task)
              ELSE [st EXCEPT !.switching = FALSE]

\* An instruction boundary a tick falls on: the tick first, then the switch,
\* whether the tick asked for it or something before.
Tick ==
  LET st == Ticked(sched)
  IN /\ Runs
     /\ sched.running # NoObj
     /\ IF st.switching /\ Switchable THEN SwitchedOut(st)
        ELSE sched' = st /\ UNCHANGED stack

\* Any other boundary, with a switch due.
Switch ==
  /\ Runs
  /\ sched.switching
  /\ Switchable
  /\ SwitchedOut(sched)

---------------------------------------------------------------------------
(* Native frames and fibers: what a switch must respect *)

\* A native calls a block or a method back.
EnterNative ==
  /\ Does("native")
  /\ Top.kind # "root"
  /\ ~Top.native
  /\ stack' = [stack EXCEPT ![Len(stack)].native = TRUE]
  /\ UNCHANGED sched

LeaveNative ==
  /\ Executes
  /\ Top.native
  /\ stack' = [stack EXCEPT ![Len(stack)].native = FALSE]
  /\ UNCHANGED sched

\* Fiber#resume: in the running loop, or in a nested one where a native calls it.
EnterFiber ==
  \E nested \in BOOLEAN :
    /\ Does(IF nested THEN "nested fiber" ELSE "fiber")
    /\ Len(stack) < MaxDepth
    /\ stack' = Append(stack, FiberContext(nested))
    /\ UNCHANGED sched

\* Fiber.yield, or the end of the fiber's block.
LeaveFiber ==
  /\ Executes
  /\ Top.kind = "fiber"
  /\ ~Top.native
  /\ stack' = Below
  /\ UNCHANGED sched

---------------------------------------------------------------------------
(* The methods of Task, and Kernel#sleep *)

Park(st) == [st EXCEPT !.switching = TRUE]

\* Task.new and task_spawn: ready at once.
New(t) ==
  /\ Does("new")
  /\ ~Made(t)
  /\ \E p \in Priorities :
       sched' = Requeued(sched, {t},
                  [sched.task EXCEPT ![t].ctx = "created", ![t].priority = p,
                                     ![t].status = "READY"])
  /\ UNCHANGED stack

\* Task.pass in a task.
Pass ==
  /\ Does("pass")
  /\ CurrentTask # NoObj
  /\ ~Top.native
  /\ sched' = Park(SetStatus(sched, CurrentTask, "READY"))
  /\ UNCHANGED stack

\* From a fiber too.
RootPass_slip ==
  /\ Does("pass")
  /\ CurrentTask = NoObj
  /\ ~sched.loop_running
  /\ RunsHead

\* Task.pass at the root: one turn of the scheduler.
RootPass ==
  /\ Does("pass")
  /\ Top.kind = "root"
  /\ ~sched.loop_running
  /\ RunsHead

\* sleep(n): a task waits for its deadline.
Sleep(n) ==
  LET me == CurrentTask
      asleep == Requeued(sched, {me},
                  [sched.task EXCEPT ![me].status = "WAITING",
                                     ![me].reason = "SLEEP",
                                     ![me].wakeup_tick = n])
  IN /\ Does(IF n = 0 THEN "sleep 0" ELSE "sleep")
     /\ me # NoObj
     /\ ~Top.native
     /\ sched' = Park(NoteWakeup(asleep, n))
     /\ UNCHANGED stack

\* sleep(n) outside a task (the root, or a fiber): the clock moves on.
SleepOutside(n) ==
  /\ Does("sleep")
  /\ CurrentTask = NoObj
  /\ sched' = AdvanceTicks(sched, n)
  /\ UNCHANGED stack

\* sleep with no argument: until someone resumes the task.
SleepForever ==
  /\ Does("sleep forever")
  /\ CurrentTask # NoObj
  /\ ~Top.native
  /\ sched' = Park(SetStatus(sched, CurrentTask, "SUSPENDED"))
  /\ UNCHANGED stack

\* Task#join of a task that is not over. It asks for no native boundary.
Join(o) ==
  LET me == CurrentTask
  IN /\ Does("join")
     /\ Known(o)
     /\ me \notin {NoObj, o}
     /\ sched.task[o].status # "DORMANT"
     /\ sched' = Park(Requeued(sched, {me},
                   [sched.task EXCEPT ![me].status = "WAITING",
                                      ![me].reason = "JOIN",
                                      ![me].join = o]))
     /\ UNCHANGED stack

Suspend(o) ==
  LET suspended == SetStatus(sched, o, "SUSPENDED")
  IN /\ Does("suspend")
     /\ Known(o)
     /\ sched.task[o].status # "DORMANT"
     /\ sched' = IF o = CurrentTask THEN Park(suspended) ELSE suspended
     /\ UNCHANGED stack

Resume(o) ==
  /\ Does("resume")
  /\ Known(o)
  /\ \/ sched.task[o].status = "SUSPENDED"
     \/ sched.task[o].status = "WAITING" /\ sched.task[o].reason = "SLEEP"
  /\ sched' = Requeued(sched, {o},
                [sched.task EXCEPT ![o].status = "READY", ![o].reason = "NONE",
                                   ![o].wakeup_tick = Never])
  /\ UNCHANGED stack

\* Task#terminate of another task.
Terminate(o) ==
  /\ Does("terminate")
  /\ Known(o)
  /\ sched.task[o].status # "DORMANT"
  /\ o # CurrentTask
  /\ sched' = StopTask(sched, o, OnCpu)
  /\ UNCHANGED stack

\* Task#terminate of the running task: its context is left at once, and what
\* execute_task does afterwards stops it again. The code has no guard against
\* a native frame in the way; what it does there is not modelled.
TerminateSelf ==
  LET me == CurrentTask
      stopped == [StopTask(sched, me, me) EXCEPT !.task[me].ctx = "dead"]
  IN /\ Does("terminate")
     /\ me # NoObj
     /\ ~Top.native
     /\ sched.task[me].status # "DORMANT"
     /\ stack' = Below
     /\ sched' = Left(stopped, me, stack[Len(stack) - 1].task)

\* The running task too.
Close_slip(o) ==
  /\ Does("close")
  /\ Made(o)
  /\ sched' = [QDelete(sched, o) EXCEPT !.task[o].status = "DORMANT",
                                         !.task[o].ctx = "dead"]
  /\ UNCHANGED stack

Close(o) ==
  /\ Does("close")
  /\ Made(o)
  /\ o # CurrentTask
  /\ sched' = [QDelete(sched, o) EXCEPT
                 !.task[o].status = "DORMANT",
                 !.task[o].ctx = IF o = OnCpu THEN @ ELSE "dead"]
  /\ UNCHANGED stack

\* The task stays where it is.
SetPriority_slip(o, p) ==
  /\ Does("priority")
  /\ Known(o)
  /\ sched' = [sched EXCEPT !.task[o].priority = p]
  /\ UNCHANGED stack

\* Task#priority=: the task is put back behind its equals, whatever its queue.
SetPriority(o, p) ==
  LET out == QDelete(sched, o)
  IN /\ Does("priority")
     /\ Known(o)
     /\ sched' = Requeued(out, {o}, [out.task EXCEPT ![o].priority = p])
     /\ UNCHANGED stack

\* The block of the running task returns, or raises what nothing rescues.
Finish ==
  LET me == Top.task
  IN /\ Executes
     /\ Top.kind = "task"
     /\ ~Top.native
     /\ stack' = Below
     /\ sched' = Left([sched EXCEPT !.task[me].ctx = "dead"], me,
                      stack[Len(stack) - 1].task)

---------------------------------------------------------------------------
(* Who drives the scheduler: Task.run, or a host a step at a time *)

NothingReady == sched.queues["ready"] = {}

\* idle: the clock jumps to the next wakeup.
Idle(st) == AdvanceTicks(st, st.wakeup_tick)

RunBegin ==
  /\ Does("run")
  /\ ~sched.loop_running
  /\ CurrentTask = NoObj
  /\ Len(stack) < MaxDepth
  /\ sched' = [sched EXCEPT !.loop_running = TRUE]
  /\ stack' = [stack EXCEPT ![Len(stack)].loop = TRUE]

RunTurn == Top.loop /\ RunsHead

RunIdle ==
  /\ Top.loop
  /\ NothingReady
  /\ sched.queues["waiting"] \cup sched.queues["suspended"] # {}
  /\ sched.wakeup_tick # Never
  /\ sched' = Idle(sched)
  /\ UNCHANGED stack

RunEnd ==
  /\ Top.loop
  /\ NothingReady
  /\ \/ sched.queues["waiting"] \cup sched.queues["suspended"] = {}
     \/ sched.wakeup_tick = Never
  /\ sched' = [sched EXCEPT !.loop_running = FALSE]
  /\ stack' = [stack EXCEPT ![Len(stack)].loop = FALSE]

\* task_step: one turn, for a host that keeps its own loop. A host that owns
\* the clock moves it itself.
HostStep ==
  /\ Does("step")
  /\ Top.kind = "root"
  /\ \/ RunsHead
     \/ /\ NothingReady
        /\ ClockFromInstructions
        /\ sched.queues["waiting"] # {}
        /\ sched.wakeup_tick # Never
        /\ sched' = Idle(sched)
        /\ UNCHANGED stack

\* task_advance_ticks.
HostAdvance(n) ==
  /\ Does("advance")
  /\ Top.kind = "root"
  /\ sched' = AdvanceTicks(sched, n)
  /\ UNCHANGED stack

\* task_set_index_from.
HostIndexFrom(n) ==
  /\ Does("index")
  /\ Top.kind = "root"
  /\ sched' = SetIndexFrom(sched, n)
  /\ UNCHANGED stack

---------------------------------------------------------------------------
(* The specification *)

\* What a program or a host does of its own accord.
CallStep ==
  \/ EnterNative \/ LeaveNative \/ EnterFiber \/ LeaveFiber
  \/ Pass \/ RootPass \/ SleepForever \/ TerminateSelf \/ Finish
  \/ RunBegin \/ HostStep
  \/ \E n \in 0 .. MaxWait : Sleep(n) \/ SleepOutside(n) \/ HostAdvance(n)
  \/ \E n \in IndexFroms : HostIndexFrom(n)
  \/ \E t \in Tasks :
       \/ New(t) \/ Join(t) \/ Suspend(t) \/ Resume(t)
       \/ Terminate(t) \/ Close(t)
       \/ \E p \in Priorities : SetPriority(t, p)

\* What the interpreter and the scheduler do between two calls.
MachineStep == Tick \/ Switch \/ RunTurn \/ RunIdle \/ RunEnd

SchedNext == CallStep \/ MachineStep

SchedSpec == SchedInit /\ [][SchedNext]_svars

---------------------------------------------------------------------------
(* Properties *)

\* No task is in two queues, none is lost, no stale key is left behind: every
\* queue and index holds exactly the entries the tasks remember (TaskPlace,
\* requeue, q_delete).
Placed == WellPlaced(sched)

\* A queued task is in the queue its status names, under its own priority, and
\* the ready queue never yields a task that has nothing to run (requeue).
StatusNamesQueue ==
  \A t \in Tasks :
    LET d == sched.task[t]
    IN IsQueued(sched, t) =>
         /\ d.place.q = QOf(d.status)
         /\ d.place.pri = IF d.place.q = "ready" THEN d.priority ELSE 0
         /\ d.place.q = "dormant" <=> d.ctx = "dead"

\* Whichever way a wake-up looks, by walking the waiting queue or through the
\* indexes, it finds the same tasks, and a host is told the same of what is
\* left to run (index_one, build_index, unindex_waiting, pending).
IndexFindsWhatAWalkFinds ==
  LET walk == [sched EXCEPT !.indexed = FALSE]
  IN /\ Due(sched) = Due(walk)
     /\ \A target \in Targets : WaitingFor(sched, target) = WaitingFor(walk, target)
     /\ Pending(sched) = Pending(walk)
     /\ ~sched.indexed => sched.sleepers = {} /\ sched.waiters = {}

\* No deadline is slept through: the scheduler's next look at the sleepers is
\* at or before the earliest deadline of a waiting task (wakeup_tick).
NoDeadlineMissed ==
  \A t \in Tasks :
    sched.task[t].status = "WAITING" /\ HasDeadline(sched.task[t])
      => sched.wakeup_tick <= sched.task[t].wakeup_tick

\* The other way round: a wakeup the scheduler tells a host of is the deadline of
\* some task that still waits (next_wakeup_ticks).
NextWakeupIsADeadline ==
  sched.wakeup_tick # Never
    => \E t \in InQueue(sched, "waiting") :
         HasDeadline(sched.task[t]) /\ sched.task[t].wakeup_tick = sched.wakeup_tick

\* A task gets the CPU where it left off, never a second time above itself on
\* the host stack (task_run, scheduler_step).
NoReentry ==
  \A i, j \in DOMAIN stack :
    stack[i].task = stack[j].task /\ stack[i].task # NoObj => i = j

\* Nothing throws away frames the VM will return into (stop_task, Task#close).
StackIsAlive ==
  \A i \in DOMAIN stack :
    stack[i].task # NoObj => sched.task[stack[i].task].ctx = "live"

\* A task that joins waits for something that can still end: its target is not
\* over unless Task#close dropped it (wake_join_waiters).
JoinsHaveAnEnd ==
  \A t \in Tasks :
    sched.task[t].status = "WAITING" /\ sched.task[t].reason = "JOIN"
      => \/ sched.task[sched.task[t].join].status # "DORMANT"
         \/ ~IsQueued(sched, sched.task[t].join)

\* A task that waits runs nothing more: the switch is taken at the very next
\* boundary (park).
WaitingTasksDoNotRun ==
  \A t \in Tasks :
    OnCpu = t /\ sched.task[t].status = "WAITING" => ~Executes

\* A fiber is left by its own yield or end, never by a timeslice: leaving one
\* changes nothing of the scheduler (exec_frames, fiber_check_native).
FibersAreNotCutShort ==
  [][Top.kind = "fiber" /\ Len(stack') < Len(stack) => sched' = sched]_svars

\* A switch never abandons a native that waits for its block: as long as one is
\* on the host stack, whatever the context above it, its context stays
\* (fiber_check_native, scheduler_step).
NativesAreNotAbandoned ==
  [][\A i \in DOMAIN stack : stack[i].native => i \in DOMAIN stack'
       /\ stack'[i].task = stack[i].task]_svars

\* The ticks a step lets pass.
TimePasses(n) ==
  \/ n = 1 /\ Tick
  \/ n = sched.wakeup_tick /\ (RunIdle \/ HostStep)
  \/ HostAdvance(n) \/ SleepOutside(n)

\* Nobody wakes early: a sleeping task becomes ready because its deadline came
\* or because it was resumed (wake_sleepers, idle).
NobodyWakesEarly ==
  [][\A t \in Tasks :
       /\ sched.task[t].status = "WAITING" /\ sched.task[t].reason = "SLEEP"
       /\ sched'.task[t].status = "READY"
       => \/ Resume(t)
          \/ \E n \in sched.task[t].wakeup_tick .. Never : TimePasses(n)]_svars

\* A wake-up makes tasks ready in the order they began to wait, whatever their
\* deadlines were (wake_sleepers, wake_join_waiters).
WokenInOrder ==
  [][\A t, u \in Tasks :
       /\ sched.task[t].status = "WAITING" /\ sched'.task[t].status = "READY"
       /\ sched.task[u].status = "WAITING" /\ sched'.task[u].status = "READY"
       => (<<t, u>> \in sched.arrived <=> <<t, u>> \in sched'.arrived)]_svars

---------------------------------------------------------------------------
(* Liveness under Task.run *)

\* The interpreter has something to do between two calls: a tick to count, a
\* switch to take, a turn of Task.run. It is ENABLED <<MachineStep>>_svars,
\* spelled out because TLC evaluates this form a hundred times faster.
MachineMoves ==
  \/ Runs /\ sched.switching /\ Switchable
  \/ Runs /\ sched.running # NoObj /\ Ticked(sched) # sched
  \/ /\ Top.loop
     /\ \/ NothingReady
        \/ /\ Len(stack) < MaxDepth
           /\ \E t \in Tasks \ {OnCpu} : IsFirst(sched, "ready", t)

\* The interpreter runs on and the scheduler loop turns, by weak fairness of
\* MachineStep, and a native or a fiber that was entered is left again; nothing
\* else is assumed of a program.
SchedFairness ==
  /\ []<>~MachineMoves \/ []<><<MachineStep>>_svars
  /\ WF_svars(LeaveNative \/ LeaveFiber)

FairSchedSpec == SchedSpec /\ SchedFairness

\* Round robin: among tasks of one priority a ready task gets the CPU (or
\* stops being ready), however long the others compute (tick, execute_task).
ReadyTasksRun ==
  \A t \in Tasks :
    (sched.loop_running /\ sched.task[t].status = "READY")
      ~> sched.task[t].status # "READY"

\* Every sleep ends (tick, idle, wake_sleepers).
SleepersWake ==
  \A t \in Tasks :
    (sched.loop_running /\ sched.task[t].status = "WAITING"
       /\ sched.task[t].reason = "SLEEP")
      ~> ~(sched.task[t].status = "WAITING" /\ sched.task[t].reason = "SLEEP")
===========================================================================
