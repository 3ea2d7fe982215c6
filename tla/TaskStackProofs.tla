------------------------ MODULE TaskStackProofs ------------------------
(***************************************************************************)
(* Theorems about the contexts on the host stack of TaskScheduler: what a  *)
(* step may do to them, and what it does to the tasks meanwhile.           *)
(***************************************************************************)
EXTENDS TaskSchedulerProofs

---------------------------------------------------------------------------
(* A step enters one context, leaves one, or marks one *)

\* `s` is `stack` but for what its running context is marked with.
Marks(s) ==
  \E c \in Contexts :
    /\ s = [stack EXCEPT ![Len(stack)] = c]
    /\ c.kind = Top.kind /\ c.task = Top.task /\ c.vmexec = Top.vmexec

\* `s` has one context more.
Enters(s) ==
  \E c \in Contexts :
    /\ s = Append(stack, c)
    /\ c.kind # "root" /\ (c.kind = "task" => c.vmexec)

\* `s` has one context less, and it is not the root nor under a native frame.
Leaves(s) == s = Below /\ Top.kind # "root" /\ ~Top.native

\* No step does more to the stack than one of these.
LEMMA StackSteps ==
  ASSUME SchedTypeOK, SchedNext
  PROVE  stack' = stack \/ Marks(stack') \/ Enters(stack') \/ Leaves(stack')
<1>a. RunsHead => Enters(stack')
  <2>1. \A t \in Tasks : TaskContext(t).vmexec
    BY DEF TaskContext, Root
  <2> QED  BY <2>1, NewContexts DEF RunsHead, Enters
<1>b. ASSUME NEW st, Switchable, SwitchedOut(st)
      PROVE  Leaves(stack')
  BY <1>b DEF Switchable, SwitchedOut, Leaves
<1>c. ASSUME NEW b \in BOOLEAN
      PROVE  /\ stack' = [stack EXCEPT ![Len(stack)].native = b] => Marks(stack')
             /\ stack' = [stack EXCEPT ![Len(stack)].loop = b] => Marks(stack')
  <2>1. ASSUME NEW c \in Contexts, c = [Top EXCEPT !.native = b] \/ c = [Top EXCEPT !.loop = b],
               stack' = [stack EXCEPT ![Len(stack)] = c]
        PROVE  Marks(stack')
    <3>1. c.kind = Top.kind /\ c.task = Top.task /\ c.vmexec = Top.vmexec
      BY <2>1, TopType DEF Contexts
    <3> QED  BY <2>1, <3>1 DEF Marks
  <2>2. [Top EXCEPT !.native = b] \in Contexts /\ [Top EXCEPT !.loop = b] \in Contexts
    BY TopType DEF Contexts
  <2>3. /\ [stack EXCEPT ![Len(stack)].native = b]
             = [stack EXCEPT ![Len(stack)] = [Top EXCEPT !.native = b]]
        /\ [stack EXCEPT ![Len(stack)].loop = b]
             = [stack EXCEPT ![Len(stack)] = [Top EXCEPT !.loop = b]]
    BY DEF Top
  <2> QED  BY <2>1, <2>2, <2>3
<1>1. CASE MachineStep
  <2>1. CASE Tick
    BY <2>1, <1>b DEF Tick
  <2>2. CASE Switch
    BY <2>2, <1>b DEF Switch
  <2>3. CASE RunTurn
    BY <2>3, <1>a DEF RunTurn
  <2>4. CASE RunIdle
    BY <2>4 DEF RunIdle
  <2>5. CASE RunEnd
    BY <2>5, <1>c DEF RunEnd
  <2> QED  BY <1>1, <2>1, <2>2, <2>3, <2>4, <2>5 DEF MachineStep
<1>2. CASE EnterNative \/ LeaveNative
  BY <1>2, <1>c DEF EnterNative, LeaveNative
<1>3. CASE EnterFiber
  BY <1>3, NewContexts DEF EnterFiber, Enters
<1>4. CASE LeaveFiber
  BY <1>4 DEF LeaveFiber, Leaves
<1>5. CASE TerminateSelf
  <2>1. Top.kind = "task"
    BY <1>5, TopType DEF TerminateSelf, CurrentTask, OnCpu
  <2> QED  BY <1>5, <2>1 DEF TerminateSelf, Leaves
<1>6. CASE Finish
  BY <1>6 DEF Finish, Leaves
<1>7. CASE RootPass \/ HostStep
  BY <1>7, <1>a DEF RootPass, HostStep
<1>8. CASE RunBegin
  BY <1>8, <1>c DEF RunBegin
<1>9. CASE \/ Pass \/ SleepForever
           \/ \E n \in 0 .. MaxWait : Sleep(n) \/ SleepOutside(n) \/ HostAdvance(n)
           \/ \E n \in IndexFroms : HostIndexFrom(n)
           \/ \E t \in Tasks :
                \/ New(t) \/ Join(t) \/ Suspend(t) \/ Resume(t)
                \/ Terminate(t) \/ Close(t)
                \/ \E p \in Priorities : SetPriority(t, p)
  BY <1>9 DEF Pass, SleepForever, Sleep, SleepOutside, HostAdvance, HostIndexFrom,
              New, Join, Suspend, Resume, Terminate, Close, SetPriority
<1> QED  BY <1>1, <1>2, <1>3, <1>4, <1>5, <1>6, <1>7, <1>8, <1>9
         DEF SchedNext, CallStep

\* Which contexts are there after it, and whose they are.
LEMMA StackStepsAt ==
  ASSUME SchedTypeOK, NEW s
  PROVE  /\ Marks(s) => /\ Len(s) = Len(stack) /\ DOMAIN s = DOMAIN stack
                        /\ \A i \in DOMAIN stack : /\ s[i].kind = stack[i].kind
                                                   /\ s[i].task = stack[i].task
                                                   /\ s[i].vmexec = stack[i].vmexec
         /\ Enters(s) => /\ Len(s) = Len(stack) + 1
                         /\ DOMAIN stack \subseteq DOMAIN s
                         /\ DOMAIN s = DOMAIN stack \cup {Len(s)}
                         /\ \A i \in DOMAIN stack : s[i] = stack[i]
                         /\ s[Len(s)].kind = "task" => s[Len(s)].vmexec
         /\ Leaves(s) => /\ Len(s) = Len(stack) - 1
                         /\ DOMAIN s = DOMAIN stack \ {Len(stack)}
                         /\ \A i \in DOMAIN s : s[i] = stack[i]
<1>1. /\ stack \in Seq(Contexts) /\ Len(stack) \in Nat /\ Len(stack) >= 1
      /\ DOMAIN stack = 1 .. Len(stack)
      /\ \A i \in DOMAIN stack : stack[i] \in Contexts
  BY TopType, ElementOfSeq DEF SchedTypeOK, StackOK
<1>2. ASSUME Marks(s)
      PROVE  /\ Len(s) = Len(stack) /\ DOMAIN s = DOMAIN stack
             /\ \A i \in DOMAIN stack : /\ s[i].kind = stack[i].kind
                                        /\ s[i].task = stack[i].task
                                        /\ s[i].vmexec = stack[i].vmexec
  <2>1. PICK c \in Contexts :
          /\ s = [stack EXCEPT ![Len(stack)] = c]
          /\ c.kind = Top.kind /\ c.task = Top.task /\ c.vmexec = Top.vmexec
    BY <1>2 DEF Marks
  <2>2. /\ Len(s) = Len(stack) /\ s \in Seq(Contexts)
        /\ \A i \in 1 .. Len(stack) : s[i] = IF i = Len(stack) THEN c ELSE stack[i]
    BY <1>1, <2>1, ExceptSeq
  <2> QED  BY <1>1, <2>1, <2>2 DEF Top
<1>3. ASSUME Enters(s)
      PROVE  /\ Len(s) = Len(stack) + 1
             /\ DOMAIN stack \subseteq DOMAIN s
             /\ DOMAIN s = DOMAIN stack \cup {Len(s)}
             /\ \A i \in DOMAIN stack : s[i] = stack[i]
             /\ s[Len(s)].kind = "task" => s[Len(s)].vmexec
  <2>1. PICK c \in Contexts : s = Append(stack, c) /\ (c.kind = "task" => c.vmexec)
    BY <1>3 DEF Enters
  <2>2. /\ Len(s) = Len(stack) + 1 /\ DOMAIN s = 1 .. Len(stack) + 1
        /\ \A i \in 1 .. Len(stack) : s[i] = stack[i]
        /\ s[Len(stack) + 1] = c
    BY <1>1, <2>1, AppendProperties
  <2>3. 1 .. Len(stack) + 1 = (1 .. Len(stack)) \cup {Len(stack) + 1}
    BY <1>1
  <2> QED  BY <1>1, <2>1, <2>2, <2>3
<1>4. ASSUME Leaves(s)
      PROVE  /\ Len(s) = Len(stack) - 1
             /\ DOMAIN s = DOMAIN stack \ {Len(stack)}
             /\ \A i \in DOMAIN s : s[i] = stack[i]
  <2>1. s = SubSeq(stack, 1, Len(stack) - 1)
    BY <1>4 DEF Leaves, Below
  <2>2. /\ Len(s) = Len(stack) - 1 /\ DOMAIN s = 1 .. Len(stack) - 1
        /\ \A i \in 1 .. Len(stack) - 1 : s[i] = stack[i]
    BY <1>1, <2>1, SubSeqProperties
  <2>3. 1 .. Len(stack) - 1 = (1 .. Len(stack)) \ {Len(stack)}
    BY <1>1
  <2> QED  BY <1>1, <2>2, <2>3
<1> QED  BY <1>2, <1>3, <1>4

\* NativesAreNotAbandoned: whatever a program or a host calls, no switch, no
\* end of a task and no end of a fiber leaves a context while a native of it
\* waits for its block (fiber_check_native, exec_frames).
THEOREM NativesStay == SchedSpec => NativesAreNotAbandoned
<1> DEFINE Kept(i) == i \in DOMAIN stack' /\ stack'[i].task = stack[i].task
           Stay == \A i \in DOMAIN stack : stack[i].native => Kept(i)
<1>1. ASSUME SchedTypeOK, SchedNext
      PROVE  Stay
  <2>1. CASE stack' = stack
    BY <2>1
  <2>2. CASE Marks(stack') \/ Enters(stack')
    BY <1>1, <2>2, StackStepsAt
  <2>3. CASE Leaves(stack')
    BY <1>1, <2>3, StackStepsAt DEF Leaves, Top
  <2> QED  BY <1>1, <2>1, <2>2, <2>3, StackSteps
<1>2. SchedTypeOK /\ [SchedNext]_svars => [Stay]_svars
  BY <1>1
<1> QED  BY <1>2, SchedTypeCorrect, PTL DEF SchedSpec, NativesAreNotAbandoned

---------------------------------------------------------------------------
(* A step wakes some tasks together, and turns one more at most *)

\* From `st` to `nx` the tasks of W are woken, in the order they had, and only
\* `o` besides them is turned; a task that is not made is left alone.
Turns(st, nx, W, o) ==
  /\ W \subseteq Tasks \ {o}
  /\ \A t \in W : /\ st.task[t].status = "WAITING" /\ nx.task[t].status = "READY"
                  /\ nx.task[t].ctx = st.task[t].ctx
  /\ \A t \in Tasks \ (W \cup {o}) : /\ nx.task[t].status = st.task[t].status
                                     /\ nx.task[t].reason = st.task[t].reason
                                     /\ nx.task[t].ctx = st.task[t].ctx
  /\ \A t \in Tasks \ {o} : IsQueued(nx, t) <=> IsQueued(st, t)
  /\ \A t, u \in W : <<t, u>> \in nx.arrived <=> <<t, u>> \in st.arrived
  /\ o \in Tasks /\ nx.task[o].ctx = "none" =>
       st.task[o].ctx = "none" /\ nx.task[o].status = st.task[o].status

\* Only the tasks and their order matter.
LEMMA TurnsOnTasks ==
  ASSUME NEW st, NEW nx, NEW W, NEW o, Turns(st, nx, W, o),
         NEW su, su.task = st.task, su.arrived = st.arrived,
         NEW ny, \A t \in Tasks : SameFields(ny.task[t], nx.task[t]),
         \A t \in Tasks : IsQueued(ny, t) <=> IsQueued(nx, t),
         ny.arrived = nx.arrived
  PROVE  Turns(su, ny, W, o)
<1>1. \A t \in Tasks : IsQueued(su, t) <=> IsQueued(st, t)
  BY DEF IsQueued
<1> QED  BY <1>1 DEF Turns, SameFields

\* Time wakes those whose deadline has come.
LEMMA PassesTurns ==
  ASSUME NEW st, NEW nx, NEW n, NEW D \in SUBSET Tasks, Passes(st, nx, n, D)
  PROVE  Turns(st, nx, D, NoObj)
<1>1. D \subseteq Tasks \ {NoObj} /\ NoObj \notin Tasks
  BY ConstantsAssumption
<1>2. nx.arrived = MovedBack(st.arrived, {t \in Tasks : IsQueued(st, t)}, D)
  BY DEF Passes
<1>3. \A t, u \in D : <<t, u>> \in nx.arrived <=> <<t, u>> \in st.arrived
  BY <1>2, MovedBackOrder
<1> QED  BY <1>1, <1>3 DEF Passes, Turns

\* The end of `t` wakes its joiners and nobody else.
EndOf(st, nx, W, t) ==
  /\ Turns(st, nx, W, t)
  /\ \A u \in W : st.task[u].reason = "JOIN" /\ st.task[u].join = t

\* A task that ends is dormant and nobody joins it any more.
LEMMA StopsTurns ==
  ASSUME NEW st, NEW nx, NEW t \in Tasks, NEW cur, Stops(st, nx, t, cur),
         st.task[t].ctx # "none"
  PROVE  /\ nx.task[t].status = "DORMANT"
         /\ \E W \in SUBSET Tasks : EndOf(st, nx, W, t)
         /\ \A u \in Tasks \ {t} :
              nx.task[u].status = "WAITING" /\ nx.task[u].reason = "JOIN"
                => nx.task[u].join # t
<1> DEFINE J == {u \in Tasks \ {t} : /\ st.task[u].status = "WAITING"
                                     /\ st.task[u].reason = "JOIN"
                                     /\ st.task[u].join = t}
<1>1. /\ nx.task[t].status = "DORMANT"
      /\ nx.task[t].ctx = IF t = cur THEN st.task[t].ctx ELSE "dead"
      /\ \A u \in J : /\ nx.task[u].status = "READY" /\ nx.task[u].reason = "NONE"
                      /\ nx.task[u].ctx = st.task[u].ctx
      /\ \A u \in Tasks \ (J \cup {t}) : SameFields(nx.task[u], st.task[u])
      /\ \A u, v \in Tasks \ {t} : (u \in J <=> v \in J) =>
           (<<u, v>> \in nx.arrived <=> <<u, v>> \in st.arrived)
      /\ \A u \in Tasks : IsQueued(nx, u) <=> IsQueued(st, u)
  BY DEF Stops
<1>2. \A u \in J : u \in Tasks \ {t} /\ st.task[u].status = "WAITING"
                   /\ st.task[u].reason = "JOIN" /\ st.task[u].join = t
  OBVIOUS
<1>3. ASSUME NEW u \in Tasks \ {t}, nx.task[u].status = "WAITING",
             nx.task[u].reason = "JOIN"
      PROVE  nx.task[u].join # t
  <2>1. u \notin J
    BY <1>1, <1>3
  <2>2. SameFields(nx.task[u], st.task[u])
    BY <1>1, <2>1
  <2> QED  BY <1>3, <2>1, <2>2 DEF SameFields
<1> HIDE DEF J
<1>4. Turns(st, nx, J, t)
  BY <1>1, <1>2 DEF Turns, SameFields
<1>5. J \in SUBSET Tasks
  BY <1>2
<1>6. EndOf(st, nx, J, t)
  BY <1>2, <1>4 DEF EndOf
<1> QED  BY <1>1, <1>3, <1>5, <1>6

\* A change of status wakes nobody else.
LEMMA SetsTurns ==
  ASSUME NEW st, NEW nx, NEW t \in Tasks, NEW status, Sets(st, nx, t, status),
         st.task[t].ctx # "none"
  PROVE  Turns(st, nx, {}, t)
BY DEF Sets, Turns, SameFields

\* Nor does a task put behind a queue.
LEMMA RequeuesTurns ==
  ASSUME NEW st, NEW nx, NEW t \in Tasks, NEW data, Requeues(st, nx, {t}, data),
         data[t].ctx # "none"
  PROVE  /\ Turns(st, nx, {}, t)
         /\ nx.task[t].status = data[t].status /\ nx.task[t].reason = data[t].reason
         /\ nx.task[t].ctx = data[t].ctx
         /\ <<t, t>> \in nx.arrived <=> <<t, t>> \in st.arrived
<1>1. nx.arrived = MovedBack(st.arrived, {u \in Tasks : IsQueued(st, u)}, {t})
  BY DEF Requeues
<1>2. <<t, t>> \in nx.arrived <=> <<t, t>> \in st.arrived
  BY <1>1, MovedBackOrder
<1>3. \A u \in Tasks \ {t} : IsQueued(nx, u) <=> IsQueued(st, u)
  BY DEF Requeues, IsQueued
<1> QED  BY <1>2, <1>3 DEF Requeues, Turns, SameFields

\* Task `o` is woken by the step.
Woken(o) == sched.task[o].status = "WAITING" /\ sched'.task[o].status = "READY"

\* `o` is over exactly if its context is, or as much as it was before, or it is
\* the one that Task#terminate finds on the CPU of another task.
Settles(o) ==
  \/ ~IsQueued(sched', o)
  \/ sched'.task[o].status = "DORMANT" <=> sched'.task[o].ctx = "dead"
  \/ /\ sched'.task[o].ctx = sched.task[o].ctx /\ IsQueued(sched, o)
     /\ sched'.task[o].status # "DORMANT" \/ sched.task[o].status = "DORMANT"
     /\ sched.task[o].status # "DORMANT" \/ sched'.task[o].status = "DORMANT"
  \/ Terminate(o) /\ o = OnCpu

\* The context of the running task is not thrown away under it.
Spares(o) ==
  \/ sched'.task[o].ctx \in {sched.task[o].ctx, "live"}
  \/ sched.task[o].ctx = "none"
  \/ o # CurrentTask
  \/ Leaves(stack')

\* Why the step wakes W and what it makes of `o` and of the running task: who
\* sleeps is woken by time or by Task#resume, and who begins to sleep calls it.
Accounts(W, o) ==
  /\ \A t \in W : sched.task[t].reason = "SLEEP" =>
       \E n \in sched.task[t].wakeup_tick .. Never : TimePasses(n)
  /\ o \in Tasks /\ Woken(o) =>
       /\ W = {}
       /\ <<o, o>> \in sched'.arrived <=> <<o, o>> \in sched.arrived
       /\ sched.task[o].reason = "SLEEP" => Resume(o)
  /\ o \in Tasks /\ sched'.task[o].status = "WAITING" /\ sched'.task[o].reason = "SLEEP" =>
       \/ \E n \in 0 .. MaxWait : Sleep(n)
       \/ sched.task[o].status = "WAITING" /\ sched.task[o].reason = "SLEEP"
  /\ \/ sched'.running \in {sched.running, NoObj}
     \/ /\ sched'.task[sched'.running].status = "RUNNING"
        /\ sched'.task[sched'.running].ctx = "live"
  /\ o \in Tasks => Settles(o) /\ Spares(o)

Accounted ==
  \E W \in SUBSET Tasks, o \in Tasks \cup {NoObj} :
    Turns(sched, sched', W, o) /\ Accounts(W, o)

\* A task that is not made has never run.
Unmade == \A t \in Tasks : sched.task[t].ctx = "none" => sched.task[t].status = "DORMANT"

\* A task that sleeps leaves the CPU before anything else happens.
Parked ==
  LET r == sched.running
  IN /\ r # NoObj
     /\ sched.task[r].status = "WAITING" /\ sched.task[r].reason = "SLEEP"
     => OnCpu = r /\ sched.switching /\ Switchable /\ ~Top.loop

\* The nested run loop of the scheduler serves every task.
Served == \A i \in DOMAIN stack : stack[i].kind = "task" => stack[i].vmexec

\* Nothing is turned.
LEMMA NothingTurns ==
  ASSUME \A t \in Tasks : SameFields(sched'.task[t], sched.task[t]),
         \A t \in Tasks : IsQueued(sched', t) <=> IsQueued(sched, t),
         sched'.arrived = sched.arrived, sched'.running \in {sched.running, NoObj}
  PROVE  Accounted
<1>1. Turns(sched, sched', {}, NoObj)
  BY ConstantsAssumption DEF Turns, SameFields
<1>2. Accounts({}, NoObj)
  BY ConstantsAssumption DEF Accounts
<1>3. {} \in SUBSET Tasks /\ NoObj \in Tasks \cup {NoObj}
  OBVIOUS
<1> QED  BY <1>1, <1>2, <1>3 DEF Accounted

\* Who executes is made.
LEMMA WhoRunsIsMade ==
  ASSUME SchedTypeOK, Runs
  PROVE  /\ Top.kind = "task" => Top.task \in Tasks /\ sched.task[Top.task].ctx = "live"
         /\ CurrentTask # NoObj => /\ CurrentTask \in Tasks
                                   /\ Top.kind = "task" /\ Top.task = CurrentTask
                                   /\ sched.running = CurrentTask
                                   /\ sched.task[CurrentTask].ctx = "live"
BY TopType DEF Runs, OnCpu, CurrentTask

\* The scheduler takes a task in.
LEMMA RunsHeadTurns ==
  ASSUME SchedTypeOK, Sound(sched), RunsHead
  PROVE  Accounted
<1>1. PICK t \in Tasks : IsFirst(sched, "ready", t) /\ sched' = Entered(sched, t)
  BY DEF RunsHead
<1>2. sched \in States /\ sched.task[t].place.q = "ready"
  BY <1>1, HeadIsReady DEF Sound, Orderly, Consistent, SchedTypeOK
<1>3. /\ sched'.task[t].status = "RUNNING" /\ sched'.task[t].ctx = "live"
      /\ \A u \in Tasks \ {t} : sched'.task[u] = sched.task[u]
      /\ \A u \in Tasks : IsQueued(sched', u) <=> IsQueued(sched, u)
      /\ sched'.arrived = sched.arrived /\ sched'.running = t
  BY <1>1, <1>2, EnteredKeeps
<1>4. Turns(sched, sched', {}, t)
  BY <1>3 DEF Turns
<1>5. Accounts({}, t)
  BY <1>3 DEF Accounts, Woken, Settles, Spares
<1>6. {} \in SUBSET Tasks /\ t \in Tasks \cup {NoObj}
  OBVIOUS
<1> QED  BY <1>4, <1>5, <1>6 DEF Accounted

\* Time passes.
LEMMA TimeTurns ==
  ASSUME NEW n \in 0 .. Never, NEW D \in SUBSET Tasks, sched \in States,
         Passes(sched, sched', n, D), TimePasses(n)
  PROVE  Accounted
<1>1. Turns(sched, sched', D, NoObj)
  BY PassesTurns
<1>2. ASSUME NEW t \in D
      PROVE  \E k \in sched.task[t].wakeup_tick .. Never : TimePasses(k)
  <2>1. sched.task[t].wakeup_tick <= n /\ sched.task[t].wakeup_tick \in Ticks
    BY StateFields, TaskFields DEF Passes, TaskTable
  <2>2. n \in sched.task[t].wakeup_tick .. Never
    BY <2>1, ConstantsAssumption DEF Ticks, Never
  <2> QED  BY <2>2
<1>3. sched'.running = sched.running
  BY DEF Passes
<1>4. Accounts(D, NoObj)
  BY <1>2, <1>3, ConstantsAssumption DEF Accounts
<1> QED  BY <1>1, <1>4 DEF Accounted

\* A tick, and the switch it may take.
LEMMA TickTurns ==
  ASSUME SchedTypeOK, Sound(sched), Tick
  PROVE  Accounted
<1> DEFINE st == Ticked(sched)
<1>0. sched \in States /\ 1 \in 0 .. Never
  BY ConstantsAssumption DEF SchedTypeOK, Never
<1>1. /\ st \in States /\ Sound(st)
      /\ \E n \in 0 .. 1 : \E D \in SUBSET Tasks : Passes(sched, st, n, D)
  BY <1>0, TickedKeeps
<1>2. PICK n \in 0 .. 1 : \E D \in SUBSET Tasks : Passes(sched, st, n, D)
  BY <1>1
<1>3. PICK D \in SUBSET Tasks : Passes(sched, st, n, D)
  BY <1>2
<1>4. /\ Runs
      /\ \/ st.switching /\ Switchable /\ SwitchedOut(st)
         \/ sched' = st
  BY DEF Tick
<1> HIDE DEF st
<1>5. TimePasses(1)
  BY DEF TimePasses
<1>6. ASSUME NEW t \in D
      PROVE  /\ t \in Tasks /\ sched.task[t].status = "WAITING" /\ st.task[t].status = "READY"
             /\ \E k \in sched.task[t].wakeup_tick .. Never : TimePasses(k)
  <2>1. /\ sched.task[t].wakeup_tick <= n /\ sched.task[t].wakeup_tick \in Ticks
        /\ t \in Tasks /\ sched.task[t].status = "WAITING" /\ st.task[t].status = "READY"
    BY <1>0, <1>3, StateFields, TaskFields DEF Passes, TaskTable
  <2>2. 1 \in sched.task[t].wakeup_tick .. Never
    BY <2>1, ConstantsAssumption DEF Ticks, Never
  <2> QED  BY <1>5, <2>1, <2>2
<1>7. Turns(sched, st, D, NoObj) /\ st.running = sched.running
  BY <1>3, PassesTurns DEF Passes
<1>8. ASSUME NEW nx, sched' = nx, nx.arrived = st.arrived,
             \A t \in Tasks : SameFields(nx.task[t], st.task[t]),
             \A t \in Tasks : IsQueued(nx, t) <=> IsQueued(st, t),
             nx.running \in {sched.running, NoObj}
      PROVE  Accounted
  <2>1. Turns(sched, sched', D, NoObj)
    BY <1>7, <1>8, TurnsOnTasks
  <2>2. Accounts(D, NoObj)
    BY <1>6, <1>8, ConstantsAssumption DEF Accounts
  <2> QED  BY <2>1, <2>2 DEF Accounted
<1>9. CASE sched' = st
  BY <1>7, <1>8, <1>9 DEF SameFields, IsQueued
<1>10. CASE Switchable /\ SwitchedOut(st)
  <2>1. CASE Top.kind # "task"
    <3>1. sched' = [st EXCEPT !.switching = FALSE]
      BY <1>10, <2>1 DEF SwitchedOut
    <3>2. /\ sched'.arrived = st.arrived /\ sched'.task = st.task
          /\ sched'.running = sched.running
      BY <1>1, <1>7, <3>1 DEF States
    <3> QED  BY <1>8, <3>2 DEF SameFields, IsQueued
  <2>2. CASE Top.kind = "task"
    <3> DEFINE t == Top.task
    <3>1. t \in Tasks /\ sched.task[t].ctx = "live"
      BY <1>4, <2>2, WhoRunsIsMade
    <3>2. st.task[t].ctx = "live"
      BY <1>3, <3>1 DEF Passes
    <3>3. PICK cur : sched' = Left(st, t, cur)
      BY <1>10, <2>2 DEF SwitchedOut
    <3>4. /\ sched'.running = NoObj
          /\ \E back \in States :
               /\ back.task = st.task /\ SameTasks(st, back)
               /\ \/ st.task[t].ctx = "dead" /\ Stops(back, sched', t, cur)
                  \/ /\ st.task[t].ctx # "dead" /\ st.task[t].status = "RUNNING"
                     /\ Sets(back, sched', t, "READY")
                  \/ /\ st.task[t].ctx # "dead" /\ st.task[t].status # "RUNNING"
                     /\ sched' = back
      BY <1>1, <3>1, <3>3, LeftKeeps
    <3> HIDE DEF t
    <3>5. PICK back \in States :
            /\ back.task = st.task /\ SameTasks(st, back)
            /\ \/ st.task[t].status = "RUNNING" /\ Sets(back, sched', t, "READY")
               \/ sched' = back
      BY <3>2, <3>4
    <3>6. CASE sched' = back
      <4>1. sched'.arrived = st.arrived /\ sched'.running \in {sched.running, NoObj}
        BY <3>4, <3>5, <3>6 DEF SameTasks
      <4>2. /\ \A u \in Tasks : SameFields(sched'.task[u], st.task[u])
            /\ \A u \in Tasks : IsQueued(sched', u) <=> IsQueued(st, u)
        BY <3>5, <3>6 DEF SameFields, IsQueued
      <4> QED  BY <1>8, <4>1, <4>2
    <3>7. CASE st.task[t].status = "RUNNING" /\ Sets(back, sched', t, "READY")
      <4>1. t \notin D
        BY <1>6, <3>7
      <4>2. sched.task[t].status = "RUNNING"
        BY <1>3, <3>1, <3>7, <4>1 DEF Passes
      <4>3. /\ sched'.task[t].status = "READY" /\ sched'.task[t].ctx = st.task[t].ctx
            /\ \A u \in Tasks \ {t} : SameFields(sched'.task[u], st.task[u])
            /\ \A u \in Tasks \ {t} : IsQueued(sched', u) <=> IsQueued(st, u)
            /\ sched'.arrived = MovedBack(st.arrived, {u \in Tasks : IsQueued(back, u)}, {t})
        BY <3>5, <3>7 DEF Sets, SameTasks
      <4>4. \A u, v \in D : <<u, v>> \in sched'.arrived <=> <<u, v>> \in sched.arrived
        <5>1. \A u, v \in D : <<u, v>> \in sched'.arrived <=> <<u, v>> \in st.arrived
          BY <4>1, <4>3, MovedBackOrder
        <5> QED  BY <1>7, <5>1 DEF Turns
      <4>5. Turns(sched, sched', D, t)
        <5>1. \A u \in D : /\ u \in Tasks \ {t} /\ sched.task[u].status = "WAITING"
                          /\ st.task[u].status = "READY"
                          /\ st.task[u].ctx = sched.task[u].ctx
          BY <1>7, <4>1 DEF Turns
        <5>2. \A u \in Tasks \ D : /\ st.task[u].status = sched.task[u].status
                                   /\ st.task[u].reason = sched.task[u].reason
                                   /\ st.task[u].ctx = sched.task[u].ctx
          BY <1>7, ConstantsAssumption DEF Turns
        <5>3. \A u \in Tasks \ {t} : /\ sched'.task[u].status = st.task[u].status
                                     /\ sched'.task[u].reason = st.task[u].reason
                                     /\ sched'.task[u].ctx = st.task[u].ctx
          BY <4>3 DEF SameFields
        <5>4. sched'.task[t].ctx # "none"
          BY <3>2, <4>3
        <5>5. \A u \in Tasks \ {t} : IsQueued(sched', u) <=> IsQueued(sched, u)
          BY <1>3, <4>3 DEF Passes
        <5> QED  BY <4>4, <5>1, <5>2, <5>3, <5>4, <5>5 DEF Turns
      <4>6. Accounts(D, t)
        <5>1. sched'.task[t].ctx = "live"
          BY <3>2, <4>3
        <5>2. Settles(t) /\ Spares(t)
          BY <4>3, <5>1 DEF Settles, Spares
        <5> QED  BY <1>6, <3>4, <4>2, <4>3, <5>2 DEF Accounts, Woken
      <4> QED  BY <3>1, <4>5, <4>6 DEF Accounted
    <3> QED  BY <3>5, <3>6, <3>7
  <2> QED  BY <2>1, <2>2
<1> QED  BY <1>4, <1>9, <1>10

\* One task is put behind a queue, and who waits there knows why.
LEMMA OneTurns ==
  ASSUME NEW t \in Tasks, NEW nx,
         Turns(sched, nx, {}, t),
         \A u \in Tasks : SameFields(sched'.task[u], nx.task[u]),
         \A u \in Tasks : IsQueued(sched', u) <=> IsQueued(nx, u),
         sched'.arrived = nx.arrived, sched'.running \in {sched.running, NoObj},
         Settles(t), Spares(t),
         Woken(t) =>
           /\ <<t, t>> \in nx.arrived <=> <<t, t>> \in sched.arrived
           /\ sched.task[t].reason = "SLEEP" => Resume(t),
         nx.task[t].status = "WAITING" /\ nx.task[t].reason = "SLEEP" =>
           \/ \E n \in 0 .. MaxWait : Sleep(n)
           \/ sched.task[t].status = "WAITING" /\ sched.task[t].reason = "SLEEP"
  PROVE  Accounted
<1>1. Turns(sched, sched', {}, t)
  BY TurnsOnTasks
<1>2. Accounts({}, t)
  BY DEF Accounts, SameFields
<1>3. {} \in SUBSET Tasks /\ t \in Tasks \cup {NoObj}
  OBVIOUS
<1> QED  BY <1>1, <1>2, <1>3 DEF Accounted

\* A task is given a status, and perhaps the switch.
LEMMA StatusTurns ==
  ASSUME SchedTypeOK, Sound(sched), NEW t \in Tasks, sched.task[t].ctx # "none",
         sched.task[t].ctx = "live" \/ (IsQueued(sched, t) /\ sched.task[t].status # "DORMANT"),
         NEW status \in {"READY", "SUSPENDED"},
         \/ sched' = SetStatus(sched, t, status)
         \/ sched' = Park(SetStatus(sched, t, status)),
         status = "READY" /\ sched.task[t].status = "WAITING"
           => sched.task[t].reason # "SLEEP"
  PROVE  Accounted
<1> DEFINE nx == SetStatus(sched, t, status)
<1>0. sched \in States
  BY DEF SchedTypeOK
<1>1. nx \in States /\ Sound(nx) /\ Sets(sched, nx, t, status)
  BY <1>0, SetStatusSound DEF Statuses
<1>2. /\ Park(nx).task = nx.task /\ SameTasks(nx, Park(nx))
      /\ Park(nx).running = nx.running
  BY <1>1, ParkKeeps
<1>3. sched' = nx \/ sched' = Park(nx)
  OBVIOUS
<1> HIDE DEF nx
<1>4. /\ \A u \in Tasks : SameFields(sched'.task[u], nx.task[u])
      /\ \A u \in Tasks : IsQueued(sched', u) <=> IsQueued(nx, u)
      /\ sched'.arrived = nx.arrived /\ sched'.running = nx.running
  BY <1>2, <1>3 DEF SameFields, SameTasks
<1>5. /\ Turns(sched, nx, {}, t) /\ nx.task[t].status = status
      /\ nx.task[t].ctx = sched.task[t].ctx
      /\ nx.running = sched.running
      /\ nx.arrived = MovedBack(sched.arrived, {u \in Tasks : IsQueued(sched, u)}, {t})
  BY <1>1, SetsTurns DEF Sets, SameFlags
<1>6. <<t, t>> \in nx.arrived <=> <<t, t>> \in sched.arrived
  BY <1>5, MovedBackOrder
<1>7. sched'.task[t].status = status /\ sched'.task[t].ctx = sched.task[t].ctx
  BY <1>4, <1>5 DEF SameFields
<1>8. Woken(t) => sched.task[t].reason # "SLEEP"
  BY <1>7 DEF Woken
<1>9. Settles(t) /\ Spares(t)
  BY <1>7 DEF Settles, Spares
<1> QED  BY <1>4, <1>5, <1>6, <1>8, <1>9, OneTurns

\* A task is put behind a queue, and perhaps the switch asked for.
LEMMA RequeueTurns ==
  ASSUME NEW st \in States, NEW t \in Tasks, NEW data, NEW nx \in States,
         Requeues(st, nx, {t}, data), data[t].ctx # "none",
         st.task = sched.task, st.arrived = sched.arrived, st.running = sched.running,
         \A u \in Tasks : SameFields(sched'.task[u], nx.task[u]),
         \A u \in Tasks : IsQueued(sched', u) <=> IsQueued(nx, u),
         sched'.arrived = nx.arrived, sched'.running = nx.running,
         data[t].ctx \in {sched.task[t].ctx, "live"} \/ sched.task[t].ctx = "none",
         data[t].status # "DORMANT",
         \/ data[t].ctx # "dead"
         \/ /\ data[t].ctx = sched.task[t].ctx /\ IsQueued(sched, t)
            /\ sched.task[t].status # "DORMANT",
         sched.task[t].status = "WAITING" /\ data[t].status = "READY"
           /\ sched.task[t].reason = "SLEEP" => Resume(t),
         data[t].status = "WAITING" /\ data[t].reason = "SLEEP" =>
           \/ \E n \in 0 .. MaxWait : Sleep(n)
           \/ sched.task[t].status = "WAITING" /\ sched.task[t].reason = "SLEEP"
  PROVE  Accounted
<1>1. /\ Turns(st, nx, {}, t)
      /\ nx.task[t].status = data[t].status /\ nx.task[t].reason = data[t].reason
      /\ nx.task[t].ctx = data[t].ctx
      /\ <<t, t>> \in nx.arrived <=> <<t, t>> \in st.arrived
  BY RequeuesTurns
<1>2. nx.running = sched.running
  BY DEF Requeues, SameFlags
<1>3. Turns(sched, nx, {}, t)
  BY <1>1 DEF Turns, IsQueued
<1>4. sched'.task[t].status = data[t].status /\ sched'.task[t].ctx = data[t].ctx
  BY <1>1 DEF SameFields
<1>5. Woken(t) => sched.task[t].status = "WAITING" /\ data[t].status = "READY"
  BY <1>4 DEF Woken
<1>6. Settles(t) /\ Spares(t)
  BY <1>4 DEF Settles, Spares
<1> QED  BY <1>1, <1>2, <1>3, <1>5, <1>6, OneTurns

\* A task is over.
LEMMA StopTurns ==
  ASSUME NEW t \in Tasks, NEW cur, NEW st, NEW nx, Stops(st, nx, t, cur),
         st.arrived = sched.arrived,
         \A u \in Tasks \ {t} : SameFields(st.task[u], sched.task[u]),
         st.task[t].ctx # "none",
         sched'.task[t].status = "DORMANT", sched'.task[t].ctx # "none",
         sched'.task[t].ctx = "dead" \/ (Terminate(t) /\ t = OnCpu),
         t = CurrentTask => Leaves(stack'),
         \A u \in Tasks \ {t} : IsQueued(st, u) <=> IsQueued(sched, u),
         \A u \in Tasks \ {t} : IsQueued(sched', u) <=> IsQueued(nx, u),
         \A u \in Tasks \ {t} : SameFields(sched'.task[u], nx.task[u]),
         \A u, v \in Tasks \ {t} :
           <<u, v>> \in sched'.arrived <=> <<u, v>> \in nx.arrived,
         sched'.running \in {sched.running, NoObj}
  PROVE  Accounted
<1>1. PICK W \in SUBSET Tasks : EndOf(st, nx, W, t)
  BY StopsTurns
<1>2. /\ W \subseteq Tasks \ {t}
      /\ \A u \in W : /\ st.task[u].status = "WAITING" /\ nx.task[u].status = "READY"
                      /\ nx.task[u].ctx = st.task[u].ctx
      /\ \A u \in Tasks \ (W \cup {t}) : /\ nx.task[u].status = st.task[u].status
                                         /\ nx.task[u].reason = st.task[u].reason
                                         /\ nx.task[u].ctx = st.task[u].ctx
      /\ \A u, v \in W : <<u, v>> \in nx.arrived <=> <<u, v>> \in st.arrived
      /\ \A u \in Tasks \ {t} : IsQueued(nx, u) <=> IsQueued(st, u)
  BY <1>1 DEF EndOf, Turns
<1>3. Turns(sched, sched', W, t)
  BY <1>2 DEF Turns, SameFields
<1>4. \A u \in W : sched.task[u].reason = "JOIN"
  BY <1>1, <1>2 DEF EndOf, SameFields
<1>5. Settles(t) /\ Spares(t)
  BY DEF Settles, Spares
<1>6. Accounts(W, t)
  BY <1>4, <1>5 DEF Accounts, Woken
<1> QED  BY <1>3, <1>6 DEF Accounted

\* The running task parks itself.
LEMMA ParkingTurns ==
  ASSUME SchedTypeOK, Sound(sched), Parked,
         Pass \/ SleepForever \/ \E n \in 0 .. MaxWait : Sleep(n)
  PROVE  Accounted
<1> DEFINE me == CurrentTask
<1>1. Executes /\ me # NoObj
  BY DEF Pass, SleepForever, Sleep, Does
<1>2. /\ me \in Tasks /\ sched.running = me /\ sched.task[me].ctx = "live"
      /\ Top.task = me
  BY <1>1, WhoRunsIsMade DEF Executes
<1>3. sched.task[me].status = "WAITING" => sched.task[me].reason # "SLEEP"
  BY <1>1, <1>2, ConstantsAssumption DEF Parked, Executes
<1>4. CASE Pass
  BY <1>2, <1>3, <1>4, StatusTurns DEF Pass
<1>5. CASE SleepForever
  BY <1>2, <1>5, StatusTurns DEF SleepForever
<1>6. ASSUME NEW n \in 0 .. MaxWait, Sleep(n)
      PROVE  Accounted
  <2> DEFINE data == [sched.task EXCEPT ![me].status = "WAITING", ![me].reason = "SLEEP",
                                        ![me].wakeup_tick = n]
             asleep == Requeued(sched, {me}, data)
             noted == NoteWakeup(asleep, n)
  <2>1. n \in Ticks
    BY ConstantsAssumption DEF Ticks, Never
  <2>2. sched' = Park(noted)
    BY <1>6 DEF Sleep
  <2> HIDE DEF me
  <2>3. sched \in States /\ sched.task \in TaskTable
    BY StateFields DEF SchedTypeOK
  <2>4. data \in TaskTable /\ data[me].status = "WAITING" /\ data[me].reason = "SLEEP"
        /\ data[me].ctx = sched.task[me].ctx
    <3>1. data \in TaskTable
      BY <1>2, <2>1, <2>3, FieldsWritten, ConstantsAssumption
    <3>2. data[me].status = "WAITING" /\ data[me].reason = "SLEEP"
          /\ data[me].ctx = sched.task[me].ctx
      BY <1>2, <2>3 DEF TaskTable, TaskData
    <3> QED  BY <3>1, <3>2
  <2> HIDE DEF data
  <2>5. asleep \in States /\ Requeues(sched, asleep, {me}, data)
    BY <1>2, <2>3, <2>4, RequeuedOrderly DEF Sound, Orderly
  <2> HIDE DEF asleep
  <2>6. noted \in States /\ noted.task = asleep.task /\ noted.arrived = asleep.arrived
        /\ noted.running = asleep.running
    BY <2>1, <2>5, NoteWakeupKeeps
  <2> HIDE DEF noted
  <2>7. sched'.task = noted.task /\ sched'.arrived = noted.arrived
        /\ sched'.running = noted.running
    BY <2>2, <2>6 DEF Park, States
  <2>8. /\ \A u \in Tasks : SameFields(sched'.task[u], asleep.task[u])
        /\ \A u \in Tasks : IsQueued(sched', u) <=> IsQueued(asleep, u)
        /\ data[me].ctx = "live"
    BY <1>2, <2>4, <2>6, <2>7 DEF SameFields, IsQueued
  <2>9. \E k \in 0 .. MaxWait : Sleep(k)
    BY <1>6
  <2>10. sched'.arrived = asleep.arrived /\ sched'.running = asleep.running
    BY <2>6, <2>7
  <2>11. data[me].status \notin {"READY", "DORMANT"}
    BY <2>4
  <2> QED  BY <1>2, <2>3, <2>5, <2>8, <2>9, <2>10, <2>11, RequeueTurns
<1> QED  BY <1>4, <1>5, <1>6

\* The running task, or one a switch has left, is over.
LEMMA EndTurns ==
  ASSUME SchedTypeOK, Sound(sched), Finish \/ TerminateSelf
  PROVE  Accounted
<1>0. sched \in States /\ Runs
  BY DEF SchedTypeOK, Finish, TerminateSelf, Executes, Does
<1>1. CASE Finish
  <2> DEFINE t == Top.task
             dead == [sched EXCEPT !.task[t].ctx = "dead"]
  <2>1. t \in Tasks
    BY <1>0, <1>1, WhoRunsIsMade DEF Finish
  <2>2. PICK cur : sched' = Left(dead, t, cur)
    BY <1>1 DEF Finish
  <2> HIDE DEF t
  <2>3. /\ dead \in States /\ Sound(dead) /\ dead.task[t].ctx = "dead"
        /\ \A u \in Tasks \ {t} : dead.task[u] = sched.task[u]
        /\ dead.arrived = sched.arrived
    BY <1>0, <2>1, DeadKeeps
  <2> HIDE DEF dead
  <2>4. PICK back \in States : /\ back.task = dead.task /\ SameTasks(dead, back)
                               /\ Stops(back, sched', t, cur)
                               /\ sched'.running = NoObj
    BY <2>1, <2>2, <2>3, LeftKeeps
  <2>5. /\ back.arrived = sched.arrived
        /\ \A u \in Tasks \ {t} : /\ SameFields(back.task[u], sched.task[u])
                                  /\ IsQueued(back, u) <=> IsQueued(sched, u)
        /\ back.task[t].ctx = "dead"
    BY <2>1, <2>3, <2>4 DEF SameTasks, SameFields, IsQueued
  <2>6. sched'.task[t].status = "DORMANT" /\ sched'.task[t].ctx = "dead"
    BY <2>4, <2>5 DEF Stops
  <2>8. Leaves(stack')
    BY <1>1 DEF Finish, Leaves
  <2>7. \A u \in Tasks : SameFields(sched'.task[u], sched'.task[u])
    BY DEF SameFields
  <2> QED  BY <2>1, <2>4, <2>5, <2>6, <2>7, <2>8, StopTurns
<1>2. CASE TerminateSelf
  <2> DEFINE t == CurrentTask
             stopped == StopTask(sched, t, t)
             dead == [stopped EXCEPT !.task[t].ctx = "dead"]
  <2>1. t \in Tasks /\ sched.task[t].ctx = "live"
    BY <1>0, <1>2, WhoRunsIsMade DEF TerminateSelf
  <2>2. PICK cur : sched' = Left(dead, t, cur)
    BY <1>2 DEF TerminateSelf
  <2> HIDE DEF t
  <2>3. stopped \in States /\ Sound(stopped) /\ Stops(sched, stopped, t, t)
    BY <1>0, <2>1, StopTaskKeeps DEF Sound
  <2> HIDE DEF stopped
  <2>4. /\ dead \in States /\ Sound(dead) /\ dead.task[t].ctx = "dead"
        /\ \A u \in Tasks \ {t} : dead.task[u] = stopped.task[u]
        /\ dead.arrived = stopped.arrived
    BY <2>1, <2>3, DeadKeeps
  <2> HIDE DEF dead
  <2>5. PICK back \in States : /\ back.task = dead.task /\ SameTasks(dead, back)
                               /\ Stops(back, sched', t, cur)
                               /\ sched'.running = NoObj
    BY <2>1, <2>2, <2>4, LeftKeeps
  <2>6. /\ back.arrived = stopped.arrived
        /\ \A u \in Tasks \ {t} : back.task[u] = stopped.task[u]
        /\ back.task[t].ctx = "dead"
    BY <2>1, <2>4, <2>5 DEF SameTasks
  <2>7. ASSUME NEW u \in Tasks \ {t}
        PROVE  ~(/\ back.task[u].status = "WAITING" /\ back.task[u].reason = "JOIN"
                 /\ back.task[u].join = t)
    <3>1. stopped.task[u].status = "WAITING" /\ stopped.task[u].reason = "JOIN"
            => stopped.task[u].join # t
      BY <2>1, <2>3, StopsTurns
    <3> QED  BY <2>6, <3>1
  <2>8. /\ sched'.task[t].status = "DORMANT" /\ sched'.task[t].ctx = "dead"
        /\ \A u \in Tasks \ {t} : SameFields(sched'.task[u], stopped.task[u])
        /\ \A u \in Tasks \ {t} : IsQueued(sched', u) <=> IsQueued(stopped, u)
        /\ \A u, v \in Tasks \ {t} :
             <<u, v>> \in sched'.arrived <=> <<u, v>> \in stopped.arrived
    <3> DEFINE J == {u \in Tasks \ {t} : /\ back.task[u].status = "WAITING"
                                         /\ back.task[u].reason = "JOIN"
                                         /\ back.task[u].join = t}
    <3>1. J = {}
      BY <2>7
    <3>2. /\ sched'.task[t].status = "DORMANT"
          /\ sched'.task[t].ctx = IF t = cur THEN back.task[t].ctx ELSE "dead"
          /\ \A u \in Tasks \ (J \cup {t}) : SameFields(sched'.task[u], back.task[u])
          /\ \A u, v \in Tasks \ {t} : (u \in J <=> v \in J) =>
               (<<u, v>> \in sched'.arrived <=> <<u, v>> \in back.arrived)
          /\ \A u \in Tasks : IsQueued(sched', u) <=> IsQueued(back, u)
      BY <2>5 DEF Stops
    <3> HIDE DEF J
    <3>3. \A u \in Tasks \ {t} : IsQueued(back, u) <=> IsQueued(stopped, u)
      BY <2>6 DEF IsQueued
    <3> QED  BY <2>6, <3>1, <3>2, <3>3
  <2>9. \A u \in Tasks \ {t} : SameFields(sched.task[u], sched.task[u])
    BY DEF SameFields
  <2>10. sched.task[t].ctx # "none" /\ sched.arrived = sched.arrived
    BY <2>1
  <2>11. Leaves(stack')
    <3>1. Top.kind = "task"
      BY <1>0, <1>2, WhoRunsIsMade DEF TerminateSelf
    <3> QED  BY <1>2, <3>1 DEF TerminateSelf, Leaves
  <2> QED  BY <2>1, <2>3, <2>5, <2>8, <2>9, <2>10, <2>11, StopTurns
<1> QED  BY <1>1, <1>2

\* What is done to a named task.
LEMMA TaskStepTurns ==
  ASSUME SchedTypeOK, Sound(sched), Unmade, NEW o \in Tasks,
         \/ New(o) \/ Join(o) \/ Suspend(o) \/ Resume(o)
         \/ Terminate(o) \/ Close(o)
         \/ \E p \in Priorities : SetPriority(o, p)
  PROVE  Accounted
<1>0. /\ sched \in States /\ sched.task \in TaskTable
      /\ Consistent(sched) /\ Keyed(sched) /\ Priorities # {} /\ 0 \in Ticks
      /\ \A u \in Tasks : Filed(sched.task[u])
  BY StateFields, TicksAreNat, ConstantsAssumption
     DEF SchedTypeOK, Sound, Orderly
<1>a. ASSUME NEW t \in Tasks, NEW data \in TaskTable, data[t].ctx # "none",
             data[t].ctx \in {sched.task[t].ctx, "live"} \/ sched.task[t].ctx = "none",
             data[t].status # "DORMANT",
             \/ data[t].ctx # "dead"
             \/ /\ data[t].ctx = sched.task[t].ctx /\ IsQueued(sched, t)
                /\ sched.task[t].status # "DORMANT",
             \/ sched' = Requeued(sched, {t}, data)
             \/ sched' = Park(Requeued(sched, {t}, data)),
             sched.task[t].status = "WAITING" /\ data[t].status = "READY"
               /\ sched.task[t].reason = "SLEEP" => Resume(t),
             data[t].status = "WAITING" => data[t].reason # "SLEEP"
      PROVE  Accounted
  <2> DEFINE nx == Requeued(sched, {t}, data)
  <2>1. nx \in States /\ Requeues(sched, nx, {t}, data)
    BY <1>0, <1>a, RequeuedOrderly
  <2>2. sched' = nx \/ sched' = Park(nx)
    BY <1>a
  <2> HIDE DEF nx
  <2>3. sched'.task = nx.task /\ sched'.arrived = nx.arrived /\ sched'.running = nx.running
    BY <2>1, <2>2 DEF Park, States
  <2>4. /\ \A u \in Tasks : SameFields(sched'.task[u], nx.task[u])
        /\ \A u \in Tasks : IsQueued(sched', u) <=> IsQueued(nx, u)
    BY <2>3 DEF SameFields, IsQueued
  <2>5. sched.task = sched.task /\ sched.arrived = sched.arrived /\ sched.running = sched.running
    OBVIOUS
  <2> QED  BY <1>0, <1>a, <2>1, <2>3, <2>4, <2>5, RequeueTurns
<1>1. CASE New(o)
  <2>1. PICK p \in Priorities :
          sched' = Requeued(sched, {o},
                     [sched.task EXCEPT ![o].ctx = "created", ![o].priority = p,
                                        ![o].status = "READY"])
    BY <1>1 DEF New
  <2> DEFINE data == [sched.task EXCEPT ![o].ctx = "created", ![o].priority = p,
                                        ![o].status = "READY"]
  <2>2. data \in TaskTable
    BY <1>0, FieldsWritten
  <2>3. data[o].ctx = "created" /\ data[o].status = "READY"
    BY <1>0 DEF TaskTable, TaskData
  <2>4. sched.task[o].status # "WAITING" /\ sched.task[o].ctx = "none"
    BY <1>1 DEF New, Made, Unmade
  <2>5. sched' = Requeued(sched, {o}, data)
    BY <2>1
  <2> HIDE DEF data
  <2> QED  BY <1>a, <2>2, <2>3, <2>4, <2>5
<1>2. CASE Join(o)
  <2> DEFINE me == CurrentTask
             data == [sched.task EXCEPT ![me].status = "WAITING", ![me].reason = "JOIN",
                                        ![me].join = o]
  <2>1. me \in Tasks /\ sched.task[me].ctx = "live"
    BY <1>2, WhoRunsIsMade DEF Join, Does, Executes
  <2>2. sched' = Park(Requeued(sched, {me}, data))
    BY <1>2 DEF Join
  <2> HIDE DEF me
  <2>3. data \in TaskTable
    BY <1>0, <2>1, FieldsWritten
  <2>4. data[me].status = "WAITING" /\ data[me].reason = "JOIN"
        /\ data[me].ctx = sched.task[me].ctx
    BY <1>0, <2>1 DEF TaskTable, TaskData
  <2> HIDE DEF data
  <2> QED  BY <1>a, <2>1, <2>2, <2>3, <2>4
<1>3. CASE Suspend(o)
  <2>1. sched.task[o].ctx # "none" /\ IsQueued(sched, o) /\ sched.task[o].status # "DORMANT"
    BY <1>3 DEF Suspend, Known, Made
  <2>2. \/ sched' = SetStatus(sched, o, "SUSPENDED")
        \/ sched' = Park(SetStatus(sched, o, "SUSPENDED"))
    BY <1>3 DEF Suspend
  <2> QED  BY <2>1, <2>2, StatusTurns
<1>4. CASE Resume(o)
  <2> DEFINE data == [sched.task EXCEPT ![o].status = "READY", ![o].reason = "NONE",
                                        ![o].wakeup_tick = Never]
  <2>1. data \in TaskTable
    BY <1>0, FieldsWritten
  <2>2. data[o].status = "READY" /\ data[o].ctx = sched.task[o].ctx
    BY <1>0 DEF TaskTable, TaskData
  <2>3. /\ sched' = Requeued(sched, {o}, data) /\ sched.task[o].ctx # "none"
        /\ IsQueued(sched, o) /\ sched.task[o].status # "DORMANT"
    BY <1>4 DEF Resume, Known, Made
  <2> HIDE DEF data
  <2> QED  BY <1>4, <1>a, <2>1, <2>2, <2>3
<1>5. CASE Terminate(o)
  <2>1. sched' = StopTask(sched, o, OnCpu) /\ sched.task[o].ctx # "none" /\ o # CurrentTask
    BY <1>5 DEF Terminate, Known, Made
  <2>2. Stops(sched, sched', o, OnCpu)
    BY <1>0, <2>1, StopTaskKeeps DEF Sound
  <2>3. /\ sched'.task[o].status = "DORMANT" /\ sched'.task[o].ctx # "none"
        /\ sched'.task[o].ctx = "dead" \/ (Terminate(o) /\ o = OnCpu)
        /\ sched'.running = sched.running
    BY <1>5, <2>1, <2>2 DEF Stops, SameFlags
  <2>4. sched.arrived = sched.arrived
    OBVIOUS
  <2>5. \A u \in Tasks : /\ SameFields(sched'.task[u], sched'.task[u])
                         /\ SameFields(sched.task[u], sched.task[u])
    BY DEF SameFields
  <2> QED  BY <1>0, <2>1, <2>2, <2>3, <2>4, <2>5, StopTurns
<1>6. CASE Close(o)
  <2>1. /\ sched'.task[o].status = "DORMANT"
        /\ sched'.task[o].ctx = IF o = OnCpu THEN sched.task[o].ctx ELSE "dead"
        /\ \A u \in Tasks \ {o} : sched'.task[u] = sched.task[u]
        /\ \A u \in Tasks \ {o} : IsQueued(sched', u) <=> IsQueued(sched, u)
        /\ sched'.running = sched.running /\ ~IsQueued(sched', o)
    BY <1>6, CloseKeeps DEF SameFlags, IsQueued
  <2>2. sched.task[o].ctx # "none" /\ o # CurrentTask
    BY <1>6 DEF Close, Made
  <2>3. Turns(sched, sched', {}, o)
    BY <2>1, <2>2 DEF Turns
  <2>4. Accounts({}, o)
    BY <2>1, <2>2 DEF Accounts, Woken, Settles, Spares
  <2>5. {} \in SUBSET Tasks /\ o \in Tasks \cup {NoObj}
    OBVIOUS
  <2> QED  BY <2>3, <2>4, <2>5 DEF Accounted
<1>7. ASSUME NEW p \in Priorities, SetPriority(o, p)
      PROVE  Accounted
  <2> DEFINE out == QDelete(sched, o)
             data == [out.task EXCEPT ![o].priority = p]
  <2>1. /\ out \in States /\ Consistent(out) /\ Keyed(out)
        /\ \A u \in Tasks \ {o} : out.task[u] = sched.task[u]
        /\ SameFields(out.task[o], sched.task[o])
        /\ SameFlags(sched, out)
    BY <1>0, QDeleteKeeps DEF Sound
  <2>2. sched' = Requeued(out, {o}, data)
    BY <1>7 DEF SetPriority
  <2> HIDE DEF out
  <2>3. out.task \in TaskTable
    BY <2>1, StateFields
  <2>4. data \in TaskTable
    BY <2>3, FieldsWritten, <1>0
  <2>5. /\ data[o].status = sched.task[o].status /\ data[o].reason = sched.task[o].reason
        /\ data[o].ctx = sched.task[o].ctx
    <3>1. /\ data[o].status = out.task[o].status /\ data[o].reason = out.task[o].reason
          /\ data[o].ctx = out.task[o].ctx
      BY <2>3 DEF TaskTable, TaskData
    <3> QED  BY <2>1, <3>1 DEF SameFields
  <2> HIDE DEF data
  <2>6. Requeues(out, sched', {o}, data)
    BY <1>0, <2>1, <2>2, <2>4, RequeuedOrderly
  <2>7. /\ sched'.task[o].status = sched.task[o].status
        /\ sched'.task[o].reason = sched.task[o].reason
        /\ sched'.task[o].ctx = sched.task[o].ctx
        /\ \A u \in Tasks \ {o} : /\ sched'.task[u].status = sched.task[u].status
                                  /\ sched'.task[u].reason = sched.task[u].reason
                                  /\ sched'.task[u].ctx = sched.task[u].ctx
        /\ sched'.running = sched.running
    BY <2>1, <2>5, <2>6 DEF Requeues, SameFields, SameFlags
  <2>a. IsQueued(sched, o) /\ \A u \in Tasks \ {o} : IsQueued(sched', u) <=> IsQueued(sched, u)
    BY <1>7, <2>1, <2>6 DEF Requeues, IsQueued, SetPriority, Known
  <2>8. Turns(sched, sched', {}, o)
    BY <2>7, <2>a DEF Turns
  <2>9. Accounts({}, o)
    BY <2>7, <2>a DEF Accounts, Woken, Settles, Spares
  <2>10. {} \in SUBSET Tasks /\ o \in Tasks \cup {NoObj}
    OBVIOUS
  <2> QED  BY <2>8, <2>9, <2>10 DEF Accounted
<1> QED  BY <1>1, <1>2, <1>3, <1>4, <1>5, <1>6, <1>7

\* What whoever drives the scheduler does.
LEMMA DriverStepTurns ==
  ASSUME SchedTypeOK, Sound(sched),
         \/ RootPass \/ RunBegin \/ HostStep \/ RunTurn \/ RunIdle \/ RunEnd
         \/ \E n \in 0 .. MaxWait : SleepOutside(n) \/ HostAdvance(n)
         \/ \E n \in IndexFroms : HostIndexFrom(n)
  PROVE  Accounted
<1>0. /\ sched \in States /\ sched.wakeup_tick \in 0 .. Never
      /\ \A n \in 0 .. Never : n \in Nat
  BY StateFields, ConstantsAssumption DEF SchedTypeOK, Ticks, Never
<1>a. ASSUME NEW n \in 0 .. Never, sched' = AdvanceTicks(sched, n), TimePasses(n)
      PROVE  Accounted
  <2>1. PICK D \in SUBSET Tasks : Passes(sched, sched', n, D)
    BY <1>0, <1>a, AdvanceTicksSound
  <2> QED  BY <1>0, <1>a, <2>1, TimeTurns
<1>b. ASSUME NEW b \in BOOLEAN,
             sched' = [sched EXCEPT !.loop_running = b]
      PROVE  Accounted
  <2>1. /\ sched'.task = sched.task /\ sched'.arrived = sched.arrived
        /\ sched'.running = sched.running
    BY <1>0, <1>b DEF States
  <2> QED  BY <2>1, NothingTurns DEF SameFields, IsQueued
<1>1. CASE RootPass \/ RunTurn
  BY <1>1, RunsHeadTurns DEF RootPass, RunTurn
<1>2. CASE RunBegin \/ RunEnd
  BY <1>2, <1>b DEF RunBegin, RunEnd
<1>3. CASE HostStep
  <2>1. CASE RunsHead
    BY <2>1, RunsHeadTurns
  <2>2. CASE ~RunsHead
    <3>1. sched' = AdvanceTicks(sched, sched.wakeup_tick)
      BY <1>3, <2>2 DEF HostStep, Idle
    <3>2. TimePasses(sched.wakeup_tick)
      BY <1>3 DEF TimePasses
    <3> QED  BY <1>0, <1>a, <3>1, <3>2
  <2> QED  BY <2>1, <2>2
<1>4. CASE RunIdle
  <2>1. sched' = AdvanceTicks(sched, sched.wakeup_tick)
    BY <1>4 DEF RunIdle, Idle
  <2>2. TimePasses(sched.wakeup_tick)
    BY <1>4 DEF TimePasses
  <2> QED  BY <1>0, <1>a, <2>1, <2>2
<1>5. ASSUME NEW n \in 0 .. MaxWait, SleepOutside(n) \/ HostAdvance(n)
      PROVE  Accounted
  <2>1. n \in 0 .. Never
    BY ConstantsAssumption DEF Never
  <2>2. sched' = AdvanceTicks(sched, n) /\ TimePasses(n)
    BY <1>5 DEF SleepOutside, HostAdvance, TimePasses
  <2> QED  BY <1>a, <2>1, <2>2
<1>6. ASSUME NEW n \in IndexFroms, HostIndexFrom(n)
      PROVE  Accounted
  <2>1. /\ \A t \in Tasks : /\ SameFields(sched'.task[t], sched.task[t])
                            /\ IsQueued(sched', t) <=> IsQueued(sched, t)
        /\ sched'.arrived = sched.arrived /\ sched'.running = sched.running
    BY <1>0, <1>6, SetIndexFromKeeps DEF HostIndexFrom, Sound
  <2> QED  BY <2>1, NothingTurns
<1> QED  BY <1>1, <1>2, <1>3, <1>4, <1>5, <1>6

\* Every step accounts for the tasks it wakes.
LEMMA SchedNextTurns ==
  ASSUME SchedTypeOK, Sound(sched), Unmade, Parked, SchedNext
  PROVE  Accounted
<1>0. sched \in States
  BY DEF SchedTypeOK
<1>1. CASE EnterNative \/ LeaveNative \/ EnterFiber \/ LeaveFiber
  BY <1>1, NothingTurns DEF EnterNative, LeaveNative, EnterFiber, LeaveFiber, SameFields,
                            IsQueued
<1>2. CASE \/ Pass \/ SleepForever \/ \E n \in 0 .. MaxWait : Sleep(n)
  BY <1>2, ParkingTurns
<1>3. CASE Finish \/ TerminateSelf
  BY <1>3, EndTurns
<1>4. ASSUME NEW t \in Tasks,
             \/ New(t) \/ Join(t) \/ Suspend(t) \/ Resume(t)
             \/ Terminate(t) \/ Close(t)
             \/ \E p \in Priorities : SetPriority(t, p)
      PROVE  Accounted
  BY <1>4, TaskStepTurns
<1>5. CASE \/ RootPass \/ RunBegin \/ HostStep \/ RunTurn \/ RunIdle \/ RunEnd
           \/ \E n \in 0 .. MaxWait : SleepOutside(n) \/ HostAdvance(n)
           \/ \E n \in IndexFroms : HostIndexFrom(n)
  BY <1>5, DriverStepTurns
<1>6. CASE Tick
  BY <1>6, TickTurns
<1>7. CASE Switch
  <2>1. Runs /\ SwitchedOut(sched) /\ Switchable
    BY <1>7 DEF Switch
  <2>2. CASE Top.kind # "task"
    <3>1. /\ sched'.task = sched.task /\ sched'.arrived = sched.arrived
          /\ sched'.running = sched.running
      BY <1>0, <2>1, <2>2 DEF SwitchedOut, States
    <3> QED  BY <3>1, NothingTurns DEF SameFields, IsQueued
  <2>3. CASE Top.kind = "task"
    <3> DEFINE t == Top.task
    <3>1. t \in Tasks /\ sched.task[t].ctx = "live"
      BY <2>1, <2>3, WhoRunsIsMade
    <3>2. PICK cur : sched' = Left(sched, t, cur)
      BY <2>1, <2>3 DEF SwitchedOut
    <3>3. /\ sched'.running = NoObj
          /\ \E back \in States :
               /\ back.task = sched.task /\ SameTasks(sched, back)
               /\ \/ sched.task[t].ctx = "dead" /\ Stops(back, sched', t, cur)
                  \/ /\ sched.task[t].ctx # "dead" /\ sched.task[t].status = "RUNNING"
                     /\ Sets(back, sched', t, "READY")
                  \/ /\ sched.task[t].ctx # "dead" /\ sched.task[t].status # "RUNNING"
                     /\ sched' = back
      BY <1>0, <3>1, <3>2, LeftKeeps
    <3> HIDE DEF t
    <3>4. PICK back \in States :
            /\ back.task = sched.task /\ SameTasks(sched, back)
            /\ \/ sched.task[t].status = "RUNNING" /\ Sets(back, sched', t, "READY")
               \/ sched' = back
      BY <3>1, <3>3
    <3>5. CASE sched' = back
      <4>1. /\ sched'.task = sched.task /\ sched'.arrived = sched.arrived
            /\ sched'.running \in {sched.running, NoObj}
        BY <3>3, <3>4, <3>5 DEF SameTasks
      <4> QED  BY <4>1, NothingTurns DEF SameFields, IsQueued
    <3>6. CASE sched.task[t].status = "RUNNING" /\ Sets(back, sched', t, "READY")
      <4>1. /\ Turns(back, sched', {}, t) /\ sched'.task[t].status = "READY"
            /\ sched'.task[t].ctx = "live"
        BY <3>1, <3>4, <3>6, SetsTurns DEF Sets
      <4>2. sched.task = back.task /\ sched.arrived = back.arrived
        BY <3>4 DEF SameTasks
      <4>3. Turns(sched, sched', {}, t)
        BY <4>1, <4>2 DEF Turns, IsQueued
      <4>4. Accounts({}, t)
        BY <3>3, <3>6, <4>1 DEF Accounts, Woken, Settles, Spares
      <4> QED  BY <3>1, <4>3, <4>4 DEF Accounted
    <3> QED  BY <3>4, <3>5, <3>6
  <2> QED  BY <2>2, <2>3
<1> QED  BY <1>1, <1>2, <1>3, <1>4, <1>5, <1>6, <1>7
         DEF SchedNext, CallStep, MachineStep

---------------------------------------------------------------------------
(* What a task must be to sleep, and what keeps it so *)

WakeInv == SoundInv /\ Unmade /\ Parked /\ Served

LEMMA WakeInit == SchedInit => WakeInv
<1> SUFFICES ASSUME SchedInit PROVE Unmade /\ Parked /\ Served
  BY SchedInitSound DEF WakeInv
<1>1. PICK from \in IndexFroms : sched = InitialState(from)
  BY DEF SchedInit
<1>2. sched.running = NoObj /\ \A t \in Tasks : sched.task[t].status = "DORMANT"
  BY <1>1 DEF InitialState, InitialTask
<1>3. Served
  BY DEF SchedInit, Served, Root
<1> QED  BY <1>2, <1>3 DEF Unmade, Parked

\* A task that sleeps on the CPU lets nothing happen but the switch.
LEMMA SleepersSwitch ==
  ASSUME SchedTypeOK, Sound(sched), SchedNext, OnCpu # NoObj,
         sched.switching, Switchable, ~Top.loop
  PROVE  sched'.running = NoObj
<1>0. sched \in States /\ Top.kind = "task" /\ ~Executes
  BY TopType DEF SchedTypeOK, OnCpu, Executes
<1>1. ASSUME NEW st \in States, Sound(st), SwitchedOut(st), Runs
      PROVE  sched'.running = NoObj
  <2>1. Top.task \in Tasks
    BY <1>0, <1>1, WhoRunsIsMade
  <2>2. PICK cur : sched' = Left(st, Top.task, cur)
    BY <1>0, <1>1 DEF SwitchedOut
  <2> QED  BY <1>1, <2>1, <2>2, LeftKeeps
<1>2. CASE Tick
  <2>1. /\ Ticked(sched) \in States /\ Sound(Ticked(sched))
        /\ \E n \in 0 .. 1 : \E D \in SUBSET Tasks : Passes(sched, Ticked(sched), n, D)
    BY <1>0, TickedKeeps
  <2>2. Ticked(sched).switching
    BY <2>1 DEF Passes
  <2>3. SwitchedOut(Ticked(sched)) /\ Runs
    BY <1>2, <2>2 DEF Tick
  <2> QED  BY <1>1, <2>1, <2>3
<1>3. CASE Switch
  BY <1>0, <1>1, <1>3 DEF Switch
<1>4. ~(CallStep \/ RunTurn \/ RunIdle \/ RunEnd)
  BY <1>0 DEF CallStep, RunTurn, RunIdle, RunEnd, Does, EnterNative, LeaveNative,
              EnterFiber, LeaveFiber, Pass, RootPass, SleepForever, TerminateSelf,
              Finish, RunBegin, HostStep, Sleep, SleepOutside, HostAdvance,
              HostIndexFrom, New, Join, Suspend, Resume, Terminate, Close, SetPriority
<1> QED  BY <1>2, <1>3, <1>4 DEF SchedNext, MachineStep

\* Every step keeps them.
LEMMA WakeNext == WakeInv /\ [SchedNext]_svars => WakeInv'
<1> SUFFICES ASSUME SchedTypeOK, Sound(sched), Unmade, Parked, Served, [SchedNext]_svars
             PROVE  Unmade' /\ Parked' /\ Served'
  BY SchedNextSound DEF WakeInv, SoundInv
<1>1. CASE UNCHANGED svars
  BY <1>1 DEF svars, Unmade, Parked, Served, OnCpu, Top, Switchable
<1>2. CASE SchedNext
  <2>1. PICK W \in SUBSET Tasks, o \in Tasks \cup {NoObj} :
          Turns(sched, sched', W, o) /\ Accounts(W, o)
    BY <1>2, SchedNextTurns DEF Accounted
  <2>2. Unmade'
    BY <2>1 DEF Unmade, Turns
  <2>3. Served'
    <3>1. CASE stack' = stack
      BY <3>1 DEF Served
    <3>2. CASE Marks(stack')
      BY <3>2, StackStepsAt DEF Served
    <3>3. CASE Enters(stack')
      BY <3>3, StackStepsAt DEF Served
    <3>4. CASE Leaves(stack')
      BY <3>4, StackStepsAt DEF Served
    <3> QED  BY <1>2, <3>1, <3>2, <3>3, <3>4, StackSteps
  <2>4. ASSUME NEW r, r = sched'.running, r # NoObj,
               sched'.task[r].status = "WAITING", sched'.task[r].reason = "SLEEP"
        PROVE  (OnCpu = r /\ sched.switching /\ Switchable /\ ~Top.loop)'
    <3>1. CASE \E n \in 0 .. MaxWait : Sleep(n)
      <4>1. PICK n \in 0 .. MaxWait : Sleep(n)
        BY <3>1
      <4>2. /\ CurrentTask # NoObj /\ ~Top.native /\ Runs /\ stack' = stack
        BY <4>1 DEF Sleep, Does, Executes
      <4>3. /\ CurrentTask \in Tasks /\ Top.kind = "task" /\ Top.task = CurrentTask
            /\ sched.running = CurrentTask
        BY <4>2, WhoRunsIsMade
      <4>4. Top.vmexec
        BY <4>3, TopType DEF Served, Top, SchedTypeOK, StackOK
      <4>5. r = sched.running
        BY <2>1, <2>4, <4>3 DEF Accounts
      <4>6. sched'.switching
        <5>1. SchedTypeOK'
          BY <1>2, SchedNextType
        <5> QED  BY <4>1, <5>1 DEF Sleep, Park, SchedTypeOK, States
      <4> QED  BY <4>2, <4>3, <4>4, <4>5, <4>6 DEF OnCpu, Top, Switchable, Runs
    <3>2. CASE ~\E n \in 0 .. MaxWait : Sleep(n)
      <4>1. r = sched.running
        BY <2>1, <2>4 DEF Accounts
      <4>2. r \in Tasks
        BY <2>4, <4>1 DEF SchedTypeOK, States
      <4>3. sched.task[r].status = "WAITING" /\ sched.task[r].reason = "SLEEP"
        <5>1. r \notin W
          BY <2>1, <2>4 DEF Turns
        <5>2. CASE r = o
          BY <2>1, <2>4, <3>2, <4>2, <5>2 DEF Accounts
        <5>3. CASE r # o
          BY <2>1, <2>4, <4>2, <5>1, <5>3 DEF Turns
        <5> QED  BY <5>2, <5>3
      <4>4. OnCpu # NoObj /\ sched.switching /\ Switchable /\ ~Top.loop
        BY <2>4, <4>1, <4>3 DEF Parked
      <4> QED  BY <1>2, <2>4, <4>4, SleepersSwitch
    <3> QED  BY <3>1, <3>2
  <2>5. Parked'
    BY <2>4 DEF Parked
  <2> QED  BY <2>2, <2>3, <2>5
<1> QED  BY <1>1, <1>2

LEMMA WakeAlways == SchedSpec => []WakeInv
BY WakeInit, WakeNext, PTL DEF SchedSpec

\* NobodyWakesEarly: a task that sleeps becomes ready only by Task#resume, or in
\* a step that lets at least the ticks of its deadline pass, whichever of the
\* clock's four drivers that step is (tick, idle, task_advance_ticks, sleep
\* outside a task).
THEOREM SleepersWakeOnTime == SchedSpec => NobodyWakesEarly
<1> DEFINE Stay == \A t \in Tasks :
                     /\ sched.task[t].status = "WAITING" /\ sched.task[t].reason = "SLEEP"
                     /\ sched'.task[t].status = "READY"
                     => \/ Resume(t)
                        \/ \E n \in sched.task[t].wakeup_tick .. Never : TimePasses(n)
<1>1. ASSUME WakeInv, SchedNext
      PROVE  Stay
  <2>1. PICK W \in SUBSET Tasks, o \in Tasks \cup {NoObj} :
          Turns(sched, sched', W, o) /\ Accounts(W, o)
    BY <1>1, SchedNextTurns DEF Accounted, WakeInv, SoundInv
  <2>2. SUFFICES ASSUME NEW t \in Tasks, sched.task[t].status = "WAITING",
                        sched.task[t].reason = "SLEEP", sched'.task[t].status = "READY"
                 PROVE  \/ Resume(t)
                        \/ \E n \in sched.task[t].wakeup_tick .. Never : TimePasses(n)
    OBVIOUS
  <2>3. t \in W \/ t = o
    BY <2>1, <2>2 DEF Turns
  <2> QED  BY <2>1, <2>2, <2>3 DEF Accounts, Woken
<1>2. WakeInv /\ [SchedNext]_svars => [Stay]_svars
  BY <1>1
<1> QED  BY <1>2, WakeAlways, PTL DEF SchedSpec, NobodyWakesEarly

\* WokenInOrder: tasks one step wakes stand in their queue as they stood among
\* those that waited, whether their deadline came or the task they joined ended,
\* through the indexes or not (wake_sleepers, wake_join_waiters).
THEOREM WakingKeepsTheOrder == SchedSpec => WokenInOrder
<1> DEFINE Stay == \A t, u \in Tasks :
                     /\ sched.task[t].status = "WAITING" /\ sched'.task[t].status = "READY"
                     /\ sched.task[u].status = "WAITING" /\ sched'.task[u].status = "READY"
                     => (<<t, u>> \in sched.arrived <=> <<t, u>> \in sched'.arrived)
<1>1. ASSUME WakeInv, SchedNext
      PROVE  Stay
  <2>1. PICK W \in SUBSET Tasks, o \in Tasks \cup {NoObj} :
          Turns(sched, sched', W, o) /\ Accounts(W, o)
    BY <1>1, SchedNextTurns DEF Accounted, WakeInv, SoundInv
  <2>2. SUFFICES ASSUME NEW t \in Tasks, NEW u \in Tasks,
                        sched.task[t].status = "WAITING", sched'.task[t].status = "READY",
                        sched.task[u].status = "WAITING", sched'.task[u].status = "READY"
                 PROVE  <<t, u>> \in sched.arrived <=> <<t, u>> \in sched'.arrived
    OBVIOUS
  <2>3. (t \in W \/ t = o) /\ (u \in W \/ u = o)
    BY <2>1, <2>2 DEF Turns
  <2>4. CASE t \in W /\ u \in W
    BY <2>1, <2>4 DEF Turns
  <2>5. CASE t = o \/ u = o
    <3>1. W = {} /\ (<<o, o>> \in sched'.arrived <=> <<o, o>> \in sched.arrived)
      BY <2>1, <2>2, <2>5 DEF Accounts, Woken
    <3> QED  BY <2>3, <3>1
  <2> QED  BY <2>3, <2>4, <2>5
<1>2. WakeInv /\ [SchedNext]_svars => [Stay]_svars
  BY <1>1
<1> QED  BY <1>2, WakeAlways, PTL DEF SchedSpec, WokenInOrder

---------------------------------------------------------------------------
(* Who has the CPU, and whose contexts are on the stack *)

NoFibers == Calls \cap {"fiber", "nested fiber"} = {}

\* The stack keeps its contexts.
StackStays ==
  \/ stack' = stack
  \/ stack' = [stack EXCEPT ![Len(stack)].native = FALSE]
  \/ stack' = [stack EXCEPT ![Len(stack)].native = TRUE] /\ EnterNative
  \/ stack' = [stack EXCEPT ![Len(stack)].loop = FALSE]
  \/ /\ stack' = [stack EXCEPT ![Len(stack)].loop = TRUE]
     /\ "run" \in Calls /\ CurrentTask = NoObj

\* The task of the context that is entered or left is the one that gets the CPU
\* or loses it; nothing else moves `running`.
Hands ==
  \/ sched'.running = sched.running /\ StackStays
  \/ /\ sched'.running = sched.running /\ ~NoFibers
     /\ \E b \in BOOLEAN : stack' = Append(stack, FiberContext(b))
  \/ sched'.running = sched.running /\ Leaves(stack') /\ Top.kind = "fiber"
  \/ sched'.running = NoObj /\ Leaves(stack') /\ Top.kind = "task"
  \/ /\ sched'.running \in Tasks /\ sched'.task[sched'.running].ctx = "live"
     /\ stack' = Append(stack, TaskContext(sched'.running))
     /\ Top.kind = "root" \/ Top.loop

\* Requeueing leaves the CPU alone.
LEMMA RequeuedRunning ==
  ASSUME NEW st \in States, NEW D, NEW data
  PROVE  Requeued(st, D, data).running = st.running
BY SMTT(30) DEF Requeued, TakenOut, Indexed, BuildIndex, States

\* The steps that leave the stack alone.
LEMMA CallsLeaveTheStack ==
  ASSUME SchedTypeOK, Sound(sched),
         \/ Pass \/ SleepForever
         \/ \E n \in 0 .. MaxWait : Sleep(n) \/ SleepOutside(n) \/ HostAdvance(n)
         \/ \E n \in IndexFroms : HostIndexFrom(n)
         \/ \E t \in Tasks :
              \/ New(t) \/ Join(t) \/ Suspend(t) \/ Resume(t)
              \/ Terminate(t) \/ Close(t)
              \/ \E p \in Priorities : SetPriority(t, p)
  PROVE  Hands
<1>0. sched \in States /\ CurrentTask \in Tasks \cup {NoObj}
  BY CurrentTaskType DEF SchedTypeOK
<1>a. ASSUME NEW st \in States PROVE Park(st).running = st.running
  BY <1>a DEF Park, States
<1>1. ASSUME NEW t \in Tasks, NEW status \in {"READY", "SUSPENDED"}
      PROVE  /\ SetStatus(sched, t, status) \in States
             /\ SetStatus(sched, t, status).running = sched.running
  <2> DEFINE nx == SetStatus(sched, t, status)
  <2>1. nx \in States /\ Sets(sched, nx, t, status)
    BY <1>0, <1>1, SetStatusSound DEF Statuses
  <2> HIDE DEF nx
  <2>2. nx.running = sched.running
    BY <2>1 DEF Sets, SameFlags
  <2> QED  BY <2>1, <2>2 DEF nx
<1>b. ASSUME NEW n \in Nat PROVE AdvanceTicks(sched, n).running = sched.running
  <2> DEFINE nx == AdvanceTicks(sched, n)
  <2>1. PICK D \in SUBSET Tasks : Passes(sched, nx, n, D)
    BY <1>0, <1>b, AdvanceTicksSound
  <2> HIDE DEF nx
  <2>2. nx.running = sched.running
    BY <2>1 DEF Passes
  <2> QED  BY <2>2 DEF nx
<1>2. CASE Pass \/ SleepForever
  BY <1>0, <1>a, <1>1, <1>2 DEF Pass, SleepForever, Hands, StackStays
<1>3. ASSUME NEW n \in 0 .. MaxWait, Sleep(n)
      PROVE  Hands
  <2> DEFINE asleep == Requeued(sched, {CurrentTask},
                         [sched.task EXCEPT ![CurrentTask].status = "WAITING",
                                            ![CurrentTask].reason = "SLEEP",
                                            ![CurrentTask].wakeup_tick = n])
  <2>1. asleep.running = sched.running
    BY <1>0, RequeuedRunning
  <2>2. asleep \in States /\ n \in Ticks
    <3>1. n \in Ticks
      BY ConstantsAssumption DEF Ticks, Never
    <3>2. CurrentTask \in Tasks /\ sched.task \in TaskTable
      BY <1>0, <1>3, StateFields DEF Sleep
    <3>3. [sched.task EXCEPT ![CurrentTask].status = "WAITING",
                             ![CurrentTask].reason = "SLEEP",
                             ![CurrentTask].wakeup_tick = n] \in TaskTable
      BY <3>1, <3>2, FieldsWritten, ConstantsAssumption
    <3> QED  BY <1>0, <3>1, <3>2, <3>3, RequeuedType
  <2>3. sched' = Park(NoteWakeup(asleep, n)) /\ stack' = stack
    BY <1>3 DEF Sleep
  <2> HIDE DEF asleep
  <2>4. NoteWakeup(asleep, n) \in States /\ NoteWakeup(asleep, n).running = sched.running
    BY <2>1, <2>2, NoteWakeupKeeps
  <2> QED  BY <1>a, <2>3, <2>4 DEF Hands, StackStays
<1>4. ASSUME NEW n \in 0 .. MaxWait, SleepOutside(n) \/ HostAdvance(n)
      PROVE  Hands
  <2>1. n \in Nat
    BY ConstantsAssumption
  <2>2. sched'.running = sched.running
    BY <1>4, <1>b, <2>1 DEF SleepOutside, HostAdvance
  <2> QED  BY <1>4, <2>2 DEF SleepOutside, HostAdvance, Hands, StackStays
<1>5. ASSUME NEW n \in IndexFroms, HostIndexFrom(n)
      PROVE  Hands
  <2>1. sched'.running = sched.running
    BY <1>0, <1>5, SetIndexFromKeeps DEF Sound, HostIndexFrom
  <2> QED  BY <1>5, <2>1 DEF HostIndexFrom, Hands, StackStays
<1>6. ASSUME NEW t \in Tasks,
             \/ New(t) \/ Join(t) \/ Suspend(t) \/ Resume(t)
             \/ Terminate(t) \/ Close(t)
             \/ \E p \in Priorities : SetPriority(t, p)
      PROVE  Hands
  <2>0. stack' = stack
    BY <1>6 DEF New, Join, Suspend, Resume, Terminate, Close, SetPriority
  <2>1. CASE New(t) \/ Resume(t)
    <3>1. \E data : sched' = Requeued(sched, {t}, data)
      BY <2>1 DEF New, Resume
    <3>2. sched'.running = sched.running
      BY <1>0, <3>1, RequeuedRunning
    <3> QED  BY <2>0, <3>2 DEF Hands, StackStays
  <2>2. CASE Join(t)
    <3> DEFINE nx == Requeued(sched, {CurrentTask},
                       [sched.task EXCEPT ![CurrentTask].status = "WAITING",
                                          ![CurrentTask].reason = "JOIN",
                                          ![CurrentTask].join = t])
    <3>1. CurrentTask \in Tasks /\ sched.task \in TaskTable
          /\ 0 \in Ticks /\ Priorities # {}
      BY <1>0, <2>2, StateFields, TicksAreNat, ConstantsAssumption DEF Join
    <3>2. [sched.task EXCEPT ![CurrentTask].status = "WAITING",
                             ![CurrentTask].reason = "JOIN",
                             ![CurrentTask].join = t] \in TaskTable
      BY <3>1, FieldsWritten
    <3>3. nx \in States /\ nx.running = sched.running
      BY <1>0, <3>1, <3>2, RequeuedType, RequeuedRunning
    <3>4. sched' = Park(nx)
      BY <2>2 DEF Join
    <3> QED  BY <1>a, <2>0, <3>3, <3>4 DEF Hands, StackStays
  <2>3. CASE Suspend(t)
    BY <1>a, <1>1, <2>0, <2>3 DEF Suspend, Hands, StackStays
  <2>4. CASE Terminate(t)
    BY <1>0, <2>0, <2>4, StopTaskKeeps DEF Sound, Terminate, Stops, SameFlags, Hands, StackStays
  <2>5. CASE Close(t)
    BY <2>0, <2>5, CloseKeeps DEF SameFlags, Hands, StackStays
  <2>6. ASSUME NEW p \in Priorities, SetPriority(t, p)
        PROVE  Hands
    <3>1. QDelete(sched, t) \in States /\ QDelete(sched, t).running = sched.running
      BY <1>0, QDeleteKeeps DEF Sound, SameFlags
    <3>2. sched'.running = sched.running
      BY <2>6, <3>1, RequeuedRunning DEF SetPriority
    <3> QED  BY <2>0, <3>2 DEF Hands, StackStays
  <2> QED  BY <1>6, <2>1, <2>2, <2>3, <2>4, <2>5, <2>6
<1> QED  BY <1>2, <1>3, <1>4, <1>5, <1>6

\* Every step moves the CPU and the stack together.
LEMMA HandsNext ==
  ASSUME SchedTypeOK, Sound(sched), SchedNext
  PROVE  Hands
<1>0. sched \in States /\ sched.wakeup_tick \in Nat
  BY StateFields, TicksAreNat DEF SchedTypeOK
<1>a. ASSUME RunsHead, Top.kind = "root" \/ Top.loop
      PROVE  Hands
  <2>1. PICK t \in Tasks : /\ IsFirst(sched, "ready", t) /\ sched' = Entered(sched, t)
                           /\ stack' = Append(stack, TaskContext(t))
    BY <1>a DEF RunsHead
  <2>2. sched.task[t].place.q = "ready"
    BY <1>0, <2>1, HeadIsReady DEF Sound, Orderly, Consistent
  <2>3. sched'.running = t /\ sched'.task[t].ctx = "live"
    BY <1>0, <2>1, <2>2, EnteredKeeps
  <2> QED  BY <1>a, <2>1, <2>3 DEF Hands
<1>b. ASSUME NEW st \in States, Sound(st), st.running = sched.running, Switchable,
             SwitchedOut(st)
      PROVE  Hands
  <2>1. Leaves(stack') /\ Top.kind \in {"task", "fiber"}
    BY <1>b, TopType DEF Switchable, SwitchedOut, Leaves, Contexts
  <2>2. CASE Top.kind = "task"
    <3>1. Top.task \in Tasks
      BY <2>2, TopType
    <3>2. PICK cur : sched' = Left(st, Top.task, cur)
      BY <1>b, <2>2 DEF SwitchedOut
    <3>3. sched'.running = NoObj
      BY <1>b, <3>1, <3>2, LeftKeeps
    <3> QED  BY <2>1, <2>2, <3>3 DEF Hands
  <2>3. CASE Top.kind = "fiber"
    <3>1. sched'.running = sched.running
      BY <1>b, <2>3 DEF SwitchedOut, States
    <3> QED  BY <2>1, <2>3, <3>1 DEF Hands
  <2> QED  BY <2>1, <2>2, <2>3
<1>c. ASSUME NEW n \in Nat, sched' = AdvanceTicks(sched, n), stack' = stack
      PROVE  Hands
  <2>1. PICK D \in SUBSET Tasks : Passes(sched, sched', n, D)
    BY <1>0, <1>c, AdvanceTicksSound
  <2>2. sched'.running = sched.running
    BY <2>1 DEF Passes
  <2> QED  BY <1>c, <2>2 DEF Hands, StackStays
<1>d. ASSUME NEW b \in BOOLEAN, sched' = [sched EXCEPT !.loop_running = b]
      PROVE  sched'.running = sched.running
  BY <1>0, <1>d DEF States
<1>1. CASE EnterNative \/ LeaveNative
  BY <1>1 DEF EnterNative, LeaveNative, Hands, StackStays
<1>2. CASE EnterFiber
  <2>1. PICK b \in BOOLEAN : /\ Does(IF b THEN "nested fiber" ELSE "fiber")
                             /\ stack' = Append(stack, FiberContext(b)) /\ sched' = sched
    BY <1>2 DEF EnterFiber
  <2>2. ~NoFibers
    BY <2>1 DEF NoFibers, Does
  <2> QED  BY <2>1, <2>2 DEF Hands
<1>3. CASE LeaveFiber
  BY <1>3 DEF LeaveFiber, Leaves, Hands
<1>4. CASE \/ Pass \/ SleepForever
           \/ \E n \in 0 .. MaxWait : Sleep(n) \/ SleepOutside(n) \/ HostAdvance(n)
           \/ \E n \in IndexFroms : HostIndexFrom(n)
           \/ \E t \in Tasks :
                \/ New(t) \/ Join(t) \/ Suspend(t) \/ Resume(t)
                \/ Terminate(t) \/ Close(t)
                \/ \E p \in Priorities : SetPriority(t, p)
  BY <1>4, CallsLeaveTheStack
<1>5. CASE RootPass \/ HostStep
  <2>1. CASE RunsHead
    BY <1>5, <1>a, <2>1 DEF RootPass, HostStep
  <2>2. CASE ~RunsHead
    BY <1>0, <1>5, <1>c, <2>2 DEF RootPass, HostStep, Idle
  <2> QED  BY <2>1, <2>2
<1>6. CASE RunBegin
  BY <1>6, <1>d DEF RunBegin, Does, Hands, StackStays
<1>7. CASE RunTurn
  BY <1>7, <1>a DEF RunTurn
<1>8. CASE RunIdle
  BY <1>0, <1>8, <1>c DEF RunIdle, Idle
<1>9. CASE RunEnd
  BY <1>9, <1>d DEF RunEnd, Hands, StackStays
<1>10. CASE Tick
  <2> DEFINE st == Ticked(sched)
  <2>1. st \in States /\ Sound(st)
    BY <1>0, TickedKeeps
  <2>2. st.running = sched.running
    <3>1. PICK n \in 0 .. 1 : \E D \in SUBSET Tasks : Passes(sched, st, n, D)
      BY <1>0, TickedKeeps
    <3> HIDE DEF st
    <3> QED  BY <3>1 DEF Passes
  <2>3. \/ Switchable /\ SwitchedOut(st)
        \/ sched' = st /\ stack' = stack
    BY <1>10 DEF Tick
  <2> HIDE DEF st
  <2> QED  BY <1>b, <2>1, <2>2, <2>3 DEF Hands, StackStays
<1>11. CASE Switch
  BY <1>0, <1>11, <1>b DEF Switch
<1>12. CASE Finish \/ TerminateSelf
  <2>1. Leaves(stack') /\ Top.kind = "task"
    BY <1>12, TopType DEF Finish, TerminateSelf, CurrentTask, OnCpu, Leaves
  <2>2. sched'.running = NoObj
    <3>1. CASE Finish
      <4>1. Top.task \in Tasks
        BY <2>1, TopType
      <4>2. PICK cur :
              sched' = Left([sched EXCEPT !.task[Top.task].ctx = "dead"], Top.task, cur)
        BY <3>1 DEF Finish
      <4>3. /\ [sched EXCEPT !.task[Top.task].ctx = "dead"] \in States
            /\ Sound([sched EXCEPT !.task[Top.task].ctx = "dead"])
        BY <1>0, <4>1, DeadKeeps
      <4> QED  BY <4>1, <4>2, <4>3, LeftKeeps
    <3>2. CASE TerminateSelf
      <4> DEFINE me == CurrentTask
                 stopped == StopTask(sched, me, me)
                 dead == [stopped EXCEPT !.task[me].ctx = "dead"]
      <4>1. me \in Tasks
        BY <3>2, CurrentTaskType DEF TerminateSelf
      <4>2. PICK cur : sched' = Left(dead, me, cur)
        BY <3>2 DEF TerminateSelf
      <4> HIDE DEF me
      <4>3. stopped \in States /\ Sound(stopped)
        BY <1>0, <4>1, StopTaskKeeps DEF Sound
      <4> HIDE DEF stopped
      <4>4. dead \in States /\ Sound(dead)
        BY <4>1, <4>3, DeadKeeps
      <4> HIDE DEF dead
      <4> QED  BY <4>1, <4>2, <4>4, LeftKeeps
    <3> QED  BY <1>12, <3>1, <3>2
  <2> QED  BY <2>1, <2>2 DEF Hands
<1> QED  BY <1>1, <1>2, <1>3, <1>4, <1>5, <1>6, <1>7, <1>8, <1>9, <1>10, <1>11, <1>12
         DEF SchedNext, CallStep, MachineStep

---------------------------------------------------------------------------
(* One task at a time on the stack *)

\* The program keeps Task.run and fibers apart: it uses one of them at most.
Apart == "run" \notin Calls \/ NoFibers

\* A task stands just above the root and the scheduler knows it is there; a
\* Task.run goes on in the root only.
Shape ==
  /\ \A i \in DOMAIN stack : stack[i].loop => i = 1 /\ "run" \in Calls
  /\ \A i \in DOMAIN stack : stack[i].task # NoObj => i = 2
  /\ sched.running = IF Len(stack) = 1 THEN NoObj ELSE stack[2].task
  /\ NoFibers => /\ Len(stack) <= 2
                 /\ Len(stack) = 2 => stack[2].task # NoObj

\* What a mark changes of the running context.
LEMMA MarkAt ==
  ASSUME SchedTypeOK, NEW b \in BOOLEAN
  PROVE  /\ LET s == [stack EXCEPT ![Len(stack)].native = b]
            IN /\ Len(s) = Len(stack) /\ DOMAIN s = DOMAIN stack
               /\ \A i \in DOMAIN stack :
                    /\ s[i].task = stack[i].task /\ s[i].loop = stack[i].loop
                    /\ s[i].native = IF i = Len(stack) THEN b ELSE stack[i].native
         /\ LET s == [stack EXCEPT ![Len(stack)].loop = b]
            IN /\ Len(s) = Len(stack) /\ DOMAIN s = DOMAIN stack
               /\ \A i \in DOMAIN stack :
                    /\ s[i].task = stack[i].task /\ s[i].native = stack[i].native
                    /\ s[i].loop = IF i = Len(stack) THEN b ELSE stack[i].loop
<1>1. /\ stack \in Seq(Contexts) /\ Len(stack) \in 1 .. Len(stack)
      /\ DOMAIN stack = 1 .. Len(stack) /\ Top \in Contexts
  BY TopType DEF SchedTypeOK, StackOK
<1>2. ASSUME NEW c \in Contexts
      PROVE  LET s == [stack EXCEPT ![Len(stack)] = c]
             IN /\ Len(s) = Len(stack) /\ DOMAIN s = DOMAIN stack
                /\ \A i \in DOMAIN stack : s[i] = IF i = Len(stack) THEN c ELSE stack[i]
  <2> DEFINE s == [stack EXCEPT ![Len(stack)] = c]
  <2>1. /\ s \in Seq(Contexts) /\ Len(s) = Len(stack)
        /\ \A i \in 1 .. Len(stack) : s[i] = IF i = Len(stack) THEN c ELSE stack[i]
    BY <1>1, ExceptSeq
  <2>2. DOMAIN s = DOMAIN stack
    OBVIOUS
  <2> HIDE DEF s
  <2> QED  BY <1>1, <2>1, <2>2 DEF s
<1>3. /\ [Top EXCEPT !.native = b] \in Contexts /\ [Top EXCEPT !.loop = b] \in Contexts
      /\ [Top EXCEPT !.native = b].task = Top.task
      /\ [Top EXCEPT !.native = b].loop = Top.loop
      /\ [Top EXCEPT !.native = b].native = b
      /\ [Top EXCEPT !.loop = b].task = Top.task
      /\ [Top EXCEPT !.loop = b].native = Top.native
      /\ [Top EXCEPT !.loop = b].loop = b
  BY <1>1 DEF Contexts
<1>4. /\ [stack EXCEPT ![Len(stack)].native = b]
           = [stack EXCEPT ![Len(stack)] = [Top EXCEPT !.native = b]]
      /\ [stack EXCEPT ![Len(stack)].loop = b]
           = [stack EXCEPT ![Len(stack)] = [Top EXCEPT !.loop = b]]
  BY DEF Top
<1>5. LET s == [stack EXCEPT ![Len(stack)].native = b]
      IN /\ Len(s) = Len(stack) /\ DOMAIN s = DOMAIN stack
         /\ \A i \in DOMAIN stack :
              /\ s[i].task = stack[i].task /\ s[i].loop = stack[i].loop
              /\ s[i].native = IF i = Len(stack) THEN b ELSE stack[i].native
  <2> DEFINE c == [Top EXCEPT !.native = b]
             s == [stack EXCEPT ![Len(stack)] = c]
  <2>1. /\ Len(s) = Len(stack) /\ DOMAIN s = DOMAIN stack
        /\ \A i \in DOMAIN stack : s[i] = IF i = Len(stack) THEN c ELSE stack[i]
    BY <1>2, <1>3
  <2>2. c.task = Top.task /\ c.loop = Top.loop /\ c.native = b
    BY <1>3
  <2>3. [stack EXCEPT ![Len(stack)].native = b] = s
    BY <1>4
  <2> HIDE DEF s, c
  <2> QED  BY <2>1, <2>2, <2>3 DEF Top
<1>6. LET s == [stack EXCEPT ![Len(stack)].loop = b]
      IN /\ Len(s) = Len(stack) /\ DOMAIN s = DOMAIN stack
         /\ \A i \in DOMAIN stack :
              /\ s[i].task = stack[i].task /\ s[i].native = stack[i].native
              /\ s[i].loop = IF i = Len(stack) THEN b ELSE stack[i].loop
  <2> DEFINE c == [Top EXCEPT !.loop = b]
             s == [stack EXCEPT ![Len(stack)] = c]
  <2>1. /\ Len(s) = Len(stack) /\ DOMAIN s = DOMAIN stack
        /\ \A i \in DOMAIN stack : s[i] = IF i = Len(stack) THEN c ELSE stack[i]
    BY <1>2, <1>3
  <2>2. c.task = Top.task /\ c.loop = b /\ c.native = Top.native
    BY <1>3
  <2>3. [stack EXCEPT ![Len(stack)].loop = b] = s
    BY <1>4
  <2> HIDE DEF s, c
  <2> QED  BY <2>1, <2>2, <2>3 DEF Top
<1> QED  BY <1>5, <1>6

LEMMA ShapeInit == SchedInit => Shape
<1> SUFFICES ASSUME SchedInit PROVE Shape
  OBVIOUS
<1>1. sched.running = NoObj /\ stack = <<Root>>
  BY DEF SchedInit, InitialState
<1>2. Len(stack) = 1 /\ DOMAIN stack = {1} /\ ~stack[1].loop /\ stack[1].task = NoObj
  BY <1>1 DEF Root
<1> QED  BY <1>1, <1>2 DEF Shape

\* Every step keeps that shape.
LEMMA ShapeKept ==
  ASSUME Apart, SchedTypeOK, Sound(sched), Shape, SchedNext
  PROVE  Shape'
<1>0. /\ stack \in Seq(Contexts) /\ Len(stack) \in Nat /\ Len(stack) >= 1
      /\ DOMAIN stack = 1 .. Len(stack)
      /\ Top.kind = "root" <=> Len(stack) = 1
      /\ Top.kind = "task" <=> Top.task # NoObj
      /\ Top.task \in Tasks \cup {NoObj}
  BY TopType DEF SchedTypeOK, StackOK
<1>1. CASE sched'.running = sched.running /\ StackStays
  <2>a. CASE stack' = stack
    BY <1>1, <2>a DEF Shape
  <2>b. ASSUME NEW b \in BOOLEAN, stack' = [stack EXCEPT ![Len(stack)].native = b]
        PROVE  Shape'
    <3>1. /\ Len(stack') = Len(stack) /\ DOMAIN stack' = DOMAIN stack
          /\ \A i \in DOMAIN stack :
               stack'[i].task = stack[i].task /\ stack'[i].loop = stack[i].loop
      BY <2>b, MarkAt
    <3>2. Len(stack) # 1 => 2 \in DOMAIN stack
      BY <1>0
    <3> QED  BY <1>1, <3>1, <3>2 DEF Shape
  <2>c. ASSUME NEW b \in BOOLEAN, stack' = [stack EXCEPT ![Len(stack)].loop = b],
               b => "run" \in Calls /\ CurrentTask = NoObj
        PROVE  Shape'
    <3>1. /\ Len(stack') = Len(stack) /\ DOMAIN stack' = DOMAIN stack
          /\ \A i \in DOMAIN stack :
               /\ stack'[i].task = stack[i].task
               /\ stack'[i].loop = IF i = Len(stack) THEN b ELSE stack[i].loop
      BY <2>c, MarkAt
    <3>2. Len(stack) # 1 => 2 \in DOMAIN stack
      BY <1>0
    <3>3. b => Len(stack) = 1
      <4> SUFFICES ASSUME b, Len(stack) # 1 PROVE FALSE
        OBVIOUS
      <4>1. Len(stack) = 2
        BY <1>0, <2>c DEF Apart, Shape
      <4>2. Top.task # NoObj /\ sched.running = Top.task
        BY <2>c, <4>1 DEF Apart, Shape, Top
      <4> QED  BY <2>c, <4>2 DEF CurrentTask, OnCpu
    <3> QED  BY <1>1, <2>c, <3>1, <3>2, <3>3 DEF Shape
  <2> QED  BY <1>1, <2>a, <2>b, <2>c DEF StackStays
<1>2. ASSUME NEW c \in Contexts, stack' = Append(stack, c), ~c.loop,
             \/ c.task = NoObj /\ ~NoFibers /\ sched'.running = sched.running
             \/ /\ c.task # NoObj /\ sched'.running = c.task
                /\ Top.kind = "root" \/ Top.loop
      PROVE  Shape'
  <2>1. /\ Len(stack') = Len(stack) + 1 /\ DOMAIN stack' = 1 .. Len(stack) + 1
        /\ \A i \in 1 .. Len(stack) : stack'[i] = stack[i]
        /\ stack'[Len(stack) + 1] = c
    BY <1>0, <1>2, AppendProperties
  <2>2. CASE c.task = NoObj
    <3>1. ~NoFibers /\ sched'.running = sched.running
      BY <1>2, <2>2
    <3>2. sched'.running = IF Len(stack') = 1 THEN NoObj ELSE stack'[2].task
      <4>1. CASE Len(stack) = 1
        BY <1>0, <2>1, <2>2, <3>1, <4>1 DEF Shape
      <4>2. CASE Len(stack) # 1
        <5>1. 2 \in 1 .. Len(stack) /\ Len(stack') # 1
          BY <1>0, <2>1, <4>2
        <5> QED  BY <2>1, <3>1, <4>2, <5>1 DEF Shape
      <4> QED  BY <4>1, <4>2
    <3>3. \A i \in DOMAIN stack' : i # Len(stack) + 1 => i \in DOMAIN stack
      BY <1>0, <2>1
    <3>4. \A i \in DOMAIN stack' : stack'[i].loop => i = 1 /\ "run" \in Calls
      BY <1>0, <1>2, <2>1, <3>3 DEF Shape
    <3>5. \A i \in DOMAIN stack' : stack'[i].task # NoObj => i = 2
      BY <1>0, <2>1, <2>2, <3>3 DEF Shape
    <3> QED  BY <3>1, <3>2, <3>4, <3>5 DEF Shape
  <2>3. CASE c.task # NoObj
    <3>1. Len(stack) = 1
      <4>1. Top.loop => Len(stack) = 1
        BY <1>0 DEF Shape, Top
      <4> QED  BY <1>0, <1>2, <2>3, <4>1
    <3>2. Len(stack') = 2 /\ DOMAIN stack' = 1 .. 2 /\ stack'[1] = stack[1] /\ stack'[2] = c
      BY <2>1, <3>1
    <3>3. sched'.running = c.task
      BY <1>2, <2>3
    <3>4. 1 \in DOMAIN stack /\ \A i \in DOMAIN stack' : i = 1 \/ i = 2
      BY <1>0, <3>2
    <3> QED  BY <1>2, <2>3, <3>2, <3>3, <3>4 DEF Shape
  <2> QED  BY <2>2, <2>3
<1>3. ASSUME Leaves(stack'),
             \/ sched'.running = sched.running /\ Top.kind = "fiber"
             \/ sched'.running = NoObj /\ Top.kind = "task"
      PROVE  Shape'
  <2>1. /\ Len(stack') = Len(stack) - 1
        /\ DOMAIN stack' = DOMAIN stack \ {Len(stack)}
        /\ \A i \in DOMAIN stack' : stack'[i] = stack[i]
    BY <1>3, StackStepsAt
  <2>2. Len(stack) # 1
    BY <1>0, <1>3 DEF Leaves
  <2>3. sched'.running = IF Len(stack') = 1 THEN NoObj ELSE stack'[2].task
    <3>1. CASE Len(stack) = 2
      <4>1. Top.kind = "fiber" => Top.task = NoObj
        BY <1>0
      <4>2. Top = stack[2] /\ Len(stack') = 1
        BY <2>1, <3>1 DEF Top
      <4> QED  BY <1>3, <3>1, <4>1, <4>2 DEF Shape
    <3>2. CASE Len(stack) # 2
      <4>1. 2 \in DOMAIN stack' /\ Len(stack') # 1
        BY <1>0, <2>1, <2>2, <3>2
      <4>2. Top.task = NoObj
        BY <1>0, <3>2 DEF Shape, Top
      <4>3. sched'.running = sched.running
        BY <1>0, <1>3, <4>2
      <4> QED  BY <2>1, <2>2, <4>1, <4>3 DEF Shape
    <3> QED  BY <3>1, <3>2
  <2>4. NoFibers => Len(stack') <= 2 /\ (Len(stack') = 2 => stack'[2].task # NoObj)
    BY <1>0, <2>1 DEF Shape
  <2>5. \A i \in DOMAIN stack' : i \in DOMAIN stack
    BY <2>1
  <2> QED  BY <2>1, <2>3, <2>4, <2>5 DEF Shape
<1>4. ASSUME NEW b \in BOOLEAN, ~NoFibers, sched'.running = sched.running,
             stack' = Append(stack, FiberContext(b))
      PROVE  Shape'
  <2>1. FiberContext(b) \in Contexts /\ FiberContext(b).task = NoObj
    BY NewContexts
  <2>2. ~FiberContext(b).loop
    BY DEF FiberContext, Root
  <2> QED  BY <1>2, <1>4, <2>1, <2>2
<1>5. ASSUME sched'.running \in Tasks, stack' = Append(stack, TaskContext(sched'.running)),
             Top.kind = "root" \/ Top.loop
      PROVE  Shape'
  <2> DEFINE c == TaskContext(sched'.running)
  <2>1. c \in Contexts /\ c.task = sched'.running /\ c.task # NoObj
    BY <1>5, NewContexts, ConstantsAssumption
  <2>2. ~c.loop
    BY DEF TaskContext, Root
  <2>3. stack' = Append(stack, c)
    BY <1>5
  <2> HIDE DEF c
  <2> QED  BY <1>2, <1>5, <2>1, <2>2, <2>3
<1> QED  BY <1>1, <1>3, <1>4, <1>5, HandsNext DEF Hands

\* The task on the CPU is the one the scheduler runs.
LEMMA ShapeNamesTheTask ==
  ASSUME SchedTypeOK, Shape
  PROVE  OnCpu # NoObj => OnCpu = CurrentTask
<1>1. Len(stack) \in Nat /\ Len(stack) >= 1 /\ DOMAIN stack = 1 .. Len(stack)
  BY TopType DEF SchedTypeOK, StackOK
<1>2. OnCpu # NoObj => Len(stack) = 2
  BY <1>1 DEF OnCpu, Top, Shape
<1>3. OnCpu # NoObj => sched.running = OnCpu
  BY <1>2 DEF OnCpu, Top, Shape
<1> QED  BY <1>3 DEF CurrentTask

---------------------------------------------------------------------------
(* The contexts of what stands on the stack *)

\* Among the queued tasks those are over whose context is dead, and no others.
Ended ==
  \A t \in Tasks :
    IsQueued(sched, t) => (sched.task[t].status = "DORMANT" <=> sched.task[t].ctx = "dead")

\* The program keeps to Task.run or to fibers, and the stack keeps its shape.
StackInv == WakeInv /\ Shape /\ Ended

LEMMA StackInit == SchedInit => StackInv
<1> SUFFICES ASSUME SchedInit PROVE Ended
  BY WakeInit, ShapeInit DEF StackInv
<1>1. PICK from \in IndexFroms : sched = InitialState(from)
  BY DEF SchedInit
<1>2. \A t \in Tasks : ~IsQueued(sched, t)
  BY <1>1 DEF InitialState, InitialTask, IsQueued, NONE
<1> QED  BY <1>2 DEF Ended

\* Every step keeps it.
LEMMA StackNext ==
  ASSUME Apart
  PROVE  StackInv /\ [SchedNext]_svars => StackInv'
<1> SUFFICES ASSUME WakeInv, Shape, Ended, [SchedNext]_svars
             PROVE  Shape' /\ Ended'
  BY WakeNext DEF StackInv
<1>0. SchedTypeOK /\ Sound(sched)
  BY DEF WakeInv, SoundInv
<1>1. CASE UNCHANGED svars
  BY <1>1 DEF svars, Shape, Ended, IsQueued
<1>2. CASE SchedNext
  <2>1. Shape'
    BY <1>0, <1>2, ShapeKept
  <2>2. PICK W \in SUBSET Tasks, o \in Tasks \cup {NoObj} :
          Turns(sched, sched', W, o) /\ Accounts(W, o)
    BY <1>0, <1>2, SchedNextTurns DEF Accounted, WakeInv
  <2>3. SUFFICES ASSUME NEW t \in Tasks, IsQueued(sched', t)
                 PROVE  sched'.task[t].status = "DORMANT" <=> sched'.task[t].ctx = "dead"
    BY <2>1 DEF Ended, IsQueued
  <2>4. CASE t \in W
    <3>1. /\ sched.task[t].status = "WAITING" /\ sched'.task[t].status = "READY"
          /\ sched'.task[t].ctx = sched.task[t].ctx /\ IsQueued(sched, t)
      BY <2>2, <2>3, <2>4 DEF Turns
    <3> QED  BY <3>1 DEF Ended
  <2>5. CASE t \notin W /\ t # o
    <3>1. /\ sched'.task[t].status = sched.task[t].status
          /\ sched'.task[t].ctx = sched.task[t].ctx /\ IsQueued(sched, t)
      BY <2>2, <2>3, <2>5 DEF Turns
    <3> QED  BY <3>1 DEF Ended
  <2>6. CASE t = o
    <3>1. ~(Terminate(t) /\ t = OnCpu)
      <4>1. Terminate(t) => t # CurrentTask
        BY DEF Terminate
      <4>2. t # NoObj
        BY ConstantsAssumption
      <4> QED  BY <1>0, <4>1, <4>2, ShapeNamesTheTask
    <3>2. Settles(t)
      BY <2>2, <2>6 DEF Accounts
    <3> QED  BY <2>3, <3>1, <3>2 DEF Settles, Ended
  <2> QED  BY <2>4, <2>5, <2>6
<1> QED  BY <1>1, <1>2

\* NoReentry: a task stands on the host stack once at most, whoever drives it
\* (task_run, scheduler_step), in a program that does not mix Task.run and
\* fibers.
THEOREM TasksStandOnce ==
  ASSUME Apart
  PROVE  SchedSpec => []NoReentry
<1>1. StackInv => NoReentry
  BY DEF StackInv, Shape, NoReentry
<1>2. StackInv /\ [SchedNext]_svars => StackInv'
  BY StackNext
<1> QED  BY <1>1, <1>2, StackInit, PTL DEF SchedSpec

\* StatusNamesQueue: a queued task is in the queue its status names, under its
\* own priority, and who has nothing left to run is in none a scheduler takes
\* tasks from (requeue, stop_task), in a program that does not mix Task.run and
\* fibers.
THEOREM QueuesFollowStatus ==
  ASSUME Apart
  PROVE  SchedSpec => []StatusNamesQueue
<1>1. StackInv => StatusNamesQueue
  <2> SUFFICES ASSUME StackInv, NEW t \in Tasks, IsQueued(sched, t)
               PROVE  LET d == sched.task[t]
                      IN /\ d.place.q = QOf(d.status)
                         /\ d.place.pri = IF d.place.q = "ready" THEN d.priority ELSE 0
                         /\ d.place.q = "dormant" <=> d.ctx = "dead"
    BY DEF StatusNamesQueue
  <2>1. Filed(sched.task[t])
    BY DEF StackInv, WakeInv, SoundInv, Sound, Orderly
  <2>2. sched.task[t].status \in Statuses
    BY TaskFields, StateFields DEF StackInv, WakeInv, SoundInv, SchedTypeOK, TaskTable
  <2>3. QOf(sched.task[t].status) = "dormant" <=> sched.task[t].status = "DORMANT"
    BY <2>2 DEF QOf, Statuses
  <2> QED  BY <2>1, <2>3 DEF Filed, IsQueued, StackInv, Ended
<1>2. StackInv /\ [SchedNext]_svars => StackInv'
  BY StackNext
<1> QED  BY <1>1, <1>2, StackInit, PTL DEF SchedSpec

\* StackIsAlive: nothing throws away frames the VM will return into: what stands
\* on the stack has its context (stop_task, Task#close), in a program without
\* fibers.
THEOREM NothingOnTheStackIsDead ==
  ASSUME NoFibers
  PROVE  SchedSpec => []StackIsAlive
<1> DEFINE Inv == StackInv /\ StackIsAlive
<1>a. Apart
  BY DEF Apart
<1>1. SchedInit => Inv
  <2>1. SchedInit => stack = <<Root>> /\ Root.task = NoObj
    BY DEF SchedInit, Root
  <2> QED  BY <2>1, StackInit DEF StackIsAlive
<1>2. Inv /\ [SchedNext]_svars => Inv'
  <2> SUFFICES ASSUME StackInv, StackIsAlive, [SchedNext]_svars
               PROVE  StackIsAlive'
    BY <1>a, StackNext
  <2>0. SchedTypeOK /\ Sound(sched) /\ Shape /\ Shape' /\ SchedTypeOK'
    BY <1>a, StackNext DEF StackInv, WakeInv, SoundInv
  <2>1. CASE UNCHANGED svars
    BY <2>1 DEF svars, StackIsAlive
  <2>2. CASE SchedNext
    <3>1. PICK W \in SUBSET Tasks, o \in Tasks \cup {NoObj} :
            Turns(sched, sched', W, o) /\ Accounts(W, o)
      BY <2>0, <2>2, SchedNextTurns DEF Accounted, StackInv, WakeInv
    <3>2. SUFFICES ASSUME Len(stack') = 2, stack'[2].task # NoObj,
                          sched'.running = stack'[2].task
                   PROVE  sched'.task[stack'[2].task].ctx = "live"
      <4>1. DOMAIN stack' = 1 .. Len(stack') /\ Len(stack') \in Nat
        BY <2>0 DEF SchedTypeOK, StackOK
      <4>2. \A i \in DOMAIN stack' : stack'[i].task # NoObj =>
              i = 2 /\ Len(stack') = 2 /\ sched'.running = stack'[2].task
        BY <2>0, <4>1 DEF Shape
      <4> QED  BY <4>2 DEF StackIsAlive
    <3>3. Hands
      BY <2>0, <2>2, HandsNext
    <3>4. CASE sched'.running = sched.running /\ StackStays
      <4> DEFINE r == sched.running
      <4>1. /\ Len(stack') = Len(stack)
            /\ \A i \in DOMAIN stack : stack'[i].task = stack[i].task
        BY <2>0, <3>4, MarkAt, ZenonT(60) DEF StackStays
      <4>2. Len(stack) = 2 /\ DOMAIN stack = 1 .. 2 /\ stack[2].task = r /\ r # NoObj
        <5>1. Len(stack) = 2 /\ r # NoObj
          BY <3>2, <3>4, <4>1
        <5>2. DOMAIN stack = 1 .. 2
          BY <2>0, <5>1 DEF SchedTypeOK, StackOK
        <5>3. stack[2].task = r
          BY <2>0, <5>1 DEF Shape
        <5> QED  BY <5>1, <5>2, <5>3
      <4>3. r \in Tasks /\ r = CurrentTask /\ sched.task[r].ctx = "live"
        <5>1. OnCpu = r
          BY <4>2 DEF OnCpu, Top
        <5>2. OnCpu = CurrentTask
          BY <2>0, <4>2, <5>1, ShapeNamesTheTask
        <5>3. r \in Tasks
          BY <2>0, <4>2, StateFields DEF SchedTypeOK
        <5> QED  BY <4>2, <5>1, <5>2, <5>3 DEF StackIsAlive
      <4>4. ~Leaves(stack')
        <5>1. Leaves(stack') => Len(stack') = Len(stack) - 1
          BY <2>0, StackStepsAt
        <5> QED  BY <4>1, <4>2, <5>1
      <4>5. sched'.task[r].ctx = "live"
        <5>1. CASE r = o
          <6>1. Spares(o)
            BY <3>1, <4>3, <5>1 DEF Accounts
          <6> QED  BY <4>3, <4>4, <5>1, <6>1 DEF Spares
        <5>2. CASE r # o
          BY <3>1, <4>3, <5>2 DEF Turns
        <5> QED  BY <5>1, <5>2
      <4> QED  BY <3>2, <3>4, <4>5
    <3>5. CASE Leaves(stack')
      <4>1. Len(stack') = Len(stack) - 1
        BY <2>0, <3>5, StackStepsAt
      <4>2. Len(stack) \in Nat /\ Len(stack) <= 2
        BY <2>0 DEF Shape, SchedTypeOK, StackOK
      <4> QED  BY <3>2, <4>1, <4>2
    <3>6. CASE sched'.running \in Tasks /\ sched'.task[sched'.running].ctx = "live"
      BY <3>2, <3>6
    <3> QED  BY <3>3, <3>4, <3>5, <3>6 DEF Hands
  <2> QED  BY <2>1, <2>2
<1>3. Inv => StackIsAlive
  OBVIOUS
<1> QED  BY <1>1, <1>2, <1>3, PTL DEF SchedSpec
===========================================================================
