--------------------------- MODULE TaskQueueProofs ---------------------------
(***************************************************************************)
(* Why no wake-up of a Task::Queue is lost, and why no reader waits past   *)
(* the timeout it gave.                                                    *)
(*                                                                         *)
(* Both follow from what a task inside the loop of Queue#pop may rely on   *)
(* (LoopInv).  A step of the scheduler is gentle with such a task: nobody  *)
(* begins to wait for a queue by it, nobody but the task the step is about *)
(* stops being able to run, and no deadline that was over comes back.  The *)
(* steps of the queues are the others: one reader asks, leaves, or is      *)
(* woken.  Two hypotheses are taken.  Apart, that the tasks, the objects   *)
(* waited for and NoObj differ; NoStops, that nobody suspends, terminates  *)
(* or closes a task: a woken reader that is stopped before it asks again   *)
(* takes the wake-up with it, and then the next reader sleeps beside an    *)
(* item.  That is what the code does, so the theorems say it.              *)
(***************************************************************************)
EXTENDS TaskQueue, TaskStackProofs, FiniteSetTheorems

---------------------------------------------------------------------------
(* What a step of the scheduler leaves alone *)

\* The task stands in a queue, or can get the CPU.
Reads(d) == d.status = "WAITING" /\ d.reason = "QUEUE"
Active(d) == d.status \in {"READY", "RUNNING"}

\* From d to e nobody begins to read, and a deadline that is not over is not
\* over.
BeginsNoRead(d, e) ==
  Reads(e) => /\ Reads(d) /\ e.queue = d.queue
              /\ e.wakeup_tick = 0 => d.wakeup_tick = 0

\* From d to e a task is not stopped, nor taken from its queue but to run.
Undisturbed(d, e) ==
  /\ Active(d) => Active(e)
  /\ Reads(d) => Reads(e) \/ Active(e)

\* Of any queued tasks one arrived first.
Ordered(st) ==
  \A S \in SUBSET {t \in Tasks : IsQueued(st, t)} :
    S # {} => \E t \in Tasks : IsEarliest(st, S, t)

\* A step from `st` to `nx` in which only `o` may lose its turn.
Gently(st, nx, o) ==
  /\ \A t \in Tasks : /\ BeginsNoRead(st.task[t], nx.task[t])
                      /\ t # o => Undisturbed(st.task[t], nx.task[t])
  /\ Ordered(st) => Ordered(nx)

\* One gentle step after the other.
LEMMA GentlyTwice ==
  ASSUME NEW a, NEW b, NEW c, NEW o, Gently(a, b, o), Gently(b, c, o)
  PROVE  Gently(a, c, o)
BY DEF Gently, BeginsNoRead, Undisturbed, Reads, Active

\* The order depends on the arrivals of what is queued.
LEMMA OrderedSame ==
  ASSUME NEW st, NEW nx, \A t \in Tasks : IsQueued(nx, t) => IsQueued(st, t),
         \A t, u \in Tasks : IsQueued(nx, t) /\ IsQueued(nx, u) /\ t # u
           /\ <<t, u>> \in st.arrived => <<t, u>> \in nx.arrived,
         Ordered(st)
  PROVE  Ordered(nx)
<1> SUFFICES ASSUME NEW S \in SUBSET {t \in Tasks : IsQueued(nx, t)}, S # {}
             PROVE  \E t \in Tasks : IsEarliest(nx, S, t)
  BY DEF Ordered
<1>1. S \in SUBSET {t \in Tasks : IsQueued(st, t)}
  OBVIOUS
<1>2. PICK t \in Tasks : IsEarliest(st, S, t)
  BY <1>1 DEF Ordered
<1>3. IsEarliest(nx, S, t)
  BY <1>2 DEF IsEarliest
<1> QED  BY <1>3

\* Tasks put behind the others keep it.
LEMMA OrderedBack ==
  ASSUME NEW st, NEW nx, NEW D \in SUBSET Tasks, Ordered(st),
         nx.arrived = MovedBack(st.arrived, {t \in Tasks : IsQueued(st, t)}, D),
         \A t \in Tasks \ D : IsQueued(nx, t) => IsQueued(st, t),
         \/ \A t \in D : IsQueued(st, t)
         \/ \E t \in Tasks : D = {t}
  PROVE  Ordered(nx)
<1> DEFINE queued == {t \in Tasks : IsQueued(st, t)}
<1> SUFFICES ASSUME NEW S \in SUBSET {t \in Tasks : IsQueued(nx, t)}, S # {}
             PROVE  \E t \in Tasks : IsEarliest(nx, S, t)
  BY DEF Ordered
<1>1. \A t, u \in Tasks :
        /\ (t \in D <=> u \in D) /\ <<t, u>> \in st.arrived => <<t, u>> \in nx.arrived
        /\ t \in queued \ D /\ u \in D => <<t, u>> \in nx.arrived
  BY DEF MovedBack
<1>2. CASE S \subseteq D
  <2>1. CASE \A t \in D : IsQueued(st, t)
    <3>1. S \in SUBSET queued
      BY <1>2, <2>1
    <3>2. PICK t \in Tasks : IsEarliest(st, S, t)
      BY <3>1 DEF Ordered
    <3> HIDE DEF queued
    <3>3. IsEarliest(nx, S, t)
      BY <1>1, <1>2, <3>2 DEF IsEarliest
    <3> QED  BY <3>3
  <2>2. ASSUME NEW t \in Tasks, D = {t}
        PROVE  \E u \in Tasks : IsEarliest(nx, S, u)
    <3>1. S = {t}
      BY <1>2, <2>2
    <3>2. IsEarliest(nx, S, t)
      BY <3>1 DEF IsEarliest
    <3> QED  BY <3>2
  <2> QED  BY <2>1, <2>2
<1>3. CASE ~(S \subseteq D)
  <2>1. S \ D \in SUBSET queued /\ S \ D # {}
    BY <1>3
  <2>2. PICK t \in Tasks : IsEarliest(st, S \ D, t)
    BY <2>1 DEF Ordered
  <2>3. t \in S /\ t \in queued \ D
    BY <2>1, <2>2 DEF IsEarliest
  <2>4. ASSUME NEW u \in S \ {t}
        PROVE  <<t, u>> \in nx.arrived
    <3>1. u \in Tasks
      OBVIOUS
    <3>2. CASE u \in D
      BY <1>1, <2>3, <3>1, <3>2
    <3>3. CASE u \notin D
      <4>1. <<t, u>> \in st.arrived
        BY <2>2, <2>4, <3>3 DEF IsEarliest
      <4> QED  BY <1>1, <2>3, <3>1, <3>3, <4>1
    <3> QED  BY <3>2, <3>3
  <2>5. IsEarliest(nx, S, t)
    BY <2>3, <2>4 DEF IsEarliest
  <2> QED  BY <2>5
<1> QED  BY <1>2, <1>3

\* The same tasks in the same places.
LEMMA GentlySame ==
  ASSUME NEW st, NEW nx, NEW o,
         \A t \in Tasks : /\ nx.task[t].status = st.task[t].status
                          /\ nx.task[t].reason = st.task[t].reason
                          /\ nx.task[t].queue = st.task[t].queue
                          /\ nx.task[t].wakeup_tick = st.task[t].wakeup_tick
                          /\ IsQueued(nx, t) <=> IsQueued(st, t),
         nx.arrived = st.arrived
  PROVE  Gently(st, nx, o)
<1>1. Ordered(st) => Ordered(nx)
  BY OrderedSame
<1> QED  BY <1>1 DEF Gently, BeginsNoRead, Undisturbed, Reads, Active

LEMMA GentlySameTasks ==
  ASSUME NEW st, NEW nx, NEW o, SameTasks(st, nx)
  PROVE  Gently(st, nx, o)
BY GentlySame DEF SameTasks, SameFields

\* Tasks put behind a queue.
LEMMA GentlyRequeues ==
  ASSUME NEW st, NEW nx, NEW t \in Tasks, NEW data, NEW o, Requeues(st, nx, {t}, data),
         BeginsNoRead(st.task[t], data[t]),
         t # o => Undisturbed(st.task[t], data[t])
  PROVE  Gently(st, nx, o)
<1>1. \A u \in Tasks \ {t} : /\ SameFields(nx.task[u], st.task[u])
                             /\ IsQueued(nx, u) <=> IsQueued(st, u)
  BY DEF Requeues, IsQueued
<1>2. SameFields(nx.task[t], data[t])
  BY DEF Requeues
<1>3. nx.arrived = MovedBack(st.arrived, {u \in Tasks : IsQueued(st, u)}, {t})
  BY DEF Requeues
<1>4. Ordered(st) => Ordered(nx)
  <2> DEFINE D == {t}
  <2>1. D \in SUBSET Tasks /\ \E u \in Tasks : D = {u}
    OBVIOUS
  <2>2. /\ nx.arrived = MovedBack(st.arrived, {u \in Tasks : IsQueued(st, u)}, D)
        /\ \A u \in Tasks \ D : IsQueued(nx, u) => IsQueued(st, u)
    BY <1>1, <1>3
  <2> HIDE DEF D
  <2> QED  BY <2>1, <2>2, OrderedBack
<1>5. ASSUME NEW u \in Tasks
      PROVE  /\ BeginsNoRead(st.task[u], nx.task[u])
             /\ u # o => Undisturbed(st.task[u], nx.task[u])
  <2>1. CASE u = t
    BY <1>2, <2>1 DEF SameFields, BeginsNoRead, Undisturbed, Reads, Active
  <2>2. CASE u # t
    BY <1>1, <2>2 DEF SameFields, BeginsNoRead, Undisturbed, Reads, Active
  <2> QED  BY <2>1, <2>2
<1> QED  BY <1>4, <1>5 DEF Gently

\* Tasks woken together.
LEMMA GentlyWakes ==
  ASSUME NEW st, NEW nx, NEW D, NEW o, Orderly(st), Wakes(st, nx, D)
  PROVE  Gently(st, nx, o)
<1>1. D \in SUBSET Tasks /\ \A t \in D : IsQueued(st, t)
  BY DEF Wakes, Orderly, Filed, IsQueued
<1>2. Ordered(st) => Ordered(nx)
  BY <1>1, OrderedBack DEF Wakes
<1>3. ASSUME NEW t \in Tasks
      PROVE  /\ BeginsNoRead(st.task[t], nx.task[t])
             /\ Undisturbed(st.task[t], nx.task[t])
  <2>1. CASE t \in D
    BY <2>1 DEF Wakes, BeginsNoRead, Undisturbed, Reads, Active
  <2>2. CASE t \notin D
    BY <2>2 DEF Wakes, SameFields, BeginsNoRead, Undisturbed, Reads, Active
  <2> QED  BY <2>1, <2>2
<1> QED  BY <1>2, <1>3 DEF Gently

\* Time passes.
LEMMA GentlyPasses ==
  ASSUME NEW st \in States, NEW n \in Nat, NEW o, Sound(st)
  PROVE  Gently(st, AdvanceTicks(st, n), o)
<1> DEFINE nx == AdvanceTicks(st, n)
<1>1. Prompt(nx) /\ \E D \in SUBSET Tasks : Passes(st, nx, n, D)
  BY AdvanceTicksSound
<1> HIDE DEF nx
<1>2. PICK D \in SUBSET Tasks : Passes(st, nx, n, D)
  BY <1>1
<1>3. \A t \in D : IsQueued(st, t)
  BY <1>2 DEF Passes, Sound, Orderly, Filed, IsQueued
<1>4. Ordered(st) => Ordered(nx)
  BY <1>2, <1>3, OrderedBack DEF Passes
<1>5. ASSUME NEW t \in Tasks
      PROVE  /\ BeginsNoRead(st.task[t], nx.task[t])
             /\ Undisturbed(st.task[t], nx.task[t])
  <2>1. CASE t \in D
    BY <1>2, <2>1 DEF Passes, BeginsNoRead, Undisturbed, Reads, Active
  <2>2. CASE t \notin D
    <3>1. /\ nx.task[t].status = st.task[t].status /\ nx.task[t].reason = st.task[t].reason
          /\ nx.task[t].queue = st.task[t].queue
      BY <1>2, <2>2 DEF Passes
    <3>2. Reads(nx.task[t]) => nx.task[t].wakeup_tick # 0
      BY <1>1, ConstantsAssumption DEF Prompt, Reads, HasDeadline, Never
    <3> QED  BY <3>1, <3>2 DEF BeginsNoRead, Undisturbed, Reads, Active
  <2> QED  BY <2>1, <2>2
<1> QED  BY <1>4, <1>5 DEF Gently, nx

---------------------------------------------------------------------------
(* The steps of the scheduler, one by one *)

\* A task is given a status: it is `o`, or can run anyway, or is made ready.
LEMMA GentlySets ==
  ASSUME NEW st, NEW nx, NEW t \in Tasks, NEW status, NEW o, Sets(st, nx, t, status),
         status # "WAITING", t = o \/ status \in {"READY", "RUNNING"}
  PROVE  Gently(st, nx, o)
<1>1. /\ nx.task[t].status = status
      /\ \A u \in Tasks \ {t} : /\ SameFields(nx.task[u], st.task[u])
                                /\ IsQueued(nx, u) <=> IsQueued(st, u)
      /\ nx.arrived = MovedBack(st.arrived, {u \in Tasks : IsQueued(st, u)}, {t})
  BY DEF Sets
<1>2. Ordered(st) => Ordered(nx)
  <2> DEFINE D == {t}
  <2>1. D \in SUBSET Tasks /\ \E u \in Tasks : D = {u}
    OBVIOUS
  <2>2. /\ nx.arrived = MovedBack(st.arrived, {u \in Tasks : IsQueued(st, u)}, D)
        /\ \A u \in Tasks \ D : IsQueued(nx, u) => IsQueued(st, u)
    BY <1>1
  <2> HIDE DEF D
  <2> QED  BY <2>1, <2>2, OrderedBack
<1>3. ASSUME NEW u \in Tasks
      PROVE  /\ BeginsNoRead(st.task[u], nx.task[u])
             /\ u # o => Undisturbed(st.task[u], nx.task[u])
  <2>1. CASE u = t
    BY <1>1, <2>1 DEF BeginsNoRead, Undisturbed, Reads, Active
  <2>2. CASE u # t
    BY <1>1, <2>2 DEF SameFields, BeginsNoRead, Undisturbed, Reads, Active
  <2> QED  BY <2>1, <2>2
<1> QED  BY <1>2, <1>3 DEF Gently

\* A task that ends by itself.
LEMMA GentlyStops ==
  ASSUME NEW st \in States, NEW t \in Tasks, NEW cur, Orderly(st)
  PROVE  Gently(st, StopTask(st, t, cur), t)
<1> DEFINE nx == StopTask(st, t, cur)
<1>1. PICK gone \in States :
        /\ Orderly(gone) /\ Ends(st, gone, t, cur)
        /\ nx = JoinWaitersWoken(gone, t)
  BY StopTaskSteps
<1>2. \E J : Wakes(gone, nx, J)
  BY <1>1, JoinWaitersWokenKeeps
<1> HIDE DEF nx
<1>3. Gently(gone, nx, t)
  BY <1>1, <1>2, GentlyWakes
<1>4. Ordered(st) => Ordered(gone)
  <2>1. CASE IsQueued(st, t)
    <3> DEFINE D == {t}
    <3>1. D \in SUBSET Tasks /\ \E u \in Tasks : D = {u}
      OBVIOUS
    <3>2. /\ gone.arrived = MovedBack(st.arrived, {u \in Tasks : IsQueued(st, u)}, D)
          /\ \A u \in Tasks \ D : IsQueued(gone, u) => IsQueued(st, u)
      BY <1>1, <2>1 DEF Ends
    <3> HIDE DEF D
    <3> QED  BY <3>1, <3>2, OrderedBack
  <2>2. CASE ~IsQueued(st, t)
    <3>1. gone.arrived = st.arrived /\ \A u \in Tasks : IsQueued(gone, u) <=> IsQueued(st, u)
      BY <1>1, <2>2 DEF Ends
    <3> QED  BY <3>1, OrderedSame
  <2> QED  BY <2>1, <2>2
<1>5. Gently(st, gone, t)
  <2>1. ASSUME NEW u \in Tasks
        PROVE  /\ BeginsNoRead(st.task[u], gone.task[u])
               /\ u # t => Undisturbed(st.task[u], gone.task[u])
    <3>1. CASE u = t
      BY <1>1, <3>1 DEF Ends, BeginsNoRead, Reads
    <3>2. CASE u # t
      BY <1>1, <3>2 DEF Ends, SameFields, BeginsNoRead, Undisturbed, Reads, Active
    <3> QED  BY <3>1, <3>2
  <2> QED  BY <1>4, <2>1 DEF Gently
<1> QED  BY <1>3, <1>5, GentlyTwice DEF nx

\* A task leaves the CPU.
LEMMA GentlyLeft ==
  ASSUME NEW st \in States, NEW t \in Tasks, NEW cur, NEW o, Sound(st),
         t = o \/ st.task[t].ctx # "dead"
  PROVE  Gently(st, Left(st, t, cur), o)
<1> DEFINE back == [st EXCEPT !.running = NoObj, !.switching = FALSE]
           nx == Left(st, t, cur)
<1>1. /\ back \in States /\ Sound(back) /\ back.task = st.task /\ SameTasks(st, back)
  BY SetFlagsKeep
<1>2. nx = IF st.task[t].ctx = "dead" THEN StopTask(back, t, cur)
           ELSE IF st.task[t].status = "RUNNING" THEN SetStatus(back, t, "READY")
           ELSE back
  BY DEF Left
<1> HIDE DEF back, nx
<1>3. Gently(st, back, o)
  BY <1>1, GentlySameTasks
<1>4. CASE st.task[t].ctx = "dead"
  <2>1. Gently(back, nx, t)
    BY <1>1, <1>2, <1>4, GentlyStops DEF Sound
  <2> QED  BY <1>3, <1>4, <2>1, GentlyTwice DEF nx
<1>5. CASE st.task[t].ctx # "dead" /\ st.task[t].status = "RUNNING"
  <2>1. Sets(back, nx, t, "READY")
    BY <1>1, <1>2, <1>5, SetStatusSound DEF Statuses
  <2>2. Gently(back, nx, o)
    BY <2>1, GentlySets
  <2> QED  BY <1>3, <2>2, GentlyTwice DEF nx
<1>6. CASE st.task[t].ctx # "dead" /\ st.task[t].status # "RUNNING"
  BY <1>2, <1>3, <1>6 DEF nx
<1> QED  BY <1>4, <1>5, <1>6

\* A task gets the CPU.
LEMMA GentlyRunsHead ==
  ASSUME SchedTypeOK, Sound(sched), RunsHead, NEW o
  PROVE  Gently(sched, sched', o)
<1>0. sched \in States
  BY DEF SchedTypeOK
<1>1. PICK t \in Tasks : IsFirst(sched, "ready", t) /\ sched' = Entered(sched, t)
  BY DEF RunsHead
<1>2. sched.task[t].place.q = "ready"
  BY <1>0, <1>1, HeadIsReady DEF Sound, Orderly, Consistent
<1>3. /\ sched'.task[t].status = "RUNNING"
      /\ \A u \in Tasks \ {t} : sched'.task[u] = sched.task[u]
      /\ \A u \in Tasks : IsQueued(sched', u) <=> IsQueued(sched, u)
      /\ sched'.arrived = sched.arrived
  BY <1>0, <1>1, <1>2, EnteredKeeps
<1>4. Ordered(sched) => Ordered(sched')
  BY <1>3, OrderedSame
<1>5. \A u \in Tasks : /\ BeginsNoRead(sched.task[u], sched'.task[u])
                       /\ Undisturbed(sched.task[u], sched'.task[u])
  <2>1. /\ BeginsNoRead(sched.task[t], sched'.task[t])
        /\ Undisturbed(sched.task[t], sched'.task[t])
    BY <1>3 DEF BeginsNoRead, Undisturbed, Reads, Active
  <2>2. ASSUME NEW u \in Tasks \ {t}
        PROVE  /\ BeginsNoRead(sched.task[u], sched'.task[u])
               /\ Undisturbed(sched.task[u], sched'.task[u])
    BY <1>3 DEF BeginsNoRead, Undisturbed
  <2> QED  BY <2>1, <2>2
<1> QED  BY <1>4, <1>5 DEF Gently

---------------------------------------------------------------------------
(* Whole steps *)

\* The instruction tick.
LEMMA GentlyTicked ==
  ASSUME NEW st \in States, NEW o, Sound(st)
  PROVE  Gently(st, Ticked(st), o)
<1> DEFINE nx == Ticked(st)
<1>1. /\ \E n \in 0 .. 1 : \E D \in SUBSET Tasks : Passes(st, nx, n, D)
      /\ Prompt(nx) \/ \E D \in SUBSET Tasks : Passes(st, nx, 0, D)
  BY TickedKeeps
<1> HIDE DEF nx
<1>2. ASSUME NEW n \in 0 .. 1, NEW D \in SUBSET Tasks, Passes(st, nx, n, D),
             Prompt(nx) \/ n = 0
      PROVE  Gently(st, nx, o)
  <2>1. \A t \in D : IsQueued(st, t)
    BY <1>2 DEF Passes, Sound, Orderly, Filed, IsQueued
  <2>2. Ordered(st) => Ordered(nx)
    BY <1>2, <2>1, OrderedBack DEF Passes
  <2>3. ASSUME NEW t \in Tasks
        PROVE  /\ BeginsNoRead(st.task[t], nx.task[t])
               /\ Undisturbed(st.task[t], nx.task[t])
    <3>1. CASE t \in D
      BY <1>2, <3>1 DEF Passes, BeginsNoRead, Undisturbed, Reads, Active
    <3>2. CASE t \notin D
      <4>1. /\ nx.task[t].status = st.task[t].status /\ nx.task[t].reason = st.task[t].reason
            /\ nx.task[t].queue = st.task[t].queue
            /\ nx.task[t].wakeup_tick = Later(st.task[t].wakeup_tick, n)
        BY <1>2, <3>2 DEF Passes
      <4>2. CASE Prompt(nx)
        <5>1. Reads(nx.task[t]) => nx.task[t].wakeup_tick # 0
          BY <4>2, ConstantsAssumption DEF Prompt, Reads, HasDeadline, Never
        <5> QED  BY <4>1, <5>1 DEF BeginsNoRead, Undisturbed, Reads, Active
      <4>3. CASE n = 0
        <5>1. Later(st.task[t].wakeup_tick, 0) = st.task[t].wakeup_tick
          <6>1. st.task[t].wakeup_tick \in Ticks
            BY StateFields, TaskFields DEF TaskTable
          <6> QED  BY <6>1, ConstantsAssumption DEF Later, Ticks, Never
        <5> QED  BY <4>1, <4>3, <5>1 DEF BeginsNoRead, Undisturbed, Reads, Active
      <4> QED  BY <1>2, <4>2, <4>3
    <3> QED  BY <3>1, <3>2
  <2> QED  BY <2>2, <2>3 DEF Gently
<1> QED  BY <1>1, <1>2 DEF nx

\* A switch: the task on the CPU leaves it, or a fiber of it.
LEMMA GentlySwitches ==
  ASSUME NEW st \in States, Sound(st), SchedTypeOK, SwitchedOut(st), NEW o,
         Top.kind = "task" => Top.task = o \/ st.task[Top.task].ctx # "dead"
  PROVE  Gently(st, sched', o)
<1>1. CASE Top.kind = "task"
  <2>1. Top.task \in Tasks
    BY <1>1, TopType
  <2> QED  BY <1>1, <2>1, GentlyLeft DEF SwitchedOut
<1>2. CASE Top.kind # "task"
  <2>1. SameTasks(st, sched')
    BY <1>2, SetFlagsKeep DEF SwitchedOut
  <2> QED  BY <2>1, GentlySameTasks
<1> QED  BY <1>1, <1>2

\* What the interpreter and the scheduler do between two calls stops nobody.
LEMMA GentlyMachineStep ==
  ASSUME SchedTypeOK, Sound(sched), MachineStep, NEW o
  PROVE  Gently(sched, sched', o)
<1>0. sched \in States /\ sched.wakeup_tick \in Nat
  BY StateFields, TicksAreNat DEF SchedTypeOK
<1>1. CASE Tick
  <2> DEFINE st == Ticked(sched)
  <2>1. st \in States /\ Sound(st) /\ Gently(sched, st, o)
    BY <1>0, TickedKeeps, GentlyTicked
  <2>2. Top.kind = "task" => st.task[Top.task].ctx # "dead"
    <3>1. Top.kind = "task" => Top.task \in Tasks /\ sched.task[Top.task].ctx = "live"
      BY <1>1, TopType DEF Tick, Runs, OnCpu
    <3>2. PICK n \in 0 .. 1 : \E D \in SUBSET Tasks : Passes(sched, st, n, D)
      BY <1>0, TickedKeeps
    <3> HIDE DEF st
    <3>3. \A t \in Tasks : st.task[t].ctx = sched.task[t].ctx
      BY <3>2 DEF Passes
    <3> QED  BY <3>1, <3>3
  <2>3. SwitchedOut(st) \/ sched' = st
    BY <1>1 DEF Tick
  <2> HIDE DEF st
  <2>4. SwitchedOut(st) => Gently(st, sched', o)
    BY <2>1, <2>2, GentlySwitches
  <2> QED  BY <2>1, <2>3, <2>4, GentlyTwice
<1>2. CASE Switch
  BY <1>0, <1>2, GentlySwitches DEF Switch, Runs, OnCpu
<1>3. CASE RunTurn
  BY <1>3, GentlyRunsHead DEF RunTurn
<1>4. CASE RunIdle
  BY <1>0, <1>4, GentlyPasses DEF RunIdle, Idle
<1>5. CASE RunEnd
  BY <1>0, <1>5, SetFlagsKeep, GentlySameTasks DEF RunEnd
<1> QED  BY <1>1, <1>2, <1>3, <1>4, <1>5 DEF MachineStep

\* Nobody stops a task but itself.
NoStops == Calls \cap {"suspend", "terminate", "close"} = {}

\* What a program calls stops nobody but the caller.
LEMMA GentlyCallStep ==
  ASSUME NoStops, SchedTypeOK, Sound(sched), CallStep
  PROVE  Gently(sched, sched', OnCpu)
<1>0. /\ sched \in States /\ sched.task \in TaskTable
      /\ CurrentTask \in {OnCpu, NoObj} /\ CurrentTask \in Tasks \cup {NoObj}
      /\ Orderly(sched) /\ Consistent(sched) /\ Keyed(sched)
      /\ \A t \in Tasks : Filed(sched.task[t]) /\ sched.task[t] \in TaskData
  BY StateFields, CurrentTaskType DEF SchedTypeOK, CurrentTask, Sound, Orderly, TaskTable
<1>p. ASSUME NEW st \in States, Sound(st), Gently(sched, st, OnCpu)
      PROVE  Gently(sched, Park(st), OnCpu)
  <2>1. SameTasks(st, Park(st))
    BY <1>p, ParkKeeps
  <2>2. Gently(st, Park(st), OnCpu)
    BY <2>1, GentlySameTasks
  <2> QED  BY <1>p, <2>2, GentlyTwice
<1>1. CASE sched' = sched
  <2>1. SameTasks(sched, sched')
    BY <1>1 DEF SameTasks, SameFields
  <2> QED  BY <2>1, GentlySameTasks
<1>2. CASE Pass \/ SleepForever
  <2>1. PICK status \in {"READY", "SUSPENDED"} :
          sched' = Park(SetStatus(sched, CurrentTask, status)) /\ CurrentTask # NoObj
    BY <1>2 DEF Pass, SleepForever
  <2> DEFINE me == CurrentTask
             st == SetStatus(sched, me, status)
  <2>2. me \in Tasks /\ me = OnCpu /\ sched' = Park(st)
    BY <1>0, <2>1
  <2> HIDE DEF me
  <2>3. st \in States /\ Sound(st) /\ Sets(sched, st, me, status)
    BY <1>0, <2>2, SetStatusSound DEF Statuses
  <2> HIDE DEF st
  <2>4. Gently(sched, st, OnCpu)
    BY <2>2, <2>3, GentlySets
  <2> QED  BY <1>p, <2>2, <2>3, <2>4
<1>r. ASSUME NEW st \in States, Consistent(st), Keyed(st), NEW t \in Tasks,
             \A u \in Tasks \ {t} : Filed(st.task[u]), NEW data \in TaskTable,
             Gently(sched, st, OnCpu), BeginsNoRead(st.task[t], data[t]),
             t # OnCpu => Undisturbed(st.task[t], data[t])
      PROVE  Gently(sched, Requeued(st, {t}, data), OnCpu)
  <2> DEFINE nx == Requeued(st, {t}, data)
  <2>1. Requeues(st, nx, {t}, data)
    BY <1>r, RequeuedOrderly
  <2> HIDE DEF nx
  <2>2. Gently(st, nx, OnCpu)
    BY <1>r, <2>1, GentlyRequeues
  <2> QED  BY <1>r, <2>2, GentlyTwice DEF nx
<1>s. Gently(sched, sched, OnCpu)
  BY GentlySame
<1>3. ASSUME NEW n \in 0 .. MaxWait, Sleep(n)
      PROVE  Gently(sched, sched', OnCpu)
  <2> DEFINE me == CurrentTask
             data == [sched.task EXCEPT ![me].status = "WAITING", ![me].reason = "SLEEP",
                                        ![me].wakeup_tick = n]
             asleep == Requeued(sched, {me}, data)
  <2>1. n \in Ticks
    BY ConstantsAssumption DEF Ticks, Never
  <2>2. me \in Tasks /\ me = OnCpu
    BY <1>0, <1>3 DEF Sleep
  <2>3. sched' = Park(NoteWakeup(asleep, n))
    BY <1>3 DEF Sleep
  <2> HIDE DEF me
  <2>4. data \in TaskTable
    BY <1>0, <2>1, <2>2, FieldsWritten, ConstantsAssumption
  <2>5. data[me].reason = "SLEEP"
    BY <1>0, <2>2 DEF TaskTable, TaskData
  <2> HIDE DEF data
  <2>6. asleep \in States /\ Gently(sched, asleep, OnCpu)
    <3>1. BeginsNoRead(sched.task[me], data[me])
      BY <2>5 DEF BeginsNoRead, Reads
    <3> QED  BY <1>0, <1>r, <1>s, <2>2, <2>4, <3>1, RequeuedType
  <2> HIDE DEF asleep
  <2>7. /\ NoteWakeup(asleep, n).task = asleep.task
        /\ NoteWakeup(asleep, n).arrived = asleep.arrived
        /\ NoteWakeup(asleep, n) \in States
    BY <2>1, <2>6, NoteWakeupKeeps
  <2> DEFINE noted == NoteWakeup(asleep, n)
  <2> HIDE DEF noted
  <2>8. sched'.task = asleep.task /\ sched'.arrived = asleep.arrived
    BY <2>3, <2>7 DEF Park, States, noted
  <2>9. Gently(asleep, sched', OnCpu)
    BY <2>8, GentlySame DEF IsQueued
  <2> QED  BY <2>6, <2>9, GentlyTwice
<1>4. ASSUME NEW n \in 0 .. MaxWait, SleepOutside(n) \/ HostAdvance(n)
      PROVE  Gently(sched, sched', OnCpu)
  BY <1>0, <1>4, GentlyPasses, ConstantsAssumption DEF SleepOutside, HostAdvance
<1>5. ASSUME NEW n \in IndexFroms, HostIndexFrom(n)
      PROVE  Gently(sched, sched', OnCpu)
  BY <1>0, <1>5, SetIndexFromKeeps, GentlySameTasks DEF HostIndexFrom, SameTasks
<1>6. CASE EnterNative \/ LeaveNative \/ EnterFiber \/ LeaveFiber
  BY <1>1, <1>6 DEF EnterNative, LeaveNative, EnterFiber, LeaveFiber
<1>7. CASE RootPass \/ HostStep
  <2>1. \/ RunsHead
        \/ sched' = Idle(sched) /\ sched.wakeup_tick \in Nat
    BY <1>0, <1>7, StateFields, TicksAreNat DEF RootPass, HostStep
  <2> QED  BY <1>0, <2>1, GentlyRunsHead, GentlyPasses DEF Idle
<1>8. CASE RunBegin
  BY <1>0, <1>8, SetFlagsKeep, GentlySameTasks DEF RunBegin
<1>9. CASE Finish
  <2> DEFINE me == Top.task
             st == [sched EXCEPT !.task[me].ctx = "dead"]
  <2>1. me \in Tasks /\ me = OnCpu
    BY <1>9, TopType DEF Finish, OnCpu
  <2>2. sched' = Left(st, me, stack[Len(stack) - 1].task)
    BY <1>9 DEF Finish
  <2> HIDE DEF me
  <2>3. st \in States /\ Sound(st)
    BY <1>0, <2>1, DeadKeeps
  <2>4. /\ \A u \in Tasks : /\ st.task[u].status = sched.task[u].status
                            /\ st.task[u].reason = sched.task[u].reason
                            /\ st.task[u].queue = sched.task[u].queue
                            /\ st.task[u].wakeup_tick = sched.task[u].wakeup_tick
                            /\ st.task[u].place = sched.task[u].place
        /\ st.arrived = sched.arrived
    BY <1>0, <2>1 DEF States, TaskTable, TaskData
  <2> HIDE DEF st
  <2>5. Gently(sched, st, OnCpu)
    BY <2>4, GentlySame DEF IsQueued
  <2>6. Gently(st, sched', OnCpu)
    BY <2>1, <2>2, <2>3, GentlyLeft
  <2> QED  BY <2>5, <2>6, GentlyTwice
<1>10. ASSUME NEW t \in Tasks, New(t) \/ Resume(t)
       PROVE  Gently(sched, sched', OnCpu)
  <2>1. PICK data : /\ sched' = Requeued(sched, {t}, data)
                    /\ data \in TaskTable /\ data[t].status = "READY"
    <3>1. CASE New(t)
      <4>1. PICK p \in Priorities :
              sched' = Requeued(sched, {t},
                  [sched.task EXCEPT ![t].ctx = "created", ![t].priority = p,
                                     ![t].status = "READY"])
        BY <3>1 DEF New
      <4> DEFINE data == [sched.task EXCEPT ![t].ctx = "created", ![t].priority = p,
                                            ![t].status = "READY"]
      <4>2. data \in TaskTable /\ data[t].status = "READY"
        BY <1>0, SMTT(30) DEF TaskTable, TaskData, Statuses
      <4> QED  BY <4>1, <4>2
    <3>2. CASE Resume(t)
      <4> DEFINE data == [sched.task EXCEPT ![t].status = "READY", ![t].reason = "NONE",
                                            ![t].wakeup_tick = Never]
      <4>1. sched' = Requeued(sched, {t}, data)
        BY <3>2 DEF Resume
      <4>2. data \in TaskTable /\ data[t].status = "READY"
        BY <1>0, TicksAreNat, SMTT(30) DEF TaskTable, TaskData, Statuses, Reasons
      <4> QED  BY <4>1, <4>2
    <3> QED  BY <1>10, <3>1, <3>2
  <2>2. /\ BeginsNoRead(sched.task[t], data[t])
        /\ Undisturbed(sched.task[t], data[t])
    BY <2>1 DEF BeginsNoRead, Undisturbed, Reads, Active
  <2> QED  BY <1>0, <1>r, <1>s, <2>1, <2>2
<1>11. ASSUME NEW t \in Tasks, Join(t)
       PROVE  Gently(sched, sched', OnCpu)
  <2> DEFINE me == CurrentTask
             data == [sched.task EXCEPT ![me].status = "WAITING", ![me].reason = "JOIN",
                                        ![me].join = t]
             nx == Requeued(sched, {me}, data)
  <2>1. me \in Tasks /\ me = OnCpu /\ sched' = Park(nx)
    BY <1>0, <1>11 DEF Join
  <2> HIDE DEF me
  <2>2. data \in TaskTable
    BY <1>0, <2>1, TicksAreNat, FieldsWritten, ConstantsAssumption
  <2>a. data[me].reason = "JOIN"
    BY <1>0, <2>1 DEF TaskTable, TaskData
  <2> HIDE DEF data
  <2>3. nx \in States /\ Gently(sched, nx, OnCpu)
    <3>1. BeginsNoRead(sched.task[me], data[me])
      BY <2>a DEF BeginsNoRead, Reads
    <3> QED  BY <1>0, <1>r, <1>s, <2>1, <2>2, <3>1, RequeuedType
  <2> HIDE DEF nx
  <2>4. sched'.task = nx.task /\ sched'.arrived = nx.arrived
    BY <2>1, <2>3 DEF Park, States
  <2>5. Gently(nx, sched', OnCpu)
    BY <2>4, GentlySame DEF IsQueued
  <2> QED  BY <2>3, <2>5, GentlyTwice
<1>12. ASSUME NEW t \in Tasks, NEW p \in Priorities, SetPriority(t, p)
       PROVE  Gently(sched, sched', OnCpu)
  <2> DEFINE out == QDelete(sched, t)
             data == [out.task EXCEPT ![t].priority = p]
  <2>1. sched' = Requeued(out, {t}, data)
    BY <1>12 DEF SetPriority
  <2>2. /\ out \in States /\ Consistent(out) /\ Keyed(out)
        /\ \A u \in Tasks \ {t} : out.task[u] = sched.task[u]
        /\ SameFields(out.task[t], sched.task[t]) /\ ~IsQueued(out, t)
    BY <1>0, QDeleteKeeps
  <2>3. out.arrived = {q \in sched.arrived : q[1] # t /\ q[2] # t}
    <3>1. /\ TakenOut(sched, {t}) \in States
          /\ TakenOut(sched, {t}).arrived = sched.arrived
      BY <1>0, TakenOutFields, TakenOutType
    <3> QED  BY <3>1 DEF QDelete, States
  <2> HIDE DEF out
  <2>4. /\ data \in TaskTable /\ data[t].status = out.task[t].status
        /\ data[t].reason = out.task[t].reason /\ data[t].queue = out.task[t].queue
        /\ data[t].wakeup_tick = out.task[t].wakeup_tick
    BY <2>2, StateFields DEF TaskTable, TaskData
  <2> HIDE DEF data
  <2>5. \A u \in Tasks : SameFields(out.task[u], sched.task[u])
    BY <2>2 DEF SameFields
  <2>6. Ordered(sched) => Ordered(out)
    <3>1. \A u \in Tasks : IsQueued(out, u) => u # t /\ IsQueued(sched, u)
      BY <2>2 DEF IsQueued
    <3>2. \A u, v \in Tasks : u # t /\ v # t /\ <<u, v>> \in sched.arrived
                             => <<u, v>> \in out.arrived
      BY <2>3
    <3> QED  BY <3>1, <3>2, OrderedSame
  <2>7. Gently(sched, out, OnCpu)
    BY <2>5, <2>6 DEF Gently, SameFields, BeginsNoRead, Undisturbed, Reads, Active
  <2>8. BeginsNoRead(out.task[t], data[t]) /\ Undisturbed(out.task[t], data[t])
    BY <2>4 DEF BeginsNoRead, Undisturbed, Reads, Active
  <2> QED  BY <1>0, <1>r, <2>1, <2>2, <2>4, <2>7, <2>8
<1>13. ~(TerminateSelf \/ \E t \in Tasks : Suspend(t) \/ Terminate(t) \/ Close(t))
  BY DEF NoStops, TerminateSelf, Suspend, Terminate, Close, Does
<1> QED  BY <1>2, <1>3, <1>4, <1>5, <1>6, <1>7, <1>8, <1>9, <1>10, <1>11, <1>12, <1>13
         DEF CallStep

---------------------------------------------------------------------------
(* What the operations of a queue do to the scheduler *)

\* The readers of a queue are what waits for it.
LEMMA WaitingForReaders ==
  ASSUME SchedTypeOK, Sound(sched), NEW q \in Queues
  PROVE  WaitingFor(sched, q) = Readers(q)
<1>1. WaitingFor(sched, q) =
        {t \in Tasks : sched.task[t].status = "WAITING" /\ TargetOf(sched.task[t]) = q}
  BY WaitingForExact DEF Sound, SchedTypeOK, Targets
<1>2. ASSUME NEW t \in Tasks
      PROVE  TargetOf(sched.task[t]) = q <=>
               sched.task[t].reason = "QUEUE" /\ sched.task[t].queue = q
  <2>1. sched.task[t].join \in Tasks \cup {NoObj}
    BY StateFields, TaskFields DEF SchedTypeOK, TaskTable
  <2>2. q # NoObj /\ sched.task[t].join # q
    BY <2>1, ConstantsAssumption
  <2> QED  BY <2>2 DEF TargetOf
<1> QED  BY <1>1, <1>2 DEF Readers

\* Some readers are woken.
LEMMA ReadersWokenKeeps ==
  ASSUME SchedTypeOK, Sound(sched), NEW q \in Queues, NEW D \in SUBSET Readers(q)
  PROVE  LET nx == ReadersWoken(sched, q, D)
         IN nx \in States /\ Sound(nx) /\ Wakes(sched, nx, D)
<1> DEFINE R == {t \in D : sched.task[t].reason = "QUEUE" /\ sched.task[t].queue = q}
           data == [t \in Tasks |-> Roused(sched.task[t])]
           woken == Requeued(sched, D, data)
           nx == ReadersWoken(sched, q, D)
<1>0. sched \in States /\ sched.task \in TaskTable /\ Orderly(sched)
  BY StateFields DEF SchedTypeOK, Sound
<1>1. D \in SUBSET Tasks /\ R = D /\ \A t \in D : sched.task[t].status = "WAITING"
  BY DEF Readers
<1>2. data \in TaskTable
  BY <1>0, RousedType DEF TaskTable
<1>3. \A t \in D : /\ data[t].status = "READY" /\ data[t].reason = "NONE"
                   /\ data[t].ctx = sched.task[t].ctx
  <2>1. \A t \in Tasks : sched.task[t] \in TaskData
    BY <1>0 DEF TaskTable
  <2> QED  BY <1>1, <2>1 DEF Roused, TaskData
<1>4. nx = [woken EXCEPT !.switching = woken.switching \/ D # {}]
  BY <1>1 DEF ReadersWoken
<1> HIDE DEF R, data
<1>5. woken \in States /\ Orderly(woken) /\ Wakes(sched, woken, D) /\ SameFlags(sched, woken)
  BY <1>0, <1>1, <1>2, <1>3, RequeuedWakes
<1> HIDE DEF woken, nx
<1>6. Sound(woken)
  <2>1. Timely(woken) /\ Joined(woken)
    BY <1>5, WakesTimely, WakesJoined DEF Sound, SameFlags
  <2> QED  BY <1>5, <2>1 DEF Sound
<1>7. /\ nx \in States /\ Sound(nx) /\ SameTasks(woken, nx)
      /\ nx.running = woken.running /\ nx.loop_running = woken.loop_running
      /\ woken.switching => nx.switching
  <2>1. CASE D # {}
    <3>1. nx = Park(woken)
      BY <1>4, <2>1 DEF Park
    <3> QED  BY <1>5, <1>6, <3>1, ParkKeeps
  <2>2. CASE D = {}
    <3>1. nx = woken
      BY <1>4, <1>5, <2>2 DEF States
    <3> QED  BY <1>5, <1>6, <3>1 DEF SameTasks, SameFields
  <2> QED  BY <2>1, <2>2
<1>8. Wakes(sched, nx, D)
  BY <1>5, <1>7 DEF Wakes, SameTasks, SameFields
<1> QED  BY <1>7, <1>8 DEF nx

\* A task is parked behind the readers of a queue.
Blocks(st, nx, me, q, by) ==
  /\ nx.task[me].status = "WAITING" /\ nx.task[me].reason = "QUEUE"
  /\ nx.task[me].queue = q /\ nx.task[me].wakeup_tick = by
  /\ nx.task[me].ctx = st.task[me].ctx
  /\ \A t \in Tasks \ {me} : SameFields(nx.task[t], st.task[t])
  /\ nx.running = st.running /\ nx.switching
  /\ Ordered(st) => Ordered(nx)

LEMMA BlockedKeeps ==
  ASSUME SchedTypeOK, Sound(sched), NEW me \in Tasks, NEW q \in Queues, NEW by \in Ticks
  PROVE  LET nx == Blocked(me, q, by)
         IN nx \in States /\ Sound(nx) /\ Blocks(sched, nx, me, q, by)
<1> DEFINE data == [sched.task EXCEPT ![me].status = "WAITING", ![me].reason = "QUEUE",
                                      ![me].queue = q, ![me].wakeup_tick = by,
                                      ![me].by = by]
           waits == Requeued(sched, {me}, data)
           noted == IF by = Never THEN waits ELSE NoteWakeup(waits, by)
           nx == Blocked(me, q, by)
<1>0. /\ sched \in States /\ sched.task \in TaskTable
      /\ \A t \in Tasks : sched.task[t] \in TaskData
  BY StateFields DEF SchedTypeOK, TaskTable
<1>1. nx = Park(noted)
  BY DEF Blocked
<1>2. data \in TaskTable
  <2> DEFINE d == [sched.task[me] EXCEPT !.status = "WAITING", !.reason = "QUEUE",
                                         !.queue = q, !.wakeup_tick = by, !.by = by]
  <2>1. d \in TaskData
    BY <1>0 DEF TaskData, Statuses, Reasons
  <2>2. data = [sched.task EXCEPT ![me] = d]
    BY <1>0 DEF TaskTable
  <2> HIDE DEF d, data
  <2> QED  BY <1>0, <2>1, <2>2 DEF TaskTable
<1>3. /\ data[me].status = "WAITING" /\ data[me].reason = "QUEUE"
      /\ data[me].queue = q /\ data[me].wakeup_tick = by
      /\ data[me].ctx = sched.task[me].ctx
  BY <1>0 DEF TaskTable, TaskData
<1> HIDE DEF data
<1>4. /\ waits \in States /\ Orderly(waits) /\ Joined(waits)
      /\ Requeues(sched, waits, {me}, data)
  BY <1>0, <1>2, <1>3, RequeuedOneKeeps DEF Sound, Orderly
<1> HIDE DEF waits
<1>5. /\ noted \in States /\ Orderly(noted) /\ noted.task = waits.task
      /\ noted.arrived = waits.arrived /\ noted.running = waits.running
      /\ noted.wakeup_tick <= waits.wakeup_tick
      /\ by # Never => noted.wakeup_tick <= by
  <2>1. CASE by = Never
    <3>1. waits.wakeup_tick \in Nat
      BY <1>4, StateFields, TicksAreNat
    <3> QED  BY <1>4, <2>1, <3>1
  <2>2. CASE by # Never
    BY <1>4, <2>2, NoteWakeupKeeps
  <2> QED  BY <2>1, <2>2
<1> HIDE DEF noted
<1>6. Timely(noted)
  <2>1. waits.wakeup_tick = sched.wakeup_tick
    BY <1>4 DEF Requeues, SameFlags
  <2>2. HasDeadline(data[me]) => noted.wakeup_tick <= data[me].wakeup_tick
    BY <1>3, <1>5 DEF HasDeadline
  <2> QED  BY <1>0, <1>4, <1>5, <2>1, <2>2, RequeuedTimely DEF Sound
<1>7. Joined(noted)
  BY <1>4, <1>5 DEF Joined, IsQueued
<1>8. /\ nx \in States /\ Sound(nx) /\ nx.task = noted.task /\ SameTasks(noted, nx)
      /\ nx.running = noted.running /\ nx.switching
  BY <1>1, <1>5, <1>6, <1>7, ParkKeeps DEF Sound
<1> HIDE DEF nx
<1>9. SameFields(waits.task[me], data[me])
      /\ \A t \in Tasks \ {me} : SameFields(waits.task[t], sched.task[t])
  BY <1>4 DEF Requeues
<1>10. nx.task = waits.task /\ nx.arrived = waits.arrived /\ nx.running = sched.running
  BY <1>4, <1>5, <1>8 DEF SameTasks, Requeues, SameFlags
<1>11. Ordered(sched) => Ordered(nx)
  <2> DEFINE D == {me}
  <2>1. D \in SUBSET Tasks /\ \E u \in Tasks : D = {u}
    OBVIOUS
  <2>2. /\ nx.arrived = MovedBack(sched.arrived, {u \in Tasks : IsQueued(sched, u)}, D)
        /\ \A u \in Tasks \ D : IsQueued(nx, u) => IsQueued(sched, u)
    BY <1>4, <1>10 DEF Requeues, IsQueued
  <2> HIDE DEF D
  <2> QED  BY <2>1, <2>2, OrderedBack
<1>12. Blocks(sched, nx, me, q, by)
  BY <1>3, <1>8, <1>9, <1>10, <1>11 DEF Blocks, SameFields
<1> QED  BY <1>8, <1>12 DEF nx

\* A pop forgets its timeout.
Forgets(st, nx) ==
  /\ \A t \in Tasks : /\ nx.task[t].status = st.task[t].status
                      /\ nx.task[t].reason = st.task[t].reason
                      /\ nx.task[t].queue = st.task[t].queue
                      /\ nx.task[t].wakeup_tick = st.task[t].wakeup_tick
                      /\ nx.task[t].join = st.task[t].join
                      /\ nx.task[t].ctx = st.task[t].ctx
                      /\ IsQueued(nx, t) <=> IsQueued(st, t)
  /\ nx.arrived = st.arrived /\ SameFlags(st, nx)

LEMMA ReturnedKeeps ==
  ASSUME SchedTypeOK, Sound(sched), NEW me \in Tasks
  PROVE  LET nx == [sched EXCEPT !.task[me].by = Never]
         IN nx \in States /\ Sound(nx) /\ Forgets(sched, nx)
<1> DEFINE d == [sched.task[me] EXCEPT !.by = Never]
           set == [sched EXCEPT !.task = [sched.task EXCEPT ![me] = d]]
<1>0. sched \in States /\ sched.task[me] \in TaskData
  BY StateFields DEF SchedTypeOK, TaskTable
<1>1. /\ d \in TaskData /\ d.place = sched.task[me].place
      /\ d.status = sched.task[me].status /\ d.reason = sched.task[me].reason
      /\ d.queue = sched.task[me].queue /\ d.wakeup_tick = sched.task[me].wakeup_tick
      /\ d.join = sched.task[me].join /\ d.ctx = sched.task[me].ctx
      /\ d.priority = sched.task[me].priority
  BY <1>0, TicksAreNat DEF TaskData
<1>2. [sched EXCEPT !.task[me].by = Never] = set
  OBVIOUS
<1> HIDE DEF d
<1>3. Filed(d)
  BY <1>1, SameFiled DEF Sound, Orderly
<1>4. /\ set \in States /\ Orderly(set) /\ set.task[me] = d
      /\ \A u \in Tasks \ {me} : set.task[u] = sched.task[u]
      /\ \A u \in Tasks : IsQueued(set, u) <=> IsQueued(sched, u)
      /\ SameFlags(sched, set) /\ set.arrived = sched.arrived
  BY <1>0, <1>1, <1>3, TaskSetKeeps DEF Sound
<1> HIDE DEF set
<1>5. Forgets(sched, set)
  BY <1>1, <1>4 DEF Forgets
<1>6. Timely(set)
  BY <1>5 DEF Sound, Timely, Forgets, SameFlags, HasDeadline
<1>7. Joined(set)
  BY <1>5, JoinedKept DEF Sound, Forgets
<1> QED  BY <1>2, <1>4, <1>5, <1>6, <1>7 DEF Sound

---------------------------------------------------------------------------
(* The loops of Queue#pop *)

QueueTypeOK ==
  /\ items \in [Queues -> Nat]
  /\ popping \in [Tasks -> Queues \cup {NoObj}]

\* A reader is in the loop of the queue it waits for, and its time is not over.
Asking ==
  \A t \in Tasks : Reads(sched.task[t]) =>
    /\ popping[t] = sched.task[t].queue /\ popping[t] \in Queues
    /\ sched.task[t].wakeup_tick # 0

\* A reader leaves the CPU before anything else happens.
ReadersLeave ==
  LET r == sched.running
  IN r # NoObj /\ Reads(sched.task[r]) =>
       OnCpu = r /\ sched.switching /\ Switchable /\ ~Top.loop

\* No native of a task waits for its block while the task is in such a loop.
Still ==
  \A i \in DOMAIN stack :
    stack[i].native /\ stack[i].task # NoObj => popping[stack[i].task] = NoObj

LoopInv ==
  /\ WakeInv /\ Shape /\ Ordered(sched)
  /\ QueueTypeOK /\ Asking /\ ReadersLeave /\ Still

\* Who runs reads nothing.
LEMMA WhoRunsReadsNothing ==
  ASSUME LoopInv, Executes
  PROVE  \A t \in Tasks : t = OnCpu \/ t = sched.running => ~Reads(sched.task[t])
<1>1. SUFFICES ASSUME NEW t \in Tasks, t = OnCpu \/ t = sched.running, Reads(sched.task[t])
               PROVE  FALSE
  OBVIOUS
<1>2. SchedTypeOK /\ Shape /\ ReadersLeave /\ t # NoObj
  BY ConstantsAssumption DEF LoopInv, WakeInv, SoundInv
<1>3. t = sched.running
  BY <1>1, <1>2, ShapeNamesTheTask DEF CurrentTask
<1>4. sched.switching /\ Switchable
  BY <1>1, <1>2, <1>3 DEF ReadersLeave
<1> QED  BY <1>4 DEF Executes

\* A step that leaves the stack alone and puts nobody to sleep.
LEMMA StackKept ==
  ASSUME LoopInv, Executes, stack' = stack, sched' \in States, Sound(sched'),
         sched'.running = sched.running,
         \A t \in Tasks :
           /\ sched'.task[t].ctx = sched.task[t].ctx
           /\ sched.task[t].ctx = "none" => sched'.task[t].status = sched.task[t].status
           /\ sched'.task[t].status = "WAITING" /\ sched'.task[t].reason = "SLEEP" =>
                sched.task[t].status = "WAITING" /\ sched.task[t].reason = "SLEEP"
  PROVE  WakeInv' /\ Shape'
<1>0. WakeInv /\ SchedTypeOK /\ Shape /\ Unmade /\ Parked /\ Served
  BY DEF LoopInv, WakeInv, SoundInv
<1>1. SoundInv'
  BY <1>0 DEF SoundInv, SchedTypeOK
<1>2. Unmade'
  BY <1>0 DEF Unmade
<1>3. Served'
  BY <1>0 DEF Served
<1>4. Parked'
  <2>1. SUFFICES ASSUME sched'.running # NoObj, sched'.task[sched'.running].status = "WAITING",
                        sched'.task[sched'.running].reason = "SLEEP"
                 PROVE  FALSE
    BY DEF Parked
  <2>2. sched.running \in Tasks
    BY <1>0, <2>1, StateFields DEF SchedTypeOK
  <2>3. sched.switching /\ Switchable
    BY <1>0, <2>1, <2>2 DEF Parked
  <2> QED  BY <2>3 DEF Executes
<1>5. Shape'
  BY <1>0 DEF Shape
<1> QED  BY <1>1, <1>2, <1>3, <1>4, <1>5 DEF WakeInv

\* Readers are woken.
LEMMA WakesReaders ==
  ASSUME LoopInv, Executes, NEW q \in Queues, NEW D \in SUBSET Readers(q),
         sched' = ReadersWoken(sched, q, D), UNCHANGED <<stack, popping>>,
         items' \in [Queues -> Nat]
  PROVE  /\ LoopInv'
         /\ \A p \in Queues : Readers(p)' \subseteq Readers(p)
                              /\ WokenReaders(p) \subseteq WokenReaders(p)'
         /\ Readers(q)' \cap D = {} /\ D \subseteq WokenReaders(q)'
         /\ D \cap WokenReaders(q) = {}
<1>0. /\ SchedTypeOK /\ Sound(sched) /\ Unmade /\ Ordered(sched) /\ Asking /\ Orderly(sched)
      /\ QueueTypeOK /\ Still
  BY DEF LoopInv, WakeInv, SoundInv, Sound
<1>1. sched' \in States /\ Sound(sched') /\ Wakes(sched, sched', D)
  BY <1>0, ReadersWokenKeeps
<1>2. /\ sched'.running = sched.running
      /\ \A t \in D : /\ t \in Tasks /\ sched.task[t].status = "WAITING"
                      /\ sched'.task[t].status = "READY"
                      /\ sched'.task[t].ctx = sched.task[t].ctx
      /\ \A t \in Tasks \ D : SameFields(sched'.task[t], sched.task[t])
  BY <1>1 DEF Wakes
<1>3. Ordered(sched')
  BY <1>0, <1>1, GentlyWakes DEF Gently
<1>4. ASSUME NEW t \in Tasks
      PROVE  /\ sched'.task[t].ctx = sched.task[t].ctx
             /\ sched.task[t].ctx = "none" => sched'.task[t].status = sched.task[t].status
             /\ sched'.task[t].status = "WAITING" =>
                  /\ t \notin D /\ SameFields(sched'.task[t], sched.task[t])
  <2>1. CASE t \in D
    BY <1>0, <1>2, <2>1 DEF Unmade
  <2>2. CASE t \notin D
    BY <1>2, <2>2 DEF SameFields
  <2> QED  BY <2>1, <2>2
<1>5. WakeInv' /\ Shape'
  <2>1. \A t \in Tasks :
          sched'.task[t].status = "WAITING" /\ sched'.task[t].reason = "SLEEP" =>
            sched.task[t].status = "WAITING" /\ sched.task[t].reason = "SLEEP"
    BY <1>4 DEF SameFields
  <2> QED  BY <1>1, <1>2, <1>4, <2>1, StackKept
<1>6. \A t \in Tasks : Reads(sched'.task[t]) => /\ Reads(sched.task[t]) /\ t \notin D
                                                /\ SameFields(sched'.task[t], sched.task[t])
  BY <1>4 DEF Reads, SameFields
<1>7. Asking'
  BY <1>0, <1>6 DEF Asking, SameFields
<1>8. ReadersLeave'
  <2>1. \A t \in Tasks : t = sched'.running => ~Reads(sched'.task[t])
    BY <1>2, <1>6, WhoRunsReadsNothing
  <2>2. sched'.running \in Tasks \cup {NoObj}
    BY <1>1, StateFields
  <2> QED  BY <2>1, <2>2 DEF ReadersLeave
<1>9. QueueTypeOK' /\ Still'
  BY <1>0 DEF QueueTypeOK, Still
<1>10. LoopInv'
  BY <1>3, <1>5, <1>7, <1>8, <1>9 DEF LoopInv
<1>11. ASSUME NEW p \in Queues
       PROVE  /\ Readers(p)' \subseteq Readers(p)
              /\ WokenReaders(p) \subseteq WokenReaders(p)'
  <2>1. Readers(p)' \subseteq Readers(p)
    BY <1>6 DEF Readers, Reads, SameFields
  <2>2. WokenReaders(p) \subseteq WokenReaders(p)'
    BY <1>2 DEF WokenReaders, SameFields
  <2> QED  BY <2>1, <2>2
<1>12. Readers(q)' \cap D = {}
  BY <1>2 DEF Readers
<1>13. D \subseteq WokenReaders(q)' /\ D \cap WokenReaders(q) = {}
  <2>1. \A t \in D : popping[t] = q
    BY <1>0 DEF Asking, Reads, Readers
  <2> QED  BY <1>2, <2>1 DEF WokenReaders
<1> QED  BY <1>10, <1>11, <1>12, <1>13

\* A task is parked behind the readers.
LEMMA BlocksReader ==
  ASSUME LoopInv, Executes, OnCpu # NoObj, ~Top.native, NEW q \in Queues,
         NEW by \in Ticks, by # 0, sched' = Blocked(OnCpu, q, by), UNCHANGED <<stack, items>>,
         popping[OnCpu] \in {NoObj, q}, popping' = [popping EXCEPT ![OnCpu] = q]
  PROVE  /\ LoopInv'
         /\ \A p \in Queues \ {q} : Readers(p)' \subseteq Readers(p)
                                    /\ WokenReaders(p) \subseteq WokenReaders(p)'
<1> DEFINE me == OnCpu
<1>0. /\ SchedTypeOK /\ Sound(sched) /\ Ordered(sched) /\ Asking /\ Shape
      /\ QueueTypeOK /\ Still /\ Served
  BY DEF LoopInv, WakeInv, SoundInv
<1>1. /\ me \in Tasks /\ me # NoObj /\ me = sched.running
      /\ Top.kind = "task" /\ Top.task = me /\ sched.task[me].ctx = "live" /\ ~Top.loop
  BY <1>0, TopType, ShapeNamesTheTask, WhoRunsIsMade DEF OnCpu, Executes, Runs, CurrentTask
<1> HIDE DEF me
<1>2. sched' \in States /\ Sound(sched') /\ Blocks(sched, sched', me, q, by)
  BY <1>0, <1>1, BlockedKeeps DEF me
<1>3. /\ sched'.task[me].status = "WAITING" /\ sched'.task[me].reason = "QUEUE"
      /\ sched'.task[me].queue = q /\ sched'.task[me].wakeup_tick = by
      /\ sched'.task[me].ctx = "live"
      /\ \A t \in Tasks \ {me} : SameFields(sched'.task[t], sched.task[t])
      /\ sched'.running = sched.running /\ sched'.switching /\ Ordered(sched')
  BY <1>0, <1>1, <1>2 DEF Blocks
<1>4. WakeInv' /\ Shape'
  <2>1. ASSUME NEW t \in Tasks
        PROVE  /\ sched'.task[t].ctx = sched.task[t].ctx
               /\ sched.task[t].ctx = "none" => sched'.task[t].status = sched.task[t].status
               /\ sched'.task[t].status = "WAITING" /\ sched'.task[t].reason = "SLEEP" =>
                    sched.task[t].status = "WAITING" /\ sched.task[t].reason = "SLEEP"
    <3>1. CASE t = me
      BY <1>1, <1>3, <3>1
    <3>2. CASE t # me
      BY <1>3, <3>2 DEF SameFields
    <3> QED  BY <3>1, <3>2
  <2> QED  BY <1>2, <1>3, <2>1, StackKept
<1>5. popping'[me] = q /\ \A t \in Tasks \ {me} : popping'[t] = popping[t]
  BY <1>0, <1>1 DEF QueueTypeOK, me
<1>6. QueueTypeOK'
  BY <1>0, <1>1 DEF QueueTypeOK, me
<1>7. Asking'
  <2>1. SUFFICES ASSUME NEW t \in Tasks, Reads(sched'.task[t])
                 PROVE  /\ popping'[t] = sched'.task[t].queue /\ popping'[t] \in Queues
                        /\ sched'.task[t].wakeup_tick # 0
    BY DEF Asking
  <2>2. CASE t = me
    BY <1>3, <1>5, <2>2
  <2>3. CASE t # me
    <3>1. SameFields(sched'.task[t], sched.task[t]) /\ popping'[t] = popping[t]
      BY <1>3, <1>5, <2>3
    <3>2. Reads(sched.task[t])
      BY <2>1, <3>1 DEF Reads, SameFields
    <3> QED  BY <1>0, <3>1, <3>2 DEF Asking, SameFields
  <2> QED  BY <2>2, <2>3
<1>8. ReadersLeave'
  <2>1. Top.vmexec
    BY <1>0, <1>1, TopType DEF Served, Top, SchedTypeOK, StackOK
  <2>2. (OnCpu = sched.running /\ sched.switching /\ Switchable /\ ~Top.loop)'
    BY <1>1, <1>3, <2>1 DEF OnCpu, Top, Switchable, me
  <2> QED  BY <2>2 DEF ReadersLeave
<1>9. Still'
  <2>1. SUFFICES ASSUME NEW i \in DOMAIN stack, stack[i].native, stack[i].task # NoObj
                 PROVE  popping'[stack[i].task] = NoObj
    BY DEF Still
  <2>2. i = 2 /\ Len(stack) = 2
    <3>1. DOMAIN stack = 1 .. Len(stack) /\ Len(stack) \in Nat /\ Len(stack) \in 1 .. Len(stack)
      BY <1>0, TopType DEF SchedTypeOK, StackOK
    <3>2. \A j \in DOMAIN stack : stack[j].task # NoObj => j = 2
      BY <1>0 DEF Shape
    <3>3. Len(stack) = 2
      BY <1>1, <3>1, <3>2 DEF Top
    <3> QED  BY <2>1, <3>2, <3>3
  <2> QED  BY <2>1, <2>2 DEF Top
<1>10. LoopInv'
  BY <1>3, <1>4, <1>6, <1>7, <1>8, <1>9 DEF LoopInv
<1>11. ASSUME NEW p \in Queues \ {q}
       PROVE  Readers(p)' \subseteq Readers(p) /\ WokenReaders(p) \subseteq WokenReaders(p)'
  <2>1. Readers(p)' \subseteq Readers(p)
    BY <1>3 DEF Readers, SameFields
  <2>2. me \notin WokenReaders(p)
    <3>1. p # q /\ p # NoObj
      BY ConstantsAssumption
    <3> QED  BY <3>1 DEF WokenReaders, me
  <2>3. WokenReaders(p) \subseteq WokenReaders(p)'
    BY <1>3, <1>5, <2>2 DEF WokenReaders, SameFields
  <2> QED  BY <2>1, <2>3
<1> QED  BY <1>10, <1>11

\* A task leaves its loop.
LEMMA ReturnsReader ==
  ASSUME LoopInv, Executes, OnCpu # NoObj,
         sched' = [sched EXCEPT !.task[OnCpu].by = Never], stack' = stack,
         items' \in [Queues -> Nat], popping' = [popping EXCEPT ![OnCpu] = NoObj]
  PROVE  /\ LoopInv'
         /\ \A p \in Queues : Readers(p)' \subseteq Readers(p)
                              /\ WokenReaders(p) \ {OnCpu} \subseteq WokenReaders(p)'
<1> DEFINE me == OnCpu
<1>0. /\ SchedTypeOK /\ Sound(sched) /\ Ordered(sched) /\ Asking
      /\ QueueTypeOK /\ Still
  BY DEF LoopInv, WakeInv, SoundInv
<1>1. me \in Tasks /\ ~Reads(sched.task[me])
  BY <1>0, TopType, WhoRunsReadsNothing DEF OnCpu
<1>2. sched' \in States /\ Sound(sched') /\ Forgets(sched, sched')
  BY <1>0, <1>1, ReturnedKeeps
<1>3. popping'[me] = NoObj /\ \A t \in Tasks \ {me} : popping'[t] = popping[t]
  BY <1>0, <1>1 DEF QueueTypeOK
<1>4. QueueTypeOK'
  BY <1>0, <1>1 DEF QueueTypeOK
<1> HIDE DEF me
<1>5. WakeInv' /\ Shape'
  BY <1>2, StackKept DEF Forgets, SameFlags
<1>6. \A t \in Tasks : Reads(sched'.task[t]) <=> Reads(sched.task[t])
  BY <1>2 DEF Forgets, Reads
<1>7. Asking'
  BY <1>0, <1>1, <1>2, <1>3, <1>6 DEF Asking, Forgets
<1>8. ReadersLeave'
  <2>1. sched'.running = sched.running
    BY <1>2 DEF Forgets, SameFlags
  <2>2. \A t \in Tasks : t = sched'.running => ~Reads(sched'.task[t])
    BY <1>6, <2>1, WhoRunsReadsNothing
  <2>3. sched'.running \in Tasks \cup {NoObj}
    BY <1>2, StateFields
  <2> QED  BY <2>2, <2>3 DEF ReadersLeave
<1>9. Still'
  <2>1. \A t : popping[t] = NoObj /\ t \in Tasks => popping'[t] = NoObj
    BY <1>3
  <2>2. \A i \in DOMAIN stack : stack[i].task # NoObj => stack[i].task \in Tasks
    <3>1. \A i \in DOMAIN stack : stack[i] \in Contexts
      BY <1>0, ElementOfSeq DEF SchedTypeOK, StackOK
    <3> QED  BY <3>1 DEF Contexts
  <2> QED  BY <1>0, <2>1, <2>2 DEF Still
<1>10. Ordered(sched')
  BY <1>0, <1>2, OrderedSame DEF Forgets
<1>11. LoopInv'
  BY <1>4, <1>5, <1>7, <1>8, <1>9, <1>10 DEF LoopInv
<1>12. ASSUME NEW p \in Queues
       PROVE  /\ Readers(p)' \subseteq Readers(p)
              /\ WokenReaders(p) \ {me} \subseteq WokenReaders(p)'
  <2>1. Readers(p)' \subseteq Readers(p)
    BY <1>2 DEF Readers, Forgets
  <2>2. WokenReaders(p) \ {me} \subseteq WokenReaders(p)'
    BY <1>2, <1>3 DEF WokenReaders, Forgets
  <2> QED  BY <2>1, <2>2
<1> QED  BY <1>11, <1>12 DEF me

---------------------------------------------------------------------------
(* The steps of the scheduler, and those of the queues *)

\* What stands still in a pop loop is disturbed by nobody.
LEMMA SchedulerKeepsLoops ==
  ASSUME Apart, NoStops, LoopInv, MachineStep \/ (CallStep /\ ~Retrying), UNCHANGED qvars
  PROVE  /\ LoopInv'
         /\ \A p \in Queues : Readers(p)' \subseteq Readers(p)
                              /\ WokenReaders(p) \subseteq WokenReaders(p)'
         /\ \A t \in Tasks :
              /\ BeginsNoRead(sched.task[t], sched'.task[t])
              /\ popping[t] # NoObj => Undisturbed(sched.task[t], sched'.task[t])
<1>0. /\ WakeInv /\ Unmade /\ Parked /\ SchedTypeOK /\ Sound(sched) /\ Shape
      /\ Ordered(sched) /\ QueueTypeOK /\ Asking /\ ReadersLeave /\ Still
  BY DEF LoopInv, WakeInv, SoundInv
<1>s. SchedNext /\ items' = items /\ popping' = popping
  BY DEF SchedNext, qvars
<1>1. WakeInv' /\ Shape'
  BY <1>0, <1>s, WakeNext, ShapeKept
<1>2. PICK o : /\ Gently(sched, sched', o)
               /\ o \in Tasks => popping[o] = NoObj
  <2>1. CASE MachineStep
    <3>1. Gently(sched, sched', NoObj)
      BY <1>0, <2>1, GentlyMachineStep
    <3> QED  BY <3>1, ConstantsAssumption
  <2>2. CASE CallStep /\ ~Retrying
    <3>1. Gently(sched, sched', OnCpu)
      BY <1>0, <2>2, GentlyCallStep
    <3>2. OnCpu \in Tasks => popping[OnCpu] = NoObj
      <4>1. OnCpu \in Tasks => Top.kind = "task"
        BY <1>0, TopType, ConstantsAssumption DEF OnCpu
      <4> QED  BY <2>2, <4>1 DEF Retrying
    <3> QED  BY <3>1, <3>2
  <2> QED  BY <2>1, <2>2
<1>3. ASSUME NEW t \in Tasks
      PROVE  /\ BeginsNoRead(sched.task[t], sched'.task[t])
             /\ popping[t] # NoObj => Undisturbed(sched.task[t], sched'.task[t])
  BY <1>2 DEF Gently
<1>4. Ordered(sched')
  BY <1>0, <1>2 DEF Gently
<1>5. QueueTypeOK'
  BY <1>0, <1>s DEF QueueTypeOK
<1>6. Asking'
  BY <1>0, <1>3, <1>s DEF Asking, BeginsNoRead
<1>7. ReadersLeave'
  <2>1. SUFFICES ASSUME sched'.running # NoObj, Reads(sched'.task[sched'.running])
                 PROVE  FALSE
    BY DEF ReadersLeave
  <2>2. PICK W \in SUBSET Tasks, u \in Tasks \cup {NoObj} : Accounts(W, u)
    BY <1>0, <1>s, SchedNextTurns DEF Accounted
  <2>3. sched'.running = sched.running
    BY <2>1, <2>2 DEF Accounts, Reads
  <2>4. sched.running \in Tasks
    BY <1>0, <2>1, <2>3, StateFields DEF SchedTypeOK
  <2>5. Reads(sched.task[sched.running])
    BY <1>3, <2>1, <2>3, <2>4 DEF BeginsNoRead
  <2>6. sched.running # NoObj
    BY <2>1, <2>3
  <2>7. OnCpu # NoObj /\ sched.switching /\ Switchable /\ ~Top.loop
    BY <1>0, <2>5, <2>6 DEF ReadersLeave
  <2>8. sched'.running = NoObj
    BY <1>0, <1>s, <2>7, SleepersSwitch
  <2> QED  BY <2>1, <2>8
<1>8. Still'
  <2>0. /\ stack \in Seq(Contexts) /\ Len(stack) \in Nat /\ Len(stack) >= 1
        /\ DOMAIN stack = 1 .. Len(stack)
    BY <1>0, TopType DEF SchedTypeOK, StackOK
  <2>a. ASSUME DOMAIN stack' = DOMAIN stack, ~EnterNative,
               \A i \in DOMAIN stack : /\ stack'[i].task = stack[i].task
                                       /\ stack'[i].native => stack[i].native
        PROVE  Still'
    BY <1>0, <1>s, <2>a DEF Still
  <2>1. CASE EnterNative
    <3>1. stack' = [stack EXCEPT ![Len(stack)].native = TRUE]
      BY <2>1 DEF EnterNative
    <3>2. /\ DOMAIN stack' = DOMAIN stack
          /\ \A i \in DOMAIN stack : /\ stack'[i].task = stack[i].task
                                     /\ i # Len(stack) => stack'[i].native = stack[i].native
      BY <1>0, <3>1, MarkAt
    <3>3. Top.task # NoObj => popping[Top.task] = NoObj
      <4>1. ~Retrying
        <5>1. ~MachineStep
          <6>1. ~Top.loop /\ ~Top.native /\ ~(sched.switching /\ Switchable)
            BY <2>1 DEF EnterNative, Does, Executes, Runs
          <6>2. ~(Switch \/ RunTurn \/ RunIdle \/ RunEnd)
            BY <6>1 DEF Switch, RunTurn, RunIdle, RunEnd
          <6>3. Len(stack') = Len(stack) /\ stack'[Len(stack)].native /\ stack' # stack
            <7>1. Len(stack') = Len(stack) /\ stack'[Len(stack)].native
              BY <1>0, <2>0, <3>1, MarkAt
            <7> QED  BY <6>1, <7>1 DEF Top
          <6>4. stack' # Below
            <7>1. Len(Below) = Len(stack) - 1
              BY <2>0, SubSeqProperties DEF Below
            <7> QED  BY <2>0, <6>3, <7>1
          <6>5. ~Tick
            BY <6>3, <6>4 DEF Tick, SwitchedOut
          <6> QED  BY <6>2, <6>5 DEF MachineStep
        <5> QED  BY <5>1
      <4> QED  BY <1>0, <4>1, TopType DEF Retrying, OnCpu
    <3>4. Still'
      BY <1>0, <1>s, <3>2, <3>3 DEF Still, Top
    <3> QED  BY <3>4
  <2>2. CASE ~EnterNative /\ StackStays
    <3>1. /\ DOMAIN stack' = DOMAIN stack
          /\ \A i \in DOMAIN stack : /\ stack'[i].task = stack[i].task
                                     /\ stack'[i].native => stack[i].native
      <4>1. CASE stack' = stack
        BY <4>1
      <4>2. CASE stack' = [stack EXCEPT ![Len(stack)].native = FALSE]
        BY <1>0, <4>2, MarkAt
      <4>3. ASSUME NEW b \in BOOLEAN, stack' = [stack EXCEPT ![Len(stack)].loop = b]
            PROVE  /\ DOMAIN stack' = DOMAIN stack
                   /\ \A i \in DOMAIN stack : /\ stack'[i].task = stack[i].task
                                              /\ stack'[i].native => stack[i].native
        BY <1>0, <4>3, MarkAt
      <4> QED  BY <2>2, <4>1, <4>2, <4>3 DEF StackStays
    <3> QED  BY <2>2, <2>a, <3>1
  <2>3. ASSUME NEW c, c.native = FALSE, stack' = Append(stack, c)
        PROVE  Still'
    <3>1. /\ DOMAIN stack' = DOMAIN stack \cup {Len(stack) + 1}
          /\ \A i \in DOMAIN stack : stack'[i] = stack[i]
          /\ stack'[Len(stack) + 1] = c
      BY <2>0, <2>3
    <3> QED  BY <1>0, <1>s, <2>3, <3>1 DEF Still
  <2>4. CASE Leaves(stack')
    <3>1. DOMAIN stack' \subseteq DOMAIN stack /\ \A i \in DOMAIN stack' : stack'[i] = stack[i]
      BY <1>0, <2>4, StackStepsAt
    <3> QED  BY <1>0, <1>s, <3>1 DEF Still
  <2>5. \A b : FiberContext(b).native = FALSE /\ TaskContext(b).native = FALSE
    BY DEF FiberContext, TaskContext, Root
  <2>6. \/ StackStays \/ Leaves(stack')
        \/ \E c : c.native = FALSE /\ stack' = Append(stack, c)
    BY <1>0, <1>s, <2>5, HandsNext DEF Hands
  <2> QED  BY <2>1, <2>2, <2>3, <2>4, <2>6
<1>9. LoopInv'
  BY <1>1, <1>4, <1>5, <1>6, <1>7, <1>8 DEF LoopInv
<1>10. ASSUME NEW p \in Queues
       PROVE  Readers(p)' \subseteq Readers(p) /\ WokenReaders(p) \subseteq WokenReaders(p)'
  <2>1. Readers(p)' \subseteq Readers(p)
    BY <1>3 DEF Readers, BeginsNoRead, Reads
  <2>2. WokenReaders(p) \subseteq WokenReaders(p)'
    <3>1. p # NoObj
      BY ConstantsAssumption
    <3> QED  BY <1>3, <1>s, <3>1 DEF WokenReaders, Undisturbed, Active
  <2> QED  BY <2>1, <2>2
<1> QED  BY <1>3, <1>9, <1>10

\* What a program does with a queue.
LEMMA QueuesKeepLoops ==
  ASSUME LoopInv, NoLostWakeup, QueueStep
  PROVE  LoopInv' /\ NoLostWakeup'
<1>0. /\ SchedTypeOK /\ Sound(sched) /\ Unmade /\ Ordered(sched) /\ Asking /\ Orderly(sched)
      /\ QueueTypeOK /\ Still /\ Shape
  BY DEF LoopInv, WakeInv, SoundInv, Sound
<1>e. Executes
  BY DEF QueueStep, PopRetry, Push, PopTake, CloseQueue, Clear, PopBlock, Does
<1>f. /\ \A p \in Queues : IsFiniteSet(WokenReaders(p)) /\ IsFiniteSet(WokenReaders(p)')
      /\ \A p \in Queues : /\ Cardinality(WokenReaders(p)) \in Nat
                           /\ Cardinality(WokenReaders(p)') \in Nat
      /\ \A p \in Queues : items[p] \in Nat
  <2>1. \A p : WokenReaders(p) \in SUBSET Tasks /\ WokenReaders(p)' \in SUBSET Tasks
    BY DEF WokenReaders
  <2>2. IsFiniteSet(Tasks)
    BY ConstantsAssumption
  <2>3. \A p : IsFiniteSet(WokenReaders(p)) /\ IsFiniteSet(WokenReaders(p)')
    BY <2>1, <2>2, FS_Subset
  <2> QED  BY <1>0, <2>3, FS_CardinalityType DEF QueueTypeOK
\* A queue that only loses readers and items, and is not closed, owes nothing new.
<1>g. ASSUME NEW p \in Queues, Readers(p)' \subseteq Readers(p),
             p \in closed' => p \in closed, items'[p] <= items[p], items'[p] \in Nat,
             WokenReaders(p) \subseteq WokenReaders(p)',
             Readers(p)' # {}
      PROVE  p \notin closed' /\ items'[p] <= Cardinality(WokenReaders(p)')
  <2>1. p \notin closed /\ items[p] <= Cardinality(WokenReaders(p))
    BY <1>g DEF NoLostWakeup
  <2>2. Cardinality(WokenReaders(p)) <= Cardinality(WokenReaders(p)')
    BY <1>f, <1>g, FS_Subset
  <2> QED  BY <1>f, <1>g, <2>1, <2>2
<1>1. ASSUME NEW q \in Queues, Push(q)
      PROVE  LoopInv' /\ NoLostWakeup'
  <2> DEFINE D == {t \in Tasks : FirstReader(q, t)}
  <2>1. /\ sched' = ReadersWoken(sched, q, D) /\ UNCHANGED <<stack, popping, closed>>
        /\ items' = [items EXCEPT ![q] = @ + 1]
    BY <1>1 DEF Push
  <2>2. D \in SUBSET Readers(q)
    BY <1>0, WaitingForReaders DEF FirstReader, IsEarliest
  <2>3. Readers(q) # {} => D # {}
    <3>1. Readers(q) \in SUBSET {t \in Tasks : IsQueued(sched, t)}
      BY <1>0 DEF Readers, Orderly, Filed, IsQueued
    <3>2. Readers(q) # {} => \E t \in Tasks : IsEarliest(sched, Readers(q), t)
      BY <1>0, <3>1 DEF Ordered
    <3> QED  BY <1>0, <3>2, WaitingForReaders DEF FirstReader
  <2> HIDE DEF D
  <2>4. /\ items' \in [Queues -> Nat] /\ items'[q] = items[q] + 1
        /\ \A p \in Queues \ {q} : items'[p] = items[p]
    BY <1>0, <2>1 DEF QueueTypeOK
  <2>5. /\ LoopInv'
        /\ \A p \in Queues : Readers(p)' \subseteq Readers(p)
                             /\ WokenReaders(p) \subseteq WokenReaders(p)'
        /\ D \subseteq WokenReaders(q)' /\ D \cap WokenReaders(q) = {}
    BY <1>e, <2>1, <2>2, <2>4, WakesReaders
  <2>6. ASSUME NEW p \in Queues, Readers(p)' # {}
        PROVE  p \notin closed' /\ items'[p] <= Cardinality(WokenReaders(p)')
    <3>1. CASE p # q
      BY <1>f, <1>g, <2>1, <2>4, <2>5, <2>6, <3>1
    <3>2. CASE p = q
      <4>1. PICK t \in D : TRUE
        BY <2>3, <2>5, <2>6, <3>2
      <4>2. q \notin closed /\ items[q] <= Cardinality(WokenReaders(q))
        BY <2>5, <2>6, <3>2 DEF NoLostWakeup
      <4>3. WokenReaders(q) \cup {t} \subseteq WokenReaders(q)' /\ t \notin WokenReaders(q)
        BY <2>5
      <4>4. Cardinality(WokenReaders(q) \cup {t}) = Cardinality(WokenReaders(q)) + 1
        BY <1>f, <4>3, FS_AddElement
      <4>5. Cardinality(WokenReaders(q) \cup {t}) <= Cardinality(WokenReaders(q)')
        BY <1>f, <4>3, FS_Subset
      <4> QED  BY <1>f, <2>1, <2>4, <3>2, <4>2, <4>4, <4>5
    <3> QED  BY <3>1, <3>2
  <2> QED  BY <2>5, <2>6 DEF NoLostWakeup
<1>2. ASSUME NEW q \in Queues, CloseQueue(q)
      PROVE  LoopInv' /\ NoLostWakeup'
  <2> DEFINE D == Readers(q)
  <2>1. /\ sched' = ReadersWoken(sched, q, D) /\ UNCHANGED <<stack, popping, items>>
        /\ closed' = closed \cup {q}
    BY <1>0, <1>2, WaitingForReaders DEF CloseQueue
  <2>2. /\ LoopInv'
        /\ \A p \in Queues : Readers(p)' \subseteq Readers(p)
                             /\ WokenReaders(p) \subseteq WokenReaders(p)'
        /\ Readers(q)' \cap D = {}
    BY <1>0, <1>e, <2>1, WakesReaders DEF QueueTypeOK
  <2>3. Readers(q)' = {}
    BY <2>2
  <2>4. ASSUME NEW p \in Queues, Readers(p)' # {}
        PROVE  p \notin closed' /\ items'[p] <= Cardinality(WokenReaders(p)')
    BY <1>f, <1>g, <2>1, <2>2, <2>3, <2>4
  <2> QED  BY <2>2, <2>4 DEF NoLostWakeup
<1>3. ASSUME NEW q \in Queues, PopTake(q) \/ Clear(q)
      PROVE  LoopInv' /\ NoLostWakeup'
  <2>1. /\ UNCHANGED <<sched, stack, popping, closed>> /\ items' \in [Queues -> Nat]
        /\ \A p \in Queues : items'[p] <= items[p]
    BY <1>0, <1>3 DEF PopTake, Clear, QueueTypeOK
  <2>2. LoopInv'
    BY <2>1 DEF LoopInv, WakeInv, SoundInv, SchedTypeOK, Unmade, Parked, Served, Shape,
                QueueTypeOK, Asking, ReadersLeave, Still, OnCpu, Top, Switchable
  <2>3. \A p \in Queues : Readers(p)' = Readers(p) /\ WokenReaders(p)' = WokenReaders(p)
    BY <2>1 DEF Readers, WokenReaders
  <2>4. ASSUME NEW p \in Queues, Readers(p)' # {}
        PROVE  p \notin closed' /\ items'[p] <= Cardinality(WokenReaders(p)')
    BY <1>f, <1>g, <2>1, <2>3, <2>4
  <2> QED  BY <2>2, <2>4 DEF NoLostWakeup
\* Who is parked finds nothing in an open queue.
<1>b. ASSUME OnCpu # NoObj, ~Top.native, NEW q \in Queues, NEW by \in Ticks, by # 0,
             sched' = Blocked(OnCpu, q, by), UNCHANGED <<stack, items, closed>>,
             popping[OnCpu] \in {NoObj, q}, popping' = [popping EXCEPT ![OnCpu] = q],
             items[q] = 0, q \notin closed
      PROVE  LoopInv' /\ NoLostWakeup'
  <2>1. /\ LoopInv'
        /\ \A p \in Queues \ {q} : Readers(p)' \subseteq Readers(p)
                                   /\ WokenReaders(p) \subseteq WokenReaders(p)'
    BY <1>b, <1>e, BlocksReader
  <2>2. ASSUME NEW p \in Queues, Readers(p)' # {}
        PROVE  p \notin closed' /\ items'[p] <= Cardinality(WokenReaders(p)')
    <3>1. CASE p = q
      BY <1>b, <1>f, <3>1
    <3>2. CASE p # q
      BY <1>b, <1>f, <1>g, <2>1, <2>2, <3>2
    <3> QED  BY <3>1, <3>2
  <2> QED  BY <2>1, <2>2 DEF NoLostWakeup
<1>4. ASSUME NEW q \in Queues, NEW by \in Ticks, PopBlock(q, by)
      PROVE  LoopInv' /\ NoLostWakeup'
  <2>1. CurrentTask = OnCpu /\ OnCpu # NoObj /\ ~Top.native
    BY <1>4 DEF PopBlock, CurrentTask
  <2>2. popping[OnCpu] = NoObj
    BY <1>0, <1>4, <2>1, TopType DEF PopBlock, Retrying, OnCpu
  <2>3. by # 0
    BY <1>4 DEF PopBlock
  <2> QED  BY <1>4, <1>b, <2>1, <2>2, <2>3 DEF PopBlock
<1>5. CASE PopRetry
  <2> DEFINE me == OnCpu
             q == popping[me]
  <2>1. /\ me \in Tasks /\ me # NoObj /\ q \in Queues /\ ~Top.native
    <3>1. Top.kind = "task" /\ q # NoObj
      BY <1>5 DEF PopRetry, Retrying
    <3>2. me \in Tasks /\ me # NoObj
      BY <1>0, <3>1, TopType DEF OnCpu
    <3>3. q \in Queues
      BY <1>0, <3>1, <3>2 DEF QueueTypeOK
    <3>4. Len(stack) \in DOMAIN stack
      BY <1>0, TopType DEF SchedTypeOK, StackOK
    <3> QED  BY <1>0, <3>1, <3>2, <3>3, <3>4 DEF Still, OnCpu, Top
  <2>2. stack' = stack /\ closed' = closed
    BY <1>5 DEF PopRetry
  <2>3. ASSUME popping' = [popping EXCEPT ![me] = NoObj],
               sched' = [sched EXCEPT !.task[me].by = Never],
               \/ items[q] > 0 /\ items' = [items EXCEPT ![q] = @ - 1]
               \/ items[q] = 0 /\ items' = items
        PROVE  LoopInv' /\ NoLostWakeup'
    <3>1. /\ items' \in [Queues -> Nat]
          /\ \A p \in Queues \ {q} : items'[p] = items[p]
          /\ items'[q] = 0 \/ items'[q] = items[q] - 1
      BY <1>0, <2>1, <2>3 DEF QueueTypeOK
    <3>2. /\ LoopInv'
          /\ \A p \in Queues : Readers(p)' \subseteq Readers(p)
                               /\ WokenReaders(p) \ {me} \subseteq WokenReaders(p)'
      BY <1>e, <2>1, <2>2, <2>3, <3>1, ReturnsReader
    <3>3. ASSUME NEW p \in Queues, Readers(p)' # {}
          PROVE  p \notin closed' /\ items'[p] <= Cardinality(WokenReaders(p)')
      <4>1. CASE p # q
        <5>1. me \notin WokenReaders(p)
          BY <4>1 DEF WokenReaders
        <5>2. WokenReaders(p) \subseteq WokenReaders(p)'
          BY <3>2, <5>1
        <5> QED  BY <1>f, <1>g, <2>2, <3>1, <3>2, <3>3, <4>1, <5>2
      <4>2. CASE p = q
        <5>1. p \notin closed /\ items[p] <= Cardinality(WokenReaders(p))
          BY <3>2, <3>3 DEF NoLostWakeup
        <5> DEFINE left == WokenReaders(p) \ {me}
        <5>2. /\ IsFiniteSet(left) /\ Cardinality(left) \in Nat
              /\ Cardinality(WokenReaders(p)) - 1 <= Cardinality(left)
          <6>1. /\ IsFiniteSet(left)
                /\ \/ Cardinality(left) = Cardinality(WokenReaders(p)) - 1
                   \/ Cardinality(left) = Cardinality(WokenReaders(p))
            BY <1>f, FS_RemoveElement
          <6>2. Cardinality(left) \in Nat
            BY <6>1, FS_CardinalityType
          <6> HIDE DEF left
          <6> QED  BY <1>f, <6>1, <6>2
        <5>3. left \in SUBSET WokenReaders(p)'
          BY <3>2
        <5> HIDE DEF left
        <5>4. Cardinality(left) <= Cardinality(WokenReaders(p)')
          BY <1>f, <5>3, FS_Subset
        <5>5. items'[p] = 0 \/ items'[p] = items[p] - 1
          BY <3>1, <4>2
        <5>6. p \notin closed'
          BY <2>2, <5>1
        <5> HIDE DEF q, me
        <5> QED  BY <1>f, <5>1, <5>2, <5>4, <5>5, <5>6
      <4> QED  BY <4>1, <4>2
    <3> QED  BY <3>2, <3>3 DEF NoLostWakeup
  <2>4. ASSUME items[q] = 0, ~(q \in closed \/ sched.task[me].by = 0),
               sched' = Blocked(me, q, sched.task[me].by), UNCHANGED <<items, popping>>
        PROVE  LoopInv' /\ NoLostWakeup'
    <3>1. sched.task[me].by \in Ticks
      BY <1>0, <2>1, StateFields, TaskFields DEF SchedTypeOK, TaskTable
    <3>2. popping' = [popping EXCEPT ![me] = q]
      BY <1>0, <2>1, <2>4 DEF QueueTypeOK
    <3> QED  BY <1>b, <2>1, <2>2, <2>4, <3>1, <3>2
  <2>5. \/ /\ popping' = [popping EXCEPT ![me] = NoObj]
           /\ sched' = [sched EXCEPT !.task[me].by = Never]
           /\ \/ items[q] > 0 /\ items' = [items EXCEPT ![q] = @ - 1]
              \/ items[q] = 0 /\ items' = items
        \/ /\ items[q] = 0 /\ ~(q \in closed \/ sched.task[me].by = 0)
           /\ sched' = Blocked(me, q, sched.task[me].by) /\ UNCHANGED <<items, popping>>
    BY <1>5 DEF PopRetry
  <2> QED  BY <2>3, <2>4, <2>5
<1> QED  BY <1>1, <1>2, <1>3, <1>4, <1>5 DEF QueueStep

QueueInv == LoopInv /\ NoLostWakeup

LEMMA QueueInit == Init => QueueInv
<1> SUFFICES ASSUME Init PROVE QueueInv
  OBVIOUS
<1>1. WakeInv /\ Shape
  BY WakeInit, ShapeInit DEF Init
<1>2. PICK from \in IndexFroms : sched = InitialState(from)
  BY DEF Init, SchedInit
<1>3. \A t \in Tasks : /\ sched.task[t].status = "DORMANT"
                       /\ ~IsQueued(sched, t)
  BY <1>2 DEF InitialState, InitialTask, IsQueued, NONE
<1>4. Ordered(sched)
  BY <1>3 DEF Ordered
<1>5. QueueTypeOK
  BY DEF Init, QueueTypeOK
<1>6. Asking /\ (\A q \in Queues : Readers(q) = {})
  BY <1>3 DEF Asking, Reads, Readers
<1>7. ReadersLeave
  BY <1>2 DEF ReadersLeave, InitialState
<1>8. Still
  BY DEF Init, SchedInit, Still, Root
<1> QED  BY <1>1, <1>4, <1>5, <1>6, <1>7, <1>8 DEF QueueInv, LoopInv, NoLostWakeup

\* Every step keeps what the queues promise.
LEMMA QueueNext ==
  ASSUME Apart, NoStops
  PROVE  QueueInv /\ [Next]_vars => QueueInv'
<1> SUFFICES ASSUME LoopInv, NoLostWakeup, [Next]_vars
             PROVE  LoopInv' /\ NoLostWakeup'
  BY DEF QueueInv
<1>1. CASE QueueStep
  BY <1>1, QueuesKeepLoops
<1>2. ASSUME MachineStep \/ (CallStep /\ ~Retrying), UNCHANGED qvars
      PROVE  LoopInv' /\ NoLostWakeup'
  <2>1. /\ LoopInv'
        /\ \A p \in Queues : Readers(p)' \subseteq Readers(p)
                             /\ WokenReaders(p) \subseteq WokenReaders(p)'
    BY <1>2, SchedulerKeepsLoops
  <2>2. ASSUME NEW p \in Queues, Readers(p)' # {}
        PROVE  p \notin closed' /\ items'[p] <= Cardinality(WokenReaders(p)')
    <3>1. p \notin closed /\ items[p] <= Cardinality(WokenReaders(p))
      BY <2>1, <2>2 DEF NoLostWakeup
    <3>2. /\ IsFiniteSet(WokenReaders(p)') /\ Cardinality(WokenReaders(p)') \in Nat
          /\ Cardinality(WokenReaders(p)) <= Cardinality(WokenReaders(p)')
          /\ Cardinality(WokenReaders(p)) \in Nat
      <4>1. WokenReaders(p)' \in SUBSET Tasks /\ IsFiniteSet(Tasks)
        BY ConstantsAssumption DEF WokenReaders
      <4>2. IsFiniteSet(WokenReaders(p)')
        BY <4>1, FS_Subset
      <4>3. /\ IsFiniteSet(WokenReaders(p))
            /\ Cardinality(WokenReaders(p)) <= Cardinality(WokenReaders(p)')
        BY <2>1, <4>2, FS_Subset
      <4> QED  BY <4>2, <4>3, FS_CardinalityType
    <3>3. closed' = closed /\ items'[p] \in Nat /\ items'[p] = items[p]
      BY <1>2 DEF qvars, LoopInv, QueueTypeOK
    <3> QED  BY <3>1, <3>2, <3>3
  <2> QED  BY <2>1, <2>2 DEF NoLostWakeup
<1>3. CASE UNCHANGED vars
  <2>1. UNCHANGED <<sched, stack, items, closed, popping>>
    BY <1>3 DEF vars
  <2>2. LoopInv'
    BY <2>1 DEF LoopInv, WakeInv, SoundInv, SchedTypeOK, Unmade, Parked, Served, Shape,
                QueueTypeOK, Asking, ReadersLeave, Still, OnCpu, Top, Switchable
  <2> QED  BY <2>1, <2>2 DEF NoLostWakeup, Readers, WokenReaders
<1> QED  BY <1>1, <1>2, <1>3 DEF Next

LEMMA QueueAlways ==
  ASSUME Apart, NoStops
  PROVE  Spec => []QueueInv
BY QueueInit, QueueNext, PTL DEF Spec

\* NoLostWakeup: while a reader waits, its queue is open and every item in it is
\* owed to a reader that was woken and has yet to ask (wake_queue_waiters,
\* Queue#close, __pop_try), in a program that does not mix Task.run and fibers
\* and stops no task but by letting it end.
THEOREM WakeupsAreNeverLost ==
  ASSUME Apart, NoStops
  PROVE  Spec => []NoLostWakeup
<1>1. QueueInv => NoLostWakeup
  BY DEF QueueInv
<1> QED  BY <1>1, QueueAlways, PTL

\* NoWaitOutlivesItsTimeout: no step lets the deadline of a waiting reader come
\* and leaves it waiting (wake_sleepers, __pop_try), in the same programs.
THEOREM ReadersKeepTheirTime ==
  ASSUME Apart, NoStops
  PROVE  Spec => NoWaitOutlivesItsTimeout
<1> DEFINE Prompted ==
             \A t \in Tasks :
               /\ sched.task[t].status = "WAITING" /\ sched.task[t].reason = "QUEUE"
               /\ sched'.task[t].wakeup_tick = 0
               => sched'.task[t].status # "WAITING"
<1>1. ASSUME QueueInv, Next
      PROVE  Prompted
  <2>1. SUFFICES ASSUME NEW t \in Tasks, sched.task[t].status = "WAITING",
                        sched.task[t].reason = "QUEUE", sched'.task[t].wakeup_tick = 0,
                        sched'.task[t].status = "WAITING"
                 PROVE  FALSE
    OBVIOUS
  <2>2. /\ Reads(sched.task[t]) /\ popping[t] # NoObj /\ Asking /\ Asking'
    <3>1. Reads(sched.task[t])
      BY <2>1 DEF Reads
    <3>2. Asking /\ Asking'
      BY <1>1, QueueNext DEF QueueInv, LoopInv
    <3> QED  BY <3>1, <3>2, ConstantsAssumption DEF Asking
  <2>3. ~Reads(sched'.task[t])
    BY <2>1, <2>2 DEF Asking
  <2>4. ASSUME MachineStep \/ (CallStep /\ ~Retrying), UNCHANGED qvars
        PROVE  FALSE
    <3>1. Undisturbed(sched.task[t], sched'.task[t])
      BY <1>1, <2>2, <2>4, SchedulerKeepsLoops DEF QueueInv
    <3> QED  BY <2>1, <2>2, <2>3, <3>1 DEF Undisturbed, Active
  <2>5. CASE QueueStep
    <3>0. SchedTypeOK /\ Sound(sched) /\ LoopInv /\ Executes
      BY <1>1, <2>5 DEF QueueInv, LoopInv, WakeInv, SoundInv, QueueStep, PopRetry, Push,
                        PopTake, CloseQueue, Clear, PopBlock, Does
    <3>1. ASSUME NEW q \in Queues, NEW D \in SUBSET Readers(q),
                 sched' = ReadersWoken(sched, q, D)
          PROVE  FALSE
      <4>1. Wakes(sched, sched', D)
        BY <3>0, <3>1, ReadersWokenKeeps
      <4> QED  BY <2>1, <2>2, <2>3, <4>1 DEF Wakes, SameFields, Reads
    <3>2. ASSUME NEW me \in Tasks, me = OnCpu, NEW q \in Queues, NEW by \in Ticks,
                 sched' = Blocked(me, q, by)
          PROVE  FALSE
      <4>1. Blocks(sched, sched', me, q, by)
        BY <3>0, <3>2, BlockedKeeps
      <4>2. CASE t = me
        BY <2>3, <4>1, <4>2 DEF Blocks, Reads
      <4>3. CASE t # me
        BY <2>2, <2>3, <4>1, <4>3 DEF Blocks, SameFields, Reads
      <4> QED  BY <4>2, <4>3
    <3>3. ASSUME NEW me \in Tasks, sched' = [sched EXCEPT !.task[me].by = Never]
          PROVE  FALSE
      <4>1. Forgets(sched, sched')
        BY <3>0, <3>3, ReturnedKeeps
      <4> QED  BY <2>2, <2>3, <4>1 DEF Forgets, Reads
    <3>4. sched' # sched
      BY <2>2, <2>3
    <3>5. ASSUME NEW q \in Queues, Push(q) \/ CloseQueue(q)
          PROVE  FALSE
      <4>1. /\ {u \in Tasks : FirstReader(q, u)} \in SUBSET Readers(q)
            /\ WaitingFor(sched, q) \in SUBSET Readers(q)
        BY <3>0, WaitingForReaders DEF FirstReader, IsEarliest
      <4> QED  BY <3>1, <3>5, <4>1 DEF Push, CloseQueue
    <3>6. ASSUME NEW q \in Queues, NEW by \in Ticks, PopBlock(q, by)
          PROVE  FALSE
      <4>1. CurrentTask \in Tasks /\ CurrentTask = OnCpu
        BY <3>0, <3>6, WhoRunsIsMade DEF PopBlock, Executes, CurrentTask
      <4> QED  BY <3>2, <3>6, <4>1 DEF PopBlock
    <3>7. CASE PopRetry
      <4>1. OnCpu \in Tasks /\ popping[OnCpu] \in Queues
        <5>1. Top.kind = "task" /\ popping[OnCpu] # NoObj
          BY <3>7 DEF PopRetry, Retrying
        <5>2. OnCpu \in Tasks
          BY <3>0, <5>1, TopType DEF OnCpu
        <5> QED  BY <3>0, <5>1, <5>2 DEF LoopInv, QueueTypeOK
      <4>2. sched.task[OnCpu].by \in Ticks
        BY <3>0, <4>1, StateFields, TaskFields DEF SchedTypeOK, TaskTable
      <4>3. \/ sched' = [sched EXCEPT !.task[OnCpu].by = Never]
            \/ sched' = Blocked(OnCpu, popping[OnCpu], sched.task[OnCpu].by)
        BY <3>7 DEF PopRetry
      <4> QED  BY <3>2, <3>3, <4>1, <4>2, <4>3
    <3> QED  BY <2>5, <3>4, <3>5, <3>6, <3>7 DEF QueueStep, PopTake, Clear
  <2> QED  BY <1>1, <2>4, <2>5 DEF Next
<1>2. QueueInv /\ [Next]_vars => [Prompted]_vars
  BY <1>1
<1> QED  BY <1>2, QueueAlways, PTL DEF Spec, NoWaitOutlivesItsTimeout
===========================================================================
