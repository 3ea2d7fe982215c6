------------------------- MODULE TaskStateProofs -------------------------
(***************************************************************************)
(* What the operators of TaskState preserve, for any number of tasks and   *)
(* queues: they take states to states, and well-placed states to           *)
(* well-placed states.                                                     *)
(***************************************************************************)
EXTENDS TaskState, WellFoundedInduction, TLAPS

---------------------------------------------------------------------------
(* Data *)

TaskTable == [Tasks -> TaskData]

\* Tick counts are naturals; "no deadline" and "now" are among them.
LEMMA TicksAreNat == Ticks \subseteq Nat /\ Never \in Ticks /\ 0 \in Ticks
BY ConstantsAssumption DEF Ticks, Never

\* What each field of a scheduler state ranges over.
LEMMA StateFields ==
  ASSUME NEW st \in States
  PROVE  /\ st.task \in TaskTable
         /\ st.queues \in [QueueNames -> SUBSET (Nat \X Tasks)]
         /\ st.sleepers \in SUBSET ((0 .. MaxWait) \X Tasks)
         /\ st.waiters \in SUBSET (Targets \X Tasks)
         /\ st.arrived \in SUBSET (Tasks \X Tasks)
         /\ st.indexed \in BOOLEAN
         /\ st.index_from \in IndexFroms
         /\ st.wakeup_tick \in Ticks
         /\ st.running \in Tasks \cup {NoObj}
BY DEF States, TaskTable

\* What each field of a Task object ranges over.
LEMMA TaskFields ==
  ASSUME NEW d \in TaskData
  PROVE  /\ d.priority \in Priorities /\ d.status \in Statuses
         /\ d.reason \in Reasons /\ d.timeslice \in 0 .. TIMESLICE
         /\ d.wakeup_tick \in Ticks /\ d.by \in Ticks
         /\ d.join \in Tasks \cup {NoObj} /\ d.queue \in Queues \cup {NoObj}
         /\ d.place \in Places
BY DEF TaskData

\* Every status names one of the four queues (q_of).
LEMMA QOfType == \A s : QOf(s) \in QueueNames
BY DEF QOf, QueueNames

\* What a task waits for is a task, a queue or nothing.
LEMMA TargetOfType ==
  ASSUME NEW d \in TaskData
  PROVE  TargetOf(d) \in Targets \cup {NoObj}
BY TaskFields DEF TargetOf, Targets

\* A queue holds tasks.
LEMMA InQueueType ==
  ASSUME NEW st \in States, NEW q \in QueueNames
  PROVE  InQueue(st, q) \in SUBSET Tasks
BY StateFields DEF InQueue

\* A set of naturals that is not empty has a least element, so that the
\* CHOOSE in Earliest finds one.
LEMMA NatHasMinima ==
  ASSUME NEW S \in SUBSET Nat, S # {}
  PROVE  \E d \in S : \A e \in S : d <= e
<1> DEFINE R == OpToRel(<, Nat)
           Q == {ss \in Nat \X Nat : ss[1] < ss[2]}
<1>0. R = Q
  BY Zenon DEF OpToRel
<1>1. \E d \in S : \A e \in S : ~ (<<e, d>> \in Q)
  <2>1. IsWellFoundedOn(R, Nat)
    BY NatLessThanWellFounded
  <2>2. IsWellFoundedOn(Q, Nat)
    BY <1>0, <2>1, Zenon
  <2> HIDE DEF Q, R
  <2> QED  BY <2>2, WFMin
<1>2. ASSUME NEW d \in Nat, NEW e \in Nat, e < d
      PROVE  <<e, d>> \in Q
  BY <1>2, SMT
<1> HIDE DEF R, Q
<1>3. PICK d \in S : \A e \in S : ~ (<<e, d>> \in Q)
  BY <1>1
<1>4. ASSUME NEW e \in S
      PROVE  d <= e
  <2>1. ~ (e < d)
    BY <1>2, <1>3
  <2> QED  BY <2>1
<1> QED  BY <1>4

\* The earliest of some deadlines is a deadline (wake_sleepers).
LEMMA EarliestType ==
  ASSUME NEW S \in SUBSET Ticks
  PROVE  Earliest(S) \in Ticks
<1>1. CASE S = {}
  BY TicksAreNat, <1>1 DEF Earliest
<1>2. CASE S # {}
  <2>1. \E d \in S : \A e \in S : d <= e
    BY TicksAreNat, NatHasMinima, <1>2
  <2> QED  BY <1>2, <2>1 DEF Earliest
<1> QED  BY <1>1, <1>2

\* A deadline some ticks later is still a deadline.
LEMMA LaterType ==
  ASSUME NEW d \in Ticks, NEW n \in Nat
  PROVE  /\ Later(d, n) \in Ticks
         /\ Later(d, n) = Never <=> d = Never
BY ConstantsAssumption DEF Later, Ticks, Never

---------------------------------------------------------------------------
(* States to states *)

\* Taking any set of tasks out of their places leaves a state.
LEMMA TakenOutType ==
  ASSUME NEW st \in States, NEW D \in SUBSET Tasks
  PROVE  TakenOut(st, D) \in States
<1> DEFINE at(t) == st.task[t].place
           left == [q \in QueueNames |->
                      {e \in st.queues[q] :
                         ~(e[2] \in D /\ at(e[2]).q = q /\ at(e[2]).pri = e[1])}]
           emptied == /\ \E t \in D : at(t).q = "waiting"
                      /\ left["waiting"] = {}
                      /\ st.index_from > 0
           task == [t \in Tasks |-> IF t \in D THEN [st.task[t] EXCEPT !.place = NONE]
                                               ELSE st.task[t]]
           sleepers == {e \in st.sleepers : ~(e[2] \in D /\ at(e[2]).sleep = e[1])}
           waiters == {e \in st.waiters : ~(e[2] \in D /\ at(e[2]).target = e[1])}
<1>1. left \in [QueueNames -> SUBSET (Nat \X Tasks)]
  BY StateFields
<1>2. task \in TaskTable
  <2>1. NONE \in Places
    BY TicksAreNat DEF NONE, Places
  <2>2. \A t \in Tasks : [st.task[t] EXCEPT !.place = NONE] \in TaskData
    BY <2>1, StateFields DEF TaskTable, TaskData
  <2> QED  BY <2>2, StateFields DEF TaskTable
<1>3. /\ sleepers \in SUBSET ((0 .. MaxWait) \X Tasks)
      /\ waiters \in SUBSET (Targets \X Tasks)
      /\ (st.indexed /\ ~emptied) \in BOOLEAN
  BY StateFields
<1> HIDE DEF left, emptied, task, sleepers, waiters
<1>4. [st EXCEPT !.queues = left, !.sleepers = sleepers, !.waiters = waiters,
                 !.task = task, !.indexed = st.indexed /\ ~emptied] \in States
  BY <1>1, <1>2, <1>3 DEF States, TaskTable
<1> QED  BY <1>4 DEF TakenOut, left, emptied, task, sleepers, waiters

\* Taking one task out of its queue and its indexes leaves a state (q_delete).
LEMMA QDeleteType ==
  ASSUME NEW st \in States, NEW t \in Tasks
  PROVE  QDelete(st, t) \in States
<1>1. TakenOut(st, {t}) \in States
  BY TakenOutType
<1>2. {p \in TakenOut(st, {t}).arrived : p[1] # t /\ p[2] # t}
        \in SUBSET (Tasks \X Tasks)
  BY <1>1, StateFields
<1> QED  BY <1>1, <1>2 DEF QDelete, States

\* Indexing waiting tasks leaves a state: only deadlines within MaxWait become
\* keys (index_one).
LEMMA IndexedType ==
  ASSUME NEW st \in States, NEW D \in SUBSET Tasks
  PROVE  Indexed(st, D) \in States
<1> DEFINE sleepy == {t \in D : HasDeadline(st.task[t])}
           aimed == {t \in D : TargetOf(st.task[t]) # NoObj}
           key(t) == [st.task[t].place EXCEPT
                        !.sleep = IF t \in sleepy THEN st.task[t].wakeup_tick
                                                  ELSE Never,
                        !.target = TargetOf(st.task[t])]
           sleepers == st.sleepers \cup {<<st.task[t].wakeup_tick, t>> : t \in sleepy}
           waiters == st.waiters \cup {<<TargetOf(st.task[t]), t>> : t \in aimed}
           task == [t \in Tasks |-> IF t \in D THEN [st.task[t] EXCEPT !.place = key(t)]
                                               ELSE st.task[t]]
<1>1. \A t \in Tasks : st.task[t] \in TaskData
  BY StateFields DEF TaskTable
<1>2. sleepers \in SUBSET ((0 .. MaxWait) \X Tasks)
  <2>1. \A t \in sleepy : st.task[t].wakeup_tick \in 0 .. MaxWait
    BY <1>1, TaskFields, ConstantsAssumption DEF HasDeadline, Ticks, Never
  <2> QED  BY <2>1, StateFields
<1>3. waiters \in SUBSET (Targets \X Tasks)
  BY <1>1, TargetOfType, StateFields
<1>4. task \in TaskTable
  <2>1. ASSUME NEW t \in Tasks
        PROVE  key(t) \in Places
    <3>1. st.task[t].place \in Places /\ TargetOf(st.task[t]) \in Targets \cup {NoObj}
      BY <1>1, TargetOfType, TaskFields
    <3>2. (IF t \in sleepy THEN st.task[t].wakeup_tick ELSE Never) \in Ticks
      BY <1>1, TaskFields, TicksAreNat
    <3> HIDE DEF sleepy
    <3> QED  BY <3>1, <3>2 DEF Places
  <2> HIDE DEF key
  <2>2. \A t \in Tasks : [st.task[t] EXCEPT !.place = key(t)] \in TaskData
    BY <1>1, <2>1 DEF TaskData
  <2> QED  BY <1>1, <2>2 DEF TaskTable
<1>5. [st EXCEPT !.sleepers = sleepers, !.waiters = waiters, !.task = task] \in States
  <2> HIDE DEF sleepers, waiters, task
  <2> QED  BY <1>2, <1>3, <1>4 DEF States, TaskTable
<1> QED  BY <1>5 DEF Indexed

\* Building the index leaves a state (build_index).
LEMMA BuildIndexType ==
  ASSUME NEW st \in States
  PROVE  BuildIndex(st) \in States
<1>1. Indexed(st, InQueue(st, "waiting")) \in States
  BY InQueueType, IndexedType DEF QueueNames
<1> QED  BY <1>1 DEF BuildIndex, States

\* Dropping the index leaves a state (unindex_waiting).
LEMMA UnindexWaitingType ==
  ASSUME NEW st \in States
  PROVE  UnindexWaiting(st) \in States
<1> DEFINE bare(d) == [d EXCEPT !.place.sleep = Never, !.place.target = NoObj]
           task == [t \in Tasks |-> IF t \in InQueue(st, "waiting")
                                      THEN bare(st.task[t]) ELSE st.task[t]]
<1>1. ASSUME NEW d \in TaskData
      PROVE  bare(d) \in TaskData
  <2>1. [d.place EXCEPT !.sleep = Never, !.target = NoObj] \in Places
    BY TaskFields, TicksAreNat DEF Places
  <2>2. [d EXCEPT !.place = [d.place EXCEPT !.sleep = Never, !.target = NoObj]] \in TaskData
    BY <2>1 DEF TaskData
  <2>3. bare(d) = [d EXCEPT !.place = [d.place EXCEPT !.sleep = Never, !.target = NoObj]]
    BY DEF TaskData, Places
  <2> QED  BY <2>2, <2>3
<1> HIDE DEF bare
<1>2. task \in TaskTable
  BY <1>1, StateFields DEF TaskTable
<1> HIDE DEF task
<1>3. [st EXCEPT !.sleepers = {}, !.waiters = {}, !.indexed = FALSE, !.task = task] \in States
  BY <1>2 DEF States, TaskTable
<1> QED  BY <1>3 DEF UnindexWaiting, task, bare

\* The same Task object, but for its place.
SameFields(d, e) ==
  /\ d.ctx = e.ctx /\ d.priority = e.priority /\ d.status = e.status
  /\ d.reason = e.reason /\ d.timeslice = e.timeslice
  /\ d.wakeup_tick = e.wakeup_tick /\ d.join = e.join
  /\ d.queue = e.queue /\ d.by = e.by

\* The same scheduler, but for its tasks, queues and indexes.
SameFlags(st, nx) ==
  /\ nx.index_from = st.index_from /\ nx.wakeup_tick = st.wakeup_tick
  /\ nx.switching = st.switching /\ nx.loop_running = st.loop_running
  /\ nx.running = st.running

\* What taking tasks out changes, and what not.
LEMMA TakenOutFields ==
  ASSUME NEW st \in States, NEW D \in SUBSET Tasks
  PROVE  LET out == TakenOut(st, D)
         IN /\ \A t \in Tasks : SameFields(out.task[t], st.task[t])
            /\ \A t \in Tasks \ D : out.task[t] = st.task[t]
            /\ \A t \in D : out.task[t].place = NONE
            /\ SameFlags(st, out)
            /\ out.arrived = st.arrived
            /\ out.indexed => st.indexed
<1> DEFINE out == TakenOut(st, D)
<1>1. /\ SameFlags(st, out) /\ out.arrived = st.arrived
      /\ out.indexed => st.indexed
  BY DEF TakenOut, States, SameFlags
<1>2. out.task = [t \in Tasks |-> IF t \in D THEN [st.task[t] EXCEPT !.place = NONE]
                                            ELSE st.task[t]]
  BY DEF TakenOut, States
<1>3. \A t \in Tasks : st.task[t] \in TaskData
  BY StateFields DEF TaskTable
<1> HIDE DEF out
<1>4. ASSUME NEW t \in Tasks
      PROVE  /\ SameFields(out.task[t], st.task[t])
             /\ t \notin D => out.task[t] = st.task[t]
             /\ t \in D => out.task[t].place = NONE
  BY <1>2, <1>3 DEF TaskData, SameFields
<1> QED  BY <1>1, <1>4 DEF out

\* requeue before it looks at the indexes: the tasks of D out of their places
\* and behind the queues their new fields name.
PutBack(st, D, data) ==
  LET q(t) == QOf(data[t].status)
      pri(t) == IF q(t) = "ready" THEN data[t].priority ELSE 0
      out == TakenOut(st, D)
  IN [out EXCEPT
        !.queues = [n \in QueueNames |->
                      @[n] \cup {<<pri(t), t>> : t \in {u \in D : q(u) = n}}],
        !.arrived = MovedBack(@, {t \in Tasks : IsQueued(st, t)}, D),
        !.task = [t \in Tasks |->
                    IF t \in D
                      THEN [data[t] EXCEPT
                              !.place = [NONE EXCEPT !.q = q(t), !.pri = pri(t)]]
                      ELSE @[t]]]

\* The tasks of D that go to the waiting queue.
Waits(D, data) == {t \in D : QOf(data[t].status) = "waiting"}

\* The three ways requeue ends.
LEMMA RequeuedCases ==
  ASSUME NEW st \in States, NEW D \in SUBSET Tasks, NEW data \in TaskTable
  PROVE  LET put == PutBack(st, D, data)
             wait == Waits(D, data)
             nx == Requeued(st, D, data)
         IN \/ nx = put /\ (wait = {} \/ ~put.indexed)
            \/ nx = Indexed(put, wait) /\ put.indexed
            \/ nx = BuildIndex(put) /\ ~put.indexed
BY DEF Requeued, PutBack, Waits

\* What goes back changes as data says, what does not keeps its fields.
LEMMA PutBackFields ==
  ASSUME NEW st \in States, NEW D \in SUBSET Tasks, NEW data \in TaskTable
  PROVE  LET put == PutBack(st, D, data)
         IN /\ put \in States
            /\ \A t \in D : /\ SameFields(put.task[t], data[t])
                            /\ put.task[t].place.q = QOf(data[t].status)
                            /\ put.task[t].place.pri =
                                 IF QOf(data[t].status) = "ready" THEN data[t].priority ELSE 0
                            /\ put.task[t].place.sleep = Never
                            /\ put.task[t].place.target = NoObj
            /\ \A t \in Tasks \ D : put.task[t] = st.task[t]
            /\ SameFlags(st, put)
            /\ put.arrived = MovedBack(st.arrived, {t \in Tasks : IsQueued(st, t)}, D)
            /\ put.indexed => st.indexed
<1> DEFINE q(t) == QOf(data[t].status)
           pri(t) == IF q(t) = "ready" THEN data[t].priority ELSE 0
           at(t) == [NONE EXCEPT !.q = q(t), !.pri = pri(t)]
           out == TakenOut(st, D)
           others == {t \in Tasks : IsQueued(st, t)}
           queues == [n \in QueueNames |->
                        out.queues[n] \cup {<<pri(t), t>> : t \in {u \in D : q(u) = n}}]
           task == [t \in Tasks |-> IF t \in D THEN [data[t] EXCEPT !.place = at(t)]
                                               ELSE out.task[t]]
           put == PutBack(st, D, data)
<1>1. /\ out \in States
      /\ \A t \in Tasks \ D : out.task[t] = st.task[t]
      /\ SameFlags(st, out) /\ out.arrived = st.arrived
      /\ out.indexed => st.indexed
  BY TakenOutType, TakenOutFields
<1>2. ASSUME NEW t \in Tasks
      PROVE  data[t] \in TaskData /\ pri(t) \in Nat /\ q(t) \in QueueNames
  BY TaskFields, ConstantsAssumption, QOfType DEF TaskTable
<1>3. put = [out EXCEPT !.queues = queues, !.arrived = MovedBack(out.arrived, others, D),
                        !.task = task]
  BY DEF PutBack
<1>4. ASSUME NEW t \in Tasks
      PROVE  /\ at(t) \in Places /\ at(t).q = q(t) /\ at(t).pri = pri(t)
             /\ at(t).sleep = Never /\ at(t).target = NoObj
  <2> HIDE DEF q, pri
  <2> QED  BY <1>2, TicksAreNat DEF NONE, Places
<1>5. queues \in [QueueNames -> SUBSET (Nat \X Tasks)]
  <2> HIDE DEF out, q, pri
  <2> QED  BY <1>1, <1>2, StateFields
<1>6. ASSUME NEW t \in D
      PROVE  /\ task[t] \in TaskData /\ SameFields(task[t], data[t])
             /\ task[t].place = at(t)
  <2> HIDE DEF at, out
  <2> QED  BY <1>2, <1>4 DEF TaskData, SameFields
<1>7. task \in TaskTable
  <2>1. \A t \in Tasks \ D : task[t] \in TaskData
    <3> HIDE DEF out, at
    <3> QED  BY <1>1, StateFields DEF TaskTable
  <2>2. DOMAIN task = Tasks /\ \A t \in Tasks : task[t] \in TaskData
    <3> HIDE DEF at, out
    <3> QED  BY <1>6, <2>1
  <2>3. task = [t \in Tasks |-> task[t]]
    OBVIOUS
  <2> HIDE DEF task
  <2> QED  BY <2>2, <2>3 DEF TaskTable
<1>8. MovedBack(out.arrived, others, D) \in SUBSET (Tasks \X Tasks)
  <2> HIDE DEF out
  <2> QED  BY <1>1, StateFields DEF MovedBack
<1>9. \A t \in Tasks \ D : task[t] = out.task[t]
  OBVIOUS
<1> HIDE DEF out, queues, task, others, put
<1>10. put \in States
  BY <1>1, <1>3, <1>5, <1>7, <1>8 DEF States, TaskTable
<1>11. /\ put.task = task /\ put.indexed = out.indexed
       /\ put.arrived = MovedBack(out.arrived, others, D) /\ SameFlags(out, put)
  BY <1>1, <1>3 DEF States, SameFlags
<1>12. SameFlags(st, put)
  BY <1>1, <1>11 DEF SameFlags
<1>13. ASSUME NEW t \in D
       PROVE  /\ SameFields(put.task[t], data[t]) /\ put.task[t].place = at(t)
  BY <1>6, <1>11
<1>14. ASSUME NEW t \in D
       PROVE  /\ put.task[t].place.q = QOf(data[t].status)
              /\ put.task[t].place.pri =
                   IF QOf(data[t].status) = "ready" THEN data[t].priority ELSE 0
              /\ put.task[t].place.sleep = Never
              /\ put.task[t].place.target = NoObj
  BY <1>4, <1>13
<1>15. \A t \in Tasks \ D : put.task[t] = st.task[t]
  BY <1>1, <1>9, <1>11
<1>16. put.arrived = MovedBack(st.arrived, others, D) /\ (put.indexed => st.indexed)
  BY <1>1, <1>11
<1> HIDE DEF at
<1> QED  BY <1>10, <1>12, <1>13, <1>14, <1>15, <1>16 DEF put, others
\* requeue takes states to states, whatever well-typed fields the tasks get.
LEMMA RequeuedType ==
  ASSUME NEW st \in States, NEW D \in SUBSET Tasks, NEW data \in TaskTable
  PROVE  Requeued(st, D, data) \in States
<1> DEFINE put == PutBack(st, D, data)
           wait == Waits(D, data)
<1>1. put \in States /\ wait \in SUBSET Tasks
  BY PutBackFields DEF Waits
<1>2. Indexed(put, wait) \in States /\ BuildIndex(put) \in States
  <2> HIDE DEF put, wait
  <2> QED  BY <1>1, IndexedType, BuildIndexType
<1>3. Requeued(st, D, data) \in {put, Indexed(put, wait), BuildIndex(put)}
  BY RequeuedCases
<1> QED  BY <1>1, <1>2, <1>3

\* set_status takes states to states.
LEMMA SetStatusType ==
  ASSUME NEW st \in States, NEW t \in Tasks, NEW status \in Statuses
  PROVE  SetStatus(st, t, status) \in States
<1>1. [st.task EXCEPT ![t].status = status] \in TaskTable
  BY StateFields DEF TaskTable, TaskData
<1> QED  BY <1>1, RequeuedType DEF SetStatus

\* task_set_index_from takes states to states.
LEMMA SetIndexFromType ==
  ASSUME NEW st \in States, NEW n \in IndexFroms
  PROVE  SetIndexFrom(st, n) \in States
<1> DEFINE set == [st EXCEPT !.index_from = n]
<1>1. set \in States
  BY DEF States
<1>2. BuildIndex(set) \in States /\ UnindexWaiting(set) \in States
  BY <1>1, BuildIndexType, UnindexWaitingType
<1> QED  BY <1>1, <1>2 DEF SetIndexFrom

\* A task some ticks later is a task.
LEMMA AgedType ==
  ASSUME NEW d \in TaskData, NEW n \in Nat
  PROVE  Aged(d, n) \in TaskData
<1>1. /\ Later(d.wakeup_tick, n) \in Ticks
      /\ Later(d.by, n) \in Ticks
      /\ Later(d.place.sleep, n) \in Ticks
  BY TaskFields, LaterType DEF Places
<1>2. [d.place EXCEPT !.sleep = Later(d.place.sleep, n)] \in Places
  BY <1>1, TaskFields DEF Places
<1>3. [d EXCEPT !.wakeup_tick = Later(d.wakeup_tick, n), !.by = Later(d.by, n),
                !.place = [d.place EXCEPT !.sleep = Later(d.place.sleep, n)]] \in TaskData
  BY <1>1, <1>2 DEF TaskData
<1>4. Aged(d, n) = [d EXCEPT !.wakeup_tick = Later(d.wakeup_tick, n), !.by = Later(d.by, n),
                !.place = [d.place EXCEPT !.sleep = Later(d.place.sleep, n)]]
  BY DEF Aged, TaskData, Places
<1> QED  BY <1>3, <1>4

\* The clock moving on takes states to states.
LEMMA ElapsedType ==
  ASSUME NEW st \in States, NEW n \in Nat
  PROVE  Elapsed(st, n) \in States
<1> DEFINE task == [t \in Tasks |-> Aged(st.task[t], n)]
           sleepers == {<<Later(e[1], n), e[2]>> : e \in st.sleepers}
<1>1. task \in TaskTable
  BY AgedType, StateFields DEF TaskTable
<1>2. sleepers \in SUBSET ((0 .. MaxWait) \X Tasks)
  <2>1. \A d \in 0 .. MaxWait : d \in Ticks /\ d # Never
    BY ConstantsAssumption DEF Ticks, Never
  <2>2. \A d \in 0 .. MaxWait : Later(d, n) \in 0 .. MaxWait
    BY <2>1, LaterType, ConstantsAssumption DEF Ticks, Never
  <2> QED  BY <2>2, StateFields
<1>3. Later(st.wakeup_tick, n) \in Ticks
  BY StateFields, LaterType
<1> HIDE DEF task, sleepers
<1>4. [st EXCEPT !.wakeup_tick = Later(st.wakeup_tick, n), !.sleepers = sleepers,
                 !.task = task] \in States
  BY <1>1, <1>2, <1>3 DEF States, TaskTable
<1> QED  BY <1>4 DEF Elapsed, task, sleepers

\* note_wakeup takes states to states.
LEMMA NoteWakeupType ==
  ASSUME NEW st \in States, NEW d \in Ticks
  PROVE  NoteWakeup(st, d) \in States
BY DEF NoteWakeup, States

\* A task that has been woken is a task.
LEMMA RousedType ==
  ASSUME NEW d \in TaskData
  PROVE  Roused(d) \in TaskData
BY TicksAreNat DEF Roused, TaskData, Statuses, Reasons

\* The tasks a wake-up finds due are tasks.
LEMMA DueType ==
  ASSUME NEW st \in States
  PROVE  Due(st) \in SUBSET Tasks
<1>1. {e[2] : e \in {s \in st.sleepers : s[1] = 0}} \in SUBSET Tasks
  BY StateFields
<1>2. InQueue(st, "waiting") \in SUBSET Tasks
  BY InQueueType DEF QueueNames
<1> QED  BY <1>1, <1>2 DEF Due

\* wake_sleepers takes states to states.
LEMMA WakeSleepersType ==
  ASSUME NEW st \in States
  PROVE  WakeSleepers(st) \in States
<1> DEFINE due == Due(st)
           later == {st.task[t].wakeup_tick :
                t \in {u \in InQueue(st, "waiting") \ due : HasDeadline(st.task[u])}}
           woken == Requeued(st, due, [t \in Tasks |-> Roused(st.task[t])])
           left == IF woken.indexed
                     THEN Earliest({woken.task[e[2]].wakeup_tick : e \in woken.sleepers})
                   ELSE IF st.indexed THEN Never ELSE Earliest(later)
<1>1. due \in SUBSET Tasks
  BY DueType
<1>2. [t \in Tasks |-> Roused(st.task[t])] \in TaskTable
  BY StateFields, RousedType DEF TaskTable
<1>3. woken \in States
  <2> HIDE DEF due
  <2> QED  BY <1>1, <1>2, RequeuedType
<1>4. later \in SUBSET Ticks
  <2> HIDE DEF due
  <2>1. InQueue(st, "waiting") \in SUBSET Tasks
    BY InQueueType DEF QueueNames
  <2> QED  BY <2>1, StateFields, TaskFields DEF TaskTable
<1> HIDE DEF due, later, woken
<1>5. {woken.task[e[2]].wakeup_tick : e \in woken.sleepers} \in SUBSET Ticks
  BY <1>3, StateFields, TaskFields DEF TaskTable
<1>6. left \in Ticks
  BY <1>4, <1>5, EarliestType, TicksAreNat
<1> HIDE DEF left
<1>7. [woken EXCEPT !.wakeup_tick = left,
                    !.switching = woken.switching \/ due # {}] \in States
  BY <1>3, <1>6 DEF States
<1> QED  BY <1>7 DEF WakeSleepers, due, later, woken, left

\* advance_ticks takes states to states.
LEMMA AdvanceTicksType ==
  ASSUME NEW st \in States, NEW n \in Nat
  PROVE  AdvanceTicks(st, n) \in States
BY ElapsedType, WakeSleepersType DEF AdvanceTicks

\* waiting_for finds tasks.
LEMMA WaitingForType ==
  ASSUME NEW st \in States, NEW target
  PROVE  WaitingFor(st, target) \in SUBSET Tasks
<1>1. {e[2] : e \in {w \in st.waiters : w[1] = target}} \in SUBSET Tasks
  BY StateFields
<1>2. InQueue(st, "waiting") \in SUBSET Tasks
  BY InQueueType DEF QueueNames
<1> QED  BY <1>1, <1>2 DEF WaitingFor

\* wake_join_waiters takes states to states.
LEMMA JoinWaitersWokenType ==
  ASSUME NEW st \in States, NEW done \in Tasks
  PROVE  JoinWaitersWoken(st, done) \in States
<1> DEFINE D == {t \in WaitingFor(st, done) :
                   st.task[t].reason = "JOIN" /\ st.task[t].join = done}
           data == [t \in Tasks |->
                      [st.task[t] EXCEPT !.status = "READY", !.reason = "NONE", !.join = NoObj]]
<1>1. D \in SUBSET Tasks
  BY WaitingForType
<1>2. data \in TaskTable
  <2>1. ASSUME NEW d \in TaskData
        PROVE  [d EXCEPT !.status = "READY", !.reason = "NONE", !.join = NoObj] \in TaskData
    BY DEF TaskData, Statuses, Reasons
  <2> QED  BY <2>1, StateFields DEF TaskTable
<1> HIDE DEF D, data
<1>3. Requeued(st, D, data) \in States
  BY <1>1, <1>2, RequeuedType
<1> QED  BY <1>3 DEF JoinWaitersWoken, D, data

\* wake_queue_waiters takes states to states.
LEMMA ReadersWokenType ==
  ASSUME NEW st \in States, NEW q, NEW D \in SUBSET Tasks
  PROVE  ReadersWoken(st, q, D) \in States
<1> DEFINE R == {t \in D : st.task[t].reason = "QUEUE" /\ st.task[t].queue = q}
           woken == Requeued(st, R, [t \in Tasks |-> Roused(st.task[t])])
<1>1. [t \in Tasks |-> Roused(st.task[t])] \in TaskTable
  BY StateFields, RousedType DEF TaskTable
<1>2. woken \in States
  BY <1>1, RequeuedType
<1> HIDE DEF R, woken
<1>3. [woken EXCEPT !.switching = woken.switching \/ R # {}] \in States
  BY <1>2 DEF States
<1> QED  BY <1>3 DEF ReadersWoken, R, woken

\* stop_task takes states to states.
LEMMA StopTaskType ==
  ASSUME NEW st \in States, NEW t \in Tasks, NEW cur
  PROVE  StopTask(st, t, cur) \in States
<1> DEFINE over == IF IsQueued(st, t) THEN SetStatus(st, t, "DORMANT")
                   ELSE [st EXCEPT !.task[t].status = "DORMANT"]
           gone == IF t = cur THEN over ELSE [over EXCEPT !.task[t].ctx = "dead"]
<1>1. [st.task EXCEPT ![t].status = "DORMANT"] \in TaskTable
  BY StateFields DEF TaskTable, TaskData, Statuses
<1>2. [st EXCEPT !.task = [st.task EXCEPT ![t].status = "DORMANT"]] \in States
  BY <1>1 DEF States, TaskTable
<1>3. over \in States
  BY <1>2, SetStatusType DEF Statuses
<1> HIDE DEF over
<1>4. [over.task EXCEPT ![t].ctx = "dead"] \in TaskTable
  BY <1>3, StateFields DEF TaskTable, TaskData
<1>5. [over EXCEPT !.task = [over.task EXCEPT ![t].ctx = "dead"]] \in States
  BY <1>3, <1>4 DEF States, TaskTable
<1>6. gone \in States
  BY <1>3, <1>5
<1> HIDE DEF gone
<1> QED  BY <1>6, JoinWaitersWokenType DEF StopTask, over, gone

---------------------------------------------------------------------------
(* Well-placed states to well-placed states *)

\* What the operators below preserve: every queue and index holds exactly the
\* entries the tasks remember, and indexes that are off are empty.
Consistent(st) ==
  /\ WellPlaced(st)
  /\ st.indexed \/ (st.sleepers = {} /\ st.waiters = {})

\* An index key is never the mark of being in no index.
LEMMA KeysAreReal ==
  ASSUME NEW st \in States
  PROVE  /\ \A e \in st.sleepers : e[1] # Never /\ e[2] \in Tasks
         /\ \A e \in st.waiters : e[1] # NoObj /\ e[2] \in Tasks
         /\ \A q \in QueueNames : \A e \in st.queues[q] : q # "nowhere" /\ e[2] \in Tasks
<1>1. \A n \in 0 .. MaxWait : n # Never
  BY ConstantsAssumption DEF Never
<1>2. \A o \in Targets : o # NoObj
  BY ConstantsAssumption DEF Targets
<1> QED  BY <1>1, <1>2, StateFields DEF QueueNames

\* A step that moves no task keeps everything in its place.
LEMMA NothingMoved ==
  ASSUME NEW st \in States, NEW nx, Consistent(st),
         nx.queues = st.queues, nx.sleepers = st.sleepers,
         nx.waiters = st.waiters, nx.indexed = st.indexed,
         \A t \in Tasks : nx.task[t].place = st.task[t].place
  PROVE  Consistent(nx)
BY KeysAreReal DEF Consistent, WellPlaced

\* Taking tasks out leaves no entry of theirs behind.
LEMMA TakenOutPlaced ==
  ASSUME NEW st \in States, NEW D \in SUBSET Tasks, Consistent(st)
  PROVE  /\ Consistent(TakenOut(st, D))
         /\ \A t \in D : TakenOut(st, D).task[t].place = NONE
<1> DEFINE at(t) == st.task[t].place
           left == [q \in QueueNames |->
                      {e \in st.queues[q] :
                         ~(e[2] \in D /\ at(e[2]).q = q /\ at(e[2]).pri = e[1])}]
           emptied == /\ \E t \in D : at(t).q = "waiting"
                      /\ left["waiting"] = {}
                      /\ st.index_from > 0
           task == [t \in Tasks |-> IF t \in D THEN [st.task[t] EXCEPT !.place = NONE]
                                               ELSE st.task[t]]
           sleepers == {e \in st.sleepers : ~(e[2] \in D /\ at(e[2]).sleep = e[1])}
           waiters == {e \in st.waiters : ~(e[2] \in D /\ at(e[2]).target = e[1])}
           out == TakenOut(st, D)
<1>1. /\ out.queues = left /\ out.sleepers = sleepers /\ out.waiters = waiters
      /\ out.task = task /\ out.indexed = (st.indexed /\ ~emptied)
  BY DEF TakenOut, States
<1>2. /\ \A q \in QueueNames : \A e \in st.queues[q] : at(e[2]).q = q /\ at(e[2]).pri = e[1]
      /\ \A e \in st.sleepers : at(e[2]).sleep = e[1]
      /\ \A e \in st.waiters : at(e[2]).target = e[1]
  BY DEF Consistent, WellPlaced
<1>3. /\ \A q \in QueueNames : \A e \in st.queues[q] : e \in left[q] <=> e[2] \notin D
      /\ \A q \in QueueNames : left[q] \subseteq st.queues[q]
      /\ \A e \in st.sleepers : e \in sleepers <=> e[2] \notin D
      /\ \A e \in st.waiters : e \in waiters <=> e[2] \notin D
      /\ sleepers \subseteq st.sleepers /\ waiters \subseteq st.waiters
  BY <1>2
<1>4. /\ \A t \in D : task[t].place = NONE
      /\ \A t \in Tasks \ D : task[t] = st.task[t]
  BY StateFields DEF TaskTable, TaskData
<1> HIDE DEF left, emptied, task, sleepers, waiters, out
<1>5. WellPlaced(out)
  <2>1. \A q \in QueueNames : \A e \in out.queues[q] :
          out.task[e[2]].place.q = q /\ out.task[e[2]].place.pri = e[1]
    BY <1>1, <1>2, <1>3, <1>4, KeysAreReal
  <2>2. /\ \A e \in out.sleepers : out.task[e[2]].place.sleep = e[1]
        /\ \A e \in out.waiters : out.task[e[2]].place.target = e[1]
    BY <1>1, <1>2, <1>3, <1>4, KeysAreReal
  <2>3. ASSUME NEW t \in Tasks
        PROVE  LET p == out.task[t].place
               IN /\ p.q # "nowhere" => <<p.pri, t>> \in out.queues[p.q]
                  /\ p.sleep # Never => <<p.sleep, t>> \in out.sleepers
                  /\ p.target # NoObj => <<p.target, t>> \in out.waiters
                  /\ p.sleep # Never \/ p.target # NoObj => p.q = "waiting"
    <3>1. CASE t \in D
      BY <3>1, <1>1, <1>4 DEF NONE
    <3>2. CASE t \notin D
      <4>1. st.task[t].place \in Places
        BY StateFields, TaskFields DEF TaskTable
      <4>2. LET p == st.task[t].place
            IN /\ p.q # "nowhere" => <<p.pri, t>> \in st.queues[p.q] /\ p.q \in QueueNames
               /\ p.sleep # Never => <<p.sleep, t>> \in st.sleepers
               /\ p.target # NoObj => <<p.target, t>> \in st.waiters
               /\ p.sleep # Never \/ p.target # NoObj => p.q = "waiting"
        BY <4>1 DEF Consistent, WellPlaced, Places
      <4>3. out.task[t] = st.task[t]
        BY <3>2, <1>1, <1>4
      <4> QED  BY <3>2, <4>2, <4>3, <1>1, <1>3
    <3> QED  BY <3>1, <3>2
  <2> QED  BY <2>1, <2>2, <2>3 DEF WellPlaced
<1>6. out.indexed \/ (out.sleepers = {} /\ out.waiters = {})
  <2>1. CASE ~st.indexed
    BY <2>1, <1>1, <1>3 DEF Consistent
  <2>2. CASE emptied
    <3>1. out.queues["waiting"] = {}
      BY <2>2, <1>1 DEF emptied
    <3>2. \A t \in Tasks : out.task[t].place.q # "waiting"
      BY <3>1, <1>5 DEF WellPlaced
    <3>3. \A t \in Tasks : out.task[t].place.sleep = Never /\ out.task[t].place.target = NoObj
      BY <3>2, <1>5 DEF WellPlaced
    <3> QED  BY <3>3, <1>5, KeysAreReal, TakenOutType DEF WellPlaced, out
  <2>3. CASE st.indexed /\ ~emptied
    BY <2>3, <1>1
  <2> QED  BY <2>1, <2>2, <2>3, StateFields
<1> QED  BY <1>1, <1>4, <1>5, <1>6 DEF Consistent, out

\* Putting waiting tasks that are in no index in the ones their fields name.
LEMMA IndexedPlaced ==
  ASSUME NEW st \in States, NEW D \in SUBSET Tasks, WellPlaced(st),
         \A t \in D : /\ st.task[t].place.q = "waiting"
                      /\ st.task[t].place.sleep = Never
                      /\ st.task[t].place.target = NoObj
  PROVE  /\ WellPlaced(Indexed(st, D))
         /\ Indexed(st, D).indexed = st.indexed
<1> DEFINE sleepy == {t \in D : HasDeadline(st.task[t])}
           aimed == {t \in D : TargetOf(st.task[t]) # NoObj}
           key(t) == [st.task[t].place EXCEPT
                        !.sleep = IF t \in sleepy THEN st.task[t].wakeup_tick
                                                  ELSE Never,
                        !.target = TargetOf(st.task[t])]
           sleepers == st.sleepers \cup {<<st.task[t].wakeup_tick, t>> : t \in sleepy}
           waiters == st.waiters \cup {<<TargetOf(st.task[t]), t>> : t \in aimed}
           task == [t \in Tasks |-> IF t \in D THEN [st.task[t] EXCEPT !.place = key(t)]
                                               ELSE st.task[t]]
           in == Indexed(st, D)
<1>1. /\ in.queues = st.queues /\ in.sleepers = sleepers /\ in.waiters = waiters
      /\ in.task = task /\ in.indexed = st.indexed
  BY DEF Indexed, States
<1>2. ASSUME NEW t \in Tasks \ D
      PROVE  task[t] = st.task[t]
  OBVIOUS
<1>3. ASSUME NEW t \in D
      PROVE  /\ task[t].place.q = "waiting"
             /\ task[t].place.pri = st.task[t].place.pri
             /\ task[t].place.sleep = IF t \in sleepy THEN st.task[t].wakeup_tick ELSE Never
             /\ task[t].place.target = TargetOf(st.task[t])
  <2>1. st.task[t] \in TaskData /\ st.task[t].place \in Places
    BY StateFields, TaskFields DEF TaskTable
  <2>2. task[t].place = key(t)
    <3> HIDE DEF key
    <3> QED  BY <2>1 DEF TaskData
  <2> HIDE DEF sleepy, task
  <2> QED  BY <2>1, <2>2 DEF Places
<1>4. \A t \in D : t \in sleepy => st.task[t].wakeup_tick # Never
  BY DEF HasDeadline
<1>5. /\ \A q \in QueueNames : \A e \in st.queues[q] :
           st.task[e[2]].place.q = q /\ st.task[e[2]].place.pri = e[1]
      /\ \A e \in st.sleepers : e[2] \in Tasks \ D /\ st.task[e[2]].place.sleep = e[1]
      /\ \A e \in st.waiters : e[2] \in Tasks \ D /\ st.task[e[2]].place.target = e[1]
  BY KeysAreReal DEF WellPlaced
<1>6. \A q \in QueueNames : \A e \in in.queues[q] :
        in.task[e[2]].place.q = q /\ in.task[e[2]].place.pri = e[1]
  <2> HIDE DEF task, sleepy, in
  <2> QED  BY <1>1, <1>2, <1>3, <1>5, KeysAreReal
<1>7. /\ \A e \in in.sleepers : in.task[e[2]].place.sleep = e[1]
      /\ \A e \in in.waiters : in.task[e[2]].place.target = e[1]
  <2> HIDE DEF task, in
  <2> QED  BY <1>1, <1>2, <1>3, <1>5
<1>8. ASSUME NEW t \in Tasks
      PROVE  LET p == in.task[t].place
             IN /\ p.q # "nowhere" => <<p.pri, t>> \in in.queues[p.q]
                /\ p.sleep # Never => <<p.sleep, t>> \in in.sleepers
                /\ p.target # NoObj => <<p.target, t>> \in in.waiters
                /\ p.sleep # Never \/ p.target # NoObj => p.q = "waiting"
  <2>1. LET p == st.task[t].place
        IN /\ p.q # "nowhere" => <<p.pri, t>> \in st.queues[p.q]
           /\ p.sleep # Never => <<p.sleep, t>> \in st.sleepers
           /\ p.target # NoObj => <<p.target, t>> \in st.waiters
           /\ p.sleep # Never \/ p.target # NoObj => p.q = "waiting"
    BY DEF WellPlaced
  <2>2. CASE t \in D
    <3> HIDE DEF task, in
    <3> QED  BY <2>1, <2>2, <1>1, <1>3
  <2>3. CASE t \notin D
    <3>1. in.task[t] = st.task[t]
      BY <2>3, <1>1, <1>2
    <3> HIDE DEF task, in
    <3> QED  BY <2>1, <3>1, <1>1
  <2> QED  BY <2>2, <2>3
<1> QED  BY <1>1, <1>6, <1>7, <1>8 DEF WellPlaced

\* Building the indexes from the waiting queue.
LEMMA BuildIndexPlaced ==
  ASSUME NEW st \in States, Consistent(st), ~st.indexed
  PROVE  Consistent(BuildIndex(st))
<1> DEFINE D == InQueue(st, "waiting")
<1>1. D \in SUBSET Tasks
  BY InQueueType DEF QueueNames
<1>2. ASSUME NEW t \in D
      PROVE  /\ st.task[t].place.q = "waiting"
             /\ st.task[t].place.sleep = Never
             /\ st.task[t].place.target = NoObj
  <2>1. t \in Tasks
    BY <1>1
  <2>2. st.task[t].place.q = "waiting"
    BY DEF InQueue, Consistent, WellPlaced, QueueNames
  <2>3. st.sleepers = {} /\ st.waiters = {}
    BY DEF Consistent
  <2> QED  BY <2>1, <2>2, <2>3 DEF Consistent, WellPlaced
<1> HIDE DEF D
<1>3. WellPlaced(Indexed(st, D)) /\ Indexed(st, D) \in States
  BY <1>1, <1>2, IndexedPlaced, IndexedType DEF Consistent
<1>4. BuildIndex(st) = [Indexed(st, D) EXCEPT !.indexed = TRUE]
  BY DEF BuildIndex, D
<1>5. /\ BuildIndex(st).queues = Indexed(st, D).queues
      /\ BuildIndex(st).sleepers = Indexed(st, D).sleepers
      /\ BuildIndex(st).waiters = Indexed(st, D).waiters
      /\ BuildIndex(st).task = Indexed(st, D).task
      /\ BuildIndex(st).indexed
  BY <1>3, <1>4 DEF States
<1> QED  BY <1>3, <1>5 DEF Consistent, WellPlaced

\* Dropping them.
LEMMA UnindexWaitingPlaced ==
  ASSUME NEW st \in States, Consistent(st)
  PROVE  Consistent(UnindexWaiting(st))
<1> DEFINE un == UnindexWaiting(st)
           W == InQueue(st, "waiting")
<1>1. /\ un.queues = st.queues /\ un.sleepers = {} /\ un.waiters = {}
      /\ ~un.indexed
  BY DEF UnindexWaiting, States
<1>2. ASSUME NEW t \in Tasks
      PROVE  /\ un.task[t].place.q = st.task[t].place.q
             /\ un.task[t].place.pri = st.task[t].place.pri
             /\ t \in W => /\ un.task[t].place.sleep = Never
                           /\ un.task[t].place.target = NoObj
             /\ t \notin W => un.task[t] = st.task[t]
  <2>1. st.task[t] \in TaskData /\ st.task[t].place \in Places
    BY StateFields, TaskFields DEF TaskTable
  <2>2. un.task[t] = IF t \in W THEN [st.task[t] EXCEPT !.place.sleep = Never,
                                                        !.place.target = NoObj]
                     ELSE st.task[t]
    BY DEF UnindexWaiting, States
  <2> HIDE DEF un, W
  <2> QED  BY <2>1, <2>2 DEF TaskData, Places
<1>3. ASSUME NEW t \in Tasks, t \notin W
      PROVE  st.task[t].place.sleep = Never /\ st.task[t].place.target = NoObj
  <2>1. st.task[t].place.q # "waiting"
    <3>1. st.task[t].place.q = "waiting" => <<st.task[t].place.pri, t>> \in st.queues["waiting"]
      BY DEF Consistent, WellPlaced
    <3> QED  BY <3>1, <1>3 DEF InQueue
  <2> QED  BY <2>1 DEF Consistent, WellPlaced
<1> HIDE DEF un, W
<1>4. WellPlaced(un)
  <2>1. \A q \in QueueNames : \A e \in un.queues[q] :
          un.task[e[2]].place.q = q /\ un.task[e[2]].place.pri = e[1]
    BY <1>1, <1>2, KeysAreReal DEF Consistent, WellPlaced
  <2>2. ASSUME NEW t \in Tasks
        PROVE  LET p == un.task[t].place
               IN /\ p.q # "nowhere" => <<p.pri, t>> \in un.queues[p.q]
                  /\ p.sleep = Never /\ p.target = NoObj
    <3>1. st.task[t].place.q # "nowhere"
            => <<st.task[t].place.pri, t>> \in st.queues[st.task[t].place.q]
      BY DEF Consistent, WellPlaced
    <3>2. un.task[t].place.sleep = Never /\ un.task[t].place.target = NoObj
      BY <1>2, <1>3
    <3> QED  BY <1>1, <1>2, <3>1, <3>2
  <2> QED  BY <1>1, <2>1, <2>2 DEF WellPlaced
<1> QED  BY <1>1, <1>4 DEF Consistent, un

\* Taking tasks out and putting them behind other queues leaves every entry with
\* its task.
LEMMA PutBackPlaced ==
  ASSUME NEW st \in States, NEW D \in SUBSET Tasks, NEW data \in TaskTable,
         Consistent(st)
  PROVE  Consistent(PutBack(st, D, data))
<1> DEFINE out == TakenOut(st, D)
           q(t) == QOf(data[t].status)
           pri(t) == IF q(t) = "ready" THEN data[t].priority ELSE 0
           queues == [n \in QueueNames |->
                        out.queues[n] \cup {<<pri(t), t>> : t \in {u \in D : q(u) = n}}]
           put == PutBack(st, D, data)
<1>1. /\ out \in States /\ Consistent(out)
      /\ \A t \in D : out.task[t].place = NONE
      /\ \A t \in Tasks \ D : out.task[t] = st.task[t]
  BY TakenOutType, TakenOutPlaced, TakenOutFields
<1>2. ASSUME NEW t \in D
      PROVE  /\ put.task[t].place.q = q(t) /\ put.task[t].place.pri = pri(t)
             /\ put.task[t].place.sleep = Never /\ put.task[t].place.target = NoObj
             /\ q(t) \in QueueNames
  BY PutBackFields, QOfType
<1>3. \A t \in Tasks \ D : put.task[t] = out.task[t]
  BY <1>1, PutBackFields
<1>4. /\ put.queues = queues /\ put.sleepers = out.sleepers
      /\ put.waiters = out.waiters /\ put.indexed = out.indexed
  <2> HIDE DEF out
  <2> QED  BY <1>1 DEF PutBack, States, out
<1>5. \A n \in QueueNames : \A e \in queues[n] :
        \/ e \in out.queues[n] /\ e[2] \in Tasks \ D
        \/ e[2] \in D /\ q(e[2]) = n /\ e[1] = pri(e[2])
  <2>1. \A n \in QueueNames : \A e \in out.queues[n] : e[2] \in Tasks \ D
    <3> HIDE DEF out
    <3> QED  BY <1>1, KeysAreReal DEF Consistent, WellPlaced, NONE
  <2> HIDE DEF out, q, pri
  <2> QED  BY <2>1
<1>6. \A t \in D : <<pri(t), t>> \in queues[q(t)]
  <2> HIDE DEF out, pri
  <2> QED  BY <1>2
<1>7. \A n \in QueueNames : out.queues[n] \subseteq queues[n]
  OBVIOUS
<1> HIDE DEF out, q, pri, queues, put
<1>8. \A n \in QueueNames : \A e \in put.queues[n] :
        put.task[e[2]].place.q = n /\ put.task[e[2]].place.pri = e[1]
  BY <1>1, <1>2, <1>3, <1>4, <1>5 DEF Consistent, WellPlaced
<1>9. /\ \A e \in put.sleepers : put.task[e[2]].place.sleep = e[1]
      /\ \A e \in put.waiters : put.task[e[2]].place.target = e[1]
  <2>1. /\ \A e \in out.sleepers : e[2] \in Tasks \ D
        /\ \A e \in out.waiters : e[2] \in Tasks \ D
    BY <1>1, KeysAreReal DEF Consistent, WellPlaced, NONE
  <2> QED  BY <2>1, <1>1, <1>3, <1>4 DEF Consistent, WellPlaced
<1>10. ASSUME NEW t \in Tasks
       PROVE  LET p == put.task[t].place
              IN /\ p.q # "nowhere" => <<p.pri, t>> \in put.queues[p.q]
                 /\ p.sleep # Never => <<p.sleep, t>> \in put.sleepers
                 /\ p.target # NoObj => <<p.target, t>> \in put.waiters
                 /\ p.sleep # Never \/ p.target # NoObj => p.q = "waiting"
  <2>1. CASE t \in D
    BY <2>1, <1>2, <1>4, <1>6
  <2>2. CASE t \notin D
    <3>1. out.task[t].place \in Places
      BY <1>1, StateFields, TaskFields DEF TaskTable
    <3>2. LET p == out.task[t].place
          IN /\ p.q # "nowhere" => <<p.pri, t>> \in out.queues[p.q] /\ p.q \in QueueNames
             /\ p.sleep # Never => <<p.sleep, t>> \in out.sleepers
             /\ p.target # NoObj => <<p.target, t>> \in out.waiters
             /\ p.sleep # Never \/ p.target # NoObj => p.q = "waiting"
      BY <1>1, <3>1 DEF Consistent, WellPlaced, Places
    <3>3. put.task[t] = out.task[t]
      BY <2>2, <1>3
    <3> QED  BY <3>2, <3>3, <1>4, <1>7
  <2> QED  BY <2>1, <2>2
<1>11. put.indexed \/ (put.sleepers = {} /\ put.waiters = {})
  BY <1>1, <1>4 DEF Consistent
<1>12. WellPlaced(put)
  BY <1>8, <1>9, <1>10 DEF WellPlaced
<1> QED  BY <1>11, <1>12 DEF Consistent, put

\* requeue: whatever the fields of the moved tasks become, and whether the
\* indexes are on, off, or built on the way.
LEMMA RequeuedPlaced ==
  ASSUME NEW st \in States, NEW D \in SUBSET Tasks, NEW data \in TaskTable,
         Consistent(st)
  PROVE  Consistent(Requeued(st, D, data))
<1> DEFINE put == PutBack(st, D, data)
           wait == Waits(D, data)
<1>1. put \in States /\ Consistent(put) /\ wait \in SUBSET Tasks
  BY PutBackFields, PutBackPlaced DEF Waits
<1>2. \A t \in wait : /\ put.task[t].place.q = "waiting"
                      /\ put.task[t].place.sleep = Never
                      /\ put.task[t].place.target = NoObj
  BY PutBackFields DEF Waits
<1>3. \/ Requeued(st, D, data) = put
      \/ put.indexed /\ Requeued(st, D, data) = Indexed(put, wait)
      \/ ~put.indexed /\ Requeued(st, D, data) = BuildIndex(put)
  BY RequeuedCases
<1> HIDE DEF put, wait
<1>4. put.indexed => Consistent(Indexed(put, wait))
  <2>1. WellPlaced(Indexed(put, wait)) /\ Indexed(put, wait).indexed = put.indexed
    BY <1>1, <1>2, IndexedPlaced DEF Consistent
  <2> QED  BY <2>1 DEF Consistent
<1>5. ~put.indexed => Consistent(BuildIndex(put))
  BY <1>1, BuildIndexPlaced
<1> QED  BY <1>1, <1>3, <1>4, <1>5

\* set_status keeps every task in its place.
LEMMA SetStatusPlaced ==
  ASSUME NEW st \in States, NEW t \in Tasks, NEW status \in Statuses, Consistent(st)
  PROVE  Consistent(SetStatus(st, t, status))
<1>1. [st.task EXCEPT ![t].status = status] \in TaskTable
  BY StateFields DEF TaskTable, TaskData
<1> QED  BY <1>1, RequeuedPlaced DEF SetStatus

\* Taking a task out without putting it back.
LEMMA QDeletePlaced ==
  ASSUME NEW st \in States, NEW t \in Tasks, Consistent(st)
  PROVE  Consistent(QDelete(st, t))
<1> DEFINE out == TakenOut(st, {t})
<1>1. out \in States /\ Consistent(out)
  BY TakenOutType, TakenOutPlaced
<1> HIDE DEF out
<1>2. QDelete(st, t) = [out EXCEPT !.arrived = {p \in @ : p[1] # t /\ p[2] # t}]
  BY DEF QDelete, out
<1>3. /\ QDelete(st, t).queues = out.queues /\ QDelete(st, t).sleepers = out.sleepers
      /\ QDelete(st, t).waiters = out.waiters /\ QDelete(st, t).indexed = out.indexed
      /\ QDelete(st, t).task = out.task
  BY <1>1, <1>2 DEF States
<1> QED  BY <1>1, <1>3, NothingMoved

\* task_set_index_from.
LEMMA SetIndexFromPlaced ==
  ASSUME NEW st \in States, NEW n \in IndexFroms, Consistent(st)
  PROVE  Consistent(SetIndexFrom(st, n))
<1> DEFINE set == [st EXCEPT !.index_from = n]
<1>1. /\ set \in States
      /\ set.queues = st.queues /\ set.sleepers = st.sleepers
      /\ set.waiters = st.waiters /\ set.indexed = st.indexed /\ set.task = st.task
  BY DEF States
<1> HIDE DEF set
<1>2. Consistent(set)
  BY <1>1, NothingMoved
<1>3. /\ ~st.indexed => Consistent(BuildIndex(set))
      /\ Consistent(UnindexWaiting(set))
  BY <1>1, <1>2, BuildIndexPlaced, UnindexWaitingPlaced
<1>4. \/ SetIndexFrom(st, n) = set
      \/ ~st.indexed /\ SetIndexFrom(st, n) = BuildIndex(set)
      \/ SetIndexFrom(st, n) = UnindexWaiting(set)
  BY DEF SetIndexFrom, set
<1> QED  BY <1>2, <1>3, <1>4

\* Time passing brings a sleeper and its index key nearer together.
LEMMA ElapsedPlaced ==
  ASSUME NEW st \in States, NEW n \in Nat, Consistent(st)
  PROVE  Consistent(Elapsed(st, n))
<1> DEFINE el == Elapsed(st, n)
           sleepers == {<<Later(e[1], n), e[2]>> : e \in st.sleepers}
<1>1. /\ el.queues = st.queues /\ el.sleepers = sleepers /\ el.waiters = st.waiters
      /\ el.indexed = st.indexed
      /\ \A t \in Tasks : el.task[t] = Aged(st.task[t], n)
  BY DEF Elapsed, States
<1>2. ASSUME NEW t \in Tasks
      PROVE  /\ el.task[t].place.q = st.task[t].place.q
             /\ el.task[t].place.pri = st.task[t].place.pri
             /\ el.task[t].place.target = st.task[t].place.target
             /\ el.task[t].place.sleep = Later(st.task[t].place.sleep, n)
  <2>1. st.task[t] \in TaskData /\ st.task[t].place \in Places
    BY StateFields, TaskFields DEF TaskTable
  <2>2. el.task[t] = Aged(st.task[t], n)
    BY <1>1
  <2> HIDE DEF el
  <2> QED  BY <2>1, <2>2 DEF Aged, TaskData, Places
<1>3. ASSUME NEW t \in Tasks
      PROVE  Later(st.task[t].place.sleep, n) # Never => st.task[t].place.sleep # Never
  <2>1. st.task[t].place \in Places
    BY StateFields, TaskFields DEF TaskTable
  <2> QED  BY <2>1, LaterType DEF Places
<1> HIDE DEF el
<1>4. \A q \in QueueNames : \A e \in el.queues[q] :
        el.task[e[2]].place.q = q /\ el.task[e[2]].place.pri = e[1]
  BY <1>1, <1>2, KeysAreReal DEF Consistent, WellPlaced
<1>5. \A e \in el.sleepers : el.task[e[2]].place.sleep = e[1]
  <2>1. \A e \in st.sleepers : e[2] \in Tasks /\ st.task[e[2]].place.sleep = e[1]
    BY KeysAreReal DEF Consistent, WellPlaced
  <2>2. \A e \in st.sleepers : el.task[e[2]].place.sleep = Later(e[1], n)
    BY <1>2, <2>1
  <2> QED  BY <1>1, <2>2
<1>6. \A e \in el.waiters : el.task[e[2]].place.target = e[1]
  BY <1>1, <1>2, KeysAreReal DEF Consistent, WellPlaced
<1>7. ASSUME NEW t \in Tasks
      PROVE  LET p == el.task[t].place
             IN /\ p.q # "nowhere" => <<p.pri, t>> \in el.queues[p.q]
                /\ p.sleep # Never => <<p.sleep, t>> \in el.sleepers
                /\ p.target # NoObj => <<p.target, t>> \in el.waiters
                /\ p.sleep # Never \/ p.target # NoObj => p.q = "waiting"
  <2>1. LET p == st.task[t].place
        IN /\ p.q # "nowhere" => <<p.pri, t>> \in st.queues[p.q]
           /\ p.sleep # Never => <<p.sleep, t>> \in st.sleepers
           /\ p.target # NoObj => <<p.target, t>> \in st.waiters
           /\ p.sleep # Never \/ p.target # NoObj => p.q = "waiting"
    BY DEF Consistent, WellPlaced
  <2>2. st.task[t].place.sleep # Never
          => <<Later(st.task[t].place.sleep, n), t>> \in sleepers
    BY <2>1
  <2> HIDE DEF sleepers
  <2> QED  BY <1>1, <1>2, <1>3, <2>1, <2>2
<1>8. el.indexed \/ (el.sleepers = {} /\ el.waiters = {})
  BY <1>1 DEF Consistent
<1> QED  BY <1>4, <1>5, <1>6, <1>7, <1>8 DEF Consistent, WellPlaced, el

\* note_wakeup keeps every task in its place.
LEMMA NoteWakeupPlaced ==
  ASSUME NEW st \in States, NEW d, Consistent(st)
  PROVE  Consistent(NoteWakeup(st, d))
<1> DEFINE nx == NoteWakeup(st, d)
<1>1. /\ nx.queues = st.queues /\ nx.sleepers = st.sleepers /\ nx.waiters = st.waiters
      /\ nx.indexed = st.indexed /\ nx.task = st.task
  BY DEF NoteWakeup, States
<1> HIDE DEF nx
<1>2. Consistent(nx)
  BY <1>1, NothingMoved
<1> QED  BY <1>2 DEF nx

\* The tasks that are due move to the ready queue.
LEMMA WakeSleepersPlaced ==
  ASSUME NEW st \in States, Consistent(st)
  PROVE  Consistent(WakeSleepers(st))
<1> DEFINE woken == Requeued(st, Due(st), [t \in Tasks |-> Roused(st.task[t])])
           nx == WakeSleepers(st)
<1>1. [t \in Tasks |-> Roused(st.task[t])] \in TaskTable
  BY StateFields, RousedType DEF TaskTable
<1>2. woken \in States /\ Consistent(woken)
  BY <1>1, DueType, RequeuedType, RequeuedPlaced
<1> HIDE DEF woken
<1>3. \/ nx = st
      \/ /\ nx.queues = woken.queues /\ nx.sleepers = woken.sleepers
         /\ nx.waiters = woken.waiters /\ nx.indexed = woken.indexed
         /\ nx.task = woken.task
  <2>1. \/ nx = st
        \/ \E left, due : nx = [woken EXCEPT !.wakeup_tick = left,
                                            !.switching = @ \/ due # {}]
    BY DEF WakeSleepers, woken
  <2> QED  BY <1>2, <2>1 DEF States
<1> HIDE DEF nx
<1>4. Consistent(nx)
  BY <1>2, <1>3, NothingMoved
<1> QED  BY <1>4 DEF nx

\* advance_ticks keeps every task in its place.
LEMMA AdvanceTicksPlaced ==
  ASSUME NEW st \in States, NEW n \in Nat, Consistent(st)
  PROVE  Consistent(AdvanceTicks(st, n))
BY ElapsedType, ElapsedPlaced, WakeSleepersPlaced DEF AdvanceTicks

\* The joiners of a task that is over move to the ready queue.
LEMMA JoinWaitersWokenPlaced ==
  ASSUME NEW st \in States, NEW done \in Tasks, Consistent(st)
  PROVE  Consistent(JoinWaitersWoken(st, done))
<1> DEFINE D == {t \in WaitingFor(st, done) :
                   st.task[t].reason = "JOIN" /\ st.task[t].join = done}
           data == [t \in Tasks |->
                      [st.task[t] EXCEPT !.status = "READY", !.reason = "NONE", !.join = NoObj]]
<1>1. D \in SUBSET Tasks
  BY WaitingForType
<1>2. data \in TaskTable
  <2>1. ASSUME NEW d \in TaskData
        PROVE  [d EXCEPT !.status = "READY", !.reason = "NONE", !.join = NoObj] \in TaskData
    BY DEF TaskData, Statuses, Reasons
  <2> QED  BY <2>1, StateFields DEF TaskTable
<1> HIDE DEF D, data
<1>3. Consistent(Requeued(st, D, data))
  BY <1>1, <1>2, RequeuedPlaced
<1> QED  BY <1>3 DEF JoinWaitersWoken, D, data

\* The readers a push or a close wakes move to the ready queue.
LEMMA ReadersWokenPlaced ==
  ASSUME NEW st \in States, NEW q, NEW D \in SUBSET Tasks, Consistent(st)
  PROVE  Consistent(ReadersWoken(st, q, D))
<1> DEFINE R == {t \in D : st.task[t].reason = "QUEUE" /\ st.task[t].queue = q}
           woken == Requeued(st, R, [t \in Tasks |-> Roused(st.task[t])])
           nx == [woken EXCEPT !.switching = @ \/ R # {}]
<1>1. [t \in Tasks |-> Roused(st.task[t])] \in TaskTable
  BY StateFields, RousedType DEF TaskTable
<1>2. woken \in States /\ Consistent(woken)
  BY <1>1, RequeuedType, RequeuedPlaced
<1> HIDE DEF R, woken
<1>3. /\ nx.queues = woken.queues /\ nx.sleepers = woken.sleepers
      /\ nx.waiters = woken.waiters /\ nx.indexed = woken.indexed
      /\ nx.task = woken.task
  BY <1>2 DEF States
<1> HIDE DEF nx
<1>4. Consistent(nx)
  BY <1>2, <1>3, NothingMoved
<1> QED  BY <1>4 DEF ReadersWoken, nx, R, woken

\* Changing one task's fields moves nothing as long as its place stays.
LEMMA TaskSetPlaced ==
  ASSUME NEW st \in States, NEW t \in Tasks, NEW d, d.place = st.task[t].place,
         Consistent(st)
  PROVE  Consistent([st EXCEPT !.task = [st.task EXCEPT ![t] = d]])
<1> DEFINE nx == [st EXCEPT !.task = [st.task EXCEPT ![t] = d]]
<1>1. /\ nx.queues = st.queues /\ nx.sleepers = st.sleepers /\ nx.waiters = st.waiters
      /\ nx.indexed = st.indexed /\ nx.task = [st.task EXCEPT ![t] = d]
  BY DEF States
<1>2. \A u \in Tasks : nx.task[u].place = st.task[u].place
  <2> HIDE DEF nx
  <2> QED  BY <1>1, StateFields DEF TaskTable
<1> HIDE DEF nx
<1>3. Consistent(nx)
  BY <1>1, <1>2, NothingMoved
<1> QED  BY <1>3 DEF nx

\* A task that is over moves to the dormant queue.
LEMMA StopTaskPlaced ==
  ASSUME NEW st \in States, NEW t \in Tasks, NEW cur, Consistent(st)
  PROVE  Consistent(StopTask(st, t, cur))
<1> DEFINE dormant == [st.task[t] EXCEPT !.status = "DORMANT"]
           over == IF IsQueued(st, t) THEN SetStatus(st, t, "DORMANT")
                   ELSE [st EXCEPT !.task = [st.task EXCEPT ![t] = dormant]]
           dead == [over.task[t] EXCEPT !.ctx = "dead"]
           gone == IF t = cur THEN over
                   ELSE [over EXCEPT !.task = [over.task EXCEPT ![t] = dead]]
<1>1. st.task[t] \in TaskData
  BY StateFields DEF TaskTable
<1>2. dormant \in TaskData /\ dormant.place = st.task[t].place
  BY <1>1 DEF TaskData, Statuses
<1> HIDE DEF dormant
<1>3. [st EXCEPT !.task = [st.task EXCEPT ![t] = dormant]] \in States
  <2>1. [st.task EXCEPT ![t] = dormant] \in TaskTable
    BY <1>2, StateFields DEF TaskTable
  <2> QED  BY <2>1 DEF States, TaskTable
<1>4. over \in States /\ Consistent(over)
  BY <1>2, <1>3, SetStatusType, SetStatusPlaced, TaskSetPlaced DEF Statuses
<1> HIDE DEF over
<1>5. dead \in TaskData /\ dead.place = over.task[t].place
  <2>1. over.task[t] \in TaskData
    BY <1>4, StateFields DEF TaskTable
  <2> QED  BY <2>1 DEF TaskData
<1> HIDE DEF dead
<1>6. [over EXCEPT !.task = [over.task EXCEPT ![t] = dead]] \in States
  <2>1. [over.task EXCEPT ![t] = dead] \in TaskTable
    BY <1>4, <1>5, StateFields DEF TaskTable
  <2> QED  BY <1>4, <2>1 DEF States, TaskTable
<1>7. gone \in States /\ Consistent(gone)
  BY <1>4, <1>5, <1>6, TaskSetPlaced
<1> HIDE DEF gone
<1>8. StopTask(st, t, cur) = JoinWaitersWoken(gone, t)
  BY DEF StopTask, gone, over, dormant, dead
<1> QED  BY <1>7, <1>8, JoinWaitersWokenPlaced

---------------------------------------------------------------------------
(* What the operators keep of statuses and keys *)

\* The key the sleep index calls for: the deadline, if there is one.
Key(d) == IF HasDeadline(d) THEN d.wakeup_tick ELSE Never

\* While the indexes are on, what waits is filed in them under the deadline and
\* the object its fields name.
Keyed(st) ==
  st.indexed =>
    \A t \in Tasks : st.task[t].place.q = "waiting" =>
      /\ st.task[t].place.sleep = Key(st.task[t])
      /\ st.task[t].place.target = TargetOf(st.task[t])

\* A task is in the queue its status names, or in none; what waits is queued.
Filed(d) ==
  /\ d.place.q # "nowhere" =>
       /\ d.place.q = QOf(d.status)
       /\ d.place.pri = IF d.place.q = "ready" THEN d.priority ELSE 0
  /\ d.status = "WAITING" => d.place.q = "waiting"

\* What the operators keep: places, keys and statuses agree.
Orderly(st) ==
  /\ Consistent(st)
  /\ Keyed(st)
  /\ \A t \in Tasks : Filed(st.task[t])

\* What decides a key is the same in both.
LEMMA SameKey ==
  ASSUME NEW d, NEW e, d.reason = e.reason, d.wakeup_tick = e.wakeup_tick,
         d.join = e.join, d.queue = e.queue
  PROVE  Key(d) = Key(e) /\ TargetOf(d) = TargetOf(e) /\ HasDeadline(d) = HasDeadline(e)
BY DEF Key, TargetOf, HasDeadline

\* What indexing waiting tasks changes, and what not.
LEMMA IndexedFields ==
  ASSUME NEW st \in States, NEW D \in SUBSET Tasks
  PROVE  LET in == Indexed(st, D)
         IN /\ \A t \in Tasks : /\ SameFields(in.task[t], st.task[t])
                                /\ in.task[t].place.q = st.task[t].place.q
                                /\ in.task[t].place.pri = st.task[t].place.pri
            /\ \A t \in Tasks \ D : in.task[t] = st.task[t]
            /\ \A t \in D : /\ in.task[t].place.sleep = Key(st.task[t])
                            /\ in.task[t].place.target = TargetOf(st.task[t])
            /\ SameFlags(st, in)
            /\ in.arrived = st.arrived
            /\ in.queues = st.queues
            /\ in.indexed = st.indexed
<1> DEFINE in == Indexed(st, D)
           key(t) == [st.task[t].place EXCEPT !.sleep = Key(st.task[t]),
                                              !.target = TargetOf(st.task[t])]
<1>1. /\ SameFlags(st, in) /\ in.arrived = st.arrived
      /\ in.queues = st.queues /\ in.indexed = st.indexed
  BY DEF Indexed, States, SameFlags
<1>2. in.task = [t \in Tasks |-> IF t \in D THEN [st.task[t] EXCEPT !.place = key(t)]
                                           ELSE st.task[t]]
  BY DEF Indexed, States, Key
<1>3. ASSUME NEW t \in Tasks
      PROVE  st.task[t] \in TaskData /\ st.task[t].place \in Places
  BY StateFields, TaskFields DEF TaskTable
<1>4. ASSUME NEW t \in Tasks
      PROVE  /\ key(t).q = st.task[t].place.q /\ key(t).pri = st.task[t].place.pri
             /\ key(t).sleep = Key(st.task[t]) /\ key(t).target = TargetOf(st.task[t])
  BY <1>3 DEF Places
<1> HIDE DEF in, key
<1>5. ASSUME NEW t \in Tasks
      PROVE  /\ SameFields(in.task[t], st.task[t])
             /\ in.task[t].place = IF t \in D THEN key(t) ELSE st.task[t].place
             /\ t \notin D => in.task[t] = st.task[t]
  BY <1>2, <1>3 DEF TaskData, SameFields
<1> QED  BY <1>1, <1>4, <1>5 DEF in

\* The waiting queue holds the tasks whose place it is.
LEMMA InQueueExact ==
  ASSUME NEW st \in States, WellPlaced(st), NEW q \in QueueNames
  PROVE  \A t \in Tasks : t \in InQueue(st, q) <=> st.task[t].place.q = q
<1>1. ASSUME NEW t \in Tasks, st.task[t].place.q = q
      PROVE  t \in InQueue(st, q)
  <2>1. <<st.task[t].place.pri, t>> \in st.queues[q]
    BY <1>1 DEF WellPlaced, QueueNames
  <2> QED  BY <2>1 DEF InQueue
<1>2. ASSUME NEW t \in InQueue(st, q)
      PROVE  st.task[t].place.q = q
  BY DEF InQueue, WellPlaced
<1> QED  BY <1>1, <1>2

\* Building the indexes changes keys only, and files all that waits.
LEMMA BuildIndexFields ==
  ASSUME NEW st \in States, WellPlaced(st)
  PROVE  LET in == BuildIndex(st)
         IN /\ \A t \in Tasks : /\ SameFields(in.task[t], st.task[t])
                                /\ in.task[t].place.q = st.task[t].place.q
                                /\ in.task[t].place.pri = st.task[t].place.pri
            /\ Keyed(in)
            /\ SameFlags(st, in)
            /\ in.arrived = st.arrived
            /\ in.queues = st.queues
<1> DEFINE W == InQueue(st, "waiting")
           ix == Indexed(st, W)
           in == BuildIndex(st)
<1>1. W \in SUBSET Tasks /\ \A t \in Tasks : t \in W <=> st.task[t].place.q = "waiting"
  BY InQueueType, InQueueExact DEF QueueNames
<1> HIDE DEF W
<1>2. ix \in States
  BY <1>1, IndexedType
<1>3. /\ \A t \in Tasks : /\ SameFields(ix.task[t], st.task[t])
                          /\ ix.task[t].place.q = st.task[t].place.q
                          /\ ix.task[t].place.pri = st.task[t].place.pri
      /\ \A t \in W : /\ ix.task[t].place.sleep = Key(st.task[t])
                      /\ ix.task[t].place.target = TargetOf(st.task[t])
      /\ SameFlags(st, ix) /\ ix.arrived = st.arrived /\ ix.queues = st.queues
  BY <1>1, IndexedFields
<1>4. in = [ix EXCEPT !.indexed = TRUE]
  BY DEF BuildIndex, W
<1> HIDE DEF ix, in
<1>5. /\ in.task = ix.task /\ in.arrived = ix.arrived /\ in.queues = ix.queues
      /\ SameFlags(ix, in)
  BY <1>2, <1>4 DEF States, SameFlags
<1>6. \A t \in Tasks : Key(ix.task[t]) = Key(st.task[t]) /\ TargetOf(ix.task[t]) = TargetOf(st.task[t])
  BY <1>3, SameKey DEF SameFields
<1>7. Keyed(in)
  BY <1>1, <1>3, <1>5, <1>6 DEF Keyed
<1>8. SameFlags(st, in)
  BY <1>3, <1>5 DEF SameFlags
<1> QED  BY <1>3, <1>5, <1>7, <1>8 DEF in

\* Being filed depends on the place, the status and the priority alone.
LEMMA SameFiled ==
  ASSUME NEW d, NEW e, Filed(d), e.status = d.status, e.priority = d.priority,
         e.place.q = d.place.q, e.place.pri = d.place.pri
  PROVE  Filed(e)
BY DEF Filed

\* What is filed waits if and only if it is in the waiting queue.
LEMMA FiledWaits ==
  ASSUME NEW d, Filed(d)
  PROVE  d.status = "WAITING" <=> d.place.q = "waiting"
BY DEF Filed, QOf

\* From st to nx the tasks of D were requeued with the fields of data.
Requeues(st, nx, D, data) ==
  /\ \A t \in D : /\ SameFields(nx.task[t], data[t])
                  /\ nx.task[t].place.q = QOf(data[t].status)
                  /\ nx.task[t].place.pri =
                       IF QOf(data[t].status) = "ready" THEN data[t].priority ELSE 0
  /\ \A t \in Tasks \ D : /\ SameFields(nx.task[t], st.task[t])
                          /\ nx.task[t].place.q = st.task[t].place.q
                          /\ nx.task[t].place.pri = st.task[t].place.pri
  /\ SameFlags(st, nx)
  /\ nx.arrived = MovedBack(st.arrived, {t \in Tasks : IsQueued(st, t)}, D)

\* requeue does just that, and keeps the keys.
LEMMA RequeuedFields ==
  ASSUME NEW st \in States, NEW D \in SUBSET Tasks, NEW data \in TaskTable,
         Consistent(st), Keyed(st)
  PROVE  /\ Requeues(st, Requeued(st, D, data), D, data)
         /\ Keyed(Requeued(st, D, data))
<1> DEFINE put == PutBack(st, D, data)
           wait == Waits(D, data)
           nx == Requeued(st, D, data)
<1>1. put \in States /\ WellPlaced(put) /\ wait \in SUBSET Tasks
  BY PutBackFields, PutBackPlaced DEF Waits, Consistent
<1>2. /\ Requeues(st, put, D, data)
      /\ \A t \in Tasks \ D : put.task[t] = st.task[t]
      /\ put.indexed => st.indexed
  <2>1. \A t \in Tasks : SameFields(st.task[t], st.task[t])
    BY DEF SameFields
  <2> QED  BY <2>1, PutBackFields, ZenonT(60) DEF Requeues
<1>3. \A t \in Tasks \ wait : put.indexed /\ put.task[t].place.q = "waiting" =>
         /\ put.task[t].place.sleep = Key(put.task[t])
         /\ put.task[t].place.target = TargetOf(put.task[t])
  <2>1. \A t \in D : put.task[t].place.q = "waiting" => t \in wait
    BY <1>2 DEF Requeues, Waits
  <2> QED  BY <1>2, <2>1 DEF Keyed
<1>4. \/ nx = put /\ (wait = {} \/ ~put.indexed)
      \/ nx = Indexed(put, wait) /\ put.indexed
      \/ nx = BuildIndex(put) /\ ~put.indexed
  BY RequeuedCases
<1> HIDE DEF put, wait, nx
<1>5. ASSUME NEW in \in States,
             \A t \in Tasks : /\ SameFields(in.task[t], put.task[t])
                              /\ in.task[t].place.q = put.task[t].place.q
                              /\ in.task[t].place.pri = put.task[t].place.pri,
             SameFlags(put, in), in.arrived = put.arrived
      PROVE  Requeues(st, in, D, data)
  BY <1>2, <1>5 DEF Requeues, SameFields, SameFlags
<1>6. CASE nx = put /\ (wait = {} \/ ~put.indexed)
  BY <1>2, <1>3, <1>6 DEF Keyed, nx
<1>7. CASE nx = Indexed(put, wait) /\ put.indexed
  <2>1. /\ nx \in States
        /\ \A t \in Tasks : /\ SameFields(nx.task[t], put.task[t])
                            /\ nx.task[t].place.q = put.task[t].place.q
                            /\ nx.task[t].place.pri = put.task[t].place.pri
        /\ SameFlags(put, nx) /\ nx.arrived = put.arrived
        /\ \A t \in Tasks \ wait : nx.task[t] = put.task[t]
        /\ \A t \in wait : /\ nx.task[t].place.sleep = Key(put.task[t])
                           /\ nx.task[t].place.target = TargetOf(put.task[t])
    BY <1>1, <1>7, IndexedType, IndexedFields
  <2>2. \A t \in Tasks : /\ Key(nx.task[t]) = Key(put.task[t])
                         /\ TargetOf(nx.task[t]) = TargetOf(put.task[t])
    BY <2>1, SameKey DEF SameFields
  <2>3. Keyed(nx)
    BY <1>3, <1>7, <2>1, <2>2 DEF Keyed
  <2> QED  BY <1>5, <2>1, <2>3 DEF nx
<1>8. CASE nx = BuildIndex(put) /\ ~put.indexed
  <2>1. /\ nx \in States
        /\ \A t \in Tasks : /\ SameFields(nx.task[t], put.task[t])
                            /\ nx.task[t].place.q = put.task[t].place.q
                            /\ nx.task[t].place.pri = put.task[t].place.pri
        /\ SameFlags(put, nx) /\ nx.arrived = put.arrived
        /\ Keyed(nx)
    BY <1>1, <1>8, BuildIndexType, BuildIndexFields
  <2> QED  BY <1>5, <2>1 DEF nx
<1> QED  BY <1>4, <1>6, <1>7, <1>8

\* Requeueing keeps order: nothing is asked of the tasks that move.
LEMMA RequeuedOrderly ==
  ASSUME NEW st \in States, NEW D \in SUBSET Tasks, NEW data \in TaskTable,
         Consistent(st), Keyed(st), \A t \in Tasks \ D : Filed(st.task[t])
  PROVE  /\ Requeued(st, D, data) \in States
         /\ Orderly(Requeued(st, D, data))
         /\ Requeues(st, Requeued(st, D, data), D, data)
<1> DEFINE nx == Requeued(st, D, data)
<1>1. /\ Requeues(st, nx, D, data) /\ Keyed(nx) /\ Consistent(nx)
      /\ nx \in States
  BY RequeuedFields, RequeuedPlaced, RequeuedType
<1> HIDE DEF nx
<1>2. ASSUME NEW t \in D
      PROVE  Filed(nx.task[t])
  BY <1>1 DEF Requeues, SameFields, Filed, QOf
<1>3. ASSUME NEW t \in Tasks \ D
      PROVE  Filed(nx.task[t])
  BY <1>1, SameFiled DEF Requeues, SameFields
<1> QED  BY <1>1, <1>2, <1>3 DEF Orderly, nx

\* A step that moves no task and changes nothing a key or a queue depends on.
LEMMA NothingRefiled ==
  ASSUME NEW st \in States, NEW nx, Orderly(st),
         nx.queues = st.queues, nx.sleepers = st.sleepers,
         nx.waiters = st.waiters, nx.indexed = st.indexed,
         \A t \in Tasks : /\ nx.task[t].place = st.task[t].place
                          /\ nx.task[t].reason = st.task[t].reason
                          /\ nx.task[t].wakeup_tick = st.task[t].wakeup_tick
                          /\ nx.task[t].join = st.task[t].join
                          /\ nx.task[t].queue = st.task[t].queue,
         \A t \in Tasks : Filed(nx.task[t])
  PROVE  Orderly(nx)
<1>1. Consistent(nx)
  BY NothingMoved DEF Orderly
<1>2. \A t \in Tasks : /\ Key(nx.task[t]) = Key(st.task[t])
                       /\ TargetOf(nx.task[t]) = TargetOf(st.task[t])
  BY SameKey
<1>3. Keyed(nx)
  BY <1>2 DEF Orderly, Keyed
<1> QED  BY <1>1, <1>3 DEF Orderly

\* In an orderly state a wake-up finds what waits for the target, by whichever
\* way it looks.
LEMMA WaitingForExact ==
  ASSUME NEW st \in States, Orderly(st), NEW target \in Targets
  PROVE  WaitingFor(st, target) =
           {t \in Tasks : st.task[t].status = "WAITING" /\ TargetOf(st.task[t]) = target}
<1>0. target # NoObj
  BY ConstantsAssumption DEF Targets
<1>1. /\ InQueue(st, "waiting") \in SUBSET Tasks
      /\ \A t \in Tasks : t \in InQueue(st, "waiting") <=> st.task[t].status = "WAITING"
  BY InQueueType, InQueueExact, FiledWaits DEF QueueNames, Orderly, Consistent
<1>2. CASE ~st.indexed
  BY <1>0, <1>1, <1>2 DEF WaitingFor, WaitsFor
<1>3. CASE st.indexed
  <2>1. WaitingFor(st, target) = {e[2] : e \in {w \in st.waiters : w[1] = target}}
    BY <1>3 DEF WaitingFor
  <2>2. ASSUME NEW w \in st.waiters, w[1] = target
        PROVE  /\ w[2] \in Tasks /\ st.task[w[2]].status = "WAITING"
               /\ TargetOf(st.task[w[2]]) = target
    <3>1. w[2] \in Tasks /\ st.task[w[2]].place.target = target
      BY <2>2, KeysAreReal DEF Orderly, Consistent, WellPlaced
    <3>2. st.task[w[2]].place.q = "waiting"
      BY <1>0, <3>1 DEF Orderly, Consistent, WellPlaced
    <3> QED  BY <1>3, <3>1, <3>2, FiledWaits DEF Orderly, Keyed
  <2>3. ASSUME NEW t \in Tasks, st.task[t].status = "WAITING",
               TargetOf(st.task[t]) = target
        PROVE  <<target, t>> \in st.waiters
    <3>1. st.task[t].place.q = "waiting"
      BY <2>3 DEF Orderly, Filed
    <3>2. st.task[t].place.target = target
      BY <1>3, <2>3, <3>1 DEF Orderly, Keyed
    <3> QED  BY <1>0, <3>2 DEF Orderly, Consistent, WellPlaced
  <2>4. ASSUME NEW t \in WaitingFor(st, target)
        PROVE  t \in Tasks /\ st.task[t].status = "WAITING" /\ TargetOf(st.task[t]) = target
    BY <2>1, <2>2
  <2>5. ASSUME NEW t \in Tasks, st.task[t].status = "WAITING",
               TargetOf(st.task[t]) = target
        PROVE  t \in WaitingFor(st, target)
    <3>1. <<target, t>> \in {w \in st.waiters : w[1] = target}
      BY <2>3, <2>5
    <3> QED  BY <2>1, <3>1
  <2> QED  BY <2>4, <2>5
<1> QED  BY <1>2, <1>3, StateFields

\* And what is due.
LEMMA DueExact ==
  ASSUME NEW st \in States, Orderly(st)
  PROVE  Due(st) = {t \in Tasks : /\ st.task[t].status = "WAITING"
                                  /\ HasDeadline(st.task[t])
                                  /\ st.task[t].wakeup_tick = 0}
<1>0. 0 # Never
  BY ConstantsAssumption DEF Never
<1>1. /\ InQueue(st, "waiting") \in SUBSET Tasks
      /\ \A t \in Tasks : t \in InQueue(st, "waiting") <=> st.task[t].status = "WAITING"
  BY InQueueType, InQueueExact, FiledWaits DEF QueueNames, Orderly, Consistent
<1>2. CASE ~st.indexed
  BY <1>1, <1>2 DEF Due
<1>3. CASE st.indexed
  <2>1. Due(st) = {e[2] : e \in {s \in st.sleepers : s[1] = 0}}
    BY <1>3 DEF Due
  <2>2. ASSUME NEW s \in st.sleepers, s[1] = 0
        PROVE  /\ s[2] \in Tasks /\ st.task[s[2]].status = "WAITING"
               /\ HasDeadline(st.task[s[2]]) /\ st.task[s[2]].wakeup_tick = 0
    <3>1. s[2] \in Tasks /\ st.task[s[2]].place.sleep = 0
      BY <2>2, KeysAreReal DEF Orderly, Consistent, WellPlaced
    <3>2. st.task[s[2]].place.q = "waiting"
      BY <1>0, <3>1 DEF Orderly, Consistent, WellPlaced
    <3>3. Key(st.task[s[2]]) = 0
      BY <1>3, <3>1, <3>2 DEF Orderly, Keyed
    <3> QED  BY <1>0, <3>1, <3>2, <3>3, FiledWaits DEF Orderly, Key
  <2>3. ASSUME NEW t \in Tasks, st.task[t].status = "WAITING",
               HasDeadline(st.task[t]), st.task[t].wakeup_tick = 0
        PROVE  t \in Due(st)
    <3>1. st.task[t].place.q = "waiting"
      BY <2>3 DEF Orderly, Filed
    <3>2. st.task[t].place.sleep = 0
      BY <1>3, <2>3, <3>1 DEF Orderly, Keyed, Key
    <3>3. <<0, t>> \in {s \in st.sleepers : s[1] = 0}
      BY <1>0, <3>2 DEF Orderly, Consistent, WellPlaced
    <3> QED  BY <2>1, <3>3
  <2>4. ASSUME NEW t \in Due(st)
        PROVE  /\ t \in Tasks /\ st.task[t].status = "WAITING"
               /\ HasDeadline(st.task[t]) /\ st.task[t].wakeup_tick = 0
    BY <2>1, <2>2
  <2> QED  BY <2>3, <2>4
<1> QED  BY <1>2, <1>3, StateFields

\* From st to nx the waiting tasks of D became ready, and nothing else moved.
Wakes(st, nx, D) ==
  /\ \A t \in D : /\ t \in Tasks /\ st.task[t].status = "WAITING"
                  /\ nx.task[t].status = "READY" /\ nx.task[t].reason = "NONE"
                  /\ nx.task[t].ctx = st.task[t].ctx
  /\ \A t \in Tasks \ D : SameFields(nx.task[t], st.task[t])
  /\ \A t \in Tasks : IsQueued(nx, t) <=> IsQueued(st, t)
  /\ nx.arrived = MovedBack(st.arrived, {t \in Tasks : IsQueued(st, t)}, D)
  /\ nx.running = st.running /\ nx.loop_running = st.loop_running
  /\ st.switching => nx.switching

\* Requeueing waiting tasks as ready wakes them.
LEMMA RequeuedWakes ==
  ASSUME NEW st \in States, NEW D \in SUBSET Tasks, NEW data \in TaskTable,
         Orderly(st),
         \A t \in D : /\ st.task[t].status = "WAITING"
                      /\ data[t].status = "READY" /\ data[t].reason = "NONE"
                      /\ data[t].ctx = st.task[t].ctx
  PROVE  LET nx == Requeued(st, D, data)
         IN nx \in States /\ Orderly(nx) /\ Wakes(st, nx, D) /\ SameFlags(st, nx)
<1> DEFINE nx == Requeued(st, D, data)
<1>1. nx \in States /\ Orderly(nx) /\ Requeues(st, nx, D, data)
  BY RequeuedOrderly DEF Orderly
<1> HIDE DEF nx
<1>2. ASSUME NEW t \in D
      PROVE  /\ nx.task[t].status = "READY" /\ nx.task[t].reason = "NONE"
             /\ nx.task[t].ctx = st.task[t].ctx
             /\ IsQueued(st, t) /\ IsQueued(nx, t)
  <2>1. st.task[t].place.q = "waiting"
    BY DEF Orderly, Filed
  <2>2. nx.task[t].place.q = "ready"
    BY <1>1 DEF Requeues, QOf
  <2> QED  BY <1>1, <2>1, <2>2 DEF Requeues, SameFields, IsQueued
<1>3. ASSUME NEW t \in Tasks \ D
      PROVE  SameFields(nx.task[t], st.task[t]) /\ (IsQueued(nx, t) <=> IsQueued(st, t))
  BY <1>1 DEF Requeues, IsQueued
<1>4. Wakes(st, nx, D)
  BY <1>1, <1>2, <1>3 DEF Wakes, Requeues, SameFlags
<1> QED  BY <1>1, <1>4 DEF nx, Requeues

\* The next look at the sleepers is at or before every deadline.
Timely(st) ==
  \A t \in Tasks :
    st.task[t].status = "WAITING" /\ HasDeadline(st.task[t])
      => st.wakeup_tick <= st.task[t].wakeup_tick

\* What only makes waiting tasks ready, or changes no deadline, stays timely.
LEMMA WakesTimely ==
  ASSUME NEW st, NEW nx, NEW D, Wakes(st, nx, D), Timely(st),
         nx.wakeup_tick = st.wakeup_tick
  PROVE  Timely(nx)
BY DEF Wakes, Timely, SameFields, HasDeadline

\* wake_join_waiters wakes the joiners of a task, no more and no fewer.
LEMMA JoinWaitersWokenKeeps ==
  ASSUME NEW st \in States, NEW done \in Tasks, Orderly(st)
  PROVE  LET nx == JoinWaitersWoken(st, done)
             J == {t \in Tasks : /\ st.task[t].status = "WAITING"
                                 /\ st.task[t].reason = "JOIN"
                                 /\ st.task[t].join = done}
         IN nx \in States /\ Orderly(nx) /\ Wakes(st, nx, J) /\ SameFlags(st, nx)
<1> DEFINE D == {t \in WaitingFor(st, done) :
                   st.task[t].reason = "JOIN" /\ st.task[t].join = done}
           J == {t \in Tasks : /\ st.task[t].status = "WAITING"
                               /\ st.task[t].reason = "JOIN"
                               /\ st.task[t].join = done}
           data == [t \in Tasks |->
                      [st.task[t] EXCEPT !.status = "READY", !.reason = "NONE", !.join = NoObj]]
<1>1. WaitingFor(st, done) =
        {t \in Tasks : st.task[t].status = "WAITING" /\ TargetOf(st.task[t]) = done}
  BY WaitingForExact DEF Targets
<1>2. D = J
  BY <1>1 DEF TargetOf
<1>3. ASSUME NEW t \in Tasks
      PROVE  /\ data[t] \in TaskData /\ data[t].status = "READY"
             /\ data[t].reason = "NONE" /\ data[t].ctx = st.task[t].ctx
  <2>1. st.task[t] \in TaskData
    BY StateFields DEF TaskTable
  <2> QED  BY <2>1 DEF TaskData, Statuses, Reasons
<1>4. data \in TaskTable
  <2>1. DOMAIN data = Tasks /\ data = [t \in Tasks |-> data[t]]
    OBVIOUS
  <2> HIDE DEF data
  <2> QED  BY <1>3, <2>1 DEF TaskTable
<1>5. J \in SUBSET Tasks /\ \A t \in J : st.task[t].status = "WAITING"
  OBVIOUS
<1>6. JoinWaitersWoken(st, done) = Requeued(st, J, data)
  BY <1>2 DEF JoinWaitersWoken
<1> HIDE DEF D, J, data
<1>7. LET nx == Requeued(st, J, data)
      IN nx \in States /\ Orderly(nx) /\ Wakes(st, nx, J) /\ SameFlags(st, nx)
  BY <1>3, <1>4, <1>5, RequeuedWakes
<1> QED  BY <1>6, <1>7 DEF J

\* The Task object d, n ticks later.
Ages(d, e, n) ==
  /\ e.ctx = d.ctx /\ e.priority = d.priority /\ e.status = d.status
  /\ e.reason = d.reason /\ e.timeslice = d.timeslice
  /\ e.join = d.join /\ e.queue = d.queue
  /\ e.wakeup_tick = Later(d.wakeup_tick, n)
  /\ e.by = Later(d.by, n)
  /\ e.place.q = d.place.q /\ e.place.pri = d.place.pri
  /\ e.place.target = d.place.target
  /\ e.place.sleep = Later(d.place.sleep, n)

\* Aging a Task object moves its deadlines, and nothing else.
LEMMA AgedFields ==
  ASSUME NEW d \in TaskData, NEW n
  PROVE  Ages(d, Aged(d, n), n)
<1> DEFINE p == [d.place EXCEPT !.sleep = Later(d.place.sleep, n)]
<1>1. /\ p.q = d.place.q /\ p.pri = d.place.pri /\ p.target = d.place.target
      /\ p.sleep = Later(d.place.sleep, n)
  BY TaskFields DEF Places
<1>2. Aged(d, n) = [d EXCEPT !.wakeup_tick = Later(d.wakeup_tick, n),
                             !.by = Later(d.by, n), !.place = p]
  BY DEF Aged, TaskData, Places
<1> HIDE DEF p
<1> QED  BY <1>1, <1>2 DEF TaskData, Ages

\* The clock moves every deadline, and nothing else.
LEMMA ElapsedFields ==
  ASSUME NEW st \in States, NEW n \in Nat
  PROVE  LET el == Elapsed(st, n)
         IN /\ \A t \in Tasks : Ages(st.task[t], el.task[t], n)
            /\ el.queues = st.queues /\ el.waiters = st.waiters
            /\ el.indexed = st.indexed /\ el.arrived = st.arrived
            /\ el.index_from = st.index_from /\ el.switching = st.switching
            /\ el.loop_running = st.loop_running /\ el.running = st.running
            /\ el.wakeup_tick = Later(st.wakeup_tick, n)
<1> DEFINE el == Elapsed(st, n)
<1>1. /\ \A t \in Tasks : el.task[t] = Aged(st.task[t], n)
      /\ el.queues = st.queues /\ el.waiters = st.waiters
      /\ el.indexed = st.indexed /\ el.arrived = st.arrived
      /\ el.index_from = st.index_from /\ el.switching = st.switching
      /\ el.loop_running = st.loop_running /\ el.running = st.running
      /\ el.wakeup_tick = Later(st.wakeup_tick, n)
  BY DEF Elapsed, States
<1> HIDE DEF el
<1>2. ASSUME NEW t \in Tasks
      PROVE  Ages(st.task[t], el.task[t], n)
  <2>1. st.task[t] \in TaskData
    BY StateFields DEF TaskTable
  <2> QED  BY <1>1, <2>1, AgedFields
<1> QED  BY <1>1, <1>2 DEF el

\* Deadlines keep their order as time passes, and none becomes Never.
LEMMA LaterMonotone ==
  ASSUME NEW c \in Ticks, NEW d \in Ticks, NEW n \in Nat
  PROVE  /\ c <= d => Later(c, n) <= Later(d, n)
         /\ Later(d, n) = 0 => d <= n
BY ConstantsAssumption DEF Later, Ticks, Never

\* Time passing keeps order, and stays timely.
LEMMA ElapsedKeeps ==
  ASSUME NEW st \in States, NEW n \in Nat, Orderly(st)
  PROVE  /\ Orderly(Elapsed(st, n))
         /\ Timely(st) => Timely(Elapsed(st, n))
<1> DEFINE el == Elapsed(st, n)
<1>1. Consistent(el)
  BY ElapsedPlaced DEF Orderly
<1>2. \A t \in Tasks : /\ st.task[t] \in TaskData /\ st.task[t].wakeup_tick \in Ticks
                       /\ st.wakeup_tick \in Ticks
  BY StateFields, TaskFields DEF TaskTable
<1>3. /\ \A t \in Tasks : Ages(st.task[t], el.task[t], n)
      /\ el.indexed = st.indexed
      /\ el.wakeup_tick = Later(st.wakeup_tick, n)
  BY ElapsedFields
<1> HIDE DEF el
<1>4. ASSUME NEW t \in Tasks
      PROVE  /\ HasDeadline(el.task[t]) <=> HasDeadline(st.task[t])
             /\ Key(el.task[t]) = Later(Key(st.task[t]), n)
             /\ TargetOf(el.task[t]) = TargetOf(st.task[t])
  <2>1. /\ Later(st.task[t].wakeup_tick, n) = Never <=> st.task[t].wakeup_tick = Never
        /\ Later(Never, n) = Never
    BY <1>2, LaterType, TicksAreNat
  <2>2. HasDeadline(el.task[t]) <=> HasDeadline(st.task[t])
    BY <1>3, <2>1 DEF HasDeadline, Ages
  <2> QED  BY <1>3, <2>1, <2>2 DEF Key, TargetOf, Ages
<1>5. Keyed(el)
  BY <1>3, <1>4 DEF Orderly, Keyed, Ages
<1>6. \A t \in Tasks : Filed(el.task[t])
  BY <1>3, SameFiled DEF Orderly, Ages
<1>7. Timely(st) => Timely(el)
  BY <1>2, <1>3, <1>4, LaterMonotone DEF Timely, Ages
<1> QED  BY <1>1, <1>5, <1>6, <1>7 DEF Orderly, el

\* Earliest is no later than any of them.
LEMMA EarliestIsLeast ==
  ASSUME NEW S \in SUBSET Ticks, NEW d \in S
  PROVE  Earliest(S) <= d
<1>1. \E c \in S : \A e \in S : c <= e
  BY TicksAreNat, NatHasMinima
<1> QED  BY <1>1 DEF Earliest

\* No wait is left whose deadline has come.
Prompt(st) ==
  \A t \in Tasks :
    st.task[t].status = "WAITING" /\ HasDeadline(st.task[t])
      => st.task[t].wakeup_tick # 0

\* The indexes are only turned off by the last waiting task that leaves.
LEMMA IndexGoesWithTheLast ==
  ASSUME NEW st \in States, NEW D \in SUBSET Tasks, NEW data \in TaskTable,
         Consistent(st), st.indexed, ~Requeued(st, D, data).indexed
  PROVE  \A t \in Tasks \ D : st.task[t].place.q # "waiting"
<1> DEFINE out == TakenOut(st, D)
           put == PutBack(st, D, data)
           wait == Waits(D, data)
<1>1. /\ out \in States /\ WellPlaced(out)
      /\ \A t \in Tasks \ D : out.task[t] = st.task[t]
  BY TakenOutType, TakenOutPlaced, TakenOutFields DEF Consistent
<1>2. ~out.indexed => out.queues["waiting"] = {}
  BY DEF TakenOut, States, QueueNames
<1>3. put \in States /\ wait \in SUBSET Tasks
  BY PutBackFields DEF Waits
<1>4. put.indexed = out.indexed
  <2> HIDE DEF out
  <2> QED  BY <1>1 DEF PutBack, States, out
<1> HIDE DEF out, put, wait
<1>5. ~put.indexed
  <2>1. Indexed(put, wait).indexed = put.indexed
    BY <1>3, IndexedFields
  <2>2. \/ Requeued(st, D, data) = put
        \/ Requeued(st, D, data) = Indexed(put, wait)
        \/ Requeued(st, D, data) = BuildIndex(put)
    BY RequeuedCases DEF put, wait
  <2>3. BuildIndex(put).indexed
    <3>1. Indexed(put, InQueue(put, "waiting")) \in States
      BY <1>3, InQueueType, IndexedType DEF QueueNames
    <3> QED  BY <3>1 DEF BuildIndex, States
  <2> QED  BY <2>1, <2>2, <2>3
<1>6. \A t \in Tasks : out.task[t].place.q # "waiting"
  BY <1>1, <1>2, <1>4, <1>5 DEF WellPlaced
<1> QED  BY <1>1, <1>6

\* wake_sleepers wakes what is due, and its next look is in time for the rest.
LEMMA WakeSleepersKeeps ==
  ASSUME NEW st \in States, Orderly(st)
  PROVE  LET nx == WakeSleepers(st)
             D == {t \in Tasks : /\ st.wakeup_tick = 0
                                 /\ st.task[t].status = "WAITING"
                                 /\ HasDeadline(st.task[t])
                                 /\ st.task[t].wakeup_tick = 0}
         IN /\ nx \in States /\ Orderly(nx) /\ Wakes(st, nx, D)
            /\ nx.index_from = st.index_from
            /\ Timely(st) => Timely(nx) /\ Prompt(nx)
<1> DEFINE nx == WakeSleepers(st)
           due == Due(st)
           data == [t \in Tasks |-> Roused(st.task[t])]
           later == {st.task[t].wakeup_tick :
                t \in {u \in InQueue(st, "waiting") \ due : HasDeadline(st.task[u])}}
           woken == Requeued(st, due, data)
           keys == {woken.task[e[2]].wakeup_tick : e \in woken.sleepers}
           left == IF woken.indexed THEN Earliest(keys)
                   ELSE IF st.indexed THEN Never ELSE Earliest(later)
<1>0. \A t \in Tasks : st.task[t] \in TaskData /\ st.task[t].wakeup_tick \in Ticks
  BY StateFields, TaskFields DEF TaskTable
<1>1. due = {t \in Tasks : /\ st.task[t].status = "WAITING"
                           /\ HasDeadline(st.task[t])
                           /\ st.task[t].wakeup_tick = 0}
  BY DueExact
<1>2. CASE st.wakeup_tick # 0
  <2> DEFINE D == {t \in Tasks : /\ st.wakeup_tick = 0
                                 /\ st.task[t].status = "WAITING"
                                 /\ HasDeadline(st.task[t])
                                 /\ st.task[t].wakeup_tick = 0}
  <2>1. nx = st
    BY <1>2 DEF WakeSleepers
  <2>2. D = {}
    BY <1>2
  <2>3. Wakes(st, st, {})
    BY StateFields DEF Wakes, SameFields, MovedBack
  <2>4. Timely(st) => Prompt(st)
    <3>1. st.wakeup_tick \in Nat
      BY StateFields, TicksAreNat
    <3> QED  BY <1>2, <3>1 DEF Timely, Prompt
  <2> HIDE DEF nx, D
  <2> QED  BY <2>1, <2>2, <2>3, <2>4 DEF nx, D
<1>3. CASE st.wakeup_tick = 0
  <2>1. /\ due \in SUBSET Tasks
        /\ \A t \in due : /\ st.task[t].status = "WAITING"
                          /\ data[t].status = "READY" /\ data[t].reason = "NONE"
                          /\ data[t].ctx = st.task[t].ctx
    <3>1. \A d \in TaskData : /\ Roused(d).status = "READY" /\ Roused(d).reason = "NONE"
                              /\ Roused(d).ctx = d.ctx
      BY DEF Roused, TaskData
    <3> QED  BY <1>0, <1>1, <3>1
  <2>2. data \in TaskTable
    BY StateFields, RousedType DEF TaskTable
  <2>3. /\ woken \in States /\ Orderly(woken) /\ Wakes(st, woken, due)
        /\ SameFlags(st, woken)
    <3> HIDE DEF due, data
    <3> QED  BY <2>1, <2>2, RequeuedWakes
  <2>4. later \in SUBSET Ticks
    <3> HIDE DEF due
    <3>1. InQueue(st, "waiting") \in SUBSET Tasks
      BY InQueueType DEF QueueNames
    <3> QED  BY <1>0, <3>1
  <2>5. keys \in SUBSET Ticks
    <3> HIDE DEF woken
    <3> QED  BY <2>3, StateFields, TaskFields DEF TaskTable
  <2>6. nx = [woken EXCEPT !.wakeup_tick = left,
                           !.switching = @ \/ due # {}]
    BY <1>3 DEF WakeSleepers
  <2> HIDE DEF due, data, woken
  <2>7. left \in Ticks
    BY <2>4, <2>5, EarliestType, TicksAreNat
  <2>8. ASSUME NEW t \in Tasks, woken.task[t].status = "WAITING",
               HasDeadline(woken.task[t])
        PROVE  left <= woken.task[t].wakeup_tick /\ woken.task[t].wakeup_tick # 0
    <3>1. t \notin due
      BY <2>3, <2>8 DEF Wakes
    <3>2. SameFields(woken.task[t], st.task[t])
      BY <2>3, <3>1 DEF Wakes
    <3>3. /\ st.task[t].status = "WAITING" /\ HasDeadline(st.task[t])
          /\ st.task[t].wakeup_tick = woken.task[t].wakeup_tick
      BY <2>8, <3>2 DEF SameFields, HasDeadline
    <3>4. st.task[t].wakeup_tick # 0
      BY <1>1, <3>1, <3>3
    <3>5. CASE woken.indexed
      <4>1. woken.task[t].place.q = "waiting"
        BY <2>3, <2>8 DEF Orderly, Filed
      <4>2. /\ woken.task[t].place.sleep = woken.task[t].wakeup_tick
            /\ woken.task[t].wakeup_tick # Never
        BY <2>3, <2>8, <3>5, <4>1 DEF Orderly, Keyed, Key, HasDeadline
      <4>3. <<woken.task[t].wakeup_tick, t>> \in woken.sleepers
        BY <2>3, <4>2 DEF Orderly, Consistent, WellPlaced
      <4>4. woken.task[t].wakeup_tick \in keys
        BY <4>3
      <4> HIDE DEF keys
      <4> QED  BY <2>5, <3>3, <3>4, <3>5, <4>4, EarliestIsLeast
    <3>6. CASE ~woken.indexed /\ st.indexed
      <4>1. st.task[t].place.q # "waiting"
        BY <2>1, <2>2, <3>1, <3>6, IndexGoesWithTheLast DEF Orderly, woken
      <4> QED  BY <3>3, <4>1 DEF Orderly, Filed
    <3>7. CASE ~woken.indexed /\ ~st.indexed
      <4>1. t \in InQueue(st, "waiting")
        BY <3>3, InQueueExact, FiledWaits DEF Orderly, Consistent, QueueNames
      <4>2. st.task[t].wakeup_tick \in later
        BY <3>1, <3>3, <4>1
      <4> HIDE DEF later
      <4> QED  BY <2>4, <3>3, <3>4, <3>7, <4>2, EarliestIsLeast
    <3> QED  BY <3>5, <3>6, <3>7, <2>3, StateFields
  <2> HIDE DEF left, nx
  <2>9. /\ nx.queues = woken.queues /\ nx.sleepers = woken.sleepers
        /\ nx.waiters = woken.waiters /\ nx.indexed = woken.indexed
        /\ nx.task = woken.task /\ nx.arrived = woken.arrived
        /\ nx.running = woken.running /\ nx.loop_running = woken.loop_running
        /\ nx.index_from = woken.index_from
        /\ nx.wakeup_tick = left /\ nx.switching = (woken.switching \/ due # {})
    BY <2>3, <2>6 DEF States
  <2>10. Orderly(nx)
    BY <2>3, <2>9, NothingRefiled DEF Orderly
  <2>11. Wakes(st, nx, due)
    BY <2>3, <2>9 DEF Wakes, IsQueued
  <2>12. Timely(nx) /\ Prompt(nx)
    BY <2>8, <2>9 DEF Timely, Prompt
  <2>13. nx \in States
    BY WakeSleepersType DEF nx
  <2>14. nx.index_from = st.index_from
    BY <2>3, <2>9 DEF SameFlags
  <2> QED  BY <1>1, <1>3, <2>10, <2>11, <2>12, <2>13, <2>14 DEF nx
<1> QED  BY <1>2, <1>3

\* From st to nx n ticks passed, and the tasks of D, due by then, became ready.
Passes(st, nx, n, D) ==
  /\ \A t \in D : /\ t \in Tasks /\ st.task[t].status = "WAITING"
                  /\ HasDeadline(st.task[t]) /\ st.task[t].wakeup_tick <= n
                  /\ nx.task[t].status = "READY" /\ nx.task[t].reason = "NONE"
                  /\ nx.task[t].ctx = st.task[t].ctx
  /\ \A t \in Tasks \ D :
       LET d == st.task[t]
           e == nx.task[t]
       IN /\ e.ctx = d.ctx /\ e.priority = d.priority /\ e.status = d.status
          /\ e.reason = d.reason
          /\ e.join = d.join /\ e.queue = d.queue
          /\ e.wakeup_tick = Later(d.wakeup_tick, n)
          /\ e.by = Later(d.by, n)
  /\ \A t \in Tasks : IsQueued(nx, t) <=> IsQueued(st, t)
  /\ nx.arrived = MovedBack(st.arrived, {t \in Tasks : IsQueued(st, t)}, D)
  /\ nx.running = st.running /\ nx.loop_running = st.loop_running
  /\ st.switching => nx.switching

\* Letting time pass wakes nobody early, leaves nobody behind, and looks again
\* in time.
LEMMA AdvanceTicksKeeps ==
  ASSUME NEW st \in States, NEW n \in Nat, Orderly(st)
  PROVE  LET nx == AdvanceTicks(st, n)
         IN /\ nx \in States /\ Orderly(nx)
            /\ \E D \in SUBSET Tasks : Passes(st, nx, n, D)
            /\ Timely(st) => Timely(nx) /\ Prompt(nx)
<1> DEFINE el == Elapsed(st, n)
           nx == AdvanceTicks(st, n)
           D == {t \in Tasks : /\ el.wakeup_tick = 0
                               /\ el.task[t].status = "WAITING"
                               /\ HasDeadline(el.task[t])
                               /\ el.task[t].wakeup_tick = 0}
<1>1. el \in States /\ Orderly(el) /\ (Timely(st) => Timely(el))
  BY ElapsedType, ElapsedKeeps
<1>2. /\ \A t \in Tasks : Ages(st.task[t], el.task[t], n)
      /\ el.arrived = st.arrived /\ el.switching = st.switching
      /\ el.loop_running = st.loop_running /\ el.running = st.running
  BY ElapsedFields
<1> HIDE DEF el
<1>3. /\ nx \in States /\ Orderly(nx) /\ Wakes(el, nx, D)
      /\ Timely(el) => Timely(nx) /\ Prompt(nx)
  BY <1>1, WakeSleepersKeeps DEF AdvanceTicks, el
<1>4. \A t \in Tasks : /\ st.task[t].wakeup_tick \in Ticks
                       /\ st.task[t].wakeup_tick = Never \/ Never \in Nat
  BY StateFields, TaskFields, TicksAreNat DEF TaskTable
<1>5. ASSUME NEW t \in D
      PROVE  /\ st.task[t].status = "WAITING" /\ HasDeadline(st.task[t])
             /\ st.task[t].wakeup_tick <= n
  <2>1. /\ el.task[t].status = "WAITING" /\ HasDeadline(el.task[t])
        /\ Later(st.task[t].wakeup_tick, n) = 0
        /\ Ages(st.task[t], el.task[t], n) /\ t \in Tasks
    BY <1>2 DEF Ages
  <2>2. st.task[t].wakeup_tick <= n /\ st.task[t].wakeup_tick # Never
    BY <1>4, <2>1, LaterMonotone, ConstantsAssumption DEF Later, Never
  <2> QED  BY <2>1, <2>2 DEF HasDeadline, Ages
<1>6. \A t \in Tasks : IsQueued(el, t) <=> IsQueued(st, t)
  BY <1>2 DEF Ages, IsQueued
<1> HIDE DEF D, nx
<1>7. \A t \in D : /\ t \in Tasks /\ nx.task[t].status = "READY"
                   /\ nx.task[t].reason = "NONE" /\ nx.task[t].ctx = st.task[t].ctx
  BY <1>2, <1>3 DEF Wakes, Ages
<1>8. \A t \in Tasks \ D : SameFields(nx.task[t], el.task[t]) /\ Ages(st.task[t], el.task[t], n)
  BY <1>2, <1>3 DEF Wakes
<1>9. nx.arrived = MovedBack(st.arrived, {t \in Tasks : IsQueued(st, t)}, D)
  BY <1>2, <1>3, <1>6 DEF Wakes
<1>10. Passes(st, nx, n, D)
  BY <1>2, <1>3, <1>5, <1>6, <1>7, <1>8, <1>9 DEF Passes, Wakes, Ages, SameFields
<1>11. D \in SUBSET Tasks
  BY DEF D
<1> QED  BY <1>1, <1>3, <1>10, <1>11 DEF nx

\* Who joins waits for a task that is not over, unless Task#close dropped it.
Joined(st) ==
  \A t \in Tasks :
    st.task[t].status = "WAITING" /\ st.task[t].reason = "JOIN" =>
      /\ st.task[t].join \in Tasks
      /\ \/ st.task[st.task[t].join].status # "DORMANT"
         \/ ~IsQueued(st, st.task[t].join)

\* Every join stays joined if no new one is of a task that is over, and no task
\* that ends, or comes back ended, has a joiner left.
LEMMA JoinedKept ==
  ASSUME NEW st, NEW nx, Joined(st),
         \A t \in Tasks :
           nx.task[t].status = "WAITING" /\ nx.task[t].reason = "JOIN" =>
             \/ /\ st.task[t].status = "WAITING" /\ st.task[t].reason = "JOIN"
                /\ st.task[t].join = nx.task[t].join
             \/ /\ nx.task[t].join \in Tasks
                /\ nx.task[nx.task[t].join].status # "DORMANT",
         \A o \in Tasks :
           nx.task[o].status = "DORMANT" /\ IsQueued(nx, o) =>
             \/ st.task[o].status = "DORMANT" /\ IsQueued(st, o)
             \/ \A t \in Tasks : ~(/\ nx.task[t].status = "WAITING"
                                   /\ nx.task[t].reason = "JOIN" /\ nx.task[t].join = o)
  PROVE  Joined(nx)
BY DEF Joined

\* Waking tasks, and time passing, end no task.
LEMMA WakesJoined ==
  ASSUME NEW st, NEW nx, NEW D, Joined(st),
         Wakes(st, nx, D) \/ \E n \in Nat : Passes(st, nx, n, D)
  PROVE  Joined(nx)
<1>1. \A t \in Tasks : nx.task[t].status \in {"WAITING", "DORMANT"} =>
        /\ nx.task[t].status = st.task[t].status
        /\ nx.task[t].reason = st.task[t].reason
        /\ nx.task[t].join = st.task[t].join
  BY DEF Wakes, Passes, SameFields
<1>2. \A t \in Tasks : IsQueued(nx, t) <=> IsQueued(st, t)
  BY DEF Wakes, Passes
<1> QED  BY <1>1, <1>2, JoinedKept

\* Two tasks that both move back, or both stay, keep their order.
LEMMA MovedBackOrder ==
  ASSUME NEW arrived, NEW queued, NEW D, NEW t, NEW u, t \in D <=> u \in D
  PROVE  <<t, u>> \in MovedBack(arrived, queued, D) <=> <<t, u>> \in arrived
BY DEF MovedBack

\* From st to nx the task t got a status and went behind the queue it names.
Sets(st, nx, t, status) ==
  /\ nx.task[t].status = status
  /\ nx.task[t].ctx = st.task[t].ctx /\ nx.task[t].reason = st.task[t].reason
  /\ nx.task[t].join = st.task[t].join
  /\ nx.task[t].wakeup_tick = st.task[t].wakeup_tick
  /\ IsQueued(nx, t)
  /\ \A u \in Tasks \ {t} : /\ SameFields(nx.task[u], st.task[u])
                            /\ IsQueued(nx, u) <=> IsQueued(st, u)
  /\ SameFlags(st, nx)
  /\ nx.arrived = MovedBack(st.arrived, {u \in Tasks : IsQueued(st, u)}, {t})

\* A status a running task is given asks nothing of its key, so it keeps the
\* rest in order.
LEMMA SetStatusKeeps ==
  ASSUME NEW st \in States, NEW t \in Tasks, NEW status \in Statuses,
         status # "WAITING", Orderly(st)
  PROVE  LET nx == SetStatus(st, t, status)
         IN /\ nx \in States /\ Orderly(nx) /\ Sets(st, nx, t, status)
            /\ Timely(st) => Timely(nx)
<1> DEFINE data == [st.task EXCEPT ![t].status = status]
           nx == SetStatus(st, t, status)
<1>1. st.task \in TaskTable /\ st.task[t] \in TaskData
  BY StateFields DEF TaskTable
<1>2. data \in TaskTable
  BY <1>1 DEF TaskTable, TaskData
<1>3. /\ data[t].status = status /\ data[t].ctx = st.task[t].ctx
      /\ data[t].reason = st.task[t].reason /\ data[t].join = st.task[t].join
      /\ data[t].wakeup_tick = st.task[t].wakeup_tick
  BY <1>1 DEF TaskTable, TaskData
<1>4. nx = Requeued(st, {t}, data)
  BY DEF SetStatus
<1> HIDE DEF data, nx
<1>5. nx \in States /\ Orderly(nx) /\ Requeues(st, nx, {t}, data)
  BY <1>2, <1>4, RequeuedOrderly DEF Orderly
<1>6. /\ SameFields(nx.task[t], data[t]) /\ nx.task[t].place.q = QOf(status)
      /\ \A u \in Tasks \ {t} : /\ SameFields(nx.task[u], st.task[u])
                                /\ nx.task[u].place.q = st.task[u].place.q
      /\ SameFlags(st, nx)
      /\ nx.arrived = MovedBack(st.arrived, {u \in Tasks : IsQueued(st, u)}, {t})
  BY <1>3, <1>5 DEF Requeues
<1>7. QOf(status) # "nowhere"
  BY DEF QOf
<1>8. Sets(st, nx, t, status)
  BY <1>3, <1>6, <1>7 DEF Sets, SameFields, IsQueued
<1>9. Timely(st) => Timely(nx)
  <2>1. \A u \in Tasks : nx.task[u].status = "WAITING" => SameFields(nx.task[u], st.task[u])
    BY <1>8 DEF Sets
  <2>2. nx.wakeup_tick = st.wakeup_tick
    BY <1>6 DEF SameFlags
  <2> HIDE DEF nx
  <2> QED  BY <2>1, <2>2 DEF Timely, SameFields, HasDeadline
<1> QED  BY <1>5, <1>8, <1>9 DEF nx

\* From st to nx the task t is over and its joiners became ready, the ones that
\* began to wait first before the others. Its context is gone unless it is cur.
Stops(st, nx, t, cur) ==
  LET J == {u \in Tasks \ {t} : /\ st.task[u].status = "WAITING"
                                /\ st.task[u].reason = "JOIN"
                                /\ st.task[u].join = t}
  IN /\ nx.task[t].status = "DORMANT"
     /\ nx.task[t].ctx = IF t = cur THEN st.task[t].ctx ELSE "dead"
     /\ \A u \in J : /\ nx.task[u].status = "READY" /\ nx.task[u].reason = "NONE"
                     /\ nx.task[u].ctx = st.task[u].ctx
     /\ \A u \in Tasks \ (J \cup {t}) : SameFields(nx.task[u], st.task[u])
     /\ \A u \in Tasks : IsQueued(nx, u) <=> IsQueued(st, u)
     /\ SameFlags(st, nx)
     /\ \A u, v \in Tasks \ {t} : (u \in J <=> v \in J) =>
          (<<u, v>> \in nx.arrived <=> <<u, v>> \in st.arrived)

\* A field of one task that no key depends on may change, if its status still
\* names its queue.
LEMMA TaskSetKeeps ==
  ASSUME NEW st \in States, NEW t \in Tasks, NEW d \in TaskData, Orderly(st),
         d.place = st.task[t].place, d.reason = st.task[t].reason,
         d.wakeup_tick = st.task[t].wakeup_tick, d.join = st.task[t].join,
         d.queue = st.task[t].queue, Filed(d)
  PROVE  LET nx == [st EXCEPT !.task = [st.task EXCEPT ![t] = d]]
         IN /\ nx \in States /\ Orderly(nx)
            /\ nx.task[t] = d
            /\ \A u \in Tasks \ {t} : nx.task[u] = st.task[u]
            /\ \A u \in Tasks : IsQueued(nx, u) <=> IsQueued(st, u)
            /\ SameFlags(st, nx) /\ nx.arrived = st.arrived
<1> DEFINE nx == [st EXCEPT !.task = [st.task EXCEPT ![t] = d]]
<1>1. [st.task EXCEPT ![t] = d] \in TaskTable
  BY StateFields DEF TaskTable
<1>2. nx \in States
  BY <1>1 DEF States, TaskTable
<1>3. /\ nx.task = [st.task EXCEPT ![t] = d]
      /\ nx.queues = st.queues /\ nx.sleepers = st.sleepers
      /\ nx.waiters = st.waiters /\ nx.indexed = st.indexed
      /\ nx.arrived = st.arrived /\ SameFlags(st, nx)
  BY DEF States, SameFlags
<1> HIDE DEF nx
<1>4. nx.task[t] = d /\ \A u \in Tasks \ {t} : nx.task[u] = st.task[u]
  BY <1>3, StateFields DEF TaskTable
<1>5. \A u \in Tasks : /\ nx.task[u].place = st.task[u].place
                       /\ nx.task[u].reason = st.task[u].reason
                       /\ nx.task[u].wakeup_tick = st.task[u].wakeup_tick
                       /\ nx.task[u].join = st.task[u].join
                       /\ nx.task[u].queue = st.task[u].queue
                       /\ Filed(nx.task[u])
  BY <1>4 DEF Orderly
<1>6. Orderly(nx)
  BY <1>3, <1>5, NothingRefiled
<1> QED  BY <1>2, <1>3, <1>4, <1>5, <1>6 DEF nx, IsQueued

\* From st to nx the task t is over, behind the others of its queue; its context
\* is gone unless it is cur.
Ends(st, nx, t, cur) ==
  /\ nx.task[t].status = "DORMANT"
  /\ nx.task[t].ctx = IF t = cur THEN st.task[t].ctx ELSE "dead"
  /\ \A u \in Tasks \ {t} : SameFields(nx.task[u], st.task[u])
  /\ \A u \in Tasks : IsQueued(nx, u) <=> IsQueued(st, u)
  /\ SameFlags(st, nx)
  /\ nx.arrived = IF IsQueued(st, t)
                    THEN MovedBack(st.arrived, {u \in Tasks : IsQueued(st, u)}, {t})
                    ELSE st.arrived

\* A task that is stopped ends, and then its joiners are woken.
LEMMA StopTaskSteps ==
  ASSUME NEW st \in States, NEW t \in Tasks, NEW cur, Orderly(st)
  PROVE  \E gone \in States :
           /\ Orderly(gone) /\ Ends(st, gone, t, cur)
           /\ StopTask(st, t, cur) = JoinWaitersWoken(gone, t)
<1> DEFINE bare == [st.task[t] EXCEPT !.status = "DORMANT"]
           over == IF IsQueued(st, t) THEN SetStatus(st, t, "DORMANT")
                   ELSE [st EXCEPT !.task[t].status = "DORMANT"]
           dead == [over.task[t] EXCEPT !.ctx = "dead"]
           gone == IF t = cur THEN over ELSE [over EXCEPT !.task[t].ctx = "dead"]
           arrived == IF IsQueued(st, t)
                        THEN MovedBack(st.arrived, {u \in Tasks : IsQueued(st, u)}, {t})
                        ELSE st.arrived
<1>0. st.task \in TaskTable /\ st.task[t] \in TaskData
  BY StateFields DEF TaskTable
<1>1. /\ over \in States /\ Orderly(over)
      /\ over.task[t].status = "DORMANT" /\ over.task[t].ctx = st.task[t].ctx
      /\ \A u \in Tasks \ {t} : SameFields(over.task[u], st.task[u])
      /\ \A u \in Tasks : IsQueued(over, u) <=> IsQueued(st, u)
      /\ SameFlags(st, over)
      /\ over.arrived = arrived
  <2>1. CASE IsQueued(st, t)
    <3> DEFINE set == SetStatus(st, t, "DORMANT")
    <3>1. over = set
      BY <2>1
    <3>2. set \in States /\ Orderly(set) /\ Sets(st, set, t, "DORMANT")
      BY SetStatusKeeps DEF Statuses
    <3> HIDE DEF over, set
    <3> QED  BY <2>1, <3>1, <3>2 DEF Sets
  <2>2. CASE ~IsQueued(st, t)
    <3>1. over = [st EXCEPT !.task = [st.task EXCEPT ![t] = bare]]
      BY <1>0, <2>2 DEF TaskTable, TaskData, States
    <3>2. /\ bare \in TaskData /\ bare.status = "DORMANT" /\ bare.ctx = st.task[t].ctx
          /\ bare.place = st.task[t].place /\ bare.reason = st.task[t].reason
          /\ bare.wakeup_tick = st.task[t].wakeup_tick /\ bare.join = st.task[t].join
          /\ bare.queue = st.task[t].queue
      BY <1>0 DEF TaskData, Statuses
    <3> HIDE DEF over, bare
    <3>3. Filed(bare)
      BY <2>2, <3>2 DEF Filed, IsQueued
    <3>4. \A u \in Tasks : SameFields(st.task[u], st.task[u])
      BY DEF SameFields
    <3> QED  BY <2>2, <3>1, <3>2, <3>3, <3>4, TaskSetKeeps
  <2> QED  BY <2>1, <2>2
<1> HIDE DEF over
<1>2. /\ gone \in States /\ Orderly(gone)
      /\ gone.task[t].status = "DORMANT"
      /\ gone.task[t].ctx = IF t = cur THEN st.task[t].ctx ELSE "dead"
      /\ \A u \in Tasks \ {t} : SameFields(gone.task[u], st.task[u])
      /\ \A u \in Tasks : IsQueued(gone, u) <=> IsQueued(st, u)
      /\ SameFlags(st, gone)
      /\ gone.arrived = arrived
  <2>1. CASE t = cur
    BY <1>1, <2>1
  <2>2. CASE t # cur
    <3>0. over.task \in TaskTable /\ over.task[t] \in TaskData
      BY <1>1, StateFields DEF TaskTable
    <3>1. gone = [over EXCEPT !.task = [over.task EXCEPT ![t] = dead]]
      BY <1>1, <2>2, <3>0 DEF TaskTable, TaskData, States
    <3>2. /\ dead \in TaskData /\ dead.status = "DORMANT" /\ dead.ctx = "dead"
          /\ dead.place = over.task[t].place /\ dead.reason = over.task[t].reason
          /\ dead.wakeup_tick = over.task[t].wakeup_tick /\ dead.join = over.task[t].join
          /\ dead.queue = over.task[t].queue /\ dead.priority = over.task[t].priority
      BY <1>1, <3>0 DEF TaskData, Statuses
    <3> HIDE DEF gone, dead
    <3>3. Filed(dead)
      BY <1>1, <3>2, SameFiled DEF Orderly
    <3>4. /\ gone \in States /\ Orderly(gone) /\ gone.task[t] = dead
          /\ \A u \in Tasks \ {t} : gone.task[u] = over.task[u]
          /\ \A u \in Tasks : IsQueued(gone, u) <=> IsQueued(over, u)
          /\ SameFlags(over, gone) /\ gone.arrived = over.arrived
      BY <1>1, <3>1, <3>2, <3>3, TaskSetKeeps
    <3> QED  BY <1>1, <2>2, <3>2, <3>4 DEF SameFlags
  <2> QED  BY <2>1, <2>2
<1>3. StopTask(st, t, cur) = JoinWaitersWoken(gone, t)
  BY DEF StopTask, over
<1> HIDE DEF gone
<1>4. Ends(st, gone, t, cur)
  BY <1>2 DEF Ends
<1> QED  BY <1>2, <1>3, <1>4

\* Stopping a task wakes its joiners and nobody else.
LEMMA StopTaskKeeps ==
  ASSUME NEW st \in States, NEW t \in Tasks, NEW cur, Orderly(st)
  PROVE  LET nx == StopTask(st, t, cur)
         IN /\ nx \in States /\ Orderly(nx) /\ Stops(st, nx, t, cur)
            /\ Timely(st) => Timely(nx)
            /\ Joined(st) => Joined(nx)
<1> DEFINE nx == StopTask(st, t, cur)
           J == {u \in Tasks \ {t} : /\ st.task[u].status = "WAITING"
                                     /\ st.task[u].reason = "JOIN"
                                     /\ st.task[u].join = t}
<1>1. PICK gone \in States :
        /\ Orderly(gone) /\ Ends(st, gone, t, cur)
        /\ nx = JoinWaitersWoken(gone, t)
  BY StopTaskSteps
<1> HIDE DEF nx
<1>2. /\ gone.task[t].status = "DORMANT"
      /\ gone.task[t].ctx = IF t = cur THEN st.task[t].ctx ELSE "dead"
      /\ \A u \in Tasks \ {t} : SameFields(gone.task[u], st.task[u])
      /\ \A u \in Tasks : IsQueued(gone, u) <=> IsQueued(st, u)
      /\ SameFlags(st, gone)
      /\ \A u, v \in Tasks \ {t} : <<u, v>> \in gone.arrived <=> <<u, v>> \in st.arrived
  BY <1>1, MovedBackOrder DEF Ends
<1>3. gone \in States /\ Orderly(gone) /\ nx = JoinWaitersWoken(gone, t)
  BY <1>1
<1>4. J = {u \in Tasks : /\ gone.task[u].status = "WAITING"
                         /\ gone.task[u].reason = "JOIN" /\ gone.task[u].join = t}
  BY <1>2 DEF SameFields
<1> HIDE DEF J
<1>5. nx \in States /\ Orderly(nx) /\ Wakes(gone, nx, J) /\ SameFlags(gone, nx)
  BY <1>2, <1>3, <1>4, JoinWaitersWokenKeeps
<1>6. t \notin J
  BY DEF J
<1>7. \A u, v \in Tasks \ {t} : (u \in J <=> v \in J) =>
        (<<u, v>> \in nx.arrived <=> <<u, v>> \in st.arrived)
  <2>1. nx.arrived = MovedBack(gone.arrived, {u \in Tasks : IsQueued(gone, u)}, J)
    BY <1>5 DEF Wakes
  <2>2. \A u, v \in Tasks \ {t} : (u \in J <=> v \in J) =>
          (<<u, v>> \in nx.arrived <=> <<u, v>> \in gone.arrived)
    BY <2>1 DEF MovedBack
  <2> QED  BY <1>2, <2>2
<1>8. /\ nx.task[t].status = "DORMANT"
      /\ nx.task[t].ctx = IF t = cur THEN st.task[t].ctx ELSE "dead"
      /\ \A u \in J : /\ nx.task[u].status = "READY" /\ nx.task[u].reason = "NONE"
                      /\ nx.task[u].ctx = st.task[u].ctx
      /\ \A u \in Tasks \ (J \cup {t}) : SameFields(nx.task[u], st.task[u])
      /\ \A u \in Tasks : IsQueued(nx, u) <=> IsQueued(st, u)
      /\ SameFlags(st, nx)
  <2>1. nx.task[t].status = "DORMANT" /\ nx.task[t].ctx = gone.task[t].ctx
    BY <1>2, <1>5, <1>6 DEF Wakes, SameFields
  <2>2. ASSUME NEW u \in J
        PROVE  /\ nx.task[u].status = "READY" /\ nx.task[u].reason = "NONE"
               /\ nx.task[u].ctx = st.task[u].ctx
    <3>1. u \in Tasks \ {t}
      BY DEF J
    <3> QED  BY <1>2, <1>5, <3>1 DEF Wakes, SameFields
  <2>3. ASSUME NEW u \in Tasks \ (J \cup {t})
        PROVE  SameFields(nx.task[u], st.task[u])
    <3>1. SameFields(nx.task[u], gone.task[u]) /\ SameFields(gone.task[u], st.task[u])
      BY <1>2, <1>5 DEF Wakes
    <3> QED  BY <3>1 DEF SameFields
  <2>4. (\A u \in Tasks : IsQueued(nx, u) <=> IsQueued(st, u)) /\ SameFlags(st, nx)
    BY <1>2, <1>5 DEF Wakes, SameFlags
  <2> QED  BY <1>2, <2>1, <2>2, <2>3, <2>4
<1>9. Stops(st, nx, t, cur)
  BY <1>7, <1>8 DEF Stops, J
<1>10. Timely(st) => Timely(nx)
  <2>1. \A u \in Tasks : nx.task[u].status = "WAITING" => SameFields(nx.task[u], st.task[u])
    BY <1>8
  <2>2. nx.wakeup_tick = st.wakeup_tick
    BY <1>8 DEF SameFlags
  <2> QED  BY <2>1, <2>2 DEF Timely, SameFields, HasDeadline
<1>11. Joined(st) => Joined(nx)
  <2>1. \A u \in Tasks : nx.task[u].status = "WAITING" =>
          u \notin J /\ u # t /\ SameFields(nx.task[u], st.task[u])
    BY <1>8
  <2>2. \A u \in Tasks : ~(/\ nx.task[u].status = "WAITING"
                           /\ nx.task[u].reason = "JOIN" /\ nx.task[u].join = t)
    BY <2>1 DEF J, SameFields
  <2>3. \A o \in Tasks : nx.task[o].status = "DORMANT" =>
          o = t \/ st.task[o].status = "DORMANT"
    BY <1>8 DEF SameFields
  <2> QED  BY <1>8, <2>1, <2>2, <2>3, JoinedKept DEF SameFields
<1> QED  BY <1>5, <1>9, <1>10, <1>11 DEF nx

\* A task that is taken out keeps its fields, and the others their places.
LEMMA QDeleteKeeps ==
  ASSUME NEW st \in States, NEW t \in Tasks, Orderly(st)
  PROVE  LET nx == QDelete(st, t)
         IN /\ nx \in States /\ Consistent(nx) /\ Keyed(nx)
            /\ \A u \in Tasks \ {t} : nx.task[u] = st.task[u]
            /\ SameFields(nx.task[t], st.task[t]) /\ ~IsQueued(nx, t)
            /\ SameFlags(st, nx)
<1> DEFINE out == TakenOut(st, {t})
           nx == QDelete(st, t)
<1>1. /\ out \in States
      /\ \A u \in Tasks : SameFields(out.task[u], st.task[u])
      /\ \A u \in Tasks \ {t} : out.task[u] = st.task[u]
      /\ out.task[t].place = NONE
      /\ SameFlags(st, out) /\ (out.indexed => st.indexed)
  <2>1. \A u \in {t} : out.task[u].place = NONE
    BY TakenOutFields
  <2> HIDE DEF out
  <2> QED  BY <2>1, TakenOutType, TakenOutFields DEF out
<1> HIDE DEF out
<1>2. nx = [out EXCEPT !.arrived = {p \in @ : p[1] # t /\ p[2] # t}]
  BY DEF QDelete, out
<1> HIDE DEF nx
<1>3. /\ nx.task = out.task /\ nx.indexed = out.indexed /\ SameFlags(out, nx)
  BY <1>1, <1>2 DEF States, SameFlags
<1>4. nx \in States /\ Consistent(nx)
  BY QDeleteType, QDeletePlaced DEF nx, Orderly
<1>5. nx.task[t].place.q = "nowhere"
  BY <1>1, <1>3 DEF NONE
<1>6. Keyed(nx)
  BY <1>1, <1>3, <1>5 DEF Keyed, Orderly
<1>7. SameFlags(st, nx)
  BY <1>1, <1>3 DEF SameFlags
<1> QED  BY <1>1, <1>3, <1>4, <1>5, <1>6, <1>7 DEF nx, IsQueued

\* Turning the indexes on or off changes keys only.
LEMMA SetIndexFromKeeps ==
  ASSUME NEW st \in States, NEW n \in IndexFroms, Orderly(st)
  PROVE  LET nx == SetIndexFrom(st, n)
         IN /\ nx \in States /\ Orderly(nx)
            /\ \A t \in Tasks : /\ SameFields(nx.task[t], st.task[t])
                                /\ IsQueued(nx, t) <=> IsQueued(st, t)
            /\ nx.arrived = st.arrived /\ nx.wakeup_tick = st.wakeup_tick
            /\ nx.switching = st.switching /\ nx.running = st.running
            /\ nx.loop_running = st.loop_running
<1> DEFINE set == [st EXCEPT !.index_from = n]
           un == UnindexWaiting(set)
           nx == SetIndexFrom(st, n)
           Same(in) == /\ \A t \in Tasks : /\ SameFields(in.task[t], st.task[t])
                                           /\ in.task[t].place.q = st.task[t].place.q
                                           /\ in.task[t].place.pri = st.task[t].place.pri
                       /\ in.arrived = st.arrived /\ in.wakeup_tick = st.wakeup_tick
                       /\ in.switching = st.switching /\ in.running = st.running
                       /\ in.loop_running = st.loop_running
<1>1. /\ set \in States /\ set.task = st.task /\ set.indexed = st.indexed
      /\ set.queues = st.queues /\ set.arrived = st.arrived
      /\ set.sleepers = st.sleepers /\ set.waiters = st.waiters
      /\ set.wakeup_tick = st.wakeup_tick /\ set.switching = st.switching
      /\ set.running = st.running /\ set.loop_running = st.loop_running
  BY DEF States
<1>2. \/ nx = set
      \/ nx = BuildIndex(set)
      \/ nx = un
  BY DEF SetIndexFrom
<1>3. nx \in States /\ Consistent(nx)
  BY SetIndexFromType, SetIndexFromPlaced DEF Orderly
<1> HIDE DEF set, nx, un
<1>4. WellPlaced(set)
  BY <1>1, NothingMoved DEF Orderly, Consistent
<1>5. CASE nx = set
  <2>1. \A t \in Tasks : SameFields(st.task[t], st.task[t])
    BY DEF SameFields
  <2>2. Keyed(nx) /\ Same(nx)
    BY <1>1, <1>5, <2>1 DEF Keyed, Orderly
  <2> QED  BY <1>1, <1>3, <1>5, <2>2 DEF Orderly, IsQueued, nx
<1>6. CASE nx = BuildIndex(set)
  <2>1. /\ \A t \in Tasks : /\ SameFields(nx.task[t], set.task[t])
                            /\ nx.task[t].place.q = set.task[t].place.q
                            /\ nx.task[t].place.pri = set.task[t].place.pri
        /\ Keyed(nx) /\ SameFlags(set, nx) /\ nx.arrived = set.arrived
    BY <1>1, <1>4, <1>6, BuildIndexFields
  <2>2. Same(nx)
    BY <1>1, <2>1 DEF SameFlags
  <2>3. \A t \in Tasks : Filed(nx.task[t])
    BY <2>2, SameFiled DEF Orderly, SameFields
  <2> QED  BY <1>3, <2>1, <2>2, <2>3 DEF Orderly, IsQueued, nx
<1>7. CASE nx = un
  <2>1. /\ un.task = [t \in Tasks |->
                 IF t \in InQueue(set, "waiting")
                   THEN [set.task[t] EXCEPT !.place.sleep = Never,
                                            !.place.target = NoObj]
                   ELSE set.task[t]]
        /\ ~un.indexed /\ SameFlags(set, un) /\ un.arrived = set.arrived
    BY <1>1 DEF UnindexWaiting, States, SameFlags, un
  <2>2. ASSUME NEW t \in Tasks
        PROVE  /\ SameFields(un.task[t], st.task[t])
               /\ un.task[t].place.q = st.task[t].place.q
               /\ un.task[t].place.pri = st.task[t].place.pri
    <3>1. st.task[t] \in TaskData /\ st.task[t].place \in Places
      BY StateFields, TaskFields DEF TaskTable
    <3> DEFINE d == st.task[t]
               p == [d.place EXCEPT !.sleep = Never, !.target = NoObj]
    <3>2. p.q = d.place.q /\ p.pri = d.place.pri
      BY <3>1 DEF Places
    <3>3. un.task[t] = IF t \in InQueue(set, "waiting") THEN [d EXCEPT !.place = p] ELSE d
      <4>1. un.task[t] = IF t \in InQueue(set, "waiting")
                         THEN [d EXCEPT !.place.sleep = Never, !.place.target = NoObj] ELSE d
        BY <1>1, <2>1
      <4>2. [d EXCEPT !.place.sleep = Never, !.place.target = NoObj] = [d EXCEPT !.place = p]
        BY <3>1 DEF TaskData, Places
      <4> QED  BY <4>1, <4>2
    <3>4. d \in TaskData
      BY <3>1
    <3> HIDE DEF d, p
    <3>5. SameFields([d EXCEPT !.place = p], d) /\ [d EXCEPT !.place = p].place = p
      BY <3>4 DEF TaskData, SameFields
    <3>6. SameFields(d, d)
      BY DEF SameFields
    <3>7. /\ SameFields(un.task[t], d) /\ un.task[t].place.q = d.place.q
          /\ un.task[t].place.pri = d.place.pri
      BY <3>2, <3>3, <3>5, <3>6
    <3> QED  BY <3>7 DEF d
  <2>3. Same(nx)
    BY <1>1, <1>7, <2>1, <2>2 DEF SameFlags
  <2>4. \A t \in Tasks : Filed(nx.task[t])
    BY <2>3, SameFiled DEF Orderly, SameFields
  <2>5. Keyed(nx)
    BY <1>7, <2>1 DEF Keyed
  <2> QED  BY <1>3, <2>3, <2>4, <2>5 DEF Orderly, IsQueued, nx
<1> QED  BY <1>2, <1>5, <1>6, <1>7

\* A deadline that is noted is one the scheduler looks in time for.
LEMMA NoteWakeupKeeps ==
  ASSUME NEW st \in States, NEW d \in Ticks
  PROVE  LET nx == NoteWakeup(st, d)
         IN /\ nx \in States
            /\ Orderly(st) => Orderly(nx)
            /\ nx.wakeup_tick <= d /\ nx.wakeup_tick <= st.wakeup_tick
            /\ nx.task = st.task /\ nx.arrived = st.arrived
            /\ nx.switching = st.switching /\ nx.running = st.running
            /\ nx.loop_running = st.loop_running
<1> DEFINE nx == NoteWakeup(st, d)
<1>1. /\ nx.queues = st.queues /\ nx.sleepers = st.sleepers
      /\ nx.waiters = st.waiters /\ nx.indexed = st.indexed
      /\ nx.task = st.task /\ nx.arrived = st.arrived
      /\ nx.switching = st.switching /\ nx.running = st.running
      /\ nx.loop_running = st.loop_running
  BY DEF NoteWakeup, States
<1>2. nx.wakeup_tick = IF st.wakeup_tick = Never \/ d < st.wakeup_tick
                       THEN d ELSE st.wakeup_tick
  BY DEF NoteWakeup, States
<1>3. /\ st.wakeup_tick \in Nat /\ d \in Nat /\ d <= Never /\ st.wakeup_tick <= Never
      /\ Never \in Nat
  BY StateFields, ConstantsAssumption DEF Ticks, Never
<1>4. nx \in States
  BY NoteWakeupType
<1> HIDE DEF nx
<1>5. Orderly(st) => Orderly(nx)
  BY <1>1, NothingRefiled DEF Orderly
<1>6. nx.wakeup_tick <= d /\ nx.wakeup_tick <= st.wakeup_tick
  BY <1>2, <1>3
<1> QED  BY <1>1, <1>4, <1>5, <1>6 DEF nx

\* What is left to run without anybody's help is what is ready or has a
\* deadline, by whichever way pending looks.
LEMMA PendingExact ==
  ASSUME NEW st \in States, Orderly(st)
  PROVE  Pending(st) <=>
           \/ st.queues["ready"] # {}
           \/ \E t \in Tasks : st.task[t].status = "WAITING" /\ HasDeadline(st.task[t])
<1>1. \A t \in Tasks : t \in InQueue(st, "waiting") <=> st.task[t].status = "WAITING"
  BY InQueueExact, FiledWaits DEF QueueNames, Orderly, Consistent
<1>2. InQueue(st, "waiting") \in SUBSET Tasks
  BY InQueueType DEF QueueNames
<1>3. CASE ~st.indexed
  BY <1>1, <1>2, <1>3 DEF Pending
<1>4. CASE st.indexed
  <2>1. ASSUME NEW s \in st.sleepers
        PROVE  /\ s[2] \in Tasks /\ st.task[s[2]].status = "WAITING"
               /\ HasDeadline(st.task[s[2]])
    <3>1. s[2] \in Tasks /\ st.task[s[2]].place.sleep = s[1] /\ s[1] # Never
      BY <2>1, KeysAreReal DEF Orderly, Consistent, WellPlaced
    <3>2. st.task[s[2]].place.q = "waiting"
      BY <3>1 DEF Orderly, Consistent, WellPlaced
    <3>3. Key(st.task[s[2]]) # Never
      BY <1>4, <3>1, <3>2 DEF Orderly, Keyed
    <3> QED  BY <3>1, <3>2, <3>3, FiledWaits DEF Orderly, Key
  <2>2. ASSUME NEW t \in Tasks, st.task[t].status = "WAITING",
               HasDeadline(st.task[t])
        PROVE  st.sleepers # {}
    <3>1. st.task[t].place.q = "waiting"
      BY <2>2 DEF Orderly, Filed
    <3>2. /\ st.task[t].place.sleep = st.task[t].wakeup_tick
          /\ st.task[t].wakeup_tick # Never
      BY <1>4, <2>2, <3>1 DEF Orderly, Keyed, Key, HasDeadline
    <3>3. <<st.task[t].place.sleep, t>> \in st.sleepers
      BY <3>2 DEF Orderly, Consistent, WellPlaced
    <3> QED  BY <3>3
  <2> QED  BY <1>4, <2>1, <2>2 DEF Pending
<1> QED  BY <1>3, <1>4

\* The indexes hold what a walk along the waiting queue would find.
LEMMA WalkFindsTheSame ==
  ASSUME NEW st \in States, Orderly(st)
  PROVE  LET walk == [st EXCEPT !.indexed = FALSE]
         IN /\ Due(st) = Due(walk)
            /\ \A target \in Targets : WaitingFor(st, target) = WaitingFor(walk, target)
            /\ Pending(st) = Pending(walk)
            /\ ~st.indexed => st.sleepers = {} /\ st.waiters = {}
<1> DEFINE walk == [st EXCEPT !.indexed = FALSE]
<1>1. /\ walk.task = st.task /\ walk.queues = st.queues /\ ~walk.indexed
  BY DEF States
<1> HIDE DEF walk
<1>2. /\ \A t \in Tasks : t \in InQueue(walk, "waiting") <=> st.task[t].status = "WAITING"
      /\ InQueue(walk, "waiting") \in SUBSET Tasks
  <2>1. InQueue(walk, "waiting") = InQueue(st, "waiting")
    BY <1>1 DEF InQueue
  <2> QED  BY <2>1, InQueueExact, InQueueType, FiledWaits DEF QueueNames, Orderly, Consistent
<1>3. Due(walk) = Due(st)
  <2>1. Due(walk) = {t \in Tasks : /\ st.task[t].status = "WAITING"
                                   /\ HasDeadline(st.task[t])
                                   /\ st.task[t].wakeup_tick = 0}
    BY <1>1, <1>2 DEF Due
  <2> QED  BY <2>1, DueExact
<1>4. ASSUME NEW target \in Targets
      PROVE  WaitingFor(walk, target) = WaitingFor(st, target)
  <2>1. target # NoObj
    BY ConstantsAssumption DEF Targets
  <2>2. WaitingFor(walk, target) =
          {t \in Tasks : st.task[t].status = "WAITING" /\ TargetOf(st.task[t]) = target}
    BY <1>1, <1>2, <2>1 DEF WaitingFor, WaitsFor
  <2> QED  BY <2>2, WaitingForExact
<1>5. Pending(walk) = Pending(st)
  <2>1. Pending(walk) <=>
           \/ st.queues["ready"] # {}
           \/ \E t \in Tasks : st.task[t].status = "WAITING" /\ HasDeadline(st.task[t])
    BY <1>1, <1>2 DEF Pending
  <2>2. Pending(walk) \in BOOLEAN /\ Pending(st) \in BOOLEAN
    BY DEF Pending
  <2>3. Pending(walk) <=> Pending(st)
    BY <2>1, PendingExact
  <2> QED  BY <2>2, <2>3
<1>6. ~st.indexed => st.sleepers = {} /\ st.waiters = {}
  BY DEF Orderly, Consistent
<1> QED  BY <1>3, <1>4, <1>5, <1>6 DEF walk
===========================================================================
