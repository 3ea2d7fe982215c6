---------------------------- MODULE TaskState ----------------------------
(***************************************************************************)
(* The bookkeeping of SabiRuby's task scheduler (src/builtins/ext_task.rs, *)
(* TaskState of src/vm.rs, TaskData and TaskPlace of src/object.rs): four  *)
(* sorted queues, two optional indexes of the waiting tasks, and the place *)
(* each task remembers so that taking it out of them needs no walk.        *)
(*                                                                         *)
(* Everything here is an operator from one scheduler state to the next, so *)
(* that a handler which calls several of these functions in a row is one   *)
(* action built by composing them.                                         *)
(*                                                                         *)
(* Two changes of coordinates keep the state finite:                       *)
(*   - a queue key ends in a sequence number that only grows; only its     *)
(*     order is ever read, so `arrived` keeps that order as a relation;    *)
(*   - a tick is only ever compared with the current one, so a deadline is *)
(*     kept as the ticks left until it, 0 for one that has come.           *)
(*                                                                         *)
(* A definition whose name ends in _slip is what its neighbour below would *)
(* be with one plausible mistake in it; nothing uses it but the runs that  *)
(* show which property the mistake breaks.                                 *)
(***************************************************************************)
EXTENDS Integers, FiniteSets

CONSTANTS Tasks,        \* the Task objects a program may make
          Queues,       \* the Task::Queue objects
          NoObj,        \* `None` where an ObjId is optional
          Priorities,   \* the priorities in use (a subset of 0..255, 0 the highest)
          IndexFroms,   \* the values `index_from` is set to
          MaxWait,      \* the longest sleep or timeout, in ticks
          TIMESLICE     \* ticks a task runs before it is preempted

ASSUME ConstantsAssumption ==
  /\ Tasks \cap Queues = {}
  /\ NoObj \notin Tasks \cup Queues
  /\ IsFiniteSet(Tasks)
  /\ Priorities \subseteq Nat
  /\ Priorities # {}
  /\ IndexFroms \subseteq Nat
  /\ IndexFroms # {}
  /\ MaxWait \in Nat
  /\ TIMESLICE \in Nat \ {0}

\* "No timed wakeup": u32::MAX in the code, later than every deadline.
Never == MaxWait + 1

Ticks == 0 .. Never

QueueNames == {"dormant", "ready", "waiting", "suspended"}

Statuses == {"DORMANT", "READY", "RUNNING", "WAITING", "SUSPENDED"}

Reasons == {"NONE", "SLEEP", "JOIN", "QUEUE"}

Targets == Tasks \cup Queues

\* Where a task is in the scheduler; `sleep` and `target` are its index keys.
Places == [q : QueueNames \cup {"nowhere"}, pri : Nat,
           sleep : Ticks, target : Targets \cup {NoObj}]

NONE == [q |-> "nowhere", pri |-> 0, sleep |-> Never, target |-> NoObj]

\* A Task object. `ctx` is the state of its execution context, "none" before
\* Task.new made it; `by` is the deadline its Queue#pop was given, a local of
\* the Ruby loop around __pop_try, kept here so that all time passes at once.
TaskData ==
  [ctx : {"none", "created", "live", "dead"}, priority : Priorities,
   status : Statuses, reason : Reasons, timeslice : 0 .. TIMESLICE,
   wakeup_tick : Ticks, join : Tasks \cup {NoObj},
   queue : Queues \cup {NoObj}, by : Ticks, place : Places]

\* The scheduler state, with the Task objects it refers to.
States ==
  [task : [Tasks -> TaskData],
   queues : [QueueNames -> SUBSET (Nat \X Tasks)],
   sleepers : SUBSET ((0 .. MaxWait) \X Tasks),
   waiters : SUBSET (Targets \X Tasks),
   arrived : SUBSET (Tasks \X Tasks),
   indexed : BOOLEAN,
   index_from : IndexFroms,
   wakeup_tick : Ticks,
   switching : BOOLEAN,
   loop_running : BOOLEAN,
   running : Tasks \cup {NoObj}]

InitialTask ==
  [ctx |-> "none", priority |-> CHOOSE p \in Priorities : TRUE,
   status |-> "DORMANT", reason |-> "NONE", timeslice |-> TIMESLICE,
   wakeup_tick |-> Never, join |-> NoObj, queue |-> NoObj, by |-> Never,
   place |-> NONE]

InitialState(from) ==
  [task |-> [t \in Tasks |-> InitialTask],
   queues |-> [q \in QueueNames |-> {}],
   sleepers |-> {}, waiters |-> {}, arrived |-> {},
   indexed |-> FALSE, index_from |-> from, wakeup_tick |-> Never,
   switching |-> FALSE, loop_running |-> FALSE, running |-> NoObj]

---------------------------------------------------------------------------
(* Reading a task *)

QOf(status) ==
  CASE status \in {"READY", "RUNNING"} -> "ready"
    [] status = "WAITING"              -> "waiting"
    [] status = "SUSPENDED"            -> "suspended"
    [] OTHER                           -> "dormant"

TargetOf(d) ==
  CASE d.reason = "QUEUE" -> d.queue
    [] d.reason = "JOIN"  -> d.join
    [] OTHER              -> NoObj

\* Only a sleep has a deadline; a pop's timeout is forgotten.
HasDeadline_slip(d) == d.reason = "SLEEP" /\ d.wakeup_tick # Never

HasDeadline(d) == d.reason \in {"SLEEP", "QUEUE"} /\ d.wakeup_tick # Never

WaitsFor(d, target) == target # NoObj /\ TargetOf(d) = target

IsQueued(st, t) == st.task[t].place.q # "nowhere"

InQueue(st, q) == {e[2] : e \in st.queues[q]}

\* The entry a queue yields first: by priority, then by arrival.
IsFirst(st, q, t) ==
  \E e \in st.queues[q] :
    /\ e[2] = t
    /\ \A f \in st.queues[q] \ {e} :
         e[1] < f[1] \/ (e[1] = f[1] /\ <<t, f[2]>> \in st.arrived)

\* The one of S that arrived first.
IsEarliest(st, S, t) == t \in S /\ \A u \in S \ {t} : <<t, u>> \in st.arrived

\* Every queue and index holds exactly the entries the tasks remember, and only
\* what waits is in an index.
WellPlaced(st) ==
  /\ \A q \in QueueNames : \A e \in st.queues[q] :
       st.task[e[2]].place.q = q /\ st.task[e[2]].place.pri = e[1]
  /\ \A e \in st.sleepers : st.task[e[2]].place.sleep = e[1]
  /\ \A e \in st.waiters : st.task[e[2]].place.target = e[1]
  /\ \A t \in Tasks :
       LET at == st.task[t].place
       IN /\ at.q # "nowhere" => <<at.pri, t>> \in st.queues[at.q]
          /\ at.sleep # Never => <<at.sleep, t>> \in st.sleepers
          /\ at.target # NoObj => <<at.target, t>> \in st.waiters
          /\ at.sleep # Never \/ at.target # NoObj => at.q = "waiting"

---------------------------------------------------------------------------
(* Moving tasks between the queues *)

\* Out of whichever queue and indexes hold them, by the keys the tasks
\* remember; an emptied waiting queue stops being indexed.
TakenOut(st, D) ==
  LET at(t) == st.task[t].place
      left == [q \in QueueNames |->
                 {e \in st.queues[q] :
                    ~(e[2] \in D /\ at(e[2]).q = q /\ at(e[2]).pri = e[1])}]
      emptied == /\ \E t \in D : at(t).q = "waiting"
                 /\ left["waiting"] = {}
                 /\ st.index_from > 0
  IN [st EXCEPT
        !.queues = left,
        !.sleepers = {e \in @ : ~(e[2] \in D /\ at(e[2]).sleep = e[1])},
        !.waiters = {e \in @ : ~(e[2] \in D /\ at(e[2]).target = e[1])},
        !.task = [t \in Tasks |-> IF t \in D THEN [@[t] EXCEPT !.place = NONE]
                                             ELSE @[t]],
        !.indexed = @ /\ ~emptied]

\* q_delete: out, and of no place until it is put back.
QDelete(st, t) ==
  [TakenOut(st, {t}) EXCEPT
     !.arrived = {p \in @ : p[1] # t /\ p[2] # t}]

\* Puts waiting tasks in the indexes their fields call for.
Indexed(st, D) ==
  LET sleepy == {t \in D : HasDeadline(st.task[t])}
      aimed == {t \in D : TargetOf(st.task[t]) # NoObj}
      key(t) == [st.task[t].place EXCEPT
                   !.sleep = IF t \in sleepy THEN st.task[t].wakeup_tick
                                             ELSE Never,
                   !.target = TargetOf(st.task[t])]
  IN [st EXCEPT
        !.sleepers = @ \cup {<<st.task[t].wakeup_tick, t>> : t \in sleepy},
        !.waiters = @ \cup {<<TargetOf(st.task[t]), t>> : t \in aimed},
        !.task = [t \in Tasks |-> IF t \in D THEN [@[t] EXCEPT !.place = key(t)]
                                             ELSE @[t]]]

\* The tasks that wait already stay out of the index.
BuildIndex_slip(st) == [st EXCEPT !.indexed = TRUE]

BuildIndex(st) == [Indexed(st, InQueue(st, "waiting")) EXCEPT !.indexed = TRUE]

\* The tasks go on remembering their keys.
UnindexWaiting_slip(st) ==
  [st EXCEPT !.sleepers = {}, !.waiters = {}, !.indexed = FALSE]

UnindexWaiting(st) ==
  [st EXCEPT
     !.sleepers = {}, !.waiters = {}, !.indexed = FALSE,
     !.task = [t \in Tasks |->
                 IF t \in InQueue(st, "waiting")
                   THEN [@[t] EXCEPT !.place.sleep = Never,
                                     !.place.target = NoObj]
                   ELSE @[t]]]

\* Last come, first out; and no sequence number for a newcomer.
MovedBack_slip(arrived, queued, D) ==
  {p \in arrived : p[1] \notin D /\ p[2] \notin D}
    \cup {<<p[2], p[1]>> : p \in arrived \cap (D \X D)} \cup ((queued \ D) \X D)

\* The tasks of D behind every other one, in the order they already had.
MovedBack(arrived, queued, D) ==
  {p \in arrived : p[1] \in D <=> p[2] \in D} \cup ((queued \ D) \X D)

\* requeue, for the tasks of D one after the other in the order they arrived
\* (one task, or the list a wake-up made): out of their places, fields as
\* data says, and into the queue and the indexes those fields name. A list
\* always goes to the ready or dormant queue.
Requeued(st, D, data) ==
  LET out == TakenOut(st, D)
      q(t) == QOf(data[t].status)
      pri(t) == IF q(t) = "ready" THEN data[t].priority ELSE 0
      others == {t \in Tasks : IsQueued(st, t)}
      put == [out EXCEPT
                !.queues = [n \in QueueNames |->
                              @[n] \cup {<<pri(t), t>> : t \in {u \in D : q(u) = n}}],
                !.arrived = MovedBack(@, others, D),
                !.task = [t \in Tasks |->
                            IF t \in D
                              THEN [data[t] EXCEPT
                                      !.place = [NONE EXCEPT !.q = q(t), !.pri = pri(t)]]
                              ELSE @[t]]]
      wait == {t \in D : q(t) = "waiting"}
  IN IF wait = {} THEN put
     ELSE IF put.indexed THEN Indexed(put, wait)
     ELSE IF Cardinality(put.queues["waiting"]) >= put.index_from THEN BuildIndex(put)
     ELSE put

SetStatus(st, t, status) ==
  Requeued(st, {t}, [st.task EXCEPT ![t].status = status])

SetIndexFrom(st, n) ==
  LET set == [st EXCEPT !.index_from = n]
  IN IF n = 0 \/ Cardinality(st.queues["waiting"]) >= n
       THEN IF st.indexed THEN set ELSE BuildIndex(set)
       ELSE IF st.indexed THEN UnindexWaiting(set) ELSE set

---------------------------------------------------------------------------
(* Time *)

Earliest(S) == IF S = {} THEN Never
               ELSE CHOOSE d \in S : \A e \in S : d <= e

Later(d, n) == IF d = Never THEN Never ELSE IF d < n THEN 0 ELSE d - n

\* `tick` moves on by n: every deadline is n ticks nearer.
Aged(d, n) == [d EXCEPT !.wakeup_tick = Later(@, n), !.by = Later(@, n),
                        !.place.sleep = Later(@, n)]

Elapsed(st, n) ==
  [st EXCEPT
     !.wakeup_tick = Later(@, n),
     !.sleepers = {<<Later(e[1], n), e[2]>> : e \in @},
     !.task = [t \in Tasks |-> Aged(st.task[t], n)]]

\* A nearer deadline does not replace a later one; or none replaces Never.
NoteWakeup_slip(st, d) ==
  IF st.wakeup_tick = Never THEN [st EXCEPT !.wakeup_tick = d] ELSE st

NoteWakeup_never_slip(st, d) ==
  IF d < st.wakeup_tick /\ st.wakeup_tick # Never THEN [st EXCEPT !.wakeup_tick = d] ELSE st

NoteWakeup(st, d) ==
  IF st.wakeup_tick = Never \/ d < st.wakeup_tick
    THEN [st EXCEPT !.wakeup_tick = d] ELSE st

Roused(d) == [d EXCEPT !.status = "READY", !.reason = "NONE",
                       !.queue = NoObj, !.wakeup_tick = Never]

\* A tick too early.
Due_slip(st) ==
  {t \in InQueue(st, "waiting") :
     HasDeadline(st.task[t]) /\ st.task[t].wakeup_tick <= 1}

\* The tasks a wake-up finds due: in the index, or by walking the queue.
Due(st) ==
  IF st.indexed THEN {e[2] : e \in {s \in st.sleepers : s[1] = 0}}
  ELSE {t \in InQueue(st, "waiting") :
          HasDeadline(st.task[t]) /\ st.task[t].wakeup_tick = 0}

WakeSleepers(st) ==
  LET due == Due(st)
      next == Earliest({st.task[t].wakeup_tick :
                t \in {u \in InQueue(st, "waiting") \ due : HasDeadline(st.task[u])}})
      woken == Requeued(st, due, [t \in Tasks |-> Roused(st.task[t])])
      left == IF woken.indexed THEN Earliest({woken.task[e[2]].wakeup_tick : e \in woken.sleepers})
              ELSE IF st.indexed THEN Never ELSE next
  IN IF st.wakeup_tick # 0 THEN st
     ELSE [woken EXCEPT !.wakeup_tick = left,
                        !.switching = @ \/ due # {}]

AdvanceTicks(st, n) == WakeSleepers(Elapsed(st, n))

---------------------------------------------------------------------------
(* Waking the tasks that wait for an object *)

WaitingFor(st, target) ==
  IF st.indexed THEN {e[2] : e \in {w \in st.waiters : w[1] = target}}
  ELSE {t \in InQueue(st, "waiting") : WaitsFor(st.task[t], target)}

\* Something can still run without anybody's help: a ready task, or a deadline.
Pending(st) ==
  \/ st.queues["ready"] # {}
  \/ IF st.indexed THEN st.sleepers # {}
     ELSE \E t \in InQueue(st, "waiting") : HasDeadline(st.task[t])

\* The joiners of a task that is over become ready; no switch is asked for.
JoinWaitersWoken(st, done) ==
  LET D == {t \in WaitingFor(st, done) :
              st.task[t].reason = "JOIN" /\ st.task[t].join = done}
  IN Requeued(st, D, [t \in Tasks |->
       [st.task[t] EXCEPT !.status = "READY", !.reason = "NONE", !.join = NoObj]])

\* The readers in D of a Task::Queue become ready and a switch is asked for.
ReadersWoken(st, q, D) ==
  LET R == {t \in D : st.task[t].reason = "QUEUE" /\ st.task[t].queue = q}
  IN [Requeued(st, R, [t \in Tasks |-> Roused(st.task[t])]) EXCEPT
        !.switching = @ \/ R # {}]

\* Nobody tells the joiners.
StopTask_slip(st, t, cur) ==
  LET over == IF IsQueued(st, t) THEN SetStatus(st, t, "DORMANT")
              ELSE [st EXCEPT !.task[t].status = "DORMANT"]
  IN IF t = cur THEN over ELSE [over EXCEPT !.task[t].ctx = "dead"]

\* The task is over. Its context goes with it unless it is the running one.
StopTask(st, t, cur) ==
  LET over == IF IsQueued(st, t) THEN SetStatus(st, t, "DORMANT")
              ELSE [st EXCEPT !.task[t].status = "DORMANT"]
      gone == IF t = cur THEN over ELSE [over EXCEPT !.task[t].ctx = "dead"]
  IN JoinWaitersWoken(gone, t)
===========================================================================
