---------------------------- MODULE TaskQueue ----------------------------
(***************************************************************************)
(* Task::Queue (queue_init, queue_pop_try and the host's queue_* entry     *)
(* points of src/builtins/ext_task.rs) composed with the scheduler.        *)
(*                                                                         *)
(* A blocking pop is a loop of the gem's Ruby part around __pop_try: it    *)
(* asks, is parked where there is nothing, and asks again once it runs.    *)
(* `popping` says which queue a task stands in that loop for; items are    *)
(* only counted, since no rule looks at their values.                      *)
(***************************************************************************)
EXTENDS TaskScheduler

CONSTANT MaxItems       \* bound on the items of one queue

ASSUME QueueAssumption == MaxItems \in Nat

VARIABLES items,        \* how many items each queue holds
          closed,       \* the queues that are closed (@closed)
          popping       \* the queue a task's Queue#pop loop is on

qvars == <<items, closed, popping>>
vars == <<sched, stack, items, closed, popping>>

Init ==
  /\ SchedInit
  /\ items = [q \in Queues |-> 0]
  /\ closed = {}
  /\ popping = [t \in Tasks |-> NoObj]

---------------------------------------------------------------------------

\* The task on the CPU is between two __pop_try calls: that is all it does next.
Retrying == Top.kind = "task" /\ popping[OnCpu] # NoObj

\* first_waiting_for: the reader that began to wait first.
FirstReader(q, t) == IsEarliest(sched, WaitingFor(sched, q), t)

\* A reader is woken only by the first item; or none is.
Push_slip(q) ==
  /\ Does("push") /\ ~Retrying /\ q \notin closed /\ items[q] < MaxItems
  /\ items' = [items EXCEPT ![q] = @ + 1]
  /\ sched' = IF items[q] = 0
              THEN ReadersWoken(sched, q, {t \in Tasks : FirstReader(q, t)})
              ELSE sched
  /\ UNCHANGED <<stack, closed, popping>>

Push_silent_slip(q) ==
  /\ Does("push") /\ ~Retrying /\ q \notin closed /\ items[q] < MaxItems
  /\ items' = [items EXCEPT ![q] = @ + 1]
  /\ UNCHANGED <<sched, stack, closed, popping>>

\* Queue#push and task_queue_push: one reader is woken, if one waits.
Push(q) ==
  /\ Does("push")
  /\ ~Retrying
  /\ q \notin closed
  /\ items[q] < MaxItems
  /\ items' = [items EXCEPT ![q] = @ + 1]
  /\ sched' = ReadersWoken(sched, q, {t \in Tasks : FirstReader(q, t)})
  /\ UNCHANGED <<stack, closed, popping>>

\* __pop_try with an item there, from anywhere (task_queue_try_pop too).
PopTake(q) ==
  /\ Does("pop")
  /\ ~Retrying
  /\ items[q] > 0
  /\ items' = [items EXCEPT ![q] = @ - 1]
  /\ UNCHANGED <<sched, stack, closed, popping>>

\* __pop_try with nothing there and nothing to come yet: the task is parked.
Blocked(me, q, by) ==
  LET waits == Requeued(sched, {me},
                 [sched.task EXCEPT ![me].status = "WAITING", ![me].reason = "QUEUE",
                                    ![me].queue = q, ![me].wakeup_tick = by,
                                    ![me].by = by])
  IN Park(IF by = Never THEN waits ELSE NoteWakeup(waits, by))

\* Queue#pop, with a timeout (by) or without one (Never).
PopBlock(q, by) ==
  LET me == CurrentTask
  IN /\ Does("pop")
     /\ ~Retrying
     /\ items[q] = 0
     /\ q \notin closed
     /\ by > 0
     /\ me # NoObj
     /\ ~Top.native
     /\ sched' = Blocked(me, q, by)
     /\ popping' = [popping EXCEPT ![me] = q]
     /\ UNCHANGED <<stack, items, closed>>

\* The loop asks again: an item, or the end of the wait (closed, or timed
\* out), or another wait behind those already there.
PopRetry ==
  LET me == OnCpu
      q == popping[me]
      over == q \in closed \/ sched.task[me].by = 0
      returns == /\ popping' = [popping EXCEPT ![me] = NoObj]
                 /\ sched' = [sched EXCEPT !.task[me].by = Never]
  IN /\ Executes
     /\ Retrying
     /\ UNCHANGED <<stack, closed>>
     /\ \/ items[q] > 0 /\ returns /\ items' = [items EXCEPT ![q] = @ - 1]
        \/ items[q] = 0 /\ over /\ returns /\ UNCHANGED items
        \/ /\ items[q] = 0 /\ ~over
           /\ sched' = Blocked(me, q, sched.task[me].by)
           /\ UNCHANGED <<items, popping>>

\* One reader is woken, as by a push.
CloseQueue_slip(q) ==
  /\ Does("close queue") /\ ~Retrying /\ q \notin closed
  /\ closed' = closed \cup {q}
  /\ sched' = ReadersWoken(sched, q, {t \in Tasks : FirstReader(q, t)})
  /\ UNCHANGED <<stack, items, popping>>

\* Queue#close: every reader is woken.
CloseQueue(q) ==
  /\ Does("close queue")
  /\ ~Retrying
  /\ q \notin closed
  /\ closed' = closed \cup {q}
  /\ sched' = ReadersWoken(sched, q, WaitingFor(sched, q))
  /\ UNCHANGED <<stack, items, popping>>

\* Queue#clear.
Clear(q) ==
  /\ Does("clear")
  /\ ~Retrying
  /\ items[q] > 0
  /\ items' = [items EXCEPT ![q] = 0]
  /\ UNCHANGED <<sched, stack, closed, popping>>

QueueStep ==
  \/ PopRetry
  \/ \E q \in Queues :
       \/ Push(q) \/ PopTake(q) \/ CloseQueue(q) \/ Clear(q)
       \/ \E by \in Ticks : PopBlock(q, by)

Next ==
  \/ QueueStep
  \/ MachineStep /\ UNCHANGED qvars
  \/ CallStep /\ ~Retrying /\ UNCHANGED qvars

Spec == Init /\ [][Next]_vars

---------------------------------------------------------------------------
(* Properties *)

Readers(q) == {t \in Tasks : sched.task[t].status = "WAITING"
                              /\ sched.task[t].reason = "QUEUE"
                              /\ sched.task[t].queue = q}

\* Readers a push, a close or a timeout woke that have not asked again yet.
WokenReaders(q) == {t \in Tasks : popping[t] = q
                                   /\ sched.task[t].status \in {"READY", "RUNNING"}}

\* No wake-up is lost: while a reader waits, its queue is open, and every item
\* there is owed to a reader that was woken and has yet to ask
\* (wake_queue_waiters, Queue#close, __pop_try).
NoLostWakeup ==
  \A q \in Queues :
    Readers(q) # {} => q \notin closed /\ items[q] <= Cardinality(WokenReaders(q))

\* A pop with a timeout never outlives it: time does not pass its deadline by
\* while the task stays parked (wake_sleepers).
NoWaitOutlivesItsTimeout ==
  [][\A t \in Tasks :
       /\ sched.task[t].status = "WAITING" /\ sched.task[t].reason = "QUEUE"
       /\ sched'.task[t].wakeup_tick = 0
       => sched'.task[t].status # "WAITING"]_vars

---------------------------------------------------------------------------
(* Liveness under Task.run *)

\* A slice starts with a whole tick before it, far more than the next
\* __pop_try takes: a task that keeps getting the CPU does ask again.
FairSpec ==
  Spec /\ SchedFairness /\ \A t \in Tasks : SF_vars(OnCpu = t /\ PopRetry)

\* What is in a queue reaches a reader: a task does not wait on while items
\* are there (wake_queue_waiters, queue_pop_try).
ItemsReachReaders ==
  \A q \in Queues :
    (sched.loop_running /\ items[q] > 0 /\ Readers(q) # {})
      ~> (items[q] = 0 \/ Readers(q) = {})
===========================================================================
