----------------------------- MODULE Collector ------------------------------
(***************************************************************************)
(* The heap of the interpreter and its mark and sweep, src/src/object.rs   *)
(* and src/src/vm.rs, with what the program does between collections:      *)
(* frames, blocks and their environments, fibers, tasks, natives with      *)
(* values in Rust locals, and the host that loads and unloads a program.   *)
(*                                                                         *)
(* Objects are of five kinds, one for each way of holding references: an   *)
(* "obj" holds none, a "proc" its environment, an "env" one variable, in a *)
(* register while its frame stands, a "fiber" and a "task" a context, a    *)
(* task also its result.  0 is nil and every value that is not an object.  *)
(* Classes, methods and globals are roots for good and left out, and so is *)
(* the Proc of a program's first frame, which only that frame holds.       *)
(***************************************************************************)
EXTENDS Integers, Sequences, FiniteSets

CONSTANTS
  MaxObjs,     \* slots of the heap (bounds of the instance, with StackSize)
  Root,        \* the root context
  Others,      \* the contexts besides it
  StackSize,   \* registers of a context
  TopRegs,     \* registers of a program's first frame, of a method, of a block
  MethodRegs,
  BlockRegs,
  MaxPlain,    \* an "obj" is made in the first slots only
  MaxProcs,    \* and so many of a "proc" and of an "env" at once
  MaxNatives,  \* natives on the host's stack, and the values each one holds
  MaxHeld

Objs == 1..MaxObjs
Values == 0..MaxObjs
Contexts == Others \cup {Root}
Slots == 1..StackSize
NoCtx == "none"

ASSUME SizesAssumption ==
  /\ MaxObjs \in Nat /\ MaxPlain \in 0..MaxObjs /\ MaxProcs \in Nat
  /\ StackSize \in Nat /\ MaxNatives \in Nat /\ MaxHeld \in Nat
  /\ TopRegs \in 1..StackSize /\ MethodRegs \in 1..StackSize /\ BlockRegs \in 1..StackSize
  /\ Root \notin Others /\ NoCtx \notin Contexts /\ Contexts \cap Objs = {}

VARIABLES
  heap,           \* the objects, a free slot of kind "free"
  contexts,       \* their stacks and frames; the running one's are the Vm's own
  cur,            \* the running context
  natives,        \* what the natives on the host's stack hold in Rust locals
  exc,            \* the exception on its way to the handler just entered
  gc_registered,  \* what the host keeps
  dormant,        \* the weak queue of ended tasks
  owned,          \* the tasks of the other queues
  running,        \* the running task
  loaded          \* whether the host's program is still there

vars == <<heap, contexts, cur, natives, exc, gc_registered,
          dormant, owned, running, loaded>>
scheduler == <<dormant, owned, running>>

Object(kind, ref) ==
  [kind |-> kind, ref |-> ref, on |-> NoCtx, base |-> 0, ours |-> FALSE]
Free == Object("free", 0)
IsLive(k) == heap[k].kind # "free"
Live == {k \in Objs : IsLive(k)}

\* A context nothing has used yet, or one the collector emptied.
Context(status) ==
  [status |-> status, prev |-> NoCtx, vmexec |-> FALSE, fib |-> 0, proc |-> 0,
   stack |-> [s \in Slots |-> 0], ci |-> <<>>]

\* `ours`: the frame runs code of the program the host loaded.
Frame(base, regs, proc, skip, ours) ==
  [base |-> base, regs |-> regs, env |-> 0, proc |-> proc, skip |-> skip, ours |-> ours]

Init ==
  /\ heap = [k \in Objs |-> Free]
  /\ contexts = [c \in Contexts |-> Context(IF c = Root THEN "running" ELSE "none")]
  /\ cur = Root /\ natives = <<>> /\ exc = 0
  /\ gc_registered = {}
  /\ dormant = {} /\ owned = {} /\ running = 0 /\ loaded = TRUE

-----------------------------------------------------------------------------
(* Registers, frames, environments. *)

Last(s) == s[Len(s)]
Front(s) == SubSeq(s, 1, Len(s) - 1)
TopOf(c) == Last(contexts[c].ci)
Top == TopOf(cur)
Window(f) == f.base .. (f.base + f.regs - 1)
Reg(r) == contexts[cur].stack[r]

WithReg(cx, c, r, v) == [cx EXCEPT ![c].stack[r] = v]

IsAttached(o) == o.kind = "env" /\ o.on # NoCtx

\* Where an environment's variable is.
Slot(cx, c, s) == IF s \in Slots THEN cx[c].stack[s] ELSE 0
EnvGet(hp, cx, e) == IF IsAttached(hp[e]) THEN Slot(cx, hp[e].on, hp[e].base) ELSE hp[e].ref

\* The values are taken off the running context's stack, whoever's frame it was.
Detached_slip(hp, cx, envs) ==
  [k \in Objs |-> IF k \in envs /\ IsAttached(hp[k])
                  THEN [hp[k] EXCEPT !.ref = Slot(cx, cur, hp[k].base), !.on = NoCtx] ELSE hp[k]]

\* The environments of those frames take their values off the stack.
Detached(hp, cx, envs) ==
  [k \in Objs |-> IF k \in envs /\ IsAttached(hp[k])
                  THEN [hp[k] EXCEPT !.ref = EnvGet(hp, cx, k), !.on = NoCtx] ELSE hp[k]]

\* All but the first of the frames.
EnvsFrom_slip(c, i) == {contexts[c].ci[j].env : j \in (i + 1)..Len(contexts[c].ci)}

EnvsFrom(c, i) == {contexts[c].ci[j].env : j \in i..Len(contexts[c].ci)}

\* A call leaves its frame's window clean but for the first register.
Cleared(stack, base, regs, first) ==
  [s \in Slots |-> IF s = base THEN first
                   ELSE IF s \in base .. (base + regs - 1) THEN 0 ELSE stack[s]]
Push(cx, c, f, first) ==
  [cx EXCEPT ![c].stack = Cleared(@, f.base, f.regs, first), ![c].ci = Append(@, f)]
Fits(f) == f.base \in Slots /\ f.base + f.regs - 1 <= StackSize

\* Above everything a frame of the context may use: the end of its stack.
Ends(c) == {contexts[c].ci[i].base + contexts[c].ci[i].regs : i \in 1..Len(contexts[c].ci)}
StackEnd(c) == IF contexts[c].ci = <<>> THEN 1 ELSE CHOOSE e \in Ends(c) : \A d \in Ends(c) : d <= e
Truncated(stack, base) == [s \in Slots |-> IF s >= base THEN 0 ELSE stack[s]]

\* The slot an allocation takes: the lowest free one.
IsNew(k) == ~IsLive(k) /\ \A j \in 1..(k - 1) : IsLive(j)
IsRoomFor(kind) == Cardinality({k \in Objs : heap[k].kind = kind}) < MaxProcs
AreNew(e, k) == IsNew(e) /\ e < k /\ ~IsLive(k) /\ \A j \in (e + 1)..(k - 1) : IsLive(j)

-----------------------------------------------------------------------------
(* The collection. *)

\* Registers are roots up to the end of the top frame's window.
LiveEnd(c) ==
  IF contexts[c].ci = <<>> THEN StackSize ELSE TopOf(c).base + TopOf(c).regs - 1

RootContexts ==
  {cur, Root} \cup {c \in Contexts : contexts[c].status \in {"running", "resumed"} \/ contexts[c].vmexec}

\* gc_mark_roots: the dormant queue is not among them.
Roots == RootContexts \cup (({exc, running} \cup gc_registered \cup owned) \ {0})

\* A Fiber does not keep its context.
OfObject_slip(k) ==
  LET o == heap[k]
  IN  (({o.ref} \cup {EnvGet(heap, contexts, k)}) \ {0})
        \cup (IF o.kind = "task" THEN {o.on} ELSE {})

\* What a marked object marks: what it refers to, an environment the register
\* where its variable is, a Fiber and a Task their context.
OfObject(k) ==
  LET o == heap[k]
  IN  (({o.ref} \cup {EnvGet(heap, contexts, k)}) \ {0})
        \cup (IF o.kind \in {"fiber", "task"} THEN {o.on} ELSE {})

\* A marked context: its registers, its frames, its Fiber and its block.
OfContext(c) ==
  LET x == contexts[c]
  IN  ({x.stack[s] : s \in 1..LiveEnd(c)} \cup {x.fib, x.proc}
        \cup UNION {{x.ci[i].env, x.ci[i].proc} : i \in 1..Len(x.ci)}) \ {0}

Nodes == Live \cup Contexts
Marks(x) == IF x \in Contexts THEN OfContext(x) ELSE OfObject(x)

\* mark_drain and its loop: the least set that holds the roots and all that
\* its members mark.
Marked(marks, roots) ==
  {x \in Nodes : x \in roots \/ \A s \in SUBSET (Nodes \ roots) :
                    (\A y \in roots \cup s : marks[y] \subseteq roots \cup s) => x \in s}

Swept(o) == Free

\* Every ended task is dropped.
StillDormant_slip(marked) == {}

\* Ended tasks nothing reached leave their queue.
StillDormant(marked) == dormant \cap marked

\* gc_collect: after the dormant queue, the contexts nothing reached are emptied
\* (one nothing has used yet stays as it is), once the environments of their
\* frames have their values; a marked one's registers above its top frame are
\* cleared; then the sweep.
Collect ==
  \E marks \in {[x \in Nodes |-> Marks(x)]}, roots \in {Roots} :
  \E marked \in {Marked(marks, roots)} :
  LET swept == Contexts \ marked
      left == UNION {EnvsFrom(c, 1) : c \in swept}
      saved == Detached(heap, contexts, left \cap marked)
  IN  /\ heap' = [k \in Objs |-> IF k \in marked THEN saved[k] ELSE Swept(heap[k])]
      /\ contexts' = [c \in Contexts |->
                        IF c \in marked
                        THEN [contexts[c] EXCEPT !.stack = Truncated(@, LiveEnd(c) + 1)]
                        ELSE Context(IF contexts[c].status = "none" THEN "none" ELSE "terminated")]
      /\ dormant' = StillDormant(marked)

\* The natives on the host's stack are not counted.
GcMaybe_slip ==
  /\ contexts[cur].ci # <<>>
  /\ Collect
  /\ UNCHANGED <<cur, natives, exc, gc_registered, owned, running, loaded>>

\* gc_maybe and GC.start.  An allocation never collects, it makes a collection
\* due, which waits for the head of an instruction with no native on the host's
\* stack; when it is due is a matter of counts left out here.
GcMaybe ==
  /\ contexts[cur].ci # <<>> /\ natives = <<>>
  /\ Collect
  /\ UNCHANGED <<cur, natives, exc, gc_registered, owned, running, loaded>>

-----------------------------------------------------------------------------
(* Instructions of the top frame. *)

\* A native is in control, or Ruby is (in a loop that a native started).
InNative == natives # <<>> /\ ~Last(natives).loop
InRuby == contexts[cur].ci # <<>> /\ ~InNative
Executes == InRuby /\ exc = 0

\* The instruction that begins a handler takes the exception.
Except(r) ==
  /\ contexts' = WithReg(contexts, cur, r, exc) /\ exc' = 0
  /\ UNCHANGED <<heap, cur, natives, gc_registered, scheduler, loaded>>

Instruction(hp, cx) ==
  /\ heap' = hp /\ contexts' = cx
  /\ UNCHANGED <<cur, natives, exc, gc_registered, scheduler, loaded>>

New(k, r) ==
  /\ IsNew(k) /\ k <= MaxPlain
  /\ Instruction([heap EXCEPT ![k] = Object("obj", 0)], WithReg(contexts, cur, r, k))

LoadNil(r) == Instruction(heap, WithReg(contexts, cur, r, 0))
Move(r, s) == Instruction(heap, WithReg(contexts, cur, r, Reg(s)))

TaskValue(r, s) ==
  /\ Reg(s) # 0 /\ heap[Reg(s)].kind = "task"
  /\ Instruction(heap, WithReg(contexts, cur, r, heap[Reg(s)].ref))

\* A block is made: the frame gets an environment if it has none (frame_env).
MakeProc(r, e, k) ==
  /\ IsRoomFor("proc")
  /\ IF Top.env = 0 THEN IsRoomFor("env") /\ AreNew(e, k) ELSE e = Top.env /\ IsNew(k)
  /\ LET env == [Object("env", 0) EXCEPT !.on = cur, !.base = Top.base]
         made == IF Top.env = 0 THEN [heap EXCEPT ![e] = env] ELSE heap
         proc == [Object("proc", e) EXCEPT !.ours = Top.ours]
     IN  Instruction([made EXCEPT ![k] = proc],
                     [contexts EXCEPT ![cur].ci[Len(contexts[cur].ci)].env = e, ![cur].stack[r] = k])

\* A block reads and writes the variable of the frame it was made in.
RunsBlock == Top.proc # 0 /\ heap[Top.proc].ref # 0
GetUpvar(r) ==
  /\ RunsBlock
  /\ Instruction(heap, WithReg(contexts, cur, r, EnvGet(heap, contexts, heap[Top.proc].ref)))
SetUpvar(r) ==
  /\ RunsBlock
  /\ LET e == heap[Top.proc].ref
     IN  IF heap[e].on = NoCtx
         THEN Instruction([heap EXCEPT ![e].ref = Reg(r)], contexts)
         ELSE Instruction(heap, WithReg(contexts, heap[e].on, heap[e].base, Reg(r)))

\* A method is called on a receiver, the caller's second register.
Send ==
  /\ Top.regs > 1
  /\ LET f == Frame(Top.base + 1, MethodRegs, 0, FALSE, FALSE)
     IN  Fits(f) /\ Instruction(heap, Push(contexts, cur, f, Reg(f.base)))

IsProc(v) == v # 0 /\ heap[v].kind = "proc"
CallBlock(s) ==
  /\ Top.regs > 1 /\ IsProc(Reg(s))
  /\ LET f == Frame(Top.base + 1, BlockRegs, Reg(s), FALSE, heap[Reg(s)].ours)
     IN  Fits(f) /\ Instruction(heap, Push(contexts, cur, f, 0))

\* An exception: the frames above the one with a handler go.
Raise(s, n) ==
  /\ Reg(s) # 0
  /\ \A i \in (n + 1)..Len(contexts[cur].ci) : ~contexts[cur].ci[i].skip
  /\ heap' = Detached(heap, contexts, EnvsFrom(cur, n + 1))
  /\ contexts' = [contexts EXCEPT ![cur].ci = SubSeq(@, 1, n)]
  /\ exc' = Reg(s)
  /\ UNCHANGED <<cur, natives, gc_registered, scheduler, loaded>>

-----------------------------------------------------------------------------
(* Returns, fibers. *)

\* fiber_terminate, and the end of a task's context.
Ended(c) == [contexts[c] EXCEPT !.status = "terminated", !.prev = NoCtx, !.vmexec = FALSE,
                                !.stack = [s \in Slots |-> 0], !.ci = <<>>]

\* deliver: into the register the context waits on, its top frame's first.
Deliver(cx, c, v) == WithReg(cx, c, Last(cx[c].ci).base, v)

\* pop_frame: the frame's environment first.  The value goes to the caller, to
\* the native that called, to the host, to the task or to the fiber's resumer.
Popped == [contexts EXCEPT ![cur].ci = Front(@)]
IsLast == Len(contexts[cur].ci) = 1

ReturnToCaller(r) ==
  /\ ~IsLast /\ ~Top.skip
  /\ Instruction(Detached(heap, contexts, {Top.env}), WithReg(Popped, cur, Top.base, Reg(r)))

ReturnToNative(r) ==
  /\ ~IsLast /\ Top.skip /\ natives # <<>>
  /\ heap' = Detached(heap, contexts, {Top.env})
  /\ contexts' = [Popped EXCEPT ![cur].stack = Truncated(@, Top.base)]
  /\ natives' = [natives EXCEPT ![Len(natives)] =
                    [loop |-> FALSE, held |-> @.held \cup ({Reg(r)} \ {0})]]
  /\ UNCHANGED <<cur, exc, gc_registered, scheduler, loaded>>

\* The host may register what it is given.
ReturnToHost(r) ==
  /\ IsLast /\ cur = Root
  /\ heap' = Detached(heap, contexts, {Top.env})
  /\ contexts' = [Popped EXCEPT ![Root].stack = [s \in Slots |-> 0]]
  /\ gc_registered' \in {gc_registered, {Reg(r)} \ {0}}
  /\ UNCHANGED <<cur, natives, exc, scheduler, loaded>>

ReturnFromTask(r) ==
  /\ IsLast /\ contexts[cur].vmexec /\ running # 0
  /\ heap' = [Detached(heap, contexts, {Top.env}) EXCEPT ![running].ref = Reg(r)]
  /\ contexts' = [contexts EXCEPT ![cur] = Ended(cur), ![Root].status = "running"]
  /\ cur' = Root
  /\ dormant' = dormant \cup {running} /\ owned' = owned \ {running} /\ running' = 0
  /\ UNCHANGED <<natives, exc, gc_registered, loaded>>

\* fiber_terminate's way back.
Resumer(c) == IF contexts[c].prev = NoCtx THEN Root ELSE contexts[c].prev

ReturnFromFiber(r) ==
  /\ IsLast /\ cur # Root /\ ~contexts[cur].vmexec
  /\ heap' = Detached(heap, contexts, {Top.env})
  /\ cur' = Resumer(cur)
  /\ contexts' = Deliver([contexts EXCEPT ![cur] = Ended(cur), ![cur'].status = "running"],
                         cur', Reg(r))
  /\ UNCHANGED <<natives, exc, gc_registered, scheduler, loaded>>

Return(r) ==
  \/ ReturnToCaller(r) \/ ReturnToNative(r) \/ ReturnToHost(r)
  \/ ReturnFromTask(r) \/ ReturnFromFiber(r)

Created(fib, proc) == [Context("created") EXCEPT !.fib = fib, !.proc = proc]

\* fiber_init: a Fiber and its context.
FiberNew(k, r, s, c) ==
  /\ IsNew(k) /\ IsProc(Reg(s)) /\ contexts[c].status = "none"
  /\ Instruction([heap EXCEPT ![k] = [Object("fiber", 0) EXCEPT !.on = c]],
                 WithReg([contexts EXCEPT ![c] = Created(k, Reg(s))], cur, r, k))

\* fiber_check_native.
OverNative(c) == \E i \in 2..Len(contexts[c].ci) : contexts[c].ci[i].skip

\* The context's first frame, on its block.
Started(cx, c) ==
  IF cx[c].status = "created" /\ cx[c].proc # 0
  THEN Push(cx, c, Frame(1, BlockRegs, cx[c].proc, FALSE, heap[cx[c].proc].ours), 0)
  ELSE cx

\* fiber_switch, from bytecode.
Resume(s) ==
  /\ Reg(s) # 0 /\ heap[Reg(s)].kind = "fiber"
  /\ LET c == heap[Reg(s)].on
     IN  /\ contexts[c].status \in {"created", "suspended"} /\ ~OverNative(c)
         /\ contexts' = [Started(contexts, c) EXCEPT ![cur].status = "resumed",
                           ![c].status = "running", ![c].prev = cur]
         /\ cur' = c
  /\ UNCHANGED <<heap, natives, exc, gc_registered, scheduler, loaded>>

\* fiber_yield.
Yield(r) ==
  /\ cur # Root /\ contexts[cur].prev # NoCtx /\ ~contexts[cur].vmexec /\ ~OverNative(cur)
  /\ LET prev == contexts[cur].prev
     IN  /\ contexts' = Deliver([contexts EXCEPT ![cur].status = "suspended", ![cur].prev = NoCtx,
                                                 ![prev].status = "running"], prev, Reg(r))
         /\ cur' = prev
  /\ UNCHANGED <<heap, natives, exc, gc_registered, scheduler, loaded>>

-----------------------------------------------------------------------------
(* Tasks, under a host that steps the scheduler. *)

TaskNew(k, r, s, c) ==
  /\ IsNew(k) /\ IsProc(Reg(s)) /\ contexts[c].status = "none"
  /\ heap' = [heap EXCEPT ![k] = [Object("task", 0) EXCEPT !.on = c]]
  /\ contexts' = WithReg([contexts EXCEPT ![c] = Created(0, Reg(s))], cur, r, k)
  /\ owned' = owned \cup {k}
  /\ UNCHANGED <<cur, natives, exc, gc_registered, dormant, running, loaded>>

\* Task.get and Task.list: the queues name their tasks, the weak one as well.
TaskGet(r) ==
  \E t \in owned \cup dormant : Instruction(heap, WithReg(contexts, cur, r, t))

\* The host's task_spawn: a task on a Proc of the program's top level, of no environment.
Spawn(p, k, c) ==
  /\ loaded /\ IsRoomFor("proc") /\ AreNew(p, k) /\ contexts[c].status = "none"
  /\ heap' = [heap EXCEPT ![p] = [Object("proc", 0) EXCEPT !.ours = TRUE],
                          ![k] = [Object("task", 0) EXCEPT !.on = c]]
  /\ contexts' = [contexts EXCEPT ![c] = Created(0, p)]
  /\ owned' = owned \cup {k}
  /\ UNCHANGED <<cur, natives, exc, gc_registered, dormant, running, loaded>>

Idle == cur = Root /\ contexts[Root].ci = <<>> /\ natives = <<>>

\* execute_task.
TaskStep(t) ==
  /\ LET c == heap[t].on
     IN  /\ contexts' = [Started(contexts, c) EXCEPT ![Root].status = "resumed",
                           ![c].status = "running", ![c].prev = Root, ![c].vmexec = TRUE]
         /\ cur' = c
  /\ running' = t
  /\ UNCHANGED <<heap, natives, exc, gc_registered, dormant, owned, loaded>>

\* The switch of exec_frames, or the task's own Fiber.yield.
TaskLeaves ==
  /\ cur # Root /\ contexts[cur].vmexec /\ ~OverNative(cur)
  /\ contexts' = [contexts EXCEPT ![cur].status = "suspended", ![cur].prev = NoCtx,
                                  ![cur].vmexec = FALSE, ![Root].status = "running"]
  /\ cur' = Root /\ running' = 0
  /\ UNCHANGED <<heap, natives, exc, gc_registered, dormant, owned, loaded>>

\* stop_task of another task: Task#terminate.
Terminate(s) ==
  /\ Reg(s) \in owned \ {running}
  /\ LET t == Reg(s)
         c == heap[t].on
     IN  /\ heap' = Detached(heap, contexts, EnvsFrom(c, 1))
         /\ contexts' = [contexts EXCEPT ![c].status = "terminated", ![c].ci = <<>>,
                                         ![c].stack = [i \in Slots |-> 0]]
         /\ dormant' = dormant \cup {t} /\ owned' = owned \ {t}
  /\ UNCHANGED <<cur, natives, exc, gc_registered, running, loaded>>

-----------------------------------------------------------------------------
(* Natives: call_native, and what they do. *)

CallNative(s) ==
  /\ Len(natives) < MaxNatives
  /\ natives' = Append(natives, [loop |-> FALSE, held |-> {Reg(s)} \ {0}])
  /\ UNCHANGED <<heap, contexts, cur, exc, gc_registered, scheduler, loaded>>

NativeHolds(held) == natives' = [natives EXCEPT ![Len(natives)].held = held]

NativeAllocates(k) ==
  /\ IsNew(k) /\ k <= MaxPlain /\ Cardinality(Last(natives).held) < MaxHeld
  /\ heap' = [heap EXCEPT ![k] = Object("obj", 0)]
  /\ NativeHolds(Last(natives).held \cup {k})
  /\ UNCHANGED <<contexts, cur, exc, gc_registered, scheduler, loaded>>

\* funcall, call_block: a frame above the whole stack, in a loop of its own.
NativeCallsBlock(p) ==
  /\ IsProc(p)
  /\ LET f == Frame(StackEnd(cur), BlockRegs, p, TRUE, heap[p].ours)
     IN  Fits(f) /\ contexts' = Push(contexts, cur, f, 0)
  /\ natives' = [natives EXCEPT ![Len(natives)].loop = TRUE]
  /\ UNCHANGED <<heap, cur, exc, gc_registered, scheduler, loaded>>

NativeReturns(v) ==
  /\ contexts' = WithReg(contexts, cur, Top.base, v)
  /\ natives' = Front(natives)
  /\ UNCHANGED <<heap, cur, exc, gc_registered, scheduler, loaded>>

-----------------------------------------------------------------------------
(* The host. *)

\* run_irep: the program's top level, unless it was unloaded.
Run ==
  /\ loaded
  /\ contexts' = Push(contexts, Root, Frame(1, TopRegs, 0, TRUE, TRUE), 0)
  /\ UNCHANGED <<heap, cur, natives, exc, gc_registered, scheduler, loaded>>

GcUnregister(k) ==
  /\ gc_registered' = gc_registered \ {k}
  /\ UNCHANGED <<heap, contexts, cur, natives, exc, scheduler, loaded>>

\* The Procs are not asked.
Users_slip(hp, cx) == \E c \in Contexts : \E i \in 1..Len(cx[c].ci) : cx[c].ci[i].ours

\* irep_users.
Users(hp, cx) ==
  \/ \E c \in Contexts : \E i \in 1..Len(cx[c].ci) : cx[c].ci[i].ours
  \/ \E k \in Objs : hp[k].kind = "proc" /\ hp[k].ours

\* unload, by the host between calls or in a native: a collection first where
\* something is in the way and one may run.
Unload ==
  /\ Idle \/ InNative
  /\ loaded
  /\ IF Users(heap, contexts) /\ natives = <<>>
     THEN Collect /\ loaded' = Users(heap', contexts')
     ELSE loaded' = Users(heap, contexts) /\ UNCHANGED <<heap, contexts, dormant>>
  /\ UNCHANGED <<cur, natives, exc, gc_registered, owned, running>>

-----------------------------------------------------------------------------
\* What the running frame does, on the registers of its window.
Instructions ==
  /\ Executes
  /\ \/ Send \/ TaskLeaves
     \/ \E r \in Window(Top) :
          \/ LoadNil(r) \/ GetUpvar(r) \/ SetUpvar(r) \/ CallBlock(r) \/ CallNative(r)
          \/ Return(r) \/ Resume(r) \/ Yield(r) \/ Terminate(r) \/ TaskGet(r)
          \/ \E k \in Objs : New(k, r)
          \/ \E e, k \in Objs : MakeProc(r, e, k)
          \/ \E n \in 1..Len(contexts[cur].ci) : Raise(r, n)
     \/ \E r, s \in Window(Top) : Move(r, s) \/ TaskValue(r, s)
     \/ \E r, s \in Window(Top), k \in Objs, c \in Others : FiberNew(k, r, s, c) \/ TaskNew(k, r, s, c)

Handlers == InRuby /\ exc # 0 /\ \E r \in Window(Top) : Except(r)

Natives ==
  /\ InNative
  /\ \/ \E k \in Objs : NativeAllocates(k)
     \/ \E p \in Last(natives).held : NativeCallsBlock(p)
     \/ \E v \in Last(natives).held \cup {0} : NativeReturns(v)

Host ==
  \/ Unload
  \/ (Idle \/ InNative) /\ \E p, k \in Objs, c \in Others : Spawn(p, k, c)
  \/ Idle /\ \/ Run
             \/ \E t \in owned : TaskStep(t)
             \/ \E k \in gc_registered : GcUnregister(k)

Next == GcMaybe \/ Instructions \/ Handlers \/ Natives \/ Host

Spec == Init /\ [][Next]_vars

-----------------------------------------------------------------------------
(* What a collection keeps. *)

Kinds == {"free", "obj", "proc", "env", "fiber", "task"}
Statuses == {"none", "created", "running", "resumed", "suspended", "terminated"}

\* Objects, frames and contexts that refer to values of vs alone.
ObjectsOver(vs) ==
  [kind : Kinds, ref : vs, on : Contexts \cup {NoCtx}, base : 0..StackSize, ours : BOOLEAN]
FramesOver(vs) ==
  [base : Slots, regs : Slots, env : vs, proc : vs, skip : BOOLEAN, ours : BOOLEAN]
ContextsOver(vs) ==
  [status : Statuses, prev : Contexts \cup {NoCtx}, vmexec : BOOLEAN, fib : vs, proc : vs,
   stack : [Slots -> vs], ci : Seq(FramesOver(vs))]
NativesOver(vs) == [loop : BOOLEAN, held : SUBSET vs]

TypeOK ==
  /\ heap \in [Objs -> ObjectsOver(Values)]
  /\ \A k \in Objs : ~IsLive(k) => heap[k] = Free
  /\ contexts \in [Contexts -> ContextsOver(Values)]
  /\ natives \in Seq(NativesOver(Objs))
  /\ cur \in Contexts /\ exc \in Values /\ running \in Values /\ loaded \in BOOLEAN
  /\ gc_registered \subseteq Objs /\ dormant \subseteq Objs /\ owned \subseteq Objs

\* Every value anything holds.
InContext(c) ==
  {contexts[c].stack[s] : s \in Slots} \cup {contexts[c].fib, contexts[c].proc}
    \cup UNION {{contexts[c].ci[i].env, contexts[c].ci[i].proc} : i \in 1..Len(contexts[c].ci)}
Held ==
  (UNION {InContext(c) : c \in Contexts}) \cup {heap[k].ref : k \in Live} \cup {exc, running}
    \cup gc_registered \cup dormant \cup owned \cup (UNION {natives[i].held : i \in 1..Len(natives)})

\* Nothing that anything holds was freed, in a register that is not in use at
\* the moment, in a queue or in a native's locals either: what Heap::get
\* asserts at every access and the marking at every collection.
NothingHeldIsFree == Held \ {0} \subseteq Live

\* An environment reads a register of its own frame's, as long as it reads one.
AttachedEnvsHaveTheirFrames ==
  \A e \in Objs : heap[e].kind = "env" /\ heap[e].on # NoCtx =>
    \E i \in 1..Len(contexts[heap[e].on].ci) :
      contexts[heap[e].on].ci[i].env = e /\ contexts[heap[e].on].ci[i].base = heap[e].base

\* The context of a Fiber or Task that lives is its own, and not emptied while
\* it may still run.
ContextsOutliveTheirUse ==
  /\ \A k \in Objs : heap[k].kind = "fiber" => contexts[heap[k].on].fib = k
  /\ \A k \in owned : contexts[heap[k].on].status # "terminated"
  /\ contexts[cur].status = "running"
  /\ contexts[cur].vmexec => running \in owned /\ heap[running].on = cur
  /\ cur # Root => contexts[cur].prev # NoCtx /\ contexts[contexts[cur].prev].status = "resumed"

\* No context is missing under those who use it: its environments, its Fiber or
\* Task, the one that resumed it.
ContextsAreThere == AttachedEnvsHaveTheirFrames /\ ContextsOutliveTheirUse

\* A task that something can still name is in one of the queues, so Task.list
\* and Task.get find it.
TasksAreListed == \A k \in Objs : heap[k].kind = "task" => k \in owned \cup dormant

\* Nothing can run a program that was handed back.
UnloadedIsUnused == ~loaded => ~Users(heap, contexts)

\* An environment that leaves its frame keeps what the frame's register held.
EnvsKeepTheirValues ==
  [][\A e \in Objs : /\ IsAttached(heap[e])
                     /\ heap'[e].kind = "env" /\ heap'[e].on = NoCtx
                     => heap'[e].ref = contexts[heap[e].on].stack[heap[e].base]]_vars
=============================================================================
