# Verification of SabiRuby

TLA+ specifications of the parts of SabiRuby (a Rust implementation of the
mruby virtual machine) whose correctness depends on the order of many small
steps or on arithmetic at its limits, the TLC configurations that check them on
small instances, and TLAPS proofs of what holds for every instance. Paths below
are those of the repository (`src/vm.rs` is `src/src/vm.rs` where `PROJECT.json`
names it, since the repository lies in a directory `src/`).

    tlc -workers 2 -config SchedRun.cfg MCTaskScheduler     # one run
    tlapm TaskSchedulerProofs.tla                           # one module's proofs

## 1. The system and its parts

The VM executes RITE bytecode in one thread. What makes it hard is not
parallelism but the number of ways control changes hands: a native calls a
block back, a fiber is resumed, a task is preempted at any instruction, an
`ensure` body runs on the way out, a key's `eql?` runs in the middle of a Hash
lookup, a host steps the scheduler, the collector runs between two instructions.

| component | state | operations | talks to | what makes it hard | what makes it correct |
|---|---|---|---|---|---|
| **Task scheduler: queues** (`ext_task.rs` 60-500, `TaskState` in `vm.rs`, `TaskPlace` in `object.rs`) | four sorted queues, `sleepers` and `waiters` indexes, `seq`, `tick`, `wakeup_tick`, `indexed`, `index_from` | `requeue`, `q_delete`, `build_index`, `unindex_waiting`, `wake_sleepers`, `waiting_for`, `wake_join_waiters`, `wake_queue_waiters` | every method of Task and Task::Queue; the collector (weak dormant queue) | redundant data: each task remembers the keys it was filed under; indexes are built late and dropped | every task in exactly one queue, under the keys it remembers; index and walk agree; no deadline missed; first come first served |
| **Task scheduler: slices and drivers** (`ext_task.rs` 500-790, 1190-1437, `exec_frames` in `vm.rs`) | `running`, `switching`, `loop_running`, `tick_left`, the contexts' chain | `execute_task`, `scheduler_step`, `task_run`, `task_step`, `tick`, and the methods of Task | fibers, natives, hosts | a switch falls due anywhere, and may be taken only at some places | one owner of the CPU; no re-entry; no native abandoned; ready tasks run, sleepers wake |
| **Task::Queue** (`ext_task.rs` 1040-1190) | items, `@closed`, the readers in the waiting queue | push, `__pop_try`, close, clear, the host's push and try_pop | the scheduler | a woken reader asks again later; someone may have taken its item; timeouts | no lost wake-up; close releases everybody; a timed pop does not wait past its end |
| **Fibers and contexts** (`builtins/fiber.rs`, `Context` in `vm.rs`) | status, `prev`, pending registers | resume, yield, transfer | natives, tasks, collector | chains of resumers; two ways to be resumed (`vmexec`) | one running context; values go to who waits for them |
| **Interpreter: frames, unwinding** (`vm.rs`) | call frames, pending exits | `unwind_return`, `enter_ensure`, `handle_raise`, `exec_frames` | natives, fibers | non-local exits across natives, and ensure bodies that leave themselves | each ensure body runs; an exit reaches its target or raises; a native gets its frames back |
| **Calls and arguments** (`vm.rs` 2880-3340, 4820-4860, 5570-6110) | the registers of a call, `ci.n`, `ci.kw` | sends, `send`, `method_missing`, natives that call on, `super`, OP_ENTER, OP_KARG | every method | arguments as registers or as one Array, keywords as pairs or as one Hash, and what an earlier call left behind | the registers always read back as the call; each parameter gets what Ruby gives it |
| **Collector and heap** (`vm.rs` 3700-3950, `object.rs`) | slots, marks, roots, weak dormant queue, environments | allocate, mark, sweep, detach | everything that holds an ObjId | roots are spread over frames, registers, natives and tasks | nothing held is freed; blocks keep their variables |
| **Loading and unloading** (`vm.rs` 2400-2560) | programs, their users | load, unload, `irep_users` | collector | who still runs or names a program | nothing names an unloaded program |
| **HostStore and Data** (`host_store.rs`, `host.rs`) | a slab with a free list, lent values | insert, get, take, restore, remove, release by the collector | collector, hosts | numbers are given out again while a value is lent | a handle never reaches another's value |
| **Hash table** (`hashtable.rs`) | entry array with holes, buckets | search, store, delete, shift, rehash, scan | Ruby's `hash` and `eql?` | Ruby in the middle of a call; rebuild points | a dictionary in insertion order |
| **Integers** (`bigint.rs`, `numeric.rs`, `ext_numeric.rs`, `op_arith`) | an i64 or limbs | arithmetic, division, powers, bits, roots, digits | — | two widths and the borders between them; carries and estimated quotients | every answer exact, in the one shape its number has |
| **Sorted deque** (`sorted_deque.rs`) | a vector kept sorted | insert, remove, first, range | the scheduler's queues | fast paths at both ends | a sorted map |
| **Run limits, `Task::Overrun`** (`ext_task.rs` 250-330) | limits and counters per task | `check_limits`, `count_native`, `overrun` | slices | a task rescues the exception and goes on | a hard limit ends a run |
| **Array storage** (`object.rs`) | a window into a vector | shift, push, splice | — | the offset | a sequence |
| **Method lookup and caches** (`vm.rs`) | per-site caches, class serials | call, define, include | classes | staleness | a cache answers what a lookup would |
| **Checkpoint images** (`checkpoint/`) | a parsed image | restore | scheduler, heap | a task stopped inside its slice | the image goes on where it stopped |
| symbols, values, strings, floats, regular expressions, other gems, conversions, serde, macros, compiler, command line | data | sequential | — | data, no protocol | not modelled, see section 8 |

Interaction. The scheduler owns the tasks' contexts and hands one of them to the
interpreter (`execute_task` → `exec_frames`); the interpreter gives it back at
an instruction boundary, when the flag `switching` is set and no native frame
and no inner fiber stands in between; natives (`sleep`, `join`, `pop`, ...) set
that flag after moving the task between queues; a queue's push or close moves
other tasks. A host stands at the root: it calls `Task.run` or steps the
scheduler itself, and may own the clock. A collection may fall due at any
allocation as long as no native stands on the host's stack; it is the one place
where contexts, tasks, host values and programs end.

Each of these meetings is in the module where it matters: tasks and queues in
`TaskQueue`, tasks with natives and fibers in `TaskScheduler`, fibers with
natives and ensure bodies in `Unwinding`, contexts, tasks and programs with the
collector in `Collector`, host values with the collector and calls in
`HostValues`, a Hash with the Ruby of its keys in `HashCalls`.

## 2. Modules

| module | what it is |
|---|---|
| `TaskState` | the bookkeeping of the scheduler as operators from one scheduler state to the next. A handler that calls several functions in a row is one composition of them, hence one action |
| `TaskScheduler` (extends `TaskState`) | variables `sched` and `stack`, one action per method, host entry point or interpreter step; properties |
| `TaskQueue` (extends `TaskScheduler`) | Task::Queue composed with the scheduler: `items`, `closed`, `popping` |
| `TaskStateProofs`, `TaskSchedulerProofs` | lemmas about the operators of `TaskState`; one lemma per action of `TaskScheduler`, and the theorems about queues, indexes and deadlines |
| `TaskStackProofs` | what a step may do to the contexts on the host stack and to the tasks meanwhile: the theorems about natives, waking, and who stands where |
| `TaskQueueProofs` | what a task in the loop of `Queue#pop` may rely on, and that its wake-up is not lost |
| `HandleMap` | abstract: what a `HostStore` promises, a map from handles to values |
| `HostStore`, `HostValues` | the slab, one operator per method; the slab with those who hold its handles: objects, calls in progress, the collector, the host |
| `HostValuesProofs` | the invariants of both, and that they implement `HandleMap` |
| `Unwinding` | frames, handlers, run loops and fibers: what each instruction does to frames |
| `UnwindingProofs` | the chain of resumers, the run loops along it, one lemma per action of `Unwinding`, and the theorems |
| `Collector` | the heap, its mark and sweep, and the program that runs between collections |
| `CollectorProofs` | the invariant of `Collector`, one lemma per action, and the theorems |
| `OrderedDict` | abstract: what a Hash promises while its keys' Ruby runs |
| `HashTable`, `HashCalls` (extends `HashTable`) | the entry array and the index, one operator per step; the calls, taken apart at every question to Ruby |
| `Arguments` | one call from its call site to the parameters of what it enters, redispatched on the way |
| `ArgumentsProofs` | how calls are laid out and read back, OP_ENTER against Ruby's rule, one lemma per action of `Arguments`, and the theorems |
| `BigInt`, `Numbers` (extends `BigInt`) | integers limb by limb; the two widths and the methods that choose between them |
| `MC...` | model values, small sets and symmetry for TLC, one module per component |

`PROJECT.json` `map` gives the source lines of every definition. Definitions
whose name ends in `_slip` are not part of the model: each is its neighbour with
one plausible mistake in it, and shows that a property would notice.


### How the state corresponds to the code

**Scheduler.** `sched` is `TaskState` together with the `TaskData` of every task;
field names are the code's. Two changes of coordinates keep it finite:

* **arrival.** A queue key ends in a sequence number (`TaskState::seq`) that
  only grows. Only its order is ever read, so `sched.arrived` keeps the order as
  a relation: `<<t, u>>` where `t` has the lower number. Every move puts a task
  behind all others (`MovedBack`).
* **time.** Ticks are compared with the present one only, so a deadline is kept
  as the ticks left until it, 0 for one that has come; `Elapsed` moves all of
  them at once, and `Never` stands for `u32::MAX`. Wrapping of the 32-bit clock
  is therefore not in these modules (section 7).

A queue is a set of pairs (priority, task); its head is the entry with the least
priority number and the earliest arrival (`IsFirst`). The indexes are sets of
pairs as well. A task's `place` is its `TaskPlace`. An execution context is
reduced to whether it exists and whether it has frames left (`ctx`).

`stack` is the chain from the root context to the running one, as `Vm::cur` and
`Context::prev` give it, with what the guards ask of it: which task a context
belongs to, whether a native frame of it is on the host stack
(`fiber_check_native`), whether a `Task.run` of it is, and whether a nested run
loop serves it (`vmexec`). Everything the code decides with
`current_task` is decided with `CurrentTask`, which is `NoObj` inside a fiber, as
the code's `None` is.

**Host values.** In `HostStore` a handle is an index from 1 (the code's from 0),
`slots`, `free` and `live` are the code's, and `remove` is written for a list of
handles because a collection removes several. Values *move*: Rust lets a value
be in one place only, so an inserted value comes from the host's hands
(`InHand`), and `lent` is what `take` answered and its caller still holds.
`careful` remembers whether the host has obeyed the doc of `HostStore` ("keep
them only in Ruby objects") so far, that is, has removed or taken no handle of a
live object; the properties about objects hold until it does, those about the
slab and the calls hold all the same.

**Frames.** In `Unwinding` each context has the state the code gives it
(`status`, `prev`, `vmexec`, `pending`) and a list of frames. A frame is what
unwinding asks of it: how it was called (`cci`) and the rescue and ensure regions
and handler bodies its program counter is in. `host` is the list of run loops on
the host's stack, with the frame each stops at; `flight` is what `exec_frames`
carries between two turns of its loop (a raise, a break or return on its way, a
jump through ensure bodies, what a native answered). Frames carry an id, which
stands for a register window that nothing else occupies.

**Heap.** In `Collector` an object's slot is its number and a context's stack and
frames are the code's, register by register. Objects are of five kinds, one for
each way of holding references. `natives` is what natives on the host's stack
hold in Rust locals, which no collection can see; the code collects only when
there is none (`gc_maybe`), and the module has it so.

**Hash.** In `HashTable` a table is its entries with their positions (the entry
array keeps a hole for each deleted one, so positions ascend with gaps), the
counters `used` and `capa`, and the index: a list of buckets that are empty,
deleted or name a position, or none while the table is small. `epoch` counts
clearings, and stands for the pointer comparison of the code. Keys are natives,
compared without Ruby, or objects that answer by a *face* which may change. `call`
is the call in progress with its program counter; its `asks` says which of
`hash` and `eql?` Ruby is answering.

**Arguments.** `regs` are the registers from R0 of the call on. They start as
`Stale` at every call, since a call finds there what an earlier one left, and
reading a register nobody wrote becomes visible. `ci.n` and `ci.kw` are what the
frame says of them. `sent` is not in the code: it is what the program means the
call to carry, kept in step with what each redispatch is supposed to do.

**Integers.** A BigInt is a sign and a list of limbs, least first, as in the
code, over limbs of `LIMB_BITS` bits instead of 32 (an i64 has twice as many, as
there). The algorithms are those of the code, limb by limb, with their carries
and borrows as Rust's truncating shifts take them. A value of `Numbers` is an i64
(`big = FALSE`) or a BigInt. An i64 whose arithmetic the code does not check
wraps (`Wrapped`), as it does in a build without overflow checks.

### How actions correspond to code

**Scheduler.** Methods: `New`, `Pass`, `RootPass`, `Sleep`, `SleepOutside`,
`SleepForever`, `Join`, `Suspend`, `Resume`, `Terminate`, `TerminateSelf`,
`Close`, `SetPriority`. Early returns (a task already over, an unknown one) change
nothing and are not actions; a raise at a native boundary changes nothing either,
so the boundary is a guard. Host: `HostStep` (`task_step`), `HostAdvance`
(`task_advance_ticks`), `HostIndexFrom` (`task_set_index_from`). Drivers:
`RunBegin`, `RunTurn`, `RunIdle`, `RunEnd` are `task_run` and its loop.
Interpreter: `Tick` is an instruction boundary at which the instruction tick
falls due *and* the switch taken there if there is one; `Switch` any other
boundary with a switch due; `Finish` the end of a task's block; `EnterNative`,
`LeaveNative`, `EnterFiber`, `LeaveFiber` move the stack. `execute_task` is in
two halves, since the task runs between them: `Entered` and `Left`; what it does
after the task gave the CPU back is always taken together with the step that
left. Two branches of the code appear nowhere because no state reaches them: a
dormant head of the ready queue (`scheduler_step`, line 619) and a dead context
at the start of a slice (`execute_task`, line 506); `StatusNamesQueue` is the
property that says so.

In `TaskQueue` the part of the gem written in Ruby (a loop around `__pop_try`
with two sentinels) is `PopRetry`, modelled from how `__pop_try` is used: a task
that was parked by it does nothing but ask again when it next runs. Items are
counted, as no rule looks at their values. `Calls` says which calls a program and
a host make; a run that leaves a call out asks its question of programs without
it.

**Host values.** `IntoHandle` is `RubyClass::into_handle`; `TakeOut` and
`GiveBack` are what `#[ruby_methods]` writes around a method that is given the
VM, and between the two anything may happen, other methods and collections
included; a value `take` answered that never comes back is `Keep`. `Collect` is
what `gc_collect` does with the `Data` objects a sweep freed, in one step as
nothing runs in between. Which objects die is a nondeterministic choice among
those that are no receiver of a call in progress (they are roots); which numbers
their handles get on the free list depends on the heap's order, which is any.
`Host...` are a host's own uses of the store.

**Frames.** `Send`, `CallFromNative`, `Enter`, `Leave`, `Jmpuw`, `Raiseif`,
`Rescued`, `Raise`, `Return` (also a break, for the frame it names) are what
instructions do to frames; `Unwind` is one turn of `unwind_return`, which stops at
each ensure body on the way and at a frame a native waits for; `RaiseOn` one
turn of `handle_raise`; `NativeReturns`, `NativePropagates` and `NativeBreaks` what
a native does with the answer of its loop. `Resume`, `ResumeFromNative`, `Yield`
and `Transfer` are the fiber methods. The value a context awaits in a register is
the id of the frame in `pending`.

**Collector.** `GcMaybe` is a whole collection: roots, marking, tasks of the weak
queue, contexts nothing reaches (their environments take their values first),
sweep. All other actions are the program's, each with the frames, registers and
roots it writes. A collection may happen at any instruction: *when* it falls due
(allocation counters, `GC.disable`) is left out. `Unload` is both looks of `unload`
with the collection between them. `Spawn` is a host's `task_spawn`, the one way to
a task whose block has no environment; `TaskGet` is `Task.get` and `Task.list`. A
task that is switched out and one that calls `Fiber.yield` are one action
(`TaskLeaves`), as both leave a suspended context to the scheduler.

**Hash.** A call begins (`BeginSearch`, `BeginRehash`, `BeginScan`, `Shift`,
`Clear`) and takes one step per entry or bucket it looks at (`Walk`, `Probe`,
`Index`, `Take`, `Merge`, `Dups`, `Scan`) up to each question to Ruby. While Ruby
answers, it may store, delete and clear in the same Hash and change what a key
answers (`NestedSet`, `NestedDelete`, `NestedClear`, `Mutate`); then `AnswerHash` and
`AnswerEql` make the checks the code makes at that place (`Check`), or the
question ends in an exception (`Raises`).

**Arguments.** `Site` is a SEND, a SENDB or a BLKCALL with all the layouts a
compiler emits; `Redirect` is `send` from bytecode, `Missing` a Ruby
`method_missing`, `InFrame` and `Nested` natives that call on, `Zsuper` a `super`
without arguments. `PushMethod` and `CallProc` enter a method and a block;
`EnterFast` and `EnterSlow` are the two halves of OP_ENTER; `Karg` and `Keyend` the
keyword instructions.

**Integers.** Each operation is one action that computes the answer of a method
from the present operands and may make it the next operand, so that answers of
one operation meet the next. Raises are answers.

## 3. Properties

*Placement* — `Placed`: every queue and index holds exactly the entries the tasks
remember. `StatusNamesQueue`: a queued task is in the queue its status names,
under its own priority. `IndexFindsWhatAWalkFinds`: whether the waiting queue is
walked or the index asked, the same tasks are due, the same wait for an object,
and the host is told the same of what is left.

*Time* — `NoDeadlineMissed`: the scheduler's next look at the sleepers is never
later than a deadline. `NobodyWakesEarly`, and `WokenInOrder`: those due together wake in
the order they began to wait.

*CPU and stack* — `NoReentry`: no task is entered while it is already on the
stack. `StackIsAlive`: a context on the stack keeps its frames.
`NativesAreNotAbandoned`: a switch never leaves a native's frame behind.

*Waiting for something* — `JoinsHaveAnEnd`: nobody waits for a task that is over.
`NoLostWakeup`: no reader is parked at a queue that has something for it.
`NoWaitOutlivesItsTimeout`.

*Liveness* — `ReadyTasksRun`, `SleepersWake`, `ItemsReachReaders`.

*Handles* — `StoreIsExact` (the free list names each unused number once; the
count), `ObjectsReachTheirOwn` (no object ever reaches a value it was not made
for), `LoansComeHome` (a call finds the place its receiver came from),
`ValuesDieWithTheirObject`, `ImplementsHandleMap` (refinement).

*Hash* — `EntriesAreSound`: positions ascend, what is counted is there, and entries
fit their capacity between calls. `IndexIsExact`: a probe always ends, a bucket
names an entry that exists, and, while no key changed its answer behind the
Hash's back, every entry is found from its hash code. `ImplementsDict`
(refinement): whatever Ruby does in the middle of a call, each step of the table
is a step of an ordered dictionary, which has no index and no holes.

*Frames* — `ContextsAgree`: one context runs, the chain of resumers leads to the
root, and every run loop has its frames. `BreaksKeepTheirTarget`: a break or return
under way, or put off by an ensure body, has the frame it was made for where it
looks for it.
`NativesGetTheirFramesBack`: a native that gets an answer finds the frames it had
when it called. `EnsuresRun`: no frame goes away, or jumps, inside a region whose
ensure body has not begun.
`DeliversWhereItIsAwaited`: a value that crosses contexts is written for the
frame that awaits it.

*Memory* — `NothingHeldIsFree`: what a register, an object, a native, a context or
the scheduler names is in a live slot. `ContextsAreThere`: an environment in a
register has its frame, and a context lasts as long as what uses it.
`TasksAreListed`: a live task is in a queue, and the weak queue names no dead one.
`UnloadedIsUnused`: no frame and no Proc names a program that was unloaded.
`EnvsKeepTheirValues`: what a block sees of its variable does not change when the
variable moves from its register to the environment.

*Arguments* — `FrameCarriesTheCall`: between any two redispatches the registers
read back as the call (arguments, keywords, block). `BindsAsDeclared`: after
OP_ENTER each parameter has what Ruby's rules give it, and the call was refused
exactly when the count is wrong. `KeywordsReachTheirNames`.

*Integers* — `ArithmeticIsExact`: +, -, *, comparison, powers, roots, gcd and lcm,
and the way to a string and back, give the number they should, in the one shape it has (an i64 if it
fits). `DivisionIsExact`: the same of the four divisions, each with its rounding,
and of powers modulo a number. `BitsAreTwosComplement`: &, |, ^, ~ and shifts
agree, bit by bit, with integers written in infinitely many bits.

Four definitions are stated beside these and are in no run, because there are
programs for which they do not hold: `WaitingTasksDoNotRun`,
`FibersAreNotCutShort`, `NextWakeupIsADeadline` and `EntryListIsWhole`; section 5
has their stories.

## 4. Runs that pass, and their bounds

| run | instance | states | question |
|---|---|---|---|
| `SchedRun` | 3 tasks, sleeps up to 2 ticks, index on from 2 waiting tasks, `Task.run`, fair | 13,184 | do queues, indexes and deadlines stay right as tasks sleep, join and are terminated; does everyone go on |
| `SchedHost` | 3 tasks, 2 priorities, `index_from` 0 and 2, the host owns the clock and steps | 170,031 | the same under a host that turns indexes on and off, with tasks suspended, closed and re-prioritised |
| `SchedStack` | 2 tasks, slices of 2 ticks, 4 contexts deep, natives and both kinds of fibers | 76,468 | who owns the CPU, and what a switch leaves behind |
| `QueueWakeups` | 3 tasks, one queue, 2 items, pops with and without a timeout, fair | 20,667 | are wake-ups lost between a push and the pop that follows it; do items arrive |
| `StoreHandles` | 4 values, 3 objects, 3 slots, 2 nested calls | 32,231 | do objects reach their own values, is a call's receiver safe from host and collector, is the slab the map it promises to be |
| `HashRun` | 2 native and 2 object keys, 2 faces, an index from 4 entries on, 2 things Ruby does per call | 1,015,733 | is the table a dictionary whatever a key's Ruby does |
| `FrameRun` | root and 2 fibers, 5 frames and regions in all | 3,062,361 | do exits, ensure bodies, natives and fibers keep in step |
| `GcRun` | 4 objects, 2 contexts of 3 registers, one native holding one value | 2,659,556 | can a collection take something that is held |
| `ArgsRun` | 0 to 4 arguments with 3 as "one Array", 2 keywords, 2 redispatches | 521,475 | do calls arrive as they were sent |
| `NumbersRun` | limbs of 3 bits, i64 of 6, 22 starting operands of up to 4 limbs | 3,822 | is every answer exact |

*Scheduler.* Three tasks are what the data needs: two that compete for a place in
an order and one that acts on them; with two waiting tasks an index is built from
tasks that already wait (`index_from` 2), and emptied again. Two ticks of wait
give a deadline that is due, one that is next and one that is later. Two
priorities suffice to overtake. `TIMESLICE` 1 makes every tick a preemption;
`SchedStack` uses 2, so that a slice is also cut in the middle and counted down
under a native. `MaxDepth` 4 holds root, task, fiber and a context above it. One
queue is enough for `TaskQueue`: two queues share nothing but the scheduler.
`MaxItems` 2 lets a second item arrive before the first reader asks. Its readers
are of one priority: of two, the higher may be served for ever, and the
scheduler promises nothing else.

*Host values.* Three objects allow a number to be freed, reused by a second object
and freed again while a third is in a call; the fourth value is one the host can
try to put where another belongs.

*Hash.* `ArMax` 3 (the code has 16) is the size a table may have without index, so the
fourth entry builds one; the first index has 8 buckets, so probes collide and wrap, and codes are
chosen to collide. What is not reached is an index that doubles its buckets
(`HtGrows`, from 6 entries in 8 buckets on); one full of deleted buckets is
rebuilt, and one that shrinks is given up. Two actions of Ruby per call are the shortest way to delete an
entry and put another in its place behind a search. A program stores below
`MaxSize` entries; only Ruby inside a call goes one beyond it.

*Frames.* `MaxSize` counts frames and the regions and handlers they are in, over
all contexts: five hold a native's loop, its block, an ensure region in each and
the body in which the exit is put off. Two fibers suffice for a chain that a
transfer can break.

*Memory.* Four slots hold a task or a fiber, a block, its environment and one more
object, and a freed slot is taken by the next object of any kind, which is what a
stale reference would notice. A task a host spawned has a block without an
environment, so that one block more, the environment of a frame of that task, fits
beside it. One context besides the root is enough for a switch there and
back; a context is made once and never given to another Fiber or Task. A
collection that empties a context while a block made in it survives needs a fifth
object: with 5 objects and 2 registers the model has 8.0 million states and passes
too, but takes longer than these runs are meant to. `EnvsKeepThem` and
`ContextsStay` (section 6) have no such bound.

*Arguments.* `CALL_MAXARGS` is 15 in the code and 3 here; calls below, at and
above it are there, and lists of parameters of all kinds: required, optional,
rest, required behind it, keywords, a keyword rest, `&nil`. Two
redispatches give every pair of them.

*Integers.* An algorithm on limbs has its cases at limbs that are 0, 1, half the
base and full; with 8 values to a limb these are all met, and so is the
correction of an estimated quotient, which random tests at 32 bits hardly ever
meet. The starting operands are the numbers around 0, the limits of a limb, of
an i64 and of 2 to 4 limbs; every operation meets every pair of them and of the answers of one operation.

`QueueWakeups` has no deadlock, though a task there may wait for ever: some task
or the host always has a step to take. `HashRun`, `GcRun` and `NumbersRun` do not
look for deadlock: a model of a passive data structure or of a bounded heap
stops where its bound is. In all other passing runs some step is always
possible, which also shows that `Task.run` comes back (`RunEnd`) when all tasks
wait for one another.

Symmetry is used only in runs without liveness properties.

### Fairness

The interpreter executes one instruction after the other (`Tick`, `Switch`), and
`task_run` is a loop (one of `RunTurn`, `RunIdle`, `RunEnd`): weak fairness of
`MachineStep`, which is all of them, since where one of them can be taken nothing
but a step of the program, which is itself an instruction, comes between.
`SchedFairness` writes this weak fairness out, with `MachineMoves` for the ENABLED
of its definition (a step that leaves the state as it is does not count, hence
the comparison of `Ticked(sched)` with `sched`): TLC evaluates it many times
faster than the ENABLED of these actions, and finds the two equal in every state
of `SchedRun`, `SchedHost` and `SchedStack`. A native or fiber that was entered is left again
(`LeaveNative` or `LeaveFiber`): this is an assumption about programs, without
which a task computes for ever under a native, where the code puts switches off.
`PopRetry` has strong fairness per task: a slice begins with a whole tick of
instructions (`execute_task`, line 518), far more than the next `__pop_try`
takes, so a reader that keeps getting the CPU asks. Nothing else is assumed:
tasks need not end, programs need not push.

## 5. Where the code differs from what it says

### Two runs that are violated

Each checks one statement the repository makes, and TLC's counterexample shows
what the code does instead. `PROJECT.json` `findings` has the quotations.

* `ArgsBlock`, `BlockIsWhereTheFrameSays`. `def f(x); end` called as `f(j: 1)`: the
  fast path of OP_ENTER (`vm.rs` 5939) makes the keyword Hash the argument by
  clearing `ci.kw`, but leaves `ci.n` at 0. `frame_bidx` then names the register of `x`,
  not of the block, and `block_given?` and the orphan test of `pop_frame` look
  there.
* `NumbersRoot`, `RootIsTheLargest`. `Integer.sqrt(2**63 - 1)` begins with the guess
  `(n + 1) / 2`, whose sum leaves an i64 (`ext_numeric.rs` 220): a negative answer, or a panic
  in a build with overflow checks. `BigInt`'s own `isqrt_u64` divides first and
  is right.

### Stories the passing runs keep clear of

They can be had from TLC by adding a call to a run's `Calls`, or as said, and
checking the definition named.

| definition | with | story |
|---|---|---|
| `SleepersWake` | 2 tasks, `pass` in `SchedRun` | one task sleeps, another passes again and again: each slice restarts the count of instructions (`ext_task.rs` 518), so the clock stands still |
| `WaitingTasksDoNotRun` | `native` in `SchedRun` | `join` in a block called by a native is not refused (`ext_task.rs` 1324); the task is in the waiting queue and runs on |
| `NoReentry` | only `new`, `fiber`, `run`, `step` in `SchedStack` | `Task.run` in a fiber of a task under a stepping host gives the CPU to that very task (`ext_task.rs` 711; `docs/design/gems.md` 642 says that the scheduler is not re-entered from inside a task) |
| `StackIsAlive` | `fiber` in `SchedHost`, `MaxDepth` 3 | in a fiber `current_task` is `None`, so `Task#close` of the task the fiber runs in is not refused |
| `FibersAreNotCutShort` | `SchedStack` as it is | a fiber resumed by a native is left by the end of a timeslice as if it had yielded |
| `NextWakeupIsADeadline` | `SchedHost` as it is | a sleeper is suspended; `next_wakeup_ticks` still tells its deadline (`ext_task.rs` 689) |
| `EntryListIsWhole` | `RehashIsDisturbed = TRUE`, `MaxNested` 0, `MaxSize` 5 in `HashRun` | `h_rehash` empties the table (`hashtable.rs` 647) before it asks for hash codes; if one raises (656) the counter says 0 while the entries are there (`tests/mrbtest/src/hash.rb` 917: "If an error occurs during rehash, at least the entry list is not broken.") |

Three more are excluded by an assumption or a case of a property. A list of
exactly 15 parameters makes `ci.n` 15, which reads as "in one Array"
(`vm.rs` 5992), so a method of 15 positional parameters with keywords misses
them: `NotAsManyAsAnArray`. In `int_powm` the last subtraction overflows for a
negative power and a negative modulus of large magnitude (`ext_numeric.rs` 116, for
example `(-2).pow(1, -(2**63 - 1))`): the second disjunct of
`PowersModuloAreExact`. A rehash of a table without index whose `eql?` deletes an
earlier entry and stores a new key can drop the entry it was moving as its own
duplicate; `RehashIsDisturbed` FALSE leaves Ruby that changes the Hash in a rehash
out of `HashRun`.

## 6. What is proved

### The scheduler

For every set of tasks and queues, every set of priorities and of `index_from`
values, every timeslice and every bound on stack and sleep:

* `SchedTypeCorrect == SchedSpec => []SchedTypeOK`. The well-formedness of the
  state and stack. It is inductive as it stands, but not trivially: the timeslice
  must not be counted below 0, ages must stay among `Ticks`, and every step that
  removes a context must leave the root.
* `PlacedAlways == SchedSpec => []Placed`. Queues, indexes and places agree.
* `IndexesAreExact == SchedSpec => []IndexFindsWhatAWalkFinds`.
* `DeadlinesAreNeverMissed == SchedSpec => []NoDeadlineMissed`.
* `JoinsAlwaysHaveAnEnd == SchedSpec => []JoinsHaveAnEnd`.
* `NativesStay == SchedSpec => NativesAreNotAbandoned`.
* `SleepersWakeOnTime == SchedSpec => NobodyWakesEarly`.
* `WakingKeepsTheOrder == SchedSpec => WokenInOrder`.
* under `Apart`: `TasksStandOnce` (`[]NoReentry`) and `QueuesFollowStatus`
  (`[]StatusNamesQueue`); under `NoFibers`: `NothingOnTheStackIsDead`
  (`[]StackIsAlive`).

Assumptions: `ConstantsAssumption` (tasks, queues and `NoObj` are distinct, tasks
are finite in number, a slice has at least one tick) and `SchedulerAssumption`;
TLC evaluates both in every run.

The argument. `Placed` alone is not inductive. The first task to enter the
indexes when they are turned on is filed where nothing is, because while they are
off they are empty; and a wake-up files tasks by what their *fields* say
(`status`, `wakeup_tick`, `queue`), so these must be of the right kind. The
invariant is therefore `PlacedInv`: the type invariant, `Placed`, and that both
indexes are empty while `indexed` is off (`Consistent`). `TaskStateProofs` shows
for each operator of `TaskState` that it takes well-formed, consistent states to
such states (`TakenOut`, `Indexed`, `BuildIndex`, `UnindexWaiting`, `Requeued`,
`Elapsed`, `WakeSleepers`, `StopTask`, ...). `Elapsed` is the delicate one: it
rewrites deadlines in the index and in the places by the same function, and two
deadlines may fall together at 0. `TaskSchedulerProofs` has one lemma per action
on top of these, and the theorems follow by PTL.

The theorems about waiting tasks rest on `Sound`, which has three parts.
`Orderly`: besides `Consistent`, the key a task has in an index is what its fields
say (`Keyed`), and its queue is the one of its status, under its own priority if
that is the ready queue; what waits is queued (`Filed`). `Timely`: the scheduler's
`wakeup_tick` is at most the deadline of every task that waits with one. It need
not be the least of them (`NextWakeupIsADeadline` fails): a look that comes too
early finds nobody and looks up the next. `Joined`: the target of a join has not
ended, or was closed. With `Orderly` a look at an index is a walk over the waiting queue
(`WalkFindsTheSame`): who waits has an entry there, and its key is its fields.

Waking early and waking in order are properties of steps. For them `WakeInv` adds
to `Sound` what holds between two instructions: a task without a context is not
alive (`Unmade`), a task that has just gone to sleep is still on the CPU, about to
be switched away (`Parked`), and the run loop that serves a task is one a switch
may leave (`Served`). Then a step either lets ticks pass, and wakes whom they make
due, or ends a task, and wakes its joiners, or moves the one task it is about
(`Accounted`); the woken keep the order in which they arrived, and no later part of
the same step turns it round.

`Shape` says what stands where: tasks just above the root and nowhere else, and the task there
is the one `running` names; `Task.run` goes on in the root only. `Ended` says that a
queued task is dormant exactly if its context has run out. `Hands` lists the
ways a step may change the stack and `running` together.
`Shape` is false in a program that calls `Task.run` inside a fiber: section 5 has
the story, and `Apart` (no such calls, or no fibers) excludes it. `Task#close` from
inside a fiber breaks `StackIsAlive` alone; that theorem has `NoFibers`. The runs
that check these properties satisfy the hypotheses: there is no `run` in
`SchedStack`, and no fiber in `SchedHost`, `SchedRun` and `QueueWakeups`.

### Task::Queue

For any number of tasks, queues and items, under `Apart` and `NoStops`:

* `WakeupsAreNeverLost == Spec => []NoLostWakeup`.
* `ReadersKeepTheirTime == Spec => NoWaitOutlivesItsTimeout`.

`NoStops` says that nobody calls `Task#suspend`, `#terminate` or `#close`. A reader
a push has woken and that is stopped before it asks again takes the wake-up with
it (`ext_task.rs` 1285): the next reader sleeps beside the item until
another push. The theorem would be false without it, and it is a limit of the
code that its users should know.

The argument. `NoLostWakeup` counts: while a reader waits, its queue is open and has no
more items than there are readers that were woken and have yet to ask. To keep
the count, a woken reader must stay woken until it asks. `LoopInv` has what is
needed for that: arrivals order what is queued, so that a push finds a first reader
(`Ordered`); whoever waits for a queue is in the loop of `pop` on that queue, and its
time is not over (`Asking`); it leaves the CPU before anything else happens
(`ReadersLeave`); and no native of a task waits for a block while the task is in such a loop
(`Still`). The steps of the scheduler are dealt with at once
(`SchedulerKeepsLoops`): each goes `Gently`, that is, nobody begins to wait for a
queue by it, nobody but the task on the CPU loses its turn, and arrivals
stay an order. The steps of the queues are the others: a push adds an item and,
if anybody waits, turns one reader into a woken one; a woken reader that asks
takes an item, or finds none and waits again, or leaves because its time is
over; a close wakes everybody. That sets of readers grow and shrink by
one is where cardinalities come in. `NoWaitOutlivesItsTimeout` is `Asking` read over a step: in the
state after it, whoever waits has time left.

### The host's values

For any number of values, slots and nested calls and any finite set of objects:

* `StoreStaysExact == Spec => [](TypeOK /\ StoreIsExact /\ OneOwner)`.
* `LoansAlwaysComeHome == Spec => []LoansComeHome`, whatever the host does.
* `ObjectsAlwaysReachTheirOwn == Spec => []ObjectsReachTheirOwn`.
* `ValuesGoWithTheirObject == Spec => ValuesDieWithTheirObject`: the collection that
  frees an object leaves its value in no slot.
* `StoreImplementsHandleMap == Spec => ImplementsHandleMap`: each step of the slab
  is a step of the map, or changes nothing in it.

Assumptions: `StoreAssumption` (the two marks are no values) and
`ValuesAssumption` (objects are finite in number, which makes a collection's list
finite).

The argument. The invariant is `ValuesInv`: the properties above and
`ClaimsDiffer`, that while the host is careful no two objects carry one handle.
None of its parts is inductive alone. That `insert` gives a number nobody holds
needs `StoreIsExact` (what is on the free list is unused) together with
`ObjectsReachTheirOwn` (what an object carries is full or on loan, hence not on
the free list); that a collection takes nobody else's value needs `ClaimsDiffer`;
that the innermost call fills the slot it emptied and no other needs that two
calls never wait at one slot, which is part of `LoansComeHome`. First each method
of the slab is shown to keep the slab in order (`InsertKeeps`, `RemoveAllKeeps`,
`TakeKeeps`, `RestoreKeeps`); counting (`live`) is where cardinalities come in.
Then each action of `HostValues` has its lemma. For `ValuesGoWithTheirObject` one
more fact is needed of a careful host: the object a call is on stays there until
the call returns, and carries the handle the call took (`ReceiversStay`).
Otherwise a value on loan would come back to a slot whose object is gone.

### The collector

For a heap of any size, any contexts, stacks and windows, and any bounds on
natives, blocks and values held:

* `Typed == Spec => []TypeOK`, the shapes of heap, contexts and the rest.
* `NothingHeldIsEverFree == Spec => []NothingHeldIsFree`.
* `TasksStayListed == Spec => []TasksAreListed`.
* `UnloadIsSafe == Spec => []UnloadedIsUnused`.
* `EnvsKeepThem == Spec => EnvsKeepTheirValues`.
* `ContextsStay == Spec => []ContextsAreThere`.

Assumption: `SizesAssumption` (a window lies on the stack; contexts are no
objects).

The argument. A type invariant over *live* values says it all: every reference
the state holds, in whatever place, lies in `Over(heap)`, the live objects and
nil, and every frame and Proc that says `ours` belongs to a program that is
loaded (`Programs(loaded)`). A step that does not collect only adds live values,
and what it writes it takes from what is held, so it preserves the invariant by
its types alone. A collection keeps the marked set: this is closed under
everything that holds (`OfObject` and `OfContext`, with `Roots`), so
after the sweep every reference that is kept is still to something live. The
weak queue needs its own argument, as its tasks may die: they leave the queue in
the same step. Unloading is safe because after its collection it looks at every
frame and Proc that is left.

That what is held is live says nothing of contexts: an emptied one is still there,
and a frame that were resumed in it would be gone. `ContextsStay` therefore has
an invariant of its own, `There`, in five parts besides the property on environments. `OneRuns` is
the way back: exactly one context runs, a context that runs or has resumed another
was resumed by one that waits for it *alone*, and the root is on that chain. It is
needed because `Resumer` follows `prev` without asking what state it finds there.
`TaskRuns`: a context the scheduler executes is that of `running`, a queued
task, and the root resumed it. `TasksOwn`: a queued task has a context no other
task and no Fiber has, and it is not over. `FibersOwn` says the same of a Fiber,
`Unmade` that a context nothing used has neither frames nor Fiber. With these a
switch is one of two steps (`ResumedRuns`, `ResumerRuns`), whoever makes it. A collection reaches
every context on the chain, as `resumed` is a root (`ReachedContexts`), and the context of every marked Fiber and
queued task; the others it empties after detaching (`CollectContexts`). For
environments, each step either keeps a frame or detaches the environment that
frame has (`FramesKept`).

### Frames, run loops and fibers

For any fibers, and any bounds on frames, their nests and nested natives:

* `ContextsAlwaysAgree == Spec => []ContextsAgree`.
* `BreaksAlwaysHaveTheirTarget == Spec => []BreaksKeepTheirTarget`.
* `NativesAlwaysGetTheirFramesBack == Spec => NativesGetTheirFramesBack`.
* `EnsuresAlwaysRun == Spec => EnsuresRun`.
* `ValuesAreDeliveredWhereAwaited == Spec => DeliversWhereItIsAwaited`.

Assumption: `ContextsAssumption` (the root is no fiber, `None` no context, the
bounds are natural numbers).

The argument. The running context and those it was resumed from, one after the
other along `prev`, are a chain (`Chain`, the smallest set with the running context
that is closed under `prev`). The host's stack is this chain cut into run loops:
one for each frame a native started, one for each fiber a native resumed. The
invariant `IInv` says so in seven parts:

* `Lives`: a fiber has frames exactly from its first resume to its end, and the
  first is never a native's; the root's is.
* `Chained`: all of the chain but its head is `resumed`, and no context waits
  for itself. Without the second half a switch could close a ring, and the loops
  of a chain would have no order.
* `Looped`: each loop has its frame or its fiber, still stopping where the
  native left it, with the frames the native had (`LoopsMatch`); each such
  frame and fiber has a loop (`FramesMatch`); and loops stand in the order of the
  chain, those of one context in the order of its frames (`LoopsInOrder`). From the
  last it follows that the innermost loop is that of the frame or fiber that ends
  next, and therefore that the native gets back its own context
  (`NativesGetTheirFramesBack`). It is also what shows that `fiber_switch` to the
  resumer never leaves a loop behind.
* `Distinct`, `Aimed`: frames are told apart by their number; a break or return,
  under way or put off by an ensure body, has the frame it goes to at the depth
  where it looks for it, no deeper than the frame whose body it waits in, and a
  jump goes to a shorter nest.
* `Awaiting`: a context waiting for a value has its top frame as `pending`. This
  holds of the contexts that yielded or transferred away, of those on the chain
  that resumed a fiber without a native, and of the root when a transfer has left
  it out of the chain; not of all, since a raise leaves `pending` behind
  (section 7).

`TypeOK` of `Unwinding` follows from the invariant's `Typed`. Each action has a
lemma. Those that stay in a context differ in its top frame, which
is rewritten (`TopSet`), left (`TopGone`) or new (`FrameComes`); those that switch
move the head of the chain back to a resumer, on to a fiber, or across in a transfer
(`GoesBack`, `GoesIn`, `GoesAcross`), and for each it is shown what becomes of the loops
(`LoopsLeft`, `LoopsEnter`, `LoopsAcross`). One alternative of the code is shown
never to be taken: a break that arrives at a native passes through
the loop whose frame is on top (`NativeBreaksKeeps`), so the first branch of
`NativeBreaks`, which ends a loop whose frame is gone, never runs.

### Calls and arguments

For any `CALL_MAXARGS` from 2 on, any argument values and lists, any parameter
lists and any number of redispatches:

* `CallsAlwaysArrive == Spec => []FrameCarriesTheCall`.
* `ParametersAreAlwaysBound == Spec => []BindsAsDeclared`.
* `KeywordsAlwaysReachTheirNames == Spec => []KeywordsReachTheirNames`.

Assumptions: `ArgumentsAssumption` (an argument that is an Array holds argument
values; there are registers for every layout) and `NotAsManyAsAnArray` (no list
that takes keywords has exactly `CALL_MAXARGS` other parameters). The second is a
limit of the code and not of the proof; section 5 (`BlockIsWhereTheFrameSays`) is
about a relative of it.

The argument. The three hold together or not at all: `super` without arguments
reads the parameters, as they are now, back into a call, so that a call arrives rests
on how an earlier one was bound. The invariant `IInv` has the three and two more.

* `Carried`. `FrameCarriesTheCall` alone is not inductive: a frame that reads back as
  the call may still count its arguments in a way that OP_ENTER does not.
  `Holds` says also how many arguments the frame counts (or that they are packed)
  and that it knows whether there is a keyword Hash. Every way to lay a call out
  writes arguments, Hash and block one behind the other, and is shown to give
  `Holds` once (`PrepareHolds`, `RelayHolds`, `FramedHolds`).
* `Prologue`. In the middle of the keyword parameters, `taken` names keywords
  only that are both declared and given, and the Hash still lacks exactly these.

OP_ENTER copies runs of registers up and down; Ruby's rule (`Declared`) joins
sequences. They are compared one parameter at a time: `Param` says what the
i-th parameter gets, `DealtFacts` that the rule deals it, `FewBinds` and
`EnoughBinds` (fewer arguments than parameters, or not) that the code does. Code
and rule count differently in one place, a list of required parameters only that
is given packed arguments and an empty keyword Hash; such a call has too many
arguments either way and is refused (`CountedFacts`).

### What is only model-checked

The invariants of `HashCalls` (`IndexIsExact` says what a probe finds in an index that
`Reindexed` fills by recursion over the entries, which is a fact by induction;
`EntriesAreSound` is not proved either);
everything that is liveness (`ReadyTasksRun`, `SleepersWake`, `ItemsReachReaders`, ...:
fairness and ENABLED are beyond the prover used); the refinement of `OrderedDict`;
and the integers, since `BigInt` is recursion over limbs, about which the
prover's library has no usable induction.

## 7. Not modelled inside the modelled components

* *Scheduler*: run limits, `Task::Overrun` and `count_native`; `run_sync`,
  `reinit_context`, the checkpoint's half slice, `Task.new` from a host with
  arguments other than priority (entry points for embedding crates);
  `Task#terminate` of the running task under a native frame (the native comes
  back into another context); a host function that steps the scheduler from
  inside a task; results, items and exceptions as values; the 32-bit width of the
  clock and `sleep`'s conversion of seconds; the task `Task.current` makes for the
  root context (never scheduled), names and statistics.
* *HostStore*: `get`, `borrow` and `iter` (they change nothing), tags (stores share
  nothing), handles a host numbers by hand with `data_new`, and two objects a host
  makes for one handle.
* *Hash*: merge, equality, `except`, replacing the whole table (loops over the
  calls that are modelled), and Set's table in the second half of `hashtable.rs`.
* *Frames*: `catch`/`throw` (a break with a tag in place of a frame), a task switch inside
  a loop (`TaskScheduler` has it), the registers themselves. `pending_reg` stays
  set after a raise in a fiber that was resumed directly (`vm.rs` 78); nothing
  reads it then, and the module keeps it as the code does.
* *Collector*: when a collection is due, `GC.disable`, the contents of objects
  other than references, the Proc of a program's first frame. `Task.run` from a
  program is itself a native, so nothing is collected while it runs.
  `reset_to_root` leaves attached environments on an emptied stack
  (`docs/design/gc.md`, "Departures"); the module does not call it.
* *Arguments*: what a native does with its own arguments, `method_missing` in a
  native class, Struct and Data constructors. Keywords that a prologue has already
  taken do not go on with a `super` without arguments, and an empty keyword Hash
  counts as an argument on the fast path only: both as the code documents
  (`vm.rs` 5584-5591).
* *Integers*: Float, Rational and Complex operands, rounding, `Integer#digits`,
  conversions of `BigInt` to and from floats and bytes.

## 8. Not modelled at all

The sorted deque, Array's window and the method caches are sequential and have
one owner each; their unit tests reach their cases. Regular expressions are
a translation of the pattern's text for an external automaton. A checkpoint image is parsed and
built once, before anything runs. Symbols, values, strings, the remaining
built-in classes and gems (most of the source by lines), inspection,
conversions, serde and macros are functions on data with no state that several
steps share: a model of them would be as long as they are and say no more. The
compiler is a binding to vendored C, the command line plain I/O.
