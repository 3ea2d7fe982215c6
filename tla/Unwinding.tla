----------------------------- MODULE Unwinding ------------------------------
(***************************************************************************)
(* Frames, handlers and fibers of the interpreter, src/src/vm.rs: every    *)
(* context has its own frames, natives run Ruby in nested run loops on the *)
(* host's stack, and a raise, a break or a return takes frames away        *)
(* through all of them, stopping for the ensure bodies on its way.         *)
(*                                                                         *)
(* Values, registers and instructions are left out: an instruction is what *)
(* it does to frames.  A frame is [id, cci, nest]: `nest` is what its pc   *)
(* is in, outermost first: regions with a rescue or an ensure handler, and *)
(* bodies of such handlers, each with what goes on after it (the register  *)
(* OP_EXCEPT filled for OP_RAISEIF).  An id names a frame while it, or a   *)
(* break to it, exists; frames count from 1 here, from 0 in the code.      *)
(***************************************************************************)
EXTENDS Integers, Sequences, FiniteSets, FiniteSetsExt

CONSTANTS
  Fibers,     \* the contexts besides the root
  Root,
  MaxFrames,  \* frames alive at once (bounds of the instance)
  MaxSize,    \* frames, with the regions and handlers they are in
  MaxNest     \* regions and handlers of one frame

Contexts == Fibers \cup {Root}
None == "none"

ASSUME ContextsAssumption ==
  /\ Root \notin Fibers /\ None \notin Contexts
  /\ MaxFrames \in Nat /\ MaxSize \in Nat /\ MaxNest \in Nat

VARIABLES
  ctx,     \* each context: status, prev, vmexec, pending, its frames
  cur,     \* the running context
  host,    \* the run loops on the host's stack, innermost last
  flight   \* what is on its way through the frames

vars == <<ctx, cur, host, flight>>

Nothing == [kind |-> "nothing"]
Raising == [kind |-> "raise"]
Rescuing == [kind |-> "rescue"]
Value == [kind |-> "value"]

\* The frame is counted from 0 on one side only.
Leaving_slip(idx, id) == [kind |-> "unwind", idx |-> idx + 1, id |-> id]

Leaving(idx, id) == [kind |-> "unwind", idx |-> idx, id |-> id]

Jumping(to) == [kind |-> "jump", to |-> to]

\* The native that started a run loop has what it answered.
Native(what) == [kind |-> "native", what |-> what]

Last(s) == s[Len(s)]
Front(s) == SubSeq(s, 1, Len(s) - 1)
Pop(cx, c) == [cx EXCEPT ![c].ci = Front(@)]
Ids(ci) == [i \in 1..Len(ci) |-> ci[i].id]

NewFrame(id, cci) == [id |-> id, cci |-> cci, nest |-> <<>>]

AllFrames == UNION {{ctx[c].ci[i] : i \in 1..Len(ctx[c].ci)} : c \in Contexts}

\* The bound of the instance.
HasRoom == Cardinality(AllFrames) + MapThenSumSet(LAMBDA f : Len(f.nest), AllFrames) < MaxSize

\* The ids in use.
Used == {f.id : f \in AllFrames}
Fresh(id) ==
  /\ id \in 1..MaxFrames /\ id \notin Used /\ \A j \in 1..(id - 1) : j \in Used
  /\ HasRoom

Init ==
  /\ ctx = [c \in Contexts |->
              [status |-> IF c = Root THEN "created" ELSE None, prev |-> None,
               vmexec |-> FALSE, pending |-> 0, ci |-> <<>>]]
  /\ cur = Root /\ host = <<>> /\ flight = Nothing

-----------------------------------------------------------------------------
(* Contexts. *)

\* The status is forgotten.
SwitchTo_slip(cx, c) == ctx' = cx /\ cur' = c

\* switch_context.
SwitchTo(cx, c) == ctx' = [cx EXCEPT ![c].status = "running"] /\ cur' = c

\* A register that is still noted is kept.
Await_slip(cx, c) == [cx EXCEPT ![c].pending = IF @ = 0 THEN Last(ctx[c].ci).id ELSE @]

\* The register the running context waits for its value in is one of its top
\* frame's.
Await(cx, c) == [cx EXCEPT ![c].pending = Last(ctx[c].ci).id]

\* deliver: the value a context is switched back with is written where it is
\* waited for.
Deliver(cx, c) == [cx EXCEPT ![c].pending = 0]

\* Natives are not looked for.
OverNative_slip(c) == FALSE

\* fiber_check_native: a native's frame above the entry one.
OverNative(c) == \E i \in 2..Len(ctx[c].ci) : ctx[c].ci[i].cci = "skip"

\* The native resume is not forgotten.
Terminated_slip(cx, c) == [cx EXCEPT ![c].status = "terminated", ![c].prev = None, ![c].ci = <<>>]

\* fiber_terminate, and where the fiber returns to.
Terminated(cx, c) ==
  [cx EXCEPT ![c] = [@ EXCEPT !.status = "terminated", !.prev = None, !.vmexec = FALSE, !.ci = <<>>]]

\* Every fiber returns to the root.
Resumer_slip(c) == Root

Resumer(c) == IF ctx[c].prev = None THEN Root ELSE ctx[c].prev

-----------------------------------------------------------------------------
(* Run loops. *)

Loop == Last(host)

\* The innermost loop ends, for the native that started it.
EndLoop(what) == host' = Front(host) /\ flight' = Native(what)

\* A loop for the native running in the current context.
PushLoop(lc, stop) ==
  host' = Append(host, [lc |-> lc, stop |-> stop, home |-> cur, frames |-> Ids(ctx[cur].ci)])

\* run_irep: the host starts a program at the top level.
Run(id) ==
  /\ host = <<>> /\ flight = Nothing /\ Fresh(id)
  /\ PushLoop(cur, Len(ctx[cur].ci) + 1)
  /\ ctx' = [ctx EXCEPT ![cur].ci = Append(@, NewFrame(id, "skip"))]
  /\ UNCHANGED <<cur, flight>>

\* What the native does with its loop's answer: a value, or an error it
\* rescues, ends the SEND; an error goes on in the loop around.
NativeReturns ==
  /\ flight.kind = "native" /\ flight.what \in {Value, Raising}
  /\ flight' = Nothing
  /\ UNCHANGED <<ctx, cur, host>>
NativePropagates ==
  /\ flight.kind = "native" /\ flight.what = Raising /\ host # <<>>
  /\ flight' = Raising
  /\ UNCHANGED <<ctx, cur, host>>

\* A break that came through native code goes on, here or further out.
NativeBreaks ==
  /\ flight.kind = "native" /\ flight.what.kind = "unwind" /\ host # <<>>
  /\ IF cur = Loop.lc /\ Len(ctx[cur].ci) < Loop.stop
     THEN EndLoop(flight.what)
     ELSE flight' = flight.what /\ UNCHANGED host
  /\ UNCHANGED <<ctx, cur>>

-----------------------------------------------------------------------------
(* Instructions of the top frame of the running context. *)

Executes == host # <<>> /\ flight = Nothing
Top == Last(ctx[cur].ci)
SetTop(f) == ctx' = [ctx EXCEPT ![cur].ci[Len(ctx[cur].ci)] = f]

Send(id) ==
  /\ Executes /\ Fresh(id)
  /\ ctx' = [ctx EXCEPT ![cur].ci = Append(@, NewFrame(id, "none"))]
  /\ UNCHANGED <<cur, host, flight>>

\* A native calls a block or a method: a frame with a loop of its own.
CallFromNative(id) ==
  /\ Executes /\ Fresh(id)
  /\ PushLoop(cur, Len(ctx[cur].ci) + 1)
  /\ ctx' = [ctx EXCEPT ![cur].ci = Append(@, NewFrame(id, "skip"))]
  /\ UNCHANGED <<cur, flight>>

Region(kind) == [kind |-> kind]
Body(thing) == [kind |-> "body", then |-> thing]

Enter(kind) ==
  /\ Executes /\ HasRoom /\ Len(Top.nest) < MaxNest
  /\ SetTop([Top EXCEPT !.nest = Append(@, Region(kind))])
  /\ UNCHANGED <<cur, host, flight>>

\* The outermost one.
Innermost_slip(f, kinds) ==
  LET at == {i \in 1..Len(f.nest) : f.nest[i].kind \in kinds}
  IN  IF at = {} THEN 0 ELSE CHOOSE i \in at : \A j \in at : j >= i

\* The innermost region with one of those handlers, 0 for none (catch_find).
Innermost(f, kinds) ==
  LET at == {i \in 1..Len(f.nest) : f.nest[i].kind \in kinds}
  IN  IF at = {} THEN 0 ELSE CHOOSE i \in at : \A j \in at : j <= i

\* The handler of region i is entered with something to go on with after it.
Handle(f, i, thing) ==
  [f EXCEPT !.nest = Append(SubSeq(@, 1, i - 1), Body(thing))]

\* OP_JMPUW to outside of all but the first `to`, an ensure body first if one
\* is left.
Jump(f, to) ==
  LET i == Innermost(f, {"ensure"})
  IN  IF i > to THEN Handle(f, i, Jumping(to)) ELSE [f EXCEPT !.nest = SubSeq(@, 1, to)]
Jmpuw(to) ==
  /\ Executes /\ to < Len(Top.nest)
  /\ SetTop(Jump(Top, to))
  /\ UNCHANGED <<cur, host, flight>>

\* The end of the innermost region is reached: an ensure body begins, with
\* nothing to go on with.
Leave ==
  /\ Executes /\ Top.nest # <<>> /\ Last(Top.nest).kind # "body"
  /\ SetTop(IF Last(Top.nest).kind = "ensure" THEN Handle(Top, Len(Top.nest), Nothing)
            ELSE [Top EXCEPT !.nest = Front(@)])
  /\ UNCHANGED <<cur, host, flight>>

\* The end of an ensure body, or of a rescue that nothing matched (OP_RAISEIF).
Raiseif ==
  /\ Executes /\ Top.nest # <<>> /\ Last(Top.nest).kind = "body"
  /\ LET thing == Last(Top.nest).then
         f == [Top EXCEPT !.nest = Front(@)]
     IN  /\ SetTop(IF thing.kind = "jump" THEN Jump(f, thing.to) ELSE f)
         /\ flight' = CASE thing.kind = "jump" -> Nothing
                         [] thing.kind = "rescue" -> Raising
                         [] OTHER -> thing
  /\ UNCHANGED <<cur, host>>

\* An exception is rescued: the body of the rescue is plain code.
Rescued ==
  /\ Executes /\ Top.nest # <<>> /\ Last(Top.nest) = Body(Rescuing)
  /\ SetTop([Top EXCEPT !.nest = Front(@)])
  /\ UNCHANGED <<cur, host, flight>>

Raise == Executes /\ flight' = Raising /\ UNCHANGED <<ctx, cur, host>>

\* OP_RETURN of the top frame, OP_RETURN_BLK and OP_BREAK of one below.
Return(idx) ==
  /\ Executes /\ idx <= Len(ctx[cur].ci)
  /\ flight' = Leaving(idx, ctx[cur].ci[idx].id)
  /\ UNCHANGED <<ctx, cur, host>>

-----------------------------------------------------------------------------
(* One frame of an unwinding. *)

\* unwind_return.
Unwind ==
  /\ flight.kind = "unwind"
  /\ LET n == Len(ctx[cur].ci)
         i == Innermost(Top, {"ensure"})
         popped == Pop(ctx, cur)
         ends == Top.cci = "skip" \/ (cur = Loop.lc /\ n <= Loop.stop)
     IN  IF i # 0
         THEN SetTop(Handle(Top, i, flight)) /\ flight' = Nothing /\ UNCHANGED <<cur, host>>
         ELSE IF n # flight.idx
         THEN /\ ctx' = popped /\ UNCHANGED cur
              /\ IF ends THEN EndLoop(flight) ELSE UNCHANGED <<host, flight>>
         ELSE IF n = 1 /\ cur # Root
         THEN LET back == Terminated(ctx, cur)
              IN  IF ctx[cur].vmexec
                  THEN SwitchTo(back, Resumer(cur)) /\ EndLoop(Value)
                  ELSE SwitchTo(Deliver(back, Resumer(cur)), Resumer(cur))
                       /\ flight' = Nothing /\ UNCHANGED host
         ELSE /\ ctx' = popped /\ UNCHANGED cur
              /\ IF ends THEN EndLoop(Value) ELSE flight' = Nothing /\ UNCHANGED host

\* handle_raise.
RaiseOn ==
  /\ flight.kind = "raise"
  /\ LET n == Len(ctx[cur].ci)
         i == Innermost(Top, {"rescue", "ensure"})
     IN  IF i # 0
         THEN SetTop(Handle(Top, i, IF Top.nest[i].kind = "ensure" THEN Raising ELSE Rescuing)) /\ flight' = Nothing /\ UNCHANGED <<cur, host>>
         ELSE IF n = 1 /\ cur # Root
         THEN /\ SwitchTo(Terminated(ctx, cur), Resumer(cur))
              /\ IF ctx[cur].vmexec THEN EndLoop(Raising) ELSE UNCHANGED <<host, flight>>
         ELSE /\ ctx' = Pop(ctx, cur) /\ UNCHANGED cur
              /\ IF cur = Loop.lc /\ n <= Loop.stop THEN EndLoop(Raising)
                 ELSE UNCHANGED <<host, flight>>

-----------------------------------------------------------------------------
(* Fibers. *)

FiberInit(c) ==
  /\ Executes /\ ctx[c].status = None
  /\ ctx' = [ctx EXCEPT ![c].status = "created"]
  /\ UNCHANGED <<cur, host, flight>>

\* fiber_switch: its refusals are raises.  A native's resume runs the fiber in
\* a nested loop; another one goes on in this one.
Started(cx, c, id) ==
  IF cx[c].status = "created" THEN [cx EXCEPT ![c].ci = <<NewFrame(id, "none")>>] ELSE cx

Switch(c, id, resume, vmexec) ==
  /\ Executes /\ c # cur
  /\ ctx[c].status \in IF resume THEN {"created", "suspended"} ELSE {"created", "suspended", "transferred"}
  /\ ~OverNative(c)
  /\ IF ctx[c].status = "created" THEN Fresh(id) ELSE id = 1
  /\ LET left == [IF vmexec THEN ctx ELSE Await(ctx, cur) EXCEPT
                             ![cur].status = IF resume THEN "resumed" ELSE "transferred",
                             ![c].prev = IF resume THEN cur ELSE None,
                             ![c].vmexec = @ \/ vmexec]
         went == Started(left, c, id)
     IN  SwitchTo(IF ctx[c].status = "created" THEN went ELSE Deliver(went, c), c)
  /\ IF vmexec THEN PushLoop(c, 1) ELSE UNCHANGED host
  /\ UNCHANGED flight

Resume(c, id) == Switch(c, id, TRUE, FALSE)
ResumeFromNative(c, id) == Switch(c, id, TRUE, TRUE)

\* fiber_yield.
Yield ==
  /\ Executes
  /\ ctx[cur].prev # None /\ cur # Root
  /\ ctx[ctx[cur].prev].status # "transferred"
  /\ ~OverNative(cur)
  /\ LET prev == ctx[cur].prev
         left == [Await(ctx, cur) EXCEPT ![cur].status = "suspended",
                                         ![cur].prev = None, ![cur].vmexec = FALSE]
     IN  IF ctx[cur].vmexec THEN SwitchTo(left, prev) /\ EndLoop(Value)
         ELSE SwitchTo(Deliver(left, prev), prev) /\ UNCHANGED <<host, flight>>

\* The running context and the ones it was resumed from, up to the root.
IsClosed(s) == \A c \in s \ {Root} : ctx[c].prev # None => ctx[c].prev \in s
Resumers == {c \in Contexts : \A s \in SUBSET Contexts : cur \in s /\ IsClosed(s) => c \in s}

\* fiber_transfer: no native among the resumers.
Transfer(c, id) ==
  /\ Executes /\ c # cur /\ ctx[c].status # "resumed"
  /\ \A x \in Resumers : ~OverNative(x) /\ ~ctx[x].vmexec
  /\ IF c = Root
     THEN /\ SwitchTo(Deliver([Await(ctx, cur) EXCEPT ![cur].status = "transferred"], Root), Root)
          /\ id = 1 /\ UNCHANGED <<host, flight>>
     ELSE Switch(c, id, FALSE, FALSE)

-----------------------------------------------------------------------------
Next ==
  \/ NativeReturns \/ NativePropagates \/ NativeBreaks
  \/ Leave \/ Raiseif \/ Rescued \/ Raise \/ Unwind \/ RaiseOn \/ Yield
  \/ \E kind \in {"rescue", "ensure"} : Enter(kind)
  \/ \E to \in 0..MaxNest : Jmpuw(to)
  \/ \E idx \in 1..MaxFrames : Return(idx)
  \/ \E id \in 1..MaxFrames : Run(id) \/ Send(id) \/ CallFromNative(id)
  \/ \E c \in Fibers : FiberInit(c)
  \/ \E c \in Fibers, id \in 1..MaxFrames : Resume(c, id) \/ ResumeFromNative(c, id)
  \/ \E c \in Contexts, id \in 1..MaxFrames : Transfer(c, id)

Spec == Init /\ [][Next]_vars

-----------------------------------------------------------------------------
(* What unwinding keeps. *)

\* Every context is in a state the code has, its frames in regions of the two
\* kinds; a fiber has frames from its first resume to its end.
TypeOK ==
  /\ cur \in Contexts
  /\ \A c \in Contexts :
       /\ ctx[c].status \in {None, "created", "running", "resumed", "suspended",
                             "transferred", "terminated"}
       /\ ctx[c].prev \in Contexts \cup {None} /\ ctx[c].vmexec \in BOOLEAN
       /\ ctx[c].pending \in 0..MaxFrames
  /\ \A c \in Fibers : /\ ctx[c].ci = <<>> <=> ctx[c].status \in {None, "created", "terminated"}
                       /\ ctx[c].ci = <<>> => ctx[c].prev = None /\ ~ctx[c].vmexec
  /\ \A f \in AllFrames : /\ f.id \in 1..MaxFrames /\ f.cci \in {"none", "skip"}
                         /\ \A i \in 1..Len(f.nest) : f.nest[i].kind \in {"rescue", "ensure", "body"}
  /\ flight.kind \in {"nothing", "raise", "unwind", "native"}

\* One context runs, and the ones waiting for it were resumed: the chain of
\* resumers comes to the root or to a fiber that was transferred to.
OneContextRuns ==
  /\ \A c \in Contexts : ctx[c].status = "running" => c = cur
  /\ ctx[cur].status = "running" \/ cur = Root
  /\ \A c \in Resumers \ {cur} : ctx[c].status = "resumed"
  /\ host = <<>> => cur = Root

\* The frames natives started are those of the run loops on the host's stack,
\* in that order: no loop is left without its frame, or a frame without its
\* loop, by a fiber that was switched away from under a native.
SkipFrames == {f \in AllFrames : f.cci = "skip"}
LoopsHaveTheirFrames ==
  flight.kind # "native" =>
    /\ \A l \in 1..Len(host) :
         \/ host[l].lc # host[l].home /\ ctx[host[l].lc].vmexec
         \/ host[l].lc = host[l].home /\ Len(ctx[host[l].lc].ci) >= host[l].stop
            /\ ctx[host[l].lc].ci[host[l].stop].cci = "skip"
    /\ Cardinality(SkipFrames) = Cardinality({l \in 1..Len(host) : host[l].lc = host[l].home})

\* The states of the contexts, their chain, their frames and the loops on the
\* host's stack agree.
ContextsAgree == TypeOK /\ OneContextRuns /\ LoopsHaveTheirFrames

\* A native that ran a loop gets control back in the context it was called in,
\* with the frames that were there (fiber_switch asserts the context).
NativesGetTheirFramesBack ==
  [][Len(host') < Len(host) =>
       cur' = Loop.home /\ Ids(ctx'[Loop.home].ci) = Loop.frames]_vars

\* A frame in a region with an ensure body stays in it, in whatever else it
\* is, until that body is entered: no raise, break, return or jump goes past.
EnsuresRun ==
  [][\A f \in AllFrames : \A n \in 1..Len(f.nest) :
       f.nest[n].kind = "ensure" =>
         \E c \in Contexts : \E i \in 1..Len(ctx'[c].ci) :
           LET g == ctx'[c].ci[i]
           IN  g.id = f.id /\ Len(g.nest) >= n /\ g.nest[n].kind \in {"ensure", "body"}]_vars

\* A break or return under way, or waiting for an ensure body to end, has the
\* frame it was made for where it looks for it.
BreaksKeepTheirTarget ==
  LET aims(c, thing) ==
        thing.kind = "unwind" =>
          thing.idx <= Len(ctx[c].ci) /\ ctx[c].ci[thing.idx].id = thing.id
  IN  /\ aims(cur, flight)
      /\ flight.kind = "native" /\ flight.what.kind = "unwind" => aims(cur, flight.what)
      /\ \A c \in Contexts : \A i \in 1..Len(ctx[c].ci) :
           LET nest == ctx[c].ci[i].nest
           IN  \A n \in 1..Len(nest) :
                 nest[n].kind = "body" =>
                   /\ aims(c, nest[n].then)
                   /\ nest[n].then.kind = "unwind" => nest[n].then.idx <= i

\* A value is delivered to the call the context it comes to is suspended in.
DeliversWhereItIsAwaited ==
  [][\A c \in Contexts :
       ctx[c].pending # 0 /\ ctx'[c].pending = 0 =>
         ctx[c].ci # <<>> /\ ctx[c].pending = Last(ctx[c].ci).id]_vars
=============================================================================
