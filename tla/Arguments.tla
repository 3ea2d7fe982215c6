----------------------------- MODULE Arguments ------------------------------
(***************************************************************************)
(* How arguments travel from a call site to the locals of a method or a    *)
(* block, src/src/vm.rs: positional arguments, a keyword Hash and a block  *)
(* in the registers from R1 of the call on, described by the instruction's *)
(* operand and then by the frame; laid out anew by every redispatch (send, *)
(* a method_missing, a native that calls on, super); spread over the       *)
(* parameters by OP_ENTER and handed to keyword parameters by OP_KARG.     *)
(*                                                                         *)
(* `sent` is what the program means the call to carry: the code knows it   *)
(* only from the registers.                                                *)
(***************************************************************************)
EXTENDS Integers, Sequences, FiniteSets, FiniteSetsExt

CONSTANTS
  CALL_MAXARGS,  \* 15 in the code: the count that stands for "one Array"
  ArgVals,       \* the values arguments may be
  ArgLists,      \* the argument lists of call sites
  Keys,          \* the keywords there are
  Params,        \* the parameter lists there are
  MaxReg,        \* the last register: enough for every call and every body
  MaxHops        \* redispatches of a call (bound of the instance)

VARIABLES
  regs,   \* the registers from R0 of the call on
  ci,     \* what the frame says of them: [n, kw]
  at,     \* how far the call is
  p,      \* the parameters of what is entered
  taken,  \* the keyword parameters that have their value
  sent,   \* what the call carries: [args, kw, blk]
  hops    \* redispatches so far

vars == <<regs, ci, at, p, taken, sent, hops>>

\* A value is plain, an Array or a keyword Hash (a key stands for its value).
Plain(name) == [is |-> name, arr |-> <<>>, keys |-> {}]
Arr(s) == [is |-> "array", arr |-> s, keys |-> {}]
Hash(ks) == [is |-> "hash", arr |-> <<>>, keys |-> ks]
Key(k) == [is |-> "key", arr |-> <<>>, keys |-> {k}]
None == Plain("none")       \* no keyword Hash, not even an empty one
Nil == Plain("nil")
Stale == Plain("stale")     \* what an earlier call left in a register
Name == Plain("name")       \* a method's name, as an argument
Block == Plain("block")
ToProc == Plain("to_proc")  \* an object that answers to_proc
Default == Plain("default")

Size(f) == f.m1 + f.o + f.r + f.m2
\* self, the parameters, the keyword Hash, the block, and a local of the body.
NLocals(f) == Size(f) + f.kd + 3

Regs == 0 .. MaxReg

ASSUME ArgumentsAssumption ==
  /\ CALL_MAXARGS \in Nat /\ CALL_MAXARGS >= 2
  /\ MaxHops \in Nat
  /\ \A v \in ArgVals : v.is = "array" => v.arr \in Seq(ArgVals)
  /\ ArgLists \subseteq Seq(ArgVals)
  /\ \A f \in Params :
       /\ f.m1 \in Nat /\ f.o \in Nat /\ f.m2 \in Nat /\ f.r \in {0, 1} /\ f.kd \in {0, 1}
       /\ f.strict \in BOOLEAN /\ f.noblock \in BOOLEAN /\ f.kwrest \in BOOLEAN
       /\ f.required \subseteq Keys /\ f.optional \subseteq Keys
  /\ MaxReg \in Nat /\ MaxReg >= 3 * CALL_MAXARGS
  /\ \A f \in Params : MaxReg >= NLocals(f)

\* op_enter leaves a frame of CALL_MAXARGS parameters that reads as if its
\* arguments were in an Array: one with keywords does not find them.
ASSUME NotAsManyAsAnArray ==
  \A f \in Params : f.kd = 1 => Size(f) # CALL_MAXARGS

Write(rs, from, s) ==
  [r \in Regs |-> IF r \in from .. from + Len(s) - 1 THEN s[r - from + 1] ELSE rs[r]]
Clear(rs, from, to) == [r \in Regs |-> IF r \in from .. to THEN Nil ELSE rs[r]]
Read(rs, from, n) == [i \in 1..n |-> rs[from + i - 1]]

-----------------------------------------------------------------------------
(* Reading a call out of its registers. *)

\* The registers the positional arguments take.
Width(n) == IF n = CALL_MAXARGS THEN 1 ELSE n

\* The arguments are counted whether or not they are in an Array.
frame_kidx_slip(c) == c.n + 1

frame_kidx(c) == Width(c.n) + 1

frame_bidx(c) == Width(c.n) + (IF c.kw THEN 1 ELSE 0) + 1

send_args(rs, n) == IF n = CALL_MAXARGS THEN rs[1].arr ELSE Read(rs, 1, n)

\* native_args' keyword Hash, also when it is empty.
KwOf(rs, c) == IF c.kw THEN rs[frame_kidx(c)] ELSE None

kdict_nonempty(kd) == IF kd = Hash({}) THEN None ELSE kd

\* The keyword Hash as one more argument, where there is one.
Appended(args, kd) == IF kd = None THEN args ELSE Append(args, kd)

native_call_args(rs, c) == Appended(send_args(rs, c.n), kdict_nonempty(KwOf(rs, c)))

-----------------------------------------------------------------------------
(* Laying a call out: [regs, n, nk], nk the operand's count of keywords. *)

\* An Array is made for more arguments than fit, not for one too many.
relay_args_slip(rs, args, kd, blk, pack) ==
  LET packed == pack \/ Len(args) > CALL_MAXARGS
  IN  [regs |-> Write(rs, 1, Append(Appended(IF packed THEN <<Arr(args)>> ELSE args, kd), blk)),
       n |-> IF packed THEN CALL_MAXARGS ELSE Len(args),
       nk |-> IF kd = None THEN 0 ELSE CALL_MAXARGS]

relay_args(rs, args, kd, blk, pack) ==
  LET packed == pack \/ Len(args) >= CALL_MAXARGS
  IN  [regs |-> Write(rs, 1, Append(Appended(IF packed THEN <<Arr(args)>> ELSE args, kd), blk)),
       n |-> IF packed THEN CALL_MAXARGS ELSE Len(args),
       nk |-> IF kd = None THEN 0 ELSE CALL_MAXARGS]

ensure_block(b) == IF b = ToProc THEN Block ELSE b

\* A call without a block leaves its register as it was.
prepare_call_slip(rs, n, nk, has_blk) ==
  LET k == Width(n) + 1
      blk == ensure_block(rs[k + (IF nk = CALL_MAXARGS THEN 1 ELSE 2 * nk)])
      kd == IF nk = CALL_MAXARGS THEN rs[k] ELSE Hash(UNION {rs[k + 2 * i].keys : i \in 0 .. nk - 1})
  IN  Write(rs, k, (IF nk = 0 THEN <<>> ELSE <<kd>>) \o (IF has_blk THEN <<blk>> ELSE <<>>))

\* Keywords become one Hash behind the arguments, and the block comes behind it.
prepare_call(rs, n, nk, has_blk) ==
  LET k == Width(n) + 1
      blk == IF has_blk
             THEN ensure_block(rs[k + (IF nk = CALL_MAXARGS THEN 1 ELSE 2 * nk)]) ELSE Nil
      kd == IF nk = CALL_MAXARGS THEN rs[k] ELSE Hash(UNION {rs[k + 2 * i].keys : i \in 0 .. nk - 1})
  IN  Write(rs, k, (IF nk = 0 THEN <<>> ELSE <<kd>>) \o <<blk>>)

\* The call as op_send_vis goes on with it; the block is read where it was
\* put, and is nil where there is none.
Sent(rs, n, nk, has_blk) ==
  /\ regs' = prepare_call(rs, n, nk, has_blk)
  /\ ci' = [n |-> n, kw |-> nk > 0]
  /\ at' = "called"

Relayed(args, kd, pack) ==
  LET c == relay_args(regs, args, kd, regs[frame_bidx(ci)], pack)
  IN  Sent(c.regs, c.n, c.nk, TRUE)

\* A new frame of nregs registers keeps its call and has nil in the others.
Framed(rs, c, nregs) == Clear(rs, frame_bidx(c) + 1, nregs - 1)

Pushed(rs, c, f, nregs) ==
  /\ regs' = Framed(rs, c, nregs)
  /\ ci' = c
  /\ at' = "pushed"
  /\ p' = f

-----------------------------------------------------------------------------
(* OP_ENTER. *)

\* Only required parameters, and no Array of arguments.
IsFast(f, n) ==
  f.strict /\ f.o + f.r + f.m2 + f.kd = 0 /\ ~f.noblock /\ n < CALL_MAXARGS

\* A lone Array is spread over the parameters of a block.
Spread(f, args) ==
  IF ~f.strict /\ Size(f) > 1 /\ Len(args) = 1 /\ args[1].is = "array" THEN args[1].arr ELSE args

WrongCount(f, argc) == f.strict /\ (argc < f.m1 + f.m2 \/ (f.r = 0 /\ argc > Size(f)))

\* The parameters after the rest take what the first ones leave.
Few_slip(rs, f, args) ==
  LET mlen == IF Len(args) < f.m2 THEN Len(args) ELSE f.m2
      front == Min({Len(args) - mlen, f.m1 + f.o})
      post == Size(f) - f.m2 + 1
      rs1 == Clear(Write(rs, 1, SubSeq(args, 1, front)), Len(args) + 1, f.m1)
      rs2 == Clear(Write(rs1, post, SubSeq(args, Len(args) - mlen + 1, Len(args))), post + mlen, post + f.m2 - 1)
  IN  IF f.r = 1 THEN Write(rs2, f.m1 + f.o + 1, <<Arr(<<>>)>>) ELSE rs2

\* Fewer arguments than parameters: mlen of them go to the last ones.
Few(rs, f, args) ==
  LET mlen == IF Len(args) < f.m1 + f.m2 THEN Max({Len(args) - f.m1, 0}) ELSE f.m2
      front == Min({Len(args) - mlen, f.m1 + f.o})
      post == Size(f) - f.m2 + 1
      rs1 == Clear(Write(rs, 1, SubSeq(args, 1, front)), Len(args) + 1, f.m1)
      rs2 == Clear(Write(rs1, post, SubSeq(args, Len(args) - mlen + 1, Len(args))), post + mlen, post + f.m2 - 1)
  IN  IF f.r = 1 THEN Write(rs2, f.m1 + f.o + 1, <<Arr(<<>>)>>) ELSE rs2

\* Every parameter has its argument; the rest takes what is over.
Enough(rs, f, args) ==
  LET front == f.m1 + f.o
      rnum == IF f.r = 1 THEN Len(args) - front - f.m2 ELSE 0
      rest == IF f.r = 1 THEN <<Arr(SubSeq(args, front + 1, front + rnum))>> ELSE <<>>
  IN  Write(rs, 1, SubSeq(args, 1, front) \o rest
                   \o SubSeq(args, front + rnum + 1, front + rnum + f.m2))

\* An optional parameter too many is taken for given.
Given_slip(f, argc) == IF argc >= Size(f) THEN f.o ELSE Max({argc - f.m1, 0})

\* The optional parameters whose defaults the jump goes past.
Given(f, argc) == IF argc >= Size(f) THEN f.o ELSE Max({argc - f.m1 - f.m2, 0})

\* The body's own assignment of the defaults that are left.
Defaults(rs, f, given) == Write(rs, f.m1 + given + 1, [i \in 1 .. f.o - given |-> Default])

EnterFast ==
  /\ at = "pushed" /\ IsFast(p, ci.n)
  /\ IF ci.n + (IF ci.kw THEN 1 ELSE 0) # p.m1
     THEN at' = "wrong count" /\ UNCHANGED <<regs, ci>>
     ELSE /\ regs' = Clear(regs, p.m1 + 2, NLocals(p) - 1)
          /\ ci' = [ci EXCEPT !.kw = FALSE]
          /\ at' = "ready"
  /\ UNCHANGED <<p, taken, sent, hops>>

\* The keyword Hash is read behind the arguments as they were, a keyword Hash
\* nobody asked for is one more argument, and the block moves last.
EnterSlow ==
  LET kd == KwOf(regs, ci)
      blk == regs[frame_bidx(ci)]
      asked == p.kd = 1
      args == Spread(p, Appended(send_args(regs, ci.n), IF asked THEN None ELSE kdict_nonempty(kd)))
      bound == IF Len(args) < Size(p) THEN Few(regs, p, args) ELSE Enough(regs, p, args)
      kwarg == IF asked THEN <<IF kd = None THEN Hash({}) ELSE kd>> ELSE <<>>
  IN /\ at = "pushed" /\ ~IsFast(p, ci.n)
     /\ UNCHANGED <<p, taken, sent, hops>>
     /\ \/ p.noblock /\ blk # Nil /\ at' = "no block" /\ UNCHANGED <<regs, ci>>
        \/ ~(p.noblock /\ blk # Nil) /\ WrongCount(p, Len(args))
           /\ at' = "wrong count" /\ UNCHANGED <<regs, ci>>
        \/ /\ ~(p.noblock /\ blk # Nil) /\ ~WrongCount(p, Len(args))
           /\ regs' = Clear(Write(Defaults(bound, p, Given(p, Len(args))), Size(p) + 1, Append(kwarg, blk)),
                            Size(p) + p.kd + 2, NLocals(p) - 1)
           /\ ci' = [n |-> Size(p), kw |-> asked]
           /\ at' = IF asked THEN "keywords" ELSE "ready"

-----------------------------------------------------------------------------
(* The keyword prologue: OP_KEY_P, OP_KARG, OP_KEYEND. *)

\* The keywords that are left where the frame says its keyword Hash is.
Left == IF ci.kw THEN regs[frame_kidx(ci)].keys ELSE {}

\* OP_KARG, for an optional keyword after OP_KEY_P has found it.
Karg(k) ==
  /\ at = "keywords"
  /\ (k \in p.required \ taken) \/ (k \in p.optional \cap Left)
  /\ IF k \in Left
     THEN /\ regs' = [regs EXCEPT ![frame_kidx(ci)] = Hash(@.keys \ {k})]
          /\ taken' = taken \cup {k}
          /\ UNCHANGED at
     ELSE at' = "missing" /\ UNCHANGED <<regs, taken>>
  /\ UNCHANGED <<ci, p, sent, hops>>

\* OP_KEYEND, which a parameter list with **rest is compiled without.
Keyend ==
  /\ at = "keywords"
  /\ p.required \subseteq taken /\ p.optional \cap Left = {}
  /\ at' = IF ~p.kwrest /\ Left # {} THEN "unknown" ELSE "ready"
  /\ UNCHANGED <<regs, ci, p, taken, sent, hops>>

-----------------------------------------------------------------------------
(* What a parameter list makes of a call, in Ruby's terms. *)

\* A keyword Hash a parameter list does not ask for is its last argument, an
\* empty one only where it makes up the number of the required ones.
Counted(f, c) ==
  IF f.kd = 1 THEN c.args
  ELSE IF IsFast(f, 0) /\ Len(c.args) + 1 = f.m1 THEN Appended(c.args, c.kw)
       ELSE Appended(c.args, kdict_nonempty(c.kw))

\* The parameters, in their order: the required ones are served first, then the
\* optional ones, then the rest. A block lacks nothing and drops what is over.
Declared(f, c) ==
  LET given == Spread(f, Counted(f, c))
      kept == IF f.r = 0 /\ Len(given) > Size(f) THEN SubSeq(given, 1, Size(f)) ELSE given
      args == kept \o [i \in 1 .. Max({f.m1 + f.m2 - Len(kept), 0}) |-> Nil]
      opts == Min({f.o, Len(args) - f.m1 - f.m2})
  IN  SubSeq(args, 1, f.m1 + opts)
      \o [i \in 1 .. f.o - opts |-> Default]
      \o (IF f.r = 1 THEN <<Arr(SubSeq(args, f.m1 + opts + 1, Len(args) - f.m2))>> ELSE <<>>)
      \o SubSeq(args, Len(args) - f.m2 + 1, Len(args))

\* What `super` without arguments passes on.
PassedOn(f, c) ==
  LET d == Declared(f, c)
      front == f.m1 + f.o
  IN  SubSeq(d, 1, front) \o (IF f.r = 1 THEN d[front + 1].arr ELSE <<>>) \o SubSeq(d, front + f.r + 1, Len(d))

Unasked(f, c) == IF f.kd = 1 THEN Hash(c.kw.keys \ (f.required \cup f.optional)) ELSE None

-----------------------------------------------------------------------------
(* Call sites. *)

\* A compiled call: arguments one by one or in an Array, keywords in pairs or
\* in a Hash, a block or none.
Site(args, packed, kw, hashed, blk) ==
  LET nk == Cardinality(kw.keys)
      pos == IF packed THEN <<Arr(args)>> ELSE args
      rest(kws) == Write([r \in Regs |-> Stale], 1, pos \o kws \o IF blk = None THEN <<>> ELSE <<blk>>)
      n == IF packed THEN CALL_MAXARGS ELSE Len(args)
  IN /\ at = "idle"
     /\ packed \/ Len(args) < CALL_MAXARGS
     /\ \/ kw = None /\ ~hashed /\ Sent(rest(<<>>), n, 0, blk # None)
        \/ kw # None /\ hashed /\ Sent(rest(<<kw>>), n, CALL_MAXARGS, blk # None)
        \/ /\ kw # None /\ ~hashed /\ nk \in 1 .. CALL_MAXARGS - 1
           /\ \E key \in [1..nk -> kw.keys] :
                /\ {key[i] : i \in 1..nk} = kw.keys
                /\ Sent(rest([i \in 1 .. 2 * nk |-> Key(key[(i + 1) \div 2])]), n, nk, blk # None)
     /\ sent' = [args |-> args, kw |-> kw, blk |-> IF blk = None THEN Nil ELSE ensure_block(blk)]
     /\ UNCHANGED <<p, taken, hops>>

Hop == at = "called" /\ hops < MaxHops /\ hops' = hops + 1

\* `send` from bytecode: all but the name, in the shape they came in.
Redirect ==
  LET args == send_args(regs, ci.n)
  IN /\ Hop
     /\ IF args = <<>>
        THEN at' = "refused" /\ UNCHANGED <<regs, ci, sent>>
        ELSE /\ args[1] = Name
             /\ Relayed(Tail(args), KwOf(regs, ci), ci.n = CALL_MAXARGS)
             /\ sent' = [sent EXCEPT !.args = Tail(@)]
     /\ UNCHANGED <<p, taken>>

\* No such method: a method_missing written in Ruby is sent the name first.
Missing ==
  /\ Hop
  /\ Relayed(<<Name>> \o send_args(regs, ci.n), KwOf(regs, ci), TRUE)
  /\ sent' = [sent EXCEPT !.args = <<Name>> \o @]
  /\ UNCHANGED <<p, taken>>

\* A Ruby method found by op_send_vis.
PushMethod(f) ==
  /\ at = "called" /\ f.strict
  /\ Pushed(regs, ci, f, Max({NLocals(f), ci.n + 2, 4}))
  /\ UNCHANGED <<taken, sent, hops>>

\* vm_call_proc: OP_BLKCALL, a native loop's block, and Proc#call in the frame
\* its SEND pushed.
CallProc(f) ==
  /\ at = "called"
  /\ Pushed(regs, ci, f, Max({NLocals(f), 4}))
  /\ UNCHANGED <<taken, sent, hops>>

\* A native that was called with the call runs f with its own arguments, or
\* with all but the first: they are its keyword Hash last, where it is not
\* empty, and the name first for a method_missing.
Forwarded(f, pack, missing, rs, inframe) ==
  \E drop \in {0, 1} :
    LET given == native_call_args(regs, ci)
        kd == kdict_nonempty(KwOf(regs, ci))
        pos == SubSeq(given, drop + 1, Len(given) - IF kd = None THEN 0 ELSE 1)
        c == relay_args(rs, (IF missing THEN <<Name>> ELSE <<>>) \o pos, kd, regs[frame_bidx(ci)], pack)
        frame == [n |-> c.n, kw |-> c.nk > 0]
    IN /\ Hop
       /\ (send_args(regs, ci.n) # <<>>) \/ (drop = 0)
       /\ Pushed(c.regs, frame, f, IF inframe THEN Max({NLocals(f), frame_bidx(frame) + 1, 4}) ELSE 0)
       /\ sent' = [sent EXCEPT !.args = (IF missing THEN <<Name>> ELSE <<>>) \o SubSeq(@, drop + 1, Len(@)),
                               !.kw = kdict_nonempty(@)]
       /\ UNCHANGED taken

\* exec_proc and send_in_frame of a native called by a SEND: a frame where the
\* native's own call was.
InFrame(f) ==
  \E missing \in BOOLEAN :
    Forwarded(f, missing, missing, regs, TRUE)

\* funcall and call_proc_inner: on registers of their own.
Nested(f) ==
  \E missing \in BOOLEAN :
    Forwarded(f, FALSE, missing, [r \in Regs |-> Nil], FALSE)

\* `super` without arguments, through OP_ARGARY: the locals as they are now,
\* behind those the method has.
Zsuper ==
  LET args == Read(regs, 1, p.m1 + p.o)
              \o (IF p.r = 1 THEN regs[p.m1 + p.o + 1].arr ELSE <<>>)
              \o Read(regs, p.m1 + p.o + p.r + 1, p.m2)
      kdblk == Read(regs, Size(p) + 1, p.kd + 1)
  IN /\ at = "ready" /\ p.strict /\ hops < MaxHops /\ hops' = hops + 1
     /\ Sent(Write([r \in Regs |-> Stale], 1, <<Arr(args)>> \o kdblk),
             CALL_MAXARGS, IF p.kd = 1 THEN CALL_MAXARGS ELSE 0, TRUE)
     /\ sent' = [args |-> PassedOn(p, sent), kw |-> Unasked(p, sent), blk |-> sent.blk]
     /\ taken' = {}
     /\ UNCHANGED p

-----------------------------------------------------------------------------

Idle ==
  /\ regs = [r \in Regs |-> Stale] /\ ci = [n |-> 0, kw |-> FALSE] /\ at = "idle"
  /\ p = None /\ taken = {} /\ sent = None /\ hops = 0

\* The call is over, by its end or by an error.
Return ==
  /\ at \in {"ready", "refused", "wrong count", "no block", "missing", "unknown"}
  /\ regs' = [r \in Regs |-> Stale] /\ ci' = [n |-> 0, kw |-> FALSE] /\ at' = "idle"
  /\ p' = None /\ taken' = {} /\ sent' = None /\ hops' = 0

Init == Idle

Next ==
  \/ \E args \in ArgLists, kw \in {None} \cup {Hash(ks) : ks \in SUBSET Keys},
        packed, hashed \in BOOLEAN, blk \in {None, Nil, Block, ToProc} :
       Site(args, packed, kw, hashed, blk)
  \/ Redirect \/ Missing \/ Zsuper
  \/ \E f \in Params : PushMethod(f) \/ CallProc(f) \/ InFrame(f) \/ Nested(f)
  \/ EnterFast \/ EnterSlow \/ (\E k \in Keys : Karg(k)) \/ Keyend
  \/ Return

Spec == Init /\ [][Next]_vars

-----------------------------------------------------------------------------
(* Properties *)

\* Whatever a call went through, its registers read back as what the program
\* sent: arguments, keyword Hash and block (prepare_call, relay_args,
\* push_frame_at, call_proc_inner, op_argary).
FrameCarriesTheCall ==
  at \in {"called", "pushed"} =>
    /\ send_args(regs, ci.n) = sent.args
    /\ KwOf(regs, ci) = sent.kw
    /\ regs[frame_bidx(ci)] = sent.blk

\* A parameter has the argument Ruby gives it, the block and the keyword Hash
\* are behind the parameters, a local starts nil, and a call is refused for
\* its count exactly when that is wrong (op_enter).
BindsAsDeclared ==
  /\ at \in {"keywords", "ready"} =>
       /\ ~WrongCount(p, Len(Counted(p, sent)))
       /\ Read(regs, 1, Size(p)) = Declared(p, sent)
       /\ p.kd = 1 => regs[Size(p) + 1] = Hash(sent.kw.keys \ taken)
       /\ regs[Size(p) + p.kd + 1] = sent.blk
       /\ \A r \in Size(p) + p.kd + 2 .. NLocals(p) - 1 : regs[r] = Nil
       /\ p.noblock => sent.blk = Nil
  /\ at = "wrong count" =>
       LET kw == IF IsFast(p, ci.n) THEN sent.kw
                 ELSE IF p.kd = 1 THEN None ELSE kdict_nonempty(sent.kw)
       IN  WrongCount(p, Len(Appended(sent.args, kw)))

\* Every keyword parameter of a body that starts has its value, none is left
\* that nobody takes, and an error says what is so (OP_KARG, OP_KEYEND).
KeywordsReachTheirNames ==
  LET given == sent.kw.keys
  IN /\ at = "ready" /\ p.kd = 1 =>
          /\ taken = p.required \cup (p.optional \cap given)
          /\ p.required \subseteq given
          /\ ~p.kwrest => given \subseteq p.required \cup p.optional
     /\ at = "missing" => ~(p.required \subseteq given)
     /\ at = "unknown" => ~(given \subseteq p.required \cup p.optional)

\* frame_bidx: "the register (relative to base) holding a frame's block".
BlockIsWhereTheFrameSays ==
  at = "ready" => regs[frame_bidx(ci)] = sent.blk
=============================================================================
