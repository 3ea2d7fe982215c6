-------------------------- MODULE ArgumentsProofs --------------------------
(***************************************************************************)
(* That a call arrives as it was sent, for any arguments and parameters,   *)
(* any CALL_MAXARGS and however often it is sent on.                       *)
(*                                                                         *)
(* The idea: every way to lay a call out writes its arguments, keyword     *)
(* Hash and block one behind the other, and every reader finds them there  *)
(* again.  What OP_ENTER makes of them is compared with Ruby's rule one    *)
(* parameter at a time.  `super` without arguments sends on what it reads  *)
(* from the parameters: so that a call arrives rests on that an earlier    *)
(* one was bound right, and the other way round.                           *)
(***************************************************************************)
EXTENDS Arguments, TLAPS, SequenceTheorems

---------------------------------------------------------------------------
(* The invariant. *)

Hashes == {Hash(ks) : ks \in SUBSET Keys}
Elems == ArgVals \cup {Name, Nil, Default} \cup Hashes
Kws == {None} \cup Hashes
Calls == [args : Seq(Elems), kw : Kws, blk : {Nil, Block}]
Stops == {"idle", "called", "pushed", "keywords", "ready", "refused", "wrong count",
          "no block", "missing", "unknown"}

Typed ==
  /\ regs = [r \in Regs |-> regs[r]]
  /\ at \in Stops /\ hops \in Nat
  /\ ci = [n |-> ci.n, kw |-> ci.kw] /\ ci.n \in Nat /\ ci.kw \in BOOLEAN
  /\ at # "idle" => sent \in Calls
  /\ at \in {"pushed", "keywords", "ready"} => p \in Params

\* A call in its registers: the arguments, the keyword Hash where there is one,
\* the block.  Other than FrameCarriesTheCall this says that the frame knows
\* whether there is a keyword Hash, and how many arguments it counts.
Positioned(rs, n, args) ==
  IF n = CALL_MAXARGS THEN rs[1].arr = args ELSE Len(args) = n /\ \A i \in 1..n : rs[i] = args[i]
Holds(rs, n, kw, c) ==
  /\ n \in 0..CALL_MAXARGS /\ kw \in BOOLEAN
  /\ Positioned(rs, n, c.args)
  /\ kw <=> c.kw # None
  /\ kw => rs[Width(n) + 1] = c.kw
  /\ rs[Width(n) + (IF kw THEN 1 ELSE 0) + 1] = c.blk
Carried == at \in {"called", "pushed"} => Holds(regs, ci.n, ci.kw, sent)

\* The keyword parameters so far: OP_KARG takes a keyword out of the Hash as
\* it gives the parameter its value.
Prologue ==
  /\ at \in {"idle", "called", "pushed"} => taken = {}
  /\ at = "keywords" =>
       /\ p.kd = 1 /\ ci.kw /\ ci.n = Size(p)
       /\ taken \subseteq p.required \cup p.optional
       /\ taken \subseteq sent.kw.keys

IInv == Typed /\ Carried /\ Prologue /\ BindsAsDeclared /\ KeywordsReachTheirNames

---------------------------------------------------------------------------
(* Values, sizes and sequences. *)

\* Constructed values are told apart by what they are.
LEMMA ValueFacts ==
  /\ Nil # ToProc /\ Block # ToProc /\ Nil # Block /\ Nil # None /\ Block # None
  /\ \A ks : /\ Hash(ks) # None /\ Hash(ks).keys = ks /\ Hash(ks).is = "hash"
             /\ \A ls : Hash(ks) = Hash(ls) => ks = ls
  /\ \A s : Arr(s).arr = s /\ Arr(s).is = "array"
  /\ \A k : Key(k).keys = {k}
  /\ None.keys = {} /\ Name.is # "array" /\ Nil.is # "array" /\ Default.is # "array"
<1>1. \A ks : Hash(ks).keys = ks /\ Hash(ks).is = "hash"
  BY DEF Hash
<1>2. \A ks, ls : Hash(ks) = Hash(ls) => ks = ls
  BY <1>1
<1>3. /\ Nil.is = "nil" /\ Block.is = "block" /\ ToProc.is = "to_proc" /\ None.is = "none"
      /\ Name.is = "name" /\ Default.is = "default" /\ None.keys = {}
  BY DEF Nil, Block, ToProc, None, Name, Default, Plain
<1>4. (\A s : Arr(s).arr = s /\ Arr(s).is = "array") /\ \A k : Key(k).keys = {k}
  BY DEF Arr, Key
<1>5. Nil # ToProc /\ Block # ToProc /\ Nil # Block /\ Nil # None /\ Block # None
  BY <1>3
<1>6. \A ks : Hash(ks) # None
  BY <1>1, <1>3
<1>7. Name.is # "array" /\ Nil.is # "array" /\ Default.is # "array"
  BY <1>3
<1> QED  BY <1>1, <1>2, <1>3, <1>4, <1>5, <1>6, <1>7

LEMMA KwFacts ==
  ASSUME NEW kd \in Kws
  PROVE  /\ kd.keys \in SUBSET Keys
         /\ kd # None => kd = Hash(kd.keys)
         /\ kdict_nonempty(kd) \in Kws
         /\ kd # None /\ kdict_nonempty(kd) = None => kd = Hash({})
         /\ kdict_nonempty(kd) # None => kdict_nonempty(kd) = kd
BY ValueFacts DEF Kws, Hashes, kdict_nonempty

LEMMA SizeFacts ==
  /\ CALL_MAXARGS \in Nat /\ CALL_MAXARGS >= 2 /\ MaxHops \in Nat
  /\ MaxReg \in Nat /\ MaxReg >= 3 * CALL_MAXARGS /\ Regs = 0..MaxReg
  /\ ArgLists \subseteq Seq(ArgVals)
BY ArgumentsAssumption DEF Regs

LEMMA ParamFacts ==
  ASSUME NEW f \in Params
  PROVE  /\ f.m1 \in Nat /\ f.o \in Nat /\ f.m2 \in Nat /\ f.r \in {0, 1} /\ f.kd \in {0, 1}
         /\ f.strict \in BOOLEAN /\ f.noblock \in BOOLEAN /\ f.kwrest \in BOOLEAN
         /\ Size(f) = f.m1 + f.o + f.r + f.m2 /\ Size(f) \in Nat
         /\ NLocals(f) = Size(f) + f.kd + 3 /\ MaxReg >= NLocals(f)
         /\ f.kd = 1 => Size(f) # CALL_MAXARGS
<1>1. /\ f.m1 \in Nat /\ f.o \in Nat /\ f.m2 \in Nat /\ f.r \in {0, 1} /\ f.kd \in {0, 1}
      /\ f.strict \in BOOLEAN /\ f.noblock \in BOOLEAN /\ f.kwrest \in BOOLEAN
      /\ MaxReg >= NLocals(f)
  BY ArgumentsAssumption
<1>2. f.kd = 1 => Size(f) # CALL_MAXARGS
  BY NotAsManyAsAnArray
<1>3. Size(f) = f.m1 + f.o + f.r + f.m2 /\ NLocals(f) = Size(f) + f.kd + 3
  BY DEF Size, NLocals
<1> QED  BY <1>1, <1>2, <1>3

LEMMA MaxOfTwo ==
  ASSUME NEW a \in Int, NEW b \in Int
  PROVE  /\ Max({a, b}) = IF a >= b THEN a ELSE b
         /\ Min({a, b}) = IF a <= b THEN a ELSE b
<1>1. (\E x \in {a, b} : \A y \in {a, b} : x >= y) /\ \E x \in {a, b} : \A y \in {a, b} : x =< y
  BY SMT
<1>2. /\ Max({a, b}) \in {a, b} /\ \A y \in {a, b} : Max({a, b}) >= y
      /\ Min({a, b}) \in {a, b} /\ \A y \in {a, b} : Min({a, b}) =< y
  BY <1>1 DEF Max, Min
<1> QED  BY <1>2

LEMMA SeqFacts ==
  ASSUME NEW S, NEW s \in Seq(S)
  PROVE  /\ Len(s) \in Nat /\ DOMAIN s = 1..Len(s)
         /\ s # <<>> <=> Len(s) >= 1
         /\ \A i \in 1..Len(s) : s[i] \in S
<1>1. Len(s) \in Nat /\ DOMAIN s = 1..Len(s) /\ \A i \in 1..Len(s) : s[i] \in S
  BY LenProperties, ElementOfSeq
<1>2. s # <<>> <=> Len(s) >= 1
  BY <1>1, EmptySeq
<1> QED  BY <1>1, <1>2

LEMMA CutFacts ==
  ASSUME NEW S, NEW s \in Seq(S), NEW m \in Nat, NEW n \in Int, m >= 1, n <= Len(s)
  PROVE  /\ SubSeq(s, m, n) \in Seq(S)
         /\ Len(SubSeq(s, m, n)) = IF m <= n THEN n - m + 1 ELSE 0
         /\ \A i \in 1 .. n - m + 1 : SubSeq(s, m, n)[i] = s[m + i - 1]
<1>1. \A i \in m..n : s[i] \in S
  BY SeqFacts
<1>2. m \in Int
  OBVIOUS
<1> QED  BY <1>1, <1>2, SubSeqProperties

\* A sequence with at most one element behind it.
LEMMA AppendFacts ==
  ASSUME NEW S, NEW s \in Seq(S), NEW e \in S
  PROVE  /\ Append(s, e) \in Seq(S) /\ Len(Append(s, e)) = Len(s) + 1
         /\ Append(s, e)[Len(s) + 1] = e
         /\ \A i \in 1..Len(s) : Append(s, e)[i] = s[i]
BY AppendProperties

LEMMA AppendedFacts ==
  ASSUME NEW S, NEW s \in Seq(S), NEW kd, kd = None \/ kd \in S
  PROVE  /\ Appended(s, kd) \in Seq(S)
         /\ Len(Appended(s, kd)) = Len(s) + (IF kd = None THEN 0 ELSE 1)
         /\ kd # None => Appended(s, kd)[Len(s) + 1] = kd
         /\ \A i \in 1..Len(s) : Appended(s, kd)[i] = s[i]
<1>1. CASE kd = None
  BY <1>1, SeqFacts DEF Appended
<1>2. CASE kd # None
  BY <1>2, AppendFacts DEF Appended
<1> QED  BY <1>1, <1>2

LEMMA OneFacts ==
  ASSUME NEW S, NEW e \in S
  PROVE  <<e>> \in Seq(S) /\ Len(<<e>>) = 1 /\ <<e>>[1] = e
OBVIOUS

LEMMA WriteFacts ==
  ASSUME NEW rs, NEW from, NEW s
  PROVE  /\ Write(rs, from, s) = [r \in Regs |-> Write(rs, from, s)[r]]
         /\ \A r \in Regs : Write(rs, from, s)[r] =
              IF r \in from .. from + Len(s) - 1 THEN s[r - from + 1] ELSE rs[r]
BY DEF Write

LEMMA ClearFacts ==
  ASSUME NEW rs, NEW from, NEW to
  PROVE  /\ Clear(rs, from, to) = [r \in Regs |-> Clear(rs, from, to)[r]]
         /\ \A r \in Regs : Clear(rs, from, to)[r] = IF r \in from..to THEN Nil ELSE rs[r]
BY DEF Clear

LEMMA ReadFromOne ==
  ASSUME NEW rs, NEW n \in Nat, NEW S, NEW s \in Seq(S)
  PROVE  Read(rs, 1, n) = s <=> Len(s) = n /\ \A i \in 1..n : rs[i] = s[i]
<1>1. Len(s) \in Nat /\ DOMAIN s = 1..Len(s) /\ s = [i \in 1..Len(s) |-> s[i]]
  BY LenProperties, SeqFacts
<1>2. Read(rs, 1, n) = [i \in 1..n |-> rs[i]]
  <2>1. \A i \in 1..n : 1 + i - 1 = i
    OBVIOUS
  <2> QED  BY <2>1 DEF Read
<1>3. ASSUME Read(rs, 1, n) = s
      PROVE  Len(s) = n /\ \A i \in 1..n : rs[i] = s[i]
  <2>1. DOMAIN s = 1..n /\ \A i \in 1..n : rs[i] = s[i]
    BY <1>2, <1>3
  <2> QED  BY <1>1, <2>1
<1>4. ASSUME Len(s) = n, \A i \in 1..n : rs[i] = s[i]
      PROVE  Read(rs, 1, n) = s
  BY <1>1, <1>2, <1>4
<1> QED  BY <1>3, <1>4

LEMMA PairFacts ==
  ASSUME NEW S, NEW a \in S, NEW b \in S
  PROVE  /\ Len(<<a>> \o <<b>>) = 2 /\ (<<a>> \o <<b>>)[1] = a /\ (<<a>> \o <<b>>)[2] = b
         /\ Len(<<>> \o <<b>>) = 1 /\ (<<>> \o <<b>>)[1] = b
<1>1. /\ <<a>> \in Seq(S) /\ Len(<<a>>) = 1 /\ <<a>>[1] = a
      /\ <<b>> \in Seq(S) /\ Len(<<b>>) = 1 /\ <<b>>[1] = b
  BY OneFacts
<1>2. /\ Len(<<a>> \o <<b>>) = Len(<<a>>) + Len(<<b>>)
      /\ \A i \in 1 .. Len(<<a>>) + Len(<<b>>) : (<<a>> \o <<b>>)[i] =
           IF i <= Len(<<a>>) THEN <<a>>[i] ELSE <<b>>[i - Len(<<a>>)]
  BY <1>1, ConcatProperties
<1>3. <<>> \o <<b>> = <<b>>
  BY <1>1, ConcatEmptySeq
<1> QED  BY <1>1, <1>2, <1>3

---------------------------------------------------------------------------
(* A call in its registers. *)

LEMMA CallFacts ==
  ASSUME NEW c \in Calls
  PROVE  /\ c.args \in Seq(Elems) /\ c.kw \in Kws /\ c.blk \in {Nil, Block}
         /\ c = [args |-> c.args, kw |-> c.kw, blk |-> c.blk]
BY DEF Calls

LEMMA WidthFacts ==
  ASSUME NEW n \in 0..CALL_MAXARGS
  PROVE  /\ Width(n) \in Nat /\ Width(n) <= n /\ Width(n) <= CALL_MAXARGS - 1
         /\ n = CALL_MAXARGS => Width(n) = 1
         /\ n # CALL_MAXARGS => Width(n) = n
BY SizeFacts DEF Width

LEMMA PositionedFacts ==
  ASSUME NEW rs, NEW n \in 0..CALL_MAXARGS, NEW args \in Seq(Elems)
  PROVE  send_args(rs, n) = args <=> Positioned(rs, n, args)
<1>1. CASE n = CALL_MAXARGS
  BY <1>1 DEF send_args, Positioned
<1>2. CASE n # CALL_MAXARGS
  <2>1. n \in Nat
    BY SizeFacts
  <2>2. Read(rs, 1, n) = args <=> Len(args) = n /\ \A i \in 1..n : rs[i] = args[i]
    BY <2>1, ReadFromOne
  <2> QED  BY <1>2, <2>2 DEF send_args, Positioned
<1> QED  BY <1>1, <1>2

\* FrameCarriesTheCall is what Holds says, read back.
LEMMA HoldsIsCarried ==
  ASSUME NEW rs, NEW c \in Calls, NEW f, Holds(rs, f.n, f.kw, c)
  PROVE  send_args(rs, f.n) = c.args /\ KwOf(rs, f) = c.kw /\ rs[frame_bidx(f)] = c.blk
<1>1. c.args \in Seq(Elems) /\ f.n \in 0..CALL_MAXARGS
  BY CallFacts DEF Holds
<1>2. send_args(rs, f.n) = c.args
  BY <1>1, PositionedFacts DEF Holds
<1>3. KwOf(rs, f) = c.kw
  <2>1. CASE f.kw = TRUE
    BY <2>1 DEF Holds, KwOf, frame_kidx
  <2>2. CASE f.kw = FALSE
    BY <2>2 DEF Holds, KwOf
  <2> QED  BY <2>1, <2>2 DEF Holds
<1>4. rs[frame_bidx(f)] = c.blk
  BY DEF Holds, frame_bidx
<1> QED  BY <1>2, <1>3, <1>4

\* What is written behind each other: arguments, a keyword Hash, a block.
Cells == Elems \cup {Arr(s) : s \in Seq(Elems)} \cup Kws \cup {Block, ToProc, Stale}
            \cup {Key(k) : k \in Keys}

LEMMA RowFacts ==
  ASSUME NEW S, NEW pos \in Seq(S), NEW kd, kd = None \/ kd \in S, NEW blk \in S
  PROVE  /\ Len(Append(Appended(pos, kd), blk)) = Len(pos) + (IF kd = None THEN 0 ELSE 1) + 1
         /\ \A i \in 1..Len(pos) : Append(Appended(pos, kd), blk)[i] = pos[i]
         /\ kd # None => Append(Appended(pos, kd), blk)[Len(pos) + 1] = kd
         /\ Append(Appended(pos, kd), blk)[Len(pos) + (IF kd = None THEN 0 ELSE 1) + 1] = blk
<1> DEFINE mid == Appended(pos, kd)
<1>1. /\ mid \in Seq(S) /\ Len(pos) \in Nat
      /\ Len(mid) = Len(pos) + (IF kd = None THEN 0 ELSE 1)
      /\ kd # None => mid[Len(pos) + 1] = kd
      /\ \A i \in 1..Len(pos) : mid[i] = pos[i]
  <2>1. /\ Appended(pos, kd) \in Seq(S)
        /\ Len(Appended(pos, kd)) = Len(pos) + (IF kd = None THEN 0 ELSE 1)
        /\ kd # None => Appended(pos, kd)[Len(pos) + 1] = kd
        /\ \A i \in 1..Len(pos) : Appended(pos, kd)[i] = pos[i]
    BY AppendedFacts
  <2>2. Len(pos) \in Nat
    BY SeqFacts
  <2> QED  BY <2>1, <2>2
<1>2. /\ Len(Append(mid, blk)) = Len(mid) + 1
      /\ Append(mid, blk)[Len(mid) + 1] = blk
      /\ \A i \in 1..Len(mid) : Append(mid, blk)[i] = mid[i]
  BY <1>1, AppendFacts
<1> HIDE DEF mid
<1>3. Append(Appended(pos, kd), blk) = Append(mid, blk)
  BY DEF mid
<1>4. CASE kd = None
  BY <1>1, <1>2, <1>3, <1>4
<1>5. CASE kd # None
  BY <1>1, <1>2, <1>3, <1>5
<1> QED  BY <1>4, <1>5

LEMMA CellFacts ==
  /\ Elems \subseteq Cells /\ Kws \subseteq Cells /\ {Nil, Block, ToProc} \subseteq Cells
  /\ \A s \in Seq(Elems) : Arr(s) \in Cells /\ s \in Seq(Cells)
<1>1. Elems \subseteq Cells /\ Kws \subseteq Cells /\ {Nil, Block, ToProc} \subseteq Cells
  BY DEF Cells, Elems
<1>2. \A s \in Seq(Elems) : Arr(s) \in Cells
  BY DEF Cells
<1>3. \A s \in Seq(Elems) : s \in Seq(Cells)
  BY <1>1, SeqMonotonic
<1> QED  BY <1>1, <1>2, <1>3

\* relay_args lays a call out as the frame will describe it.
LaidOut(c, args, kd, blk) ==
  /\ c.n \in 0..CALL_MAXARGS /\ c.nk = (IF kd = None THEN 0 ELSE CALL_MAXARGS)
  /\ c.regs = [r \in Regs |-> c.regs[r]]
  /\ Holds(c.regs, c.n, c.nk > 0, [args |-> args, kw |-> kd, blk |-> blk])

LEMMA RelayHolds ==
  ASSUME NEW rs, NEW args \in Seq(Elems), NEW kd \in Kws, NEW blk \in {Nil, Block}, NEW pack \in BOOLEAN
  PROVE  LaidOut(relay_args(rs, args, kd, blk, pack), args, kd, blk)
<1> DEFINE packed == pack \/ Len(args) >= CALL_MAXARGS
           pos == IF packed THEN <<Arr(args)>> ELSE args
           row == Append(Appended(pos, kd), blk)
           n == IF packed THEN CALL_MAXARGS ELSE Len(args)
           nk == IF kd = None THEN 0 ELSE CALL_MAXARGS
           k == IF kd = None THEN 0 ELSE 1
           out == Write(rs, 1, row)
<1>1. relay_args(rs, args, kd, blk, pack) = [regs |-> out, n |-> n, nk |-> nk]
  BY DEF relay_args
<1>2. Len(args) \in Nat /\ Arr(args) \in Cells /\ args \in Seq(Cells) /\ blk \in Cells /\ kd \in Cells
  BY CellFacts, SeqFacts
<1>3. n \in 0..CALL_MAXARGS /\ (nk > 0 <=> kd # None)
  BY <1>2, SizeFacts
<1>4. pos \in Seq(Cells) /\ Len(pos) = Width(n)
  <2>1. CASE packed
    BY <1>2, <2>1, OneFacts DEF Width
  <2>2. CASE ~packed
    BY <1>2, <2>2, SizeFacts DEF Width
  <2> QED  BY <2>1, <2>2
<1>5. /\ Len(row) = Width(n) + k + 1
      /\ \A i \in 1..Width(n) : row[i] = pos[i]
      /\ kd # None => row[Width(n) + 1] = kd
      /\ row[Width(n) + k + 1] = blk
  <2> HIDE DEF pos
  <2>1. kd = None \/ kd \in Cells
    BY <1>2
  <2>2. pos \in Seq(Cells) /\ blk \in Cells
    BY <1>2, <1>4
  <2>3. /\ Len(Append(Appended(pos, kd), blk)) = Len(pos) + (IF kd = None THEN 0 ELSE 1) + 1
        /\ \A i \in 1..Len(pos) : Append(Appended(pos, kd), blk)[i] = pos[i]
        /\ kd # None => Append(Appended(pos, kd), blk)[Len(pos) + 1] = kd
        /\ Append(Appended(pos, kd), blk)[Len(pos) + (IF kd = None THEN 0 ELSE 1) + 1] = blk
    BY <2>1, <2>2, RowFacts
  <2> QED  BY <1>4, <2>3
<1>6. \A r \in Regs : out[r] = IF r \in 1 .. 1 + Len(row) - 1 THEN row[r - 1 + 1] ELSE rs[r]
  <2> HIDE DEF row
  <2> QED  BY WriteFacts
<1>7. Width(n) \in Nat /\ Width(n) <= CALL_MAXARGS - 1 /\ n # CALL_MAXARGS => Width(n) = n
  BY <1>3, WidthFacts
<1>8. n = CALL_MAXARGS => Width(n) = 1
  BY DEF Width
<1> HIDE DEF row, out, n, pos, nk
<1>9. \A r \in 1 .. Width(n) + k + 1 : out[r] = row[r]
  <2> SUFFICES ASSUME NEW r \in 1 .. Width(n) + k + 1  PROVE out[r] = row[r]
    OBVIOUS
  <2>1. Width(n) \in Nat /\ r \in Regs /\ r - 1 + 1 = r /\ 1 + Len(row) - 1 = Width(n) + k + 1
    BY <1>3, <1>5, WidthFacts, SizeFacts
  <2> QED  BY <1>6, <2>1
<1>10. Width(n) \in Nat /\ (n # CALL_MAXARGS => Width(n) = n)
  BY <1>3, WidthFacts
<1>11. Positioned(out, n, args)
  <2>1. CASE packed
    <3>1. n = CALL_MAXARGS /\ pos = <<Arr(args)>> /\ Width(n) = 1
      BY <1>8, <2>1 DEF n, pos
    <3>2. 1 \in 1 .. Width(n) + k + 1 /\ 1 \in 1..Width(n)
      BY <3>1
    <3>3. out[1] = pos[1]
      BY <1>5, <1>9, <3>2
    <3> QED  BY <3>1, <3>3, ValueFacts DEF Positioned
  <2>2. CASE ~packed
    <3>1. n = Len(args) /\ pos = args /\ n # CALL_MAXARGS
      BY <1>2, <2>2, SizeFacts DEF n, pos
    <3>2. \A i \in 1..n : i \in 1..Width(n) /\ i \in 1 .. Width(n) + k + 1
      BY <1>10, <3>1
    <3> QED  BY <1>5, <1>9, <3>1, <3>2 DEF Positioned
  <2> QED  BY <2>1, <2>2
<1>12. kd # None => out[Width(n) + 1] = kd
  <2>1. kd # None => Width(n) + 1 \in 1 .. Width(n) + k + 1
    BY <1>10
  <2> QED  BY <1>5, <1>9, <2>1
<1>13. out[Width(n) + (IF nk > 0 THEN 1 ELSE 0) + 1] = blk
  <2>1. Width(n) + k + 1 \in 1 .. Width(n) + k + 1
    BY <1>10
  <2> QED  BY <1>3, <1>5, <1>9, <2>1
<1>14. Holds(out, n, nk > 0, [args |-> args, kw |-> kd, blk |-> blk])
  BY <1>3, <1>11, <1>12, <1>13 DEF Holds
<1>15. out = [r \in Regs |-> out[r]]
  BY WriteFacts DEF out
<1> QED  BY <1>1, <1>3, <1>14, <1>15 DEF nk, LaidOut

\* prepare_call makes what a call site or relay_args left a call the frame
\* describes: keywords in one Hash, the block behind it.
LEMMA PrepareHolds ==
  ASSUME NEW rs, NEW n \in 0..CALL_MAXARGS, NEW nk \in 0..CALL_MAXARGS, NEW hb \in BOOLEAN, NEW c \in Calls,
         Positioned(rs, n, c.args),
         nk = 0 <=> c.kw = None,
         nk = CALL_MAXARGS => rs[Width(n) + 1] = c.kw,
         nk # 0 /\ nk # CALL_MAXARGS => Hash(UNION {rs[Width(n) + 1 + 2 * i].keys : i \in 0 .. nk - 1}) = c.kw,
         hb => ensure_block(rs[Width(n) + 1 + (IF nk = CALL_MAXARGS THEN 1 ELSE 2 * nk)]) = c.blk,
         ~hb => c.blk = Nil
  PROVE  /\ Holds(prepare_call(rs, n, nk, hb), n, nk > 0, c)
         /\ prepare_call(rs, n, nk, hb) = [r \in Regs |-> prepare_call(rs, n, nk, hb)[r]]
<1> DEFINE w == Width(n)
           kds == IF nk = 0 THEN <<>> ELSE <<c.kw>>
           row == kds \o <<c.blk>>
           out == Write(rs, w + 1, row)
           k == IF nk = 0 THEN 0 ELSE 1
<1>1. prepare_call(rs, n, nk, hb) = out
  <2>1. CASE nk = 0
    BY <2>1, SizeFacts DEF prepare_call
  <2>2. CASE nk # 0
    BY <2>2 DEF prepare_call
  <2> QED  BY <2>1, <2>2
<1>2. w \in Nat /\ w <= CALL_MAXARGS - 1 /\ (n = CALL_MAXARGS => w = 1) /\ (n # CALL_MAXARGS => w = n)
  BY WidthFacts
<1>3. Len(row) = k + 1 /\ (nk # 0 => row[1] = c.kw) /\ row[k + 1] = c.blk
  <2>1. c.blk \in Cells /\ c.kw \in Cells
    BY CallFacts, CellFacts
  <2>2. /\ Len(<<c.kw>> \o <<c.blk>>) = 2
        /\ (<<c.kw>> \o <<c.blk>>)[1] = c.kw /\ (<<c.kw>> \o <<c.blk>>)[2] = c.blk
        /\ Len(<<>> \o <<c.blk>>) = 1 /\ (<<>> \o <<c.blk>>)[1] = c.blk
    BY <2>1, PairFacts
  <2>3. CASE nk = 0
    <3>1. row = <<>> \o <<c.blk>> /\ k = 0
      BY <2>3
    <3> HIDE DEF row
    <3> QED  BY <2>2, <2>3, <3>1
  <2>4. CASE nk # 0
    <3>1. row = <<c.kw>> \o <<c.blk>> /\ k = 1
      BY <2>4
    <3> HIDE DEF row
    <3> QED  BY <2>2, <2>4, <3>1
  <2> QED  BY <2>3, <2>4
<1> HIDE DEF row, w, out
<1>4. \A r \in Regs : out[r] = IF r \in w + 1 .. w + 1 + Len(row) - 1 THEN row[r - (w + 1) + 1] ELSE rs[r]
  BY WriteFacts DEF out
<1>5. \A r \in 1..w : out[r] = rs[r]
  <2> SUFFICES ASSUME NEW r \in 1..w  PROVE out[r] = rs[r]
    OBVIOUS
  <2>1. r \in Regs /\ r \notin w + 1 .. w + 1 + Len(row) - 1
    BY <1>2, <1>3, SizeFacts
  <2> QED  BY <1>4, <2>1
<1>6. Positioned(out, n, c.args)
  <2>1. CASE n = CALL_MAXARGS
    <3>1. out[1] = rs[1]
      BY <1>2, <1>5, <2>1
    <3> QED  BY <2>1, <3>1 DEF Positioned
  <2>2. CASE n # CALL_MAXARGS
    BY <1>2, <1>5, <2>2 DEF Positioned
  <2> QED  BY <2>1, <2>2
<1>7. nk # 0 => out[w + 1] = c.kw
  <2> SUFFICES ASSUME nk # 0  PROVE out[w + 1] = c.kw
    OBVIOUS
  <2>1. w + 1 \in Regs /\ w + 1 \in w + 1 .. w + 1 + Len(row) - 1 /\ w + 1 - (w + 1) + 1 = 1
    BY <1>2, <1>3, SizeFacts
  <2> QED  BY <1>3, <1>4, <2>1
<1>8. out[w + k + 1] = c.blk
  <2>0. k \in {0, 1}
    OBVIOUS
  <2> HIDE DEF k
  <2>1. /\ w + k + 1 \in Regs /\ w + k + 1 \in w + 1 .. w + 1 + Len(row) - 1
        /\ w + k + 1 - (w + 1) + 1 = k + 1
    BY <1>2, <1>3, <2>0, SizeFacts
  <2> QED  BY <1>2, <1>3, <1>4, <2>0, <2>1
<1>9. (nk > 0 <=> nk # 0) /\ (IF nk > 0 THEN 1 ELSE 0) = k
  BY SizeFacts
<1>10. Holds(out, n, nk > 0, c)
  BY <1>6, <1>7, <1>8, <1>9 DEF Holds, w
<1>11. out = [r \in Regs |-> out[r]]
  BY WriteFacts DEF out
<1> QED  BY <1>1, <1>10, <1>11

\* A new frame keeps the call it was made with.
LEMMA FramedHolds ==
  ASSUME NEW rs, NEW f, NEW c, NEW top \in Int, Holds(rs, f.n, f.kw, c)
  PROVE  /\ Holds(Framed(rs, f, top), f.n, f.kw, c)
         /\ Framed(rs, f, top) = [r \in Regs |-> Framed(rs, f, top)[r]]
<1> DEFINE out == Framed(rs, f, top)
           k == IF f.kw THEN 1 ELSE 0
<1>1. f.n \in 0..CALL_MAXARGS /\ f.kw \in BOOLEAN
  BY DEF Holds
<1>2. PICK w \in Nat : w = Width(f.n) /\ w <= CALL_MAXARGS - 1
                       /\ (f.n = CALL_MAXARGS => w = 1) /\ (f.n # CALL_MAXARGS => w = f.n)
  BY <1>1, WidthFacts
<1>3. frame_bidx(f) = w + k + 1 /\ k \in {0, 1}
  BY <1>2 DEF frame_bidx
<1>4. \A r \in Regs : out[r] = IF r \in frame_bidx(f) + 1 .. top - 1 THEN Nil ELSE rs[r]
  BY ClearFacts DEF Framed
<1> HIDE DEF out
<1>5. \A r \in 1 .. w + k + 1 : out[r] = rs[r]
  <2> SUFFICES ASSUME NEW r \in 1 .. w + k + 1  PROVE out[r] = rs[r]
    OBVIOUS
  <2>1. r \in Regs /\ r \notin frame_bidx(f) + 1 .. top - 1
    BY <1>2, <1>3, SizeFacts
  <2> QED  BY <1>4, <2>1
<1>6. Positioned(out, f.n, c.args)
  <2>1. CASE f.n = CALL_MAXARGS
    <3>1. 1 \in 1 .. w + k + 1
      BY <1>2, <1>3
    <3> QED  BY <1>5, <2>1, <3>1 DEF Positioned, Holds
  <2>2. CASE f.n # CALL_MAXARGS
    <3>1. \A i \in 1..f.n : i \in 1 .. w + k + 1
      BY <1>2, <1>3, <2>2
    <3> QED  BY <1>5, <2>2, <3>1 DEF Positioned, Holds
  <2> QED  BY <2>1, <2>2
<1>7. f.kw => out[w + 1] = rs[w + 1]
  <2>1. f.kw => w + 1 \in 1 .. w + k + 1
    BY <1>2
  <2> QED  BY <1>5, <2>1
<1>8. out[w + k + 1] = rs[w + k + 1]
  <2>1. w + k + 1 \in 1 .. w + k + 1
    BY <1>2, <1>3
  <2> QED  BY <1>5, <2>1
<1>9. Holds(out, f.n, f.kw, c)
  BY <1>1, <1>2, <1>6, <1>7, <1>8 DEF Holds
<1>10. out = [r \in Regs |-> out[r]]
  BY ClearFacts DEF out, Framed
<1> QED  BY <1>9, <1>10 DEF out

---------------------------------------------------------------------------
(* Arguments and parameters. *)

\* What is left for the rest, and the i-th parameter's value.
Over(f, n) == IF f.r = 1 /\ n > f.m1 + f.o + f.m2 THEN n - f.m1 - f.o - f.m2 ELSE 0
Source(a, j) == IF j <= Len(a) THEN a[j] ELSE Nil
Param(f, a, i) ==
  LET g == Given(f, Len(a))
      over == Over(f, Len(a))
  IN  IF i <= f.m1 + g THEN Source(a, i)
      ELSE IF i <= f.m1 + f.o THEN Default
      ELSE IF i <= f.m1 + f.o + f.r THEN Arr(SubSeq(a, f.m1 + f.o + 1, f.m1 + f.o + over))
      ELSE Source(a, i - f.o - f.r + g + over)

\* Declared, from the arguments that are given.
Dealt(f, given) ==
  LET kept == IF f.r = 0 /\ Len(given) > Size(f) THEN SubSeq(given, 1, Size(f)) ELSE given
      args == kept \o [i \in 1 .. Max({f.m1 + f.m2 - Len(kept), 0}) |-> Nil]
      opts == Min({f.o, Len(args) - f.m1 - f.m2})
  IN  SubSeq(args, 1, f.m1 + opts)
      \o [i \in 1 .. f.o - opts |-> Default]
      \o (IF f.r = 1 THEN <<Arr(SubSeq(args, f.m1 + opts + 1, Len(args) - f.m2))>> ELSE <<>>)
      \o SubSeq(args, Len(args) - f.m2 + 1, Len(args))

LEMMA DeclaredIsDealt ==
  ASSUME NEW f, NEW c
  PROVE  Declared(f, c) = Dealt(f, Spread(f, Counted(f, c)))
BY DEF Declared, Dealt

LEMMA MadeSeq ==
  ASSUME NEW S, NEW n \in Nat, NEW s \in [1..n -> S]
  PROVE  s \in Seq(S) /\ Len(s) = n
<1>1. s \in Seq(S)
  BY SeqDef
<1>2. DOMAIN s = 1..n
  OBVIOUS
<1>3. Len(s) \in Nat /\ DOMAIN s = 1..Len(s)
  BY <1>1, LenProperties
<1> QED  BY <1>1, <1>2, <1>3

LEMMA ConstantSeq ==
  ASSUME NEW S, NEW e \in S, NEW n \in Nat
  PROVE  /\ [i \in 1..n |-> e] \in Seq(S) /\ Len([i \in 1..n |-> e]) = n
         /\ \A j \in 1..n : [i \in 1..n |-> e][j] = e
<1>1. [i \in 1..n |-> e] \in [1..n -> S] /\ \A j \in 1..n : [i \in 1..n |-> e][j] = e
  OBVIOUS
<1> QED  BY <1>1, MadeSeq

LEMMA TwoFacts ==
  ASSUME NEW S, NEW s \in Seq(S), NEW t \in Seq(S)
  PROVE  /\ s \o t \in Seq(S) /\ Len(s \o t) = Len(s) + Len(t)
         /\ \A i \in 1..Len(s) : (s \o t)[i] = s[i]
         /\ \A i \in 1..Len(t) : (s \o t)[Len(s) + i] = t[i]
<1>1. /\ s \o t \in Seq(S) /\ Len(s \o t) = Len(s) + Len(t)
      /\ \A i \in 1 .. Len(s) + Len(t) : (s \o t)[i] = IF i <= Len(s) THEN s[i] ELSE t[i - Len(s)]
  BY ConcatProperties
<1>2. Len(s) \in Nat /\ Len(t) \in Nat
  BY SeqFacts
<1>3. \A i \in 1..Len(s) : (s \o t)[i] = s[i]
  BY <1>1, <1>2
<1>4. \A i \in 1..Len(t) : (s \o t)[Len(s) + i] = t[i]
  <2> SUFFICES ASSUME NEW i \in 1..Len(t)  PROVE (s \o t)[Len(s) + i] = t[i]
    OBVIOUS
  <2>1. PICK j \in 1 .. Len(s) + Len(t) : j = Len(s) + i /\ j - Len(s) = i /\ ~(j <= Len(s))
    BY <1>2
  <2> QED  BY <1>1, <2>1
<1> QED  BY <1>1, <1>3, <1>4

Joined(s, t, u, v) == s \o t \o u \o v
BehindEachOther(S, s, t, u, v) ==
  /\ Joined(s, t, u, v) \in Seq(S) /\ Len(Joined(s, t, u, v)) = Len(s) + Len(t) + Len(u) + Len(v)
  /\ \A i \in 1..Len(s) : Joined(s, t, u, v)[i] = s[i]
  /\ \A i \in 1..Len(t) : Joined(s, t, u, v)[Len(s) + i] = t[i]
  /\ \A i \in 1..Len(u) : Joined(s, t, u, v)[Len(s) + Len(t) + i] = u[i]
  /\ \A i \in 1..Len(v) : Joined(s, t, u, v)[Len(s) + Len(t) + Len(u) + i] = v[i]

LEMMA FourFacts ==
  ASSUME NEW S, NEW s \in Seq(S), NEW t \in Seq(S), NEW u \in Seq(S), NEW v \in Seq(S)
  PROVE  BehindEachOther(S, s, t, u, v)
<1>0. Len(s) \in Nat /\ Len(t) \in Nat /\ Len(u) \in Nat /\ Len(v) \in Nat
  BY SeqFacts
<1>1. /\ s \o t \in Seq(S) /\ Len(s \o t) = Len(s) + Len(t)
      /\ \A i \in 1..Len(s) : (s \o t)[i] = s[i]
      /\ \A i \in 1..Len(t) : (s \o t)[Len(s) + i] = t[i]
  BY TwoFacts
<1> DEFINE st == s \o t
           stu == st \o u
           all == stu \o v
<1>2. st \in Seq(S) /\ Len(st) = Len(s) + Len(t)
  BY <1>1
<1> HIDE DEF st
<1>3. /\ st \o u \in Seq(S) /\ Len(st \o u) = Len(st) + Len(u)
      /\ \A i \in 1..Len(st) : (st \o u)[i] = st[i]
      /\ \A i \in 1..Len(u) : (st \o u)[Len(st) + i] = u[i]
  <2>1. st \in Seq(S)
    BY <1>2
  <2> QED  BY <2>1, TwoFacts
<1>4. stu \in Seq(S) /\ Len(stu) = Len(s) + Len(t) + Len(u)
  BY <1>0, <1>2, <1>3
<1> HIDE DEF stu
<1>5. /\ stu \o v \in Seq(S) /\ Len(stu \o v) = Len(stu) + Len(v)
      /\ \A i \in 1..Len(stu) : (stu \o v)[i] = stu[i]
      /\ \A i \in 1..Len(v) : (stu \o v)[Len(stu) + i] = v[i]
  <2>1. stu \in Seq(S)
    BY <1>4
  <2> QED  BY <2>1, TwoFacts
<1>6. all \in Seq(S) /\ Len(all) = Len(s) + Len(t) + Len(u) + Len(v)
  BY <1>0, <1>4, <1>5
<1>7. all = Joined(s, t, u, v)
  BY DEF stu, st, Joined
<1>8. /\ \A i \in 1..Len(stu) : all[i] = stu[i]
      /\ \A i \in 1..Len(v) : all[Len(stu) + i] = v[i]
  BY <1>5
<1> HIDE DEF all
<1>9. \A i \in 1..Len(s) : all[i] = s[i]
  <2> SUFFICES ASSUME NEW i \in 1..Len(s)  PROVE all[i] = s[i]
    OBVIOUS
  <2>1. i \in 1..Len(st) /\ i \in 1..Len(stu)
    BY <1>0, <1>2, <1>4
  <2>2. stu[i] = st[i] /\ st[i] = s[i]
    BY <1>1, <1>3, <2>1 DEF stu, st
  <2> QED  BY <1>8, <2>1, <2>2
<1>10. \A i \in 1..Len(t) : all[Len(s) + i] = t[i]
  <2> SUFFICES ASSUME NEW i \in 1..Len(t)  PROVE all[Len(s) + i] = t[i]
    OBVIOUS
  <2>1. Len(s) + i \in 1..Len(st) /\ Len(s) + i \in 1..Len(stu)
    BY <1>0, <1>2, <1>4
  <2>2. st[Len(s) + i] = t[i]
    BY <1>1 DEF st
  <2>3. stu[Len(s) + i] = st[Len(s) + i]
    BY <1>3, <2>1 DEF stu
  <2> QED  BY <1>8, <2>1, <2>2, <2>3
<1>11. \A i \in 1..Len(u) : all[Len(s) + Len(t) + i] = u[i]
  <2> SUFFICES ASSUME NEW i \in 1..Len(u)  PROVE all[Len(s) + Len(t) + i] = u[i]
    OBVIOUS
  <2>1. Len(s) + Len(t) + i \in 1..Len(stu)
    BY <1>0, <1>4
  <2>2. stu[Len(s) + Len(t) + i] = u[i]
    BY <1>2, <1>3 DEF stu
  <2> QED  BY <1>8, <2>1, <2>2
<1>12. \A i \in 1..Len(v) : all[Len(s) + Len(t) + Len(u) + i] = v[i]
  BY <1>4, <1>8
<1> QED  BY <1>6, <1>7, <1>9, <1>10, <1>11, <1>12 DEF BehindEachOther

LEMMA GivenFacts ==
  ASSUME NEW f \in Params, NEW n \in Nat
  PROVE  /\ Given(f, n) \in Nat /\ Given(f, n) <= f.o /\ Over(f, n) \in Nat
         /\ n >= Size(f) => Given(f, n) = f.o /\ (f.r = 0 => Over(f, n) = 0)
                            /\ (f.r = 1 => Over(f, n) = n - f.m1 - f.o - f.m2)
         /\ n < Size(f) => Over(f, n) = 0
         /\ n < Size(f) /\ n >= f.m1 + f.m2 => Given(f, n) = n - f.m1 - f.m2
         /\ n < Size(f) /\ n < f.m1 + f.m2 => Given(f, n) = 0
<1>1. Max({n - f.m1 - f.m2, 0}) = IF n - f.m1 - f.m2 >= 0 THEN n - f.m1 - f.m2 ELSE 0
  <2>1. n - f.m1 - f.m2 \in Int /\ 0 \in Int
    BY ParamFacts
  <2> QED  BY <2>1, MaxOfTwo
<1> QED  BY <1>1, ParamFacts DEF Given, Over

\* Ruby's rule, one parameter at a time.
LEMMA DealtFacts ==
  ASSUME NEW f \in Params, NEW a \in Seq(Elems)
  PROVE  /\ Dealt(f, a) \in Seq(Cells) /\ Len(Dealt(f, a)) = Size(f)
         /\ \A i \in 1..Size(f) : Dealt(f, a)[i] = Param(f, a, i)
<1> DEFINE m1 == f.m1
           o == f.o
           m2 == f.m2
           r == f.r
           size == Size(f)
           n == Len(a)
           kept == IF r = 0 /\ n > size THEN SubSeq(a, 1, size) ELSE a
           k == Len(kept)
           lack == Max({m1 + m2 - k, 0})
           nils == [i \in 1..lack |-> Nil]
           args == kept \o nils
           l == Len(args)
           opts == Min({o, l - m1 - m2})
           g == Given(f, n)
           over == Over(f, n)
           first == SubSeq(args, 1, m1 + opts)
           defs == [i \in 1 .. o - opts |-> Default]
           mine == SubSeq(args, m1 + opts + 1, l - m2)
           theirs == SubSeq(a, m1 + o + 1, m1 + o + over)
           rest == IF r = 1 THEN <<Arr(mine)>> ELSE <<>>
           last == SubSeq(args, l - m2 + 1, l)
<1>1. Dealt(f, a) = first \o defs \o rest \o last
  BY DEF Dealt
<1>2. m1 \in Nat /\ o \in Nat /\ m2 \in Nat /\ r \in {0, 1} /\ size \in Nat /\ size = m1 + o + r + m2
  BY ParamFacts
<1>3. n \in Nat
  BY SeqFacts
<1>4. \A i : Param(f, a, i) = IF i <= m1 + g THEN Source(a, i)
                              ELSE IF i <= m1 + o THEN Default
                              ELSE IF i <= m1 + o + r THEN Arr(theirs)
                              ELSE Source(a, i - o - r + g + over)
  BY DEF Param
<1>5. \A i : Source(a, i) = IF i <= n THEN a[i] ELSE Nil
  BY DEF Source
<1>6. /\ g \in Nat /\ g <= o /\ over \in Nat
      /\ n >= size => g = o /\ (r = 0 => over = 0) /\ (r = 1 => over = n - m1 - o - m2)
      /\ n < size => over = 0
      /\ n < size /\ n >= m1 + m2 => g = n - m1 - m2
      /\ n < size /\ n < m1 + m2 => g = 0
  BY <1>3, GivenFacts
<1> HIDE DEF m1, o, m2, r, size, n, g, over
<1>7. kept \in Seq(Elems) /\ (\A i \in 1..k : kept[i] = a[i]) /\ k = IF r = 0 /\ n > size THEN size ELSE n
  <2>1. CASE r = 0 /\ n > size
    <3>1. size <= Len(a) /\ 1 \in Nat /\ 1 >= 1 /\ size \in Int
      BY <1>2, <1>3, <2>1 DEF n
    <3>2. /\ SubSeq(a, 1, size) \in Seq(Elems)
          /\ Len(SubSeq(a, 1, size)) = IF 1 <= size THEN size - 1 + 1 ELSE 0
          /\ \A i \in 1 .. size - 1 + 1 : SubSeq(a, 1, size)[i] = a[1 + i - 1]
      BY <3>1, CutFacts
    <3>3. kept = SubSeq(a, 1, size)
      BY <2>1
    <3> HIDE DEF kept
    <3>4. k = size
      BY <1>2, <3>2, <3>3
    <3> HIDE DEF k
    <3>5. \A i \in 1..k : i \in 1 .. size - 1 + 1 /\ 1 + i - 1 = i
      BY <1>2, <3>4
    <3> QED  BY <2>1, <3>2, <3>3, <3>4, <3>5
  <2>2. CASE ~(r = 0 /\ n > size)
    BY <2>2 DEF n
  <2> QED  BY <2>1, <2>2
<1>8. k \in Nat
  BY <1>7, SeqFacts
<1> HIDE DEF kept
<1>9. lack \in Nat /\ lack = IF m1 + m2 - k >= 0 THEN m1 + m2 - k ELSE 0
  <2> HIDE DEF k
  <2>1. m1 + m2 - k \in Int /\ 0 \in Int
    BY <1>2, <1>8
  <2>2. Max({m1 + m2 - k, 0}) = IF m1 + m2 - k >= 0 THEN m1 + m2 - k ELSE 0
    BY <2>1, MaxOfTwo
  <2> QED  BY <2>1, <2>2
<1> HIDE DEF lack
<1>10. nils \in Seq(Elems) /\ Len(nils) = lack /\ \A j \in 1..lack : nils[j] = Nil
  <2>1. Nil \in Elems /\ lack \in Nat
    BY <1>9 DEF Elems
  <2> QED  BY <2>1, ConstantSeq
<1> HIDE DEF nils
<1>11. /\ args \in Seq(Elems) /\ l = k + lack
       /\ \A i \in 1..k : args[i] = kept[i]
       /\ \A i \in 1..lack : args[k + i] = nils[i]
  <2>1. kept \in Seq(Elems) /\ nils \in Seq(Elems)
    BY <1>7, <1>10
  <2>2. /\ kept \o nils \in Seq(Elems) /\ Len(kept \o nils) = Len(kept) + Len(nils)
        /\ \A i \in 1..Len(kept) : (kept \o nils)[i] = kept[i]
        /\ \A i \in 1..Len(nils) : (kept \o nils)[Len(kept) + i] = nils[i]
    BY <2>1, TwoFacts
  <2> QED  BY <1>10, <2>2
<1> HIDE DEF args, k, l
<1>12. l \in Nat /\ l = m1 + m2 + g + over
  BY <1>2, <1>3, <1>6, <1>7, <1>8, <1>9, <1>11
<1>13. \A i \in 1..l : args[i] = Source(a, i)
  <2> SUFFICES ASSUME NEW i \in 1..l  PROVE args[i] = Source(a, i)
    OBVIOUS
  <2>1. CASE i <= k
    <3>1. i \in 1..k /\ i <= n
      BY <1>2, <1>3, <1>7, <1>8, <2>1
    <3> QED  BY <1>5, <1>7, <1>11, <3>1
  <2>2. CASE ~(i <= k)
    <3>1. PICK j \in 1..lack : i = k + j
      BY <1>8, <1>9, <1>11, <1>12, <2>2
    <3>2. args[i] = Nil
      BY <1>10, <1>11, <3>1
    <3>3. ~(i <= n)
      BY <1>2, <1>3, <1>7, <1>8, <1>9, <2>2, <3>1
    <3> QED  BY <1>5, <3>2, <3>3
  <2> QED  BY <2>1, <2>2
<1>14. opts = g
  <2>1. o \in Int /\ l - m1 - m2 \in Int
    BY <1>2, <1>12
  <2>2. Min({o, l - m1 - m2}) = IF o <= l - m1 - m2 THEN o ELSE l - m1 - m2
    BY <2>1, MaxOfTwo
  <2>3. opts = IF o <= l - m1 - m2 THEN o ELSE l - m1 - m2
    BY <2>2
  <2> HIDE DEF opts
  <2>4. over > 0 => g = o
    BY <1>2, <1>3, <1>6
  <2> QED  BY <1>2, <1>6, <1>12, <2>3, <2>4
<1> HIDE DEF opts
<1>15. /\ first \in Seq(Elems) /\ Len(first) = m1 + g
       /\ \A i \in 1 .. m1 + g : first[i] = Source(a, i)
  <2> DEFINE to == m1 + opts
  <2>1. to \in Nat /\ to <= l /\ to = m1 + g
    BY <1>2, <1>6, <1>12, <1>14
  <2>2. first = SubSeq(args, 1, to)
    OBVIOUS
  <2> HIDE DEF to, first
  <2>3. /\ SubSeq(args, 1, to) \in Seq(Elems)
        /\ Len(SubSeq(args, 1, to)) = IF 1 <= to THEN to - 1 + 1 ELSE 0
        /\ \A i \in 1 .. to - 1 + 1 : SubSeq(args, 1, to)[i] = args[1 + i - 1]
    <3>1. args \in Seq(Elems)
      BY <1>11
    <3>2. 1 \in Nat /\ 1 >= 1 /\ to \in Int /\ to <= Len(args)
      BY <2>1 DEF l
    <3> QED  BY <3>1, <3>2, CutFacts
  <2>4. Len(first) = to
    BY <2>1, <2>2, <2>3
  <2>5. \A i \in 1..to : i \in 1..l /\ i \in 1 .. to - 1 + 1 /\ 1 + i - 1 = i
    BY <1>12, <2>1
  <2>6. \A i \in 1..to : first[i] = Source(a, i)
    BY <1>13, <2>2, <2>3, <2>5
  <2> QED  BY <2>1, <2>2, <2>3, <2>4, <2>6
<1>16. defs \in Seq(Elems) /\ Len(defs) = o - g /\ \A i \in 1 .. o - g : defs[i] = Default
  <2>1. Default \in Elems /\ o - opts \in Nat
    BY <1>2, <1>6, <1>14 DEF Elems
  <2>2. /\ [i \in 1 .. o - opts |-> Default] \in Seq(Elems)
        /\ Len([i \in 1 .. o - opts |-> Default]) = o - opts
        /\ \A i \in 1 .. o - opts : [j \in 1 .. o - opts |-> Default][i] = Default
    BY <2>1, ConstantSeq
  <2> QED  BY <1>14, <2>2
<1>17. /\ last \in Seq(Elems) /\ Len(last) = m2
       /\ \A i \in 1..m2 : last[i] = Source(a, m1 + g + over + i)
  <2> DEFINE from == l - m2 + 1
  <2>1. from = m1 + g + over + 1 /\ from \in Nat /\ from >= 1 /\ l = from + m2 - 1
    BY <1>2, <1>6, <1>12
  <2>2. last = SubSeq(args, from, l)
    OBVIOUS
  <2> HIDE DEF from, last
  <2>3. /\ SubSeq(args, from, l) \in Seq(Elems)
        /\ Len(SubSeq(args, from, l)) = IF from <= l THEN l - from + 1 ELSE 0
        /\ \A i \in 1 .. l - from + 1 : SubSeq(args, from, l)[i] = args[from + i - 1]
    <3>1. args \in Seq(Elems)
      BY <1>11
    <3>2. from \in Nat /\ from >= 1 /\ l \in Int /\ l <= Len(args)
      BY <1>12, <2>1 DEF l
    <3> QED  BY <3>1, <3>2, CutFacts
  <2>4. Len(last) = m2
    BY <1>2, <1>12, <2>1, <2>2, <2>3, SMTT(30)
  <2>5. ASSUME NEW i \in 1..m2  PROVE last[i] = Source(a, m1 + g + over + i)
    <3>1. i \in 1 .. l - from + 1
      BY <1>2, <1>12, <2>1
    <3>2. last[i] = args[from + i - 1]
      BY <2>2, <2>3, <3>1
    <3>3. from + i - 1 \in 1..l /\ from + i - 1 = m1 + g + over + i
      BY <1>2, <1>6, <1>12, <2>1
    <3> QED  BY <1>13, <3>2, <3>3
  <2> QED  BY <2>2, <2>3, <2>4, <2>5
<1>18. ASSUME r = 1  PROVE mine = theirs /\ mine \in Seq(Elems)
  <2>1. m1 + opts + 1 = m1 + g + 1 /\ l - m2 = m1 + g + over
    BY <1>2, <1>6, <1>12, <1>14
  <2>2. CASE over = 0
    <3>1. /\ m1 + opts + 1 \in Int /\ l - m2 \in Int /\ l - m2 < m1 + opts + 1
          /\ m1 + o + 1 \in Int /\ m1 + o + over \in Int /\ m1 + o + over < m1 + o + 1
      BY <1>2, <1>6, <1>12, <2>1, <2>2
    <3>2. mine = <<>> /\ theirs = <<>>
      BY <3>1, SubSeqEmpty
    <3>3. <<>> \in Seq(Elems)
      BY EmptySeq
    <3> QED  BY <3>2, <3>3
  <2>3. CASE over # 0
    <3>1. g = o /\ n = m1 + o + m2 + over
      BY <1>2, <1>3, <1>6, <2>3, <1>18
    <3> DEFINE from == m1 + o + 1
               to == m1 + o + over
    <3>2. /\ from \in Nat /\ from >= 1 /\ to \in Int /\ to <= l /\ to <= n
          /\ m1 + opts + 1 = from /\ l - m2 = to
      BY <1>2, <1>6, <1>12, <2>1, <3>1
    <3>3. mine = SubSeq(args, from, to) /\ theirs = SubSeq(a, from, to)
      BY <3>2
    <3> HIDE DEF mine, theirs, from, to
    <3>4. /\ SubSeq(args, from, to) \in Seq(Elems)
          /\ Len(SubSeq(args, from, to)) = IF from <= to THEN to - from + 1 ELSE 0
          /\ \A i \in 1 .. to - from + 1 : SubSeq(args, from, to)[i] = args[from + i - 1]
      <4>1. args \in Seq(Elems)
        BY <1>11
      <4>2. from \in Nat /\ from >= 1 /\ to \in Int /\ to <= Len(args)
        BY <3>2 DEF l
      <4> QED  BY <4>1, <4>2, CutFacts
    <3>5. /\ SubSeq(a, from, to) \in Seq(Elems)
          /\ Len(SubSeq(a, from, to)) = IF from <= to THEN to - from + 1 ELSE 0
          /\ \A i \in 1 .. to - from + 1 : SubSeq(a, from, to)[i] = a[from + i - 1]
      <4>1. from \in Nat /\ from >= 1 /\ to \in Int /\ to <= Len(a)
        BY <3>2 DEF n
      <4> QED  BY <4>1, CutFacts
    <3>6. ASSUME NEW i \in 1 .. to - from + 1
          PROVE  SubSeq(args, from, to)[i] = SubSeq(a, from, to)[i]
      <4>1. from + i - 1 \in 1..l /\ from + i - 1 <= n
        BY <1>3, <1>12, <3>2
      <4>2. args[from + i - 1] = a[from + i - 1]
        BY <1>5, <1>13, <4>1
      <4> QED  BY <3>4, <3>5, <4>2
    <3>7. mine \in Seq(Elems) /\ theirs \in Seq(Elems) /\ Len(mine) = Len(theirs)
      BY <3>3, <3>4, <3>5
    <3>8. \A i \in 1..Len(mine) : mine[i] = theirs[i]
      <4>1. \A i \in 1..Len(mine) : i \in 1 .. to - from + 1
        BY <3>2, <3>3, <3>4
      <4> QED  BY <3>3, <3>6, <4>1
    <3>9. mine = theirs
      BY <3>7, <3>8, SeqEqual
    <3> QED  BY <3>7, <3>9
  <2> QED  BY <2>2, <2>3
<1> HIDE DEF mine, theirs
<1>19. rest \in Seq(Cells) /\ Len(rest) = r /\ (r = 1 => rest[1] = Arr(theirs))
  <2>1. CASE r = 1
    <3>1. rest = <<Arr(theirs)>> /\ Arr(theirs) \in Cells
      BY <1>18, <2>1, CellFacts
    <3> HIDE DEF rest
    <3> QED  BY <2>1, <3>1, OneFacts
  <2>2. CASE r # 1
    <3>1. rest = <<>> /\ r = 0
      BY <1>2, <2>2
    <3>2. <<>> \in Seq(Cells) /\ Len(<<>>) = 0
      BY EmptySeq
    <3> HIDE DEF rest
    <3> QED  BY <3>1, <3>2
  <2> QED  BY <2>1, <2>2
<1> HIDE DEF first, defs, rest, last
<1>20. first \in Seq(Cells) /\ defs \in Seq(Cells) /\ rest \in Seq(Cells) /\ last \in Seq(Cells)
  BY <1>15, <1>16, <1>17, <1>19, CellFacts
<1> DEFINE all == Joined(first, defs, rest, last)
<1>21. /\ all \in Seq(Cells)
       /\ Len(all) = Len(first) + Len(defs) + Len(rest) + Len(last)
       /\ \A i \in 1..Len(first) : all[i] = first[i]
       /\ \A i \in 1..Len(defs) : all[Len(first) + i] = defs[i]
       /\ \A i \in 1..Len(rest) : all[Len(first) + Len(defs) + i] = rest[i]
       /\ \A i \in 1..Len(last) : all[Len(first) + Len(defs) + Len(rest) + i] = last[i]
  <2>1. BehindEachOther(Cells, first, defs, rest, last)
    BY <1>20, FourFacts
  <2> QED  BY <2>1 DEF BehindEachOther
<1> HIDE DEF all
<1>22. Dealt(f, a) = all
  BY <1>1 DEF all, Joined
<1> DEFINE d == Dealt(f, a)
<1>23. /\ Len(d) = m1 + g + (o - g) + r + m2
       /\ \A i \in 1 .. m1 + g : d[i] = Source(a, i)
       /\ \A i \in 1 .. o - g : d[m1 + g + i] = Default
       /\ \A i \in 1 .. r : d[m1 + g + (o - g) + i] = rest[i]
       /\ \A i \in 1 .. m2 : d[m1 + g + (o - g) + r + i] = Source(a, m1 + g + over + i)
  <2>1. Len(first) = m1 + g /\ Len(defs) = o - g /\ Len(rest) = r /\ Len(last) = m2 /\ d = all
    BY <1>15, <1>16, <1>17, <1>19, <1>22
  <2> HIDE DEF d
  <2>2. Len(d) = m1 + g + (o - g) + r + m2
    BY <1>21, <2>1
  <2>3. \A i \in 1 .. m1 + g : d[i] = Source(a, i)
    BY <1>15, <1>21, <2>1
  <2>4. \A i \in 1 .. o - g : d[m1 + g + i] = Default
    BY <1>16, <1>21, <2>1
  <2>5. \A i \in 1 .. r : d[m1 + g + (o - g) + i] = rest[i]
    BY <1>21, <2>1
  <2>6. \A i \in 1 .. m2 : d[m1 + g + (o - g) + r + i] = Source(a, m1 + g + over + i)
    BY <1>17, <1>21, <2>1
  <2> QED  BY <2>2, <2>3, <2>4, <2>5, <2>6
<1> HIDE DEF d
<1>24. Len(d) = size
  BY <1>2, <1>6, <1>23
<1>25. ASSUME NEW i \in 1..size  PROVE d[i] = Param(f, a, i)
  <2>1. CASE i <= m1 + g
    <3>1. i \in 1 .. m1 + g
      BY <1>2, <1>6, <2>1
    <3> QED  BY <1>4, <1>23, <2>1, <3>1
  <2>2. CASE ~(i <= m1 + g) /\ i <= m1 + o
    <3>1. PICK j \in 1 .. o - g : i = m1 + g + j
      BY <1>2, <1>6, <2>2
    <3> QED  BY <1>4, <1>23, <2>2, <3>1
  <2>3. CASE ~(i <= m1 + o) /\ i <= m1 + o + r
    <3>1. r = 1 /\ 1 \in 1..r /\ i = m1 + g + (o - g) + 1 /\ ~(i <= m1 + g)
      BY <1>2, <1>6, <2>3
    <3>2. d[i] = Arr(theirs)
      BY <1>19, <1>23, <3>1
    <3> QED  BY <1>4, <2>3, <3>1, <3>2
  <2>4. CASE ~(i <= m1 + o + r)
    <3>1. PICK j \in 1..m2 : i = m1 + g + (o - g) + r + j
      BY <1>2, <1>6, <2>4
    <3>2. d[i] = Source(a, m1 + g + over + j)
      BY <1>23, <3>1
    <3>3. m1 + g + over + j = i - o - r + g + over /\ ~(i <= m1 + g) /\ ~(i <= m1 + o)
      BY <1>2, <1>6, <2>4, <3>1
    <3> QED  BY <1>4, <2>4, <3>2, <3>3
  <2> QED  BY <1>2, <1>6, <2>1, <2>2, <2>3, <2>4
<1> QED  BY <1>21, <1>22, <1>24, <1>25 DEF size, d

---------------------------------------------------------------------------
(* What OP_ENTER puts into the registers of the parameters. *)

Bound(rs, f, a) == IF Len(a) < Size(f) THEN Few(rs, f, a) ELSE Enough(rs, f, a)

\* A register of the parameters, after one write or one clearing.
LEMMA ParamRegisters ==
  ASSUME NEW f \in Params
  PROVE  \A i \in 1..Size(f) : i \in Regs
BY ParamFacts, SizeFacts

LEMMA FewBinds ==
  ASSUME NEW f \in Params, NEW a \in Seq(Elems), NEW rs, Len(a) < Size(f), NEW i \in 1..Size(f),
         i \notin f.m1 + Given(f, Len(a)) + 1 .. f.m1 + f.o
  PROVE  Few(rs, f, a)[i] = Param(f, a, i)
<1> DEFINE m1 == f.m1
           o == f.o
           m2 == f.m2
           r == f.r
           size == Size(f)
           n == Len(a)
           mlen == IF n < m1 + m2 THEN Max({n - m1, 0}) ELSE m2
           front == Min({n - mlen, m1 + o})
           post == size - m2 + 1
           head == SubSeq(a, 1, front)
           tail == SubSeq(a, n - mlen + 1, n)
           none == <<Arr(<<>>)>>
           rs0 == Write(rs, 1, head)
           rs1 == Clear(rs0, n + 1, m1)
           rsp == Write(rs1, post, tail)
           rs2 == Clear(rsp, post + mlen, post + m2 - 1)
           rs3 == Write(rs2, m1 + o + 1, none)
           g == Given(f, n)
           over == Over(f, n)
           theirs == SubSeq(a, m1 + o + 1, m1 + o + over)
<1>1. Few(rs, f, a) = IF r = 1 THEN rs3 ELSE rs2
  BY DEF Few
<1>2. m1 \in Nat /\ o \in Nat /\ m2 \in Nat /\ r \in {0, 1} /\ size \in Nat /\ size = m1 + o + r + m2
  BY ParamFacts
<1>3. n \in Nat /\ n < size /\ i \in 1..size /\ i \in Regs /\ i \notin m1 + g + 1 .. m1 + o
  BY SeqFacts, ParamRegisters
<1>4. Param(f, a, i) = IF i <= m1 + g THEN Source(a, i)
                       ELSE IF i <= m1 + o THEN Default
                       ELSE IF i <= m1 + o + r THEN Arr(theirs)
                       ELSE Source(a, i - o - r + g + over)
  BY DEF Param
<1>5. \A j : Source(a, j) = IF j <= n THEN a[j] ELSE Nil
  BY DEF Source
<1>6. /\ g \in Nat /\ g <= o /\ over = 0
      /\ n >= m1 + m2 => g = n - m1 - m2
      /\ n < m1 + m2 => g = 0
  BY <1>3, GivenFacts
<1>7. none[1] = Arr(<<>>) /\ Len(none) = 1
  OBVIOUS
<1> HIDE DEF m1, o, m2, r, size, n, g, over, none
<1>8. mlen \in Nat /\ mlen <= n /\ mlen = IF n < m1 + m2 THEN (IF n >= m1 THEN n - m1 ELSE 0) ELSE m2
  <2>1. n - m1 \in Int /\ 0 \in Int
    BY <1>2, <1>3
  <2>2. Max({n - m1, 0}) = IF n - m1 >= 0 THEN n - m1 ELSE 0
    BY <2>1, MaxOfTwo
  <2>3. mlen = IF n < m1 + m2 THEN (IF n - m1 >= 0 THEN n - m1 ELSE 0) ELSE m2
    BY <2>2
  <2> HIDE DEF mlen
  <2> QED  BY <1>2, <1>3, <2>3
<1> HIDE DEF mlen
<1>9. front \in Nat /\ front = IF n - mlen <= m1 + o THEN n - mlen ELSE m1 + o
  <2>1. n - mlen \in Int /\ m1 + o \in Int
    BY <1>2, <1>3, <1>8
  <2>2. Min({n - mlen, m1 + o}) = IF n - mlen <= m1 + o THEN n - mlen ELSE m1 + o
    BY <2>1, MaxOfTwo
  <2>3. front = IF n - mlen <= m1 + o THEN n - mlen ELSE m1 + o
    BY <2>2
  <2> HIDE DEF front
  <2> QED  BY <1>2, <1>3, <1>8, <2>3
<1> HIDE DEF front
<1>10. /\ front <= n /\ front <= m1 + g
       /\ n >= m1 + g => front = m1 + g
       /\ n < m1 + g => front = n
  BY <1>2, <1>3, <1>6, <1>8, <1>9
<1>11. Len(head) = front /\ \A j \in 1..front : head[j] = a[j]
  <2>1. 1 \in Nat /\ 1 >= 1 /\ front \in Int /\ front <= Len(a)
    BY <1>9, <1>10 DEF n
  <2>2. /\ Len(SubSeq(a, 1, front)) = IF 1 <= front THEN front - 1 + 1 ELSE 0
        /\ \A j \in 1 .. front - 1 + 1 : SubSeq(a, 1, front)[j] = a[1 + j - 1]
    BY <2>1, CutFacts
  <2>3. \A j \in 1..front : j \in 1 .. front - 1 + 1 /\ 1 + j - 1 = j
    BY <1>9
  <2> QED  BY <1>9, <2>2, <2>3
<1>12. Len(tail) = mlen /\ \A j \in 1..mlen : tail[j] = a[n - mlen + j]
  <2> DEFINE from == n - mlen + 1
  <2>1. from \in Nat /\ from >= 1 /\ n \in Int /\ n = from + mlen - 1
    BY <1>3, <1>8
  <2>2. tail = SubSeq(a, from, n)
    OBVIOUS
  <2> HIDE DEF from, tail
  <2>3. /\ Len(SubSeq(a, from, n)) = IF from <= n THEN n - from + 1 ELSE 0
        /\ \A j \in 1 .. n - from + 1 : SubSeq(a, from, n)[j] = a[from + j - 1]
    <3>1. n <= Len(a)
      BY <1>3 DEF n
    <3> QED  BY <2>1, <3>1, CutFacts
  <2>4. Len(tail) = mlen
    BY <1>8, <2>1, <2>2, <2>3, SMTT(30)
  <2>5. \A j \in 1..mlen : j \in 1 .. n - from + 1 /\ from + j - 1 = n - mlen + j
    BY <1>3, <1>8, <2>1
  <2> QED  BY <2>2, <2>3, <2>4, <2>5, ZenonT(30)
<1> HIDE DEF head, tail
<1>13. rs0[i] = IF i \in 1 .. 1 + Len(head) - 1 THEN head[i - 1 + 1] ELSE rs[i]
  BY <1>3, WriteFacts
<1>14. rs1[i] = IF i \in n + 1 .. m1 THEN Nil ELSE rs0[i]
  <2> HIDE DEF rs0
  <2> QED  BY <1>3, ClearFacts
<1>15. rsp[i] = IF i \in post .. post + Len(tail) - 1 THEN tail[i - post + 1] ELSE rs1[i]
  <2> HIDE DEF rs1, post
  <2> QED  BY <1>3, WriteFacts
<1>16. rs2[i] = IF i \in post + mlen .. post + m2 - 1 THEN Nil ELSE rsp[i]
  <2> HIDE DEF rsp, post
  <2> QED  BY <1>3, ClearFacts
<1>17. rs3[i] = IF i \in m1 + o + 1 .. m1 + o + 1 + Len(none) - 1 THEN none[i - (m1 + o + 1) + 1] ELSE rs2[i]
  <2> HIDE DEF rs2
  <2> QED  BY <1>3, WriteFacts
<1>18. post \in Nat /\ post = m1 + o + r + 1 /\ size = post + m2 - 1
  BY <1>2
<1> HIDE DEF rs0, rs1, rsp, rs2, rs3, post
<1>19. CASE i <= m1 + g
  <2>1. i \notin post + mlen .. post + m2 - 1 /\ i \notin post .. post + Len(tail) - 1
        /\ i \notin m1 + o + 1 .. m1 + o + 1 + Len(none) - 1
    BY <1>2, <1>3, <1>6, <1>7, <1>8, <1>12, <1>18, <1>19
  <2>2. Few(rs, f, a)[i] = rs1[i]
    BY <1>1, <1>15, <1>16, <1>17, <2>1
  <2>3. CASE i <= n
    <3>1. i \in 1..front /\ i \notin n + 1 .. m1 /\ i - 1 + 1 = i
      BY <1>2, <1>3, <1>6, <1>9, <1>10, <1>19, <2>3
    <3>2. i \in 1 .. 1 + Len(head) - 1
      BY <1>9, <1>11, <3>1
    <3> QED  BY <1>4, <1>5, <1>11, <1>13, <1>14, <1>19, <2>2, <2>3, <3>1, <3>2
  <2>4. CASE ~(i <= n)
    <3>1. i \in n + 1 .. m1
      BY <1>2, <1>3, <1>6, <1>19, <2>4
    <3> QED  BY <1>4, <1>5, <1>14, <1>19, <2>2, <2>4, <3>1
  <2> QED  BY <2>3, <2>4
<1>20. CASE ~(i <= m1 + g) /\ i <= m1 + o + r
  <2>1. r = 1 /\ i = m1 + o + 1 /\ ~(i <= m1 + o)
    BY <1>2, <1>3, <1>6, <1>20
  <2>2. i \in m1 + o + 1 .. m1 + o + 1 + Len(none) - 1 /\ i - (m1 + o + 1) + 1 = 1
    BY <1>2, <1>7, <2>1
  <2>3. Few(rs, f, a)[i] = Arr(<<>>)
    BY <1>1, <1>7, <1>17, <2>1, <2>2
  <2>4. theirs = <<>>
    <3>1. m1 + o + 1 \in Int /\ m1 + o + over \in Int /\ m1 + o + over < m1 + o + 1
      BY <1>2, <1>6
    <3> QED  BY <3>1, SubSeqEmpty
  <2> QED  BY <1>4, <1>20, <2>1, <2>3, <2>4
<1>21. CASE ~(i <= m1 + o + r)
  <2>1. PICK j \in 1..m2 : i = post + j - 1 /\ ~(i <= m1 + g) /\ ~(i <= m1 + o)
    BY <1>2, <1>3, <1>6, <1>18, <1>21
  <2>2. i \notin m1 + o + 1 .. m1 + o + 1 + Len(none) - 1 \/ r = 0
    BY <1>2, <1>7, <1>21
  <2>3. Few(rs, f, a)[i] = rs2[i]
    BY <1>1, <1>17, <2>2
  <2>4. Param(f, a, i) = Source(a, m1 + g + j)
    <3>1. i - o - r + g + over = m1 + g + j
      BY <1>2, <1>6, <1>18, <2>1
    <3> QED  BY <1>4, <1>21, <2>1, <3>1
  <2>5. CASE j <= mlen
    <3>1. /\ i \notin post + mlen .. post + m2 - 1 /\ i \in post .. post + Len(tail) - 1
          /\ i - post + 1 = j /\ j \in 1..mlen
      BY <1>8, <1>12, <1>18, <2>1, <2>5, SMTT(30)
    <3>2. Few(rs, f, a)[i] = a[n - mlen + j]
      BY <1>12, <1>15, <1>16, <2>3, <3>1
    <3>3. n - mlen + j = m1 + g + j /\ m1 + g + j <= n
      BY <1>2, <1>3, <1>6, <1>8, <2>1, <2>5
    <3> QED  BY <1>5, <2>4, <3>2, <3>3
  <2>6. CASE ~(j <= mlen)
    <3>1. i \in post + mlen .. post + m2 - 1
      BY <1>2, <1>8, <1>18, <2>1, <2>6
    <3>2. ~(m1 + g + j <= n)
      BY <1>2, <1>3, <1>6, <1>8, <2>1, <2>6
    <3> QED  BY <1>5, <1>16, <2>3, <2>4, <3>1, <3>2
  <2> QED  BY <2>5, <2>6
<1> QED  BY <1>2, <1>6, <1>19, <1>20, <1>21

LEMMA EnoughBinds ==
  ASSUME NEW f \in Params, NEW a \in Seq(Elems), NEW rs, ~(Len(a) < Size(f)), NEW i \in 1..Size(f)
  PROVE  Enough(rs, f, a)[i] = Param(f, a, i)
<1> DEFINE m1 == f.m1
           o == f.o
           m2 == f.m2
           r == f.r
           size == Size(f)
           n == Len(a)
           over == Over(f, n)
           front == m1 + o
           rnum == IF r = 1 THEN n - front - m2 ELSE 0
           head == SubSeq(a, 1, front)
           mine == SubSeq(a, front + 1, front + rnum)
           rest == IF r = 1 THEN <<Arr(mine)>> ELSE <<>>
           tail == SubSeq(a, front + rnum + 1, front + rnum + m2)
           row == head \o rest \o tail
           out == Write(rs, 1, row)
           g == Given(f, n)
           theirs == SubSeq(a, m1 + o + 1, m1 + o + over)
<1>1. Enough(rs, f, a) = out
  BY DEF Enough
<1>2. m1 \in Nat /\ o \in Nat /\ m2 \in Nat /\ r \in {0, 1} /\ size \in Nat /\ size = m1 + o + r + m2
  BY ParamFacts
<1>3. n \in Nat /\ n >= size /\ i \in 1..size /\ i \in Regs
  <2>1. n \in Nat /\ ~(n < size)
    BY SeqFacts
  <2>2. i \in Regs
    BY ParamRegisters
  <2> HIDE DEF n
  <2> QED  BY <1>2, <2>1, <2>2
<1>4. Param(f, a, i) = IF i <= m1 + g THEN Source(a, i)
                       ELSE IF i <= m1 + o THEN Default
                       ELSE IF i <= m1 + o + r THEN Arr(theirs)
                       ELSE Source(a, i - o - r + g + over)
  BY DEF Param
<1>5. \A j : Source(a, j) = IF j <= n THEN a[j] ELSE Nil
  BY DEF Source
<1>6. over \in Nat /\ g = o /\ (r = 0 => over = 0) /\ (r = 1 => over = n - m1 - o - m2)
  BY <1>3, GivenFacts
<1> HIDE DEF m1, o, m2, r, size, n, g, over
<1>7. rnum = over /\ front \in Nat /\ front + over + m2 <= n /\ front = m1 + o
  BY <1>2, <1>3, <1>6
<1> HIDE DEF rnum, front
<1>8. mine = theirs
  BY <1>7
<1>9. head \in Seq(Elems) /\ Len(head) = front /\ \A j \in 1..front : head[j] = a[j]
  <2>1. 1 \in Nat /\ 1 >= 1 /\ front \in Int
    BY <1>7
  <2>2. front <= n
    BY <1>2, <1>3, <1>6, <1>7
  <2>3. front <= Len(a)
    BY <2>2 DEF n
  <2>4. /\ SubSeq(a, 1, front) \in Seq(Elems)
        /\ Len(SubSeq(a, 1, front)) = IF 1 <= front THEN front - 1 + 1 ELSE 0
        /\ \A j \in 1 .. front - 1 + 1 : SubSeq(a, 1, front)[j] = a[1 + j - 1]
    BY <2>1, <2>3, CutFacts
  <2>5. \A j \in 1..front : j \in 1 .. front - 1 + 1 /\ 1 + j - 1 = j
    BY <1>7
  <2>6. (IF 1 <= front THEN front - 1 + 1 ELSE 0) = front
    BY <1>7
  <2> QED  BY <2>4, <2>5, <2>6
<1>10. tail \in Seq(Elems) /\ Len(tail) = m2 /\ \A j \in 1..m2 : tail[j] = a[front + over + j]
  <2> DEFINE from == front + rnum + 1
             to == front + rnum + m2
  <2>1. from \in Nat /\ from >= 1 /\ to \in Int /\ to <= n /\ to = from + m2 - 1 /\ from = front + over + 1
    BY <1>2, <1>3, <1>6, <1>7
  <2>2. tail = SubSeq(a, from, to)
    OBVIOUS
  <2> HIDE DEF from, to, tail
  <2>3. /\ SubSeq(a, from, to) \in Seq(Elems)
        /\ Len(SubSeq(a, from, to)) = IF from <= to THEN to - from + 1 ELSE 0
        /\ \A j \in 1 .. to - from + 1 : SubSeq(a, from, to)[j] = a[from + j - 1]
    <3>1. to <= Len(a)
      BY <2>1 DEF n
    <3> QED  BY <2>1, <3>1, CutFacts
  <2>4. (IF from <= to THEN to - from + 1 ELSE 0) = m2
    BY <1>2, <2>1
  <2>5. \A j \in 1..m2 : j \in 1 .. to - from + 1 /\ from + j - 1 = front + over + j
    BY <1>2, <1>6, <1>7, <2>1
  <2> QED  BY <2>2, <2>3, <2>4, <2>5
<1>11. rest \in Seq(Cells) /\ Len(rest) = r /\ (r = 1 => rest[1] = Arr(theirs))
  <2>1. CASE r = 1
    <3>1. mine \in Seq(Elems)
      <4>1. front + 1 \in Nat /\ front + 1 >= 1 /\ front + rnum \in Int /\ front + rnum <= n
        BY <1>2, <1>3, <1>6, <1>7
      <4>2. front + rnum <= Len(a)
        BY <4>1 DEF n
      <4> QED  BY <4>1, <4>2, CutFacts
    <3>2. rest = <<Arr(theirs)>> /\ Arr(theirs) \in Cells
      BY <1>8, <2>1, <3>1, CellFacts
    <3> HIDE DEF rest, theirs
    <3> QED  BY <2>1, <3>2, OneFacts
  <2>2. CASE r # 1
    <3>1. rest = <<>> /\ r = 0
      BY <1>2, <2>2
    <3>2. <<>> \in Seq(Cells) /\ Len(<<>>) = 0
      BY EmptySeq
    <3> HIDE DEF rest
    <3> QED  BY <3>1, <3>2
  <2> QED  BY <2>1, <2>2
<1> HIDE DEF head, rest, tail, theirs
<1> DEFINE two == head \o rest
<1>12. head \in Seq(Cells) /\ tail \in Seq(Cells) /\ rest \in Seq(Cells)
  BY <1>9, <1>10, <1>11, CellFacts
<1>13. /\ two \in Seq(Cells) /\ Len(two) = Len(head) + Len(rest)
       /\ \A j \in 1..Len(head) : two[j] = head[j]
       /\ \A j \in 1..Len(rest) : two[Len(head) + j] = rest[j]
  BY <1>12, TwoFacts
<1>14. /\ row \in Seq(Cells) /\ Len(row) = Len(two) + Len(tail)
       /\ \A j \in 1..Len(two) : row[j] = two[j]
       /\ \A j \in 1..Len(tail) : row[Len(two) + j] = tail[j]
  <2>1. two \in Seq(Cells)
    BY <1>13
  <2>2. row = two \o tail
    OBVIOUS
  <2> HIDE DEF two, row
  <2>3. /\ two \o tail \in Seq(Cells) /\ Len(two \o tail) = Len(two) + Len(tail)
        /\ \A j \in 1..Len(two) : (two \o tail)[j] = two[j]
        /\ \A j \in 1..Len(tail) : (two \o tail)[Len(two) + j] = tail[j]
    BY <1>12, <2>1, TwoFacts
  <2> QED  BY <2>2, <2>3
<1> HIDE DEF two, row
<1>15. Len(row) = size
  BY <1>2, <1>7, <1>9, <1>10, <1>11, <1>13, <1>14
<1>16. out[i] = row[i]
  <2>1. out[i] = IF i \in 1 .. 1 + Len(row) - 1 THEN row[i - 1 + 1] ELSE rs[i]
    BY <1>3, WriteFacts
  <2> HIDE DEF out
  <2>2. i \in 1 .. 1 + Len(row) - 1 /\ i - 1 + 1 = i
    BY <1>2, <1>3, <1>15
  <2> QED  BY <2>1, <2>2
<1>17. CASE i <= m1 + o
  <2>1. i \in 1..front /\ i \in 1..Len(head) /\ i \in 1..Len(two) /\ i <= n /\ i <= m1 + g
    BY <1>2, <1>3, <1>6, <1>7, <1>9, <1>11, <1>13, <1>17
  <2> QED  BY <1>1, <1>4, <1>5, <1>9, <1>13, <1>14, <1>16, <2>1
<1>18. CASE ~(i <= m1 + o) /\ i <= m1 + o + r
  <2>1. r = 1 /\ i = front + 1 /\ ~(i <= m1 + g) /\ 1 \in 1..Len(rest) /\ i \in 1..Len(two) /\ i = Len(head) + 1
    BY <1>2, <1>3, <1>6, <1>7, <1>9, <1>11, <1>13, <1>18
  <2>2. out[i] = Arr(theirs)
    BY <1>11, <1>13, <1>14, <1>16, <2>1
  <2> QED  BY <1>1, <1>4, <1>18, <2>1, <2>2
<1>19. CASE ~(i <= m1 + o + r)
  <2>1. PICK j \in 1..m2 : i = m1 + o + r + j
    BY <1>2, <1>3, <1>19
  <2>2. j \in 1..Len(tail) /\ i = Len(two) + j
    BY <1>2, <1>7, <1>9, <1>10, <1>11, <1>13, <2>1
  <2>3. out[i] = a[front + over + j]
    BY <1>10, <1>14, <1>16, <2>2
  <2>4. /\ i - o - r + g + over = front + over + j /\ front + over + j <= n
        /\ ~(i <= m1 + g) /\ ~(i <= m1 + o)
    BY <1>2, <1>3, <1>6, <1>7, <1>19, <2>1
  <2> QED  BY <1>1, <1>4, <1>5, <1>19, <2>3, <2>4
<1> QED  BY <1>2, <1>3, <1>17, <1>18, <1>19

\* OP_ENTER serves the parameters in Ruby's order, for any parameter list and
\* any number of arguments.
LEMMA BoundFacts ==
  ASSUME NEW f \in Params, NEW a \in Seq(Elems), NEW rs, NEW i \in 1..Size(f)
  PROVE  Defaults(Bound(rs, f, a), f, Given(f, Len(a)))[i] = Param(f, a, i)
<1> DEFINE n == Len(a)
           g == Given(f, n)
           m1 == f.m1
           o == f.o
           row == [j \in 1 .. o - g |-> Default]
           from == m1 + g + 1
           rs0 == Bound(rs, f, a)
           out == Write(rs0, from, row)
<1>1. m1 \in Nat /\ o \in Nat /\ i \in Regs
  BY ParamFacts, ParamRegisters
<1>2. n \in Nat
  BY SeqFacts
<1>3. g \in Nat /\ g <= o
  BY <1>2, GivenFacts
<1>4. Defaults(rs0, f, g) = out
  BY DEF Defaults
<1>5. Param(f, a, i) = Default \/ i \notin from .. m1 + o
  <2>1. i \in from .. m1 + o => ~(i <= m1 + g) /\ i <= m1 + o
    <3> HIDE DEF m1, o, g
    <3> QED  BY <1>1, <1>3
  <2> QED  BY <2>1 DEF Param
<1>6. rs0[i] = Param(f, a, i) \/ i \in from .. m1 + o
  BY FewBinds, EnoughBinds DEF Bound
<1> HIDE DEF m1, o, g, rs0
<1>7. o - g \in Nat
  BY <1>1, <1>3
<1>8. Len(row) = o - g /\ \A j \in 1 .. o - g : row[j] = Default
  <2>1. Default \in {Default}
    OBVIOUS
  <2> QED  BY <1>7, <2>1, ConstantSeq
<1> HIDE DEF row
<1>9. out[i] = IF i \in from .. from + Len(row) - 1 THEN row[i - from + 1] ELSE rs0[i]
  <2> HIDE DEF from
  <2> QED  BY <1>1, WriteFacts
<1>10. from + Len(row) - 1 = m1 + o
  BY <1>1, <1>3, <1>8
<1>11. CASE i \in from .. m1 + o
  <2>1. i - from + 1 \in 1 .. o - g
    BY <1>1, <1>3, <1>11
  <2> QED  BY <1>4, <1>5, <1>8, <1>9, <1>10, <1>11, <2>1 DEF g, rs0
<1>12. CASE i \notin from .. m1 + o
  BY <1>4, <1>6, <1>9, <1>10, <1>12 DEF g, rs0
<1> QED  BY <1>11, <1>12

LEMMA SpreadFacts ==
  ASSUME NEW f, NEW a \in Seq(Elems)
  PROVE  /\ Spread(f, a) \in Seq(Elems)
         /\ f.strict => Spread(f, a) = a
<1>1. CASE ~f.strict /\ Size(f) > 1 /\ Len(a) = 1 /\ a[1].is = "array"
  <2>1. Spread(f, a) = a[1].arr
    BY <1>1 DEF Spread
  <2>2. 1 \in 1..Len(a)
    BY <1>1
  <2>3. a[1] \in Elems
    BY <2>2, SeqFacts
  <2>4. a[1] \in ArgVals
    BY <1>1, <2>3, ValueFacts DEF Elems, Hashes
  <2>5. a[1].arr \in Seq(ArgVals)
    BY <1>1, <2>4, ArgumentsAssumption
  <2>6. ArgVals \subseteq Elems
    BY DEF Elems
  <2>7. a[1].arr \in Seq(Elems)
    BY <2>5, <2>6, SeqMonotonic
  <2> QED  BY <1>1, <2>1, <2>7
<1>2. CASE ~(~f.strict /\ Size(f) > 1 /\ Len(a) = 1 /\ a[1].is = "array")
  BY <1>2 DEF Spread
<1> QED  BY <1>1, <1>2

LEMMA WithKwFacts ==
  ASSUME NEW a \in Seq(Elems), NEW kd \in Kws
  PROVE  /\ Appended(a, kd) \in Seq(Elems)
         /\ Appended(a, kdict_nonempty(kd)) \in Seq(Elems)
         /\ Appended(a, None) = a
<1>1. kd = None \/ kd \in Elems
  BY DEF Kws, Elems
<1>2. kdict_nonempty(kd) = None \/ kdict_nonempty(kd) \in Elems
  BY <1>1 DEF kdict_nonempty
<1> QED  BY <1>1, <1>2, AppendedFacts DEF Appended

\* OP_ENTER's own count and Ruby's agree, but where the count is wrong anyway.
LEMMA CountedFacts ==
  ASSUME NEW f \in Params, NEW c \in Calls, NEW n \in 0..CALL_MAXARGS, ~IsFast(f, n)
  PROVE  LET a == Appended(c.args, IF f.kd = 1 THEN None ELSE kdict_nonempty(c.kw))
         IN  /\ a \in Seq(Elems)
             /\ ~WrongCount(f, Len(Spread(f, a))) =>
                  a = Counted(f, c) /\ ~WrongCount(f, Len(Counted(f, c)))
             /\ WrongCount(f, Len(Spread(f, a))) => WrongCount(f, Len(a))
<1> DEFINE a == Appended(c.args, IF f.kd = 1 THEN None ELSE kdict_nonempty(c.kw))
<1>1. c.args \in Seq(Elems) /\ c.kw \in Kws
  BY CallFacts
<1>2. a \in Seq(Elems)
  BY <1>1, WithKwFacts
<1>3. f.strict => Spread(f, a) = a
  BY <1>2, SpreadFacts
<1>4. WrongCount(f, Len(Spread(f, a))) <=> WrongCount(f, Len(a))
  <2>1. CASE f.strict
    BY <1>3, <2>1
  <2>2. CASE ~f.strict
    BY <2>2 DEF WrongCount
  <2> QED  BY <2>1, <2>2
<1>5. ASSUME ~WrongCount(f, Len(a))  PROVE a = Counted(f, c)
  <2>1. CASE f.kd = 1
    BY <1>1, <2>1, WithKwFacts DEF Counted
  <2>2. CASE f.kd # 1 /\ ~(IsFast(f, 0) /\ Len(c.args) + 1 = f.m1)
    BY <2>2 DEF Counted
  <2>3. CASE f.kd # 1 /\ IsFast(f, 0) /\ Len(c.args) + 1 = f.m1
    <3>1. Counted(f, c) = Appended(c.args, c.kw) /\ a = Appended(c.args, kdict_nonempty(c.kw))
      BY <2>3 DEF Counted
    <3>2. CASE kdict_nonempty(c.kw) = c.kw
      BY <3>1, <3>2
    <3>3. CASE kdict_nonempty(c.kw) # c.kw
      <4>1. a = c.args
        BY <1>1, <3>1, <3>3, WithKwFacts DEF kdict_nonempty
      <4>2. Len(a) < f.m1
        <5>1. Len(c.args) \in Nat
          BY <1>1, SeqFacts
        <5> HIDE DEF a
        <5> QED  BY <2>3, <4>1, <5>1, ParamFacts
      <4>3. f.strict /\ Len(a) \in Nat
        BY <1>2, <2>3, SeqFacts DEF IsFast
      <4> HIDE DEF a
      <4>4. WrongCount(f, Len(a))
        BY <4>2, <4>3, ParamFacts DEF WrongCount
      <4> QED  BY <1>5, <4>4
    <3> QED  BY <3>2, <3>3
  <2> QED  BY <2>1, <2>2, <2>3
<1> QED  BY <1>2, <1>4, <1>5

\* The registers OP_ENTER leaves.
Entered(rs, f, a, h, blk) ==
  Clear(Write(Defaults(Bound(rs, f, a), f, Given(f, Len(a))), Size(f) + 1,
              Append(IF f.kd = 1 THEN <<h>> ELSE <<>>, blk)),
        Size(f) + f.kd + 2, NLocals(f) - 1)

Served(out, f, a, h, blk) ==
  /\ out = [r \in Regs |-> out[r]]
  /\ Read(out, 1, Size(f)) = Dealt(f, a)
  /\ f.kd = 1 => out[Size(f) + 1] = h
  /\ out[Size(f) + f.kd + 1] = blk
  /\ \A r \in Size(f) + f.kd + 2 .. NLocals(f) - 1 : out[r] = Nil

LEMMA EnteredFacts ==
  ASSUME NEW f \in Params, NEW a \in Seq(Elems), NEW rs, NEW h \in Kws, NEW blk \in {Nil, Block}
  PROVE  Served(Entered(rs, f, a, h, blk), f, a, h, blk)
<1> DEFINE row == Append(IF f.kd = 1 THEN <<h>> ELSE <<>>, blk)
           rs0 == Defaults(Bound(rs, f, a), f, Given(f, Len(a)))
           size == Size(f)
           kd == f.kd
           rs1 == Write(rs0, size + 1, row)
           from == size + kd + 2
           to == NLocals(f) - 1
           out == Clear(rs1, from, to)
<1>1. Entered(rs, f, a, h, blk) = out
  BY DEF Entered
<1>2. size \in Nat /\ kd \in {0, 1} /\ to = size + kd + 2 /\ MaxReg \in Nat /\ to < MaxReg /\ Regs = 0..MaxReg
  BY ParamFacts, SizeFacts
<1>3. Len(row) = kd + 1 /\ (kd = 1 => row[1] = h) /\ row[kd + 1] = blk
  <2>1. h \in Cells /\ blk \in Cells
    BY CellFacts
  <2>2. <<>> \in Seq(Cells) /\ Len(<<>>) = 0
    BY EmptySeq
  <2>3. <<h>> \in Seq(Cells) /\ Len(<<h>>) = 1 /\ <<h>>[1] = h
    BY <2>1, OneFacts
  <2>4. CASE kd = 1
    <3>1. Len(Append(<<h>>, blk)) = 2 /\ Append(<<h>>, blk)[2] = blk /\ Append(<<h>>, blk)[1] = h
      BY <2>1, <2>3
    <3>2. row = Append(<<h>>, blk)
      BY <2>4
    <3> QED  BY <2>4, <3>1, <3>2
  <2>5. CASE kd = 0
    <3>1. Len(Append(<<>>, blk)) = 1 /\ Append(<<>>, blk)[1] = blk
      BY <2>1, <2>2
    <3>2. row = Append(<<>>, blk)
      BY <2>5
    <3> QED  BY <2>5, <3>1, <3>2
  <2> QED  BY <1>2, <2>4, <2>5
<1>4. \A i \in 1..size : rs0[i] = Param(f, a, i)
  BY BoundFacts
<1>5. Dealt(f, a) \in Seq(Cells) /\ Len(Dealt(f, a)) = size /\ \A i \in 1..size : Dealt(f, a)[i] = Param(f, a, i)
  BY DealtFacts
<1> HIDE DEF row, rs0, size, kd, to
<1>6. \A r \in Regs : rs1[r] = IF r \in size + 1 .. size + 1 + Len(row) - 1 THEN row[r - (size + 1) + 1] ELSE rs0[r]
  BY WriteFacts
<1> HIDE DEF rs1
<1>7. \A r \in Regs : out[r] = IF r \in from..to THEN Nil ELSE rs1[r]
  BY ClearFacts
<1>8. out = [r \in Regs |-> out[r]]
  BY ClearFacts
<1> HIDE DEF out
<1>9. \A i \in 1..size : out[i] = Param(f, a, i)
  <2> SUFFICES ASSUME NEW i \in 1..size  PROVE out[i] = Param(f, a, i)
    OBVIOUS
  <2>1. i \in Regs /\ i \notin from..to /\ i \notin size + 1 .. size + 1 + Len(row) - 1
    BY <1>2, <1>3
  <2> QED  BY <1>4, <1>6, <1>7, <2>1
<1>10. Read(out, 1, size) = Dealt(f, a)
  <2>1. size \in Nat /\ Dealt(f, a) \in Seq(Cells)
    BY <1>2, <1>5
  <2>2. Read(out, 1, size) = Dealt(f, a) <=>
          Len(Dealt(f, a)) = size /\ \A i \in 1..size : out[i] = Dealt(f, a)[i]
    BY <2>1, ReadFromOne
  <2> QED  BY <1>5, <1>9, <2>2
<1>11. kd = 1 => out[size + 1] = h
  <2> SUFFICES ASSUME kd = 1  PROVE out[size + 1] = h
    OBVIOUS
  <2>1. /\ size + 1 \in Regs /\ size + 1 \notin from..to
        /\ size + 1 \in size + 1 .. size + 1 + Len(row) - 1 /\ size + 1 - (size + 1) + 1 = 1
    BY <1>2, <1>3
  <2> QED  BY <1>3, <1>6, <1>7, <2>1
<1>12. out[size + kd + 1] = blk
  <2>1. PICK j \in Regs : /\ j = size + kd + 1 /\ j \notin from..to
                           /\ j \in size + 1 .. size + 1 + Len(row) - 1 /\ j - (size + 1) + 1 = kd + 1
    BY <1>2, <1>3
  <2>2. rs1[j] = row[j - (size + 1) + 1]
    BY <1>6, <2>1
  <2>3. out[j] = rs1[j]
    BY <1>7, <2>1
  <2> QED  BY <1>3, <2>1, <2>2, <2>3
<1>13. \A r \in from..to : out[r] = Nil
  <2>1. \A r \in from..to : r \in Regs
    BY <1>2
  <2> QED  BY <1>7, <2>1
<1> QED  BY <1>1, <1>8, <1>10, <1>11, <1>12, <1>13 DEF size, kd, to, Served

LEMMA Retyped ==
  ASSUME NEW S, NEW T, NEW s \in Seq(S), \A i \in 1..Len(s) : s[i] \in T
  PROVE  s \in Seq(T)
<1>1. Len(s) \in Nat /\ s = [i \in 1..Len(s) |-> s[i]]
  BY LenProperties
<1>2. s \in [1..Len(s) -> T]
  BY <1>1
<1> QED  BY <1>1, <1>2, SeqDef

LEMMA DeclaredFacts ==
  ASSUME NEW f \in Params, NEW c \in Calls
  PROVE  /\ Counted(f, c) \in Seq(Elems) /\ Spread(f, Counted(f, c)) \in Seq(Elems)
         /\ Declared(f, c) = Dealt(f, Spread(f, Counted(f, c)))
<1>1. c.args \in Seq(Elems) /\ c.kw \in Kws
  BY CallFacts
<1>2. Counted(f, c) \in Seq(Elems)
  BY <1>1, WithKwFacts DEF Counted
<1> QED  BY <1>2, SpreadFacts, DeclaredIsDealt

\* The locals `super` reads, one parameter at a time.
LEMMA ParamIsElem ==
  ASSUME NEW f \in Params, NEW a \in Seq(Elems), NEW i \in 1..Size(f)
  PROVE  /\ ~(f.r = 1 /\ i = f.m1 + f.o + 1) => Param(f, a, i) \in Elems
         /\ f.r = 1 /\ i = f.m1 + f.o + 1 => Param(f, a, i).arr \in Seq(Elems)
<1> DEFINE m1 == f.m1
           o == f.o
           m2 == f.m2
           r == f.r
           size == Size(f)
           n == Len(a)
           g == Given(f, n)
           over == Over(f, n)
           theirs == SubSeq(a, m1 + o + 1, m1 + o + over)
<1>1. m1 \in Nat /\ o \in Nat /\ m2 \in Nat /\ r \in {0, 1} /\ size \in Nat /\ size = m1 + o + r + m2
  BY ParamFacts
<1>2. n \in Nat
  BY SeqFacts
<1>3. g \in Nat /\ g <= o /\ over \in Nat /\ (n < size => over = 0)
      /\ (n >= size => (r = 0 => over = 0) /\ (r = 1 => over = n - m1 - o - m2))
  BY <1>2, GivenFacts
<1>4. Param(f, a, i) = IF i <= m1 + g THEN Source(a, i)
                       ELSE IF i <= m1 + o THEN Default
                       ELSE IF i <= m1 + o + r THEN Arr(theirs)
                       ELSE Source(a, i - o - r + g + over)
  BY DEF Param
<1>5. Default \in Elems /\ \A j \in Nat : j >= 1 => Source(a, j) \in Elems
  <2>1. Default \in Elems /\ Nil \in Elems
    BY DEF Elems
  <2>2. ASSUME NEW j \in Nat, j >= 1  PROVE Source(a, j) \in Elems
    <3>1. j <= n => j \in 1..n
      BY <1>2, <2>2
    <3> QED  BY <2>1, <3>1, SeqFacts DEF Source
  <2> QED  BY <2>1, <2>2
<1>6. theirs \in Seq(Elems)
  <2>1. CASE over = 0
    <3>1. m1 + o + 1 \in Int /\ m1 + o + over \in Int /\ m1 + o + over < m1 + o + 1
      <4> HIDE DEF m1, o, over
      <4> QED  BY <1>1, <2>1
    <3>2. theirs = <<>>
      BY <3>1, SubSeqEmpty
    <3> QED  BY <3>2, EmptySeq
  <2>2. CASE over # 0
    <3>1. m1 + o + 1 \in Nat /\ m1 + o + 1 >= 1 /\ m1 + o + over \in Int /\ m1 + o + over <= n
      <4> HIDE DEF m1, o, m2, over, r, n, size
      <4> QED  BY <1>1, <1>2, <1>3, <2>2
    <3> QED  BY <3>1, CutFacts
  <2> QED  BY <2>1, <2>2
<1>7. i \in 1..size
  OBVIOUS
<1> HIDE DEF m1, o, m2, r, size, n, g, over, theirs
<1>8. CASE i <= m1 + g
  <2>1. i \in Nat /\ i >= 1 /\ ~(i = m1 + o + 1)
    BY <1>1, <1>3, <1>7, <1>8
  <2> QED  BY <1>4, <1>5, <1>8, <2>1 DEF m1, o
<1>9. CASE ~(i <= m1 + g) /\ i <= m1 + o
  <2>1. ~(i = m1 + o + 1)
    BY <1>1, <1>9
  <2> QED  BY <1>4, <1>5, <1>9, <2>1 DEF m1, o
<1>10. CASE ~(i <= m1 + o) /\ i <= m1 + o + r
  <2>1. r = 1 /\ i = m1 + o + 1 /\ ~(i <= m1 + g)
    BY <1>1, <1>3, <1>7, <1>10
  <2>2. Param(f, a, i).arr = theirs
    BY <1>4, <1>10, <2>1, ValueFacts
  <2> QED  BY <1>6, <2>1, <2>2 DEF m1, o, r
<1>11. CASE ~(i <= m1 + o + r)
  <2>1. ~(i <= m1 + g) /\ ~(i <= m1 + o) /\ ~(r = 1 /\ i = m1 + o + 1)
    BY <1>1, <1>3, <1>7, <1>11
  <2>2. i - o - r + g + over \in Nat /\ i - o - r + g + over >= 1
    BY <1>1, <1>3, <1>7, <1>11
  <2> QED  BY <1>4, <1>5, <1>11, <2>1, <2>2 DEF m1, o, r
<1> QED  BY <1>1, <1>3, <1>7, <1>8, <1>9, <1>10, <1>11

\* `super` without arguments passes on what was declared.
PassedOnRead(rs, f) ==
  Read(rs, 1, f.m1 + f.o) \o (IF f.r = 1 THEN rs[f.m1 + f.o + 1].arr ELSE <<>>)
    \o Read(rs, f.m1 + f.o + f.r + 1, f.m2)

LEMMA PassedOnFacts ==
  ASSUME NEW f \in Params, NEW c \in Calls, NEW rs, Read(rs, 1, Size(f)) = Declared(f, c)
  PROVE  PassedOnRead(rs, f) = PassedOn(f, c) /\ PassedOn(f, c) \in Seq(Elems)
<1> DEFINE m1 == f.m1
           o == f.o
           m2 == f.m2
           r == f.r
           size == Size(f)
           a == Spread(f, Counted(f, c))
           d == Declared(f, c)
           front == m1 + o
           head == SubSeq(d, 1, front)
           mid == IF r = 1 THEN d[front + 1].arr ELSE <<>>
           tail == SubSeq(d, front + r + 1, Len(d))
<1>1. m1 \in Nat /\ o \in Nat /\ m2 \in Nat /\ r \in {0, 1} /\ size \in Nat /\ size = m1 + o + r + m2
  BY ParamFacts
<1>2. a \in Seq(Elems) /\ d = Dealt(f, a)
  BY DeclaredFacts
<1>3. d \in Seq(Cells) /\ Len(d) = size /\ \A i \in 1..size : d[i] = Param(f, a, i)
  <2> HIDE DEF a, d
  <2>1. /\ Dealt(f, a) \in Seq(Cells) /\ Len(Dealt(f, a)) = Size(f)
        /\ \A i \in 1..Size(f) : Dealt(f, a)[i] = Param(f, a, i)
    BY <1>2, DealtFacts
  <2> QED  BY <1>2, <2>1
<1>4. \A i \in 1..size : rs[i] = d[i]
  <2>1. size \in Nat /\ d \in Seq(Cells)
    BY <1>1, <1>3
  <2>2. Read(rs, 1, size) = d
    OBVIOUS
  <2> HIDE DEF d, size
  <2> QED  BY <2>1, <2>2, ReadFromOne
<1>5. \A i \in 1..size : /\ ~(r = 1 /\ i = m1 + o + 1) => d[i] \in Elems
                         /\ r = 1 /\ i = m1 + o + 1 => d[i].arr \in Seq(Elems)
  <2> SUFFICES ASSUME NEW i \in 1..size
               PROVE  /\ ~(r = 1 /\ i = m1 + o + 1) => d[i] \in Elems
                      /\ r = 1 /\ i = m1 + o + 1 => d[i].arr \in Seq(Elems)
    OBVIOUS
  <2> HIDE DEF a, d
  <2>1. /\ ~(r = 1 /\ i = m1 + o + 1) => Param(f, a, i) \in Elems
        /\ r = 1 /\ i = m1 + o + 1 => Param(f, a, i).arr \in Seq(Elems)
    BY <1>2, ParamIsElem
  <2> QED  BY <1>3, <2>1
<1>6. PassedOn(f, c) = head \o mid \o tail
  BY DEF PassedOn
<1>7. PassedOnRead(rs, f) = Read(rs, 1, front) \o (IF r = 1 THEN rs[front + 1].arr ELSE <<>>)
                              \o Read(rs, front + r + 1, m2)
  BY DEF PassedOnRead
<1> HIDE DEF m1, o, m2, r, size, a, d
<1>8. front \in Nat /\ front = m1 + o /\ front <= size
  BY <1>1
<1> HIDE DEF front
<1>9. head = Read(rs, 1, front) /\ head \in Seq(Elems)
  <2>1. 1 \in Nat /\ 1 >= 1 /\ front \in Int /\ front <= Len(d)
    BY <1>3, <1>8
  <2>2. d \in Seq(Cells)
    BY <1>3
  <2>3. /\ head \in Seq(Cells)
        /\ Len(head) = IF 1 <= front THEN front - 1 + 1 ELSE 0
        /\ \A i \in 1 .. front - 1 + 1 : head[i] = d[1 + i - 1]
    BY <2>1, <2>2, CutFacts
  <2> HIDE DEF head
  <2>4. Len(head) = front
    BY <1>8, <2>3
  <2>5. \A i \in 1..front : i \in 1 .. front - 1 + 1 /\ 1 + i - 1 = i /\ i \in 1..size /\ ~(i = m1 + o + 1)
    BY <1>1, <1>8
  <2>6. \A i \in 1..front : head[i] = d[i] /\ rs[i] = head[i] /\ head[i] \in Elems
    BY <1>4, <1>5, <2>3, <2>5
  <2>7. head \in Seq(Cells) /\ front \in Nat
    BY <1>8, <2>3
  <2>8. Read(rs, 1, front) = head
    BY <2>4, <2>6, <2>7, ReadFromOne
  <2>9. head \in Seq(Elems)
    BY <2>4, <2>6, <2>7, Retyped
  <2> QED  BY <2>8, <2>9
<1>10. mid = (IF r = 1 THEN rs[front + 1].arr ELSE <<>>) /\ mid \in Seq(Elems)
  <2>1. CASE r = 1
    <3>1. front + 1 \in 1..size /\ front + 1 = m1 + o + 1
      BY <1>1, <1>8, <2>1
    <3> QED  BY <1>4, <1>5, <2>1, <3>1
  <2>2. CASE r # 1
    BY <2>2, EmptySeq
  <2> QED  BY <2>1, <2>2
<1>11. tail = Read(rs, front + r + 1, m2) /\ tail \in Seq(Elems)
  <2> DEFINE from == front + r + 1
  <2>1. from \in Nat /\ from >= 1 /\ size \in Int /\ size = from + m2 - 1
    BY <1>1, <1>8
  <2>2. d \in Seq(Cells)
    BY <1>3
  <2>3. tail = SubSeq(d, from, size)
    BY <1>3
  <2> HIDE DEF from, tail
  <2>4. /\ SubSeq(d, from, size) \in Seq(Cells)
        /\ Len(SubSeq(d, from, size)) = IF from <= size THEN size - from + 1 ELSE 0
        /\ \A i \in 1 .. size - from + 1 : SubSeq(d, from, size)[i] = d[from + i - 1]
    <3>1. size <= Len(d)
      BY <1>1, <1>3
    <3> QED  BY <2>1, <2>2, <3>1, CutFacts
  <2>5. (IF from <= size THEN size - from + 1 ELSE 0) = m2
    BY <1>1, <2>1
  <2>6. Len(tail) = m2
    BY <2>3, <2>4, <2>5
  <2>7. \A i \in 1..m2 : /\ i \in 1 .. size - from + 1 /\ from + i - 1 \in 1..size
                         /\ ~(r = 1 /\ from + i - 1 = m1 + o + 1)
    BY <1>1, <1>8, <2>1 DEF from
  <2>8. \A i \in 1..m2 : rs[from + i - 1] = tail[i] /\ tail[i] \in Elems
    BY <1>4, <1>5, <2>3, <2>4, <2>7
  <2>9. tail \in Seq(Cells)
    BY <2>3, <2>4
  <2>10. Read(rs, from, m2) = tail
    <3>1. tail = [i \in 1..Len(tail) |-> tail[i]]
      BY <2>9, LenProperties
    <3>2. tail = [i \in 1..m2 |-> tail[i]]
      BY <2>6, <3>1
    <3>3. [i \in 1..m2 |-> tail[i]] = [i \in 1..m2 |-> rs[from + i - 1]]
      BY <2>8
    <3> QED  BY <3>2, <3>3 DEF Read
  <2>11. tail \in Seq(Elems)
    BY <2>6, <2>8, <2>9, Retyped
  <2> QED  BY <2>10, <2>11 DEF from
<1> HIDE DEF head, mid, tail
<1>12. head \o mid \in Seq(Elems)
  BY <1>9, <1>10, ConcatProperties
<1>13. head \o mid \o tail \in Seq(Elems)
  BY <1>11, <1>12, ConcatProperties
<1> QED  BY <1>6, <1>7, <1>9, <1>10, <1>11, <1>13

---------------------------------------------------------------------------
(* The invariant, step by step. *)

\* A redispatch: laid out by relay_args, made a call again by prepare_call.
Sends(out, c, args, kd, blk) ==
  /\ Holds(out, c.n, c.nk > 0, [args |-> args, kw |-> kd, blk |-> blk])
  /\ out = [r \in Regs |-> out[r]]

LEMMA RelayedFacts ==
  ASSUME NEW rs, NEW args \in Seq(Elems), NEW kd \in Kws, NEW blk \in {Nil, Block}, NEW pack \in BOOLEAN,
         NEW c, c = relay_args(rs, args, kd, blk, pack)
  PROVE  Sends(prepare_call(c.regs, c.n, c.nk, TRUE), c, args, kd, blk)
<1> DEFINE call == [args |-> args, kw |-> kd, blk |-> blk]
<1>1. /\ c.n \in 0..CALL_MAXARGS /\ c.nk = (IF kd = None THEN 0 ELSE CALL_MAXARGS)
      /\ Holds(c.regs, c.n, c.nk > 0, call)
  <2>1. LaidOut(c, args, kd, blk)
    BY RelayHolds
  <2> QED  BY <2>1 DEF LaidOut
<1>2. call \in Calls /\ call.args = args /\ call.kw = kd /\ call.blk = blk
  BY DEF Calls
<1> HIDE DEF call
<1>3. PICK rs1, n, nk : rs1 = c.regs /\ n = c.n /\ nk = c.nk
  OBVIOUS
<1>4. n \in 0..CALL_MAXARGS /\ nk \in 0..CALL_MAXARGS /\ (nk = 0 <=> kd = None) /\ nk \in {0, CALL_MAXARGS}
      /\ (nk > 0 <=> nk # 0) /\ CALL_MAXARGS # 0
  BY <1>1, <1>3, SizeFacts
<1>5. Positioned(rs1, n, args) /\ (nk # 0 => rs1[Width(n) + 1] = kd)
      /\ rs1[Width(n) + (IF nk # 0 THEN 1 ELSE 0) + 1] = blk
  BY <1>1, <1>2, <1>3, <1>4 DEF Holds
<1>6. ensure_block(blk) = blk
  BY ValueFacts DEF ensure_block
<1>7. Width(n) \in Nat
  BY <1>4, WidthFacts
<1>8. ensure_block(rs1[Width(n) + 1 + (IF nk = CALL_MAXARGS THEN 1 ELSE 2 * nk)]) = blk
  <2>1. CASE nk = 0
    <3>1. Width(n) + 1 + (IF nk = CALL_MAXARGS THEN 1 ELSE 2 * nk) = Width(n) + (IF nk # 0 THEN 1 ELSE 0) + 1
      BY <1>4, <1>7, <2>1
    <3> QED  BY <1>5, <1>6, <3>1
  <2>2. CASE nk = CALL_MAXARGS
    <3>1. Width(n) + 1 + (IF nk = CALL_MAXARGS THEN 1 ELSE 2 * nk) = Width(n) + (IF nk # 0 THEN 1 ELSE 0) + 1
      BY <1>4, <1>7, <2>2
    <3> QED  BY <1>5, <1>6, <3>1
  <2> QED  BY <1>4, <2>1, <2>2
<1>9. nk # 0 /\ nk # CALL_MAXARGS => FALSE
  BY <1>4
<1>10. /\ Holds(prepare_call(rs1, n, nk, TRUE), n, nk > 0, call)
       /\ prepare_call(rs1, n, nk, TRUE) = [r \in Regs |-> prepare_call(rs1, n, nk, TRUE)[r]]
  <2>1. /\ TRUE \in BOOLEAN /\ Positioned(rs1, n, call.args) /\ (nk = 0 <=> call.kw = None)
        /\ nk = CALL_MAXARGS => rs1[Width(n) + 1] = call.kw
        /\ ensure_block(rs1[Width(n) + 1 + (IF nk = CALL_MAXARGS THEN 1 ELSE 2 * nk)]) = call.blk
    BY <1>2, <1>4, <1>5, <1>8
  <2>2. nk # 0 /\ nk # CALL_MAXARGS => Hash(UNION {rs1[Width(n) + 1 + 2 * i].keys : i \in 0 .. nk - 1}) = call.kw
    BY <1>9
  <2> QED  BY <1>2, <1>4, <2>1, <2>2, PrepareHolds
<1> QED  BY <1>3, <1>10 DEF call, Sends

\* What a call in its registers reads as.
LEMMA CarriedFacts ==
  ASSUME IInv, at \in {"called", "pushed"}
  PROVE  /\ sent \in Calls /\ sent.args \in Seq(Elems) /\ sent.kw \in Kws /\ sent.blk \in {Nil, Block}
         /\ sent = [args |-> sent.args, kw |-> sent.kw, blk |-> sent.blk]
         /\ Holds(regs, ci.n, ci.kw, sent) /\ taken = {}
         /\ ci.n \in 0..CALL_MAXARGS /\ ci.kw \in BOOLEAN
         /\ send_args(regs, ci.n) = sent.args
         /\ KwOf(regs, ci) = sent.kw
         /\ regs[frame_bidx(ci)] = sent.blk
<1>1. sent \in Calls /\ Holds(regs, ci.n, ci.kw, sent) /\ taken = {}
  BY DEF IInv, Typed, Carried, Prologue
<1>2. /\ sent.args \in Seq(Elems) /\ sent.kw \in Kws /\ sent.blk \in {Nil, Block}
      /\ sent = [args |-> sent.args, kw |-> sent.kw, blk |-> sent.blk]
  BY <1>1, CallFacts
<1>3. /\ send_args(regs, ci.n) = sent.args /\ KwOf(regs, ci) = sent.kw /\ regs[frame_bidx(ci)] = sent.blk
  BY <1>1, HoldsIsCarried
<1>4. ci.n \in 0..CALL_MAXARGS /\ ci.kw \in BOOLEAN
  BY <1>1 DEF Holds
<1> QED  BY <1>1, <1>2, <1>3, <1>4

\* Where a call is on its way, the rest of the invariant has nothing to say.
LEMMA OnItsWay ==
  ASSUME at' \in {"called", "pushed"}, regs' = [r \in Regs |-> regs'[r]],
         ci' = [n |-> ci'.n, kw |-> ci'.kw], Holds(regs', ci'.n, ci'.kw, sent'),
         sent' \in Calls, taken' = {}, hops' \in Nat, at' = "pushed" => p' \in Params
  PROVE  IInv'
<1>1. ci'.n \in Nat /\ ci'.kw \in BOOLEAN
  BY SizeFacts DEF Holds
<1>2. Typed'
  BY <1>1 DEF Typed, Stops
<1>3. Carried' /\ Prologue'
  BY DEF Carried, Prologue
<1>4. BindsAsDeclared' /\ KeywordsReachTheirNames'
  BY DEF BindsAsDeclared, KeywordsReachTheirNames
<1> QED  BY <1>2, <1>3, <1>4 DEF IInv

\* Where a call has been refused, what remains is what its error says.
LEMMA Refused ==
  ASSUME IInv, at' \in {"refused", "no block"}, UNCHANGED <<regs, ci, sent>>, at # "idle", hops' \in Nat
  PROVE  IInv'
<1>1. Typed'
  BY DEF IInv, Typed, Stops
<1>2. Carried' /\ Prologue' /\ BindsAsDeclared' /\ KeywordsReachTheirNames'
  BY DEF Carried, Prologue, BindsAsDeclared, KeywordsReachTheirNames
<1> QED  BY <1>1, <1>2 DEF IInv

LEMMA MaxOfThree ==
  ASSUME NEW a \in Int, NEW b \in Int, NEW c \in Int
  PROVE  Max({a, b, c}) \in Int
<1>1. PICK most \in {a, b, c} : \A y \in {a, b, c} : most >= y
  <2>1. CASE a >= b /\ a >= c
    BY <2>1
  <2>2. CASE b >= a /\ b >= c
    BY <2>2
  <2>3. CASE c >= a /\ c >= b
    BY <2>3
  <2> QED  BY <2>1, <2>2, <2>3
<1>2. Max({a, b, c}) = CHOOSE x \in {a, b, c} : \A y \in {a, b, c} : x >= y
  BY DEF Max
<1>3. Max({a, b, c}) \in {a, b, c}
  BY <1>1, <1>2
<1> QED  BY <1>3

LEMMA RelayedStep ==
  ASSUME IInv, at = "called", NEW args \in Seq(Elems), NEW pack \in BOOLEAN,
         Relayed(args, sent.kw, pack), sent' = [sent EXCEPT !.args = args],
         taken' = taken, hops' \in Nat
  PROVE  IInv'
<1>1. /\ sent.kw \in Kws /\ sent.blk \in {Nil, Block}
      /\ sent = [args |-> sent.args, kw |-> sent.kw, blk |-> sent.blk] /\ taken = {}
      /\ regs[frame_bidx(ci)] = sent.blk
  BY CarriedFacts
<1>2. PICK kd, blk : kd = sent.kw /\ blk = sent.blk
  OBVIOUS
<1>3. kd \in Kws /\ blk \in {Nil, Block}
  BY <1>1, <1>2
<1>4. sent' = [args |-> args, kw |-> kd, blk |-> blk]
  BY <1>1, <1>2
<1>5. PICK c : c = relay_args(regs, args, kd, blk, pack)
  OBVIOUS
<1>6. /\ regs' = prepare_call(c.regs, c.n, c.nk, TRUE) /\ ci' = [n |-> c.n, kw |-> c.nk > 0]
      /\ at' = "called"
  BY <1>1, <1>2, <1>5 DEF Relayed, Sent
<1>7. Sends(regs', c, args, kd, blk)
  BY <1>3, <1>5, <1>6, RelayedFacts
<1>8. Holds(regs', ci'.n, ci'.kw, sent') /\ regs' = [r \in Regs |-> regs'[r]] /\ ci' = [n |-> ci'.n, kw |-> ci'.kw]
  BY <1>4, <1>6, <1>7 DEF Sends
<1>9. [args |-> args, kw |-> kd, blk |-> blk] \in Calls
  BY <1>3 DEF Calls
<1>10. sent' \in Calls
  BY <1>4, <1>9
<1> QED  BY <1>1, <1>6, <1>8, <1>10, OnItsWay

LEMMA RedirectStep ==
  ASSUME IInv, Redirect
  PROVE  IInv'
<1>1. at = "called" /\ hops' = hops + 1 /\ hops \in Nat /\ taken' = taken
  BY DEF Redirect, Hop, IInv, Typed
<1>2. sent.args \in Seq(Elems) /\ send_args(regs, ci.n) = sent.args /\ KwOf(regs, ci) = sent.kw
  BY <1>1, CarriedFacts
<1>3. hops' \in Nat
  BY <1>1
<1>4. CASE sent.args = <<>>
  BY <1>1, <1>2, <1>3, <1>4, Refused DEF Redirect
<1>5. CASE sent.args # <<>>
  <2>1. PICK args, pack : args = Tail(sent.args) /\ pack = (ci.n = CALL_MAXARGS)
    OBVIOUS
  <2>2. args \in Seq(Elems) /\ pack \in BOOLEAN
    BY <1>2, <1>5, <2>1, HeadTailProperties
  <2>3. Relayed(args, sent.kw, pack) /\ sent' = [sent EXCEPT !.args = args]
    BY <1>2, <1>5, <2>1 DEF Redirect
  <2> QED  BY <1>1, <1>3, <2>2, <2>3, RelayedStep
<1> QED  BY <1>4, <1>5

LEMMA Named ==
  ASSUME NEW args \in Seq(Elems)
  PROVE  <<Name>> \o args \in Seq(Elems)
<1>1. Name \in Elems
  BY DEF Elems
<1>2. <<Name>> \in Seq(Elems)
  BY <1>1
<1> QED  BY <1>2, ConcatProperties

LEMMA MissingStep ==
  ASSUME IInv, Missing
  PROVE  IInv'
<1>1. at = "called" /\ hops' = hops + 1 /\ hops \in Nat /\ taken' = taken
  BY DEF Missing, Hop, IInv, Typed
<1>2. sent.args \in Seq(Elems) /\ send_args(regs, ci.n) = sent.args /\ KwOf(regs, ci) = sent.kw
  BY <1>1, CarriedFacts
<1>3. hops' \in Nat
  BY <1>1
<1>4. PICK args : args = <<Name>> \o sent.args
  OBVIOUS
<1>5. args \in Seq(Elems)
  BY <1>2, <1>4, Named
<1>6. Relayed(args, sent.kw, TRUE) /\ sent' = [sent EXCEPT !.args = args] /\ TRUE \in BOOLEAN
  BY <1>2, <1>4 DEF Missing
<1> QED  BY <1>1, <1>3, <1>5, <1>6, RelayedStep

\* A frame is pushed where a call is.
LEMMA PushedStep ==
  ASSUME IInv, NEW rs, NEW c, NEW f \in Params, NEW top \in Int, Pushed(rs, c, f, top),
         c = [n |-> c.n, kw |-> c.kw], Holds(rs, c.n, c.kw, sent'),
         sent' \in Calls, taken' = {}, hops' \in Nat
  PROVE  IInv'
<1>1. regs' = Framed(rs, c, top) /\ ci' = c /\ at' = "pushed" /\ p' = f
  BY DEF Pushed
<1>2. PICK call : call = sent'
  OBVIOUS
<1>3. /\ Holds(Framed(rs, c, top), c.n, c.kw, call)
      /\ Framed(rs, c, top) = [r \in Regs |-> Framed(rs, c, top)[r]]
  BY <1>2, FramedHolds
<1>4. Holds(regs', ci'.n, ci'.kw, sent') /\ regs' = [r \in Regs |-> regs'[r]] /\ ci' = [n |-> ci'.n, kw |-> ci'.kw]
  BY <1>1, <1>2, <1>3
<1> QED  BY <1>1, <1>4, OnItsWay

LEMMA PushMethodStep ==
  ASSUME IInv, NEW f \in Params, PushMethod(f) \/ CallProc(f)
  PROVE  IInv'
<1>1. at = "called" /\ hops' = hops /\ hops \in Nat /\ taken' = taken /\ sent' = sent
  BY DEF PushMethod, CallProc, IInv, Typed
<1>2. sent \in Calls /\ Holds(regs, ci.n, ci.kw, sent) /\ taken = {} /\ ci.n \in 0..CALL_MAXARGS
  BY <1>1, CarriedFacts
<1>3. PICK rs, c : rs = regs /\ c = ci
  OBVIOUS
<1>4. c = [n |-> c.n, kw |-> c.kw]
  BY <1>3 DEF IInv, Typed
<1>5. PICK nl, cn \in Int : nl = NLocals(f) /\ cn = c.n + 2
  <2>1. NLocals(f) \in Int
    BY ParamFacts
  <2>2. c.n + 2 \in Int
    BY <1>2, <1>3, SizeFacts
  <2> QED  BY <2>1, <2>2
<1>6. PICK top \in Int : Pushed(rs, c, f, top)
  <2>1. CASE PushMethod(f)
    <3>1. Pushed(rs, c, f, Max({nl, cn, 4}))
      BY <1>3, <1>5, <2>1 DEF PushMethod
    <3>2. 4 \in Int
      OBVIOUS
    <3>3. Max({nl, cn, 4}) \in Int
      BY <1>5, <3>2, MaxOfThree
    <3> QED  BY <3>1, <3>3
  <2>2. CASE CallProc(f)
    <3>1. Pushed(rs, c, f, Max({nl, 4}))
      BY <1>3, <1>5, <2>2 DEF CallProc
    <3>2. 4 \in Int
      OBVIOUS
    <3>3. Max({nl, 4}) = IF nl >= 4 THEN nl ELSE 4
      BY <1>5, <3>2, MaxOfTwo
    <3>4. Max({nl, 4}) \in Int
      BY <1>5, <3>2, <3>3
    <3> QED  BY <3>1, <3>4
  <2> QED  BY <2>1, <2>2
<1>7. Holds(rs, c.n, c.kw, sent') /\ sent' \in Calls /\ taken' = {} /\ hops' \in Nat
  BY <1>1, <1>2, <1>3
<1> QED  BY <1>4, <1>6, <1>7, PushedStep

\* The keyword Hash a native was given is its last argument.
LEMMA WithoutKw ==
  ASSUME NEW args \in Seq(Elems), NEW kd \in Kws, NEW drop \in {0, 1}
  PROVE  LET given == Appended(args, kd)
         IN  SubSeq(given, drop + 1, Len(given) - IF kd = None THEN 0 ELSE 1) = SubSeq(args, drop + 1, Len(args))
<1> DEFINE given == Appended(args, kd)
<1>1. kd = None \/ kd \in Elems
  BY DEF Kws, Elems
<1> HIDE DEF given
<1>2. /\ given \in Seq(Elems)
      /\ Len(given) = Len(args) + (IF kd = None THEN 0 ELSE 1)
      /\ \A i \in 1..Len(args) : given[i] = args[i]
  <2>1. /\ Appended(args, kd) \in Seq(Elems)
        /\ Len(Appended(args, kd)) = Len(args) + (IF kd = None THEN 0 ELSE 1)
        /\ kd # None => Appended(args, kd)[Len(args) + 1] = kd
        /\ \A i \in 1..Len(args) : Appended(args, kd)[i] = args[i]
    BY <1>1, AppendedFacts, ZenonT(60)
  <2> QED  BY <2>1 DEF given
<1>3. Len(args) \in Nat
  BY SeqFacts
<1>4. PICK n \in Nat : n = Len(args)
  BY <1>3
<1>5. Len(given) - (IF kd = None THEN 0 ELSE 1) = n /\ n <= Len(given) /\ drop + 1 \in Nat /\ drop + 1 >= 1 /\ n \in Int
  BY <1>2, <1>4
<1>6. PICK from \in Nat : from = drop + 1 /\ from >= 1
  BY <1>5
<1>7. /\ SubSeq(given, from, n) \in Seq(Elems)
      /\ Len(SubSeq(given, from, n)) = IF from <= n THEN n - from + 1 ELSE 0
      /\ \A i \in 1 .. n - from + 1 : SubSeq(given, from, n)[i] = given[from + i - 1]
  <2>1. given \in Seq(Elems) /\ n <= Len(given) /\ n \in Int
    BY <1>2, <1>5
  <2> QED  BY <1>6, <2>1, CutFacts
<1>8. /\ SubSeq(args, from, n) \in Seq(Elems)
      /\ Len(SubSeq(args, from, n)) = IF from <= n THEN n - from + 1 ELSE 0
      /\ \A i \in 1 .. n - from + 1 : SubSeq(args, from, n)[i] = args[from + i - 1]
  <2>1. n <= Len(args) /\ n \in Int
    BY <1>4
  <2> QED  BY <1>6, <2>1, CutFacts
<1>9. \A i \in 1 .. n - from + 1 : from + i - 1 \in 1..n
  BY <1>6
<1>10. \A i \in 1 .. n - from + 1 : SubSeq(given, from, n)[i] = SubSeq(args, from, n)[i]
  BY <1>2, <1>4, <1>7, <1>8, <1>9
<1>11. SubSeq(given, from, n) = SubSeq(args, from, n)
  <2>1. \A i \in 1..Len(SubSeq(given, from, n)) : i \in 1 .. n - from + 1
    BY <1>6, <1>7
  <2>2. \A i \in 1..Len(SubSeq(given, from, n)) : SubSeq(given, from, n)[i] = SubSeq(args, from, n)[i]
    BY <1>10, <2>1
  <2> QED  BY <1>7, <1>8, <2>2, SeqEqual
<1> QED  BY <1>4, <1>5, <1>6, <1>11 DEF given

LEMMA ForwardedStep ==
  ASSUME IInv, NEW f \in Params, NEW pack \in BOOLEAN, NEW missing \in BOOLEAN, NEW inframe \in BOOLEAN,
         NEW rs, Forwarded(f, pack, missing, rs, inframe)
  PROVE  IInv'
<1>1. at = "called" /\ hops' = hops + 1 /\ hops \in Nat /\ taken' = taken
  BY DEF Forwarded, Hop, IInv, Typed
<1>2. /\ sent.args \in Seq(Elems) /\ sent.kw \in Kws /\ sent.blk \in {Nil, Block}
      /\ sent = [args |-> sent.args, kw |-> sent.kw, blk |-> sent.blk] /\ taken = {}
      /\ send_args(regs, ci.n) = sent.args /\ KwOf(regs, ci) = sent.kw /\ regs[frame_bidx(ci)] = sent.blk
  BY <1>1, CarriedFacts
<1>3. PICK args, kd, blk, first : /\ args = sent.args /\ kd = kdict_nonempty(sent.kw) /\ blk = sent.blk
                                  /\ first = IF missing THEN <<Name>> ELSE <<>>
  OBVIOUS
<1>4. args \in Seq(Elems) /\ kd \in Kws /\ blk \in {Nil, Block} /\ first \in Seq(Elems)
  <2>1. first \in Seq(Elems)
    <3>1. Name \in Elems
      BY DEF Elems
    <3>2. <<Name>> \in Seq(Elems) /\ <<>> \in Seq(Elems)
      BY <3>1, EmptySeq
    <3> QED  BY <1>3, <3>2
  <2>2. sent.kw \in Kws
    BY <1>2
  <2>3. kdict_nonempty(sent.kw) \in Kws
    BY <2>2, KwFacts
  <2> QED  BY <1>2, <1>3, <2>1, <2>3
<1>5. PICK drop \in {0, 1} : \E c, frame :
        /\ c = relay_args(rs, first \o SubSeq(Appended(args, kd), drop + 1,
                                              Len(Appended(args, kd)) - IF kd = None THEN 0 ELSE 1),
                          kd, blk, pack)
        /\ frame = [n |-> c.n, kw |-> c.nk > 0]
        /\ Pushed(c.regs, frame, f, IF inframe THEN Max({NLocals(f), frame_bidx(frame) + 1, 4}) ELSE 0)
        /\ sent' = [sent EXCEPT !.args = first \o SubSeq(@, drop + 1, Len(@)), !.kw = kdict_nonempty(@)]
  BY <1>2, <1>3, ZenonT(30) DEF Forwarded, native_call_args
<1>5a. PICK c, frame :
        /\ c = relay_args(rs, first \o SubSeq(Appended(args, kd), drop + 1,
                                              Len(Appended(args, kd)) - IF kd = None THEN 0 ELSE 1),
                          kd, blk, pack)
        /\ frame = [n |-> c.n, kw |-> c.nk > 0]
        /\ Pushed(c.regs, frame, f, IF inframe THEN Max({NLocals(f), frame_bidx(frame) + 1, 4}) ELSE 0)
        /\ sent' = [sent EXCEPT !.args = first \o SubSeq(@, drop + 1, Len(@)), !.kw = kdict_nonempty(@)]
  BY <1>5
<1>6. PICK given : given = first \o SubSeq(args, drop + 1, Len(args))
  OBVIOUS
<1>7. given \in Seq(Elems)
  <2>1. Len(args) \in Nat /\ drop + 1 \in Nat /\ drop + 1 >= 1
    BY <1>4, SeqFacts
  <2>2. Len(args) \in Int /\ Len(args) <= Len(args)
    BY <2>1
  <2>3. SubSeq(args, drop + 1, Len(args)) \in Seq(Elems)
    BY <1>4, <2>1, <2>2, CutFacts
  <2> QED  BY <1>4, <1>6, <2>3, ConcatProperties
<1>8. c = relay_args(rs, given, kd, blk, pack)
  <2>1. SubSeq(Appended(args, kd), drop + 1, Len(Appended(args, kd)) - IF kd = None THEN 0 ELSE 1)
          = SubSeq(args, drop + 1, Len(args))
    BY <1>4, WithoutKw
  <2> QED  BY <1>5a, <1>6, <2>1
<1>9. sent' = [args |-> given, kw |-> kd, blk |-> blk]
  <2>1. sent' = [args |-> first \o SubSeq(sent.args, drop + 1, Len(sent.args)),
                 kw |-> kdict_nonempty(sent.kw), blk |-> sent.blk]
    BY <1>2, <1>5a
  <2> QED  BY <1>3, <1>6, <2>1
<1>10. LaidOut(c, given, kd, blk)
  BY <1>4, <1>7, <1>8, RelayHolds
<1>11. frame.n = c.n /\ frame.kw = (c.nk > 0) /\ frame = [n |-> frame.n, kw |-> frame.kw] /\ c.n \in 0..CALL_MAXARGS
  BY <1>5a, <1>10 DEF LaidOut
<1>12. PICK rs1 : rs1 = c.regs
  OBVIOUS
<1>13. Holds(rs1, frame.n, frame.kw, sent')
  BY <1>9, <1>10, <1>11, <1>12 DEF LaidOut
<1>14. [args |-> given, kw |-> kd, blk |-> blk] \in Calls
  BY <1>4, <1>7 DEF Calls
<1>15. sent' \in Calls /\ taken' = {} /\ hops' \in Nat
  BY <1>1, <1>2, <1>9, <1>14
<1>16. PICK top \in Int : Pushed(rs1, frame, f, top)
  <2>1. CASE inframe = TRUE
    <3>1. Width(c.n) \in Nat
      BY <1>11, WidthFacts
    <3>2. PICK nl, fb \in Int : nl = NLocals(f) /\ fb = frame_bidx(frame) + 1
      <4>1. NLocals(f) \in Int
        BY ParamFacts
      <4>2. frame_bidx(frame) + 1 \in Int
        BY <1>11, <3>1 DEF frame_bidx
      <4> QED  BY <4>1, <4>2
    <3>3. Pushed(rs1, frame, f, Max({nl, fb, 4}))
      BY <1>5a, <1>12, <2>1, <3>2
    <3>4. 4 \in Int
      OBVIOUS
    <3>5. Max({nl, fb, 4}) \in Int
      BY <3>2, <3>4, MaxOfThree
    <3> QED  BY <3>3, <3>5
  <2>2. CASE inframe = FALSE
    BY <1>5a, <1>12, <2>2
  <2> QED  BY <2>1, <2>2
<1> QED  BY <1>11, <1>13, <1>15, <1>16, PushedStep

LEMMA NativeStep ==
  ASSUME IInv, NEW f \in Params, InFrame(f) \/ Nested(f)
  PROVE  IInv'
<1>1. PICK rs, nil : rs = regs /\ nil = [r \in Regs |-> Nil]
  OBVIOUS
<1>2. CASE InFrame(f)
  <2>1. PICK missing \in BOOLEAN : Forwarded(f, missing, missing, rs, TRUE)
    BY <1>1, <1>2 DEF InFrame
  <2> QED  BY <2>1, ForwardedStep
<1>3. CASE Nested(f)
  <2>1. PICK missing \in BOOLEAN : Forwarded(f, FALSE, missing, nil, FALSE)
    BY <1>1, <1>3 DEF Nested
  <2> QED  BY <2>1, ForwardedStep
<1> QED  BY <1>2, <1>3

\* What a call site or op_argary has put into the registers for prepare_call.
LaidDown(rs, n, nk, hb, c) ==
  /\ Positioned(rs, n, c.args)
  /\ nk = 0 <=> c.kw = None
  /\ nk = CALL_MAXARGS => rs[Width(n) + 1] = c.kw
  /\ nk # 0 /\ nk # CALL_MAXARGS => Hash(UNION {rs[Width(n) + 1 + 2 * i].keys : i \in 0 .. nk - 1}) = c.kw
  /\ hb => ensure_block(rs[Width(n) + 1 + (IF nk = CALL_MAXARGS THEN 1 ELSE 2 * nk)]) = c.blk
  /\ ~hb => c.blk = Nil

LEMMA SentStep ==
  ASSUME NEW rs, NEW n \in 0..CALL_MAXARGS, NEW nk \in 0..CALL_MAXARGS, NEW hb \in BOOLEAN, NEW c \in Calls,
         LaidDown(rs, n, nk, hb, c), Sent(rs, n, nk, hb), sent' = c, taken' = {}, hops' \in Nat
  PROVE  IInv'
<1>1. /\ Holds(prepare_call(rs, n, nk, hb), n, nk > 0, c)
      /\ prepare_call(rs, n, nk, hb) = [r \in Regs |-> prepare_call(rs, n, nk, hb)[r]]
  BY PrepareHolds DEF LaidDown
<1>2. regs' = prepare_call(rs, n, nk, hb) /\ ci' = [n |-> n, kw |-> nk > 0] /\ at' = "called"
  BY DEF Sent
<1>3. Holds(regs', ci'.n, ci'.kw, sent') /\ regs' = [r \in Regs |-> regs'[r]] /\ ci' = [n |-> ci'.n, kw |-> ci'.kw]
  BY <1>1, <1>2
<1> QED  BY <1>2, <1>3, OnItsWay

LEMMA RowWritten ==
  ASSUME NEW rs, NEW row \in Seq(Cells), Len(row) <= MaxReg
  PROVE  \A i \in 1..Len(row) : Write(rs, 1, row)[i] = row[i]
<1>1. Len(row) \in Nat
  BY SeqFacts
<1>2. PICK n \in Nat : n = Len(row) /\ n <= MaxReg
  BY <1>1
<1>3. \A i \in 1..n : i \in Regs /\ i \in 1 .. 1 + n - 1 /\ i - 1 + 1 = i
  BY <1>2, SizeFacts
<1>4. \A r \in Regs : Write(rs, 1, row)[r] = IF r \in 1 .. 1 + n - 1 THEN row[r - 1 + 1] ELSE rs[r]
  BY <1>2, WriteFacts
<1> QED  BY <1>2, <1>3, <1>4

LEMMA ZsuperStep ==
  ASSUME IInv, Zsuper
  PROVE  IInv'
<1>1. /\ at = "ready" /\ hops' = hops + 1 /\ hops \in Nat /\ taken' = {} /\ p \in Params /\ sent \in Calls
      /\ sent' = [args |-> PassedOn(p, sent), kw |-> Unasked(p, sent), blk |-> sent.blk]
  BY DEF Zsuper, IInv, Typed
<1>2. PICK f \in Params, c \in Calls, rs \in {regs}, tk \in {taken} :
        f = p /\ c = sent /\ rs = regs /\ tk = taken
  BY <1>1
<1>3. PICK size \in Nat : size = Size(f)
  BY ParamFacts
<1>4. f.kd \in {0, 1}
  BY ParamFacts
<1>5. PICK kd \in {0, 1} : kd = f.kd
  BY <1>4
<1>6. c.args \in Seq(Elems) /\ c.kw \in Kws /\ c.blk \in {Nil, Block}
  BY CallFacts
<1>7. /\ Read(rs, 1, Size(f)) = Declared(f, c)
      /\ kd = 1 => rs[size + 1] = Hash(c.kw.keys \ tk)
      /\ rs[size + kd + 1] = c.blk
  BY <1>1, <1>2, <1>3, <1>5 DEF IInv, BindsAsDeclared
<1>8. kd = 1 => tk = f.required \cup (f.optional \cap c.kw.keys)
  BY <1>1, <1>2, <1>5 DEF IInv, KeywordsReachTheirNames
<1>9. Unasked(f, c) = IF kd = 1 THEN rs[size + 1] ELSE None
  <2>1. kd = 1 => c.kw.keys \ tk = c.kw.keys \ (f.required \cup f.optional)
    BY <1>8
  <2> QED  BY <1>5, <1>7, <2>1 DEF Unasked
<1>10. Unasked(f, c) \in Kws /\ (kd = 1 <=> Unasked(f, c) # None)
  <2>1. c.kw.keys \in SUBSET Keys
    BY <1>6, KwFacts
  <2>2. c.kw.keys \ (f.required \cup f.optional) \in SUBSET Keys
    BY <2>1
  <2>3. Hash(c.kw.keys \ (f.required \cup f.optional)) \in Kws
    BY <2>2 DEF Kws, Hashes
  <2>4. None \in Kws
    BY DEF Kws
  <2> QED  BY <1>5, <2>3, <2>4, ValueFacts DEF Unasked
<1>11. PICK args, kdblk : args = PassedOnRead(rs, f) /\ kdblk = Read(rs, size + 1, kd + 1)
  OBVIOUS
<1>12. args = PassedOn(f, c) /\ args \in Seq(Elems)
  BY <1>7, <1>11, PassedOnFacts
<1>13. kdblk \in Seq(Cells) /\ Len(kdblk) = kd + 1 /\ (kd = 1 => kdblk[1] = rs[size + 1]) /\ kdblk[kd + 1] = c.blk
  <2>1. kdblk = [i \in 1 .. kd + 1 |-> rs[size + 1 + i - 1]]
    BY <1>11 DEF Read
  <2>2. CASE kd = 0
    <3>1. \A i \in 1 .. kd + 1 : size + 1 + i - 1 = size + kd + 1
      BY <2>2
    <3>2. kdblk = [i \in 1..1 |-> c.blk]
      BY <1>7, <2>1, <2>2, <3>1
    <3>3. c.blk \in Cells
      BY <1>6, CellFacts
    <3>4. 1 \in Nat /\ 1 \in 1..1
      OBVIOUS
    <3>5. kdblk \in Seq(Cells) /\ Len(kdblk) = 1 /\ kdblk[1] = c.blk
      BY <3>2, <3>3, <3>4, ConstantSeq
    <3> QED  BY <2>2, <3>5
  <2>3. CASE kd = 1
    <3>1. c.blk \in Cells /\ rs[size + 1] \in Cells
      BY <1>6, <1>9, <1>10, <2>3, CellFacts
    <3>2. \A i \in 1..2 : (i = 1 => size + 1 + i - 1 = size + 1) /\ (i = 2 => size + 1 + i - 1 = size + kd + 1) /\ i \in {1, 2}
      BY <2>3
    <3>3. kdblk = [i \in 1..2 |-> rs[size + 1 + i - 1]]
      BY <2>1, <2>3
    <3>4. kdblk \in [1..2 -> Cells] /\ kdblk[1] = rs[size + 1] /\ kdblk[2] = c.blk
      BY <1>7, <3>1, <3>2, <3>3
    <3>5. PICK n \in Nat : n = 2
      OBVIOUS
    <3>6. kdblk \in [1..n -> Cells]
      BY <3>4, <3>5
    <3>7. kdblk \in Seq(Cells) /\ Len(kdblk) = 2
      BY <3>5, <3>6, MadeSeq
    <3> QED  BY <2>3, <3>4, <3>7
  <2> QED  BY <2>2, <2>3
<1>14. PICK row, out, n, nk : /\ row = <<Arr(args)>> \o kdblk /\ out = Write([r \in Regs |-> Stale], 1, row)
                              /\ n = CALL_MAXARGS /\ nk = IF kd = 1 THEN CALL_MAXARGS ELSE 0
  OBVIOUS
<1>15. row \in Seq(Cells) /\ Len(row) = kd + 2 /\ row[1] = Arr(args) /\ (kd = 1 => row[2] = rs[size + 1]) /\ row[kd + 2] = c.blk
  <2>1. Arr(args) \in Cells
    BY <1>12, CellFacts
  <2>2. <<Arr(args)>> \in Seq(Cells) /\ Len(<<Arr(args)>>) = 1 /\ <<Arr(args)>>[1] = Arr(args)
    BY <2>1, OneFacts
  <2>3. PICK one \in Seq(Cells) : one = <<Arr(args)>>
    BY <2>2
  <2>4. kdblk \in Seq(Cells)
    BY <1>13
  <2>5. /\ one \o kdblk \in Seq(Cells) /\ Len(one \o kdblk) = Len(one) + Len(kdblk)
        /\ \A i \in 1..Len(one) : (one \o kdblk)[i] = one[i]
        /\ \A i \in 1..Len(kdblk) : (one \o kdblk)[Len(one) + i] = kdblk[i]
    BY <2>4, TwoFacts
  <2>6. Len(one) = 1 /\ one[1] = Arr(args) /\ row = one \o kdblk
    BY <1>14, <2>2, <2>3
  <2>7. /\ row \in Seq(Cells) /\ Len(row) = 1 + Len(kdblk) /\ row[1] = Arr(args)
        /\ \A i \in 1..Len(kdblk) : row[1 + i] = kdblk[i]
    BY <2>5, <2>6
  <2>8. CASE kd = 0
    BY <1>13, <2>7, <2>8
  <2>9. CASE kd = 1
    BY <1>13, <2>7, <2>9
  <2> QED  BY <2>8, <2>9
<1>16. \A i \in 1 .. kd + 2 : out[i] = row[i]
  <2>1. row \in Seq(Cells) /\ Len(row) <= MaxReg
    BY <1>15, SizeFacts
  <2>2. \A i \in 1..Len(row) : out[i] = row[i]
    BY <1>14, <2>1, RowWritten
  <2> QED  BY <1>15, <2>2
<1>17. out[1].arr = args /\ (kd = 1 => out[2] = rs[size + 1]) /\ out[kd + 2] = c.blk
  <2>1. 1 \in 1 .. kd + 2 /\ (kd = 1 => 2 \in 1 .. kd + 2) /\ kd + 2 \in 1 .. kd + 2
    OBVIOUS
  <2> QED  BY <1>15, <1>16, <2>1, ValueFacts
<1>18. PICK call : call = [args |-> args, kw |-> Unasked(f, c), blk |-> c.blk]
  OBVIOUS
<1>19. call \in Calls /\ call.args = args /\ call.kw = Unasked(f, c) /\ call.blk = c.blk
  BY <1>6, <1>10, <1>12, <1>18 DEF Calls
<1>20. n \in 0..CALL_MAXARGS /\ nk \in 0..CALL_MAXARGS /\ n = CALL_MAXARGS /\ CALL_MAXARGS # 0
       /\ (kd = 1 => nk = CALL_MAXARGS) /\ (kd = 0 => nk = 0)
  BY <1>14, SizeFacts
<1>21. LaidDown(out, n, nk, TRUE, call)
  <2>1. Positioned(out, n, call.args)
    BY <1>17, <1>19, <1>20 DEF Positioned
  <2>2. nk = 0 <=> call.kw = None
    BY <1>10, <1>19, <1>20
  <2>3. Width(n) = 1
    BY <1>20 DEF Width
  <2>4. nk = CALL_MAXARGS => out[Width(n) + 1] = call.kw
    <3>1. nk = CALL_MAXARGS => kd = 1 /\ Width(n) + 1 = 2
      BY <1>20, <2>3
    <3> QED  BY <1>9, <1>17, <1>19, <3>1
  <2>5. nk # 0 /\ nk # CALL_MAXARGS => FALSE
    BY <1>20
  <2>6. Width(n) + 1 + (IF nk = CALL_MAXARGS THEN 1 ELSE 2 * nk) = kd + 2
    <3>1. CASE kd = 0
      BY <1>20, <2>3, <3>1
    <3>2. CASE kd = 1
      BY <1>20, <2>3, <3>2
    <3> QED  BY <3>1, <3>2
  <2>7. ensure_block(c.blk) = c.blk
    BY <1>6, ValueFacts DEF ensure_block
  <2>8. ensure_block(out[Width(n) + 1 + (IF nk = CALL_MAXARGS THEN 1 ELSE 2 * nk)]) = call.blk
    BY <1>17, <1>19, <2>6, <2>7
  <2> QED  BY <2>1, <2>2, <2>4, <2>5, <2>8 DEF LaidDown
<1>22. Sent(out, n, nk, TRUE)
  <2>1. Sent(Write([r \in Regs |-> Stale], 1, <<Arr(PassedOnRead(regs, p))>> \o Read(regs, Size(p) + 1, p.kd + 1)),
             CALL_MAXARGS, IF p.kd = 1 THEN CALL_MAXARGS ELSE 0, TRUE)
    BY DEF Zsuper, PassedOnRead
  <2> QED  BY <1>2, <1>3, <1>5, <1>11, <1>14, <2>1
<1>23. sent' = call /\ hops' \in Nat /\ TRUE \in BOOLEAN
  BY <1>1, <1>2, <1>12, <1>18
<1> QED  BY <1>1, <1>19, <1>20, <1>21, <1>22, <1>23, SentStep

\* A compiled call's registers: its arguments, its keywords, its block.
SiteRegs(args, packed, kws, blk) ==
  Write([r \in Regs |-> Stale], 1,
        (IF packed THEN <<Arr(args)>> ELSE args) \o kws \o IF blk = None THEN <<>> ELSE <<blk>>)
SiteCount(args, packed) == IF packed THEN CALL_MAXARGS ELSE Len(args)

LEMMA SiteFacts ==
  ASSUME NEW args \in Seq(Elems), NEW packed \in BOOLEAN, packed \/ Len(args) < CALL_MAXARGS,
         NEW kws \in Seq(Cells), Len(kws) <= 2 * (CALL_MAXARGS - 1), NEW blk \in {None, Nil, Block, ToProc}
  PROVE  LET out == SiteRegs(args, packed, kws, blk)
             n == SiteCount(args, packed)
         IN  /\ n \in 0..CALL_MAXARGS /\ Positioned(out, n, args)
             /\ \A j \in 1..Len(kws) : out[Width(n) + j] = kws[j]
             /\ blk # None => out[Width(n) + Len(kws) + 1] = blk
<1>1. PICK pos, tail, n, out, row :
        /\ pos = (IF packed THEN <<Arr(args)>> ELSE args)
        /\ tail = (IF blk = None THEN <<>> ELSE <<blk>>)
        /\ n = SiteCount(args, packed) /\ out = SiteRegs(args, packed, kws, blk)
        /\ row = pos \o kws \o tail
  OBVIOUS
<1>2. out = Write([r \in Regs |-> Stale], 1, row)
  BY <1>1 DEF SiteRegs
<1>3. Len(args) \in Nat /\ Arr(args) \in Cells /\ args \in Seq(Cells)
  BY CellFacts, SeqFacts
<1>4. n \in 0..CALL_MAXARGS /\ (packed => n = CALL_MAXARGS) /\ (~packed => n = Len(args) /\ n # CALL_MAXARGS)
  BY <1>1, <1>3, SizeFacts DEF SiteCount
<1>5. PICK w \in Nat : w = Width(n) /\ w <= CALL_MAXARGS - 1 /\ (packed => w = 1) /\ (~packed => w = n)
  BY <1>4, WidthFacts
<1>6. pos \in Seq(Cells) /\ Len(pos) = w
  <2>1. CASE packed
    BY <1>1, <1>3, <1>5, <2>1, OneFacts
  <2>2. CASE ~packed
    BY <1>1, <1>3, <1>4, <1>5, <2>2
  <2> QED  BY <2>1, <2>2
<1>7. tail \in Seq(Cells) /\ Len(tail) = (IF blk = None THEN 0 ELSE 1) /\ (blk # None => tail[1] = blk)
  <2>1. CASE blk = None
    BY <1>1, <2>1, EmptySeq
  <2>2. CASE blk # None
    <3>1. blk \in Cells
      BY <2>2, CellFacts
    <3>2. <<blk>> \in Seq(Cells) /\ Len(<<blk>>) = 1 /\ <<blk>>[1] = blk
      BY <3>1, OneFacts
    <3> QED  BY <1>1, <2>2, <3>2
  <2> QED  BY <2>1, <2>2
<1>8. PICK two : two = pos \o kws
  OBVIOUS
<1>9. /\ two \in Seq(Cells) /\ Len(two) = Len(pos) + Len(kws)
      /\ \A j \in 1..Len(pos) : two[j] = pos[j]
      /\ \A j \in 1..Len(kws) : two[Len(pos) + j] = kws[j]
  <2>1. pos \in Seq(Cells)
    BY <1>6
  <2>2. /\ pos \o kws \in Seq(Cells) /\ Len(pos \o kws) = Len(pos) + Len(kws)
        /\ \A j \in 1..Len(pos) : (pos \o kws)[j] = pos[j]
        /\ \A j \in 1..Len(kws) : (pos \o kws)[Len(pos) + j] = kws[j]
    BY <2>1, TwoFacts
  <2> QED  BY <1>8, <2>2
<1>10. /\ row \in Seq(Cells) /\ Len(row) = Len(two) + Len(tail)
       /\ \A j \in 1..Len(two) : row[j] = two[j]
       /\ \A j \in 1..Len(tail) : row[Len(two) + j] = tail[j]
  <2>1. two \in Seq(Cells) /\ tail \in Seq(Cells)
    BY <1>7, <1>9
  <2>2. /\ two \o tail \in Seq(Cells) /\ Len(two \o tail) = Len(two) + Len(tail)
        /\ \A j \in 1..Len(two) : (two \o tail)[j] = two[j]
        /\ \A j \in 1..Len(tail) : (two \o tail)[Len(two) + j] = tail[j]
    BY <2>1, TwoFacts
  <2>3. row = two \o tail
    BY <1>1, <1>8
  <2> QED  BY <2>2, <2>3
<1>11. PICK nkw \in Nat : nkw = Len(kws) /\ nkw <= 2 * (CALL_MAXARGS - 1)
  <2>1. Len(kws) \in Nat
    BY SeqFacts
  <2> QED  BY <2>1
<1>12. PICK nt \in {0, 1} : nt = Len(tail) /\ (blk # None <=> nt = 1)
  BY <1>7
<1>13. Len(two) = w + nkw /\ Len(row) = w + nkw + nt
  BY <1>6, <1>9, <1>10, <1>11, <1>12
<1>14. w + nkw + nt <= MaxReg
  BY <1>5, <1>11, <1>12, SizeFacts, SMTT(30)
<1>15. \A i \in 1 .. w + nkw + nt : out[i] = row[i]
  <2>1. row \in Seq(Cells) /\ Len(row) <= MaxReg
    BY <1>10, <1>13, <1>14
  <2>2. \A i \in 1..Len(row) : out[i] = row[i]
    BY <1>2, <2>1, RowWritten
  <2> QED  BY <1>13, <2>2
<1>16. \A i \in 1..w : out[i] = pos[i]
  <2>1. \A i \in 1..w : i \in 1 .. w + nkw + nt /\ i \in 1 .. w + nkw
    BY <1>11, <1>12
  <2> QED  BY <1>6, <1>9, <1>10, <1>13, <1>15, <2>1
<1>17. \A j \in 1..nkw : out[w + j] = kws[j]
  <2> SUFFICES ASSUME NEW j \in 1..nkw  PROVE out[w + j] = kws[j]
    OBVIOUS
  <2>1. PICK i \in 1 .. w + nkw : i = w + j /\ i \in 1 .. w + nkw + nt
    BY <1>11, <1>12
  <2>2. two[w + j] = kws[j]
    BY <1>6, <1>9, <1>11
  <2> QED  BY <1>10, <1>13, <1>15, <2>1, <2>2
<1>18. nt = 1 => out[w + nkw + 1] = blk
  <2>1. nt = 1 => w + nkw + 1 \in 1 .. w + nkw + nt /\ 1 \in 1..nt
    BY <1>11
  <2>2. nt = 1 => row[w + nkw + 1] = tail[1]
    BY <1>10, <1>12, <1>13, <2>1
  <2> QED  BY <1>7, <1>12, <1>15, <2>1, <2>2
<1>19. Positioned(out, n, args)
  <2>1. CASE packed
    <3>0. w = 1 /\ pos = <<Arr(args)>>
      BY <1>1, <1>5, <2>1
    <3>1. 1 \in 1..w
      BY <3>0
    <3>2. out[1] = Arr(args)
      BY <1>16, <3>0, <3>1
    <3> QED  BY <1>4, <2>1, <3>2, ValueFacts DEF Positioned
  <2>2. CASE ~packed
    BY <1>1, <1>4, <1>5, <1>16, <2>2 DEF Positioned
  <2> QED  BY <2>1, <2>2
<1> QED  BY <1>1, <1>4, <1>5, <1>11, <1>12, <1>17, <1>18, <1>19

LEMMA SiteStep ==
  ASSUME IInv, NEW args \in ArgLists, NEW kw \in {None} \cup {Hash(ks) : ks \in SUBSET Keys},
         NEW packed \in BOOLEAN, NEW hashed \in BOOLEAN, NEW blk \in {None, Nil, Block, ToProc},
         Site(args, packed, kw, hashed, blk)
  PROVE  IInv'
<1> DEFINE n == SiteCount(args, packed)
           nk == Cardinality(kw.keys)
           out(kws) == SiteRegs(args, packed, kws, blk)
           hb == blk # None
           call == [args |-> args, kw |-> kw, blk |-> IF blk = None THEN Nil ELSE ensure_block(blk)]
<1>1. at = "idle" /\ (packed \/ Len(args) < CALL_MAXARGS) /\ sent' = call /\ taken' = taken /\ hops' = hops
  BY DEF Site
<1>2. \/ kw = None /\ Sent(out(<<>>), n, 0, hb)
      \/ kw # None /\ Sent(out(<<kw>>), n, CALL_MAXARGS, hb)
      \/ /\ kw # None /\ nk \in 1 .. CALL_MAXARGS - 1
         /\ \E key \in [1..nk -> kw.keys] :
              /\ {key[i] : i \in 1..nk} = kw.keys
              /\ Sent(out([i \in 1 .. 2 * nk |-> Key(key[(i + 1) \div 2])]), n, nk, hb)
  BY DEF Site, SiteRegs, SiteCount
<1>3. taken' = {} /\ hops' \in Nat
  BY <1>1 DEF IInv, Prologue, Typed
<1>4. args \in Seq(Elems)
  <2>1. args \in Seq(ArgVals) /\ ArgVals \subseteq Elems
    BY SizeFacts DEF Elems
  <2> QED  BY <2>1, SeqMonotonic
<1>5. kw \in Kws
  BY DEF Kws, Hashes
<1>6. call \in Calls /\ call.args = args /\ call.kw = kw /\ call.blk = (IF blk = None THEN Nil ELSE ensure_block(blk))
  <2>1. (IF blk = None THEN Nil ELSE ensure_block(blk)) \in {Nil, Block}
    BY ValueFacts DEF ensure_block
  <2> QED  BY <1>4, <1>5, <2>1 DEF Calls
<1>7. hb \in BOOLEAN
  OBVIOUS
<1> HIDE DEF n, nk, out, hb, call
<1>8. ASSUME NEW kws \in Seq(Cells), Len(kws) <= 2 * (CALL_MAXARGS - 1)
      PROVE  /\ n \in 0..CALL_MAXARGS /\ Positioned(out(kws), n, args)
             /\ \A j \in 1..Len(kws) : out(kws)[Width(n) + j] = kws[j]
             /\ hb => out(kws)[Width(n) + Len(kws) + 1] = blk
  BY <1>1, <1>4, <1>8, SiteFacts DEF n, out, hb
<1>9. CALL_MAXARGS \in Nat /\ CALL_MAXARGS >= 2
  BY SizeFacts
<1>10. CASE kw = None /\ Sent(out(<<>>), n, 0, hb)
  <2>1. <<>> \in Seq(Cells) /\ Len(<<>>) = 0
    BY EmptySeq
  <2>2. PICK kws \in Seq(Cells) : kws = <<>> /\ Len(kws) = 0
    BY <2>1
  <2>3. Len(kws) <= 2 * (CALL_MAXARGS - 1)
    BY <1>9, <2>2
  <2>4. /\ n \in 0..CALL_MAXARGS /\ Positioned(out(kws), n, args)
        /\ hb => out(kws)[Width(n) + Len(kws) + 1] = blk
    BY <1>8, <2>3
  <2>5. Width(n) \in Nat
    BY <2>4, WidthFacts
  <2>6. Width(n) + Len(kws) + 1 = Width(n) + 1 + (IF 0 = CALL_MAXARGS THEN 1 ELSE 2 * 0)
    BY <1>9, <2>2, <2>5
  <2>7. hb => ensure_block(out(kws)[Width(n) + 1 + (IF 0 = CALL_MAXARGS THEN 1 ELSE 2 * 0)]) = call.blk
    BY <1>6, <2>4, <2>6 DEF hb
  <2>8. ~hb => call.blk = Nil
    BY <1>6 DEF hb
  <2>9. LaidDown(out(kws), n, 0, hb, call)
    BY <1>6, <1>9, <1>10, <2>4, <2>7, <2>8 DEF LaidDown
  <2>10. 0 \in 0..CALL_MAXARGS
    BY <1>9
  <2> QED  BY <1>1, <1>3, <1>6, <1>7, <1>10, <2>2, <2>4, <2>9, <2>10, SentStep
<1>11. CASE kw # None /\ Sent(out(<<kw>>), n, CALL_MAXARGS, hb)
  <2>1. kw \in Cells
    BY <1>5, CellFacts
  <2>2. <<kw>> \in Seq(Cells) /\ Len(<<kw>>) = 1 /\ <<kw>>[1] = kw
    BY <2>1, OneFacts
  <2>3. PICK kws \in Seq(Cells) : kws = <<kw>> /\ Len(kws) = 1 /\ kws[1] = kw
    BY <2>2
  <2>4. Len(kws) <= 2 * (CALL_MAXARGS - 1)
    BY <1>9, <2>3
  <2>5. /\ n \in 0..CALL_MAXARGS /\ Positioned(out(kws), n, args)
        /\ \A j \in 1..Len(kws) : out(kws)[Width(n) + j] = kws[j]
        /\ hb => out(kws)[Width(n) + Len(kws) + 1] = blk
    BY <1>8, <2>4
  <2>6. Width(n) \in Nat
    BY <2>5, WidthFacts
  <2>7. out(kws)[Width(n) + 1] = kw
    <3>1. 1 \in 1..Len(kws)
      BY <2>3
    <3> QED  BY <2>3, <2>5, <3>1
  <2>8. Width(n) + Len(kws) + 1 = Width(n) + 1 + (IF CALL_MAXARGS = CALL_MAXARGS THEN 1 ELSE 2 * CALL_MAXARGS)
    BY <2>3, <2>6
  <2>9. hb => ensure_block(out(kws)[Width(n) + 1 + (IF CALL_MAXARGS = CALL_MAXARGS THEN 1 ELSE 2 * CALL_MAXARGS)]) = call.blk
    BY <1>6, <2>5, <2>8 DEF hb
  <2>10. ~hb => call.blk = Nil
    BY <1>6 DEF hb
  <2>11. CALL_MAXARGS \in 0..CALL_MAXARGS /\ CALL_MAXARGS # 0
    BY <1>9
  <2>12. LaidDown(out(kws), n, CALL_MAXARGS, hb, call)
    BY <1>6, <1>11, <2>5, <2>7, <2>9, <2>10, <2>11 DEF LaidDown
  <2> QED  BY <1>1, <1>3, <1>6, <1>7, <1>11, <2>3, <2>5, <2>11, <2>12, SentStep
<1>12. ASSUME kw # None, nk \in 1 .. CALL_MAXARGS - 1, NEW key \in [1..nk -> kw.keys],
              {key[i] : i \in 1..nk} = kw.keys,
              Sent(out([i \in 1 .. 2 * nk |-> Key(key[(i + 1) \div 2])]), n, nk, hb)
       PROVE  IInv'
  <2>1. PICK m \in Nat : m = nk /\ m >= 1 /\ m <= CALL_MAXARGS - 1 /\ m \in 0..CALL_MAXARGS
    BY <1>9, <1>12
  <2>2. PICK kws : kws = [i \in 1 .. 2 * m |-> Key(key[(i + 1) \div 2])]
    OBVIOUS
  <2>3. \A i \in 1 .. 2 * m : (i + 1) \div 2 \in 1..m
    BY <2>1
  <2>4. \A i \in 1..m : key[i] \in kw.keys /\ key[i] \in Keys
    BY <1>5, <1>12, <2>1, KwFacts
  <2>5. kws \in [1 .. 2 * m -> Cells]
    <3>1. \A i \in 1 .. 2 * m : Key(key[(i + 1) \div 2]) \in Cells
      BY <2>3, <2>4 DEF Cells
    <3> QED  BY <2>2, <3>1
  <2>6. 2 * m \in Nat
    BY <2>1
  <2>7. kws \in Seq(Cells) /\ Len(kws) = 2 * m
    BY <2>5, <2>6, MadeSeq
  <2>8. Len(kws) <= 2 * (CALL_MAXARGS - 1)
    BY <1>9, <2>1, <2>7
  <2>9. /\ n \in 0..CALL_MAXARGS /\ Positioned(out(kws), n, args)
        /\ \A j \in 1..Len(kws) : out(kws)[Width(n) + j] = kws[j]
        /\ hb => out(kws)[Width(n) + Len(kws) + 1] = blk
    BY <1>8, <2>7, <2>8
  <2>10. PICK rs : rs = out(kws)
    OBVIOUS
  <2>11. PICK w \in Nat : w = Width(n)
    BY <2>9, WidthFacts
  <2>12. \A i \in 0 .. m - 1 : rs[w + 1 + 2 * i].keys = {key[i + 1]}
    <3> SUFFICES ASSUME NEW i \in 0 .. m - 1  PROVE rs[w + 1 + 2 * i].keys = {key[i + 1]}
      OBVIOUS
    <3>1. PICK j \in 1 .. 2 * m : j = 2 * i + 1 /\ (j + 1) \div 2 = i + 1 /\ w + j = w + 1 + 2 * i
      BY <2>1
    <3>2. rs[w + j] = kws[j]
      BY <2>7, <2>9, <2>10, <2>11
    <3>3. kws[j] = Key(key[i + 1])
      BY <2>2, <3>1
    <3>4. Key(key[i + 1]).keys = {key[i + 1]}
      BY ValueFacts
    <3> QED  BY <3>1, <3>2, <3>3, <3>4
  <2>13. UNION {rs[w + 1 + 2 * i].keys : i \in 0 .. m - 1} = kw.keys
    <3>1. {rs[w + 1 + 2 * i].keys : i \in 0 .. m - 1} = {{key[i + 1]} : i \in 0 .. m - 1}
      BY <2>12
    <3>2. UNION {{key[i + 1]} : i \in 0 .. m - 1} = {key[i + 1] : i \in 0 .. m - 1}
      OBVIOUS
    <3>3. {key[i + 1] : i \in 0 .. m - 1} = {key[i] : i \in 1..m}
      <4>1. \A i \in 0 .. m - 1 : i + 1 \in 1..m
        BY <2>1
      <4>2. \A i \in 1..m : i - 1 \in 0 .. m - 1 /\ i - 1 + 1 = i
        BY <2>1
      <4> QED  BY <4>1, <4>2
    <3> QED  BY <1>12, <2>1, <3>1, <3>2, <3>3
  <2>14. Hash(UNION {rs[w + 1 + 2 * i].keys : i \in 0 .. m - 1}) = kw
    BY <1>5, <1>12, <2>13, KwFacts
  <2>15. m # 0 /\ m # CALL_MAXARGS
    BY <1>9, <2>1
  <2>16. w + Len(kws) + 1 = w + 1 + (IF m = CALL_MAXARGS THEN 1 ELSE 2 * m)
    BY <2>1, <2>7, <2>15
  <2>17. hb => ensure_block(rs[w + 1 + (IF m = CALL_MAXARGS THEN 1 ELSE 2 * m)]) = call.blk
    BY <1>6, <2>9, <2>10, <2>11, <2>16 DEF hb
  <2>18. ~hb => call.blk = Nil
    BY <1>6 DEF hb
  <2>19. LaidDown(rs, n, m, hb, call)
    BY <1>6, <1>12, <2>9, <2>10, <2>11, <2>14, <2>15, <2>17, <2>18 DEF LaidDown
  <2>20. Sent(rs, n, m, hb)
    BY <1>12, <2>1, <2>2, <2>10
  <2> QED  BY <1>1, <1>3, <1>6, <1>7, <2>1, <2>9, <2>19, <2>20, SentStep
<1> QED  BY <1>2, <1>10, <1>11, <1>12

\* At a frame that has been pushed: what EnterFast and EnterSlow start from.
LEMMA PushedFacts ==
  ASSUME IInv, at = "pushed"
  PROVE  /\ p \in Params /\ sent \in Calls /\ taken = {} /\ hops \in Nat
         /\ Holds(regs, ci.n, ci.kw, sent) /\ ci.n \in 0..CALL_MAXARGS /\ ci.kw \in BOOLEAN
         /\ send_args(regs, ci.n) = sent.args /\ KwOf(regs, ci) = sent.kw /\ regs[frame_bidx(ci)] = sent.blk
         /\ regs = [r \in Regs |-> regs[r]] /\ ci = [n |-> ci.n, kw |-> ci.kw]
<1>1. at \in {"called", "pushed"}
  OBVIOUS
<1> QED  BY <1>1, CarriedFacts DEF IInv, Typed

\* What a bound frame must satisfy.
LEMMA BoundStep ==
  ASSUME IInv, at = "pushed", UNCHANGED <<p, taken, sent, hops>>,
         regs' = [r \in Regs |-> regs'[r]], ci' = [n |-> ci'.n, kw |-> ci'.kw], ci'.n \in Nat, ci'.kw \in BOOLEAN,
         p.kd = 1 => ci'.kw /\ ci'.n = Size(p),
         at' = IF p.kd = 1 THEN "keywords" ELSE "ready",
         ~WrongCount(p, Len(Counted(p, sent))),
         Read(regs', 1, Size(p)) = Declared(p, sent),
         p.kd = 1 => regs'[Size(p) + 1] = Hash(sent.kw.keys),
         regs'[Size(p) + p.kd + 1] = sent.blk,
         \A r \in Size(p) + p.kd + 2 .. NLocals(p) - 1 : regs'[r] = Nil,
         p.noblock => sent.blk = Nil
  PROVE  IInv'
<1>1. p \in Params /\ sent \in Calls /\ taken = {} /\ hops \in Nat /\ ci.n \in Nat /\ ci = [n |-> ci.n, kw |-> ci.kw]
  BY PushedFacts, SizeFacts
<1>2. p.kd \in {0, 1} /\ Size(p) \in Nat
  BY <1>1, ParamFacts
<1>4. at' \in {"keywords", "ready"} /\ (at' = "ready" => p.kd # 1) /\ (at' = "keywords" => p.kd = 1)
  BY <1>2
<1>5. Typed'
  BY <1>1, <1>4 DEF Typed, Stops
<1>6. Carried' /\ Prologue'
  BY <1>1, <1>4 DEF Carried, Prologue
<1>7. BindsAsDeclared'
  <2>1. sent.kw.keys \ taken = sent.kw.keys
    BY <1>1
  <2> QED  BY <1>4, <2>1 DEF BindsAsDeclared
<1>8. KeywordsReachTheirNames'
  BY <1>4 DEF KeywordsReachTheirNames
<1> QED  BY <1>5, <1>6, <1>7, <1>8 DEF IInv

LEMMA WrongCountStep ==
  ASSUME IInv, at = "pushed", UNCHANGED <<p, taken, sent, hops, regs, ci>>, at' = "wrong count",
         LET kw == IF IsFast(p, ci.n) THEN sent.kw
                   ELSE IF p.kd = 1 THEN None ELSE kdict_nonempty(sent.kw)
         IN  WrongCount(p, Len(Appended(sent.args, kw)))
  PROVE  IInv'
<1>1. sent \in Calls /\ ci.n \in Nat /\ ci.kw \in BOOLEAN
  BY DEF IInv, Typed
<1>2. Typed'
  BY <1>1 DEF IInv, Typed, Stops
<1>3. Carried' /\ Prologue' /\ KeywordsReachTheirNames'
  BY DEF Carried, Prologue, KeywordsReachTheirNames
<1>4. BindsAsDeclared'
  BY DEF BindsAsDeclared
<1> QED  BY <1>2, <1>3, <1>4 DEF IInv

LEMMA EnterFastStep ==
  ASSUME IInv, EnterFast
  PROVE  IInv'
<1>1. /\ at = "pushed" /\ p \in Params /\ sent \in Calls /\ Holds(regs, ci.n, ci.kw, sent)
      /\ ci.n \in 0..CALL_MAXARGS /\ ci.kw \in BOOLEAN /\ regs[frame_bidx(ci)] = sent.blk
      /\ UNCHANGED <<p, taken, sent, hops>> /\ IsFast(p, ci.n)
  BY PushedFacts DEF EnterFast
<1>2. PICK f, c, rs, n, kw : f = p /\ c = sent /\ rs = regs /\ n = ci.n /\ kw = ci.kw
  OBVIOUS
<1> f \in Params /\ c \in Calls /\ n \in 0..CALL_MAXARGS /\ kw \in BOOLEAN
  BY <1>1, <1>2
<1>3. f.m1 \in Nat /\ f.o \in Nat /\ f.m2 \in Nat /\ f.r \in {0, 1} /\ f.kd \in {0, 1}
      /\ Size(f) = f.m1 + f.o + f.r + f.m2 /\ NLocals(f) = Size(f) + f.kd + 3 /\ MaxReg >= NLocals(f)
  BY ParamFacts
<1>4. PICK m1 \in Nat : m1 = f.m1
  BY <1>3
<1>5. /\ f.strict /\ f.o = 0 /\ f.r = 0 /\ f.m2 = 0 /\ f.kd = 0 /\ ~f.noblock /\ n # CALL_MAXARGS
      /\ Size(f) = m1 /\ NLocals(f) = m1 + 3
  <2>1. f.strict /\ f.o + f.r + f.m2 + f.kd = 0 /\ ~f.noblock /\ n < CALL_MAXARGS
    BY <1>1, <1>2 DEF IsFast
  <2>2. f.o = 0 /\ f.r = 0 /\ f.m2 = 0 /\ f.kd = 0
    BY <1>3, <2>1
  <2>0. n # CALL_MAXARGS
    BY <2>1, SizeFacts
  <2>3. Size(f) = m1 /\ NLocals(f) = m1 + 3
    BY <1>3, <1>4, <2>2
  <2> QED  BY <2>0, <2>1, <2>2, <2>3
<1>6. Holds(rs, n, kw, c) /\ c.args \in Seq(Elems) /\ c.kw \in Kws /\ c.blk \in {Nil, Block}
  BY <1>1, <1>2, CallFacts
<1>7. n \in Nat /\ Width(n) = n
  BY <1>5, WidthFacts, SizeFacts
<1>8. /\ Len(c.args) = n /\ (\A i \in 1..n : rs[i] = c.args[i])
      /\ (kw <=> c.kw # None) /\ (kw => rs[n + 1] = c.kw) /\ rs[n + (IF kw THEN 1 ELSE 0) + 1] = c.blk
  BY <1>5, <1>6, <1>7 DEF Holds, Positioned
<1>9. PICK a : a = Appended(c.args, c.kw)
  OBVIOUS
<1>10. PICK k \in {0, 1} : k = IF kw THEN 1 ELSE 0
  OBVIOUS
<1>11. /\ a \in Seq(Elems) /\ Len(a) = n + k
       /\ \A i \in 1 .. n + k : rs[i] = a[i]
  <2>1. c.kw = None \/ c.kw \in Elems
    BY <1>6 DEF Kws, Elems
  <2>2. PICK args \in Seq(Elems), kd \in Kws : args = c.args /\ kd = c.kw
    BY <1>6
  <2>. kd = None \/ kd \in Elems
    BY <2>1, <2>2
  <2>3. /\ Appended(args, kd) \in Seq(Elems)
        /\ Len(Appended(args, kd)) = Len(args) + (IF kd = None THEN 0 ELSE 1)
        /\ kd # None => Appended(args, kd)[Len(args) + 1] = kd
        /\ \A i \in 1..Len(args) : Appended(args, kd)[i] = args[i]
    BY AppendedFacts, ZenonT(60)
  <2>4. /\ a \in Seq(Elems) /\ Len(a) = n + k
        /\ kw => a[n + 1] = c.kw
        /\ \A i \in 1..n : a[i] = c.args[i]
    BY <1>8, <1>9, <1>10, <2>2, <2>3
  <2>5. \A i \in 1 .. n + k : i \in 1..n \/ (kw /\ i = n + 1)
    BY <1>7, <1>10
  <2> QED  BY <1>8, <2>4, <2>5
<1>12. CASE n + k # m1
  <2>1. UNCHANGED <<regs, ci>> /\ at' = "wrong count"
    BY <1>2, <1>4, <1>10, <1>12 DEF EnterFast
  <2>2. WrongCount(f, Len(a))
    BY <1>3, <1>4, <1>5, <1>7, <1>10, <1>11, <1>12 DEF WrongCount
  <2>3. IsFast(p, ci.n) /\ WrongCount(p, Len(Appended(sent.args, sent.kw)))
    BY <1>1, <1>2, <1>9, <2>2
  <2> QED  BY <1>1, <2>1, <2>3, WrongCountStep
<1>13. CASE n + k = m1
  <2>1. PICK out : out = Clear(rs, m1 + 2, m1 + 2)
    OBVIOUS
  <2>2. NLocals(f) - 1 = m1 + 2
    BY <1>5
  <2>3. regs' = out /\ ci' = [ci EXCEPT !.kw = FALSE] /\ at' = "ready"
    BY <1>2, <1>4, <1>10, <1>13, <2>1, <2>2 DEF EnterFast
  <2>4. out = [r \in Regs |-> out[r]] /\ \A r \in Regs : out[r] = IF r \in m1 + 2 .. m1 + 2 THEN Nil ELSE rs[r]
    BY <2>1, ClearFacts
  <2>5. Counted(f, c) = a
    <3>1. IsFast(f, 0)
      BY <1>5, SizeFacts DEF IsFast
    <3>2. CASE kw = TRUE
      <4>1. Len(c.args) + 1 = f.m1
        BY <1>4, <1>8, <1>10, <1>13, <3>2
      <4> QED  BY <1>5, <1>9, <3>1, <4>1 DEF Counted
    <3>3. CASE kw = FALSE
      <4>1. c.kw = None /\ Len(c.args) + 1 # f.m1
        BY <1>4, <1>7, <1>8, <1>10, <1>13, <3>3
      <4>2. kdict_nonempty(None) = None
        BY DEF kdict_nonempty
      <4> QED  BY <1>5, <1>9, <3>1, <4>1, <4>2 DEF Counted
    <3> QED  BY <3>2, <3>3
  <2>6. Declared(f, c) = Dealt(f, a)
    <3>1. Spread(f, a) = a
      BY <1>5, <1>11, SpreadFacts
    <3> QED  BY <2>5, <3>1, DeclaredFacts
  <2>7. ~WrongCount(f, Len(Counted(f, c)))
    BY <1>3, <1>4, <1>5, <1>11, <1>13, <2>5 DEF WrongCount
  <2>8. \A i \in 1 .. m1 + 1 : out[i] = rs[i]
    <3>1. \A i \in 1 .. m1 + 1 : i \in Regs /\ i \notin m1 + 2 .. m1 + 2
      BY <1>3, <1>5, SizeFacts
    <3> QED  BY <2>4, <3>1
  <2>9. \A i \in 1..m1 : Param(f, a, i) = a[i]
    <3> SUFFICES ASSUME NEW i \in 1..m1  PROVE Param(f, a, i) = a[i]
      OBVIOUS
    <3>1. Len(a) = m1 /\ m1 \in Nat
      BY <1>11, <1>13
    <3>2. Given(f, m1) \in Nat
      BY GivenFacts
    <3>3. i <= f.m1 + Given(f, Len(a)) /\ i <= Len(a)
      BY <1>4, <3>1, <3>2
    <3> QED  BY <3>3 DEF Param, Source
  <2>10. Read(out, 1, Size(f)) = Dealt(f, a)
    <3>1. /\ Dealt(f, a) \in Seq(Cells) /\ Len(Dealt(f, a)) = Size(f)
          /\ \A i \in 1..Size(f) : Dealt(f, a)[i] = Param(f, a, i)
      <4>1. a \in Seq(Elems)
        BY <1>11
      <4> QED  BY <4>1, DealtFacts
    <3>2. PICK d : d = Dealt(f, a)
      OBVIOUS
    <3>3. d \in Seq(Cells) /\ m1 \in Nat
      BY <3>1, <3>2
    <3>4. Read(out, 1, m1) = d <=> Len(d) = m1 /\ \A i \in 1..m1 : out[i] = d[i]
      BY <3>3, ReadFromOne
    <3>5. \A i \in 1..m1 : out[i] = a[i]
      <4>1. \A i \in 1..m1 : i \in 1 .. m1 + 1 /\ i \in 1 .. n + k
        BY <1>13
      <4> QED  BY <1>11, <2>8, <4>1
    <3> QED  BY <1>5, <2>9, <3>1, <3>2, <3>4, <3>5
  <2>11. out[m1 + 1] = c.blk
    <3>1. m1 + 1 \in 1 .. m1 + 1 /\ n + k + 1 = m1 + 1
      BY <1>13
    <3>2. rs[n + k + 1] = c.blk
      BY <1>8, <1>10
    <3> QED  BY <2>8, <3>1, <3>2
  <2>12. \A r \in m1 + 2 .. m1 + 2 : out[r] = Nil
    <3>1. \A r \in m1 + 2 .. m1 + 2 : r \in Regs
      BY <1>3, <1>5, SizeFacts
    <3> QED  BY <2>4, <3>1
  <2>13. Size(f) + f.kd + 1 = m1 + 1 /\ Size(f) + f.kd + 2 = m1 + 2
    BY <1>5
  <2>14. /\ ~WrongCount(p, Len(Counted(p, sent)))
         /\ Read(regs', 1, Size(p)) = Declared(p, sent)
         /\ regs'[Size(p) + p.kd + 1] = sent.blk
         /\ \A r \in Size(p) + p.kd + 2 .. NLocals(p) - 1 : regs'[r] = Nil
    BY <1>2, <2>2, <2>3, <2>6, <2>7, <2>10, <2>11, <2>12, <2>13
  <2>15. p.kd = 0 /\ ~p.noblock /\ at' = (IF p.kd = 1 THEN "keywords" ELSE "ready")
         /\ regs' = [r \in Regs |-> regs'[r]]
    BY <1>2, <1>5, <2>3, <2>4
  <2>16. ci' = [n |-> ci'.n, kw |-> ci'.kw] /\ ci'.n \in Nat /\ ci'.kw \in BOOLEAN
    <3>1. ci' = [n |-> ci.n, kw |-> FALSE] /\ ci.n \in Nat
      BY <2>3 DEF IInv, Typed
    <3> QED  BY <3>1
  <2> QED  BY <1>1, <2>14, <2>15, <2>16, BoundStep
<1> QED  BY <1>12, <1>13

LEMMA EnterSlowStep ==
  ASSUME IInv, EnterSlow
  PROVE  IInv'
<1>1. /\ at = "pushed" /\ p \in Params /\ sent \in Calls /\ ci.n \in 0..CALL_MAXARGS
      /\ send_args(regs, ci.n) = sent.args /\ KwOf(regs, ci) = sent.kw /\ regs[frame_bidx(ci)] = sent.blk
      /\ UNCHANGED <<p, taken, sent, hops>> /\ ~IsFast(p, ci.n)
  BY PushedFacts DEF EnterSlow
<1>2. PICK f, c, rs, n : f = p /\ c = sent /\ rs = regs /\ n = ci.n
  OBVIOUS
<1> f \in Params /\ c \in Calls /\ n \in 0..CALL_MAXARGS
  BY <1>1, <1>2
<1>3. c.args \in Seq(Elems) /\ c.kw \in Kws /\ c.blk \in {Nil, Block}
  BY CallFacts
<1>4. PICK a0, a, h, blk : /\ a0 = Appended(c.args, IF f.kd = 1 THEN None ELSE kdict_nonempty(c.kw))
                           /\ a = Spread(f, a0)
                           /\ h = (IF c.kw = None THEN Hash({}) ELSE c.kw)
                           /\ blk = c.blk
  OBVIOUS
<1>5. \/ at' = "no block" /\ UNCHANGED <<regs, ci>>
      \/ WrongCount(f, Len(a)) /\ at' = "wrong count" /\ UNCHANGED <<regs, ci>>
      \/ /\ ~(f.noblock /\ blk # Nil) /\ ~WrongCount(f, Len(a))
         /\ regs' = Entered(rs, f, a, h, blk)
         /\ ci' = [n |-> Size(f), kw |-> f.kd = 1]
         /\ at' = IF f.kd = 1 THEN "keywords" ELSE "ready"
  BY <1>1, <1>2, <1>4 DEF EnterSlow, Entered, Bound
<1>6. /\ a0 \in Seq(Elems)
      /\ ~WrongCount(f, Len(a)) => a0 = Counted(f, c) /\ ~WrongCount(f, Len(Counted(f, c)))
      /\ WrongCount(f, Len(a)) => WrongCount(f, Len(a0))
  BY <1>1, <1>2, <1>4, CountedFacts
<1>7. a \in Seq(Elems)
  BY <1>4, <1>6, SpreadFacts
<1>8. h \in Kws /\ h = Hash(c.kw.keys)
  <2>1. CASE c.kw = None
    BY <1>4, <2>1, ValueFacts DEF Kws, Hashes
  <2>2. CASE c.kw # None
    BY <1>3, <1>4, <2>2, KwFacts
  <2> QED  BY <2>1, <2>2
<1>9. CASE at' = "no block" /\ UNCHANGED <<regs, ci>>
  <2>1. hops' \in Nat
    BY <1>1 DEF IInv, Typed
  <2> QED  BY <1>1, <1>9, <2>1, Refused
<1>10. CASE WrongCount(f, Len(a)) /\ at' = "wrong count" /\ UNCHANGED <<regs, ci>>
  <2>1. LET kw == IF IsFast(p, ci.n) THEN sent.kw ELSE IF p.kd = 1 THEN None ELSE kdict_nonempty(sent.kw)
        IN  WrongCount(p, Len(Appended(sent.args, kw)))
    BY <1>1, <1>2, <1>4, <1>6, <1>10
  <2> QED  BY <1>1, <1>10, <2>1, WrongCountStep
<1>11. CASE /\ ~(f.noblock /\ blk # Nil) /\ ~WrongCount(f, Len(a))
            /\ regs' = Entered(rs, f, a, h, blk)
            /\ ci' = [n |-> Size(f), kw |-> f.kd = 1]
            /\ at' = IF f.kd = 1 THEN "keywords" ELSE "ready"
  <2>1. blk \in {Nil, Block}
    BY <1>3, <1>4
  <2>2. Served(regs', f, a, h, blk)
    BY <1>7, <1>8, <1>11, <2>1, EnteredFacts
  <2>3. Declared(f, c) = Dealt(f, a)
    BY <1>4, <1>6, <1>11, DeclaredFacts
  <2>4. /\ regs' = [r \in Regs |-> regs'[r]]
        /\ Read(regs', 1, Size(p)) = Declared(p, sent)
        /\ p.kd = 1 => regs'[Size(p) + 1] = Hash(sent.kw.keys)
        /\ regs'[Size(p) + p.kd + 1] = sent.blk
        /\ \A r \in Size(p) + p.kd + 2 .. NLocals(p) - 1 : regs'[r] = Nil
    BY <1>2, <1>4, <1>8, <2>2, <2>3 DEF Served
  <2>5. ci' = [n |-> ci'.n, kw |-> ci'.kw] /\ ci'.n \in Nat /\ ci'.kw \in BOOLEAN
        /\ (p.kd = 1 => ci'.kw /\ ci'.n = Size(p))
    <3>1. Size(f) \in Nat
      BY ParamFacts
    <3>2. CASE f.kd = 1
      <4>1. ci' = [n |-> Size(f), kw |-> TRUE]
        BY <1>11, <3>2
      <4> QED  BY <1>2, <3>1, <4>1
    <3>3. CASE f.kd # 1
      <4>1. ci' = [n |-> Size(f), kw |-> FALSE]
        BY <1>11, <3>3
      <4> QED  BY <1>2, <3>1, <3>3, <4>1
    <3> QED  BY <3>2, <3>3
  <2>6. at' = (IF p.kd = 1 THEN "keywords" ELSE "ready") /\ ~WrongCount(p, Len(Counted(p, sent)))
        /\ (p.noblock => sent.blk = Nil)
    BY <1>2, <1>4, <1>6, <1>11
  <2> QED  BY <1>1, <2>4, <2>5, <2>6, BoundStep
<1> QED  BY <1>5, <1>9, <1>10, <1>11

\* The keyword Hash is behind the parameters, where the frame says.
LEMMA KeywordFacts ==
  ASSUME IInv, at = "keywords"
  PROVE  /\ p \in Params /\ sent \in Calls /\ p.kd = 1 /\ hops \in Nat
         /\ taken \subseteq p.required \cup p.optional /\ taken \subseteq sent.kw.keys
         /\ Left = sent.kw.keys \ taken
         /\ frame_kidx(ci) = Size(p) + 1 /\ Size(p) \in Nat
         /\ regs[Size(p) + 1] = Hash(sent.kw.keys \ taken)
         /\ Size(p) + 1 \in Regs
<1>1. /\ p \in Params /\ sent \in Calls /\ p.kd = 1 /\ ci.kw /\ ci.n = Size(p) /\ hops \in Nat
      /\ taken \subseteq p.required \cup p.optional /\ taken \subseteq sent.kw.keys
      /\ regs[Size(p) + 1] = Hash(sent.kw.keys \ taken)
  BY DEF IInv, Typed, Prologue, BindsAsDeclared
<1>2. Size(p) \in Nat /\ Size(p) # CALL_MAXARGS /\ NLocals(p) = Size(p) + p.kd + 3 /\ MaxReg >= NLocals(p)
  BY <1>1, ParamFacts
<1>3. frame_kidx(ci) = Size(p) + 1
  BY <1>1, <1>2 DEF frame_kidx, Width
<1>4. Left = sent.kw.keys \ taken
  BY <1>1, <1>3, ValueFacts DEF Left
<1>5. Size(p) + 1 \in Regs
  BY <1>1, <1>2, SizeFacts
<1> QED  BY <1>1, <1>2, <1>3, <1>4, <1>5

LEMMA KargStep ==
  ASSUME IInv, NEW k \in Keys, Karg(k)
  PROVE  IInv'
<1>1. /\ p \in Params /\ sent \in Calls /\ p.kd = 1 /\ hops \in Nat
      /\ taken \subseteq p.required \cup p.optional /\ taken \subseteq sent.kw.keys
      /\ Left = sent.kw.keys \ taken
      /\ frame_kidx(ci) = Size(p) + 1 /\ Size(p) \in Nat
      /\ regs[Size(p) + 1] = Hash(sent.kw.keys \ taken) /\ Size(p) + 1 \in Regs
      /\ at = "keywords" /\ UNCHANGED <<ci, p, sent, hops>>
  BY KeywordFacts DEF Karg
<1>2. (k \in p.required \ taken) \/ (k \in p.optional \cap Left)
  BY DEF Karg
<1>3. CASE k \in Left
  <2>1. taken' = taken \cup {k} /\ at' = at
    BY <1>3 DEF Karg
  <2>2. regs' = [regs EXCEPT ![Size(p) + 1] = Hash(@.keys \ {k})]
    BY <1>1, <1>3 DEF Karg
  <2>3. regs = [r \in Regs |-> regs[r]]
    BY DEF IInv, Typed
  <2>4. /\ regs' = [r \in Regs |-> regs'[r]]
        /\ \A r \in Regs : regs'[r] = IF r = Size(p) + 1 THEN Hash(regs[Size(p) + 1].keys \ {k}) ELSE regs[r]
    BY <1>1, <2>2, <2>3
  <2>5. sent.kw.keys \ taken' = (sent.kw.keys \ taken) \ {k}
    BY <2>1
  <2>6. regs'[Size(p) + 1] = Hash(sent.kw.keys \ taken')
    <3>1. regs'[Size(p) + 1] = Hash(regs[Size(p) + 1].keys \ {k})
      BY <1>1, <2>4
    <3>2. regs[Size(p) + 1].keys = sent.kw.keys \ taken
      BY <1>1, ValueFacts
    <3> QED  BY <2>5, <3>1, <3>2
  <2>7. PICK size \in Nat : size = Size(p)
    BY <1>1
  <2>8. /\ NLocals(p) = size + 4 /\ MaxReg >= size + 4 /\ p.kd = 1
    <3>1. NLocals(p) = Size(p) + p.kd + 3 /\ MaxReg >= NLocals(p)
      BY <1>1, ParamFacts
    <3> QED  BY <1>1, <2>7, <3>1
  <2>9. \A r \in 1 .. size + 3 : r # size + 1 => regs'[r] = regs[r]
    <3>1. \A r \in 1 .. size + 3 : r \in Regs
      BY <2>8, SizeFacts
    <3> QED  BY <2>4, <2>7, <3>1
  <2>10. Read(regs', 1, Size(p)) = Read(regs, 1, Size(p))
    <3>1. \A i \in 1..size : regs'[1 + i - 1] = regs[1 + i - 1]
      <4>1. \A i \in 1..size : 1 + i - 1 \in 1 .. size + 3 /\ 1 + i - 1 # size + 1
        OBVIOUS
      <4> QED  BY <2>9, <4>1
    <3> QED  BY <2>7, <3>1 DEF Read
  <2>11. regs'[Size(p) + p.kd + 1] = regs[Size(p) + p.kd + 1]
    <3>1. size + 2 \in 1 .. size + 3 /\ size + 2 # size + 1 /\ Size(p) + p.kd + 1 = size + 2
      BY <2>7, <2>8
    <3> QED  BY <2>9, <3>1
  <2>12. \A r \in Size(p) + p.kd + 2 .. NLocals(p) - 1 : regs'[r] = regs[r]
    <3>1. \A r \in Size(p) + p.kd + 2 .. NLocals(p) - 1 : r \in 1 .. size + 3 /\ r # size + 1
      BY <2>7, <2>8
    <3> QED  BY <2>9, <3>1
  <2>13. /\ ~WrongCount(p, Len(Counted(p, sent)))
         /\ Read(regs, 1, Size(p)) = Declared(p, sent)
         /\ regs[Size(p) + p.kd + 1] = sent.blk
         /\ \A r \in Size(p) + p.kd + 2 .. NLocals(p) - 1 : regs[r] = Nil
         /\ p.noblock => sent.blk = Nil
    BY <1>1 DEF IInv, BindsAsDeclared
  <2>14. BindsAsDeclared'
    BY <1>1, <2>1, <2>6, <2>10, <2>11, <2>12, <2>13 DEF BindsAsDeclared
  <2>15. Typed'
    BY <1>1, <2>1, <2>4 DEF IInv, Typed
  <2>16. Carried' /\ KeywordsReachTheirNames'
    BY <1>1, <2>1 DEF Carried, KeywordsReachTheirNames
  <2>17. Prologue'
    <3>1. taken' \subseteq p.required \cup p.optional /\ taken' \subseteq sent.kw.keys
      BY <1>1, <1>2, <1>3, <2>1
    <3> QED  BY <1>1, <2>1, <3>1 DEF IInv, Prologue
  <2> QED  BY <2>14, <2>15, <2>16, <2>17 DEF IInv
<1>4. CASE k \notin Left
  <2>1. at' = "missing" /\ UNCHANGED <<regs, taken>>
    BY <1>4 DEF Karg
  <2>2. ~(p.required \subseteq sent.kw.keys)
    BY <1>1, <1>2, <1>4
  <2>3. Typed' /\ Carried' /\ Prologue' /\ BindsAsDeclared'
    BY <1>1, <2>1 DEF IInv, Typed, Stops, Carried, Prologue, BindsAsDeclared
  <2>4. KeywordsReachTheirNames'
    BY <1>1, <2>1, <2>2 DEF KeywordsReachTheirNames
  <2> QED  BY <2>3, <2>4 DEF IInv
<1> QED  BY <1>3, <1>4

LEMMA KeyendStep ==
  ASSUME IInv, Keyend
  PROVE  IInv'
<1>1. /\ p \in Params /\ sent \in Calls /\ p.kd = 1
      /\ taken \subseteq p.required \cup p.optional /\ taken \subseteq sent.kw.keys
      /\ Left = sent.kw.keys \ taken /\ at = "keywords"
      /\ p.required \subseteq taken /\ p.optional \cap Left = {}
      /\ UNCHANGED <<regs, ci, p, taken, sent, hops>>
      /\ at' = IF ~p.kwrest /\ Left # {} THEN "unknown" ELSE "ready"
  BY KeywordFacts DEF Keyend
<1>2. Typed' /\ Carried' /\ Prologue'
  BY <1>1 DEF IInv, Typed, Stops, Carried, Prologue
<1>3. BindsAsDeclared'
  BY <1>1 DEF IInv, BindsAsDeclared
<1>4. KeywordsReachTheirNames'
  <2>1. taken = p.required \cup (p.optional \cap sent.kw.keys) /\ p.required \subseteq sent.kw.keys
    BY <1>1
  <2>2. CASE ~p.kwrest /\ Left # {}
    <3>1. ~(sent.kw.keys \subseteq p.required \cup p.optional)
      BY <1>1, <2>2
    <3> QED  BY <1>1, <2>2, <3>1 DEF KeywordsReachTheirNames
  <2>3. CASE ~(~p.kwrest /\ Left # {})
    <3>1. ~p.kwrest => sent.kw.keys \subseteq p.required \cup p.optional
      BY <1>1, <2>3
    <3> QED  BY <1>1, <2>1, <2>3, <3>1 DEF KeywordsReachTheirNames
  <2> QED  BY <2>2, <2>3
<1> QED  BY <1>2, <1>3, <1>4 DEF IInv

---------------------------------------------------------------------------
(* The theorems. *)

LEMMA StartsIn ==
  ASSUME Init
  PROVE  IInv
<1>1. Typed /\ Carried /\ Prologue
  BY DEF Init, Idle, Typed, Stops, Carried, Prologue
<1>2. BindsAsDeclared /\ KeywordsReachTheirNames
  BY DEF Init, Idle, BindsAsDeclared, KeywordsReachTheirNames
<1> QED  BY <1>1, <1>2 DEF IInv

LEMMA ReturnStep ==
  ASSUME IInv, Return
  PROVE  IInv'
<1>1. Typed' /\ Carried' /\ Prologue'
  BY DEF Return, Typed, Stops, Carried, Prologue
<1>2. BindsAsDeclared' /\ KeywordsReachTheirNames'
  BY DEF Return, BindsAsDeclared, KeywordsReachTheirNames
<1> QED  BY <1>1, <1>2 DEF IInv

LEMMA StutterStep ==
  ASSUME IInv, UNCHANGED vars
  PROVE  IInv'
<1>1. Typed' /\ Carried' /\ Prologue'
  BY DEF IInv, vars, Typed, Carried, Prologue
<1>2. BindsAsDeclared' /\ KeywordsReachTheirNames'
  BY DEF IInv, vars, BindsAsDeclared, KeywordsReachTheirNames
<1> QED  BY <1>1, <1>2 DEF IInv

LEMMA StaysIn ==
  ASSUME IInv, [Next]_vars
  PROVE  IInv'
<1>1. ASSUME NEW args \in ArgLists, NEW kw \in {None} \cup {Hash(ks) : ks \in SUBSET Keys},
             NEW packed \in BOOLEAN, NEW hashed \in BOOLEAN, NEW blk \in {None, Nil, Block, ToProc},
             Site(args, packed, kw, hashed, blk)
      PROVE  IInv'
  BY <1>1, SiteStep
<1>2. ASSUME NEW f \in Params, PushMethod(f) \/ CallProc(f) \/ InFrame(f) \/ Nested(f)
      PROVE  IInv'
  BY <1>2, PushMethodStep, NativeStep
<1>3. ASSUME NEW k \in Keys, Karg(k)  PROVE IInv'
  BY <1>3, KargStep
<1>4. CASE Redirect \/ Missing \/ Zsuper
  BY <1>4, RedirectStep, MissingStep, ZsuperStep
<1>5. CASE EnterFast \/ EnterSlow \/ Keyend \/ Return \/ UNCHANGED vars
  BY <1>5, EnterFastStep, EnterSlowStep, KeyendStep, ReturnStep, StutterStep
<1> QED  BY <1>1, <1>2, <1>3, <1>4, <1>5 DEF Next

LEMMA InvariantHolds == Spec => []IInv
<1>1. Init => IInv
  BY StartsIn
<1>2. IInv /\ [Next]_vars => IInv'
  BY StaysIn
<1> QED  BY <1>1, <1>2, PTL DEF Spec

LEMMA SafeStates ==
  ASSUME IInv
  PROVE  FrameCarriesTheCall /\ BindsAsDeclared /\ KeywordsReachTheirNames
<1>1. FrameCarriesTheCall
  BY CarriedFacts DEF FrameCarriesTheCall
<1> QED  BY <1>1 DEF IInv

\* However a call is made and sent on - arguments one by one or in an Array,
\* keywords in pairs or in a Hash, through send, a method_missing, a native or
\* super - its registers read back as what the program sent: send_args,
\* frame_kidx and frame_bidx find what prepare_call, relay_args,
\* push_frame_at and op_argary have written.
THEOREM CallsAlwaysArrive == Spec => []FrameCarriesTheCall
<1>1. IInv => FrameCarriesTheCall
  BY SafeStates
<1> QED  BY <1>1, InvariantHolds, PTL

\* OP_ENTER gives every parameter the argument Ruby gives it, for any parameter
\* list and any number of arguments, with the keyword Hash and the block behind
\* the parameters, and refuses a call for its count exactly when that is wrong.
THEOREM ParametersAreAlwaysBound == Spec => []BindsAsDeclared
<1>1. IInv => BindsAsDeclared
  BY SafeStates
<1> QED  BY <1>1, InvariantHolds, PTL

\* OP_KARG and OP_KEYEND hand every keyword to the parameter of its name, let no
\* body start with a required one missing or one too many, and complain only
\* of what is so.
THEOREM KeywordsAlwaysReachTheirNames == Spec => []KeywordsReachTheirNames
<1>1. IInv => KeywordsReachTheirNames
  BY SafeStates
<1> QED  BY <1>1, InvariantHolds, PTL

=============================================================================
